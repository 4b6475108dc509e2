---------------------------- MODULE TrionConfig -----------------------------
(***************************************************************************)
(* software/fpgaconfig_trion/fpgaconfig_trion.c: load a bitstream into an  *)
(* Efinix Trion over SPI.  Reset and chip select are sysfs LEDs; the bytes *)
(* of the file go through a FIFO of FIFO_SIZE bytes on the stack, followed *)
(* by zeros for extra clocks.  The FPGA is modelled from how the tool uses *)
(* it: it takes bytes while selected, after a rising reset while selected. *)
(*                                                                         *)
(* Byte number k of the bitstream is k, a zero byte is 0.                  *)
(***************************************************************************)
EXTENDS Integers, Sequences

CONSTANTS FifoSize,     \* FIFO_SIZE, 4096
          MaxBytes,     \* longest bitstream considered
          TailBytes     \* the 1000 zero bytes after it

ASSUME TrionAssumption ==
    /\ FifoSize \in Nat \ {0} /\ MaxBytes \in Nat
    /\ TailBytes \in 1 .. FifoSize

VARIABLES pc,           \* "open", "reset", "fopen", "read", "rest", "tail", "cleanup", ...
          bytes,        \* length of the bitstream
          missed,       \* history: a write of the reset sequence was lost
          step,         \* next write of the reset sequence
          pins,         \* the lines: [reset, cs]
          fpga,         \* [ready, got]: takes bytes, and those it took
          mem, pos,     \* tx_buffer and what lies behind it, fifo_pos
          next,         \* next line of the file
          ret           \* the function's result

vars == <<pc, bytes, missed, step, pins, fpga, mem, pos, next, ret>>
given == <<bytes, missed>>

Init ==
    /\ pc = "open" /\ bytes \in 0 .. MaxBytes
    /\ missed = FALSE
    /\ pins \in [reset : {0, 1}, cs : {0, 1}]
    /\ fpga = [ready |-> FALSE, got |-> << >>]
    /\ mem = << >> /\ pos = 0 /\ next = 1 /\ step = 1 /\ ret = 0

OpenSpi ==
    /\ pc = "open"
    /\ \/ pc' = "reset" /\ UNCHANGED ret
       \/ pc' = "done" /\ ret' = -1
    /\ UNCHANGED <<given, step, pins, fpga, mem, pos, next>>

-----------------------------------------------------------------------------
ResetSequence == << <<"reset", 1>>, <<"cs", 1>>, <<"reset", 0>>, <<"cs", 0>>, <<"reset", 1>> >>

(* The FPGA after the pins change: it samples chip select as reset rises.   *)
Sampled(new) ==
    IF pins.reset = 0 /\ new.reset = 1 THEN [ready |-> new.cs = 0, got |-> << >>]
    ELSE [fpga EXCEPT !.ready = @ /\ new.reset = 1 /\ new.cs = 0]

Drive(pin, value) ==
    /\ pins' = [pins EXCEPT ![pin] = value]
    /\ fpga' = Sampled(pins')

(* A write is lost if it fails or if the file could not be opened: neither  *)
(* is noticed.                                                              *)
ResetStep ==
    /\ pc = "reset"
    /\ \/ /\ Drive(ResetSequence[step][1], ResetSequence[step][2])
          /\ UNCHANGED missed
       \/ missed' = TRUE /\ UNCHANGED <<pins, fpga>>
    /\ IF step = Len(ResetSequence) THEN pc' = "fopen" /\ UNCHANGED step
       ELSE step' = step + 1 /\ UNCHANGED pc
    /\ UNCHANGED <<bytes, mem, pos, next, ret>>

(* The result of fopen is not looked at: getline is called with NULL.       *)
OpenBitstream ==
    /\ pc = "fopen"
    /\ pc' \in {"read", "crashed"}
    /\ UNCHANGED <<given, step, pins, fpga, mem, pos, next, ret>>

-----------------------------------------------------------------------------
(* SPI_IOC_MESSAGE with the first len bytes of tx_buffer: the number of     *)
(* bytes, or an error.  A message longer than the driver's buffer, which is *)
(* FIFO_SIZE by default, may be refused.                                    *)
Transmits(buffer, len) ==
    /\ ret' = len
    /\ fpga' = IF fpga.ready THEN [fpga EXCEPT !.got = @ \o SubSeq(buffer, 1, len)] ELSE fpga

Refused == ret' = -1 /\ pc' = "cleanup" /\ UNCHANGED fpga

(* One line: its byte into the FIFO, and the FIFO out when it is full.  A   *)
(* byte behind the FIFO lands in the stack frame, or ends the process.      *)
ReadLine ==
    /\ pc = "read" /\ next <= bytes
    /\ mem' = Append(mem, next)
    /\ pos' = pos + 1
    /\ next' = next + 1
    /\ \/ pos' = FifoSize /\ Transmits(mem', FifoSize) /\ UNCHANGED pc
       \/ pos' = FifoSize /\ Refused
       \/ pos' # FifoSize /\ UNCHANGED <<pc, fpga, ret>>
       \/ pos' > FifoSize /\ pc' = "crashed" /\ UNCHANGED <<fpga, ret>>
    /\ UNCHANGED <<given, step, pins>>

EndOfFile ==
    /\ pc = "read" /\ next > bytes
    /\ pc' = "rest"
    /\ UNCHANGED <<given, step, pins, fpga, mem, pos, next, ret>>

(* A plausible slip: an off-by-one in the test for a rest.                  *)
RestLeftOff == pos > 1

RestLeft == pos > 0

SendRest ==
    /\ pc = "rest"
    /\ \/ RestLeft /\ Transmits(mem, pos) /\ pc' = "tail"
       \/ RestLeft /\ Refused
       \/ ~RestLeft /\ pc' = "tail" /\ UNCHANGED <<fpga, ret>>
    /\ UNCHANGED <<given, step, pins, mem, pos, next>>

SendTail ==
    /\ pc = "tail"
    /\ \/ Transmits([k \in 1 .. TailBytes |-> 0], TailBytes) /\ pc' = "cleanup"
       \/ Refused
    /\ UNCHANGED <<given, step, pins, mem, pos, next>>

Cleanup ==
    /\ pc = "cleanup"
    /\ pc' = "done"
    /\ Drive("cs", 1) \/ UNCHANGED <<pins, fpga>>
    /\ UNCHANGED <<given, step, mem, pos, next, ret>>

Next ==
    \/ OpenSpi \/ ResetStep \/ OpenBitstream
    \/ ReadLine \/ EndOfFile \/ SendRest \/ SendTail \/ Cleanup

Spec == Init /\ [][Next]_vars

-----------------------------------------------------------------------------
Bitstream == [k \in 1 .. bytes |-> k]
Zeros     == [k \in 1 .. TailBytes |-> 0]
Completed == pc = "done" /\ ret >= 0 /\ next > bytes

TypeOK ==
    /\ pc \in {"open", "reset", "fopen", "read", "rest", "tail", "cleanup", "done", "crashed"}
    /\ step \in 1 .. Len(ResetSequence) /\ next \in 1 .. bytes + 1
    /\ pos = Len(mem) /\ pos <= bytes /\ ret >= -1
    /\ pins \in [reset : {0, 1}, cs : {0, 1}]
    /\ fpga.ready => pins = [reset |-> 1, cs |-> 0]

(* A bitstream that does not fill the FIFO arrives whole and in order,      *)
(* after a reset that left the FPGA selected, and the zeros after it: if    *)
(* the writes of the reset sequence were not lost, which nothing tells.     *)
SmallArrives ==
    Completed /\ ~missed /\ bytes < FifoSize => fpga.got = Bitstream \o Zeros

(* "if FIFO is full, transmit data" ... "take care of remaining bytes in    *)
(* buffer" (fpgaconfig_trion.c:148, 173): whatever its length, a bitstream  *)
(* that is reported as transmitted was clocked in once, byte by byte.       *)
EachByteOnce == Completed /\ ~missed => fpga.got = Bitstream \o Zeros

(* "returns 0 if sucecssul, -1 on errors" (fpgaconfig_trion.c:62).          *)
ReturnsZero == pc = "done" => ret \in {0, -1}
=============================================================================
