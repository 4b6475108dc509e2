------------------------------- MODULE PinSpi --------------------------------
(***************************************************************************)
(* tools/fpga-pin-monitor: how test_all_pins reads and writes the FPGA's   *)
(* registers, bit by bit (all_pin_monitor.v, sections 2 and 3; read_reg,   *)
(* write_reg and their callers).  The FPGA does not look at chip select:   *)
(* it finds a frame by its preamble alone, and a transfer that stops       *)
(* half-way leaves it inside a frame.                                      *)
(*                                                                         *)
(* A register's value is a model word [reg, pin]; of MISO it is kept which *)
(* bit of which word is out.  What the registers count is PinTelemetry.    *)
(***************************************************************************)
EXTENDS Integers, SequencesExt

CONSTANTS Preamble,     \* 0xA55A, as bits
          DataBits,     \* 32 of them in a frame
          Pins,         \* the pins the host asks about
          Fixed,        \* other registers it reads: 0 .. 2 and 16 .. 23
          MaxFails      \* bound: transfers that fail

CmdBits == 8
TrailerBits == 8
FrameBits == CmdBits + DataBits + TrailerBits   \* after the preamble

ASSUME SpiAssumption ==
    /\ Preamble \in Seq({0, 1}) /\ Preamble # << >>
    /\ DataBits \in Nat /\ DataBits >= CmdBits
    /\ Pins \subseteq 0 .. 251 /\ Fixed \subseteq 0 .. 2 \cup 16 .. 23
    /\ MaxFails \in Nat

NoWord == [reg |-> -1, pin |-> -1]      \* all bits 0
Word(reg, sel) == [reg |-> reg, pin |-> IF reg \in 4 .. 6 THEN sel ELSE -1]

VARIABLES fpga,         \* the framing engine: active, cnt, sync, cmd, wdata
          sel_pin,
          clearing,     \* rst_counters
          out,          \* reg_rdata_shift: a word and the bit to go out next
          op, todo,     \* what the host does, and the transfers still to make
          bit,          \* bits of the first transfer that are out
          rx,           \* the word received so far; ok: its bits fit together
          words,        \* what the transfers of the operation returned
          whole,        \* history: whole transfers since the last one that
                        \* was not, at most Enough
          fails,        \* history: transfers that failed
          cleared       \* history: the counters were reset by the operation

spi == <<fpga, sel_pin, clearing, out>>
spiVars == <<fpga, sel_pin, clearing, out, op, todo, bit, rx, words, whole, fails, cleared>>

-----------------------------------------------------------------------------
(* The FPGA.                                                               *)

ToNat(bits) == FoldLeft(LAMBDA n, b : 2 * n + b, 0, bits)
ShiftIn(bits, b) == Append(Tail(bits), b)
Zeros(n) == [i \in 1 .. n |-> 0]

(* A plausible slip: the frame is taken to be one bit longer.               *)
LastBitLate == FrameBits

LastBit == FrameBits - 1

Writes == fpga.active /\ fpga.cnt = CmdBits + DataBits - 1 /\ fpga.cmd[1] = 0

Reg == ToNat(Tail(fpga.cmd))

(* The rising edge of the clock.                                            *)
Rise(mosi) ==
    LET sync == ShiftIn(fpga.sync, mosi)
    IN  /\ fpga' =
             IF ~fpga.active
             THEN IF sync = Preamble
                  THEN [fpga EXCEPT !.sync = sync, !.active = TRUE, !.cnt = 0,
                                    !.cmd = Zeros(CmdBits)]
                  ELSE [fpga EXCEPT !.sync = sync]
             ELSE [active |-> fpga.cnt # LastBit,
                   cnt |-> IF fpga.cnt = LastBit THEN 0 ELSE fpga.cnt + 1,
                   sync |-> IF fpga.cnt = LastBit THEN Zeros(Len(Preamble)) ELSE fpga.sync,
                   cmd |-> IF fpga.cnt < CmdBits THEN ShiftIn(fpga.cmd, mosi) ELSE fpga.cmd,
                   wdata |-> IF fpga.cnt \in CmdBits .. CmdBits + DataBits - 1
                             THEN ShiftIn(fpga.wdata, mosi) ELSE fpga.wdata]
        /\ clearing' = (Writes /\ Reg = 2 /\ mosi = 1)
        /\ sel_pin' = IF Writes /\ Reg = 3 THEN ToNat(ShiftIn(fpga.wdata, mosi)) ELSE sel_pin
        /\ cleared' = (cleared \/ clearing)

(* A plausible slip: the register is latched one bit late.                  *)
FallLate ==
    out' = CASE ~fpga'.active -> [word |-> NoWord, next |-> 0]
             [] fpga'.active /\ fpga'.cnt = CmdBits + 1 ->
                    [word |-> Word(Reg', sel_pin'), next |-> 1]
             [] fpga'.active /\ fpga'.cnt \in CmdBits + 2 .. CmdBits + DataBits - 1 ->
                    [out EXCEPT !.next = @ + 1]
             [] OTHER -> [word |-> NoWord, next |-> 0]

(* The falling edge.  Before the first data bit the register is 0.          *)
Fall ==
    out' = CASE ~fpga'.active -> [word |-> NoWord, next |-> 0]
             [] fpga'.active /\ fpga'.cnt = CmdBits ->
                    [word |-> Word(Reg', sel_pin'), next |-> 1]
             [] fpga'.active /\ fpga'.cnt \in CmdBits + 1 .. CmdBits + DataBits - 1 ->
                    [out EXCEPT !.next = @ + 1]
             [] OTHER -> [word |-> NoWord, next |-> 0]

-----------------------------------------------------------------------------
(* The host.                                                               *)

Enough == 5

ReadReg(reg) == [reg |-> reg, write |-> FALSE, val |-> 0]
WriteReg(reg, val) == [reg |-> reg, write |-> TRUE, val |-> val]

Bits(n, width) == [i \in 1 .. width |-> (n \div 2 ^ (width - i)) % 2]

Frame(t) == Preamble \o <<IF t.write THEN 0 ELSE 1>> \o Bits(t.reg, CmdBits - 1)
                \o Bits(t.val, DataBits) \o Zeros(TrailerBits)

(* read_pin_telemetry, clear_counters, get_activity_masks and the reads that*)
(* only keep the clock running.                                             *)
Telemetry(i) == <<WriteReg(3, i), ReadReg(4), ReadReg(5), ReadReg(6)>>
ClearOperation == <<WriteReg(2, 1)>>
Poll(reg) == <<ReadReg(reg)>>
Operations == {Telemetry(i) : i \in Pins} \cup {Poll(r) : r \in Fixed} \cup {ClearOperation}

Transfers == {WriteReg(3, i) : i \in Pins} \cup {ReadReg(r) : r \in {4, 5, 6} \cup Fixed}
                 \cup {WriteReg(2, 1)}

(* The preamble is found nowhere in a frame but at its start, so that the   *)
(* engine is not set off again by the rest of a frame it has missed.        *)
NoEcho ==
    \A t \in Transfers :
        LET frame == Frame(t)
        IN  \A k \in 1 .. FrameBits : \E i \in 1 .. Len(Preamble) : frame[k + i] # Preamble[i]

ASSUME SyncAssumption == Preamble[1] = 1 /\ NoEcho

SpiInit ==
    /\ fpga = [active |-> FALSE, cnt |-> 0, sync |-> Zeros(Len(Preamble)),
               cmd |-> Zeros(CmdBits), wdata |-> Zeros(CmdBits)]
    /\ sel_pin = 0 /\ clearing = FALSE
    /\ out = [word |-> NoWord, next |-> 0]
    /\ op = << >> /\ todo = << >> /\ bit = 0
    /\ rx = [word |-> NoWord, ok |-> TRUE] /\ words = << >>
    /\ whole = Enough /\ fails = 0 /\ cleared = FALSE

Begin == /\ todo = << >>
         /\ op' \in Operations /\ todo' = op'
         /\ words' = << >> /\ cleared' = FALSE
         /\ UNCHANGED <<spi, bit, rx, whole, fails>>

(* The bit of the answer that is at MISO when the clock rises.              *)
DataBit == bit + 1 - Len(Preamble) - CmdBits

Receive ==
    rx' = CASE DataBit = 1 -> [word |-> out.word, ok |-> out.next <= 1]
            [] DataBit \in 2 .. DataBits ->
                   [rx EXCEPT !.ok = @ /\ out.word = rx.word
                                       /\ out.word # NoWord => out.next = DataBit]
            [] OTHER -> rx

ClockBit ==
    /\ todo # << >> /\ bit < Len(Preamble) + FrameBits
    /\ Rise(Frame(todo[1])[bit + 1]) /\ Fall /\ Receive
    /\ bit' = bit + 1
    /\ UNCHANGED <<op, todo, words, whole, fails>>

Returns(word) ==
    /\ words' = IF todo[1].write THEN words ELSE Append(words, word)
    /\ todo' = Tail(todo) /\ bit' = 0
    /\ rx' = [word |-> NoWord, ok |-> TRUE]
    /\ UNCHANGED <<spi, op, cleared>>

Done == /\ bit = Len(Preamble) + FrameBits
        /\ Returns(IF rx.ok THEN rx.word ELSE NoWord)
        /\ whole' = IF whole < Enough THEN whole + 1 ELSE whole
        /\ UNCHANGED fails

(* The ioctl fails, wherever the transfer was: the error is printed, a read *)
(* returns 0, and the host goes on.                                         *)
Fails == /\ todo # << >> /\ bit < Len(Preamble) + FrameBits
         /\ Returns(NoWord)
         /\ whole' = 0 /\ fails < MaxFails /\ fails' = fails + 1

SpiNext == Begin \/ ClockBit \/ Done \/ Fails

SpiSpec == SpiInit /\ [][SpiNext]_spiVars

-----------------------------------------------------------------------------
Finished == todo = << >> /\ op # << >>
AllWhole == whole > Len(op) \/ whole = Enough

SpiTypeOK ==
    /\ fpga.active \in BOOLEAN /\ fpga.cnt \in 0 .. FrameBits - 1
    /\ Len(fpga.sync) = Len(Preamble)
    /\ sel_pin \in 0 .. 255 /\ clearing \in BOOLEAN
    /\ out.next \in 0 .. DataBits
    /\ bit \in 0 .. Len(Preamble) + FrameBits
    /\ whole \in 0 .. Enough /\ fails \in 0 .. MaxFails /\ cleared \in BOOLEAN

(* The module is "a self-synchronizing SPI slave" (all_pin_monitor.v:34):   *)
(* wherever in a frame a transfer stopped, at the end of the next whole     *)
(* transfer the engine waits for a preamble again, so that one frame is     *)
(* lost and no more.                                                        *)
InSyncAgain == bit = 0 /\ whole >= 1 => ~fpga.active

(* If the transfers of an operation and the one before were whole, it does  *)
(* what it is for: read_pin_telemetry returns the registers of the pin it   *)
(* was asked for, and the counters are reset by clear_counters and by       *)
(* nothing else, as no frame is taken for another.                          *)
OperationsWork ==
    Finished /\ AllWhole =>
        /\ cleared <=> op = ClearOperation
        /\ \A i \in Pins : op = Telemetry(i) => words = <<Word(4, i), Word(5, i), Word(6, i)>>

=============================================================================
