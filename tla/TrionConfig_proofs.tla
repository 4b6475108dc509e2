------------------------- MODULE TrionConfig_proofs -------------------------
(***************************************************************************)
(* A bitstream that does not fill the FIFO, for any size of the FIFO and   *)
(* any number of bytes: proofs about module TrionConfig.                   *)
(***************************************************************************)
EXTENDS TrionConfig, TLAPS

Count(n) == [k \in 1 .. n |-> k]

\* The lines before each write of the reset sequence.
Pins ==
  /\ step >= 2 => pins.reset = IF step \in {4, 5} THEN 0 ELSE 1
  /\ step \in {3, 4} => pins.cs = 1
  /\ step >= 5 => pins.cs = 0

\* What the FPGA has been sent, in each phase.
Sent ==
  /\ pc \in {"fopen", "read"} => fpga.got = <<>>
  /\ pc = "rest" => fpga.got = <<>> /\ next > bytes
  /\ pc = "tail" => fpga.got = Bitstream /\ next > bytes
  /\ pc \in {"cleanup", "done"} /\ ret >= 0 => fpga.got = Bitstream \o Zeros

Fpga == [ready : BOOLEAN, got : Seq(Nat)]

Types ==
  /\ pc \in {"open", "reset", "fopen", "read", "rest", "tail", "cleanup", "done", "crashed"}
  /\ bytes \in Nat /\ next \in 1 .. bytes + 1
  /\ mem = Count(next - 1) /\ pos = next - 1
  /\ step \in 1 .. 5 /\ ret \in Int
  /\ pins \in [reset : {0, 1}, cs : {0, 1}]
  /\ fpga \in Fpga

Small == ~missed /\ bytes < FifoSize

TInv ==
  /\ Types
  /\ Small =>
       /\ pc \in {"open", "reset"} => next = 1
       /\ pc = "open" => step = 1
       /\ pc = "reset" => Pins
       /\ pc \in {"fopen", "read", "rest", "tail"} => fpga.ready /\ pins = [reset |-> 1, cs |-> 0]
       /\ pc = "cleanup" => pins.reset = 1
       /\ Sent

-----------------------------------------------------------------------------
LEMMA CountFacts ==
  ASSUME NEW n \in Nat
  PROVE  /\ Count(n) \in Seq(Nat) /\ Len(Count(n)) = n
         /\ SubSeq(Count(n), 1, n) = Count(n)
         /\ Append(Count(n), n + 1) = Count(n + 1)
         /\ <<>> \o Count(n) = Count(n)
<1>1. Count(n) \in Seq(Nat) /\ Len(Count(n)) = n
  BY DEF Count
<1>2. SubSeq(Count(n), 1, n) = Count(n)
  BY DEF Count
<1>3. Append(Count(n), n + 1) = Count(n + 1)
  BY DEF Count
<1>4. <<>> \o Count(n) = Count(n)
  BY <1>1
<1> QED BY <1>1, <1>2, <1>3, <1>4

(* What an FPGA keeps, when it is (de)selected and when it takes bytes.      *)
LEMMA SelectFacts ==
  ASSUME NEW f \in Fpga, NEW b \in BOOLEAN
  PROVE  [f EXCEPT !.ready = b] \in Fpga /\ [f EXCEPT !.ready = b].got = f.got
BY DEF Fpga

LEMMA TakeFacts ==
  ASSUME NEW f \in Fpga, NEW s \in Seq(Nat)
  PROVE  /\ [f EXCEPT !.got = s] \in Fpga
         /\ [f EXCEPT !.got = s].got = s /\ [f EXCEPT !.got = s].ready = f.ready
BY DEF Fpga

LEMMA SampledFacts ==
  ASSUME fpga \in Fpga, NEW new
  PROVE  /\ Sampled(new) \in Fpga
         /\ ~(pins.reset = 0 /\ new.reset = 1) => Sampled(new).got = fpga.got
<1>1. (new.cs = 0) \in BOOLEAN /\ (fpga.ready /\ new.reset = 1 /\ new.cs = 0) \in BOOLEAN
  OBVIOUS
<1>2. CASE pins.reset = 0 /\ new.reset = 1
  <2>1. [ready |-> new.cs = 0, got |-> <<>>] \in Fpga
    BY <1>1 DEF Fpga
  <2> QED BY <1>2, <2>1 DEF Sampled
<1>3. CASE ~(pins.reset = 0 /\ new.reset = 1)
  <2> DEFINE b == fpga.ready /\ new.reset = 1 /\ new.cs = 0
  <2>1. b \in BOOLEAN
    OBVIOUS
  <2>2. Sampled(new) = [fpga EXCEPT !.ready = b]
    BY <1>3 DEF Sampled
  <2> HIDE DEF b
  <2>3. [fpga EXCEPT !.ready = b] \in Fpga /\ [fpga EXCEPT !.ready = b].got = fpga.got
    BY <2>1, SelectFacts
  <2> QED BY <1>3, <2>2, <2>3
<1> QED BY <1>2, <1>3

LEMMA TransmitsFacts ==
  ASSUME fpga \in Fpga, NEW buffer, NEW len, SubSeq(buffer, 1, len) \in Seq(Nat), Transmits(buffer, len)
  PROVE  /\ fpga' \in Fpga /\ fpga'.ready = fpga.ready /\ ret' = len
         /\ fpga.ready => fpga'.got = fpga.got \o SubSeq(buffer, 1, len)
<1> DEFINE s == fpga.got \o SubSeq(buffer, 1, len)
<1>1. s \in Seq(Nat)
  BY DEF Fpga
<1>2. fpga' = (IF fpga.ready THEN [fpga EXCEPT !.got = s] ELSE fpga) /\ ret' = len
  BY DEF Transmits
<1> HIDE DEF s
<1>3. [fpga EXCEPT !.got = s] \in Fpga /\ [fpga EXCEPT !.got = s].got = s
      /\ [fpga EXCEPT !.got = s].ready = fpga.ready
  BY <1>1, TakeFacts
<1> QED BY <1>2, <1>3 DEF s

LEMMA TInvInit == Init => TInv
<1> SUFFICES ASSUME Init PROVE TInv
  OBVIOUS
<1>1. bytes \in Nat
  BY TrionAssumption DEF Init
<1>2. mem = Count(next - 1)
  BY DEF Init, Count
<1>3. fpga \in Fpga
  BY DEF Init, Fpga
<1> QED BY <1>1, <1>2, <1>3 DEF Init, TInv, Types, Sent

LEMMA OpenKeepsTInv == TInv /\ OpenSpi => TInv'
BY DEF OpenSpi, given, TInv, Types, Small, Pins, Sent, Bitstream, Zeros

(* The five writes raise the reset line while the FPGA is selected.         *)
LEMMA ResetKeepsTInv == TInv /\ ResetStep => TInv'
<1> SUFFICES ASSUME TInv, ResetStep PROVE TInv'
  OBVIOUS
<1>1. /\ pc = "reset" /\ step \in 1 .. 5
      /\ IF step = 5 THEN pc' = "fopen" /\ step' = step ELSE step' = step + 1 /\ pc' = pc
      /\ bytes' = bytes /\ mem' = mem /\ pos' = pos /\ next' = next /\ ret' = ret
  BY DEF ResetStep, ResetSequence, given, TInv, Types
<1>2. /\ step \in {1, 5} => ResetSequence[step] = <<"reset", 1>>
      /\ step = 2 => ResetSequence[step] = <<"cs", 1>>
      /\ step = 3 => ResetSequence[step] = <<"reset", 0>>
      /\ step = 4 => ResetSequence[step] = <<"cs", 0>>
  BY <1>1 DEF ResetSequence
<1> DEFINE line == ResetSequence[step][1]
           level == ResetSequence[step][2]
<1>3. line \in {"reset", "cs"} /\ level \in {0, 1}
  BY <1>1, <1>2
<1>4. \/ Drive(line, level) /\ missed' = missed
      \/ missed' = TRUE /\ UNCHANGED <<pins, fpga>>
  BY DEF ResetStep
<1>5. /\ pins' \in [reset : {0, 1}, cs : {0, 1}]
      /\ ~missed' => pins'[line] = level /\ \A l \in {"reset", "cs"} \ {line} : pins'[l] = pins[l]
  BY <1>3, <1>4 DEF Drive, TInv, Types
<1>6. /\ fpga' \in Fpga
      /\ ~missed' /\ pins.reset = 0 /\ pins'.reset = 1
           => fpga' = [ready |-> pins'.cs = 0, got |-> <<>>]
  <2>1. fpga \in Fpga
    BY DEF TInv, Types
  <2>2. Drive(line, level) => fpga' = Sampled(pins') /\ Sampled(pins') \in Fpga
    BY <2>1, SampledFacts DEF Drive
  <2>3. ~Drive(line, level) => fpga' = fpga
    BY <1>4
  <2>4. fpga' \in Fpga
    BY <2>1, <2>2, <2>3
  <2>5. ASSUME ~missed', pins.reset = 0, pins'.reset = 1
        PROVE  fpga' = [ready |-> pins'.cs = 0, got |-> <<>>]
    BY <1>4, <2>2, <2>5 DEF Sampled
  <2> QED BY <2>4, <2>5
<1>7. Types'
  BY <1>1, <1>5, <1>6 DEF TInv, Types, Count
<1>8. ASSUME Small' PROVE /\ pc' = "reset" => next' = 1 /\ Pins'
                          /\ pc' = "fopen" => fpga'.ready /\ fpga'.got = <<>> /\ pins' = [reset |-> 1, cs |-> 0]
  <2>1. ~missed' /\ next = 1 /\ Pins
    BY <1>1, <1>4, <1>8 DEF Small, TInv
  <2>2. CASE step = 1
    BY <1>1, <1>2, <1>5, <2>1, <2>2 DEF Pins
  <2>3. CASE step = 2
    BY <1>1, <1>2, <1>5, <2>1, <2>3 DEF Pins
  <2>4. CASE step = 3
    BY <1>1, <1>2, <1>5, <2>1, <2>4 DEF Pins
  <2>5. CASE step = 4
    BY <1>1, <1>2, <1>5, <2>1, <2>5 DEF Pins
  <2>6. CASE step = 5
    <3>1. line = "reset" /\ level = 1 /\ pc' = "fopen" /\ pins.reset = 0 /\ pins.cs = 0
      BY <1>1, <1>2, <2>1, <2>6 DEF Pins
    <3> HIDE DEF line, level
    <3>2. pins' \in [reset : {0, 1}, cs : {0, 1}] /\ pins'.reset = 1 /\ pins'.cs = 0
      BY <1>5, <2>1, <3>1
    <3>3. fpga' = [ready |-> pins'.cs = 0, got |-> <<>>]
      BY <1>6, <2>1, <3>1, <3>2
    <3>4. fpga'.ready /\ fpga'.got = <<>>
      BY <3>2, <3>3
    <3> QED BY <3>1, <3>2, <3>4
  <2> QED BY <1>1, <2>2, <2>3, <2>4, <2>5, <2>6
<1> QED BY <1>1, <1>7, <1>8 DEF TInv, Sent

LEMMA FopenKeepsTInv == TInv /\ OpenBitstream => TInv'
BY DEF OpenBitstream, given, TInv, Types, Small, Pins, Sent, Bitstream, Zeros

(* The FIFO never fills, so that nothing is sent before the end of the file.*)
LEMMA ReadKeepsTInv == TInv /\ ReadLine => TInv'
<1> SUFFICES ASSUME TInv, ReadLine PROVE TInv'
  OBVIOUS
<1>1. /\ pc = "read" /\ next <= bytes /\ mem' = Append(mem, next) /\ pos' = pos + 1 /\ next' = next + 1
      /\ bytes' = bytes /\ missed' = missed /\ step' = step /\ pins' = pins
      /\ next - 1 \in Nat /\ bytes \in Nat /\ next \in Nat
  BY DEF ReadLine, given, TInv, Types
<1>2. mem' = Count(next' - 1) /\ mem' \in Seq(Nat) /\ Len(mem') = pos'
  <2> DEFINE n == next - 1
  <2>1. n \in Nat /\ n + 1 = next /\ next' = n + 2 /\ next \in Nat
    BY <1>1
  <2>2. mem = Count(n) /\ pos = n
    BY DEF TInv, Types
  <2> HIDE DEF n
  <2>3. Append(Count(n), n + 1) = Count(n + 1)
    BY <2>1, CountFacts
  <2>4. Count(n + 1) \in Seq(Nat) /\ Len(Count(n + 1)) = n + 1
    BY <2>1, CountFacts
  <2>5. mem' = Count(n + 1) /\ pos' = n + 1 /\ next' - 1 = n + 1
    BY <1>1, <2>1, <2>2, <2>3
  <2> QED BY <2>4, <2>5
<1>3. /\ pc' \in {"read", "cleanup", "crashed"} /\ ret' \in Int
      /\ fpga' \in Fpga
  <2>1. CASE pos' = FifoSize /\ Transmits(mem', FifoSize) /\ UNCHANGED pc
    <3>1. SubSeq(mem', 1, FifoSize) \in Seq(Nat)
      BY <1>2, <2>1
    <3>2. fpga \in Fpga
      BY DEF TInv, Types
    <3>3. fpga' \in Fpga /\ ret' = FifoSize
      BY <2>1, <3>1, <3>2, TransmitsFacts
    <3> QED BY <1>1, <2>1, <3>3, TrionAssumption
  <2>2. CASE ~(pos' = FifoSize /\ Transmits(mem', FifoSize) /\ UNCHANGED pc)
    BY <1>1, <2>2 DEF ReadLine, Refused, TInv, Types
  <2> QED BY <2>1, <2>2
<1>4. Types'
  BY <1>1, <1>2, <1>3, SMTT(60) DEF TInv, Types
<1>5. ASSUME Small' PROVE pc' = "read" /\ fpga' = fpga /\ Small
  <2>1. Small /\ pos' < FifoSize /\ pos' \in Nat /\ FifoSize \in Nat
    BY <1>1, <1>5, TrionAssumption DEF Small, TInv, Types
  <2> QED BY <1>1, <2>1 DEF ReadLine
<1> QED BY <1>1, <1>4, <1>5 DEF TInv, Sent

LEMMA EndKeepsTInv == TInv /\ EndOfFile => TInv'
BY DEF EndOfFile, given, TInv, Types, Small, Pins, Sent, Bitstream, Zeros

(* What is left in the FIFO is the whole bitstream.                         *)
LEMMA RestKeepsTInv == TInv /\ SendRest => TInv'
<1> SUFFICES ASSUME TInv, SendRest PROVE TInv'
  OBVIOUS
<1>1. /\ pc = "rest" /\ bytes' = bytes /\ missed' = missed /\ step' = step /\ pins' = pins
      /\ mem' = mem /\ pos' = pos /\ next' = next
      /\ pos \in Nat /\ bytes \in Nat /\ next \in 1 .. bytes + 1 /\ pos = next - 1 /\ mem = Count(pos)
  BY DEF SendRest, given, TInv, Types
<1>2. CASE RestLeft /\ Transmits(mem, pos) /\ pc' = "tail"
  <2>1. SubSeq(mem, 1, pos) = mem /\ mem \in Seq(Nat) /\ <<>> \o mem = mem
    BY <1>1, CountFacts
  <2>2. /\ fpga' \in Fpga /\ ret' = pos
        /\ fpga'.ready = fpga.ready
        /\ fpga.ready => fpga'.got = fpga.got \o mem
    <3>1. fpga \in Fpga
      BY DEF TInv, Types
    <3>2. SubSeq(mem, 1, pos) \in Seq(Nat) /\ Transmits(mem, pos)
      BY <1>2, <2>1
    <3>3. /\ fpga' \in Fpga /\ fpga'.ready = fpga.ready /\ ret' = pos
          /\ fpga.ready => fpga'.got = fpga.got \o SubSeq(mem, 1, pos)
      BY <3>1, <3>2, TransmitsFacts
    <3> QED BY <2>1, <3>3
  <2>3. Types'
    BY <1>1, <1>2, <2>2 DEF TInv, Types
  <2>4. ASSUME Small PROVE next > bytes /\ fpga'.got = Bitstream
    <3>1. next > bytes /\ fpga.ready /\ fpga.got = <<>>
      BY <1>1, <2>4 DEF TInv, Sent
    <3>2. mem = Bitstream
      BY <1>1, <3>1 DEF TInv, Types, Bitstream, Count
    <3> QED BY <2>1, <2>2, <3>1, <3>2
  <2>5. ASSUME Small' PROVE Small /\ fpga'.ready /\ pins' = [reset |-> 1, cs |-> 0]
    BY <1>1, <2>2, <2>5 DEF TInv, Small
  <2>6. Bitstream' = Bitstream
    BY <1>1 DEF Bitstream
  <2> QED BY <1>1, <1>2, <2>3, <2>4, <2>5, <2>6 DEF TInv, Sent
<1>3. CASE RestLeft /\ Refused
  BY <1>1, <1>3 DEF Refused, TInv, Types, Small, Sent
<1>4. CASE ~RestLeft /\ pc' = "tail" /\ UNCHANGED <<fpga, ret>>
  <2>1. pos = 0
    BY <1>1, <1>4 DEF RestLeft
  <2>2. ASSUME Small PROVE next > bytes /\ fpga.got = Bitstream
    <3>1. next > bytes /\ fpga.got = <<>>
      BY <1>1, <2>2 DEF TInv, Sent
    <3>2. bytes = 0
      BY <1>1, <2>1, <3>1
    <3>3. Bitstream = <<>>
      BY <3>2 DEF Bitstream
    <3> QED BY <3>1, <3>3
  <2> QED BY <1>1, <1>4, <2>2 DEF TInv, Types, Sent, Small, Bitstream
<1> QED BY <1>2, <1>3, <1>4 DEF SendRest

LEMMA TailKeepsTInv == TInv /\ SendTail => TInv'
<1> SUFFICES ASSUME TInv, SendTail PROVE TInv'
  OBVIOUS
<1>1. /\ pc = "tail" /\ bytes' = bytes /\ missed' = missed /\ step' = step /\ pins' = pins
      /\ mem' = mem /\ pos' = pos /\ next' = next /\ pc' = "cleanup"
  BY DEF SendTail, given, Refused
<1>2. CASE Transmits([k \in 1 .. TailBytes |-> 0], TailBytes)
  <2>1. TailBytes \in Nat /\ Zeros \in Seq(Nat) /\ SubSeq(Zeros, 1, TailBytes) = Zeros
    BY TrionAssumption DEF Zeros
  <2>2. Zeros = [k \in 1 .. TailBytes |-> 0]
    BY DEF Zeros
  <2>3. /\ fpga' \in Fpga /\ fpga'.ready = fpga.ready /\ ret' = TailBytes
        /\ fpga.ready => fpga'.got = fpga.got \o Zeros
    <3>1. fpga \in Fpga
      BY DEF TInv, Types
    <3>2. SubSeq(Zeros, 1, TailBytes) \in Seq(Nat) /\ Transmits(Zeros, TailBytes)
      BY <1>2, <2>1, <2>2
    <3>3. /\ fpga' \in Fpga /\ fpga'.ready = fpga.ready /\ ret' = TailBytes
          /\ fpga.ready => fpga'.got = fpga.got \o SubSeq(Zeros, 1, TailBytes)
      BY <3>1, <3>2, TransmitsFacts
    <3> QED BY <2>1, <3>3
  <2>4. Types'
    BY <1>1, <2>1, <2>3 DEF TInv, Types
  <2>5. ASSUME Small' PROVE pins'.reset = 1 /\ fpga'.got = Bitstream \o Zeros
    <3>1. Small
      BY <1>1, <2>5 DEF Small
    <3>2. fpga.ready /\ pins = [reset |-> 1, cs |-> 0]
      BY <1>1, <3>1 DEF TInv
    <3>3. fpga.got = Bitstream
      BY <1>1, <3>1 DEF TInv, Sent
    <3> QED BY <1>1, <2>3, <3>2, <3>3
  <2>6. Bitstream' = Bitstream /\ Zeros' = Zeros
    BY <1>1 DEF Bitstream, Zeros
  <2> QED BY <1>1, <2>4, <2>5, <2>6 DEF TInv, Sent
<1>3. CASE Refused
  BY <1>1, <1>3 DEF Refused, TInv, Types, Small, Sent
<1> QED BY <1>2, <1>3 DEF SendTail

(* Deselecting the FPGA takes nothing from what it got.                     *)
LEMMA CleanupKeepsTInv == TInv /\ Cleanup => TInv'
<1> SUFFICES ASSUME TInv, Cleanup PROVE TInv'
  OBVIOUS
<1>1. /\ pc = "cleanup" /\ pc' = "done" /\ bytes' = bytes /\ missed' = missed /\ step' = step
      /\ mem' = mem /\ pos' = pos /\ next' = next /\ ret' = ret
      /\ Drive("cs", 1) \/ UNCHANGED <<pins, fpga>>
  BY DEF Cleanup, given
<1>2. /\ pins' \in [reset : {0, 1}, cs : {0, 1}] /\ fpga' \in Fpga
      /\ pins.reset = 1 => fpga'.got = fpga.got
  <2>1. fpga \in Fpga /\ pins \in [reset : {0, 1}, cs : {0, 1}]
    BY DEF TInv, Types
  <2>2. CASE UNCHANGED <<pins, fpga>>
    BY <2>1, <2>2
  <2>3. CASE Drive("cs", 1)
    <3>1. pins' \in [reset : {0, 1}, cs : {0, 1}] /\ pins'.reset = pins.reset /\ fpga' = Sampled(pins')
      BY <2>1, <2>3 DEF Drive
    <3> QED BY <2>1, <3>1, SampledFacts
  <2> QED BY <1>1, <2>2, <2>3
<1> QED BY <1>1, <1>2 DEF TInv, Types, Small, Sent, Bitstream, Zeros

LEMMA TInvNext == TInv /\ [Next]_vars => TInv'
<1> SUFFICES ASSUME TInv, [Next]_vars PROVE TInv'
  OBVIOUS
<1>1. CASE UNCHANGED vars
  BY <1>1, ZenonT(60) DEF vars, TInv, Types, Small, Pins, Sent, Bitstream, Zeros
<1> QED
  BY <1>1, OpenKeepsTInv, ResetKeepsTInv, FopenKeepsTInv, ReadKeepsTInv, EndKeepsTInv, RestKeepsTInv, TailKeepsTInv,
     CleanupKeepsTInv DEF Next

(* Whatever the sizes of the FIFO and of the tail: a bitstream shorter than *)
(* the FIFO that is reported as transmitted was clocked in whole, in order, *)
(* behind a reset and before the zeros.                                     *)
THEOREM SmallArrivesHolds == Spec => []SmallArrives
<1>1. TInv => SmallArrives
  BY DEF TInv, Sent, Small, SmallArrives, Completed
<1> QED BY <1>1, TInvInit, TInvNext, PTL DEF Spec
=============================================================================
