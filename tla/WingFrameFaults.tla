-------------------------- MODULE WingFrameFaults ---------------------------
(***************************************************************************)
(* The protocol of WingFrame on a real serial line: a byte may be lost     *)
(* (receive overrun), arrive changed, or appear from nowhere.  The parser  *)
(* has no timeout and no error state; what it has is that only the byte    *)
(* pair star, check ends a frame.  The questions are how much of the       *)
(* traffic one fault may cost, and whether the parser always recovers.     *)
(***************************************************************************)
EXTENDS WingFrame, FiniteSets

CONSTANTS MaxFaults,      \* bound: faults in one behaviour
          NoiseBytes      \* the values a damaged or spurious byte may take

ASSUME MaxFaultsAssumption == MaxFaults \in Nat
ASSUME NoiseBytesAssumption == NoiseBytes \subseteq Byte

VARIABLES faults,         \* faults so far
          damaged,        \* frames during which a fault happened
          cutTail,        \* frames with a fault at their last star or check
          readAt          \* for each callback, the frame then on the line

faultVars == <<faults, damaged, cutTail, readAt>>
allVars == <<sent, cursor, parser, delivered, faults, damaged, cutTail, readAt>>

FaultTypeOK ==
  /\ TypeOK
  /\ faults \in 0 .. MaxFaults
  /\ damaged \subseteq 1 .. MaxSent /\ cutTail \subseteq damaged
  /\ readAt \in Seq(1 .. MaxSent) /\ Len(readAt) = Len(delivered)

FaultInit ==
  /\ Init
  /\ faults = 0 /\ damaged = {} /\ cutTail = {} /\ readAt = <<>>

Hear(b) ==
  /\ parser' = Feed(parser, b)
  /\ delivered' = Callback(parser, b)
  /\ readAt' = IF Emits(parser, b) THEN Append(readAt, cursor.frame) ELSE readAt

InTail == cursor.unit >= Len(sent[cursor.frame].payload) + 3

Damage ==
  /\ faults < MaxFaults
  /\ faults' = faults + 1
  /\ damaged' = damaged \union {cursor.frame}
  /\ cutTail' = IF InTail THEN cutTail \union {cursor.frame} ELSE cutTail
  /\ UNCHANGED sent

HearIntact == /\ Receive
              /\ Hear(NextByte)
              /\ UNCHANGED <<faults, damaged, cutTail>>

LoseByte == /\ Pending
            /\ Damage
            /\ cursor' = Advance(cursor)
            /\ UNCHANGED <<parser, delivered, readAt>>

GarbleByte == /\ Pending
              /\ Damage
              /\ \E b \in NoiseBytes \ {NextByte} : Hear(b)
              /\ cursor' = Advance(cursor)

SpuriousByte == /\ Pending
                /\ Damage
                /\ \E b \in NoiseBytes : Hear(b)
                /\ UNCHANGED cursor

FaultNext ==
  \/ (\E f \in Frame : Send(f)) /\ UNCHANGED faultVars
  \/ HearIntact
  \/ LoseByte
  \/ GarbleByte
  \/ SpuriousByte

FaultSpec == FaultInit /\ [][FaultNext]_allVars

-----------------------------------------------------------------------------
CallbacksDuring(i) == {k \in 1 .. Len(delivered) : readAt[k] = i}

(* A fault costs the frame it hits and, only when it hits that frame's     *)
(* last two bytes, the next one: every other frame read from the line has  *)
(* been delivered as it was sent, whatever the parser had swallowed.       *)
Recovers ==
  \A i \in 1 .. cursor.frame - 1 :
    i \notin damaged /\ i - 1 \notin cutTail =>
      \E k \in CallbacksDuring(i) : Genuine(delivered[k], sent[i])

(* A frame that arrives whole never makes the callback fire twice, not     *)
(* even when the parser was left inside an earlier, broken frame.          *)
AtMostOneCallback ==
  \A i \in (1 .. cursor.frame) \ damaged : Cardinality(CallbacksDuring(i)) <= 1

(* The bytes star, check at the end of a frame return the parser to its    *)
(* reset state, no matter what it had made of the bytes before them.       *)
TailResets ==
  [][cursor'.frame = cursor.frame + 1 /\ cursor.frame \notin cutTail'
       => parser' = Idle]_allVars
=============================================================================
