----------------------------- MODULE WingFrame ------------------------------
(***************************************************************************)
(* A sender that frames with wing_send_frame, a serial line that keeps     *)
(* every byte and their order, and a receiver that feeds wing_parser_feed  *)
(* byte by byte.  The line holds the frames accepted and not fully read:   *)
(* cursor says which byte comes next, so a read may return any number of   *)
(* bytes and may end anywhere inside a frame or inside an escape pair.     *)
(***************************************************************************)
EXTENDS WingParser

CONSTANTS Cmds,           \* the command letters the tools send
          Payloads,       \* payloads handed to wing_send_frame
          MaxSent         \* bound: frames sent in one behaviour

ASSUME CmdsAssumption == Cmds \subseteq (0 .. 127) \ {Star, Esc}
ASSUME PayloadsAssumption == Payloads \subseteq Seq(Byte)
ASSUME MaxSentAssumption == MaxSent \in Nat

Frame == [cmd : Cmds, payload : Payloads]

\* What the callback gets: command, payload, and the check byte received.
Delivery == [cmd : Byte, payload : Seq(Byte), check : Byte]

VARIABLES sent,           \* frames wing_send_frame accepted
          cursor,         \* next byte on the line: frame, unit, byte in the unit
          parser,         \* the receiver's struct wing_frame_parser
          delivered       \* calls of the frame callback

vars == <<sent, cursor, parser, delivered>>

Cursor == [frame : Nat \ {0}, unit : Nat \ {0}, byte : {1, 2}]

At(frame, unit, byte) == [frame |-> frame, unit |-> unit, byte |-> byte]

TypeOK ==
  /\ sent \in Seq(Frame)
  /\ cursor \in Cursor
  /\ parser \in Parser
  /\ delivered \in Seq(Delivery)

Init ==
  /\ sent = <<>>
  /\ cursor = At(1, 1, 1)
  /\ parser = Idle
  /\ delivered = <<>>

\* Without the length check.
SendAny(f) ==
  /\ Len(sent) < MaxSent
  /\ sent' = Append(sent, f)
  /\ UNCHANGED <<cursor, parser, delivered>>

\* wing_send_frame returns -1, and writes nothing, when the payload is too long.
Send(f) ==
  /\ Len(sent) < MaxSent
  /\ Len(f.payload) <= MaxPayload
  /\ sent' = Append(sent, f)
  /\ UNCHANGED <<cursor, parser, delivered>>

Pending == cursor.frame <= Len(sent)

NextByte == Units(sent[cursor.frame])[cursor.unit][cursor.byte]

Advance(c) ==
  LET u == Units(sent[c.frame]) IN
  IF c.byte < Len(u[c.unit]) THEN At(c.frame, c.unit, c.byte + 1)
  ELSE IF c.unit < Len(u)    THEN At(c.frame, c.unit + 1, 1)
  ELSE At(c.frame + 1, 1, 1)

Callback(p, b) ==
  IF Emits(p, b)
    THEN Append(delivered, [cmd |-> p.cmd, payload |-> p.payload, check |-> b])
    ELSE delivered

Receive ==
  /\ Pending
  /\ delivered' = Callback(parser, NextByte)
  /\ parser' = Feed(parser, NextByte)
  /\ cursor' = Advance(cursor)
  /\ UNCHANGED sent

Next == (\E f \in Frame : Send(f)) \/ Receive

Spec == Init /\ [][Next]_vars

\* The tools' receive loops read whatever the line holds, poll after poll.
FairSpec == Spec /\ WF_vars(Receive)

-----------------------------------------------------------------------------
Genuine(d, f) == d.cmd = f.cmd /\ d.payload = f.payload

(* Whatever the payload holds (stars, bytes that look like escapes or like *)
(* checks), the callback has seen exactly the frames fully read from the   *)
(* line, each as it was sent.                                              *)
RoundTrip ==
  /\ Len(delivered) = cursor.frame - 1
  /\ \A i \in 1 .. Len(delivered) : Genuine(delivered[i], sent[i])

(* A callback on an undamaged line never reports a bad checksum: the check *)
(* byte received is the checksum of the payload the parser rebuilt.        *)
ChecksGood ==
  \A i \in 1 .. Len(delivered) :
    delivered[i].check = Checksum(delivered[i].payload)

(* Between two frames nothing of an earlier frame stays in the parser:     *)
(* its command, payload and flags are those of a new parser.               *)
CleanBetweenFrames ==
  cursor.unit = 1 => parser = Idle

\* The protocol implements a queue of frames.
received == [i \in 1 .. Len(delivered) |->
               [cmd |-> delivered[i].cmd, payload |-> delivered[i].payload]]

Channel == INSTANCE FrameChannel WITH Frames <- Frame, delivered <- received

ImplementsChannel == Channel!Spec

(* Every frame sent reaches the callback once the receiver keeps reading.  *)
EventuallyDelivered ==
  \A n \in 1 .. MaxSent : (Len(sent) >= n) ~> (Len(delivered) >= n)
=============================================================================
