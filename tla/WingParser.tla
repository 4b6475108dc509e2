----------------------------- MODULE WingParser -----------------------------
(***************************************************************************)
(* The receiving half of the panel protocol: struct wing_frame_parser and  *)
(* wing_parser_feed of linux-tools/wing_surface_common.c, as operators.    *)
(*                                                                         *)
(* A frame on the wire is  '*' cmd payload '*' check.  A payload byte that *)
(* equals the star is sent as the pair 2A 40, and only a check byte has    *)
(* its top bit set right after a star.  Feed(p, b) is the parser after one *)
(* byte; Emits(p, b) says that this byte makes it call back.               *)
(***************************************************************************)
EXTENDS Naturals, Sequences

CONSTANT MaxPayload      \* sizeof(parser->payload): 512 in the code

ASSUME MaxPayloadAssumption == MaxPayload \in Nat

Star == 42               \* WING_FRAME_STAR, 0x2A
Esc  == 64               \* 0x40, second byte of an escaped star
Byte == 0 .. 255

Parser == [in_frame : BOOLEAN, after_star : BOOLEAN, have_cmd : BOOLEAN,
           cmd : Byte, payload : Seq(Byte)]

\* A parser inside a frame.
InFrame(star, have, cmd, payload) ==
  [in_frame |-> TRUE, after_star |-> star, have_cmd |-> have,
   cmd |-> cmd, payload |-> payload]

\* wing_parser_reset: all fields zero.
Idle == [in_frame |-> FALSE, after_star |-> FALSE, have_cmd |-> FALSE,
         cmd |-> 0, payload |-> <<>>]

IsCheckAbove(b) == b > 128

IsCheck(b) == b >= 128

\* Bytes beyond the buffer are dropped without a sign.
Pushed(payload, bytes) ==
  IF Len(payload) + Len(bytes) <= MaxPayload THEN payload \o bytes ELSE payload

\* A star has been read and a new frame starts; the cmd field is left alone.
Restart(p) == InFrame(TRUE, FALSE, p.cmd, <<>>)

Push(p, bytes) == InFrame(FALSE, p.have_cmd, p.cmd, Pushed(p.payload, bytes))

Command(p, b) == InFrame(FALSE, TRUE, b, p.payload)

\* Forgets wing_parser_reset after the callback.
FeedAfterStarNoReset(p, b) ==
  IF b = Star         THEN Restart(p)
  ELSE IF b = Esc     THEN Push(p, <<Star>>)
  ELSE IF IsCheck(b)  THEN [InFrame(FALSE, p.have_cmd, p.cmd, p.payload) EXCEPT !.in_frame = FALSE]
  ELSE IF ~p.have_cmd THEN Command(p, b)
  ELSE Push(p, <<Star, b>>)

\* Resets the parser only with a callback.
FeedAfterStarKeeps(p, b) ==
  IF b = Star         THEN Restart(p)
  ELSE IF b = Esc     THEN Push(p, <<Star>>)
  ELSE IF IsCheck(b) /\ p.have_cmd THEN Idle
  ELSE IF ~p.have_cmd THEN Command(p, b)
  ELSE Push(p, <<Star, b>>)

FeedAfterStar(p, b) ==
  IF b = Star         THEN Restart(p)
  ELSE IF b = Esc     THEN Push(p, <<Star>>)
  ELSE IF IsCheck(b)  THEN Idle
  ELSE IF ~p.have_cmd THEN Command(p, b)
  ELSE Push(p, <<Star, b>>)

FeedInside(p, b) ==
  IF b = Star         THEN InFrame(TRUE, p.have_cmd, p.cmd, p.payload)
  ELSE IF ~p.have_cmd THEN Command(p, b)
  ELSE Push(p, <<b>>)

Feed(p, b) ==
  IF ~p.in_frame       THEN IF b = Star THEN Restart(p) ELSE p
  ELSE IF p.after_star THEN FeedAfterStar(p, b)
  ELSE FeedInside(p, b)

\* Takes the escape byte for a check byte.
EmitsEarly(p, b) == p.in_frame /\ p.after_star /\ p.have_cmd /\ b >= Esc

Emits(p, b) == p.in_frame /\ p.after_star /\ p.have_cmd /\ IsCheck(b)

-----------------------------------------------------------------------------
(* wing_frame_checksum: the payload summed modulo 256, exclusive-or its    *)
(* length, with the top bit forced.                                        *)

PayloadSum(s) ==
  LET sum[i \in 0 .. Len(s)] == IF i = 0 THEN 0 ELSE (sum[i - 1] + s[i]) % 256
  IN  sum[Len(s)]

\* Bit of weight w in the exclusive-or of a and b.
XorBit(a, b, w) == IF (a \div w) % 2 = (b \div w) % 2 THEN 0 ELSE w

\* Adds the top bit where the code ORs it in.
ChecksumAdds(s) == 128 + PayloadSum(s)

Checksum(s) ==
  LET sum == PayloadSum(s)
      len == Len(s)
  IN  128 + XorBit(sum, len, 1)  + XorBit(sum, len, 2)  + XorBit(sum, len, 4)
          + XorBit(sum, len, 8)  + XorBit(sum, len, 16) + XorBit(sum, len, 32)
          + XorBit(sum, len, 64)

(* The sending half, wing_send_frame: one star is doubled into 2A 40.      *)
EscapeNothing(b) == <<b>>

Escape(b) == IF b = Star THEN <<Star, Esc>> ELSE <<b>>

(* The bytes of a frame, grouped by the statement of wing_send_frame that  *)
(* appends them to its output buffer.                                      *)
Units(f) ==
  LET n == Len(f.payload) IN
  [i \in 1 .. n + 4 |->
     IF i \in {1, n + 3} THEN <<Star>>
     ELSE Escape(IF i = 2     THEN f.cmd
                 ELSE IF i = n + 4 THEN Checksum(f.payload)
                 ELSE f.payload[i - 2])]
=============================================================================
