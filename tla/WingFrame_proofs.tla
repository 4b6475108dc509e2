-------------------------- MODULE WingFrame_proofs --------------------------
(***************************************************************************)
(* The framing protocol is correct for every payload, and recovers from    *)
(* faults of the line: proofs about modules WingFrame and WingFrameFaults, *)
(* for all values of their constants.                                      *)
(***************************************************************************)
EXTENDS WingFrameFaults, SequenceTheorems, FiniteSetTheorems, TLAPS

Fits(f) == Len(f.payload) <= MaxPayload

\* The parser in the middle of frame f: k payload bytes stored.
Reading(f, k, star) == InFrame(star, TRUE, f.cmd, SubSeq(f.payload, 1, k))

(* What the parser p holds when the next byte is byte j of unit i of f.    *)
InPlace(p, i, j, f) ==
  LET n == Len(f.payload) IN
  /\ i \in 1 .. n + 4
  /\ i \notin 3 .. n + 2 => j = 1
  /\ i = 1 => p = Idle
  /\ i = 2 => p = Restart(Idle)
  /\ i \in 3 .. n + 3 /\ j = 1 => p = Reading(f, i - 3, FALSE)
  /\ i \in 3 .. n + 2 /\ j = 2 => p = Reading(f, i - 3, TRUE) /\ f.payload[i - 2] = Star
  /\ i = n + 4 => p = Reading(f, n, TRUE)

ParserMatches ==
  IF Pending
    THEN InPlace(parser, cursor.unit, cursor.byte, sent[cursor.frame])
    ELSE cursor.unit = 1 /\ cursor.byte = 1 /\ parser = Idle

FramesFit == \A i \in 1 .. Len(sent) : Fits(sent[i])

IInv ==
  /\ TypeOK
  /\ FramesFit
  /\ cursor.frame <= Len(sent) + 1
  /\ ParserMatches
  /\ RoundTrip
  /\ ChecksGood

-----------------------------------------------------------------------------
(* The check byte wing_send_frame appends always has its top bit set, so   *)
(* it is never taken for payload, and never needs the escape that the code *)
(* prepares for it.                                                        *)
LEMMA ChecksumIsCheck ==
  ASSUME NEW s
  PROVE  Checksum(s) \in 128 .. 255
<1>1. \A a, b : \A w \in Nat : XorBit(a, b, w) \in {0, w}
  BY DEF XorBit
<1> DEFINE X(w) == XorBit(PayloadSum(s), Len(s), w)
<1>2. /\ X(1) \in {0, 1} /\ X(2) \in {0, 2} /\ X(4) \in {0, 4} /\ X(8) \in {0, 8}
      /\ X(16) \in {0, 16} /\ X(32) \in {0, 32} /\ X(64) \in {0, 64}
  BY <1>1
<1>3. Checksum(s) = 128 + X(1) + X(2) + X(4) + X(8) + X(16) + X(32) + X(64)
  BY DEF Checksum
<1> HIDE DEF X
<1> QED BY <1>2, <1>3

(* A prefix of a payload grows by the byte that follows it.                *)
LEMMA PrefixGrows ==
  ASSUME NEW s \in Seq(Byte), NEW k \in 0 .. Len(s) - 1
  PROVE  /\ SubSeq(s, 1, k) \in Seq(Byte)
         /\ Len(SubSeq(s, 1, k)) = k
         /\ SubSeq(s, 1, k) \o <<s[k + 1]>> = SubSeq(s, 1, k + 1)
<1>1. /\ SubSeq(s, 1, k) \in Seq(Byte)
      /\ Len(SubSeq(s, 1, k)) = k
      /\ \A i \in 1 .. k : SubSeq(s, 1, k)[i] = s[i]
  OBVIOUS
<1>2. /\ SubSeq(s, 1, k + 1) \in Seq(Byte)
      /\ Len(SubSeq(s, 1, k + 1)) = k + 1
      /\ \A i \in 1 .. k + 1 : SubSeq(s, 1, k + 1)[i] = s[i]
  OBVIOUS
<1>3. s[k + 1] \in Byte
  OBVIOUS
<1> DEFINE t == SubSeq(s, 1, k) \o <<s[k + 1]>>
<1>4. t \in Seq(Byte) /\ Len(t) = k + 1
  BY <1>1, <1>3
<1>5. \A i \in 1 .. k + 1 : t[i] = s[i]
  BY <1>1, <1>3
<1>6. t = SubSeq(s, 1, k + 1)
  BY <1>2, <1>4, <1>5, SeqEqual
<1> QED BY <1>1, <1>6

LEMMA WholePrefix ==
  ASSUME NEW s \in Seq(Byte)
  PROVE  SubSeq(s, 1, Len(s)) = s
OBVIOUS

(* The units of a frame, by position.                                      *)
LEMMA UnitsOfFrame ==
  ASSUME NEW f \in Frame
  PROVE  LET n == Len(f.payload)
             u == Units(f)
         IN  /\ n \in Nat
             /\ Len(u) = n + 4
             /\ u[1] = <<Star>>
             /\ u[2] = <<f.cmd>>
             /\ \A k \in 3 .. n + 2 : u[k] = Escape(f.payload[k - 2])
             /\ u[n + 3] = <<Star>>
             /\ u[n + 4] = <<Checksum(f.payload)>>
<1> DEFINE n == Len(f.payload)
           u == Units(f)
<1>1. n \in Nat
  BY PayloadsAssumption DEF Frame
<1>2. DOMAIN u = 1 .. n + 4 /\ Len(u) = n + 4
  BY <1>1 DEF Units
<1>3. Escape(f.cmd) = <<f.cmd>>
  BY CmdsAssumption DEF Escape, Frame
<1>4. Escape(Checksum(f.payload)) = <<Checksum(f.payload)>>
  BY ChecksumIsCheck DEF Escape, Star
<1> QED BY <1>1, <1>2, <1>3, <1>4, SMTT(60) DEF Units

-----------------------------------------------------------------------------
(* One byte of a frame that fits, read by a parser that is in its place:   *)
(* either the parser is in its place for the next byte and nothing is      *)
(* delivered, or it was the check byte and the frame itself is delivered.  *)
Continues(p, i, j, f) ==
  LET u == Units(f)
      b == u[i][j]
  IN  /\ ~Emits(p, b)
      /\ \/ j < Len(u[i]) /\ j = 1 /\ InPlace(Feed(p, b), i, 2, f)
         \/ j = Len(u[i]) /\ i < Len(u) /\ InPlace(Feed(p, b), i + 1, 1, f)

Completes(p, i, j, f) ==
  LET u == Units(f)
      b == u[i][j]
  IN  /\ j = Len(u[i]) /\ i = Len(u)
      /\ b = Checksum(f.payload)
      /\ Emits(p, b)
      /\ p.cmd = f.cmd
      /\ p.payload = f.payload
      /\ Feed(p, b) = Idle

(* What one byte does to a parser that holds k payload bytes of frame f.   *)
LEMMA FeedWhileReading ==
  ASSUME NEW f, NEW k, NEW b
  PROVE  LET stored == SubSeq(f.payload, 1, k) IN
         /\ b # Star => Feed(Reading(f, k, FALSE), b)
                         = InFrame(FALSE, TRUE, f.cmd, Pushed(stored, <<b>>))
         /\ Feed(Reading(f, k, FALSE), Star) = Reading(f, k, TRUE)
         /\ b = Esc => Feed(Reading(f, k, TRUE), b)
                        = InFrame(FALSE, TRUE, f.cmd, Pushed(stored, <<Star>>))
<1>1. \A star : LET p == Reading(f, k, star) IN
        /\ p.in_frame = TRUE /\ p.after_star = star /\ p.have_cmd = TRUE
        /\ p.cmd = f.cmd /\ p.payload = SubSeq(f.payload, 1, k)
  BY DEF Reading, InFrame
<1>2. Esc # Star
  BY DEF Esc, Star
<1>3. b # Star => Feed(Reading(f, k, FALSE), b)
        = InFrame(FALSE, TRUE, f.cmd, Pushed(SubSeq(f.payload, 1, k), <<b>>))
  BY <1>1, Zenon DEF Feed, FeedInside, Push
<1>4. Feed(Reading(f, k, FALSE), Star) = Reading(f, k, TRUE)
  BY <1>1, Zenon DEF Feed, FeedInside, Reading
<1>5. b = Esc => Feed(Reading(f, k, TRUE), b)
        = InFrame(FALSE, TRUE, f.cmd, Pushed(SubSeq(f.payload, 1, k), <<Star>>))
  BY <1>1, <1>2, Zenon DEF Feed, FeedAfterStar, Push
<1> QED BY <1>3, <1>4, <1>5

LEMMA ReceiveByte ==
  ASSUME NEW f \in Frame, Fits(f),
         NEW i \in Nat, NEW j \in {1, 2}, NEW p, InPlace(p, i, j, f)
  PROVE  Continues(p, i, j, f) \/ Completes(p, i, j, f)
<1> DEFINE s == f.payload
           n == Len(s)
           u == Units(f)
           b == u[i][j]
<1>1. s \in Seq(Byte)
  BY PayloadsAssumption DEF Frame
<1>2. f.cmd \in 0 .. 127 /\ f.cmd # Star /\ f.cmd # Esc
  BY CmdsAssumption, ZenonT(60) DEF Frame
<1>3. n \in Nat /\ Len(u) = n + 4
  BY UnitsOfFrame
<1>4. u[1] = <<Star>>
  BY UnitsOfFrame
<1>5. u[2] = <<f.cmd>>
  BY UnitsOfFrame
<1>6. \A k \in 3 .. n + 2 : u[k] = Escape(s[k - 2])
  BY UnitsOfFrame
<1>7. u[n + 3] = <<Star>>
  BY UnitsOfFrame
<1>8. u[n + 4] = <<Checksum(s)>>
  BY UnitsOfFrame
<1>9. /\ i \in 1 .. n + 4
      /\ i \notin 3 .. n + 2 => j = 1
      /\ i = 1 => p = Idle
      /\ i = 2 => p = Restart(Idle)
  BY DEF InPlace
<1>10. i \in 3 .. n + 3 /\ j = 1 => p = Reading(f, i - 3, FALSE)
  BY DEF InPlace
<1>11. i \in 3 .. n + 2 /\ j = 2 => p = Reading(f, i - 3, TRUE) /\ s[i - 2] = Star
  BY DEF InPlace
<1>12. i = n + 4 => p = Reading(f, n, TRUE)
  BY DEF InPlace
<1> HIDE DEF s, n, u
<1>a. CASE i = 1
  <2>1. j = 1 /\ p = Idle
    BY <1>3, <1>9, <1>a
  <2>2. Len(u[i]) = 1 /\ b = Star
    BY <1>4, <1>a, <2>1
  <2>3. ~Emits(p, b) /\ Feed(p, b) = Restart(Idle)
    BY <2>1, <2>2 DEF Emits, Feed, Idle
  <2>4. /\ 2 \in 1 .. n + 4 /\ 2 # 1 /\ 2 # n + 4
        /\ 2 \notin 3 .. n + 2 /\ 2 \notin 3 .. n + 3
    BY <1>3
  <2>5. InPlace(Restart(Idle), 2, 1, f)
    BY <2>4, Zenon DEF InPlace, n, s
  <2>6. i < Len(u) /\ i + 1 = 2
    BY <1>3, <1>a
  <2> QED
    BY <2>1, <2>2, <2>3, <2>5, <2>6 DEF Continues, u
<1>b. CASE i = 2
  <2>1. j = 1 /\ p = Restart(Idle)
    BY <1>3, <1>9, <1>b
  <2>2. Len(u[i]) = 1 /\ b = f.cmd
    BY <1>5, <1>b, <2>1
  <2>3. ~IsCheck(b) /\ b # Star /\ b # Esc
    BY <1>2, <2>2 DEF IsCheck
  <2>4. ~Emits(p, b)
    BY <2>3 DEF Emits
  <2>5. SubSeq(s, 1, 0) = <<>>
    BY <1>1
  <2>6. Feed(p, b) = Reading(f, 0, FALSE)
    BY <2>1, <2>2, <2>3, <2>5
    DEF Feed, FeedAfterStar, Restart, InFrame, Command, Reading, s
  <2>7. /\ 3 \in 1 .. n + 4 /\ 3 # 1 /\ 3 # 2 /\ 3 # n + 4
        /\ 1 # 2 /\ 3 - 3 = 0
    BY <1>3
  <2>8. InPlace(Feed(p, b), 3, 1, f)
    BY <2>6, <2>7, Zenon DEF InPlace, n, s
  <2>9. i < Len(u) /\ i + 1 = 3
    BY <1>3, <1>b
  <2> QED
    BY <2>1, <2>2, <2>4, <2>8, <2>9 DEF Continues, u
<1>c. CASE i \in 3 .. n + 2
  <2> DEFINE k == i - 3
             x == s[k + 1]
  <2>1. /\ k \in 0 .. n - 1 /\ k + 1 = i - 2
        /\ i \in 3 .. n + 3 /\ i < Len(u)
    BY <1>3, <1>c
  <2>2. SubSeq(s, 1, k) \o <<x>> = SubSeq(s, 1, k + 1)
    BY <1>1, <2>1, PrefixGrows DEF n
  <2>3. Len(SubSeq(s, 1, k)) = k
    BY <1>1, <2>1, PrefixGrows DEF n
  <2>4. j = 1 => p = Reading(f, k, FALSE)
    BY <1>10, <2>1, Zenon
  <2>5. j = 2 => p = Reading(f, k, TRUE) /\ x = Star
    BY <1>11, <1>c, <2>1, Zenon
  <2>6. k + 1 <= MaxPayload
    BY <1>3, <2>1, MaxPayloadAssumption DEF Fits, n, s
  <2>7. \A c : Len(<<c>>) = 1
    OBVIOUS
  <2>8. Pushed(SubSeq(s, 1, k), <<x>>) = SubSeq(s, 1, k + 1)
    BY <2>2, <2>3, <2>6, <2>7 DEF Pushed
  <2>9. u[i] = Escape(x)
    BY <1>6, <1>c, <2>1, Zenon
  <2>10. /\ i + 1 \in 1 .. n + 4 /\ i + 1 # 1 /\ i + 1 # 2 /\ i + 1 # n + 4
         /\ 1 # 2 /\ (i + 1) - 3 = k + 1
    BY <1>3, <1>c
  <2> HIDE DEF k, x
  <2>11. ASSUME Feed(p, b) = Reading(f, k + 1, FALSE)
         PROVE  InPlace(Feed(p, b), i + 1, 1, f)
    BY <2>10, <2>11, Zenon DEF InPlace, n, s
  <2>12. CASE j = 1 /\ x # Star
    <3>1. b = x /\ Len(u[i]) = 1
      BY <2>9, <2>12 DEF Escape
    <3>2. ~Emits(p, b)
      BY <2>4, <2>12 DEF Emits, Reading, InFrame
    <3>3. Feed(p, b) = Reading(f, k + 1, FALSE)
      BY <2>4, <2>8, <2>12, <3>1, FeedWhileReading, ZenonT(60) DEF Reading, s
    <3> QED
      BY <2>1, <2>11, <2>12, <3>1, <3>2, <3>3 DEF Continues, u
  <2>13. CASE j = 1 /\ x = Star
    <3>1. b = Star /\ Len(u[i]) = 2
      BY <2>9, <2>13 DEF Escape
    <3>2. ~Emits(p, b)
      BY <2>4, <2>13 DEF Emits, Reading, InFrame
    <3>3. Feed(p, b) = Reading(f, k, TRUE)
      BY <2>4, <2>13, <3>1, FeedWhileReading, Zenon
    <3>4. /\ i \in 1 .. n + 4 /\ i # 1 /\ i # 2 /\ i # n + 4 /\ 2 # 1
          /\ i - 3 = k /\ s[i - 2] = Star
      BY <1>3, <1>c, <2>1, <2>13 DEF k, x
    <3>5. InPlace(Feed(p, b), i, 2, f)
      BY <1>c, <3>3, <3>4, Zenon DEF InPlace, n, s
    <3> QED
      BY <2>13, <3>1, <3>2, <3>5 DEF Continues, u
  <2>14. CASE j = 2
    <3>1. b = Esc /\ Len(u[i]) = 2
      BY <2>5, <2>9, <2>14 DEF Escape
    <3>2. ~IsCheck(b) /\ b # Star
      BY <3>1 DEF IsCheck, Esc, Star
    <3>3. ~Emits(p, b)
      BY <3>2 DEF Emits
    <3>4. Feed(p, b) = Reading(f, k + 1, FALSE)
      BY <2>5, <2>8, <2>14, <3>1, FeedWhileReading, ZenonT(60) DEF Reading, s
    <3> QED
      BY <2>1, <2>11, <2>14, <3>1, <3>3, <3>4 DEF Continues, u
  <2> QED BY <2>12, <2>13, <2>14
<1>d. CASE i = n + 3
  <2>1. i \in 3 .. n + 3 /\ i \notin 3 .. n + 2 /\ i - 3 = n
    BY <1>3, <1>d
  <2>2. j = 1 /\ p = Reading(f, n, FALSE)
    BY <1>9, <1>10, <2>1, Zenon
  <2>3. u[i] = <<Star>>
    BY <1>7, <1>d, Zenon
  <2>4. b = Star /\ Len(u[i]) = 1
    BY <2>2, <2>3
  <2>5. ~Emits(p, b) /\ Feed(p, b) = Reading(f, n, TRUE)
    BY <2>2, <2>4 DEF Emits, Feed, FeedInside, Reading, InFrame
  <2>6. /\ i + 1 \in 1 .. n + 4 /\ i + 1 # 1 /\ i + 1 # 2 /\ i + 1 = n + 4
        /\ i + 1 \notin 3 .. n + 2 /\ i + 1 \notin 3 .. n + 3
    BY <1>3, <1>d
  <2>7. InPlace(Feed(p, b), i + 1, 1, f)
    BY <2>5, <2>6, Zenon DEF InPlace, n, s
  <2>8. i < Len(u)
    BY <1>3, <1>d
  <2> QED
    BY <2>2, <2>4, <2>5, <2>7, <2>8 DEF Continues, u
<1>e. CASE i = n + 4
  <2>1. i \notin 3 .. n + 2
    BY <1>3, <1>e
  <2>2. j = 1 /\ p = Reading(f, n, TRUE)
    BY <1>9, <1>12, <1>e, <2>1, Zenon
  <2>3. SubSeq(s, 1, n) = s
    BY <1>1, WholePrefix DEF n
  <2>4. u[i] = <<Checksum(s)>>
    BY <1>8, <1>e, Zenon
  <2>5. b = Checksum(s) /\ Len(u[i]) = 1
    BY <2>2, <2>4
  <2>6. IsCheck(b) /\ b # Star /\ b # Esc
    BY <2>5, ChecksumIsCheck DEF IsCheck, Star, Esc
  <2>7. Emits(p, b) /\ p.cmd = f.cmd /\ p.payload = s
    BY <2>2, <2>3, <2>6 DEF Emits, Reading, InFrame, s
  <2>8. Feed(p, b) = Idle
    BY <2>2, <2>6 DEF Feed, FeedAfterStar, Reading, InFrame
  <2>9. j = Len(u[i]) /\ i = Len(u)
    BY <1>3, <1>e, <2>2, <2>5
  <2> QED
    BY <2>5, <2>7, <2>8, <2>9 DEF Completes, u, s
<1>f. i = 1 \/ i = 2 \/ i \in 3 .. n + 2 \/ i = n + 3 \/ i = n + 4
  BY <1>3, <1>9
<1> QED
  BY <1>a, <1>b, <1>c, <1>d, <1>e, <1>f

-----------------------------------------------------------------------------
LEMMA InPlaceIsParser ==
  ASSUME NEW f \in Frame, NEW p, NEW i \in Nat, NEW j \in {1, 2}, InPlace(p, i, j, f)
  PROVE  p \in Parser
<1> DEFINE n == Len(f.payload)
<1>a. f.payload \in Seq(Byte) /\ n \in Nat
  BY PayloadsAssumption DEF Frame
<1>b. f.cmd \in 0 .. 127
  BY CmdsAssumption DEF Frame
<1>1. f.payload \in Seq(Byte) /\ f.cmd \in Byte /\ n \in Nat
  BY <1>a, <1>b DEF Byte
<1>2. Idle \in Parser /\ Restart(Idle) \in Parser
  BY DEF Idle, Restart, InFrame, Parser, Byte
<1>3. \A k \in 0 .. n : SubSeq(f.payload, 1, k) \in Seq(Byte)
  BY <1>1
<1>4. ASSUME NEW k \in 0 .. n, NEW star \in BOOLEAN
      PROVE  Reading(f, k, star) \in Parser
  BY <1>1, <1>3 DEF Reading, InFrame, Parser
<1> HIDE DEF n
<1>5. CASE i = 1 \/ i = 2
  BY <1>2, <1>5, Zenon DEF InPlace
<1>6. CASE i \in 3 .. n + 2
  <2>1. i - 3 \in 0 .. n /\ i \in 3 .. n + 3
    BY <1>1, <1>6
  <2>2. p = Reading(f, i - 3, TRUE) \/ p = Reading(f, i - 3, FALSE)
    BY <1>6, <2>1, Zenon DEF InPlace, n
  <2> QED BY <1>4, <2>1, <2>2
<1>7. CASE i = n + 3
  <2>1. i - 3 \in 0 .. n /\ i \in 3 .. n + 3 /\ i \notin 3 .. n + 2
    BY <1>1, <1>7
  <2>2. p = Reading(f, i - 3, FALSE)
    BY <2>1, Zenon DEF InPlace, n
  <2> QED BY <1>4, <2>1, <2>2
<1>8. CASE i = n + 4
  <2>1. n \in 0 .. n
    BY <1>1
  <2>2. p = Reading(f, n, TRUE)
    BY <1>8, Zenon DEF InPlace, n
  <2> QED BY <1>4, <2>1, <2>2
<1>9. i \in 1 .. n + 4
  BY DEF InPlace, n
<1>10. i = 1 \/ i = 2 \/ i \in 3 .. n + 2 \/ i = n + 3 \/ i = n + 4
  BY <1>1, <1>9
<1> QED BY <1>5, <1>6, <1>7, <1>8, <1>10

(* The first byte of a frame is in place for a parser between frames.      *)
LEMMA StartInPlace ==
  ASSUME NEW f \in Frame
  PROVE  InPlace(Idle, 1, 1, f)
<1> DEFINE n == Len(f.payload)
<1>1. n \in Nat
  BY PayloadsAssumption DEF Frame
<1> HIDE DEF n
<1>2. /\ 1 \in 1 .. n + 4 /\ 1 # 2 /\ 1 # n + 4
      /\ 1 \notin 3 .. n + 2 /\ 1 \notin 3 .. n + 3
  BY <1>1
<1> QED BY <1>2, Zenon DEF InPlace, n

LEMMA InitInv == Init => IInv
<1> SUFFICES ASSUME Init PROVE IInv
  OBVIOUS
<1>1. Len(sent) = 0 /\ Len(delivered) = 0 /\ cursor.frame = 1
  BY DEF Init, At
<1>2. TypeOK
  BY DEF Init, TypeOK, Cursor, At, Parser, Idle, Byte
<1>3. ParserMatches
  BY <1>1 DEF ParserMatches, Pending, Init, At
<1> QED
  BY <1>1, <1>2, <1>3 DEF IInv, FramesFit, RoundTrip, ChecksGood

LEMMA SendInv ==
  ASSUME IInv, NEW f \in Frame, Send(f)
  PROVE  IInv'
<1>1. /\ sent \in Seq(Frame) /\ sent' = Append(sent, f) /\ Fits(f)
      /\ cursor' = cursor /\ parser' = parser /\ delivered' = delivered
  BY DEF IInv, TypeOK, Send, Fits
<1>2. /\ sent' \in Seq(Frame) /\ Len(sent') = Len(sent) + 1
      /\ \A i \in 1 .. Len(sent) : sent'[i] = sent[i]
      /\ sent'[Len(sent) + 1] = f
  BY <1>1
<1>3. /\ cursor \in Cursor /\ cursor.frame <= Len(sent) + 1 /\ Len(sent) \in Nat
      /\ cursor.frame \in Nat /\ cursor.frame >= 1
  BY <1>1 DEF IInv, TypeOK, Cursor
<1>4. TypeOK'
  BY <1>1, <1>2 DEF IInv, TypeOK
<1>5. FramesFit'
  <2> SUFFICES ASSUME NEW i \in 1 .. Len(sent')  PROVE Fits(sent'[i])
    BY DEF FramesFit, Fits
  <2>1. CASE i \in 1 .. Len(sent)
    BY <1>2, <2>1 DEF IInv, FramesFit
  <2>2. CASE i = Len(sent) + 1
    BY <1>1, <1>2, <2>2
  <2> QED BY <1>2, <1>3, <2>1, <2>2
<1>6. (cursor.frame <= Len(sent) + 1)'
  BY <1>1, <1>2, <1>3
<1>7. ParserMatches'
  <2>1. CASE Pending
    <3>1. Pending' /\ sent'[cursor.frame] = sent[cursor.frame]
      BY <1>1, <1>2, <1>3, <2>1 DEF Pending
    <3>2. InPlace(parser, cursor.unit, cursor.byte, sent[cursor.frame])
      BY <2>1 DEF IInv, ParserMatches
    <3>3. InPlace(parser', cursor'.unit, cursor'.byte, sent'[cursor'.frame])
      BY <1>1, <3>1, <3>2
    <3> QED BY <3>1, <3>3 DEF ParserMatches, InPlace
  <2>2. CASE ~Pending
    <3>1. cursor.unit = 1 /\ cursor.byte = 1 /\ parser = Idle
      BY <2>2 DEF IInv, ParserMatches
    <3>2. cursor.frame = Len(sent) + 1
      BY <1>3, <2>2 DEF Pending
    <3>3. InPlace(parser', cursor'.unit, cursor'.byte, sent'[cursor'.frame])
      BY <1>1, <1>2, <3>1, <3>2, StartInPlace
    <3>4. Pending'
      BY <1>1, <1>2, <1>3, <3>2 DEF Pending
    <3> QED BY <3>3, <3>4 DEF ParserMatches, InPlace
  <2> QED BY <2>1, <2>2
<1>8. RoundTrip'
  <2>1. Len(delivered) = cursor.frame - 1 /\ Len(delivered) \in Nat
    BY DEF IInv, RoundTrip, TypeOK
  <2>2. \A i \in 1 .. Len(delivered) : sent'[i] = sent[i]
    BY <1>2, <1>3, <2>1
  <2> QED BY <1>1, <2>2 DEF IInv, RoundTrip, Genuine
<1>9. ChecksGood'
  BY <1>1 DEF IInv, ChecksGood
<1> QED BY <1>4, <1>5, <1>6, <1>7, <1>8, <1>9 DEF IInv

LEMMA ReceiveInv ==
  ASSUME IInv, Receive
  PROVE  IInv'
<1> DEFINE f == sent[cursor.frame]
           i == cursor.unit
           j == cursor.byte
           u == Units(f)
           b == u[i][j]
<1>1. /\ sent \in Seq(Frame) /\ delivered \in Seq(Delivery)
      /\ sent' = sent /\ Len(sent) \in Nat
  BY DEF IInv, TypeOK, Receive
<1>2. cursor.frame \in Nat /\ cursor.frame >= 1 /\ i \in Nat /\ i >= 1 /\ j \in {1, 2}
  BY DEF IInv, TypeOK, Cursor
<1>3. cursor.frame \in 1 .. Len(sent)
  BY <1>1, <1>2 DEF Receive, Pending
<1>4. f \in Frame /\ Fits(f)
  BY <1>1, <1>3 DEF IInv, FramesFit
<1>5. InPlace(parser, i, j, f)
  BY DEF Receive, IInv, ParserMatches
<1>6. /\ delivered' = Callback(parser, b)
      /\ parser' = Feed(parser, b)
      /\ cursor' = Advance(cursor)
  BY DEF Receive, NextByte
<1>7. Len(delivered) = cursor.frame - 1 /\ Len(delivered) \in Nat
  BY <1>1 DEF IInv, RoundTrip
<1>8. FramesFit'
  BY <1>1 DEF IInv, FramesFit, Fits
<1>9. Continues(parser, i, j, f) \/ Completes(parser, i, j, f)
  BY <1>2, <1>4, <1>5, ReceiveByte
<1>10. Len(u) \in Nat
  BY <1>4, UnitsOfFrame
<1> HIDE DEF f, i, j, u
<1>11. CASE Continues(parser, i, j, f)
  <2>1. ~Emits(parser, b)
    BY <1>11 DEF Continues, u
  <2>2. delivered' = delivered
    BY <1>6, <2>1 DEF Callback
  <2>3. \/ cursor' = At(cursor.frame, i, 2) /\ InPlace(parser', i, 2, f)
        \/ cursor' = At(cursor.frame, i + 1, 1) /\ InPlace(parser', i + 1, 1, f)
    <3>1. CASE j < Len(u[i]) /\ j = 1 /\ InPlace(Feed(parser, b), i, 2, f)
      <4>1. cursor' = At(cursor.frame, i, j + 1)
        BY <1>6, <3>1 DEF Advance, u, f, i, j
      <4> QED BY <1>6, <3>1, <4>1
    <3>2. CASE j = Len(u[i]) /\ i < Len(u) /\ InPlace(Feed(parser, b), i + 1, 1, f)
      <4>1. ~(j < Len(u[i]))
        BY <1>2, <3>2
      <4>2. cursor' = At(cursor.frame, i + 1, 1)
        BY <1>6, <3>2, <4>1, Zenon DEF Advance, u, f, i, j
      <4> QED BY <1>6, <3>2, <4>2
    <3> QED BY <1>11, <3>1, <3>2 DEF Continues, u
  <2>4. PICK k \in Nat \ {0}, l \in {1, 2} :
          cursor' = At(cursor.frame, k, l) /\ InPlace(parser', k, l, f)
    BY <1>2, <2>3
  <2>5. cursor'.frame = cursor.frame /\ cursor'.unit = k /\ cursor'.byte = l
    BY <2>4 DEF At
  <2>6. cursor' \in Cursor
    BY <1>2, <2>4 DEF At, Cursor
  <2>7. parser' \in Parser
    BY <1>4, <2>4, InPlaceIsParser
  <2>8. TypeOK'
    BY <1>1, <2>2, <2>6, <2>7 DEF TypeOK
  <2>9. (cursor.frame <= Len(sent) + 1)'
    BY <1>1, <1>3, <2>5
  <2>10. Pending'
    BY <1>1, <1>3, <2>5 DEF Pending
  <2>11. InPlace(parser', cursor'.unit, cursor'.byte, sent'[cursor'.frame])
    BY <1>1, <2>4, <2>5 DEF f
  <2>12. ParserMatches'
    BY <2>10, <2>11 DEF ParserMatches, InPlace
  <2>13. RoundTrip'
    BY <1>1, <2>2, <2>5 DEF IInv, RoundTrip, Genuine
  <2>14. ChecksGood'
    BY <2>2 DEF IInv, ChecksGood
  <2> QED BY <1>8, <2>8, <2>9, <2>12, <2>13, <2>14 DEF IInv
<1>12. CASE Completes(parser, i, j, f)
  <2> DEFINE d == [cmd |-> parser.cmd, payload |-> parser.payload, check |-> b]
  <2>1. /\ b = Checksum(f.payload) /\ Emits(parser, b)
        /\ parser.cmd = f.cmd /\ parser.payload = f.payload /\ Feed(parser, b) = Idle
    BY <1>12 DEF Completes, u
  <2>2. j = Len(u[i]) /\ i = Len(u)
    BY <1>12 DEF Completes, u
  <2>3. delivered' = Append(delivered, d)
    BY <1>6, <2>1 DEF Callback
  <2>4. d.cmd = f.cmd /\ d.payload = f.payload /\ d.check = Checksum(d.payload)
    BY <2>1
  <2>5. d \in Delivery
    <3>1. parser \in Parser
      BY DEF IInv, TypeOK
    <3>2. b \in Byte
      BY <2>1, ChecksumIsCheck DEF Byte
    <3> QED BY <3>1, <3>2 DEF Parser, Delivery
  <2> HIDE DEF d
  <2>6. cursor' = At(cursor.frame + 1, 1, 1)
    <3>1. ~(j < Len(u[i])) /\ ~(i < Len(u))
      BY <1>2, <1>10, <2>2
    <3> QED BY <1>6, <3>1, Zenon DEF Advance, u, f, i, j
  <2>7. cursor'.frame = cursor.frame + 1 /\ cursor'.unit = 1 /\ cursor'.byte = 1
    BY <2>6 DEF At
  <2>8. parser' = Idle
    BY <1>6, <2>1
  <2>9. cursor' \in Cursor
    BY <1>2, <2>6 DEF At, Cursor
  <2>10. /\ delivered' \in Seq(Delivery)
         /\ Len(delivered') = Len(delivered) + 1
         /\ delivered'[Len(delivered) + 1] = d
         /\ \A m \in 1 .. Len(delivered) : delivered'[m] = delivered[m]
    BY <1>1, <2>3, <2>5
  <2>11. TypeOK'
    BY <1>1, <2>8, <2>9, <2>10 DEF TypeOK, Parser, Idle, Byte
  <2>12. (cursor.frame <= Len(sent) + 1)'
    BY <1>1, <1>3, <2>7
  <2>13. ParserMatches'
    <3>1. CASE Pending'
      <4>1. sent'[cursor'.frame] \in Frame
        BY <1>1, <1>2, <2>7, <3>1 DEF Pending
      <4>2. InPlace(parser', cursor'.unit, cursor'.byte, sent'[cursor'.frame])
        BY <2>7, <2>8, <4>1, StartInPlace
      <4> QED BY <3>1, <4>2 DEF ParserMatches, InPlace
    <3>2. CASE ~Pending'
      BY <2>7, <2>8, <3>2 DEF ParserMatches
    <3> QED BY <3>1, <3>2
  <2>14. RoundTrip'
    <3>1. Len(delivered') = cursor'.frame - 1
      BY <1>2, <1>7, <2>7, <2>10
    <3>2. ASSUME NEW m \in 1 .. Len(delivered')
          PROVE  Genuine(delivered'[m], sent'[m])
      <4>1. CASE m \in 1 .. Len(delivered)
        BY <1>1, <2>10, <4>1 DEF IInv, RoundTrip
      <4>2. CASE m = Len(delivered) + 1
        BY <1>1, <1>2, <1>7, <2>4, <2>10, <4>2, SMTT(60) DEF Genuine, f
      <4> QED BY <1>7, <2>10, <4>1, <4>2
    <3> QED BY <3>1, <3>2 DEF RoundTrip, Genuine
  <2>15. ChecksGood'
    <3>1. ASSUME NEW m \in 1 .. Len(delivered')
          PROVE  delivered'[m].check = Checksum(delivered'[m].payload)
      <4>1. CASE m \in 1 .. Len(delivered)
        BY <2>10, <4>1 DEF IInv, ChecksGood
      <4>2. CASE m = Len(delivered) + 1
        BY <2>4, <2>10, <4>2
      <4> QED BY <1>7, <2>10, <4>1, <4>2
    <3> QED BY <3>1 DEF ChecksGood
  <2> QED BY <1>8, <2>11, <2>12, <2>13, <2>14, <2>15 DEF IInv
<1> QED BY <1>9, <1>11, <1>12

LEMMA NextInv == IInv /\ [Next]_vars => IInv'
<1> SUFFICES ASSUME IInv, [Next]_vars PROVE IInv'
  OBVIOUS
<1>1. CASE \E f \in Frame : Send(f)
  BY <1>1, SendInv
<1>2. CASE Receive
  BY <1>2, ReceiveInv
<1>3. CASE UNCHANGED vars
  BY <1>3 DEF IInv, TypeOK, FramesFit, ParserMatches, Pending, RoundTrip,
              ChecksGood, Genuine, InPlace, Fits, vars
<1> QED BY <1>1, <1>2, <1>3 DEF Next

-----------------------------------------------------------------------------
(* The inductive invariant holds throughout: at every byte of every frame  *)
(* the parser holds exactly what has been read of the frame.               *)
THEOREM Invariance == Spec => []IInv
BY InitInv, NextInv, PTL DEF Spec

(* The receiver's state is always a state of struct wing_frame_parser.     *)
THEOREM TypeCorrect == Spec => []TypeOK
<1>1. IInv => TypeOK
  BY DEF IInv
<1> QED BY <1>1, Invariance, PTL

(* wing_parser_feed undoes wing_send_frame for every payload that fits the *)
(* buffer: all frames read so far have been delivered, in order, as sent.  *)
THEOREM RoundTripHolds == Spec => []RoundTrip
<1>1. IInv => RoundTrip
  BY DEF IInv
<1> QED BY <1>1, Invariance, PTL

(* No frame of an undamaged line is reported with a bad checksum.          *)
THEOREM ChecksGoodHolds == Spec => []ChecksGood
<1>1. IInv => ChecksGood
  BY DEF IInv
<1> QED BY <1>1, Invariance, PTL

(* At a frame boundary the parser is as wing_parser_reset left it.         *)
THEOREM CleanBetweenFramesHolds == Spec => []CleanBetweenFrames
<1>1. IInv => CleanBetweenFrames
  <2>1. ASSUME Pending, IInv, cursor.unit = 1
        PROVE  parser = Idle
    BY <2>1 DEF IInv, ParserMatches, InPlace
  <2>2. ASSUME ~Pending, IInv
        PROVE  parser = Idle
    BY <2>2 DEF IInv, ParserMatches
  <2> QED BY <2>1, <2>2 DEF CleanBetweenFrames
<1> QED BY <1>1, Invariance, PTL

-----------------------------------------------------------------------------
(* Sender, line and parser together implement a queue of frames.           *)
LEMMA InitChannel == Init => Channel!Init
<1> SUFFICES ASSUME Init PROVE Channel!Init
  OBVIOUS
<1>1. sent = <<>> /\ Len(delivered) = 0
  BY DEF Init
<1>2. received = <<>>
  BY <1>1 DEF received
<1> QED BY <1>1, <1>2 DEF Channel!Init

LEMMA ReceiveChannel ==
  ASSUME IInv, IInv', Receive
  PROVE  Channel!Deliver \/ UNCHANGED Channel!vars
<1>1. /\ sent \in Seq(Frame) /\ sent' = sent
      /\ delivered \in Seq(Delivery) /\ delivered' \in Seq(Delivery)
  BY DEF IInv, TypeOK, Receive
<1>2. CASE delivered' = delivered
  BY <1>1, <1>2 DEF received, Channel!vars
<1>3. CASE delivered' # delivered
  <2>1. PICK d : delivered' = Append(delivered, d)
    BY <1>3 DEF Receive, Callback
  <2> DEFINE n == Len(delivered)
             m == n + 1
  <2>2. n \in Nat /\ Len(delivered') = m
    BY <1>1, <2>1
  <2>3. m \in 1 .. Len(sent)
    <3>1. m = cursor.frame /\ cursor.frame \in Nat
      BY <1>1, SMTT(60) DEF IInv, RoundTrip, TypeOK, Cursor
    <3> QED BY <1>1, <2>2, <3>1 DEF Receive, Pending
  <2>4. \A i \in 1 .. n : delivered'[i] = delivered[i]
    BY <1>1, <2>1
  <2>5. Genuine(delivered'[m], sent[m])
    <3> HIDE DEF n, m
    <3>1. m \in 1 .. Len(delivered')
      BY <2>2 DEF m
    <3> QED BY <1>1, <3>1 DEF IInv, RoundTrip
  <2>6. sent[m] \in Frame
    BY <1>1, <2>3
  <2>7. \A g \in Frame : g = [cmd |-> g.cmd, payload |-> g.payload]
    BY DEF Frame
  <2>8. /\ received'[m] = sent[m] /\ Len(received') = m
        /\ \A i \in 1 .. n : received'[i] = received[i]
    BY <2>2, <2>4, <2>5, <2>6, <2>7 DEF received, Genuine
  <2>9. \A i \in 1 .. n : received[i] \in Frame
    <3>1. \A i \in 1 .. n : sent[i] \in Frame
      BY <1>1, <2>2, <2>3
    <3>2. \A i \in 1 .. n : received[i] = sent[i]
      BY <2>7, <3>1 DEF received, Genuine, IInv, RoundTrip
    <3> QED BY <3>1, <3>2
  <2>10. received \in Seq(Frame) /\ Len(received) = n
    BY <2>2, <2>9 DEF received
  <2>11. received' = Append(received, sent[m])
    <3>1. \A i \in 1 .. m : received'[i] \in Frame
      BY <2>2, <2>6, <2>8, <2>9
    <3>2. received' \in Seq(Frame)
      BY <2>2, <3>1 DEF received
    <3>3. /\ Append(received, sent[m]) \in Seq(Frame)
          /\ Len(Append(received, sent[m])) = m
          /\ Append(received, sent[m])[m] = sent[m]
          /\ \A i \in 1 .. n : Append(received, sent[m])[i] = received[i]
      BY <2>2, <2>6, <2>10
    <3>4. \A i \in 1 .. m : received'[i] = Append(received, sent[m])[i]
      BY <2>2, <2>8, <3>3
    <3> QED BY <2>8, <3>2, <3>3, <3>4, SeqEqual
  <2>12. n < Len(sent)
    BY <1>1, <2>2, <2>3
  <2> QED BY <1>1, <2>10, <2>11, <2>12 DEF Channel!Deliver
<1> QED BY <1>2, <1>3

LEMMA SendChannel ==
  ASSUME NEW f \in Frame, Send(f)
  PROVE  Channel!Send
BY DEF Send, Channel!Send, received

(* Every step of the line is a step of the queue of frames or none: sender *)
(* and parser implement FrameChannel.                                      *)
THEOREM Implements == Spec => ImplementsChannel
<1>1. IInv /\ IInv' /\ [Next]_vars => [Channel!Next]_(Channel!vars)
  <2> SUFFICES ASSUME IInv, IInv', [Next]_vars PROVE [Channel!Next]_(Channel!vars)
    OBVIOUS
  <2>1. CASE \E f \in Frame : Send(f)
    BY <2>1, SendChannel DEF Channel!Next
  <2>2. CASE Receive
    BY <2>2, ReceiveChannel DEF Channel!Next
  <2>3. CASE UNCHANGED vars
    BY <2>3 DEF vars, Channel!vars, received
  <2> QED BY <2>1, <2>2, <2>3 DEF Next
<1> QED BY <1>1, InitChannel, Invariance, PTL DEF Spec, ImplementsChannel, Channel!Spec

-----------------------------------------------------------------------------
(* Recovery from line faults (module WingFrameFaults), for every payload   *)
(* and any number of faults.                                               *)

Whole(i) == i \notin damaged /\ i - 1 \notin cutTail

CursorInFrame ==
  IF Pending
    THEN LET u == Units(sent[cursor.frame]) IN
         cursor.unit <= Len(u) /\ cursor.byte <= Len(u[cursor.unit])
    ELSE cursor.unit = 1 /\ cursor.byte = 1

\* Once the star of the tail is read, the parser waits for a check.
AwaitsCheck ==
  Pending /\ cursor.unit = Len(Units(sent[cursor.frame])) /\ cursor.frame \notin cutTail
    => parser.in_frame /\ parser.after_star

\* While a whole frame arrives, the parser is where it is on a good line.
InPlaceIfWhole ==
  Whole(cursor.frame) =>
    IF Pending THEN InPlace(parser, cursor.unit, cursor.byte, sent[cursor.frame])
               ELSE parser = Idle

FInv ==
  /\ FaultTypeOK
  /\ FramesFit
  /\ cursor.frame <= Len(sent) + 1 /\ Len(sent) <= MaxSent
  /\ CursorInFrame
  /\ AwaitsCheck
  /\ InPlaceIfWhole
  /\ Recovers

-----------------------------------------------------------------------------
(* The pair star, check resets every parser.                               *)
LEMMA StarThenCheck ==
  ASSUME NEW p
  PROVE  /\ Feed(p, Star).in_frame /\ Feed(p, Star).after_star
         /\ \A b : p.in_frame /\ p.after_star /\ IsCheck(b) /\ b # Star /\ b # Esc
                     => Feed(p, b) = Idle
<1>1. Feed(p, Star).in_frame /\ Feed(p, Star).after_star
  BY DEF Feed, FeedAfterStar, FeedInside, Restart, InFrame
<1>2. ASSUME NEW b, p.in_frame, p.after_star, IsCheck(b), b # Star, b # Esc
      PROVE  Feed(p, b) = Idle
  BY <1>2 DEF Feed, FeedAfterStar
<1> QED BY <1>1, <1>2

LEMMA FeedType ==
  ASSUME NEW p \in Parser, NEW b \in Byte
  PROVE  Feed(p, b) \in Parser
<1>1. Idle \in Parser /\ Star \in Byte
  BY DEF Idle, Parser, Byte, Star
<1>2. ASSUME NEW star \in BOOLEAN, NEW have \in BOOLEAN, NEW cmd \in Byte,
             NEW payload \in Seq(Byte)
      PROVE  InFrame(star, have, cmd, payload) \in Parser
  BY DEF InFrame, Parser
<1>3. /\ p.have_cmd \in BOOLEAN /\ p.cmd \in Byte /\ p.payload \in Seq(Byte)
      /\ <<>> \in Seq(Byte)
  BY DEF Parser
<1>4. Restart(p) \in Parser /\ Command(p, b) \in Parser
  BY <1>2, <1>3 DEF Restart, Command
<1>5. InFrame(TRUE, p.have_cmd, p.cmd, p.payload) \in Parser
  BY <1>2, <1>3
<1>6. ASSUME NEW t \in Seq(Byte)
      PROVE  Push(p, t) \in Parser
  <2>1. Pushed(p.payload, t) \in Seq(Byte)
    BY <1>3 DEF Pushed
  <2> QED BY <1>2, <1>3, <2>1 DEF Push
<1>7. <<Star>> \in Seq(Byte) /\ <<b>> \in Seq(Byte) /\ <<Star, b>> \in Seq(Byte)
  BY <1>1
<1>8. /\ Push(p, <<Star>>) \in Parser /\ Push(p, <<b>>) \in Parser
      /\ Push(p, <<Star, b>>) \in Parser
  BY <1>6, <1>7
<1> QED
  BY <1>1, <1>4, <1>5, <1>8, Zenon DEF Feed, FeedAfterStar, FeedInside

LEMMA EscapeBytes ==
  ASSUME NEW x \in Byte
  PROVE  /\ Len(Escape(x)) \in {1, 2}
         /\ \A j \in 1 .. Len(Escape(x)) : Escape(x)[j] \in Byte
<1>1. Star \in Byte /\ Esc \in Byte
  BY DEF Byte, Star, Esc
<1>2. CASE x = Star
  <2>1. Escape(x) = <<Star, Esc>>
    BY <1>2 DEF Escape
  <2> QED BY <1>1, <2>1
<1>3. CASE x # Star
  <2>1. Escape(x) = <<x>>
    BY <1>3 DEF Escape
  <2> QED BY <1>1, <2>1
<1> QED BY <1>2, <1>3

(* Every unit of a frame is one or two bytes; the last two are one byte.   *)
LEMMA UnitBytes ==
  ASSUME NEW f \in Frame, NEW i \in 1 .. Len(Units(f))
  PROVE  LET u == Units(f) IN
         /\ Len(u[i]) \in {1, 2}
         /\ \A j \in 1 .. Len(u[i]) : u[i][j] \in Byte
<1> DEFINE n == Len(f.payload)
           u == Units(f)
<1>1. n \in Nat /\ Len(u) = n + 4
  BY UnitsOfFrame
<1>2. f.payload \in Seq(Byte)
  BY PayloadsAssumption DEF Frame
<1>3. f.cmd \in 0 .. 127
  BY CmdsAssumption DEF Frame
<1>4. u[1] = <<Star>>
  BY UnitsOfFrame
<1>5. u[2] = <<f.cmd>>
  BY UnitsOfFrame
<1>6. \A k \in 3 .. n + 2 : u[k] = Escape(f.payload[k - 2])
  BY UnitsOfFrame
<1>7. u[n + 3] = <<Star>>
  BY UnitsOfFrame
<1>8. u[n + 4] = <<Checksum(f.payload)>>
  BY UnitsOfFrame
<1>9. Checksum(f.payload) \in Byte /\ Star \in Byte /\ f.cmd \in Byte
  BY <1>3, ChecksumIsCheck, SMTT(60) DEF Byte, Star
<1>10. \A k \in 3 .. n + 2 : f.payload[k - 2] \in Byte
  BY <1>1, <1>2
<1>11. \A x \in Byte : Len(<<x>>) = 1 /\ <<x>>[1] = x
  OBVIOUS
<1> HIDE DEF n, u
<1>12. ASSUME NEW x \in Byte, u[i] = <<x>>
       PROVE  Len(u[i]) \in {1, 2} /\ \A j \in 1 .. Len(u[i]) : u[i][j] \in Byte
  BY <1>11, <1>12
<1>13. CASE i \in 3 .. n + 2
  BY <1>6, <1>10, <1>13, EscapeBytes DEF u
<1>14. CASE i = 1
  BY <1>4, <1>9, <1>12, <1>14 DEF u
<1>15. CASE i = 2
  BY <1>5, <1>9, <1>12, <1>15 DEF u
<1>16. CASE i = n + 3
  <2>1. u[i] = <<Star>>
    BY <1>7, <1>16, Zenon
  <2> QED BY <1>9, <1>12, <2>1 DEF u
<1>17. CASE i = n + 4
  <2>1. u[i] = <<Checksum(f.payload)>>
    BY <1>8, <1>17, Zenon
  <2> QED BY <1>9, <1>12, <2>1 DEF u
<1>18. i = 1 \/ i = 2 \/ i \in 3 .. n + 2 \/ i = n + 3 \/ i = n + 4
  BY <1>1 DEF u
<1> QED BY <1>13, <1>14, <1>15, <1>16, <1>17, <1>18

-----------------------------------------------------------------------------
(* The facts about the frame on the line that every step below needs.      *)
LEMMA OnLine ==
  ASSUME FInv, Pending
  PROVE  LET f == sent[cursor.frame]
             u == Units(f)
             n == Len(f.payload)
         IN  /\ f \in Frame /\ Fits(f)
             /\ n \in Nat /\ Len(u) = n + 4
             /\ cursor.frame \in 1 .. Len(sent) /\ cursor.frame \in 1 .. MaxSent
             /\ cursor.unit \in 1 .. n + 4
             /\ cursor.byte \in {1, 2} /\ cursor.byte \in 1 .. Len(u[cursor.unit])
             /\ Len(u[cursor.unit]) \in {1, 2}
             /\ NextByte \in Byte
<1> DEFINE f == sent[cursor.frame]
           u == Units(f)
           n == Len(f.payload)
<1>1. /\ sent \in Seq(Frame) /\ Len(sent) \in Nat /\ Len(sent) <= MaxSent
      /\ cursor.frame \in Nat /\ cursor.frame >= 1
      /\ cursor.unit \in Nat /\ cursor.unit >= 1 /\ cursor.byte \in {1, 2}
  BY DEF FInv, FaultTypeOK, TypeOK, Cursor
<1>2. cursor.frame \in 1 .. Len(sent) /\ cursor.frame \in 1 .. MaxSent
  BY <1>1, MaxSentAssumption DEF Pending
<1>3. f \in Frame /\ Fits(f)
  BY <1>1, <1>2 DEF FInv, FramesFit
<1>4. n \in Nat /\ Len(u) = n + 4
  BY <1>3, UnitsOfFrame
<1>5. cursor.unit <= Len(u) /\ cursor.byte <= Len(u[cursor.unit])
  BY DEF FInv, CursorInFrame
<1> HIDE DEF f, u, n
<1>6. cursor.unit \in 1 .. Len(u)
  BY <1>1, <1>4, <1>5
<1>7. /\ Len(u[cursor.unit]) \in {1, 2}
      /\ \A j \in 1 .. Len(u[cursor.unit]) : u[cursor.unit][j] \in Byte
  BY <1>3, <1>6, UnitBytes DEF u
<1>8. cursor.byte \in 1 .. Len(u[cursor.unit])
  BY <1>1, <1>5, <1>7
<1>9. NextByte \in Byte
  BY <1>7, <1>8 DEF NextByte, u, f
<1>10. cursor.unit \in 1 .. n + 4
  BY <1>4, <1>6
<1> QED BY <1>1, <1>2, <1>3, <1>4, <1>7, <1>8, <1>9, <1>10 DEF f, u, n

(* Reading on stays in the frame or, from its last byte, starts the next.  *)
Stays(c) ==
  LET u == Units(sent[c.frame]) IN
  \/ cursor' = At(c.frame, c.unit, 2) /\ c.byte = 1 /\ c.unit # Len(u) /\ 2 <= Len(u[c.unit])
  \/ cursor' = At(c.frame, c.unit + 1, 1) /\ c.unit < Len(u) /\ c.byte = Len(u[c.unit])

Leaves(c) ==
  LET u == Units(sent[c.frame]) IN
  cursor' = At(c.frame + 1, 1, 1) /\ c.unit = Len(u) /\ c.byte = 1

LEMMA AdvanceCases ==
  ASSUME FInv, Pending, cursor' = Advance(cursor)
  PROVE  Stays(cursor) \/ Leaves(cursor)
<1> DEFINE f == sent[cursor.frame]
           u == Units(f)
           n == Len(f.payload)
           i == cursor.unit
           j == cursor.byte
<1>1. /\ f \in Frame /\ n \in Nat /\ Len(u) = n + 4 /\ i \in 1 .. n + 4
      /\ j \in {1, 2} /\ j \in 1 .. Len(u[i]) /\ Len(u[i]) \in {1, 2}
  BY OnLine
<1>2. u[n + 4] = <<Checksum(f.payload)>>
  BY <1>1, UnitsOfFrame
<1> HIDE DEF f, u, n, i, j
<1>3. i = n + 4 => Len(u[i]) = 1
  <2> SUFFICES ASSUME i = n + 4 PROVE Len(u[i]) = 1
    OBVIOUS
  <2>1. u[i] = <<Checksum(f.payload)>>
    BY <1>2, Zenon
  <2> QED BY <2>1
<1>4. CASE j < Len(u[i])
  <2> DEFINE l == Len(u[i])
  <2>a. l \in {1, 2} /\ j \in {1, 2} /\ j < l
    BY <1>1, <1>4
  <2>b. i = n + 4 => l = 1
    BY <1>3
  <2> HIDE DEF l
  <2>c. j = 1 /\ j + 1 = 2 /\ l = 2
    BY <2>a
  <2>d. i # n + 4 /\ 2 <= l
    BY <2>b, <2>c
  <2>1. j = 1 /\ j + 1 = 2 /\ i # Len(u) /\ 2 <= Len(u[i])
    BY <1>1, <2>c, <2>d DEF l
  <2>2. cursor' = At(cursor.frame, i, j + 1)
    BY <1>4, Zenon DEF Advance, f, u, i, j
  <2> QED BY <2>1, <2>2, Zenon DEF Stays, f, u, i, j
<1>5. CASE ~(j < Len(u[i])) /\ i < Len(u)
  <2>1. j = Len(u[i])
    BY <1>1, <1>5
  <2>2. cursor' = At(cursor.frame, i + 1, 1)
    BY <1>5, Zenon DEF Advance, f, u, i, j
  <2> QED BY <1>5, <2>1, <2>2, Zenon DEF Stays, f, u, i, j
<1>6. CASE ~(j < Len(u[i])) /\ ~(i < Len(u))
  <2>a. i = n + 4 /\ i = Len(u)
    BY <1>1, <1>6
  <2>b. Len(u[i]) = 1
    BY <1>3, <2>a
  <2>1. i = Len(u) /\ j = 1
    BY <1>1, <2>a, <2>b
  <2>2. cursor' = At(cursor.frame + 1, 1, 1)
    BY <1>6, Zenon DEF Advance, f, u, i, j
  <2> QED BY <2>1, <2>2, Zenon DEF Leaves, f, u, i, j
<1> QED BY <1>4, <1>5, <1>6

LEMMA CursorSteps ==
  ASSUME FInv, Pending, sent' = sent, Stays(cursor) \/ Leaves(cursor) \/ cursor' = cursor
  PROVE  /\ cursor' \in Cursor
         /\ cursor'.frame <= Len(sent') + 1
         /\ CursorInFrame'
<1> DEFINE f == sent[cursor.frame]
           u == Units(f)
           n == Len(f.payload)
           i == cursor.unit
           j == cursor.byte
<1>1. /\ f \in Frame /\ n \in Nat /\ Len(u) = n + 4 /\ i \in 1 .. n + 4
      /\ j \in {1, 2} /\ cursor.frame \in 1 .. Len(sent)
  BY OnLine
<1>2. \A k \in 1 .. Len(u) : Len(u[k]) \in {1, 2}
  BY <1>1, UnitBytes
<1>3. cursor \in Cursor /\ sent \in Seq(Frame)
  BY DEF FInv, FaultTypeOK, TypeOK
<1>4. CASE cursor' = cursor
  <2>1. CursorInFrame'
    BY <1>4 DEF FInv, CursorInFrame, Pending
  <2> QED BY <1>3, <1>4, <2>1 DEF FInv
<1> HIDE DEF f, u, n, i, j
<1>5. CASE Leaves(cursor)
  <2>1. cursor' = At(cursor.frame + 1, 1, 1)
    BY <1>5 DEF Leaves
  <2>2. cursor'.frame = cursor.frame + 1 /\ cursor'.unit = 1 /\ cursor'.byte = 1
    BY <2>1 DEF At
  <2>3. cursor' \in Cursor /\ cursor'.frame <= Len(sent') + 1
    BY <1>1, <1>3, <2>1, <2>2 DEF At, Cursor
  <2>4. ASSUME Pending'
        PROVE  1 <= Len(Units(sent'[cursor'.frame])) /\ 1 <= Len(Units(sent'[cursor'.frame])[1])
    <3> DEFINE g == sent'[cursor'.frame]
    <3>1. g \in Frame
      BY <1>1, <1>3, <2>2, <2>4 DEF Pending
    <3>2. Len(g.payload) \in Nat /\ Len(Units(g)) = Len(g.payload) + 4
      BY <3>1, UnitsOfFrame
    <3>3. 1 \in 1 .. Len(Units(g))
      BY <3>2
    <3>4. Len(Units(g)[1]) \in {1, 2}
      BY <3>1, <3>3, UnitBytes
    <3>5. 1 <= Len(Units(g))
      BY <3>2
    <3>6. \A x \in {1, 2} : 1 <= x
      OBVIOUS
    <3> QED BY <3>4, <3>5, <3>6, Zenon
  <2>5. CursorInFrame'
    BY <2>2, <2>4 DEF CursorInFrame
  <2> QED BY <2>3, <2>5
<1>6. CASE Stays(cursor)
  <2>1. PICK k \in 1 .. Len(u), l \in {1, 2} :
          cursor' = At(cursor.frame, k, l) /\ l <= Len(u[k])
    <3>1. CASE cursor' = At(cursor.frame, i, 2) /\ 2 <= Len(u[i])
      BY <1>1, <3>1
    <3>2. CASE cursor' = At(cursor.frame, i + 1, 1) /\ i < Len(u)
      <4>1. i + 1 \in 1 .. Len(u)
        BY <1>1, <3>2
      <4>a. \A x \in {1, 2} : 1 <= x
        OBVIOUS
      <4>2. 1 <= Len(u[i + 1])
        BY <1>2, <4>1, <4>a, Zenon
      <4> QED BY <3>2, <4>1, <4>2
    <3> QED BY <1>6, <3>1, <3>2 DEF Stays, f, u, i, j
  <2>2. cursor'.frame = cursor.frame /\ cursor'.unit = k /\ cursor'.byte = l
    BY <2>1 DEF At
  <2>3. cursor' \in Cursor /\ cursor'.frame <= Len(sent') + 1
    BY <1>1, <1>3, <2>1, <2>2 DEF At, Cursor
  <2>4. Pending'
    BY <1>1, <1>3, <2>2 DEF Pending
  <2>5. k <= Len(u) /\ l <= Len(u[k])
    BY <1>1, <2>1
  <2>6. u = Units(sent'[cursor'.frame])
    BY <2>2 DEF u, f
  <2>7. CursorInFrame'
    BY <2>2, <2>4, <2>5, <2>6 DEF CursorInFrame
  <2> QED BY <2>3, <2>7
<1> QED BY <1>4, <1>5, <1>6

(* Hearing a byte keeps the types and forgets no callback.                 *)
Extends ==
  /\ parser' \in Parser
  /\ delivered' \in Seq(Delivery) /\ readAt' \in Seq(1 .. MaxSent)
  /\ Len(readAt') = Len(delivered') /\ Len(delivered) <= Len(delivered')
  /\ \A k \in 1 .. Len(delivered) : delivered'[k] = delivered[k] /\ readAt'[k] = readAt[k]

LEMMA HearExtends ==
  ASSUME FInv, Pending, NEW b \in Byte, Hear(b)
  PROVE  Extends
<1>1. /\ parser \in Parser /\ delivered \in Seq(Delivery)
      /\ readAt \in Seq(1 .. MaxSent) /\ Len(readAt) = Len(delivered)
  BY DEF FInv, FaultTypeOK, TypeOK
<1>2. parser' \in Parser
  BY <1>1, FeedType DEF Hear
<1>3. cursor.frame \in 1 .. MaxSent
  BY OnLine
<1>4. CASE ~Emits(parser, b)
  <2>1. delivered' = delivered /\ readAt' = readAt
    BY <1>4 DEF Hear, Callback
  <2> QED BY <1>1, <1>2, <2>1 DEF Extends
<1>5. CASE Emits(parser, b)
  <2> DEFINE d == [cmd |-> parser.cmd, payload |-> parser.payload, check |-> b]
  <2>1. d \in Delivery
    BY <1>1 DEF Parser, Delivery
  <2>2. delivered' = Append(delivered, d) /\ readAt' = Append(readAt, cursor.frame)
    BY <1>5 DEF Hear, Callback
  <2> HIDE DEF d
  <2>3. /\ delivered' \in Seq(Delivery) /\ Len(delivered') = Len(delivered) + 1
        /\ \A k \in 1 .. Len(delivered) : delivered'[k] = delivered[k]
    BY <1>1, <2>1, <2>2
  <2>4. /\ readAt' \in Seq(1 .. MaxSent) /\ Len(readAt') = Len(readAt) + 1
        /\ \A k \in 1 .. Len(readAt) : readAt'[k] = readAt[k]
    BY <1>1, <1>3, <2>2
  <2> QED BY <1>1, <1>2, <2>3, <2>4 DEF Extends
<1> QED BY <1>4, <1>5

(* A callback made for frame i stays made.                                 *)
Served(i) == \E k \in CallbacksDuring(i) : Genuine(delivered[k], sent[i])

LEMMA ServedStays ==
  ASSUME FInv, Extends, sent' = sent, NEW i, Served(i)
  PROVE  Served(i)'
<1>1. PICK k \in 1 .. Len(delivered) : readAt[k] = i /\ Genuine(delivered[k], sent[i])
  BY DEF Served, CallbacksDuring
<1>2. Len(delivered) \in Nat /\ Len(delivered') \in Nat
  BY DEF FInv, FaultTypeOK, TypeOK, Extends
<1>3. k \in 1 .. Len(delivered')
  BY <1>2 DEF Extends
<1>4. readAt'[k] = i /\ Genuine(delivered'[k], sent'[i])
  BY <1>1 DEF Extends, Genuine
<1> QED BY <1>3, <1>4 DEF Served, CallbacksDuring, Genuine

-----------------------------------------------------------------------------
(* Any of the three faults: the frame it hits is marked, and when it hits  *)
(* the tail nothing is claimed of the next frame either.                   *)
LEMMA FaultStep ==
  ASSUME FInv, Pending, Damage,
         cursor' = cursor \/ cursor' = Advance(cursor),
         Extends \/ UNCHANGED <<parser, delivered, readAt>>
  PROVE  FInv'
<1> DEFINE f == sent[cursor.frame]
           u == Units(f)
           n == Len(f.payload)
           i == cursor.frame
<1>1. /\ f \in Frame /\ n \in Nat /\ Len(u) = n + 4 /\ cursor.unit \in 1 .. n + 4
      /\ i \in 1 .. Len(sent) /\ i \in 1 .. MaxSent
  BY OnLine
<1>2. /\ sent' = sent /\ i \in damaged' /\ damaged \subseteq damaged'
      /\ cutTail \subseteq cutTail' /\ (InTail => i \in cutTail')
      /\ damaged' = damaged \union {i} /\ cutTail' \subseteq cutTail \union {i}
      /\ faults' = faults + 1 /\ faults < MaxFaults
  BY DEF Damage
<1>3. /\ sent \in Seq(Frame) /\ faults \in 0 .. MaxFaults
      /\ damaged \subseteq 1 .. MaxSent /\ cutTail \subseteq damaged
      /\ parser \in Parser /\ delivered \in Seq(Delivery)
      /\ readAt \in Seq(1 .. MaxSent) /\ Len(readAt) = Len(delivered)
  BY DEF FInv, FaultTypeOK, TypeOK
<1>4. Extends
  BY <1>3 DEF Extends
<1>5. Stays(cursor) \/ Leaves(cursor) \/ cursor' = cursor
  BY AdvanceCases
<1>6. cursor' \in Cursor /\ cursor'.frame <= Len(sent') + 1 /\ CursorInFrame'
  BY <1>2, <1>5, CursorSteps
<1>7. FaultTypeOK'
  <2>1. faults' \in 0 .. MaxFaults
    BY <1>2, <1>3, MaxFaultsAssumption
  <2> QED BY <1>1, <1>2, <1>3, <1>4, <1>6, <2>1 DEF FaultTypeOK, TypeOK, Extends
<1>8. FramesFit' /\ Len(sent') <= MaxSent
  BY <1>2 DEF FInv, FramesFit, Fits
<1> HIDE DEF f, u, n, i
<1>9. \/ cursor'.frame = i
      \/ cursor'.frame = i + 1 /\ cursor'.unit = 1 /\ cursor.unit = Len(u)
  BY <1>5 DEF Stays, Leaves, At, f, u, i
<1>10. cursor.unit = Len(u) => InTail
  BY <1>1 DEF InTail, f, n, i
<1>11. InPlaceIfWhole'
  <2>1. CASE cursor'.frame = i
    BY <1>2, <2>1 DEF InPlaceIfWhole, Whole
  <2>2. CASE cursor'.frame = i + 1 /\ cursor.unit = Len(u)
    <3>1. cursor'.frame - 1 = i
      BY <1>1, <2>2
    <3> QED BY <1>2, <1>10, <2>2, <3>1 DEF InPlaceIfWhole, Whole
  <2> QED BY <1>9, <2>1, <2>2
<1>12. AwaitsCheck'
  <2>1. CASE cursor'.frame = i + 1 /\ cursor'.unit = 1
    <3>1. ASSUME Pending'
          PROVE  Len(Units(sent'[cursor'.frame])) # 1
      <4> DEFINE g == sent'[cursor'.frame]
      <4>1. g \in Frame
        BY <1>1, <1>2, <1>3, <2>1, <3>1 DEF Pending
      <4>2. Len(g.payload) \in Nat /\ Len(Units(g)) = Len(g.payload) + 4
        BY <4>1, UnitsOfFrame
      <4> HIDE DEF g
      <4>3. Len(Units(g)) # 1
        BY <4>2
      <4> QED BY <4>3 DEF g
    <3> QED BY <2>1, <3>1 DEF AwaitsCheck
  <2>2. CASE cursor'.frame = i /\ cursor'.unit = Len(u)
    <3>1. cursor'.unit = cursor.unit \/ cursor'.unit = cursor.unit + 1
      BY <1>5, <2>2, <1>1 DEF Stays, Leaves, At, i
    <3>2. cursor.unit >= n + 3
      BY <1>1, <2>2, <3>1
    <3>3. InTail
      BY <3>2 DEF InTail, f, n, i
    <3> QED BY <1>2, <2>2, <3>3 DEF AwaitsCheck
  <2>3. CASE cursor'.frame = i /\ cursor'.unit # Len(u)
    BY <1>2, <2>3 DEF AwaitsCheck, u, f, i
  <2> QED BY <1>9, <2>1, <2>2, <2>3
<1>13. Recovers'
  <2> SUFFICES ASSUME NEW k \in 1 .. cursor'.frame - 1,
                      k \notin damaged', k - 1 \notin cutTail'
               PROVE  Served(k)'
    BY DEF Recovers, Served, CallbacksDuring, Genuine
  <2>1. k # i
    BY <1>2
  <2>2. k \in 1 .. i - 1
    BY <1>1, <1>9, <2>1
  <2>3. k \notin damaged /\ k - 1 \notin cutTail
    BY <1>2
  <2>4. Served(k)
    BY <2>2, <2>3 DEF FInv, Recovers, Served, i
  <2> QED BY <1>2, <1>4, <2>4, ServedStays
<1> QED BY <1>6, <1>7, <1>8, <1>11, <1>12, <1>13 DEF FInv

(* An intact byte.                                                         *)
LEMMA IntactStep ==
  ASSUME FInv, HearIntact
  PROVE  FInv'
<1> DEFINE i == cursor.frame
           f == sent[i]
           u == Units(f)
           n == Len(f.payload)
           b == u[cursor.unit][cursor.byte]
<1>1. Pending /\ sent' = sent /\ cursor' = Advance(cursor)
  BY DEF HearIntact, Receive
<1>2. /\ faults' = faults /\ damaged' = damaged /\ cutTail' = cutTail
      /\ Hear(b) /\ NextByte = b
  BY SMTT(60) DEF HearIntact, NextByte
<1>3. /\ f \in Frame /\ Fits(f) /\ n \in Nat /\ Len(u) = n + 4
      /\ cursor.unit \in 1 .. n + 4 /\ cursor.byte \in {1, 2} /\ b \in Byte
      /\ i \in 1 .. Len(sent) /\ i \in 1 .. MaxSent
  BY <1>1, <1>2, OnLine
<1>4. /\ sent \in Seq(Frame) /\ faults \in 0 .. MaxFaults
      /\ damaged \subseteq 1 .. MaxSent /\ cutTail \subseteq damaged
  BY DEF FInv, FaultTypeOK, TypeOK
<1>5. Extends
  BY <1>1, <1>2, <1>3, HearExtends
<1>6. Stays(cursor) \/ Leaves(cursor)
  BY <1>1, AdvanceCases
<1>7. cursor' \in Cursor /\ cursor'.frame <= Len(sent') + 1 /\ CursorInFrame'
  BY <1>1, <1>6, CursorSteps
<1>8. FaultTypeOK'
  BY <1>1, <1>2, <1>4, <1>5, <1>7 DEF FaultTypeOK, TypeOK, Extends
<1>9. FramesFit' /\ Len(sent') <= MaxSent
  BY <1>1 DEF FInv, FramesFit, Fits
<1>10. parser' = Feed(parser, b)
  BY <1>2 DEF Hear
<1>11. Whole(i) => Continues(parser, cursor.unit, cursor.byte, f)
                   \/ Completes(parser, cursor.unit, cursor.byte, f)
  <2>1. ASSUME Whole(i)
        PROVE  InPlace(parser, cursor.unit, cursor.byte, f)
    BY <1>1, <2>1 DEF FInv, InPlaceIfWhole
  <2>2. cursor.unit \in Nat
    BY <1>3
  <2> QED BY <1>3, <2>1, <2>2, ReceiveByte
<1>12. u[n + 4] = <<Checksum(f.payload)>>
  BY <1>3, UnitsOfFrame
<1>13. u[n + 3] = <<Star>>
  BY <1>3, UnitsOfFrame
<1> HIDE DEF i, f, u, n
<1>14. CASE Stays(cursor)
  <2>1. \/ /\ cursor' = At(i, cursor.unit, 2)
           /\ cursor.byte = 1 /\ cursor.unit # Len(u) /\ 2 <= Len(u[cursor.unit])
        \/ /\ cursor' = At(i, cursor.unit + 1, 1)
           /\ cursor.unit < Len(u) /\ cursor.byte = Len(u[cursor.unit])
    BY <1>14 DEF Stays, u, f, i
  <2>2. cursor'.frame = i /\ cursor.unit # Len(u)
    BY <1>3, <2>1 DEF At
  <2>3. Pending'
    BY <1>1, <1>3, <1>4, <2>2 DEF Pending, i
  <2>4. ASSUME Whole(i)
        PROVE  InPlace(parser', cursor'.unit, cursor'.byte, f)
    <3>1. Continues(parser, cursor.unit, cursor.byte, f)
      BY <1>11, <2>2, <2>4, Zenon DEF Completes, u
    <3>2. \/ /\ cursor.byte < Len(u[cursor.unit]) /\ cursor.byte = 1
             /\ InPlace(parser', cursor.unit, 2, f)
          \/ /\ cursor.byte = Len(u[cursor.unit])
             /\ InPlace(parser', cursor.unit + 1, 1, f)
      BY <1>10, <3>1, Zenon DEF Continues, u
    <3>3. CASE cursor' = At(i, cursor.unit, 2) /\ cursor.byte = 1 /\ 2 <= Len(u[cursor.unit])
      <4>1. cursor.byte # Len(u[cursor.unit])
        <5> DEFINE l == Len(u[cursor.unit])
        <5>1. l \in {1, 2} /\ 2 <= l
          BY <1>1, <3>3, OnLine DEF u, f, i
        <5> HIDE DEF l
        <5>2. l # 1
          BY <5>1
        <5> QED BY <3>3, <5>2, Zenon DEF l
      <4>2. InPlace(parser', cursor.unit, 2, f)
        BY <3>2, <4>1, Zenon
      <4>3. cursor'.unit = cursor.unit /\ cursor'.byte = 2
        BY <3>3 DEF At
      <4> QED BY <4>2, <4>3
    <3>4. CASE cursor' = At(i, cursor.unit + 1, 1) /\ cursor.byte = Len(u[cursor.unit])
      <4>1. ~(cursor.byte < Len(u[cursor.unit]))
        BY <1>3, <3>4
      <4>2. InPlace(parser', cursor.unit + 1, 1, f)
        BY <3>2, <4>1, Zenon
      <4>3. cursor'.unit = cursor.unit + 1 /\ cursor'.byte = 1
        BY <3>4 DEF At
      <4> QED BY <4>2, <4>3
    <3> QED BY <2>1, <3>3, <3>4
  <2>5. InPlaceIfWhole'
    <3>1. cursor'.frame \notin damaged' /\ cursor'.frame - 1 \notin cutTail' => Whole(i)
      BY <1>2, <2>2, Zenon DEF Whole
    <3>2. sent'[cursor'.frame] = f
      BY <1>1, <2>2, Zenon DEF f
    <3>3. Whole(cursor.frame)' =>
            InPlace(parser', cursor'.unit, cursor'.byte, sent'[cursor'.frame])
      BY <2>4, <3>1, <3>2, Zenon DEF Whole
    <3> QED BY <2>3, <3>3, Zenon DEF InPlaceIfWhole, InPlace
  <2>6. AwaitsCheck'
    <3>1. ASSUME cursor'.unit = Len(u)
          PROVE  parser'.in_frame /\ parser'.after_star
      <4>1. cursor.unit = n + 3 /\ cursor' = At(i, cursor.unit + 1, 1)
        BY <1>3, <2>1, <3>1 DEF At
      <4>2. u[cursor.unit] = <<Star>>
        BY <1>13, <4>1, Zenon
      <4>3. cursor.byte = Len(u[cursor.unit])
        BY <1>3, <2>1, <4>2
      <4>4. b = Star
        BY <4>2, <4>3
      <4> QED BY <1>10, <4>4, StarThenCheck
    <3>2. u = Units(sent'[cursor'.frame])
      BY <1>1, <2>2 DEF u, f
    <3> QED BY <3>1, <3>2 DEF AwaitsCheck
  <2>7. Recovers'
    <3> SUFFICES ASSUME NEW k \in 1 .. cursor'.frame - 1,
                        k \notin damaged', k - 1 \notin cutTail'
                 PROVE  Served(k)'
      BY DEF Recovers, Served, CallbacksDuring, Genuine
    <3>1. Served(k)
      BY <1>2, <2>2 DEF FInv, Recovers, Served, i
    <3> QED BY <1>1, <1>5, <3>1, ServedStays
  <2> QED BY <1>7, <1>8, <1>9, <2>5, <2>6, <2>7 DEF FInv
<1>15. CASE Leaves(cursor)
  <2>1. cursor' = At(i + 1, 1, 1) /\ cursor.unit = Len(u) /\ cursor.byte = 1
    BY <1>15 DEF Leaves, u, f, i
  <2>2. cursor'.frame = i + 1 /\ cursor'.unit = 1 /\ cursor'.byte = 1
    BY <2>1 DEF At
  <2>3. u[cursor.unit] = <<Checksum(f.payload)>>
    BY <1>3, <1>12, <2>1, Zenon
  <2>4. b = Checksum(f.payload) /\ Len(u[cursor.unit]) = 1
    BY <2>1, <2>3
  <2>5. IsCheck(b) /\ b # Star /\ b # Esc
    BY <2>4, ChecksumIsCheck DEF IsCheck, Star, Esc
  <2>6. i \notin cutTail => parser' = Idle
    <3>1. i \notin cutTail => parser.in_frame /\ parser.after_star
      BY <1>1, <2>1 DEF FInv, AwaitsCheck, u, f, i
    <3> QED BY <1>10, <2>5, <3>1, StarThenCheck
  <2>7. ASSUME Pending'
        PROVE  sent'[cursor'.frame] \in Frame
    BY <1>1, <1>3, <1>4, <2>2, <2>7 DEF Pending
  <2>8. InPlaceIfWhole'
    <3>1. cursor'.frame - 1 = i
      BY <1>3, <2>2
    <3>2. ASSUME cursor'.frame - 1 \notin cutTail'
          PROVE  parser' = Idle
      BY <1>2, <2>6, <3>1, <3>2, Zenon
    <3>3. ASSUME cursor'.frame - 1 \notin cutTail', Pending'
          PROVE  InPlace(parser', cursor'.unit, cursor'.byte, sent'[cursor'.frame])
      <4>1. InPlace(Idle, 1, 1, sent'[cursor'.frame])
        BY <2>7, <3>3, StartInPlace
      <4> QED BY <2>2, <3>2, <3>3, <4>1, Zenon
    <3> QED BY <3>2, <3>3, Zenon DEF InPlaceIfWhole, InPlace, Whole
  <2>9. AwaitsCheck'
    <3>1. ASSUME Pending'
          PROVE  Len(Units(sent'[cursor'.frame])) # 1
      <4> DEFINE g == sent'[cursor'.frame]
      <4>1. g \in Frame
        BY <2>7, <3>1
      <4>2. Len(g.payload) \in Nat /\ Len(Units(g)) = Len(g.payload) + 4
        BY <4>1, UnitsOfFrame
      <4> HIDE DEF g
      <4>3. Len(Units(g)) # 1
        BY <4>2
      <4> QED BY <4>3 DEF g
    <3> QED BY <2>2, <3>1 DEF AwaitsCheck
  <2>10. ASSUME NEW k, k = i, Whole(k)
         PROVE  Served(k)'
    <3>1. Completes(parser, cursor.unit, cursor.byte, f)
      <4>1. ~(cursor.byte < Len(u[cursor.unit])) /\ ~(cursor.unit < Len(u))
        BY <1>3, <2>1, <2>4
      <4> QED BY <1>11, <2>10, <4>1, Zenon DEF Continues, u
    <3>2. Emits(parser, b) /\ parser.cmd = f.cmd /\ parser.payload = f.payload
      BY <3>1 DEF Completes, u
    <3> DEFINE d == [cmd |-> parser.cmd, payload |-> parser.payload, check |-> b]
               m == Len(delivered) + 1
    <3>3. delivered' = Append(delivered, d) /\ readAt' = Append(readAt, i)
      BY <1>2, <3>2 DEF Hear, Callback, i
    <3>4. Genuine(d, f)
      BY <3>2 DEF Genuine
    <3> HIDE DEF d
    <3>5. /\ delivered \in Seq(Delivery) /\ readAt \in Seq(1 .. MaxSent)
          /\ Len(readAt) = Len(delivered)
      BY DEF FInv, FaultTypeOK, TypeOK
    <3>6. readAt' \in Seq(1 .. MaxSent) /\ Len(readAt') = m /\ readAt'[m] = i
      BY <1>3, <3>3, <3>5
    <3>7. delivered' \in Seq(Delivery) /\ Len(delivered') = m
      BY <1>5, <3>6 DEF Extends
    <3>8. delivered'[m] = d
      BY <3>3, <3>5
    <3>9. m \in 1 .. Len(delivered')
      BY <3>5, <3>7
    <3>10. delivered'[m].cmd = sent'[k].cmd /\ delivered'[m].payload = sent'[k].payload
      BY <1>1, <2>10, <3>4, <3>8, Zenon DEF Genuine, f
    <3>11. m \in 1 .. Len(delivered') /\ readAt'[m] = k
      BY <2>10, <3>6, <3>9, Zenon
    <3> HIDE DEF m
    <3> QED BY <3>10, <3>11, Zenon DEF Served, CallbacksDuring, Genuine
  <2>11. Recovers'
    <3> SUFFICES ASSUME NEW k \in 1 .. cursor'.frame - 1,
                        k \notin damaged', k - 1 \notin cutTail'
                 PROVE  Served(k)'
      BY DEF Recovers, Served, CallbacksDuring, Genuine
    <3>1. CASE k = i
      <4>1. Whole(k)
        BY <1>2, Zenon DEF Whole
      <4> QED BY <2>10, <3>1, <4>1
    <3>2. CASE k # i
      <4>1. k \in 1 .. i - 1
        BY <1>3, <2>2, <3>2
      <4>2. Served(k)
        BY <1>2, <4>1 DEF FInv, Recovers, Served, i
      <4> QED BY <1>1, <1>5, <4>2, ServedStays
    <3> QED BY <3>1, <3>2
  <2> QED BY <1>7, <1>8, <1>9, <2>8, <2>9, <2>11 DEF FInv
<1> QED BY <1>6, <1>14, <1>15
(* Sending puts a frame behind the ones on the line.                       *)
LEMMA FaultSend ==
  ASSUME FInv, NEW f \in Frame, Send(f), UNCHANGED faultVars
  PROVE  FInv'
<1>1. /\ sent \in Seq(Frame) /\ Len(sent) < MaxSent /\ sent' = Append(sent, f)
      /\ cursor' = cursor /\ parser' = parser /\ delivered' = delivered
      /\ faults' = faults /\ damaged' = damaged /\ cutTail' = cutTail /\ readAt' = readAt
  BY DEF FInv, FaultTypeOK, TypeOK, Send, faultVars
<1>2. /\ Len(sent) \in Nat /\ Len(sent') = Len(sent) + 1 /\ sent' \in Seq(Frame)
      /\ sent'[Len(sent) + 1] = f /\ \A k \in 1 .. Len(sent) : sent'[k] = sent[k]
  BY <1>1
<1>3. cursor.frame \in Nat /\ cursor.frame >= 1 /\ cursor.frame <= Len(sent) + 1
  BY DEF FInv, FaultTypeOK, TypeOK, Cursor
<1>4. FaultTypeOK'
  BY <1>1, <1>2 DEF FInv, FaultTypeOK, TypeOK
<1>5. cursor'.frame <= Len(sent') + 1 /\ Len(sent') <= MaxSent
  BY <1>1, <1>2, <1>3, MaxSentAssumption
<1>6. FramesFit'
  <2>1. Fits(f)
    BY DEF Send, Fits
  <2>2. \A k \in 1 .. Len(sent') : k \in 1 .. Len(sent) \/ k = Len(sent) + 1
    BY <1>2
  <2> QED BY <1>2, <2>1, <2>2 DEF FInv, FramesFit, Fits
<1>7. ASSUME Pending
      PROVE  CursorInFrame' /\ AwaitsCheck' /\ InPlaceIfWhole'
  <2>1. cursor.frame \in 1 .. Len(sent)
    BY <1>2, <1>3, <1>7 DEF Pending
  <2>2. sent'[cursor'.frame] = sent[cursor.frame]
    BY <1>1, <1>2, <2>1
  <2>3. Pending'
    BY <1>1, <1>2, <2>1 DEF Pending
  <2>4. CursorInFrame'
    BY <1>1, <1>7, <2>2, <2>3, Zenon DEF FInv, CursorInFrame
  <2>5. AwaitsCheck'
    BY <1>1, <1>7, <2>2, <2>3, Zenon DEF FInv, AwaitsCheck
  <2>6. InPlaceIfWhole'
    BY <1>1, <1>7, <2>2, <2>3, ZenonT(60) DEF FInv, InPlaceIfWhole, InPlace, Whole
  <2> QED BY <2>4, <2>5, <2>6
<1>8. ASSUME ~Pending
      PROVE  CursorInFrame' /\ AwaitsCheck' /\ InPlaceIfWhole'
  <2>1. cursor.frame = Len(sent) + 1 /\ cursor.unit = 1 /\ cursor.byte = 1
    BY <1>2, <1>3, <1>8 DEF Pending, FInv, CursorInFrame
  <2>2. sent'[cursor'.frame] = f
    BY <1>1, <1>2, <2>1
  <2> DEFINE n == Len(f.payload)
             u == Units(f)
  <2>3. n \in Nat /\ Len(u) = n + 4
    BY UnitsOfFrame
  <2>4. Len(u[1]) = 1
    <3>1. u[1] = <<Star>>
      BY UnitsOfFrame
    <3> QED BY <3>1
  <2> HIDE DEF n, u
  <2>5. Len(u) # 1 /\ 1 <= Len(u) /\ 1 <= Len(u[1])
    BY <2>3, <2>4
  <2>6. CursorInFrame'
    BY <1>1, <2>1, <2>2, <2>5, Zenon DEF CursorInFrame, u
  <2>7. AwaitsCheck'
    BY <1>1, <2>1, <2>2, <2>5, Zenon DEF AwaitsCheck, u
  <2>8. InPlace(Idle, 1, 1, f)
    BY StartInPlace
  <2>9. Whole(cursor.frame) => parser = Idle
    BY <1>8, Zenon DEF FInv, InPlaceIfWhole
  <2>10. InPlaceIfWhole'
    BY <1>1, <2>1, <2>2, <2>8, <2>9, Zenon DEF InPlaceIfWhole, InPlace, Whole
  <2> QED BY <2>6, <2>7, <2>10
<1>9. Recovers'
  <2> SUFFICES ASSUME NEW k \in 1 .. cursor'.frame - 1,
                      k \notin damaged', k - 1 \notin cutTail'
               PROVE  Served(k)'
    BY DEF Recovers, Served, CallbacksDuring, Genuine
  <2>1. Served(k)
    BY <1>1 DEF FInv, Recovers, Served
  <2>2. sent'[k] = sent[k]
    BY <1>1, <1>2, <1>3
  <2> QED BY <1>1, <2>1, <2>2, Zenon DEF Served, CallbacksDuring, Genuine
<1> QED BY <1>4, <1>5, <1>6, <1>7, <1>8, <1>9 DEF FInv

LEMMA FaultInitInv == FaultInit => FInv
<1> SUFFICES ASSUME FaultInit PROVE FInv
  OBVIOUS
<1>1. /\ sent = <<>> /\ cursor = At(1, 1, 1) /\ parser = Idle /\ delivered = <<>>
      /\ faults = 0 /\ damaged = {} /\ cutTail = {} /\ readAt = <<>>
  BY DEF FaultInit, Init
<1>2. Len(sent) = 0 /\ cursor.frame = 1 /\ cursor.unit = 1 /\ cursor.byte = 1
  BY <1>1 DEF At
<1>3. ~Pending
  BY <1>2 DEF Pending
<1>4. cursor \in Cursor
  BY <1>1 DEF At, Cursor
<1>5. FaultTypeOK
  BY <1>1, <1>4, MaxFaultsAssumption DEF FaultTypeOK, TypeOK, Parser, Idle, Byte
<1>6. FramesFit /\ cursor.frame <= Len(sent) + 1 /\ Len(sent) <= MaxSent
  BY <1>2, MaxSentAssumption DEF FramesFit
<1>7. CursorInFrame /\ AwaitsCheck /\ InPlaceIfWhole
  BY <1>1, <1>2, <1>3 DEF CursorInFrame, AwaitsCheck, InPlaceIfWhole
<1>8. Recovers
  BY <1>2 DEF Recovers
<1> QED BY <1>5, <1>6, <1>7, <1>8 DEF FInv

LEMMA FaultNextInv == FInv /\ [FaultNext]_allVars => FInv'
<1> SUFFICES ASSUME FInv, [FaultNext]_allVars PROVE FInv'
  OBVIOUS
<1>1. CASE (\E f \in Frame : Send(f)) /\ UNCHANGED faultVars
  BY <1>1, FaultSend
<1>2. CASE HearIntact
  BY <1>2, IntactStep
<1>3. CASE LoseByte
  BY <1>3, FaultStep DEF LoseByte
<1>4. CASE GarbleByte
  <2>1. PICK b \in NoiseBytes : Hear(b)
    BY <1>4 DEF GarbleByte
  <2>2. Extends
    BY <1>4, <2>1, HearExtends, NoiseBytesAssumption DEF GarbleByte
  <2> QED BY <1>4, <2>2, FaultStep DEF GarbleByte
<1>5. CASE SpuriousByte
  <2>1. PICK b \in NoiseBytes : Hear(b)
    BY <1>5 DEF SpuriousByte
  <2>2. Extends
    BY <1>5, <2>1, HearExtends, NoiseBytesAssumption DEF SpuriousByte
  <2> QED BY <1>5, <2>2, FaultStep DEF SpuriousByte
<1>6. CASE UNCHANGED allVars
  <2>1. /\ sent' = sent /\ cursor' = cursor /\ parser' = parser /\ delivered' = delivered
        /\ faults' = faults /\ damaged' = damaged /\ cutTail' = cutTail /\ readAt' = readAt
    BY <1>6 DEF allVars
  <2>2. FaultTypeOK' /\ FramesFit' /\ cursor'.frame <= Len(sent') + 1 /\ Len(sent') <= MaxSent
    BY <2>1 DEF FInv, FaultTypeOK, TypeOK, FramesFit, Fits
  <2>3. CursorInFrame' /\ AwaitsCheck' /\ InPlaceIfWhole'
    BY <2>1, Zenon DEF FInv, CursorInFrame, AwaitsCheck, InPlaceIfWhole, InPlace, Whole, Pending
  <2>4. Recovers'
    BY <2>1, ZenonT(60) DEF FInv, Recovers, CallbacksDuring, Genuine
  <2> QED BY <2>2, <2>3, <2>4 DEF FInv
<1> QED BY <1>1, <1>2, <1>3, <1>4, <1>5, <1>6 DEF FaultNext

-----------------------------------------------------------------------------
(* The inductive invariant of the damaged line: while a whole frame        *)
(* arrives after an intact tail, the parser is where a good line puts it.  *)
THEOREM FaultInvariance == FaultSpec => []FInv
BY FaultInitInv, FaultNextInv, PTL DEF FaultSpec

(* The parser stays a struct wing_frame_parser whatever bytes arrive.      *)
THEOREM FaultTypeCorrect == FaultSpec => []FaultTypeOK
<1>1. FInv => FaultTypeOK
  BY DEF FInv
<1> QED BY <1>1, FaultInvariance, PTL

(* However many bytes are lost, changed or added, every undamaged frame    *)
(* that follows an intact tail reaches the callback of wing_parser_feed    *)
(* as it was sent.                                                         *)
THEOREM RecoversHolds == FaultSpec => []Recovers
<1>1. FInv => Recovers
  BY DEF FInv
<1> QED BY <1>1, FaultInvariance, PTL

(* Whatever the bytes before it were, an intact tail returns the parser to *)
(* the state of wing_parser_reset.                                         *)
THEOREM TailResetsHolds == FaultSpec => TailResets
<1>1. FInv /\ [FaultNext]_allVars =>
        [cursor'.frame = cursor.frame + 1 /\ cursor.frame \notin cutTail'
          => parser' = Idle]_allVars
  <2> SUFFICES ASSUME FInv, FaultNext,
                      cursor'.frame = cursor.frame + 1, cursor.frame \notin cutTail'
               PROVE  parser' = Idle
    OBVIOUS
  <2>1. Pending /\ cursor' = Advance(cursor)
    <3>1. cursor' # cursor
      <4>1. cursor.frame \in Nat
        BY DEF FInv, FaultTypeOK, TypeOK, Cursor
      <4>2. cursor.frame + 1 # cursor.frame
        BY <4>1
      <4> QED BY <4>2
    <3> QED BY <3>1 DEF FaultNext, Send, HearIntact, Receive, LoseByte, GarbleByte,
                         SpuriousByte
  <2> DEFINE f == sent[cursor.frame]
             u == Units(f)
             n == Len(f.payload)
  <2>2. /\ f \in Frame /\ n \in Nat /\ Len(u) = n + 4 /\ cursor.unit \in 1 .. n + 4
        /\ cursor.frame \in Nat
    BY <2>1, OnLine
  <2>3. u[n + 4] = <<Checksum(f.payload)>>
    BY <2>2, UnitsOfFrame
  <2> HIDE DEF f, u, n
  <2>4. cursor.unit = Len(u) /\ cursor.byte = 1
    <3>1. ~Stays(cursor)
      <4>1. Stays(cursor) => cursor'.frame = cursor.frame
        BY DEF Stays, At
      <4>2. cursor.frame + 1 # cursor.frame
        BY <2>2
      <4> QED BY <4>1, <4>2
    <3> QED BY <2>1, <3>1, AdvanceCases DEF Leaves, u, f
  <2>5. cursor.unit = n + 4 /\ cursor.unit >= n + 3
    BY <2>2, <2>4
  <2>6. InTail
    BY <2>5 DEF InTail, f, n
  <2>7. ~Damage
    BY <2>6 DEF Damage
  <2>8. HearIntact
    <3>1. CASE \E g \in Frame : Send(g)
      <4>1. cursor' = cursor
        BY <3>1 DEF Send
      <4>2. cursor.frame + 1 # cursor.frame
        BY <2>2
      <4> QED BY <4>1, <4>2
    <3> QED BY <2>7, <3>1 DEF FaultNext, LoseByte, GarbleByte, SpuriousByte
  <2>9. cursor.frame \notin cutTail
    BY <2>8 DEF HearIntact
  <2>10. parser.in_frame /\ parser.after_star
    BY <2>1, <2>4, <2>9 DEF FInv, AwaitsCheck, u, f
  <2>11. u[cursor.unit] = <<Checksum(f.payload)>>
    BY <2>3, <2>5, Zenon
  <2>12. NextByte = Checksum(f.payload)
    BY <2>4, <2>11 DEF NextByte, u, f
  <2>13. IsCheck(NextByte) /\ NextByte # Star /\ NextByte # Esc
    BY <2>12, ChecksumIsCheck DEF IsCheck, Star, Esc
  <2> QED BY <2>8, <2>10, <2>13, StarThenCheck DEF HearIntact, Hear
<1> QED BY <1>1, FaultInvariance, PTL DEF FaultSpec, TailResets

-----------------------------------------------------------------------------
(* At most one callback for a frame that no fault hit: until its last byte *)
(* such a frame keeps every parser from calling back, whatever the parser  *)
(* held when the frame began.                                              *)

\* The callbacks so far were made during frames whose reading has begun.
ReadSoFar == \A k \in 1 .. Len(readAt) : readAt[k] <= cursor.frame

\* An undamaged frame that is being read has made no callback yet.
Unanswered ==
  cursor.frame \notin damaged => \A k \in 1 .. Len(readAt) : readAt[k] # cursor.frame

AnsweredOnce ==
  \A i \in (1 .. cursor.frame) \ damaged : \A k, l \in 1 .. Len(readAt) :
    readAt[k] = i /\ readAt[l] = i => k = l

\* Inside an undamaged frame the parser has just read a star where the
\* sender wrote one: before the command, in an escape and before the check.
StarsAgree ==
  Pending /\ cursor.frame \notin damaged =>
    \/ cursor.unit = 1
    \/ /\ parser.in_frame
       /\ parser.after_star <=>
            cursor.unit = 2 \/ cursor.byte = 2 \/ cursor.unit = Len(Units(sent[cursor.frame]))

CInv == ReadSoFar /\ Unanswered /\ AnsweredOnce /\ StarsAgree

LEMMA FeedStars ==
  ASSUME NEW p, NEW b
  PROVE  /\ Feed(p, Star).in_frame /\ Feed(p, Star).after_star
         /\ p.in_frame /\ b # Star /\ (p.after_star => ~IsCheck(b)) =>
              Feed(p, b).in_frame /\ ~Feed(p, b).after_star
         /\ (~IsCheck(b) \/ ~p.after_star) => ~Emits(p, b)
<1>1. ASSUME NEW star, NEW have, NEW cmd, NEW payload
      PROVE  /\ InFrame(star, have, cmd, payload).in_frame = TRUE
             /\ InFrame(star, have, cmd, payload).after_star = star
  BY DEF InFrame
<1>2. Feed(p, Star).in_frame /\ Feed(p, Star).after_star
  BY StarThenCheck
<1>3. ASSUME p.in_frame, b # Star, p.after_star => ~IsCheck(b)
      PROVE  Feed(p, b).in_frame /\ ~Feed(p, b).after_star
  BY <1>1, <1>3, ZenonT(60) DEF Feed, FeedAfterStar, FeedInside, Push, Command
<1>4. (~IsCheck(b) \/ ~p.after_star) => ~Emits(p, b)
  BY DEF Emits
<1> QED BY <1>2, <1>3, <1>4

(* A byte of an undamaged frame before its last: no callback, and the      *)
(* parser goes on to agree about stars.                                    *)
LEMMA QuietByte ==
  ASSUME FInv, StarsAgree, Pending, cursor.frame \notin damaged,
         parser' = Feed(parser, NextByte), sent' = sent, Stays(cursor)
  PROVE  /\ ~Emits(parser, NextByte)
         /\ parser'.in_frame
         /\ parser'.after_star <=>
              cursor'.unit = 2 \/ cursor'.byte = 2 \/ cursor'.unit = Len(Units(sent[cursor.frame]))
<1> DEFINE f == sent[cursor.frame]
           u == Units(f)
           n == Len(f.payload)
           i == cursor.unit
           j == cursor.byte
           b == NextByte
           G(c) == parser'.in_frame
                   /\ (parser'.after_star <=> c.unit = 2 \/ c.byte = 2 \/ c.unit = n + 4)
<1>1. /\ f \in Frame /\ n \in Nat /\ Len(u) = n + 4 /\ i \in 1 .. n + 4
      /\ j \in {1, 2} /\ j \in 1 .. Len(u[i]) /\ Len(u[i]) \in {1, 2} /\ b \in Byte
  BY OnLine
<1>2. b = u[i][j]
  BY DEF NextByte
<1>3. \/ cursor' = At(cursor.frame, i, 2) /\ j = 1 /\ i # Len(u) /\ 2 <= Len(u[i])
      \/ cursor' = At(cursor.frame, i + 1, 1) /\ i < Len(u) /\ j = Len(u[i])
  BY DEF Stays
<1>4. i # 1 => parser.in_frame /\ (parser.after_star <=> i = 2 \/ j = 2 \/ i = n + 4)
  BY <1>1, SMTT(60) DEF StarsAgree
<1>5. u[1] = <<Star>> /\ u[2] = <<f.cmd>> /\ u[n + 3] = <<Star>>
  BY <1>1, UnitsOfFrame
<1>6. \A k \in 3 .. n + 2 : u[k] = Escape(f.payload[k - 2])
  BY <1>1, UnitsOfFrame
<1>7. f.cmd \in 0 .. 127 /\ f.cmd # Star /\ f.cmd # Esc
  BY <1>1, CmdsAssumption, ZenonT(60) DEF Frame
<1>8. Star = 42 /\ Esc = 64
  BY DEF Star, Esc
<1>9. ~IsCheck(Star) /\ ~IsCheck(Esc) /\ ~IsCheck(f.cmd) /\ Esc # Star
  BY <1>7, <1>8 DEF IsCheck
<1>10. /\ parser' = Feed(parser, b)
       /\ Len(Units(sent[cursor.frame])) = n + 4
  BY <1>1
<1> HIDE DEF f, u, n, i, j, b
<1> SUFFICES ~Emits(parser, b) /\ G(cursor')
  BY <1>10 DEF b
<1>11. CASE u[i] = <<Star>> /\ (i = 1 \/ i = n + 3)
  <2>1. Len(u[i]) = 1 /\ j = 1 /\ b = Star
    BY <1>1, <1>2, <1>11
  <2>2. cursor'.unit = i + 1 /\ cursor'.byte = 1
    BY <1>3, <2>1 DEF At
  <2>3. parser'.in_frame /\ parser'.after_star /\ ~Emits(parser, b)
    BY <1>9, <1>10, <2>1, FeedStars
  <2>4. cursor'.unit = 2 \/ cursor'.unit = n + 4
    BY <1>1, <1>11, <2>2
  <2> QED BY <2>3, <2>4
<1>12. CASE i = 2
  <2>1. u[i] = <<f.cmd>>
    BY <1>5, <1>12
  <2>2. Len(u[i]) = 1 /\ j = 1 /\ b = f.cmd
    BY <1>1, <1>2, <2>1
  <2>3. cursor'.unit = 3 /\ cursor'.byte = 1
    BY <1>3, <1>12, <2>2 DEF At
  <2>4. parser'.in_frame /\ ~parser'.after_star /\ ~Emits(parser, b)
    BY <1>4, <1>7, <1>9, <1>10, <1>12, <2>2, FeedStars
  <2>5. cursor'.unit # 2 /\ cursor'.byte # 2 /\ cursor'.unit # n + 4
    BY <1>1, <2>3
  <2> QED BY <2>4, <2>5
<1>13. CASE i \in 3 .. n + 2 /\ f.payload[i - 2] = Star
  <2>1. u[i] = <<Star, Esc>>
    BY <1>6, <1>13 DEF Escape
  <2>2. Len(u[i]) = 2
    BY <2>1
  <2>3. i # 1 /\ i # 2 /\ i # n + 4 /\ i + 1 # 2 /\ i + 1 # n + 4
    BY <1>1, <1>13
  <2>4. CASE j = 1
    <3>1. b = Star
      BY <1>2, <2>1, <2>4
    <3>2. cursor'.byte = 2
      BY <1>3, <2>2, <2>4 DEF At
    <3>3. parser'.in_frame /\ parser'.after_star /\ ~Emits(parser, b)
      BY <1>9, <1>10, <3>1, FeedStars
    <3> QED BY <3>2, <3>3
  <2>5. CASE j = 2
    <3>1. b = Esc
      BY <1>2, <2>1, <2>5
    <3>2. cursor'.unit = i + 1 /\ cursor'.byte = 1
      BY <1>3, <2>5 DEF At
    <3>3. parser'.in_frame /\ ~parser'.after_star /\ ~Emits(parser, b)
      BY <1>4, <1>9, <1>10, <2>3, <3>1, FeedStars
    <3> QED BY <2>3, <3>2, <3>3
  <2> QED BY <1>1, <2>4, <2>5
<1>14. CASE i \in 3 .. n + 2 /\ f.payload[i - 2] # Star
  <2>1. u[i] = <<f.payload[i - 2]>>
    BY <1>6, <1>14 DEF Escape
  <2>2. Len(u[i]) = 1 /\ j = 1 /\ b # Star
    BY <1>1, <1>2, <1>14, <2>1
  <2>3. i # 1 /\ i # 2 /\ i # n + 4 /\ i + 1 # 2 /\ i + 1 # n + 4
    BY <1>1, <1>14
  <2>4. cursor'.unit = i + 1 /\ cursor'.byte = 1
    BY <1>3, <2>2 DEF At
  <2>5. parser'.in_frame /\ ~parser'.after_star /\ ~Emits(parser, b)
    BY <1>4, <1>10, <2>2, <2>3, FeedStars
  <2> QED BY <2>3, <2>4, <2>5
<1>15. i # n + 4
  BY <1>1, <1>3
<1>16. i = 1 \/ i = 2 \/ i \in 3 .. n + 2 \/ i = n + 3
  BY <1>1, <1>15
<1> QED BY <1>5, <1>11, <1>12, <1>13, <1>14, <1>16

(* What a step adds to readAt: nothing, or the frame on the line.          *)
Answers == readAt' = readAt \/ readAt' = Append(readAt, cursor.frame)

LEMMA ReadSoFarStep ==
  ASSUME FInv, CInv, FInv', Answers,
         cursor'.frame \in {cursor.frame, cursor.frame + 1}
  PROVE  /\ ReadSoFar'
         /\ cursor'.frame # cursor.frame =>
              \A k \in 1 .. Len(readAt') : readAt'[k] # cursor'.frame
<1>1. readAt \in Seq(1 .. MaxSent) /\ cursor.frame \in Nat
  BY DEF FInv, FaultTypeOK, TypeOK, Cursor
<1>2. \A k \in 1 .. Len(readAt) : readAt[k] <= cursor.frame
  BY DEF CInv, ReadSoFar
<1>a. \A k \in 1 .. Len(readAt) : readAt[k] \in Nat
  BY <1>1, MaxSentAssumption, SMTT(60)
<1>3. \A k \in 1 .. Len(readAt') : readAt'[k] <= cursor.frame /\ readAt'[k] \in Nat
  <2>1. CASE readAt' = readAt
    BY <1>2, <1>a, <2>1
  <2>2. CASE readAt' = Append(readAt, cursor.frame)
    <3>1. \A k \in 1 .. Len(readAt') :
            \/ k \in 1 .. Len(readAt) /\ readAt'[k] = readAt[k]
            \/ readAt'[k] = cursor.frame
      BY <1>1, <2>2
    <3> QED BY <1>1, <1>2, <1>a, <3>1
  <2> QED BY <2>1, <2>2 DEF Answers
<1> QED BY <1>1, <1>3, SMTT(60) DEF ReadSoFar

(* A fault marks the frame, so that nothing is claimed of it any more.     *)
LEMMA FaultCount ==
  ASSUME FInv, CInv, FInv', Pending, Damage, Answers,
         cursor' = cursor \/ cursor' = Advance(cursor)
  PROVE  CInv'
<1>1. readAt \in Seq(1 .. MaxSent) /\ cursor.frame \in Nat \ {0}
  BY DEF FInv, FaultTypeOK, TypeOK, Cursor
<1>2. damaged' = damaged \union {cursor.frame} /\ sent' = sent
  BY DEF Damage
<1>3. Stays(cursor) \/ Leaves(cursor) \/ cursor' = cursor
  BY AdvanceCases
<1>4. \/ cursor'.frame = cursor.frame
      \/ cursor'.frame = cursor.frame + 1 /\ cursor'.unit = 1
  BY <1>3 DEF Stays, Leaves, At
<1>5. /\ ReadSoFar'
      /\ cursor'.frame # cursor.frame =>
           \A k \in 1 .. Len(readAt') : readAt'[k] # cursor'.frame
  BY <1>4, ReadSoFarStep
<1>6. Unanswered'
  BY <1>2, <1>5 DEF Unanswered
<1>7. StarsAgree'
  BY <1>2, <1>4 DEF StarsAgree
<1>8. AnsweredOnce'
  <2> SUFFICES ASSUME NEW i \in (1 .. cursor'.frame) \ damaged',
                      NEW k \in 1 .. Len(readAt'), NEW l \in 1 .. Len(readAt'),
                      readAt'[k] = i, readAt'[l] = i
               PROVE  k = l
    BY DEF AnsweredOnce
  <2>1. i # cursor.frame /\ i \notin damaged
    BY <1>2
  <2>2. i \in 1 .. cursor.frame
    BY <1>1, <1>4, <1>5, <2>1, SMTT(60)
  <2>3. ASSUME NEW m \in 1 .. Len(readAt'), readAt'[m] = i
        PROVE  m \in 1 .. Len(readAt) /\ readAt[m] = i
    <3>1. CASE readAt' = readAt
      BY <2>3, <3>1
    <3>2. CASE readAt' = Append(readAt, cursor.frame)
      <4>1. \/ m \in 1 .. Len(readAt) /\ readAt'[m] = readAt[m]
            \/ readAt'[m] = cursor.frame
        BY <1>1, <3>2
      <4> QED BY <2>1, <2>3, <4>1
    <3> QED BY <3>1, <3>2 DEF Answers
  <2> QED BY <2>1, <2>2, <2>3 DEF CInv, AnsweredOnce
<1> QED BY <1>5, <1>6, <1>7, <1>8 DEF CInv

LEMMA IntactCount ==
  ASSUME FInv, CInv, FInv', HearIntact
  PROVE  CInv'
<1>1. /\ readAt \in Seq(1 .. MaxSent) /\ cursor.frame \in Nat \ {0}
      /\ Len(readAt) \in Nat
  BY DEF FInv, FaultTypeOK, TypeOK, Cursor
<1>2. /\ Pending /\ sent' = sent /\ damaged' = damaged /\ cursor' = Advance(cursor)
      /\ parser' = Feed(parser, NextByte)
      /\ readAt' = IF Emits(parser, NextByte) THEN Append(readAt, cursor.frame) ELSE readAt
  BY DEF HearIntact, Receive, Hear
<1>3. Answers
  BY <1>2 DEF Answers
<1>4. Stays(cursor) \/ Leaves(cursor)
  BY <1>2, AdvanceCases
<1>5. \/ Stays(cursor) /\ cursor'.frame = cursor.frame
      \/ Leaves(cursor) /\ cursor'.frame = cursor.frame + 1 /\ cursor'.unit = 1
  BY <1>4 DEF Stays, Leaves, At
<1>6. /\ ReadSoFar'
      /\ cursor'.frame # cursor.frame =>
           \A k \in 1 .. Len(readAt') : readAt'[k] # cursor'.frame
  BY <1>3, <1>5, ReadSoFarStep
<1>7. cursor.frame \notin damaged /\ Stays(cursor) =>
        /\ readAt' = readAt
        /\ parser'.in_frame
        /\ parser'.after_star <=>
             cursor'.unit = 2 \/ cursor'.byte = 2
               \/ cursor'.unit = Len(Units(sent[cursor.frame]))
  BY <1>2, QuietByte DEF CInv
<1>8. Unanswered'
  <2>1. CASE cursor'.frame # cursor.frame
    BY <1>6, <2>1 DEF Unanswered
  <2>2. CASE cursor'.frame = cursor.frame /\ cursor.frame \notin damaged
    <3>1. Stays(cursor)
      <4>1. cursor.frame + 1 # cursor.frame
        BY <1>1
      <4> QED BY <1>5, <2>2, <4>1
    <3>2. readAt' = readAt
      BY <1>7, <2>2, <3>1
    <3> QED BY <2>2, <3>2 DEF Unanswered, CInv
  <2>3. CASE cursor.frame \in damaged /\ cursor'.frame = cursor.frame
    BY <1>2, <2>3 DEF Unanswered
  <2> QED BY <2>1, <2>2, <2>3
<1>9. StarsAgree'
  <2>1. CASE cursor'.unit = 1
    BY <2>1 DEF StarsAgree
  <2>2. CASE Stays(cursor) /\ cursor'.frame = cursor.frame /\ cursor.frame \notin damaged
    <3>1. sent'[cursor'.frame] = sent[cursor.frame]
      BY <1>2, <2>2
    <3> QED BY <1>7, <2>2, <3>1, Zenon DEF StarsAgree
  <2>3. CASE cursor'.frame = cursor.frame /\ cursor.frame \in damaged
    BY <1>2, <2>3 DEF StarsAgree
  <2> QED BY <1>5, <2>1, <2>2, <2>3
<1>10. AnsweredOnce'
  <2> SUFFICES ASSUME NEW i \in (1 .. cursor'.frame) \ damaged',
                      NEW k \in 1 .. Len(readAt'), NEW l \in 1 .. Len(readAt'),
                      readAt'[k] = i, readAt'[l] = i
               PROVE  k = l
    BY DEF AnsweredOnce
  <2>1. i \in (1 .. cursor.frame) \ damaged
    BY <1>1, <1>2, <1>5, <1>6, SMTT(60)
  <2>2. CASE readAt' = readAt
    BY <2>1, <2>2 DEF CInv, AnsweredOnce
  <2>3. CASE readAt' = Append(readAt, cursor.frame)
    <3>1. ASSUME NEW m \in 1 .. Len(readAt')
          PROVE  \/ m = Len(readAt) + 1 /\ readAt'[m] = cursor.frame
                 \/ m \in 1 .. Len(readAt) /\ readAt'[m] = readAt[m]
      BY <1>1, <2>3
    <3>2. i = cursor.frame => \A m \in 1 .. Len(readAt) : readAt[m] # i
      BY <2>1 DEF CInv, Unanswered
    <3> QED BY <2>1, <3>1, <3>2 DEF CInv, AnsweredOnce
  <2> QED BY <1>3, <2>2, <2>3 DEF Answers
<1> QED BY <1>6, <1>8, <1>9, <1>10 DEF CInv

LEMMA HearAnswers == ASSUME NEW b, Hear(b) PROVE Answers
BY DEF Hear, Answers

LEMMA CountNext ==
  ASSUME FInv, CInv, FInv', [FaultNext]_allVars
  PROVE  CInv'
<1>1. CASE (\E f \in Frame : Send(f)) /\ UNCHANGED faultVars
  <2>1. PICK f \in Frame : Send(f)
    BY <1>1
  <2>2. /\ sent' = Append(sent, f) /\ cursor' = cursor /\ parser' = parser
        /\ damaged' = damaged /\ readAt' = readAt
    BY <1>1, <2>1 DEF Send, faultVars
  <2>3. ReadSoFar' /\ Unanswered' /\ AnsweredOnce'
    BY <2>2 DEF CInv, ReadSoFar, Unanswered, AnsweredOnce
  <2>4. sent \in Seq(Frame) /\ cursor.frame \in Nat \ {0}
    BY DEF FInv, FaultTypeOK, TypeOK, Cursor
  <2>5. CASE Pending
    <3>1. sent'[cursor.frame] = sent[cursor.frame]
      BY <2>2, <2>4, <2>5 DEF Pending
    <3> QED BY <2>2, <2>3, <2>5, <3>1, Zenon DEF CInv, StarsAgree
  <2>6. CASE ~Pending
    <3>1. cursor'.unit = 1
      BY <2>2, <2>6 DEF FInv, CursorInFrame
    <3> QED BY <2>3, <3>1 DEF CInv, StarsAgree
  <2> QED BY <2>5, <2>6
<1>2. CASE HearIntact
  BY <1>2, IntactCount
<1>3. CASE LoseByte
  BY <1>3, FaultCount DEF LoseByte, Answers
<1>4. CASE GarbleByte
  <2>1. Answers
    BY <1>4, HearAnswers DEF GarbleByte
  <2> QED BY <1>4, <2>1, FaultCount DEF GarbleByte
<1>5. CASE SpuriousByte
  <2>1. Answers
    BY <1>5, HearAnswers DEF SpuriousByte
  <2> QED BY <1>5, <2>1, FaultCount DEF SpuriousByte
<1>6. CASE UNCHANGED allVars
  BY <1>6, ZenonT(60) DEF allVars, CInv, ReadSoFar, Unanswered, AnsweredOnce, StarsAgree, Pending
<1> QED BY <1>1, <1>2, <1>3, <1>4, <1>5, <1>6 DEF FaultNext

LEMMA CountInit == FaultInit => CInv
<1> SUFFICES ASSUME FaultInit PROVE CInv
  OBVIOUS
<1>1. readAt = <<>> /\ cursor = At(1, 1, 1)
  BY DEF FaultInit, Init
<1>2. Len(readAt) = 0 /\ cursor.unit = 1
  BY <1>1 DEF At
<1> QED BY <1>2 DEF CInv, ReadSoFar, Unanswered, AnsweredOnce, StarsAgree

(* A frame that arrives whole makes wing_parser_feed call back at most     *)
(* once, though the parser may have been inside another frame when it came.*)
THEOREM AtMostOneCallbackHolds == FaultSpec => []AtMostOneCallback
<1>1. FInv /\ CInv => AtMostOneCallback
  <2> SUFFICES ASSUME FInv, CInv, NEW i \in (1 .. cursor.frame) \ damaged
               PROVE  Cardinality(CallbacksDuring(i)) <= 1
    BY DEF AtMostOneCallback
  <2>1. Len(readAt) = Len(delivered)
    BY DEF FInv, FaultTypeOK
  <2>2. \A k, l \in CallbacksDuring(i) : k = l
    BY <2>1 DEF CallbacksDuring, CInv, AnsweredOnce
  <2>3. CASE CallbacksDuring(i) = {}
    BY <2>3, FS_EmptySet
  <2>4. CASE CallbacksDuring(i) # {}
    <3>1. PICK k : CallbacksDuring(i) = {k}
      BY <2>2, <2>4
    <3>2. Cardinality({k}) = 1
      BY FS_Singleton, Zenon
    <3>3. Cardinality(CallbacksDuring(i)) = 1
      BY <3>1, <3>2, Zenon
    <3> QED BY <3>3
  <2> QED BY <2>3, <2>4
<1>2. FaultInit => FInv /\ CInv
  BY FaultInitInv, CountInit
<1>3. (FInv /\ CInv) /\ [FaultNext]_allVars => (FInv /\ CInv)'
  BY FaultNextInv, CountNext
<1> QED BY <1>1, <1>2, <1>3, PTL DEF FaultSpec
=============================================================================
