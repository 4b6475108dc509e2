---------------------------- MODULE TouchDraw_proofs -------------------------
(***************************************************************************)
(* Strokes, samples and releases of wing-draw on a panel that speaks one   *)
(* protocol, for any number of calibration points, and contacts on every   *)
(* column of a screen of up to 4096 by 4096 points: proofs about module    *)
(* TouchDraw.                                                              *)
(*                                                                         *)
(* A report is acted on some bytes after the finger moved, a raw one only  *)
(* when the next begins.  The invariant therefore relates the app to the   *)
(* contact it has seen (Seen), and that to the panel's by the effects of   *)
(* the report in the decoder and of the one on the line (StockInv,         *)
(* RawInv).                                                                *)
(***************************************************************************)
EXTENDS TouchDraw, SequenceTheorems, TLAPS

-----------------------------------------------------------------------------
(* What a report makes of the app.                                         *)

\* "mark" with a point, "lift" or "none".
Effect(kind, p) == [kind |-> kind, at |-> p]
Nothing == Effect("none", None)
Lifting == Effect("lift", None)

Apply(a, e) ==
  IF e.kind = "mark" THEN Touch(a, e.at) ELSE IF e.kind = "lift" THEN Release(a) ELSE a

\* A report with effect e takes a finger (contact n, down d) to (m, c).
Leads(e, n, d, m, c) ==
  \/ e.kind = "mark" /\ c /\ e.at.x = m /\ e.at.y \in Rows /\ m = (IF d THEN n ELSE n + 1)
  \/ e.kind = "lift" /\ d /\ ~c /\ m = n
  \/ e.kind = "none" /\ c = d /\ m = n

-----------------------------------------------------------------------------
(* What the app has seen: contact n, and whether its finger is down.       *)

Fields == {"touching", "last", "suppress", "active", "waiting_release", "index",
           "samples", "drawn", "shown", "tap"}

\* An app_state, and its samples.
Record(a)  == a = [f \in Fields |-> a[f]]
Entries(t) == t = [i \in 1 .. Points |-> t[i]]

\* A point of one of the first n contacts.
Of(p, n) == p.x \in 1 .. n /\ p.y \in Rows

\* What is drawn: nothing, a point or a line, not of the contact tapped last.
Screen(s, tap, n) ==
  \/ s = <<>>
  \/ \E p : s = <<p>> /\ Of(p, n) /\ (tap = 0 \/ p.x # tap)
  \/ \E p, q : s = <<p, q>> /\ Of(p, n) /\ Of(q, n) /\ p.x = q.x /\ (tap = 0 \/ q.x # tap)

\* The first k samples.
Samples(t, k, n) ==
  /\ \A i \in 1 .. k : Of(t[i].at, n)
  /\ \A i, j \in 1 .. k : i < j => t[i].at.x < t[j].at.x
  /\ speaks = {"stock"} => \A i \in 2 .. k : t[i].at.x > t[i].shown

\* An open stroke is of the finger that is down.
Stroke(touching, last, n, d) ==
  touching \in BOOLEAN /\ (touching => d /\ Of(last, n) /\ last.x = n)

\* A calibration shows a target, and takes the next sample from the next contact.
Target(active, waiting, index, drawn, shown, n, d) ==
  /\ active \in BOOLEAN /\ waiting \in BOOLEAN /\ index \in 0 .. Points /\ shown \in Nat
  /\ active => index < Points /\ drawn = <<>>
  /\ active /\ ~waiting /\ index > 0 => ~d /\ (speaks = {"stock"} => shown <= n)

\* The finger of the last sample cannot draw while it is down.
Tapped(tap, active, suppress, n, d) ==
  /\ suppress \in BOOLEAN /\ tap \in 0 .. n /\ (d => n > 0)
  /\ tap = n /\ d /\ n > 0 => active \/ suppress

Seen(a, n, d) ==
  /\ Record(a) /\ Entries(a.samples)
  /\ Screen(a.drawn, a.tap, n) /\ Samples(a.samples, a.index, n)
  /\ Stroke(a.touching, a.last, n, d)
  /\ Target(a.active, a.waiting_release, a.index, a.drawn, a.shown, n, d)
  /\ Tapped(a.tap, a.active, a.suppress, n, d)

-----------------------------------------------------------------------------
(* What is on the line and in the decoders.                                *)

\* Line r has the bytes w, of which k have been read.
OnLine(r, w, k) ==
  /\ r \in Seq(Byte) /\ Len(r) = Len(w) - k
  /\ \A i \in 1 .. Len(r) : r[i] = w[k + i]

StockEffect(cmd, s, check) ==
  LET p == [x |-> Word(s[2], s[3]), y |-> Word(s[4], s[5])] IN
  IF check # Checksum(s) THEN Nothing
  ELSE IF cmd = PointCmd /\ Len(s) = 5
    THEN IF p.x >= RawWidth \/ p.y >= RawHeight THEN Nothing
         ELSE IF s[1] = 0                       THEN Lifting
         ELSE IF s[1] \in {16, 32}              THEN Effect("mark", p)
         ELSE Nothing
  ELSE IF cmd = StateCmd /\ Len(s) = 2 /\ s[2] = 0 THEN Lifting
  ELSE Nothing

\* The first bytes v of a frame with command cmd and payload s, byte i at place at[i].
Begins(v, cmd, s, at) ==
  LET n == Len(s) IN
  /\ s \in Seq(Byte) /\ v \in Seq(Byte) /\ at \in Seq(Nat) /\ Len(at) = n + 1
  /\ at[1] = 3 /\ at[n + 1] = Len(v) + 1 /\ \A i \in 1 .. n + 1 : at[i] \in 3 .. Len(v) + 1
  /\ v[1] = Star /\ v[2] = cmd
  /\ \A i \in 1 .. n : /\ v[at[i]] = s[i]
                       /\ at[i + 1] = at[i] + (IF s[i] = Star THEN 2 ELSE 1)
                       /\ s[i] = Star => v[at[i] + 1] = Esc

\* The frame w has command cmd, payload s and check byte check.
IsFrame(w, cmd, s, at, check) ==
  /\ cmd \in {PointCmd, StateCmd} /\ Len(s) <= 5 /\ check \in 128 .. 255
  /\ \E v : Begins(v, cmd, s, at) /\ w = v \o <<Star, check>>

\* Parser p after k bytes of such a frame: before byte i + 1 of the payload, behind
\* the star that begins byte i, or before the check byte.
Takes(p, cmd, s, at, k, i)     == k = at[i + 1] - 1 /\ p = InFrame(FALSE, TRUE, cmd, SubSeq(s, 1, i))
Unescapes(p, cmd, s, at, k, i) == /\ s[i] = Star /\ k = at[i]
                                  /\ p = InFrame(TRUE, TRUE, cmd, SubSeq(s, 1, i - 1))
Closes(p, cmd, s, at, k)       == k = at[Len(s) + 1] /\ p = InFrame(TRUE, TRUE, cmd, s)

Parsed(p, cmd, s, at, k) ==
  \/ k <= 1 /\ p = Idle
  \/ \E i \in 0 .. Len(s) : Takes(p, cmd, s, at, k, i)
  \/ \E i \in 1 .. Len(s) : Unescapes(p, cmd, s, at, k, i)
  \/ Closes(p, cmd, s, at, k)

\* Parser p, line r and pending star t with the effect e still to come.
StockLine(p, r, t, e) ==
  \/ r = <<>> /\ p = Idle /\ t = FALSE /\ e = Nothing
  \/ \E w, cmd, s, at, check, k :
       /\ IsFrame(w, cmd, s, at, check) /\ e = StockEffect(cmd, s, check)
       /\ k \in 0 .. Len(w) - 1 /\ OnLine(r, w, k) /\ Parsed(p, cmd, s, at, k) /\ t = (k = 1)

StockCarries(e) == raw = Empty /\ StockLine(stock, rest, star, e)

\* A raw report: its type and the bytes after it.
RawEffect(type, s) ==
  IF type \in {65, 129} /\ Len(s) >= 3
    THEN Effect("mark", [x |-> 16 * s[1] + s[2] \div 16, y |-> 256 * (s[2] % 16) + s[3]])
  ELSE IF type = 1 THEN Lifting
  ELSE Nothing

IsReport(w, type, s) ==
  /\ type \in RawTypes /\ s \in Seq(Byte) /\ Len(s) <= 3 /\ \A i \in 1 .. Len(s) : s[i] # Star
  /\ w \in Seq(Byte) /\ Len(w) = Len(s) + 2 /\ w[1] = Star /\ w[2] = type
  /\ \A i \in 1 .. Len(s) : w[i + 2] = s[i]

\* A decoder in a report of this type.
Collecting(pending, type, s) ==
  [in_frame |-> TRUE, pending_star |-> pending, type |-> type, buf |-> s]

\* Decoder q has a whole report with effect e, or none yet.
Holds(q, t, e, pending) ==
  \/ q = Empty /\ e = Nothing /\ t = pending
  \/ \E type, s :
       /\ type \in RawTypes /\ s \in Seq(Byte) /\ Len(s) <= 3 /\ e = RawEffect(type, s)
       /\ q = Collecting(pending, type, s) /\ ~t

\* Effect e of the report read so far, and f of the one that follows it.
RawLine(q, r, t, e, f) ==
  \/ r = <<>> /\ Holds(q, t, e, FALSE) /\ f = Nothing
  \/ \E w, type, s, k :
       /\ IsReport(w, type, s) /\ k \in 0 .. Len(w) - 1 /\ OnLine(r, w, k)
       /\ \/ k <= 1 /\ Holds(q, t, e, k = 1) /\ f = RawEffect(type, s)
          \/ /\ k > 1 /\ e = RawEffect(type, s) /\ f = Nothing /\ ~t
             /\ q = Collecting(FALSE, type, SubSeq(s, 1, k - 2))

RawCarries(e, f) == stock = Idle /\ RawLine(raw, rest, star, e, f)

StockInv ==
  \E n \in Nat, d \in BOOLEAN : \E e :
    Seen(app, n, d) /\ Leads(e, n, d, contact, down) /\ StockCarries(e)

RawInv ==
  \E n, m \in Nat, d, c \in BOOLEAN : \E e, f :
    Seen(app, n, d) /\ Leads(e, n, d, m, c) /\ Leads(f, m, c, contact, down) /\ RawCarries(e, f)

\* The panel speaks one of the protocols.
Panel == contact \in 0 .. MaxContacts /\ down \in BOOLEAN /\ speaks \in {{"stock"}, {"raw"}}

TInv == Panel /\ IF "raw" \in speaks THEN RawInv ELSE StockInv

-----------------------------------------------------------------------------
(* What a touch, a release and the keys make of the app.                   *)

LEMMA SeenParts ==
  ASSUME NEW a, NEW n, NEW d, Seen(a, n, d)
  PROVE  /\ Record(a) /\ Entries(a.samples) /\ Points \in Nat
         /\ Screen(a.drawn, a.tap, n) /\ Samples(a.samples, a.index, n)
         /\ Stroke(a.touching, a.last, n, d)
         /\ Target(a.active, a.waiting_release, a.index, a.drawn, a.shown, n, d)
         /\ Tapped(a.tap, a.active, a.suppress, n, d)
BY TouchConstants DEF Seen

LEMMA ExceptFacts ==
  ASSUME NEW S, NEW s, s = [i \in S |-> s[i]], NEW k \in S, NEW r
  PROVE  /\ [s EXCEPT ![k] = r] = [i \in S |-> [s EXCEPT ![k] = r][i]]
         /\ [s EXCEPT ![k] = r][k] = r
         /\ \A i \in S : i # k => [s EXCEPT ![k] = r][i] = s[i]
<1>1. DOMAIN s = S
  BY Zenon
<1>2. [s EXCEPT ![k] = r] = [i \in S |-> IF i = k THEN r ELSE s[i]]
  BY <1>1
<1> QED BY <1>2

\* The app after a sample.
Sampled(a, p) ==
  [a EXCEPT !.index = @ + 1, !.waiting_release = TRUE, !.tap = p.x,
            !.samples[a.index + 1] = [at |-> p, shown |-> a.shown]]

IsSampled(b, a, p) ==
  /\ Record(b)
  /\ b.touching = a.touching /\ b.suppress = a.suppress /\ b.last = a.last
  /\ b.active = a.active /\ b.waiting_release = TRUE
  /\ b.index = a.index + 1 /\ b.tap = p.x /\ b.drawn = a.drawn /\ b.shown = a.shown
  /\ Entries(b.samples)
  /\ \A i \in 1 .. a.index : b.samples[i] = a.samples[i]
  /\ b.samples[a.index + 1].at = p /\ b.samples[a.index + 1].shown = a.shown

LEMMA SampledFields ==
  ASSUME NEW a, Record(a), Entries(a.samples), a.index \in Nat, Points \in Nat,
         a.index < Points, NEW p, NEW b, b = Sampled(a, p)
  PROVE  IsSampled(b, a, p)
<1>1. PICK r, t, k : r = [at |-> p, shown |-> a.shown] /\ k = a.index + 1
                     /\ t = [a.samples EXCEPT ![k] = r]
  OBVIOUS
<1>2. b = [a EXCEPT !.index = k, !.waiting_release = TRUE, !.tap = p.x, !.samples = t]
  <2>1. b = [a EXCEPT !.index = k, !.waiting_release = TRUE, !.tap = p.x,
                      !.samples = [[[[a EXCEPT !.index = k] EXCEPT !.waiting_release = TRUE]
                                       EXCEPT !.tap = p.x].samples EXCEPT ![k] = r]]
    BY <1>1, Zenon DEF Sampled
  <2>2. [[[a EXCEPT !.index = k] EXCEPT !.waiting_release = TRUE] EXCEPT !.tap = p.x].samples
          = a.samples
    BY DEF Record, Fields
  <2> QED BY <1>1, <2>1, <2>2, Zenon
<1>3. k \in 1 .. Points /\ \A i \in 1 .. a.index : i \in 1 .. Points /\ i # k
  BY <1>1
<1>4. /\ Entries(t) /\ t[k] = r
      /\ \A i \in 1 .. a.index : t[i] = a.samples[i]
  BY <1>1, <1>3, ExceptFacts, Zenon DEF Entries
<1>5. /\ Record(b)
      /\ b.touching = a.touching /\ b.suppress = a.suppress /\ b.last = a.last
      /\ b.active = a.active /\ b.waiting_release = TRUE
      /\ b.index = k /\ b.tap = p.x /\ b.drawn = a.drawn /\ b.shown = a.shown
      /\ b.samples = t
  BY <1>2 DEF Record, Fields
<1>6. r.at = p /\ r.shown = a.shown
  BY <1>1
<1>7. Entries(b.samples) /\ \A i \in 1 .. a.index : b.samples[i] = a.samples[i]
  BY <1>4, <1>5, Zenon
<1>8. b.samples[a.index + 1].at = p /\ b.samples[a.index + 1].shown = a.shown
  <2>1. b.samples[a.index + 1] = r
    BY <1>1, <1>4, <1>5, Zenon
  <2> QED BY <1>6, <2>1
<1>9. b.index = a.index + 1
  BY <1>1, <1>5
<1> QED BY <1>5, <1>7, <1>8, <1>9, Zenon DEF IsSampled

\* A sample of a contact later than those before it.
LEMMA SampledSamples ==
  ASSUME NEW s, NEW t, NEW k \in Nat, NEW n \in Nat, NEW m \in Nat, NEW r,
         Samples(s, k, n), \A i \in 1 .. k : t[i] = s[i], t[k + 1] = r,
         n <= m, Of(r.at, m), r.at.x = m, k > 0 => n < m,
         k > 0 /\ speaks = {"stock"} => m > r.shown
  PROVE  Samples(t, k + 1, m)
<1>1. /\ \A i \in 1 .. k : Of(s[i].at, n)
      /\ \A i, j \in 1 .. k : i < j => s[i].at.x < s[j].at.x
      /\ speaks = {"stock"} => \A i \in 2 .. k : s[i].at.x > s[i].shown
  BY Zenon DEF Samples
<1>2. ASSUME NEW i \in 1 .. k + 1
      PROVE  Of(t[i].at, m)
  <2>1. CASE i = k + 1
    BY <2>1
  <2>2. CASE i \in 1 .. k
    BY <1>1, <2>2 DEF Of
  <2> QED BY <2>1, <2>2
<1>3. ASSUME NEW i \in 1 .. k + 1, NEW j \in 1 .. k + 1, i < j
      PROVE  t[i].at.x < t[j].at.x
  <2>1. i \in 1 .. k /\ t[i] = s[i] /\ s[i].at.x \in 1 .. n
    BY <1>1, <1>3 DEF Of
  <2>2. CASE j = k + 1
    BY <2>1, <2>2
  <2>3. CASE j \in 1 .. k
    BY <1>1, <1>3, <2>1, <2>3
  <2> QED BY <2>2, <2>3
<1>4. ASSUME speaks = {"stock"}, NEW i \in 2 .. k + 1
      PROVE  t[i].at.x > t[i].shown
  <2>1. CASE i = k + 1
    BY <1>4, <2>1
  <2>2. CASE i \in 2 .. k
    BY <1>1, <1>4, <2>2
  <2> QED BY <2>1, <2>2
<1> QED BY <1>2, <1>3, <1>4 DEF Samples

\* The screen and the samples of n contacts are those of n or n + 1.
LEMMA SeenLater ==
  ASSUME NEW a, NEW n \in Nat, NEW d, Seen(a, n, d), NEW m, m \in {n, n + 1}
  PROVE  Screen(a.drawn, a.tap, m) /\ Samples(a.samples, a.index, m)
<1>1. \A p : Of(p, n) => Of(p, m)
  BY DEF Of
<1>2. Screen(a.drawn, a.tap, n) /\ Samples(a.samples, a.index, n)
  BY SeenParts
<1> QED BY <1>1, <1>2, Zenon DEF Screen, Samples

\* A report that leaves the app alone.
LEMMA SeenIgnored ==
  ASSUME NEW a, NEW n \in Nat, NEW d \in BOOLEAN, Seen(a, n, d),
         NEW m, m = (IF d THEN n ELSE n + 1),
         (a.active /\ a.waiting_release) \/ (~a.active /\ a.suppress)
  PROVE  Seen(a, m, TRUE)
<1>1. Screen(a.drawn, a.tap, m) /\ Samples(a.samples, a.index, m)
  BY SeenLater
<1>2. Stroke(a.touching, a.last, m, TRUE)
  BY SeenParts, Zenon DEF Stroke
<1>3. Target(a.active, a.waiting_release, a.index, a.drawn, a.shown, m, TRUE)
  BY SeenParts, Zenon DEF Target
<1>4. Tapped(a.tap, a.active, a.suppress, m, TRUE)
  BY SeenParts DEF Tapped
<1> QED BY <1>1, <1>2, <1>3, <1>4, SeenParts DEF Seen

\* The contact that follows n, or n itself if the finger is still down.
LEMMA SeenSample ==
  ASSUME NEW a, NEW n \in Nat, NEW d \in BOOLEAN, Seen(a, n, d), NEW p, p.y \in Rows,
         NEW m, m = (IF d THEN n ELSE n + 1), p.x = m, a.active, ~a.waiting_release
  PROVE  Seen(Capture(a, p), m, TRUE)
<1>1. PICK b : b = Sampled(a, p)
  OBVIOUS
<1>2. /\ a.index \in 0 .. Points /\ a.index < Points /\ a.drawn = <<>> /\ Points \in Nat
      /\ a.shown \in Nat
      /\ a.index > 0 => ~d /\ (speaks = {"stock"} => a.shown <= n)
  BY SeenParts DEF Target
<1>3. a.index \in Nat /\ m \in Nat /\ n <= m /\ m > 0 /\ (~d => n < m)
  BY <1>2, SeenParts DEF Tapped
<1>4. /\ Record(b)
      /\ b.touching = a.touching /\ b.suppress = a.suppress /\ b.last = a.last
      /\ b.active = a.active /\ b.waiting_release = TRUE
      /\ b.index = a.index + 1 /\ b.tap = p.x /\ b.drawn = a.drawn /\ b.shown = a.shown
      /\ Entries(b.samples)
      /\ \A i \in 1 .. a.index : b.samples[i] = a.samples[i]
      /\ b.samples[a.index + 1].at = p /\ b.samples[a.index + 1].shown = a.shown
  <2>1. Record(a) /\ Entries(a.samples)
    BY SeenParts
  <2>2. a.index \in Nat /\ Points \in Nat /\ a.index < Points
    BY <1>2, <1>3
  <2>3. IsSampled(b, a, p)
    BY <1>1, <2>1, <2>2, SampledFields, Zenon
  <2> QED BY <2>3, Zenon DEF IsSampled
<1>5. Of(p, m)
  BY <1>3 DEF Of
<1>6. Samples(b.samples, b.index, m)
  <2>1. PICK r : r = b.samples[a.index + 1]
    OBVIOUS
  <2>2. r.at = p /\ r.shown = a.shown
    BY <1>4, <2>1
  <2>3. a.index > 0 => n < m
    BY <1>2, <1>3
  <2>4. a.index > 0 /\ speaks = {"stock"} => m > r.shown
    BY <1>2, <1>3, <2>2
  <2>5. Samples(a.samples, a.index, n)
    BY SeenParts
  <2>6. Samples(b.samples, a.index + 1, m)
    <3>1. PICK s, t, k : s = a.samples /\ t = b.samples /\ k = a.index
      OBVIOUS
    <3>2. k \in Nat /\ Samples(s, k, n) /\ \A i \in 1 .. k : t[i] = s[i]
      BY <1>3, <1>4, <2>5, <3>1
    <3>3. t[k + 1] = r /\ Of(r.at, m) /\ r.at.x = m
      BY <1>5, <2>1, <2>2, <3>1
    <3>4. n <= m /\ m \in Nat /\ (k > 0 => n < m) /\ (k > 0 /\ speaks = {"stock"} => m > r.shown)
      BY <1>3, <2>3, <2>4, <3>1
    <3>5. Samples(t, k + 1, m)
      BY <3>2, <3>3, <3>4, SampledSamples
    <3> QED BY <3>1, <3>5
  <2> QED BY <1>4, <2>6
<1>7. Stroke(a.touching, a.last, m, TRUE) /\ Stroke(FALSE, a.last, m, TRUE)
  BY SeenParts, Zenon DEF Stroke
<1>8. Screen(<<>>, m, m)
  BY DEF Screen
<1>9. CASE b.index < Points
  <2>1. Capture(a, p) = b
    BY <1>1, <1>2, <1>4, <1>9 DEF Capture, Sampled
  <2>2. Target(TRUE, TRUE, b.index, a.drawn, a.shown, m, TRUE)
    BY <1>2, <1>3, <1>4, <1>9 DEF Target
  <2>3. Tapped(m, TRUE, a.suppress, m, TRUE)
    BY <1>3, SeenParts DEF Tapped
  <2> QED BY <1>2, <1>4, <1>6, <1>7, <1>8, <2>1, <2>2, <2>3 DEF Seen
<1>10. CASE b.index >= Points
  <2>1. PICK c : c = Finish(b)
    OBVIOUS
  <2>2. Capture(a, p) = c
    BY <1>1, <1>2, <1>4, <1>10, <2>1 DEF Capture, Sampled
  <2>3. /\ Record(c) /\ c.samples = b.samples
        /\ c.touching = FALSE /\ c.suppress = TRUE /\ c.last = a.last
        /\ c.active = FALSE /\ c.waiting_release = FALSE
        /\ c.index = b.index /\ c.tap = m /\ c.drawn = <<>> /\ c.shown = a.shown
    BY <1>4, <2>1 DEF Finish, Record, Fields
  <2>4. Target(FALSE, FALSE, b.index, <<>>, a.shown, m, TRUE)
    BY <1>2, <1>3, <1>4 DEF Target
  <2>5. Tapped(m, FALSE, TRUE, m, TRUE)
    BY <1>3 DEF Tapped
  <2>6. Entries(c.samples) /\ Samples(c.samples, c.index, m)
    BY <1>4, <1>6, <2>3, Zenon
  <2>7. Seen(c, m, TRUE)
    BY <1>7, <1>8, <2>3, <2>4, <2>5, <2>6 DEF Seen
  <2> QED BY <2>2, <2>7
<1>11. b.index < Points \/ b.index >= Points
  BY <1>2, <1>3, <1>4
<1> QED BY <1>9, <1>10, <1>11

LEMMA SeenDrawn ==
  ASSUME NEW a, NEW n \in Nat, NEW d \in BOOLEAN, Seen(a, n, d), NEW p, p.y \in Rows,
         NEW m, m = (IF d THEN n ELSE n + 1), p.x = m, ~a.active, ~a.suppress
  PROVE  Seen(Touch(a, p), m, TRUE)
<1>1. PICK e : e = IF a.touching THEN <<a.last, p>> ELSE <<p>>
  OBVIOUS
<1>2. PICK b : b = [a EXCEPT !.drawn = e, !.touching = TRUE, !.last = p]
  OBVIOUS
<1>3. Touch(a, p) = b
  BY <1>1, <1>2, Zenon DEF Touch
<1>4. /\ Record(b) /\ b.samples = a.samples
      /\ b.touching = TRUE /\ b.suppress = a.suppress /\ b.last = p
      /\ b.active = a.active /\ b.waiting_release = a.waiting_release
      /\ b.index = a.index /\ b.tap = a.tap /\ b.drawn = e /\ b.shown = a.shown
  BY <1>2, SeenParts DEF Record, Fields
<1>5. /\ m \in Nat /\ m > 0 /\ a.tap \in 0 .. m /\ a.tap # m
      /\ a.suppress \in BOOLEAN
  BY SeenParts DEF Tapped
<1>6. Of(p, m) /\ (a.tap = 0 \/ p.x # a.tap)
  BY <1>5 DEF Of
<1>7. Screen(e, a.tap, m)
  <2>1. CASE a.touching
    <3>1. Of(a.last, m) /\ a.last.x = p.x
      BY <2>1, SeenParts DEF Stroke
    <3>2. PICK q : q = a.last
      OBVIOUS
    <3> QED BY <1>1, <1>6, <2>1, <3>1, <3>2, Zenon DEF Screen
  <2>2. CASE ~a.touching
    BY <1>1, <1>6, <2>2, Zenon DEF Screen
  <2> QED BY <2>1, <2>2
<1>8. Samples(a.samples, a.index, m)
  BY SeenLater
<1>9. Stroke(TRUE, p, m, TRUE)
  BY <1>6 DEF Stroke
<1>10. Target(a.active, a.waiting_release, a.index, e, a.shown, m, TRUE)
  BY SeenParts, Zenon DEF Target
<1>11. Tapped(a.tap, a.active, a.suppress, m, TRUE)
  BY <1>5, Zenon DEF Tapped
<1> QED BY <1>3, <1>4, <1>7, <1>8, <1>9, <1>10, <1>11, SeenParts DEF Seen

LEMMA SeenMark ==
  ASSUME NEW a, NEW n \in Nat, NEW d \in BOOLEAN, Seen(a, n, d), NEW p, p.y \in Rows,
         NEW m, m = (IF d THEN n ELSE n + 1), p.x = m
  PROVE  Seen(Touch(a, p), m, TRUE)
<1>1. CASE a.active /\ ~a.waiting_release
  <2>1. Touch(a, p) = Capture(a, p)
    BY <1>1, Zenon DEF Touch
  <2> QED BY <1>1, <2>1, SeenSample
<1>2. CASE (a.active /\ a.waiting_release) \/ (~a.active /\ a.suppress)
  <2>1. Touch(a, p) = a
    BY <1>2, Zenon DEF Touch, Capture
  <2> QED BY <1>2, <2>1, SeenIgnored
<1>3. CASE ~a.active /\ ~a.suppress
  BY <1>3, SeenDrawn
<1> QED BY <1>1, <1>2, <1>3

\* The next target is shown when the contact that is seen is the last one.
LEMMA SeenLift ==
  ASSUME NEW a, NEW n \in Nat, Seen(a, n, TRUE), contact \in Nat, speaks = {"stock"} => contact = n
  PROVE  Seen(Release(a), n, FALSE)
<1>1. PICK r : r = [a EXCEPT !.suppress = FALSE, !.touching = FALSE]
  OBVIOUS
<1>2. /\ Record(r) /\ r.samples = a.samples
      /\ r.touching = FALSE /\ r.suppress = FALSE /\ r.last = a.last
      /\ r.active = a.active /\ r.waiting_release = a.waiting_release
      /\ r.index = a.index /\ r.tap = a.tap /\ r.drawn = a.drawn /\ r.shown = a.shown
  <2>1. Record(a)
    BY SeenParts
  <2> QED BY <1>1, <2>1 DEF Record, Fields
<1>3. /\ a.active \in BOOLEAN /\ a.waiting_release \in BOOLEAN /\ a.index \in 0 .. Points
      /\ a.shown \in Nat /\ (a.active => a.index < Points /\ a.drawn = <<>>)
      /\ a.active /\ ~a.waiting_release => ~(a.index > 0)
  BY SeenParts DEF Target
<1>4. Stroke(FALSE, a.last, n, FALSE)
  BY DEF Stroke
<1>5. \A active : Tapped(a.tap, active, FALSE, n, FALSE)
  <2>1. a.tap \in 0 .. n
    BY SeenParts DEF Tapped
  <2> QED BY <2>1, Zenon DEF Tapped
<1>6. CASE ~(a.active /\ a.waiting_release)
  <2>1. Release(a) = r
    BY <1>1, <1>6, Zenon DEF Release
  <2>2. Target(a.active, a.waiting_release, a.index, a.drawn, a.shown, n, FALSE)
    BY <1>3, <1>6, Zenon DEF Target
  <2> QED BY <1>2, <1>4, <1>5, <2>1, <2>2, SeenParts DEF Seen
<1>7. CASE a.active /\ a.waiting_release
  <2>1. PICK b : b = ShowTarget([r EXCEPT !.waiting_release = FALSE])
    OBVIOUS
  <2>2. Release(a) = b
    BY <1>1, <1>7, <2>1, Zenon DEF Release
  <2>3. /\ Record(b) /\ b.samples = a.samples
        /\ b.touching = FALSE /\ b.suppress = FALSE /\ b.last = a.last
        /\ b.active = a.active /\ b.waiting_release = FALSE
        /\ b.index = a.index /\ b.tap = a.tap /\ b.drawn = <<>> /\ b.shown = contact
    BY <1>2, <2>1 DEF ShowTarget, Record, Fields
  <2>4. Target(a.active, FALSE, a.index, <<>>, contact, n, FALSE)
    BY <1>3 DEF Target
  <2>5. Screen(<<>>, a.tap, n)
    BY DEF Screen
  <2> QED BY <1>4, <1>5, <2>2, <2>3, <2>4, <2>5, SeenParts DEF Seen
<1> QED BY <1>6, <1>7

\* Any step of a report.
LEMMA SeenLeads ==
  ASSUME NEW a, NEW n \in Nat, NEW d \in BOOLEAN, Seen(a, n, d), NEW e, NEW m, NEW c \in BOOLEAN,
         Leads(e, n, d, m, c), contact \in Nat, speaks = {"stock"} => contact = m
  PROVE  m \in Nat /\ Seen(Apply(a, e), m, c)
<1>1. CASE e.kind = "mark"
  <2>1. c = TRUE /\ e.at.x = m /\ e.at.y \in Rows /\ m = (IF d THEN n ELSE n + 1)
    BY <1>1 DEF Leads
  <2>2. Seen(Touch(a, e.at), m, TRUE)
    BY <2>1, SeenMark, Zenon
  <2>3. m \in Nat
    BY <2>1
  <2> QED BY <1>1, <2>1, <2>2, <2>3, Zenon DEF Apply
<1>2. CASE e.kind = "lift"
  <2>1. d = TRUE /\ c = FALSE /\ m = n
    BY <1>2 DEF Leads
  <2>2. Seen(Release(a), n, FALSE)
    BY <2>1, SeenLift
  <2>3. Apply(a, e) = Release(a)
    BY <1>2 DEF Apply
  <2> QED BY <2>1, <2>2, <2>3
<1>3. CASE e.kind = "none"
  <2>1. c = d /\ m = n
    BY <1>3 DEF Leads
  <2>2. Apply(a, e) = a
    BY <1>3 DEF Apply
  <2> QED BY <2>1, <2>2
<1> QED BY <1>1, <1>2, <1>3 DEF Leads

\* What is seen depends on the app alone.
LEMMA SeenStays ==
  ASSUME NEW b, b = app', NEW n, NEW d, Seen(b, n, d), speaks' = speaks
  PROVE  Seen(app, n, d)'
<1>1. /\ Record(b) /\ Entries(b.samples) /\ Screen(b.drawn, b.tap, n)
      /\ Stroke(b.touching, b.last, n, d) /\ Tapped(b.tap, b.active, b.suppress, n, d)
  BY Zenon DEF Seen
<1>2. Samples(app.samples, app.index, n)'
  BY DEF Seen, Samples
<1>3. Target(app.active, app.waiting_release, app.index, app.drawn, app.shown, n, d)'
  BY DEF Seen, Target
<1>4. /\ Record(app)' /\ Entries(app.samples)' /\ Screen(app.drawn, app.tap, n)'
      /\ Stroke(app.touching, app.last, n, d)' /\ Tapped(app.tap, app.active, app.suppress, n, d)'
  BY <1>1
<1> QED BY <1>2, <1>3, <1>4 DEF Seen

LEMMA SeenClear ==
  ASSUME NEW n \in Nat, NEW d \in BOOLEAN, Seen(app, n, d), Clear
  PROVE  Seen(app, n, d)'
<1>1. PICK a, b : a = app /\ b = app'
  OBVIOUS
<1>2. Seen(a, n, d)
  BY <1>1
<1>3. /\ Record(b) /\ b.samples = a.samples
      /\ b.touching = FALSE /\ b.suppress = FALSE /\ b.last = a.last
      /\ b.active = FALSE /\ b.waiting_release = a.waiting_release
      /\ b.index = a.index /\ b.tap = 0 /\ b.drawn = <<>> /\ b.shown = a.shown
  <2>1. Record(a)
    BY <1>2, SeenParts
  <2>2. b = [a EXCEPT !.drawn = <<>>, !.touching = FALSE, !.active = FALSE,
                      !.suppress = FALSE, !.tap = 0]
    BY <1>1, Zenon DEF Clear
  <2> QED BY <2>1, <2>2 DEF Record, Fields
<1>4. Screen(<<>>, 0, n) /\ Stroke(FALSE, a.last, n, d)
  BY DEF Screen, Stroke
<1>5. Target(FALSE, a.waiting_release, a.index, <<>>, a.shown, n, d)
  BY <1>2, SeenParts, Zenon DEF Target
<1>6. Tapped(0, FALSE, FALSE, n, d)
  BY <1>2, SeenParts DEF Tapped
<1>7. Seen(b, n, d)
  BY <1>2, <1>3, <1>4, <1>5, <1>6, SeenParts DEF Seen
<1> QED BY <1>1, <1>7, SeenStays DEF Clear

LEMMA SeenCalibrate ==
  ASSUME NEW n \in Nat, NEW d \in BOOLEAN, Seen(app, n, d), contact \in Nat, Calibrate
  PROVE  Seen(app, n, d)'
<1>1. PICK a, b : a = app /\ b = app'
  OBVIOUS
<1>2. Seen(a, n, d)
  BY <1>1
<1>3. /\ Record(b) /\ b.samples = a.samples
      /\ b.touching = FALSE /\ b.suppress = FALSE /\ b.last = a.last
      /\ b.active = TRUE /\ b.waiting_release = FALSE
      /\ b.index = 0 /\ b.tap = 0 /\ b.drawn = <<>> /\ b.shown = contact
  <2>1. Record(a)
    BY <1>2, SeenParts
  <2>2. b = ShowTarget([a EXCEPT !.active = TRUE, !.waiting_release = FALSE, !.index = 0,
                                 !.touching = FALSE, !.suppress = FALSE, !.tap = 0])
    BY <1>1, Zenon DEF Calibrate
  <2> QED BY <2>1, <2>2 DEF ShowTarget, Record, Fields
<1>4. Screen(<<>>, 0, n) /\ Stroke(FALSE, a.last, n, d) /\ Samples(a.samples, 0, n)
  BY DEF Screen, Stroke, Samples
<1>5. Target(TRUE, FALSE, 0, <<>>, contact, n, d)
  BY TouchConstants DEF Target
<1>6. Tapped(0, TRUE, FALSE, n, d)
  BY <1>2, SeenParts DEF Tapped
<1>7. Seen(b, n, d)
  BY <1>2, <1>3, <1>4, <1>5, <1>6, SeenParts DEF Seen
<1> QED BY <1>1, <1>7, SeenStays DEF Calibrate

-----------------------------------------------------------------------------
(* The line, one byte at a time.                                           *)

LEMMA LineStep ==
  ASSUME NEW w \in Seq(Byte), NEW r, NEW k \in 0 .. Len(w) - 1, OnLine(r, w, k)
  PROVE  /\ r # <<>> /\ Head(r) = w[k + 1] /\ w[k + 1] \in Byte
         /\ OnLine(Tail(r), w, k + 1)
         /\ k + 1 = Len(w) => Tail(r) = <<>>
<1>1. /\ r \in Seq(Byte) /\ Len(r) \in Nat /\ Len(r) = Len(w) - k /\ Len(r) >= 1
      /\ \A i \in 1 .. Len(r) : r[i] = w[k + i]
  BY DEF OnLine
<1>2. r # <<>> /\ Head(r) = r[1]
  BY <1>1
<1>3. r[1] = w[k + 1] /\ w[k + 1] \in Byte
  BY <1>1
<1>4. /\ Tail(r) \in Seq(Byte) /\ Len(Tail(r)) = Len(r) - 1
      /\ \A i \in 1 .. Len(r) - 1 : Tail(r)[i] = r[i + 1]
  BY <1>1, <1>2, HeadTailProperties
<1>5. \A i \in 1 .. Len(Tail(r)) : Tail(r)[i] = w[(k + 1) + i]
  BY <1>1, <1>4
<1>6. OnLine(Tail(r), w, k + 1)
  BY <1>1, <1>4, <1>5 DEF OnLine
<1>7. k + 1 = Len(w) => Tail(r) = <<>>
  BY <1>1, <1>4
<1> QED BY <1>2, <1>3, <1>6, <1>7

LEMMA PrefixGrows ==
  ASSUME NEW s \in Seq(Byte), NEW k \in 0 .. Len(s) - 1
  PROVE  /\ Len(SubSeq(s, 1, k)) = k
         /\ SubSeq(s, 1, k) \o <<s[k + 1]>> = SubSeq(s, 1, k + 1)
<1>1. /\ SubSeq(s, 1, k) \in Seq(Byte)
      /\ Len(SubSeq(s, 1, k)) = k
      /\ \A i \in 1 .. k : SubSeq(s, 1, k)[i] = s[i]
  OBVIOUS
<1>2. /\ SubSeq(s, 1, k + 1) \in Seq(Byte)
      /\ Len(SubSeq(s, 1, k + 1)) = k + 1
      /\ \A i \in 1 .. k + 1 : SubSeq(s, 1, k + 1)[i] = s[i]
  OBVIOUS
<1>3. s[k + 1] \in Byte
  OBVIOUS
<1> DEFINE t == SubSeq(s, 1, k) \o <<s[k + 1]>>
<1>4. t \in Seq(Byte) /\ Len(t) = k + 1
  BY <1>1, <1>3
<1>5. \A i \in 1 .. k + 1 : t[i] = s[i]
  BY <1>1, <1>3
<1>6. t = SubSeq(s, 1, k + 1)
  BY <1>2, <1>4, <1>5, SeqEqual
<1> QED BY <1>1, <1>6

-----------------------------------------------------------------------------
(* Stock frames.                                                           *)

LEMMA FrameFacts ==
  ASSUME NEW w, NEW cmd, NEW s, NEW at, NEW check, IsFrame(w, cmd, s, at, check)
  PROVE  /\ cmd \in {PointCmd, StateCmd} /\ s \in Seq(Byte) /\ Len(s) \in 0 .. 5
         /\ check \in 128 .. 255 /\ w \in Seq(Byte) /\ Len(w) \in Nat
         /\ at[1] = 3 /\ at[Len(s) + 1] = Len(w) - 1
         /\ \A i \in 1 .. Len(s) + 1 : at[i] \in 3 .. Len(w) - 1
         /\ w[1] = Star /\ w[2] = cmd
         /\ \A i \in 1 .. Len(s) : /\ w[at[i]] = s[i]
                                   /\ at[i + 1] = at[i] + (IF s[i] = Star THEN 2 ELSE 1)
                                   /\ s[i] = Star => w[at[i] + 1] = Esc
         /\ w[Len(w) - 1] = Star /\ w[Len(w)] = check
<1>1. PICK v : Begins(v, cmd, s, at) /\ w = v \o <<Star, check>>
  BY Zenon DEF IsFrame
<1>2. cmd \in {PointCmd, StateCmd} /\ Len(s) <= 5 /\ check \in 128 .. 255
  BY Zenon DEF IsFrame
<1>3. /\ s \in Seq(Byte) /\ v \in Seq(Byte) /\ Len(v) \in Nat /\ Len(s) \in Nat
      /\ at[1] = 3 /\ at[Len(s) + 1] = Len(v) + 1
      /\ \A i \in 1 .. Len(s) + 1 : at[i] \in 3 .. Len(v) + 1
      /\ v[1] = Star /\ v[2] = cmd
  BY <1>1 DEF Begins
<1>4. \A i \in 1 .. Len(s) : /\ v[at[i]] = s[i]
                             /\ at[i + 1] = at[i] + (IF s[i] = Star THEN 2 ELSE 1)
                             /\ s[i] = Star => v[at[i] + 1] = Esc
  BY <1>1, Zenon DEF Begins
<1>5. /\ w \in Seq(Byte) /\ Len(w) = Len(v) + 2
      /\ \A i \in 1 .. Len(v) : w[i] = v[i]
      /\ w[Len(v) + 1] = Star /\ w[Len(v) + 2] = check
  <2>1. Star \in Byte /\ check \in Byte
    BY <1>2 DEF Star, Byte
  <2> QED BY <1>1, <1>3, <2>1
<1>6. Len(v) >= 2
  <2>1. at[1] \in 3 .. Len(v) + 1
    BY <1>3
  <2> QED BY <1>3, <2>1
<1>7. ASSUME NEW i \in 1 .. Len(s)
      PROVE  at[i] \in 1 .. Len(v) /\ (s[i] = Star => at[i] + 1 \in 1 .. Len(v))
  <2>1. i + 1 \in 1 .. Len(s) + 1 /\ i \in 1 .. Len(s) + 1
    BY <1>3
  <2>2. PICK a, b, n : a = at[i] /\ b = at[i + 1] /\ n = Len(v)
    OBVIOUS
  <2>3. b \in 3 .. n + 1 /\ a \in 3 .. n + 1 /\ n \in Nat
    BY <1>3, <2>1, <2>2
  <2>4. b = a + (IF s[i] = Star THEN 2 ELSE 1)
    BY <1>4, <2>2
  <2>5. b = a + 1 \/ b = a + 2
    BY <2>4
  <2>6. a \in 1 .. n
    BY <2>3, <2>5
  <2>7. s[i] = Star => b = a + 2
    BY <2>4
  <2>8. b = a + 2 => a + 1 \in 1 .. n
    BY <2>3
  <2> QED BY <2>2, <2>6, <2>7, <2>8
<1>8. ASSUME NEW i \in 1 .. Len(s)
      PROVE  w[at[i]] = s[i] /\ (s[i] = Star => w[at[i] + 1] = Esc)
  BY <1>4, <1>5, <1>7
<1>9. w[1] = Star /\ w[2] = cmd
  <2>1. 1 \in 1 .. Len(v) /\ 2 \in 1 .. Len(v)
    BY <1>3, <1>6
  <2> QED BY <1>3, <1>5, <2>1
<1>10. Len(w) - 1 = Len(v) + 1 /\ Len(w) = Len(v) + 2
  BY <1>3, <1>5
<1>11. Len(s) \in 0 .. 5
  <2>1. PICK n : n = Len(s)
    OBVIOUS
  <2>2. n \in Nat /\ n <= 5
    BY <1>2, <1>3, <2>1
  <2>3. n \in 0 .. 5
    BY <2>2
  <2> QED BY <2>1, <2>3
<1> QED BY <1>2, <1>3, <1>4, <1>5, <1>8, <1>9, <1>10, <1>11

\* The parser between two payload bytes.
LEMMA TakesByte ==
  ASSUME NEW w, NEW cmd, NEW s, NEW at, NEW check, IsFrame(w, cmd, s, at, check),
         NEW p, NEW k \in 0 .. Len(w) - 1, NEW i \in 0 .. Len(s), Takes(p, cmd, s, at, k, i)
  PROVE  /\ Parsed(Feed(p, w[k + 1]), cmd, s, at, k + 1) /\ ~Emits(p, w[k + 1])
         /\ p.in_frame /\ k + 1 < Len(w)
<1>1. /\ s \in Seq(Byte) /\ Len(s) \in 0 .. 5 /\ Len(w) \in Nat
      /\ \A j \in 1 .. Len(s) + 1 : at[j] \in 3 .. Len(w) - 1
      /\ at[Len(s) + 1] = Len(w) - 1 /\ w[Len(w) - 1] = Star
  BY FrameFacts
<1>2. \A j \in 1 .. Len(s) : w[at[j]] = s[j] /\ at[j + 1] = at[j] + (IF s[j] = Star THEN 2 ELSE 1)
  BY FrameFacts
<1>3. PICK b : b = w[k + 1]
  OBVIOUS
<1>4. p.in_frame /\ ~p.after_star /\ p.have_cmd /\ p.cmd = cmd /\ p.payload = SubSeq(s, 1, i)
  BY DEF Takes, InFrame
<1>5. k + 1 = at[i + 1] /\ k + 1 < Len(w)
  <2>1. i + 1 \in 1 .. Len(s) + 1
    BY <1>1
  <2>2. PICK a, n : a = at[i + 1] /\ n = Len(w)
    OBVIOUS
  <2>3. a \in 3 .. n - 1 /\ n \in Nat
    BY <1>1, <2>1, <2>2
  <2>4. k = a - 1
    BY <2>2, Zenon DEF Takes
  <2>5. k + 1 = a /\ k + 1 < n
    BY <2>3, <2>4
  <2> QED BY <2>2, <2>5
<1>6. ~Emits(p, b)
  BY <1>4 DEF Emits
<1>7. CASE i = Len(s)
  <2>1. b = Star /\ k + 1 = at[Len(s) + 1]
    BY <1>1, <1>3, <1>5, <1>7
  <2>2. Feed(p, b) = InFrame(TRUE, TRUE, cmd, s)
    <3>1. SubSeq(s, 1, Len(s)) = s
      BY <1>1
    <3> QED BY <1>4, <1>7, <2>1, <3>1 DEF Feed, FeedInside
  <2>3. Closes(Feed(p, b), cmd, s, at, k + 1)
    BY <2>1, <2>2 DEF Closes
  <2> QED BY <1>3, <1>4, <1>5, <1>6, <2>3 DEF Parsed
<1>8. CASE i < Len(s)
  <2>1. i + 1 \in 1 .. Len(s) /\ i \in 0 .. Len(s) - 1 /\ i \in Nat /\ i + 1 <= 5
    <3>1. PICK n : n = Len(s)
      OBVIOUS
    <3>2. n \in 0 .. 5 /\ i \in 0 .. n /\ i < n
      BY <1>1, <1>8, <3>1
    <3>3. i + 1 \in 1 .. n /\ i \in 0 .. n - 1 /\ i \in Nat /\ i + 1 <= 5
      BY <3>2
    <3> QED BY <3>1, <3>3
  <2>2. b = s[i + 1]
    BY <1>2, <1>3, <1>5, <2>1
  <2>3. CASE b # Star
    <3>1. Len(p.payload) + 1 <= MaxPayload
      <4>1. Len(p.payload) = i
        BY <1>1, <1>4, <2>1, PrefixGrows
      <4> QED BY <2>1, <4>1, TouchConstants, MaxPayloadAssumption
    <3>2. Feed(p, b) = InFrame(FALSE, TRUE, cmd, SubSeq(s, 1, i) \o <<b>>)
      BY <1>4, <2>3, <3>1 DEF Feed, FeedInside, Push, Pushed
    <3>3. Feed(p, b) = InFrame(FALSE, TRUE, cmd, SubSeq(s, 1, i + 1))
      BY <1>1, <2>1, <2>2, <3>2, PrefixGrows
    <3>4. k + 1 = at[(i + 1) + 1] - 1
      <4>1. at[(i + 1) + 1] = at[i + 1] + 1
        BY <1>2, <2>1, <2>2, <2>3
      <4>2. PICK a, c : a = at[i + 1] /\ c = at[(i + 1) + 1]
        OBVIOUS
      <4>3. c = a + 1 /\ k + 1 = a /\ k \in Int
        BY <1>5, <4>1, <4>2
      <4>4. k + 1 = c - 1
        BY <4>3
      <4> QED BY <4>2, <4>4
    <3>5. i + 1 \in 0 .. Len(s)
      BY <2>1
    <3>6. Takes(Feed(p, b), cmd, s, at, k + 1, i + 1)
      BY <3>3, <3>4 DEF Takes
    <3> QED BY <1>3, <1>4, <1>5, <1>6, <3>5, <3>6 DEF Parsed
  <2>4. CASE b = Star
    <3>1. PICK j : j = i + 1
      OBVIOUS
    <3>2. j \in 1 .. Len(s) /\ j - 1 = i
      BY <2>1, <3>1
    <3>3. Feed(p, b) = InFrame(TRUE, TRUE, cmd, SubSeq(s, 1, i))
      BY <1>4, <2>4 DEF Feed, FeedInside
    <3>4. Unescapes(Feed(p, b), cmd, s, at, k + 1, j)
      BY <1>5, <2>2, <2>4, <3>1, <3>2, <3>3 DEF Unescapes
    <3> QED BY <1>3, <1>4, <1>5, <1>6, <3>2, <3>4 DEF Parsed
  <2> QED BY <2>3, <2>4
<1> QED BY <1>1, <1>7, <1>8

LEMMA UnescapesByte ==
  ASSUME NEW w, NEW cmd, NEW s, NEW at, NEW check, IsFrame(w, cmd, s, at, check),
         NEW p, NEW k \in 0 .. Len(w) - 1, NEW i \in 1 .. Len(s), Unescapes(p, cmd, s, at, k, i)
  PROVE  /\ Parsed(Feed(p, w[k + 1]), cmd, s, at, k + 1) /\ ~Emits(p, w[k + 1])
         /\ p.in_frame /\ k + 1 < Len(w)
<1>1. /\ s \in Seq(Byte) /\ Len(s) \in 0 .. 5 /\ Len(w) \in Nat
      /\ \A j \in 1 .. Len(s) + 1 : at[j] \in 3 .. Len(w) - 1
  BY FrameFacts
<1>2. /\ s[i] = Star /\ k = at[i] /\ p = InFrame(TRUE, TRUE, cmd, SubSeq(s, 1, i - 1))
  BY Zenon DEF Unescapes
<1>3. w[at[i] + 1] = Esc /\ at[i + 1] = at[i] + 2
  BY <1>2, FrameFacts
<1>4. PICK j : j = i - 1
  OBVIOUS
<1>5. j \in 0 .. Len(s) - 1 /\ j + 1 = i /\ j \in Nat /\ j + 1 <= 5 /\ i \in 0 .. Len(s)
  <2>1. PICK n : n = Len(s)
    OBVIOUS
  <2>2. n \in 0 .. 5 /\ i \in 1 .. n
    BY <1>1, <2>1
  <2>3. j \in 0 .. n - 1 /\ j + 1 = i /\ j \in Nat /\ j + 1 <= 5 /\ i \in 0 .. n
    BY <1>4, <2>2
  <2> QED BY <2>1, <2>3
<1>6. /\ Len(SubSeq(s, 1, j)) = j /\ SubSeq(s, 1, j) \o <<Star>> = SubSeq(s, 1, i)
  <2>1. SubSeq(s, 1, j) \o <<s[j + 1]>> = SubSeq(s, 1, j + 1)
    BY <1>1, <1>5, PrefixGrows
  <2>2. Len(SubSeq(s, 1, j)) = j
    BY <1>1, <1>5, PrefixGrows
  <2> QED BY <1>2, <1>5, <2>1, <2>2
<1>7. Feed(p, Esc) = InFrame(FALSE, TRUE, cmd, SubSeq(s, 1, i))
  <2>1. Feed(p, Esc) = Push(p, <<Star>>)
    BY <1>2 DEF Feed, FeedAfterStar, InFrame, Star, Esc
  <2>2. Len(SubSeq(s, 1, j)) + Len(<<Star>>) <= MaxPayload
    BY <1>5, <1>6, TouchConstants, MaxPayloadAssumption
  <2>3. Pushed(SubSeq(s, 1, j), <<Star>>) = SubSeq(s, 1, i)
    BY <1>6, <2>2 DEF Pushed
  <2> QED BY <1>2, <1>4, <2>1, <2>3 DEF Push, InFrame
<1>8. ~Emits(p, Esc)
  BY DEF Emits, IsCheck, Esc
<1>9. k + 1 = at[i + 1] - 1 /\ k + 1 < Len(w)
  <2>1. i + 1 \in 1 .. Len(s) + 1
    BY <1>1
  <2>2. PICK a, n : a = at[i + 1] /\ n = Len(w)
    OBVIOUS
  <2>3. a \in 3 .. n - 1 /\ n \in Nat
    BY <1>1, <2>1, <2>2
  <2>4. a = k + 2 /\ k \in Int
    BY <1>2, <1>3, <2>2
  <2>5. k + 1 = a - 1 /\ k + 1 < n
    BY <2>3, <2>4
  <2> QED BY <2>2, <2>5
<1>10. Takes(Feed(p, Esc), cmd, s, at, k + 1, i)
  BY <1>7, <1>9 DEF Takes
<1>11. Parsed(Feed(p, Esc), cmd, s, at, k + 1)
  BY <1>5, <1>10, Zenon DEF Parsed
<1>12. p.in_frame /\ w[k + 1] = Esc
  BY <1>2, <1>3 DEF InFrame
<1> QED BY <1>8, <1>9, <1>11, <1>12

LEMMA ClosesByte ==
  ASSUME NEW w, NEW cmd, NEW s, NEW at, NEW check, IsFrame(w, cmd, s, at, check),
         NEW p, NEW k \in 0 .. Len(w) - 1, Closes(p, cmd, s, at, k)
  PROVE  /\ k + 1 = Len(w) /\ w[k + 1] = check /\ p.in_frame
         /\ Feed(p, check) = Idle /\ Emits(p, check) /\ p.cmd = cmd /\ p.payload = s
<1>1. /\ check \in 128 .. 255 /\ at[Len(s) + 1] = Len(w) - 1 /\ Len(w) \in Nat
      /\ w[Len(w)] = check
  BY FrameFacts
<1>2. k = at[Len(s) + 1] /\ p = InFrame(TRUE, TRUE, cmd, s)
  BY DEF Closes
<1>3. Feed(p, check) = Idle /\ Emits(p, check)
  <2>1. check \in 128 .. 255
    BY <1>1
  <2>2. check # Star /\ check # Esc /\ IsCheck(check)
    BY <2>1 DEF IsCheck, Star, Esc
  <2>3. p.in_frame /\ p.after_star /\ p.have_cmd
    BY <1>2 DEF InFrame
  <2> QED BY <2>2, <2>3 DEF Feed, FeedAfterStar, Emits
<1>4. k + 1 = Len(w)
  BY <1>1, <1>2
<1> QED BY <1>1, <1>2, <1>3, <1>4 DEF InFrame

\* What a whole frame does.
LEMMA FrameEffect ==
  ASSUME NEW a, NEW p, NEW check
  PROVE  HandleFrame(a, p, check) = Apply(a, StockEffect(p.cmd, p.payload, check))
BY DEF HandleFrame, StockEffect, Apply, Effect, Nothing, Lifting

\* A byte of a stock frame: nothing happens, or at the end its effect.
LEMMA StockByte ==
  ASSUME NEW e, StockCarries(e), Read
  PROVE  \/ app' = app /\ StockCarries(e)'
         \/ app' = Apply(app, e) /\ StockCarries(Nothing)'
<1>1. raw = Empty /\ rest # <<>> /\ rest' = Tail(rest)
  BY Zenon DEF StockCarries, Read
<1>2. PICK w, cmd, s, at, check, k :
        /\ IsFrame(w, cmd, s, at, check) /\ e = StockEffect(cmd, s, check)
        /\ k \in 0 .. Len(w) - 1 /\ OnLine(rest, w, k) /\ Parsed(stock, cmd, s, at, k) /\ star = (k = 1)
  BY <1>1, Zenon DEF StockCarries, StockLine
<1>3. PICK b : b = w[k + 1]
  OBVIOUS
<1>4. w \in Seq(Byte) /\ Len(w) \in Nat /\ s \in Seq(Byte) /\ Len(s) \in 0 .. 5
  BY <1>2, FrameFacts
<1> DEFINE n == Len(w)
<1>12. k \in 0 .. n - 1 /\ star = (k = 1)
  BY <1>2, Zenon
<1>13. n \in Nat /\ n >= 4 /\ at[1] = 3 /\ \A i \in 1 .. Len(s) + 1 : at[i] \in 3 .. n - 1
  <2>1. n \in Nat /\ at[1] = 3 /\ \A i \in 1 .. Len(s) + 1 : at[i] \in 3 .. n - 1
    BY <1>2, FrameFacts
  <2>2. 1 \in 1 .. Len(s) + 1
    BY <1>4
  <2>3. 3 \in 3 .. n - 1
    BY <2>1, <2>2
  <2> HIDE DEF n
  <2>4. n >= 4
    BY <2>1, <2>3
  <2> QED BY <2>1, <2>4
<1>14. k \in Nat /\ k < n
  <2> HIDE DEF n
  <2> QED BY <1>12, <1>13
<1>5. /\ Head(rest) = b /\ OnLine(rest', w, k + 1)
      /\ k + 1 = Len(w) => rest' = <<>>
  BY <1>1, <1>2, <1>3, <1>4, LineStep
<1>6. \/ InsideFrame(b) \/ FrameAfterReport(b) \/ ReportByte(b) \/ AfterStar(b) \/ FirstByte(b)
  BY <1>5, Zenon DEF Read
<1>7. raw.in_frame = FALSE /\ raw.pending_star = FALSE
  BY <1>1 DEF Empty
<1>8. ASSUME k + 1 < Len(w), Parsed(stock', cmd, s, at, k + 1), star' = (k + 1 = 1),
             app' = app, raw' = raw
      PROVE  app' = app /\ StockCarries(e)'
  <2>1. k + 1 \in 0 .. Len(w) - 1
    BY <1>4, <1>8, <1>14
  <2>2. StockLine(stock', rest', star', e)
    BY <1>2, <1>5, <1>8, <2>1, Zenon DEF StockLine
  <2> QED BY <1>1, <1>8, <2>2 DEF StockCarries
<1>10. CASE k <= 1
  <2>1. stock = Idle
    <3>1. \A i \in 1 .. Len(s) + 1 : k # at[i] /\ k # at[i] - 1
      <4> SUFFICES ASSUME NEW i \in 1 .. Len(s) + 1 PROVE k # at[i] /\ k # at[i] - 1
        OBVIOUS
      <4>1. PICK a : a = at[i]
        OBVIOUS
      <4>2. a \in 3 .. n - 1
        BY <1>13, <4>1
      <4> HIDE DEF n
      <4>3. k # a /\ k # a - 1
        BY <1>10, <1>13, <1>14, <4>2
      <4> QED BY <4>1, <4>3
    <3>2. ~\E i \in 1 .. Len(s) : Unescapes(stock, cmd, s, at, k, i)
      <4>1. \A i \in 1 .. Len(s) : i \in 1 .. Len(s) + 1
        BY <1>4
      <4> QED BY <3>1, <4>1, Zenon DEF Unescapes
    <3>3. ~Closes(stock, cmd, s, at, k)
      <4>1. Len(s) + 1 \in 1 .. Len(s) + 1
        BY <1>4
      <4> QED BY <3>1, <4>1, Zenon DEF Closes
    <3>4. ~\E i \in 0 .. Len(s) : Takes(stock, cmd, s, at, k, i)
      <4>1. \A i \in 0 .. Len(s) : i + 1 \in 1 .. Len(s) + 1
        BY <1>4
      <4> QED BY <3>1, <4>1, Zenon DEF Takes
    <3> QED BY <1>2, <3>2, <3>3, <3>4, Zenon DEF Parsed
  <2>2. stock.in_frame = FALSE
    BY <2>1 DEF Idle
  <2>3. (AfterStar(b) /\ star) \/ (FirstByte(b) /\ ~star)
    BY <1>6, <1>7, <2>2 DEF InsideFrame, FrameAfterReport, ReportByte, InsideReport, AfterStar, FirstByte
  <2>4. CASE k = 0
    <3>1. b = Star
      BY <1>2, <1>3, <2>4, FrameFacts
    <3>2. ~star /\ k + 1 = 1 /\ k + 1 < Len(w)
      <4>1. k # 1 /\ k + 1 = 1 /\ k + 1 < n
        <5> HIDE DEF n
        <5> QED BY <1>13, <2>4
      <4> QED BY <1>12, <4>1, Zenon
    <3>3. FirstByte(b)
      BY <2>3, <3>2, Zenon
    <3>4. star' = TRUE /\ stock' = stock /\ raw' = raw /\ app' = app
      BY <3>1, <3>3, Zenon DEF FirstByte
    <3>5. Parsed(stock', cmd, s, at, k + 1)
      BY <2>1, <3>2, <3>4 DEF Parsed
    <3> QED BY <1>8, <3>2, <3>4, <3>5
  <2>5. CASE k = 1
    <3>1. b = cmd /\ cmd \in {PointCmd, StateCmd} /\ s \in Seq(Byte) /\ w[1 + 1] = cmd
      <4>1. w[2] = cmd /\ cmd \in {PointCmd, StateCmd}
        BY <1>2, FrameFacts
      <4> QED BY <1>3, <1>4, <2>5, <4>1
    <3>2. star /\ k + 1 = 2 /\ k + 1 < Len(w)
      <4>1. k + 1 = 2 /\ k + 1 < n
        <5> HIDE DEF n
        <5> QED BY <1>13, <2>5
      <4> QED BY <1>12, <2>5, <4>1, Zenon
    <3>3. AfterStar(b)
      BY <2>3, <3>2, Zenon
    <3>4. /\ FrameCommand(b) /\ b \notin RawTypes /\ b # Star /\ b \in 0 .. 127 /\ b # Esc
      BY <3>1 DEF FrameCommand, RawTypes, PointCmd, StateCmd, Star, Esc
    <3>5. star' = FALSE /\ stock' = Feed(Feed(stock, Star), b) /\ raw' = raw /\ app' = app
      BY <3>3, <3>4 DEF AfterStar, OpenFrame
    <3>6. Feed(Feed(Idle, Star), b) = InFrame(FALSE, TRUE, b, <<>>)
      BY <3>4 DEF Feed, FeedAfterStar, Restart, Idle, InFrame, Command, IsCheck, Esc
    <3>7. SubSeq(s, 1, 0) = <<>> /\ at[0 + 1] - 1 = 2 /\ 0 \in 0 .. Len(s)
      BY <1>4, <1>13
    <3>8. Takes(stock', cmd, s, at, k + 1, 0)
      BY <2>1, <3>1, <3>2, <3>5, <3>6, <3>7 DEF Takes
    <3>9. Parsed(stock', cmd, s, at, k + 1)
      BY <3>7, <3>8, Zenon DEF Parsed
    <3>10. star' = (k + 1 = 1)
      <4>1. k + 1 # 1
        BY <2>5
      <4> QED BY <3>5, <4>1, Zenon
    <3> QED BY <1>8, <3>2, <3>5, <3>9, <3>10
  <2> QED BY <1>10, <1>14, <2>4, <2>5
<1>11. CASE k > 1
  <2>1. /\ k + 1 # 1 /\ star = FALSE /\ ~(k <= 1)
    <3>1. k + 1 # 1 /\ k # 1 /\ ~(k <= 1)
      BY <1>11, <1>14
    <3> QED BY <1>12, <3>1, Zenon
  <2>2. CASE Closes(stock, cmd, s, at, k)
    <3>1. /\ k + 1 = Len(w) /\ b = check /\ stock.in_frame
          /\ Feed(stock, check) = Idle /\ Emits(stock, check)
          /\ stock.cmd = cmd /\ stock.payload = s
      BY <1>2, <1>3, <2>2, ClosesByte
    <3>2. InsideFrame(b)
      BY <1>6, <3>1 DEF FrameAfterReport, ReportByte, InsideReport, AfterStar, FirstByte, Between
    <3>3. /\ stock' = Idle /\ app' = HandleFrame(app, stock, check) /\ raw' = raw /\ star' = star
      BY <3>1, <3>2, Zenon DEF InsideFrame
    <3>4. app' = Apply(app, e)
      BY <1>2, <3>1, <3>3, FrameEffect
    <3>5. StockLine(stock', rest', star', Nothing)
      BY <1>5, <2>1, <3>1, <3>3 DEF StockLine
    <3>6. StockCarries(Nothing)'
      BY <1>1, <3>3, <3>5 DEF StockCarries, Nothing, Effect, None
    <3> QED BY <3>4, <3>6
  <2>3. CASE \/ \E i \in 1 .. Len(s) : Unescapes(stock, cmd, s, at, k, i)
             \/ \E i \in 0 .. Len(s) : Takes(stock, cmd, s, at, k, i)
    <3>1. /\ Parsed(Feed(stock, b), cmd, s, at, k + 1) /\ ~Emits(stock, b)
          /\ stock.in_frame /\ k + 1 < Len(w)
      BY <1>2, <1>3, <2>3, UnescapesByte, TakesByte
    <3>2. InsideFrame(b)
      BY <1>6, <3>1 DEF FrameAfterReport, ReportByte, InsideReport, AfterStar, FirstByte, Between
    <3>3. /\ stock' = Feed(stock, b) /\ app' = app /\ raw' = raw /\ star' = star
      BY <3>1, <3>2, Zenon DEF InsideFrame
    <3>4. star' = (k + 1 = 1)
      BY <2>1, <3>3
    <3> QED BY <1>8, <3>1, <3>3, <3>4
  <2> QED BY <1>2, <2>1, <2>2, <2>3, Zenon DEF Parsed
<1> QED BY <1>10, <1>11, <1>14

-----------------------------------------------------------------------------
(* Raw reports.                                                            *)

LEMMA ReportFacts ==
  ASSUME NEW w, NEW type, NEW s, IsReport(w, type, s)
  PROVE  /\ type \in RawTypes /\ s \in Seq(Byte) /\ Len(s) <= 3
         /\ \A i \in 1 .. Len(s) : s[i] # Star
         /\ w \in Seq(Byte) /\ Len(w) = Len(s) + 2 /\ w[1] = Star /\ w[2] = type
         /\ \A i \in 1 .. Len(s) : w[i + 2] = s[i]
BY Zenon DEF IsReport

LEMMA ApplyMark ==
  ASSUME NEW a, NEW p
  PROVE  Apply(a, Effect("mark", p)) = Touch(a, p)
BY DEF Apply, Effect

LEMMA FlushEffect ==
  ASSUME NEW a, NEW pending, NEW type, NEW s, type \in RawTypes, s \in Seq(Byte)
  PROVE  Flushed(a, Collecting(pending, type, s)) = Apply(a, RawEffect(type, s))
<1> PICK n : n = Len(s)
  OBVIOUS
<1>1. n \in Nat /\ (n < 3 <=> ~(n >= 3))
  OBVIOUS
<1> PICK p : p = [x |-> 16 * s[1] + s[2] \div 16, y |-> 256 * (s[2] % 16) + s[3]]
  OBVIOUS
<1>2. /\ Effect("mark", p).kind = "mark" /\ Effect("mark", p).at = p
      /\ Lifting.kind = "lift" /\ Nothing.kind = "none"
  BY DEF Effect, Lifting, Nothing
<1>3. Flushed(a, Collecting(pending, type, s)) =
        IF type \in {65, 129} THEN IF n < 3 THEN a ELSE Touch(a, p)
        ELSE IF type = 1 THEN Release(a) ELSE a
  BY DEF Flushed, Collecting
<1>4. RawEffect(type, s) =
        IF type \in {65, 129} /\ n >= 3 THEN Effect("mark", p)
        ELSE IF type = 1 THEN Lifting ELSE Nothing
  BY DEF RawEffect
<1>5. CASE type \in {65, 129}
  <2>1. type # 1
    BY <1>5
  <2>2. CASE n < 3
    <3>1. RawEffect(type, s) = Nothing /\ Flushed(a, Collecting(pending, type, s)) = a
      BY <1>1, <1>3, <1>4, <1>5, <2>1, <2>2, Zenon
    <3> QED BY <1>2, <3>1 DEF Apply
  <2>3. CASE n >= 3
    <3>1. /\ RawEffect(type, s) = Effect("mark", p)
          /\ Flushed(a, Collecting(pending, type, s)) = Touch(a, p)
      BY <1>1, <1>3, <1>4, <1>5, <2>3, Zenon
    <3> QED BY <3>1, ApplyMark
  <2> QED BY <1>1, <2>2, <2>3
<1>6. CASE type \notin {65, 129} /\ type = 1
  BY <1>2, <1>3, <1>4, <1>6 DEF Apply
<1>7. CASE type \notin {65, 129} /\ type # 1
  BY <1>2, <1>3, <1>4, <1>7 DEF Apply
<1> QED BY <1>5, <1>6, <1>7

\* The three kinds of bytes a raw decoder gets.
LEMMA RawStar ==
  ASSUME NEW q, NEW pending, NEW type, NEW s, q = Collecting(FALSE, type, s)
  PROVE  RawFeed(q, Star) = Collecting(TRUE, type, s)
<1>1. q.pending_star = FALSE
  BY DEF Collecting
<1>2. RawFeed(q, Star) = [q EXCEPT !.pending_star = TRUE]
  BY <1>1, Zenon DEF RawFeed
<1> QED BY <1>2 DEF Collecting

LEMMA RawType ==
  ASSUME NEW q, q.pending_star = TRUE, NEW b \in RawTypes
  PROVE  RawFeed(q, b) = Collecting(FALSE, b, <<>>)
BY DEF RawFeed, Collecting

LEMMA RawData ==
  ASSUME NEW q, NEW type, NEW s \in Seq(Byte), Len(s) <= 3, q = Collecting(FALSE, type, s),
         NEW b, b # Star
  PROVE  RawFeed(q, b) = Collecting(FALSE, type, s \o <<b>>)
<1>1. q.in_frame = TRUE /\ q.pending_star = FALSE /\ q.buf = s
  BY DEF Collecting
<1>2. Len(s) + Len(<<b>>) <= BufSize
  BY DEF BufSize
<1>3. RawFeed(q, b) = [q EXCEPT !.pending_star = FALSE, !.buf = s \o <<b>>]
  BY <1>1, <1>2 DEF RawFeed, Collected
<1> QED BY <1>3 DEF Collecting

\* A byte of a raw report: at its type, the one before it takes effect.
LEMMA RawByte ==
  ASSUME NEW e, NEW f, RawCarries(e, f), Read
  PROVE  \/ app' = app /\ RawCarries(e, f)'
         \/ app' = Apply(app, e) /\ RawCarries(f, Nothing)'
<1>1. stock = Idle /\ rest # <<>> /\ rest' = Tail(rest)
  BY Zenon DEF RawCarries, Read
<1>2. PICK w, type, s, k :
       /\ IsReport(w, type, s) /\ k \in 0 .. Len(w) - 1 /\ OnLine(rest, w, k)
       /\ \/ k <= 1 /\ Holds(raw, star, e, k = 1) /\ f = RawEffect(type, s)
          \/ /\ k > 1 /\ e = RawEffect(type, s) /\ f = Nothing /\ ~star
             /\ raw = Collecting(FALSE, type, SubSeq(s, 1, k - 2))
  BY <1>1, Zenon DEF RawCarries, RawLine
<1>3. PICK b, n : b = w[k + 1] /\ n = Len(w)
  OBVIOUS
<1>4. /\ w \in Seq(Byte) /\ n = Len(s) + 2 /\ s \in Seq(Byte) /\ Len(s) <= 3 /\ Len(s) \in Nat
      /\ type \in RawTypes /\ \A i \in 1 .. Len(s) : s[i] # Star /\ w[i + 2] = s[i]
      /\ w[1] = Star /\ w[2] = type
  <2>1. IsReport(w, type, s)
    BY <1>2, Zenon
  <2>2. s \in Seq(Byte) => Len(s) \in Nat
    OBVIOUS
  <2> QED BY <1>3, <2>1, <2>2, Zenon DEF IsReport
<1>5. k \in 0 .. n - 1 /\ n \in 2 .. 5
  <2>1. k \in 0 .. n - 1
    BY <1>2, <1>3, Zenon
  <2> QED BY <1>4, <2>1
<1>6. /\ Head(rest) = b /\ OnLine(rest', w, k + 1)
      /\ k + 1 = n => rest' = <<>>
  <2>1. k \in 0 .. Len(w) - 1 /\ OnLine(rest, w, k) /\ w \in Seq(Byte)
    BY <1>2, <1>4, Zenon
  <2> QED BY <1>1, <1>3, <2>1, LineStep, Zenon
<1>7. \/ InsideFrame(b) \/ FrameAfterReport(b) \/ ReportByte(b) \/ AfterStar(b) \/ FirstByte(b)
  BY <1>6, Zenon DEF Read
<1>8. stock.in_frame = FALSE
  BY <1>1 DEF Idle
<1>9. CASE k = 0
  <2>1. b = Star /\ k + 1 = 1 /\ k + 1 \in 0 .. Len(w) - 1 /\ k # 1 /\ ~(k > 1) /\ k + 1 <= 1
    BY <1>3, <1>4, <1>5, <1>9
  <2>2. Holds(raw, star, e, FALSE) /\ f = RawEffect(type, s)
    BY <1>2, <2>1, Zenon
  <2>3. app' = app /\ stock' = stock /\ Holds(raw', star', e, TRUE)
    <3>1. CASE raw = Empty /\ e = Nothing /\ star = FALSE
      <4>1. raw.in_frame = FALSE /\ raw.pending_star = FALSE
        BY <3>1 DEF Empty
      <4>2. FirstByte(b)
        BY <1>7, <1>8, <3>1, <4>1, Zenon
           DEF InsideFrame, FrameAfterReport, ReportByte, InsideReport, AfterStar
      <4> QED BY <2>1, <3>1, <4>2, Zenon DEF FirstByte, Holds
    <3>2. ASSUME NEW held, NEW t, held \in RawTypes, t \in Seq(Byte), Len(t) <= 3,
                 e = RawEffect(held, t), raw = Collecting(FALSE, held, t), ~star
          PROVE  app' = app /\ stock' = stock /\ Holds(raw', star', e, TRUE)
      <4>1. raw.in_frame = TRUE /\ raw.pending_star = FALSE
        BY <3>2 DEF Collecting
      <4>2. ReportByte(b)
        BY <1>7, <1>8, <4>1, Zenon
           DEF InsideFrame, FrameAfterReport, FirstByte, InsideReport, AfterStar, Between
      <4>3. raw' = Collecting(TRUE, held, t)
        BY <2>1, <3>2, <4>2, RawStar, Zenon DEF ReportByte
      <4>4. app' = app /\ stock' = stock /\ star' = star
        BY <4>1, <4>2, Zenon DEF ReportByte
      <4> QED BY <3>2, <4>3, <4>4, Zenon DEF Holds
    <3> QED BY <2>2, <3>1, <3>2, Zenon DEF Holds
  <2>4. Holds(raw', star', e, k + 1 = 1)
    BY <2>1, <2>3, Zenon
  <2>5. RawLine(raw', rest', star', e, f)
    BY <1>2, <1>6, <2>1, <2>2, <2>4, Zenon DEF RawLine
  <2> QED BY <1>1, <2>3, <2>5, Zenon DEF RawCarries, Idle
<1>10. CASE k = 1
  <2>1. /\ b = type /\ k + 1 = 2 /\ ~(k > 1) /\ k + 1 > 1 /\ ~(k + 1 <= 1)
    BY <1>3, <1>4, <1>10
  <2>2. Holds(raw, star, e, TRUE) /\ f = RawEffect(type, s)
    BY <1>2, <1>10, <2>1, Zenon
  <2>3. /\ ~FrameCommand(b) /\ b \in RawTypes /\ b # Star
    BY <1>4, <2>1 DEF FrameCommand, RawTypes, Star
  <2>4. /\ app' = Apply(app, e) /\ stock' = stock /\ ~star'
        /\ raw' = Collecting(FALSE, type, <<>>)
    <3>1. CASE raw = Empty /\ e = Nothing /\ star = TRUE
      <4>1. raw.in_frame = FALSE /\ raw.pending_star = FALSE
        BY <3>1 DEF Empty
      <4>2. AfterStar(b)
        BY <1>7, <1>8, <3>1, <4>1, Zenon
           DEF InsideFrame, FrameAfterReport, ReportByte, InsideReport, FirstByte
      <4>3. raw' = RawFeed(RawFeed(raw, Star), b) /\ app' = app /\ stock' = stock /\ ~star'
        BY <2>3, <4>2 DEF AfterStar
      <4>4. RawFeed(raw, Star).pending_star = TRUE
        BY <3>1 DEF RawFeed, Empty, Star, RawTypes
      <4>5. raw' = Collecting(FALSE, type, <<>>)
        BY <2>1, <2>3, <4>3, <4>4, RawType
      <4>6. Apply(app, e) = app
        BY <3>1 DEF Apply, Nothing, Effect
      <4> QED BY <4>3, <4>5, <4>6, Zenon
    <3>2. ASSUME NEW held, NEW t, held \in RawTypes, t \in Seq(Byte), Len(t) <= 3,
                 e = RawEffect(held, t), raw = Collecting(TRUE, held, t), ~star
          PROVE  /\ app' = Apply(app, e) /\ stock' = stock /\ ~star'
                 /\ raw' = Collecting(FALSE, type, <<>>)
      <4>1. raw.in_frame = TRUE /\ raw.pending_star = TRUE
        BY <3>2 DEF Collecting
      <4>2. ReportByte(b)
        BY <1>7, <1>8, <2>3, <4>1, Zenon
           DEF InsideFrame, FrameAfterReport, FirstByte, InsideReport, AfterStar, Between
      <4>3. raw' = RawFeed(raw, b) /\ app' = Flushed(app, raw) /\ stock' = stock /\ star' = star
        BY <2>3, <4>1, <4>2, Zenon DEF ReportByte
      <4>4. raw' = Collecting(FALSE, type, <<>>)
        BY <2>1, <2>3, <4>1, <4>3, RawType
      <4>5. app' = Apply(app, e)
        BY <3>2, <4>3, FlushEffect
      <4> QED BY <3>2, <4>3, <4>4, <4>5, Zenon
    <3> QED BY <2>2, <3>1, <3>2, Zenon DEF Holds
  <2>5. SubSeq(s, 1, 0) = <<>>
    BY <1>4
  <2>6. RawLine(raw', rest', star', f, Nothing)
    <3>1. CASE n = 2
      <4>1. s = <<>> /\ rest' = <<>>
        BY <1>4, <1>6, <2>1, <3>1
      <4>2. Holds(raw', star', f, FALSE)
        BY <1>4, <2>2, <2>4, <4>1, Zenon DEF Holds
      <4> QED BY <4>1, <4>2, Zenon DEF RawLine
    <3>2. CASE n > 2
      <4>1. k + 1 \in 0 .. Len(w) - 1 /\ (k + 1) - 2 = 0
        BY <1>3, <1>5, <1>10, <3>2
      <4>2. raw' = Collecting(FALSE, type, SubSeq(s, 1, (k + 1) - 2))
        BY <2>4, <2>5, <4>1
      <4> QED BY <1>2, <1>6, <2>1, <2>2, <2>4, <4>1, <4>2, Zenon DEF RawLine
    <3> QED BY <1>5, <3>1, <3>2
  <2> QED BY <1>1, <2>4, <2>6, Zenon DEF RawCarries, Idle, Nothing, Effect, None
<1>11. CASE k > 1
  <2>1. k - 2 \in 0 .. Len(s) - 1 /\ k - 1 \in 1 .. Len(s) /\ (k - 2) + 1 = k - 1
        /\ ~(k <= 1) /\ k + 1 > 1 /\ (k + 1) - 2 = k - 1 /\ k + 1 = (k - 1) + 2
    BY <1>4, <1>5, <1>11
  <2>2. e = RawEffect(type, s) /\ f = Nothing /\ ~star
        /\ raw = Collecting(FALSE, type, SubSeq(s, 1, k - 2))
    BY <1>2, <2>1, Zenon
  <2>3. b = s[k - 1] /\ b # Star
    BY <1>3, <1>4, <2>1
  <2>4. raw.in_frame = TRUE /\ raw.pending_star = FALSE
    BY <2>2 DEF Collecting
  <2>5. ReportByte(b)
    BY <1>7, <1>8, <2>4, Zenon
       DEF InsideFrame, FrameAfterReport, FirstByte, InsideReport, AfterStar, Between
  <2>6. raw' = RawFeed(raw, b) /\ app' = app /\ stock' = stock /\ star' = star
    BY <2>4, <2>5, Zenon DEF ReportByte
  <2>7. /\ SubSeq(s, 1, k - 2) \in Seq(Byte) /\ Len(SubSeq(s, 1, k - 2)) = k - 2
        /\ SubSeq(s, 1, k - 2) \o <<b>> = SubSeq(s, 1, k - 1)
    <3>1. PICK i : i = k - 2
      OBVIOUS
    <3>2. i \in 0 .. Len(s) - 1 /\ s[i + 1] = b /\ i + 1 = k - 1
      BY <2>1, <2>3, <3>1
    <3>3. Len(SubSeq(s, 1, i)) = i /\ SubSeq(s, 1, i) \o <<s[i + 1]>> = SubSeq(s, 1, i + 1)
      BY <1>4, <3>2, PrefixGrows, Zenon
    <3>4. SubSeq(s, 1, i) \in Seq(Byte)
      BY <1>4, <3>2
    <3> QED BY <3>1, <3>2, <3>3, <3>4, Zenon
  <2>8. raw' = Collecting(FALSE, type, SubSeq(s, 1, k - 1))
    <3>1. Len(SubSeq(s, 1, k - 2)) <= 3
      <4>1. k - 2 <= 3
        BY <1>5
      <4> QED BY <2>7, <4>1, Zenon
    <3>2. PICK t : t = SubSeq(s, 1, k - 2)
      OBVIOUS
    <3>3. t \in Seq(Byte) /\ Len(t) <= 3 /\ raw = Collecting(FALSE, type, t)
      BY <2>2, <2>7, <3>1, <3>2, Zenon
    <3>4. RawFeed(raw, b) = Collecting(FALSE, type, t \o <<b>>)
      BY <2>3, <3>3, RawData
    <3> QED BY <2>6, <2>7, <3>2, <3>4, Zenon
  <2>9. RawLine(raw', rest', star', e, f)
    <3>1. CASE k + 1 = n
      <4>1. rest' = <<>> /\ SubSeq(s, 1, k - 1) = s
        <5>1. k - 1 = Len(s)
          <6>1. n = Len(s) + 2 /\ Len(s) \in Nat
            BY <1>4, Zenon
          <6>2. k \in Nat
            BY <1>5
          <6> QED BY <3>1, <6>1, <6>2
        <5> QED BY <1>4, <1>6, <3>1, <5>1
      <4>2. Holds(raw', star', e, FALSE)
        BY <1>4, <2>2, <2>6, <2>8, <4>1, Zenon DEF Holds
      <4> QED BY <2>2, <4>1, <4>2, Zenon DEF RawLine
    <3>2. CASE k + 1 < n
      <4>1. k + 1 \in 0 .. Len(w) - 1
        BY <1>3, <1>5, <3>2
      <4> QED BY <1>2, <1>6, <2>1, <2>2, <2>6, <2>8, <4>1, Zenon DEF RawLine
    <3> QED BY <1>5, <3>1, <3>2
  <2> QED BY <1>1, <2>6, <2>9, Zenon DEF RawCarries, Idle
<1> QED BY <1>5, <1>9, <1>10, <1>11

-----------------------------------------------------------------------------
(* What the panel puts on the line.                                        *)

LEMMA CheckIsHigh ==
  ASSUME NEW s
  PROVE  Checksum(s) \in 128 .. 255
<1>1. \A a, b : \A w \in Nat : XorBit(a, b, w) \in {0, w}
  BY DEF XorBit
<1> DEFINE X(w) == XorBit(PayloadSum(s), Len(s), w)
<1>2. /\ X(1) \in {0, 1} /\ X(2) \in {0, 2} /\ X(4) \in {0, 4} /\ X(8) \in {0, 8}
      /\ X(16) \in {0, 16} /\ X(32) \in {0, 32} /\ X(64) \in {0, 64}
  BY <1>1
<1>3. Checksum(s) = 128 + X(1) + X(2) + X(4) + X(8) + X(16) + X(32) + X(64)
  BY DEF Checksum
<1> HIDE DEF X
<1> QED BY <1>2, <1>3

LEMMA Joined ==
  ASSUME NEW s \in Seq(Byte), NEW t \in Seq(Byte), NEW w, w = s \o t
  PROVE  /\ w \in Seq(Byte) /\ Len(w) = Len(s) + Len(t)
         /\ \A i \in 1 .. Len(s) : w[i] = s[i]
         /\ \A i \in 1 .. Len(t) : w[Len(s) + i] = t[i]
OBVIOUS

LEMMA Appended ==
  ASSUME NEW s \in Seq(Byte), NEW b \in Byte, NEW t, t = Append(s, b)
  PROVE  t \in Seq(Byte) /\ Len(t) = Len(s) + 1 /\ t[Len(s) + 1] = b /\ \A i \in 1 .. Len(s) : t[i] = s[i]
BY AppendProperties

LEMMA AppendIs ==
  ASSUME NEW s \in Seq(Byte), NEW b \in Byte, NEW u \in Seq(Byte),
         Len(u) = Len(s) + 1, u[Len(s) + 1] = b, \A i \in 1 .. Len(s) : u[i] = s[i]
  PROVE  Append(s, b) = u
<1>1. PICK t : t = Append(s, b)
  OBVIOUS
<1>2. /\ t \in Seq(Byte) /\ Len(t) = Len(s) + 1 /\ t[Len(s) + 1] = b
      /\ \A i \in 1 .. Len(s) : t[i] = s[i]
  BY <1>1, Appended
<1>3. \A i \in 1 .. Len(s) + 1 : t[i] = u[i]
  BY <1>2
<1> QED BY <1>1, <1>2, <1>3, SeqEqual

LEMMA TupleOne ==
  ASSUME NEW a \in Byte
  PROVE  Append(<<>>, a) = <<a>>
OBVIOUS

LEMMA TupleTwo ==
  ASSUME NEW a \in Byte, NEW b \in Byte
  PROVE  Append(<<a>>, b) = <<a, b>>
<1>1. PICK s, u : s = <<a>> /\ u = <<a, b>>
  OBVIOUS
<1>2. s \in Seq(Byte) /\ u \in Seq(Byte) /\ Len(s) = 1 /\ Len(u) = 2 /\ u[2] = b
  BY <1>1
<1>3. u[1] = s[1]
  BY <1>1
<1>4. Len(u) = Len(s) + 1 /\ u[Len(s) + 1] = b /\ \A i \in 1 .. Len(s) : u[i] = s[i]
  BY <1>2, <1>3
<1>5. Append(s, b) = u
  BY <1>2, <1>4, AppendIs
<1> QED BY <1>1, <1>5

LEMMA TupleThree ==
  ASSUME NEW a \in Byte, NEW b \in Byte, NEW c \in Byte
  PROVE  Append(<<a, b>>, c) = <<a, b, c>>
<1>1. PICK s, u : s = <<a, b>> /\ u = <<a, b, c>>
  OBVIOUS
<1>2. s \in Seq(Byte) /\ u \in Seq(Byte) /\ Len(s) = 2 /\ Len(u) = 3 /\ u[3] = c
  BY <1>1
<1>3. u[1] = s[1] /\ u[2] = s[2]
  BY <1>1
<1>4. Len(u) = Len(s) + 1 /\ u[Len(s) + 1] = c /\ \A i \in 1 .. Len(s) : u[i] = s[i]
  BY <1>2, <1>3
<1>5. Append(s, c) = u
  BY <1>2, <1>4, AppendIs
<1> QED BY <1>1, <1>5

LEMMA TupleFour ==
  ASSUME NEW a \in Byte, NEW b \in Byte, NEW c \in Byte, NEW d \in Byte
  PROVE  Append(<<a, b, c>>, d) = <<a, b, c, d>>
<1>1. PICK s, u : s = <<a, b, c>> /\ u = <<a, b, c, d>>
  OBVIOUS
<1>2. s \in Seq(Byte) /\ u \in Seq(Byte) /\ Len(s) = 3 /\ Len(u) = 4 /\ u[4] = d
  BY <1>1
<1>3. u[1] = s[1] /\ u[2] = s[2] /\ u[3] = s[3]
  BY <1>1
<1>4. Len(u) = Len(s) + 1 /\ u[Len(s) + 1] = d /\ \A i \in 1 .. Len(s) : u[i] = s[i]
  BY <1>2, <1>3
<1>5. Append(s, d) = u
  BY <1>2, <1>4, AppendIs
<1> QED BY <1>1, <1>5

LEMMA TupleFive ==
  ASSUME NEW a \in Byte, NEW b \in Byte, NEW c \in Byte, NEW d \in Byte, NEW e \in Byte
  PROVE  Append(<<a, b, c, d>>, e) = <<a, b, c, d, e>>
<1>1. PICK s, u : s = <<a, b, c, d>> /\ u = <<a, b, c, d, e>>
  OBVIOUS
<1>2. s \in Seq(Byte) /\ u \in Seq(Byte) /\ Len(s) = 4 /\ Len(u) = 5 /\ u[5] = e
  BY <1>1
<1>3. u[1] = s[1] /\ u[2] = s[2] /\ u[3] = s[3] /\ u[4] = s[4]
  BY <1>1
<1>4. Len(u) = Len(s) + 1 /\ u[Len(s) + 1] = e /\ \A i \in 1 .. Len(s) : u[i] = s[i]
  BY <1>2, <1>3
<1>5. Append(s, e) = u
  BY <1>2, <1>4, AppendIs
<1> QED BY <1>1, <1>5

LEMMA EscapeFacts ==
  ASSUME NEW b \in Byte, NEW u, u = Escape(b), NEW j, j = IF b = Star THEN 2 ELSE 1
  PROVE  /\ u \in Seq(Byte) /\ Len(u) = j /\ j \in {1, 2} /\ u[1] = b
         /\ b = Star => j = 2 /\ u[2] = Esc
<1>1. Star \in Byte /\ Esc \in Byte
  BY DEF Star, Esc, Byte
<1>2. CASE b = Star
  <2>1. u = <<Star, Esc>> /\ j = 2
    BY <1>2 DEF Escape
  <2>2. u \in Seq(Byte) /\ Len(u) = 2 /\ u[1] = Star /\ u[2] = Esc
    BY <1>1, <2>1
  <2> QED BY <1>2, <2>1, <2>2
<1>3. CASE b # Star
  <2>1. u = <<b>> /\ j = 1
    BY <1>3 DEF Escape
  <2> QED BY <1>3, <2>1
<1> QED BY <1>2, <1>3

\* One more byte of the payload.
LEMMA BeginsOn ==
  ASSUME NEW v, NEW cmd, NEW s, NEW at, Begins(v, cmd, s, at), NEW b \in Byte
  PROVE  \E z : Begins(v \o Escape(b), cmd, Append(s, b), Append(at, z))
<1>1. PICK n, m : n = Len(s) /\ m = Len(v)
  OBVIOUS
<1>2. /\ s \in Seq(Byte) /\ v \in Seq(Byte) /\ at \in Seq(Nat) /\ n \in Nat /\ m \in Nat
      /\ Len(at) = n + 1 /\ Len(s) = n /\ Len(v) = m
      /\ at[1] = 3 /\ at[n + 1] = m + 1 /\ \A i \in 1 .. n + 1 : at[i] \in 3 .. m + 1
      /\ v[1] = Star /\ v[2] = cmd
  BY <1>1 DEF Begins
<1>3. \A i \in 1 .. n : /\ v[at[i]] = s[i]
                        /\ at[i + 1] = at[i] + (IF s[i] = Star THEN 2 ELSE 1)
                        /\ s[i] = Star => v[at[i] + 1] = Esc
  BY <1>1, Zenon DEF Begins
<1>4. PICK j : j = IF b = Star THEN 2 ELSE 1
  OBVIOUS
<1>5. PICK u : u = Escape(b)
  OBVIOUS
<1>6. PICK w, t, r : w = v \o u /\ t = Append(s, b) /\ r = Append(at, m + 1 + j)
  OBVIOUS
<1>17. /\ u \in Seq(Byte) /\ Len(u) = j /\ j \in {1, 2} /\ u[1] = b
       /\ b = Star => j = 2 /\ u[2] = Esc
  BY <1>4, <1>5, EscapeFacts
<1>18. m \in Nat /\ n \in Nat /\ j \in {1, 2}
  BY <1>2, <1>17
<1>7. /\ w \in Seq(Byte) /\ Len(w) = m + j
      /\ \A i \in 1 .. m : w[i] = v[i]
      /\ w[m + 1] = b /\ (b = Star => w[m + 2] = Esc)
  <2>1. /\ w \in Seq(Byte) /\ Len(w) = Len(v) + Len(u)
        /\ \A i \in 1 .. Len(v) : w[i] = v[i]
        /\ \A i \in 1 .. Len(u) : w[Len(v) + i] = u[i]
    <3>1. w = v \o u /\ v \in Seq(Byte) /\ u \in Seq(Byte)
      BY <1>2, <1>6, <1>17
    <3> QED BY <3>1, Joined
  <2>2. \A i \in 1 .. m : w[i] = v[i]
    BY <1>2, <2>1
  <2>3. \A i \in 1 .. j : w[m + i] = u[i]
    BY <1>2, <1>17, <2>1
  <2>4. 1 \in 1 .. j /\ (b = Star => 2 \in 1 .. j)
    BY <1>17
  <2>5. w[m + 1] = b /\ (b = Star => w[m + 2] = Esc)
    BY <1>17, <2>3, <2>4
  <2> QED BY <1>2, <1>17, <2>1, <2>2, <2>5
<1>8. /\ t \in Seq(Byte) /\ Len(t) = n + 1 /\ t[n + 1] = b /\ \A i \in 1 .. n : t[i] = s[i]
  <2>1. /\ t \in Seq(Byte) /\ Len(t) = Len(s) + 1 /\ t[Len(s) + 1] = b
        /\ \A i \in 1 .. Len(s) : t[i] = s[i]
    BY <1>2, <1>6, Appended
  <2> QED BY <1>2, <2>1
<1>9. /\ r \in Seq(Nat) /\ Len(r) = n + 2 /\ r[n + 2] = m + 1 + j
      /\ \A i \in 1 .. n + 1 : r[i] = at[i]
  <2>1. PICK x : x = m + 1 + j
    OBVIOUS
  <2>2. x \in Nat
    BY <1>18, <2>1
  <2>3. /\ r \in Seq(Nat) /\ Len(r) = Len(at) + 1 /\ r[Len(at) + 1] = x
        /\ \A i \in 1 .. Len(at) : r[i] = at[i]
    BY <1>2, <1>6, <2>1, <2>2, AppendProperties
  <2>4. Len(at) = n + 1 /\ (n + 1) + 1 = n + 2
    BY <1>2
  <2> QED BY <2>1, <2>3, <2>4
<1>10. \A i \in 1 .. n : i \in 1 .. n + 1 /\ i + 1 \in 1 .. n + 1
  BY <1>2
<1>11. ASSUME NEW i \in 1 .. n
       PROVE  at[i] \in 1 .. m /\ (s[i] = Star => at[i] + 1 \in 1 .. m)
  <2>1. PICK a, c : a = at[i] /\ c = at[i + 1]
    OBVIOUS
  <2>2. a \in 3 .. m + 1 /\ c \in 3 .. m + 1
    BY <1>2, <1>10, <2>1
  <2>3. c = a + (IF s[i] = Star THEN 2 ELSE 1)
    BY <1>3, <2>1
  <2>4. (s[i] = Star => c = a + 2) /\ (c = a + 1 \/ c = a + 2)
    BY <2>3
  <2>5. c = a + 1 \/ c = a + 2
    BY <2>4
  <2>6. a \in 1 .. m
    BY <1>18, <2>2, <2>5
  <2>7. c = a + 2 => a + 1 \in 1 .. m
    BY <1>18, <2>2
  <2> QED BY <2>1, <2>4, <2>6, <2>7
<1>12. ASSUME NEW i \in 1 .. n + 1
       PROVE  /\ w[r[i]] = t[i]
              /\ r[i + 1] = r[i] + (IF t[i] = Star THEN 2 ELSE 1)
              /\ t[i] = Star => w[r[i] + 1] = Esc
  <2>1. CASE i \in 1 .. n
    <3>1. r[i] = at[i] /\ r[i + 1] = at[i + 1] /\ t[i] = s[i]
      BY <1>8, <1>9, <1>10, <2>1
    <3>2. w[at[i]] = v[at[i]] /\ (s[i] = Star => w[at[i] + 1] = v[at[i] + 1])
      BY <1>7, <1>11, <2>1
    <3> QED BY <1>3, <2>1, <3>1, <3>2
  <2>2. CASE i = n + 1
    <3>1. r[i] = m + 1 /\ t[i] = b /\ i + 1 = n + 2 /\ r[i + 1] = m + 1 + j
      <4>1. i + 1 = n + 2
        BY <1>2, <2>2
      <4> QED BY <1>2, <1>8, <1>9, <2>2, <4>1
    <3>2. w[m + 1] = b /\ (b = Star => w[(m + 1) + 1] = Esc)
      BY <1>2, <1>7
    <3> QED BY <1>4, <3>1, <3>2
  <2> QED BY <1>2, <2>1, <2>2
<1>13. /\ r[1] = 3 /\ r[(n + 1) + 1] = (m + j) + 1
       /\ \A i \in 1 .. (n + 1) + 1 : r[i] \in 3 .. (m + j) + 1
  <2>1. 1 \in 1 .. n + 1 /\ (n + 1) + 1 = n + 2 /\ m + 1 + j = (m + j) + 1
    BY <1>18
  <2>2. m + 1 >= 3
    <3>1. 3 \in 3 .. m + 1
      BY <1>2, <2>1
    <3> QED BY <1>2, <3>1
  <2>3. ASSUME NEW i \in 1 .. n + 2
        PROVE  r[i] \in 3 .. (m + j) + 1
    <3>1. CASE i \in 1 .. n + 1
      <4>1. PICK a : a = r[i]
        OBVIOUS
      <4>2. a \in 3 .. m + 1
        BY <1>2, <1>9, <3>1, <4>1
      <4>3. a \in 3 .. (m + j) + 1
        BY <1>18, <4>2
      <4> QED BY <4>1, <4>3
    <3>2. CASE i = n + 2
      <4>1. (m + j) + 1 \in 3 .. (m + j) + 1
        BY <1>18, <2>2
      <4> QED BY <1>9, <2>1, <3>2, <4>1
    <3> QED BY <1>2, <3>1, <3>2
  <2> QED BY <1>2, <1>9, <2>1, <2>3
<1>14. w[1] = Star /\ w[2] = cmd
  <2>1. 1 \in 1 .. m /\ 2 \in 1 .. m
    <3>1. 3 \in 3 .. m + 1
      <4>1. 1 \in 1 .. n + 1
        BY <1>2
      <4> QED BY <1>2, <4>1
    <3> QED BY <1>2, <3>1
  <2> QED BY <1>2, <1>7, <2>1
<1>15. Begins(w, cmd, t, r)
  <2>1. Len(t) = n + 1 /\ Len(w) = m + j /\ Len(r) = (n + 1) + 1
    BY <1>2, <1>7, <1>8, <1>9
  <2> QED BY <1>7, <1>8, <1>9, <1>12, <1>13, <1>14, <2>1, Zenon DEF Begins
<1> QED BY <1>5, <1>6, <1>15

\* No byte of the payload yet.
LEMMA BeginsFirst ==
  ASSUME NEW cmd \in Byte
  PROVE  Begins(<<Star, cmd>>, cmd, <<>>, <<3>>)
<1>1. PICK v, s, at : v = <<Star, cmd>> /\ s = <<>> /\ at = <<3>>
  OBVIOUS
<1>2. v \in Seq(Byte) /\ Len(v) = 2 /\ v[1] = Star /\ v[2] = cmd
  BY <1>1 DEF Star, Byte
<1>3. s \in Seq(Byte) /\ Len(s) = 0 /\ at \in Seq(Nat) /\ Len(at) = 1 /\ at[1] = 3
  BY <1>1
<1>4. Begins(v, cmd, s, at)
  BY <1>2, <1>3 DEF Begins
<1> QED BY <1>1, <1>4

\* Two and five bytes of payload.
Head2(cmd, a, b)          == <<Star, cmd>> \o Escape(a) \o Escape(b)
Head5(cmd, a, b, c, d, e) == Head2(cmd, a, b) \o Escape(c) \o Escape(d) \o Escape(e)

LEMMA BeginsTwo ==
  ASSUME NEW cmd \in Byte, NEW a \in Byte, NEW b \in Byte
  PROVE  \E at : Begins(Head2(cmd, a, b), cmd, <<a, b>>, at)
<1>1. Begins(<<Star, cmd>>, cmd, <<>>, <<3>>)
  BY BeginsFirst
<1>2. PICK at1 : Begins(<<Star, cmd>> \o Escape(a), cmd, Append(<<>>, a), at1)
  BY <1>1, BeginsOn
<1>3. PICK at2 : Begins(Head2(cmd, a, b), cmd, Append(Append(<<>>, a), b), at2)
  BY <1>2, BeginsOn DEF Head2
<1>4. Append(<<>>, a) = <<a>> /\ Append(<<a>>, b) = <<a, b>>
  BY TupleOne, TupleTwo
<1>5. Begins(Head2(cmd, a, b), cmd, <<a, b>>, at2)
  BY <1>3, <1>4, Zenon
<1> QED BY <1>5

LEMMA BeginsFive ==
  ASSUME NEW cmd \in Byte, NEW a \in Byte, NEW b \in Byte, NEW c \in Byte, NEW d \in Byte,
         NEW e \in Byte
  PROVE  \E at : Begins(Head5(cmd, a, b, c, d, e), cmd, <<a, b, c, d, e>>, at)
<1>1. PICK at2 : Begins(Head2(cmd, a, b), cmd, <<a, b>>, at2)
  BY BeginsTwo
<1>2. PICK at3 : Begins(Head2(cmd, a, b) \o Escape(c), cmd, Append(<<a, b>>, c), at3)
  BY <1>1, BeginsOn
<1>3. PICK at4 : Begins(Head2(cmd, a, b) \o Escape(c) \o Escape(d), cmd,
                        Append(Append(<<a, b>>, c), d), at4)
  BY <1>2, BeginsOn
<1>4. PICK at5 : Begins(Head5(cmd, a, b, c, d, e), cmd,
                        Append(Append(Append(<<a, b>>, c), d), e), at5)
  BY <1>3, BeginsOn DEF Head5
<1>5. /\ Append(<<a, b>>, c) = <<a, b, c>> /\ Append(<<a, b, c>>, d) = <<a, b, c, d>>
      /\ Append(<<a, b, c, d>>, e) = <<a, b, c, d, e>>
  BY TupleThree, TupleFour, TupleFive
<1>6. Begins(Head5(cmd, a, b, c, d, e), cmd, <<a, b, c, d, e>>, at5)
  BY <1>4, <1>5, Zenon
<1> QED BY <1>6

LEMMA StateIsFrame ==
  ASSUME NEW state \in {0, 1}, NEW s, s = <<0, state>>
  PROVE  \E at : IsFrame(StateFrame(state), StateCmd, s, at, Checksum(s))
<1>1. 0 \in Byte /\ state \in Byte /\ StateCmd \in Byte
  BY DEF Byte, StateCmd
<1>2. PICK v : v = Head2(StateCmd, 0, state)
  OBVIOUS
<1>3. PICK at : Begins(v, StateCmd, s, at)
  BY <1>1, <1>2, BeginsTwo
<1>4. StateFrame(state) = v \o <<Star, Checksum(s)>>
  BY <1>2, Zenon DEF StateFrame, Head2
<1>5. Len(s) <= 5 /\ Checksum(s) \in 128 .. 255
  BY CheckIsHigh
<1>6. IsFrame(StateFrame(state), StateCmd, s, at, Checksum(s))
  BY <1>3, <1>4, <1>5, Zenon DEF IsFrame
<1> QED BY <1>6

\* The frame of a point, its payload given byte by byte.
Framed(phase, a, b, c, d) ==
  Head5(PointCmd, phase, a, b, c, d) \o <<Star, Checksum(<<phase, a, b, c, d>>)>>

LEMMA PointFramed ==
  ASSUME NEW phase, NEW x, NEW y, NEW a, NEW b, NEW c, NEW d,
         a = x % 256, b = x \div 256, c = y % 256, d = y \div 256
  PROVE  PointFrame(phase, x, y) = Framed(phase, a, b, c, d)
<1>1. PointFrame(phase, x, y) = Framed(phase, x % 256, x \div 256, y % 256, y \div 256)
  BY Zenon DEF PointFrame, Framed, Head5, Head2
<1> QED BY <1>1, Zenon

LEMMA FramedIsFrame ==
  ASSUME NEW phase \in Byte, NEW a \in Byte, NEW b \in Byte, NEW c \in Byte, NEW d \in Byte,
         NEW s, s = <<phase, a, b, c, d>>
  PROVE  \E at : IsFrame(Framed(phase, a, b, c, d), PointCmd, s, at, Checksum(s))
<1>1. PICK v : v = Head5(PointCmd, phase, a, b, c, d)
  OBVIOUS
<1>2. PointCmd \in Byte
  BY DEF PointCmd, Byte
<1>3. PICK at : Begins(v, PointCmd, s, at)
  BY <1>1, <1>2, BeginsFive
<1>4. Framed(phase, a, b, c, d) = v \o <<Star, Checksum(s)>>
  BY <1>1, Zenon DEF Framed
<1>5. Len(s) <= 5 /\ Checksum(s) \in 128 .. 255
  BY CheckIsHigh
<1>6. IsFrame(Framed(phase, a, b, c, d), PointCmd, s, at, Checksum(s))
  BY <1>3, <1>4, <1>5, Zenon DEF IsFrame
<1> QED BY <1>6

\* The last byte of a sequence is another one.
LEMMA LastChanged ==
  ASSUME NEW v \in Seq(Byte), NEW c \in Byte, NEW e \in Byte
  PROVE  \A w : w = v \o <<Star, c>> => [w EXCEPT ![Len(w)] = e] = v \o <<Star, e>>
<1>1. PICK n, u, w, t : /\ n = Len(v) /\ u = v \o <<Star, e>>
                        /\ w = v \o <<Star, c>> /\ t = [w EXCEPT ![Len(w)] = e]
  OBVIOUS
<1>2. Star \in Byte
  BY DEF Star, Byte
<1>3. /\ w \in Seq(Byte) /\ Len(w) = n + 2 /\ \A i \in 1 .. n : w[i] = v[i]
      /\ w[n + 1] = Star
  BY <1>1, <1>2
<1>4. /\ u \in Seq(Byte) /\ Len(u) = n + 2 /\ \A i \in 1 .. n : u[i] = v[i]
      /\ u[n + 1] = Star /\ u[n + 2] = e
  BY <1>1, <1>2
<1>5. n \in Nat
  BY <1>1
<1>6. t \in Seq(Byte) /\ Len(t) = n + 2 /\ t[n + 2] = e /\ \A i \in 1 .. n + 1 : t[i] = w[i]
  <2>1. PICK m : m = n + 2
    OBVIOUS
  <2>2. m \in 1 .. m /\ \A i \in 1 .. n + 1 : i \in 1 .. m /\ i # m
    BY <1>5, <2>1
  <2>3. Len(w) = m /\ t = [w EXCEPT ![m] = e]
    BY <1>1, <1>3, <2>1
  <2>4. t \in Seq(Byte) /\ Len(t) = m /\ \A i \in 1 .. m : t[i] = IF i = m THEN e ELSE w[i]
    <3>2. DOMAIN w = 1 .. m
      BY <1>3, <2>3
    <3>3. \A i \in 1 .. m : t[i] = IF i = m THEN e ELSE w[i]
      BY <2>3, <3>2
    <3>4. DOMAIN t = 1 .. m
      BY <2>3, <3>2
    <3>5. \A i \in 1 .. m : w[i] \in Byte
      BY <1>3, <2>3
    <3>6. \A i \in 1 .. m : t[i] \in Byte
      BY <3>3, <3>5
    <3>7. t = [i \in 1 .. m |-> t[i]]
      BY <2>3, <3>2, <3>4
    <3>8. t \in [1 .. m -> Byte]
      BY <3>6, <3>7
    <3>9. m \in Nat
      BY <1>5, <2>1
    <3> QED BY <3>3, <3>8, <3>9
  <2> QED BY <2>1, <2>2, <2>4
<1>7. \A i \in 1 .. n + 2 : t[i] = u[i]
  <2>1. \A i \in 1 .. n + 2 : i \in 1 .. n \/ i = n + 1 \/ i = n + 2
    BY <1>5
  <2>2. \A i \in 1 .. n : i \in 1 .. n + 1
    BY <1>5
  <2>3. n + 1 \in 1 .. n + 1
    BY <1>5
  <2>4. \A i \in 1 .. n : t[i] = u[i]
    BY <1>3, <1>4, <1>6, <2>2
  <2>5. t[n + 1] = u[n + 1]
    BY <1>3, <1>4, <1>6, <2>3
  <2>6. t[n + 2] = u[n + 2]
    BY <1>4, <1>6
  <2> QED BY <2>1, <2>4, <2>5, <2>6
<1>8. t = u
  <2>1. Len(t) = Len(u) /\ \A i \in 1 .. Len(t) : t[i] = u[i]
    BY <1>4, <1>6, <1>7
  <2> QED BY <1>4, <1>6, <2>1, SeqEqual
<1> QED BY <1>1, <1>8

LEMMA DamagedFramed ==
  ASSUME NEW phase \in Byte, NEW a \in Byte, NEW b \in Byte, NEW c \in Byte, NEW d \in Byte,
         NEW s, s = <<phase, a, b, c, d>>
  PROVE  \E at, check : /\ check # Checksum(s)
                        /\ IsFrame(Damaged(Framed(phase, a, b, c, d)), PointCmd, s, at, check)
<1>1. PICK v, h : v = Head5(PointCmd, phase, a, b, c, d) /\ h = Checksum(s)
  OBVIOUS
<1>2. PointCmd \in Byte
  BY DEF PointCmd, Byte
<1>3. PICK at : Begins(v, PointCmd, s, at)
  BY <1>1, <1>2, BeginsFive
<1>4. PICK w : w = v \o <<Star, h>>
  OBVIOUS
<1>5. w = Framed(phase, a, b, c, d)
  BY <1>1, <1>4, Zenon DEF Framed
<1>6. h \in 128 .. 255
  BY <1>1, CheckIsHigh
<1>7. PICK check : check = 128 + ((h + 1) % 128)
  OBVIOUS
<1>8. check \in 128 .. 255 /\ check # h
  BY <1>6, <1>7
<1>9. h \in Byte /\ check \in Byte
  BY <1>6, <1>8 DEF Byte
<1>10. v \in Seq(Byte)
  BY <1>3 DEF Begins
<1>11. [w EXCEPT ![Len(w)] = check] = v \o <<Star, check>>
  BY <1>4, <1>9, <1>10, LastChanged
<1>12. w[Len(w)] = h
  <2>1. PICK t : t = <<Star, h>>
    OBVIOUS
  <2>2. t \in Seq(Byte) /\ Len(t) = 2 /\ t[2] = h
    BY <1>9, <2>1 DEF Star, Byte
  <2>3. w = v \o t
    BY <1>4, <2>1
  <2>4. Len(w) = Len(v) + Len(t) /\ \A i \in 1 .. Len(t) : w[Len(v) + i] = t[i]
    <3>1. w = v \o t /\ v \in Seq(Byte) /\ t \in Seq(Byte)
      BY <1>10, <2>2, <2>3
    <3> QED BY <3>1, Joined
  <2>5. 2 \in 1 .. Len(t)
    BY <2>2
  <2> QED BY <2>2, <2>4, <2>5
<1>13. Damaged(w) = v \o <<Star, check>>
  BY <1>7, <1>11, <1>12 DEF Damaged
<1>14. Len(s) <= 5
  OBVIOUS
<1>15. IsFrame(Damaged(w), PointCmd, s, at, check)
  BY <1>3, <1>8, <1>13, <1>14, Zenon DEF IsFrame
<1> QED BY <1>1, <1>5, <1>8, <1>15

\* Columns and rows, and the first that is not on the screen.
Coordinate == 0 .. 4095
Bound      == 0 .. 4096

\* The two bytes of a coordinate.
LEMMA TwoBytes ==
  ASSUME NEW x \in Bound
  PROVE  \E a, b : a \in Byte /\ b \in Byte /\ a = x % 256 /\ b = x \div 256 /\ Word(a, b) = x
<1>1. x % 256 \in 0 .. 255
  BY DEF Bound
<1>2. x \div 256 \in 0 .. 16
  BY DEF Bound
<1>3. (x % 256) + 256 * (x \div 256) = x
  BY DEF Bound
<1>4. PICK a, b : a = x % 256 /\ b = x \div 256
  OBVIOUS
<1>5. a \in Byte
  BY <1>1, <1>4 DEF Byte
<1>6. b \in 0 .. 255
  BY <1>2, <1>4
<1>7. b \in Byte
  BY <1>6 DEF Byte
<1>8. Word(a, b) = x
  BY <1>3, <1>4 DEF Word
<1> QED BY <1>4, <1>5, <1>7, <1>8

-----------------------------------------------------------------------------
(* The effects of the panel's reports.                                     *)

PointEffect(phase, x, y) ==
  IF x >= RawWidth \/ y >= RawHeight THEN Nothing
  ELSE IF phase = 0                  THEN Lifting
  ELSE IF phase \in {16, 32}         THEN Effect("mark", [x |-> x, y |-> y])
  ELSE Nothing

LEMMA FramedEffect ==
  ASSUME NEW phase \in Byte, NEW a \in Byte, NEW b \in Byte, NEW c \in Byte, NEW d \in Byte,
         NEW s, s = <<phase, a, b, c, d>>, NEW x, NEW y, Word(a, b) = x, Word(c, d) = y
  PROVE  StockEffect(PointCmd, s, Checksum(s)) = PointEffect(phase, x, y)
<1>1. Len(s) = 5 /\ s[1] = phase /\ s[2] = a /\ s[3] = b /\ s[4] = c /\ s[5] = d
  OBVIOUS
<1>3. PICK p : p = [x |-> x, y |-> y]
  OBVIOUS
<1>4. p = [x |-> Word(s[2], s[3]), y |-> Word(s[4], s[5])] /\ p.x = x /\ p.y = y
  BY <1>1, <1>3
<1>5. StockEffect(PointCmd, s, Checksum(s)) =
        IF p.x >= RawWidth \/ p.y >= RawHeight THEN Nothing
        ELSE IF s[1] = 0                       THEN Lifting
        ELSE IF s[1] \in {16, 32}              THEN Effect("mark", p)
        ELSE Nothing
  BY <1>1, <1>4, Zenon DEF StockEffect
<1> QED BY <1>1, <1>3, <1>4, <1>5, Zenon DEF PointEffect

\* A point's frame and its effect.
LEMMA PointIsFrame ==
  ASSUME NEW phase \in Byte, NEW x \in Bound, NEW y \in Bound
  PROVE  \E s, at :
           /\ IsFrame(PointFrame(phase, x, y), PointCmd, s, at, Checksum(s))
           /\ StockEffect(PointCmd, s, Checksum(s)) = PointEffect(phase, x, y)
<1>1. PICK a, b : /\ a \in Byte /\ b \in Byte
                  /\ a = x % 256 /\ b = x \div 256 /\ Word(a, b) = x
  BY TwoBytes
<1>2. PICK c, d : /\ c \in Byte /\ d \in Byte
                  /\ c = y % 256 /\ d = y \div 256 /\ Word(c, d) = y
  BY TwoBytes
<1>3. PICK s : s = <<phase, a, b, c, d>>
  BY Zenon
<1>4. PICK w : w = PointFrame(phase, x, y)
  BY Zenon
<1>5. w = Framed(phase, a, b, c, d)
  BY <1>1, <1>2, <1>4, PointFramed
<1>6. PICK at : IsFrame(w, PointCmd, s, at, Checksum(s))
  BY <1>1, <1>2, <1>3, <1>5, FramedIsFrame
<1>7. StockEffect(PointCmd, s, Checksum(s)) = PointEffect(phase, x, y)
  BY <1>1, <1>2, <1>3, FramedEffect
<1> QED BY <1>4, <1>6, <1>7, Zenon

LEMMA DamagedIsFrame ==
  ASSUME NEW phase \in Byte, NEW x \in Bound, NEW y \in Bound
  PROVE  \E s, at, check : /\ check # Checksum(s)
                           /\ IsFrame(Damaged(PointFrame(phase, x, y)), PointCmd, s, at, check)
<1>1. PICK a, b : /\ a \in Byte /\ b \in Byte
                  /\ a = x % 256 /\ b = x \div 256 /\ Word(a, b) = x
  BY TwoBytes
<1>2. PICK c, d : /\ c \in Byte /\ d \in Byte
                  /\ c = y % 256 /\ d = y \div 256 /\ Word(c, d) = y
  BY TwoBytes
<1>3. PICK s : s = <<phase, a, b, c, d>>
  BY Zenon
<1>4. PointFrame(phase, x, y) = Framed(phase, a, b, c, d)
  BY <1>1, <1>2, PointFramed
<1>6. a \in Byte /\ b \in Byte /\ c \in Byte /\ d \in Byte /\ s = <<phase, a, b, c, d>>
  BY <1>1, <1>2, <1>3
<1>5. PICK at, check : /\ check # Checksum(s)
                       /\ IsFrame(Damaged(Framed(phase, a, b, c, d)), PointCmd, s, at, check)
  BY <1>6, DamagedFramed
<1> QED BY <1>4, <1>5, Zenon

LEMMA StateEffect ==
  ASSUME NEW state \in {0, 1}, NEW s, s = <<0, state>>
  PROVE  StockEffect(StateCmd, s, Checksum(s)) = IF state = 0 THEN Lifting ELSE Nothing
<1>1. Len(s) = 2 /\ s[2] = state /\ StateCmd # PointCmd
  BY DEF StateCmd, PointCmd
<1> QED BY <1>1 DEF StockEffect

LEMMA WrongCheck ==
  ASSUME NEW cmd, NEW s, NEW check, check # Checksum(s)
  PROVE  StockEffect(cmd, s, check) = Nothing
BY Zenon DEF StockEffect

\* What a point, a release and a report that tells nothing lead to.
LEMMA LeadsFacts ==
  ASSUME NEW n, NEW d \in BOOLEAN
  PROVE  /\ \A x, y, m : x = m /\ y \in Rows /\ m = (IF d THEN n ELSE n + 1)
                         => Leads(Effect("mark", [x |-> x, y |-> y]), n, d, m, TRUE)
         /\ d => Leads(Lifting, n, d, n, FALSE)
         /\ Leads(Nothing, n, d, n, d)
<1>1. Leads(Nothing, n, d, n, d)
  BY DEF Leads, Nothing, Effect
<1>2. d => Leads(Lifting, n, d, n, FALSE)
  BY DEF Leads, Lifting, Effect
<1>3. ASSUME NEW x, NEW y, NEW m, x = m, y \in Rows, m = (IF d THEN n ELSE n + 1)
      PROVE  Leads(Effect("mark", [x |-> x, y |-> y]), n, d, m, TRUE)
  BY <1>3 DEF Leads, Effect
<1> QED BY <1>1, <1>2, <1>3

\* Nothing to come: the finger is as it was.
LEMMA NothingLeads ==
  ASSUME NEW n, NEW d, NEW m, NEW c, Leads(Nothing, n, d, m, c)
  PROVE  n = m /\ d = c
BY DEF Leads, Nothing, Effect

-----------------------------------------------------------------------------
(* A report of the panel is a frame or a raw report, and leads the finger  *)
(* that is seen to the one the panel sees.                                 *)

StockReported ==
  \E cmd, s, at, check : /\ IsFrame(rest', cmd, s, at, check)
                         /\ Leads(StockEffect(cmd, s, check), contact, down, contact', down')

RawReported ==
  \E type, s : /\ IsReport(rest', type, s)
               /\ Leads(RawEffect(type, s), contact, down, contact', down')

LEMMA ColumnOnScreen ==
  ASSUME NEW x \in 1 .. MaxContacts
  PROVE  x \in Coordinate /\ x \in Bound /\ ~(x >= RawWidth)
<1>1. /\ MaxContacts \in 1 .. RawWidth - 1 /\ RawWidth \in Nat /\ RawWidth <= 4096
  BY TouchConstants
<1>2. x \in Nat /\ x < RawWidth
  BY <1>1
<1> QED BY <1>1, <1>2 DEF Coordinate, Bound

LEMMA RowOnScreen ==
  ASSUME NEW y \in Rows
  PROVE  y \in Coordinate /\ y \in Bound /\ ~(y >= RawHeight)
<1>1. y \in 0 .. RawHeight - 1 /\ RawHeight \in 1 .. 4096
  BY TouchConstants
<1> QED BY <1>1 DEF Coordinate, Bound

LEMMA StockPoint ==
  ASSUME contact \in Nat, down \in BOOLEAN, "raw" \notin speaks,
         contact' \in 1 .. MaxContacts, contact' = (IF down THEN contact ELSE contact + 1), down',
         NEW y \in Rows, rest' \in PointReports(contact', y)
  PROVE  StockReported
<1>1. PICK phase \in {16, 32} : rest' = PointFrame(phase, contact', y)
  BY DEF PointReports
<1>2. PICK x : x = contact'
  OBVIOUS
<1>3. phase \in Byte /\ phase # 0
  BY <1>1 DEF Byte
<1>4. x \in Bound /\ ~(x >= RawWidth) /\ y \in Bound /\ ~(y >= RawHeight)
  BY <1>2, ColumnOnScreen, RowOnScreen
<1>5. PICK s, at : /\ IsFrame(PointFrame(phase, x, y), PointCmd, s, at, Checksum(s))
                   /\ StockEffect(PointCmd, s, Checksum(s)) = PointEffect(phase, x, y)
  BY <1>3, <1>4, PointIsFrame
<1>6. StockEffect(PointCmd, s, Checksum(s)) = Effect("mark", [x |-> x, y |-> y])
  BY <1>1, <1>3, <1>4, <1>5, Zenon DEF PointEffect
<1>7. down' = TRUE
  OBVIOUS
<1>8. Leads(Effect("mark", [x |-> x, y |-> y]), contact, down, contact', down')
  BY <1>2, <1>7, LeadsFacts
<1>9. IsFrame(rest', PointCmd, s, at, Checksum(s))
  BY <1>1, <1>2, <1>5
<1> QED BY <1>6, <1>8, <1>9 DEF StockReported

LEMMA StockLift ==
  ASSUME "raw" \notin speaks, down = TRUE, down' = FALSE, contact' = contact,
         rest' \in ReleaseReports
  PROVE  StockReported
<1>1. \/ rest' = PointFrame(0, 1, 0) \/ rest' = StateFrame(0)
  BY DEF ReleaseReports
<1>2. Leads(Lifting, contact, down, contact', down')
  BY LeadsFacts
<1>3. CASE rest' = PointFrame(0, 1, 0)
  <2>1. /\ 0 \in Byte /\ 1 \in Bound /\ 0 \in Bound
        /\ ~(1 >= RawWidth) /\ ~(0 >= RawHeight)
    BY TouchConstants DEF Byte, Bound
  <2>2. PICK s, at : /\ IsFrame(PointFrame(0, 1, 0), PointCmd, s, at, Checksum(s))
                     /\ StockEffect(PointCmd, s, Checksum(s)) = PointEffect(0, 1, 0)
    BY <2>1, PointIsFrame
  <2>3. StockEffect(PointCmd, s, Checksum(s)) = Lifting
    BY <2>1, <2>2, Zenon DEF PointEffect
  <2> QED BY <1>2, <1>3, <2>2, <2>3 DEF StockReported
<1>4. CASE rest' = StateFrame(0)
  <2>1. PICK s : s = <<0, 0>>
    OBVIOUS
  <2>2. PICK at : IsFrame(rest', StateCmd, s, at, Checksum(s))
    BY <1>4, <2>1, StateIsFrame
  <2>3. StockEffect(StateCmd, s, Checksum(s)) = Lifting
    BY <2>1, StateEffect
  <2> QED BY <1>2, <2>2, <2>3 DEF StockReported
<1> QED BY <1>1, <1>3, <1>4

LEMMA StockOther ==
  ASSUME "raw" \notin speaks, down \in BOOLEAN, down' = down, contact' = contact,
         rest' \in OtherReports
  PROVE  StockReported
<1>1. \/ rest' = StateFrame(1) \/ rest' = Damaged(PointFrame(16, 5, 9))
      \/ rest' = PointFrame(16, RawWidth, 0)
  BY DEF OtherReports
<1>2. Leads(Nothing, contact, down, contact', down')
  BY LeadsFacts
<1>3. CASE rest' = StateFrame(1)
  <2>1. PICK s : s = <<0, 1>>
    OBVIOUS
  <2>2. PICK at : IsFrame(rest', StateCmd, s, at, Checksum(s))
    BY <1>3, <2>1, StateIsFrame
  <2>3. StockEffect(StateCmd, s, Checksum(s)) = Nothing
    BY <2>1, StateEffect
  <2> QED BY <1>2, <2>2, <2>3 DEF StockReported
<1>4. CASE rest' = Damaged(PointFrame(16, 5, 9))
  <2>1. 16 \in Byte /\ 5 \in Bound /\ 9 \in Bound
    BY DEF Byte, Bound
  <2>2. PICK s, at, check : check # Checksum(s) /\ IsFrame(rest', PointCmd, s, at, check)
    BY <1>4, <2>1, DamagedIsFrame
  <2>3. StockEffect(PointCmd, s, check) = Nothing
    BY <2>2, WrongCheck
  <2> QED BY <1>2, <2>2, <2>3 DEF StockReported
<1>5. CASE rest' = PointFrame(16, RawWidth, 0)
  <2>1. PICK x : x = RawWidth
    OBVIOUS
  <2>2. 0 \in Bound /\ 16 \in Byte /\ x \in Bound /\ x >= RawWidth
    BY <2>1, TouchConstants DEF Byte, Bound
  <2>3. PICK s, at : /\ IsFrame(PointFrame(16, x, 0), PointCmd, s, at, Checksum(s))
                     /\ StockEffect(PointCmd, s, Checksum(s)) = PointEffect(16, x, 0)
    BY <2>2, PointIsFrame
  <2>4. StockEffect(PointCmd, s, Checksum(s)) = Nothing
    BY <2>2, <2>3, Zenon DEF PointEffect
  <2>5. IsFrame(rest', PointCmd, s, at, Checksum(s))
    BY <1>5, <2>1, <2>3
  <2> QED BY <1>2, <2>4, <2>5 DEF StockReported
<1> QED BY <1>1, <1>3, <1>4, <1>5

\* A finger that is down has a column.
Fingers == contact \in 0 .. MaxContacts /\ down \in BOOLEAN /\ (down => contact > 0)

LEMMA FingerMoves ==
  ASSUME Fingers, Press \/ Move \/ Lift \/ Other
  PROVE  /\ contact \in Nat
         /\ \/ /\ contact' \in 1 .. MaxContacts /\ down' = TRUE
               /\ contact' = (IF down THEN contact ELSE contact + 1)
               /\ \E y \in Rows : rest' \in PointReports(contact', y)
            \/ down = TRUE /\ down' = FALSE /\ contact' = contact /\ rest' \in ReleaseReports
            \/ down' = down /\ contact' = contact /\ rest' \in OtherReports
<1>1. contact \in Nat /\ MaxContacts \in Nat
  BY TouchConstants DEF Fingers
<1>2. CASE Press
  <2>1. /\ down = FALSE /\ contact < MaxContacts /\ down' = TRUE /\ contact' = contact + 1
        /\ rest' \in UNION {PointReports(contact + 1, y) : y \in Rows}
    BY <1>2 DEF Press, Report, Fingers
  <2>2. \E y \in Rows : rest' \in PointReports(contact', y)
    BY <2>1
  <2>3. contact' \in 1 .. MaxContacts
    BY <1>1, <2>1
  <2> QED BY <1>1, <2>1, <2>2, <2>3
<1>3. CASE Move
  <2>1. /\ down = TRUE /\ down' = TRUE /\ contact' = contact
        /\ rest' \in UNION {PointReports(contact, y) : y \in Rows}
    BY <1>3 DEF Move, Report, Fingers
  <2>2. \E y \in Rows : rest' \in PointReports(contact', y)
    BY <2>1
  <2>3. contact' \in 1 .. MaxContacts
    BY <2>1 DEF Fingers
  <2> QED BY <1>1, <2>1, <2>2, <2>3
<1>4. CASE Lift
  BY <1>1, <1>4 DEF Lift, Report, Fingers
<1>5. CASE Other
  BY <1>1, <1>5 DEF Other, Report
<1> QED BY <1>2, <1>3, <1>4, <1>5

LEMMA StockReport ==
  ASSUME Fingers, "raw" \notin speaks, Press \/ Move \/ Lift \/ Other
  PROVE  StockReported
<1>1. contact \in Nat /\ down \in BOOLEAN
  BY FingerMoves DEF Fingers
<1>2. CASE /\ contact' \in 1 .. MaxContacts /\ down' = TRUE
           /\ contact' = (IF down THEN contact ELSE contact + 1)
           /\ \E y \in Rows : rest' \in PointReports(contact', y)
  BY <1>1, <1>2, StockPoint
<1>3. CASE down = TRUE /\ down' = FALSE /\ contact' = contact /\ rest' \in ReleaseReports
  BY <1>3, StockLift
<1>4. CASE down' = down /\ contact' = contact /\ rest' \in OtherReports
  BY <1>1, <1>4, StockOther
<1> QED BY <1>2, <1>3, <1>4, FingerMoves

LEMMA PairAndThree ==
  ASSUME NEW a \in Byte, NEW b \in Byte, NEW c \in Byte, NEW d \in Byte, NEW e \in Byte
  PROVE  <<a, b>> \o <<c, d, e>> = <<a, b, c, d, e>>
<1>1. PICK s, t, u, w : /\ s = <<a, b>> /\ t = <<c, d, e>>
                        /\ u = <<a, b, c, d, e>> /\ w = s \o t
  OBVIOUS
<1>2. s \in Seq(Byte) /\ Len(s) = 2 /\ s[1] = a /\ s[2] = b
  BY <1>1
<1>3. t \in Seq(Byte) /\ Len(t) = 3 /\ t[1] = c /\ t[2] = d /\ t[3] = e
  BY <1>1
<1>4. /\ u \in Seq(Byte) /\ Len(u) = 5
      /\ u[1] = a /\ u[2] = b /\ u[3] = c /\ u[4] = d /\ u[5] = e
  BY <1>1
<1>5. /\ w \in Seq(Byte) /\ Len(w) = Len(s) + Len(t)
      /\ \A i \in 1 .. Len(s) : w[i] = s[i]
      /\ \A i \in 1 .. Len(t) : w[Len(s) + i] = t[i]
  <2>1. w = s \o t /\ s \in Seq(Byte) /\ t \in Seq(Byte)
    BY <1>1, <1>2, <1>3
  <2> QED BY <2>1, Joined
<1>6. Len(w) = 5 /\ w[1] = a /\ w[2] = b /\ w[2 + 1] = c /\ w[2 + 2] = d /\ w[2 + 3] = e
  BY <1>2, <1>3, <1>5
<1>7. Len(w) = Len(u) /\ \A i \in 1 .. Len(w) : w[i] = u[i]
  BY <1>4, <1>6
<1>8. w = u
  BY <1>4, <1>5, <1>7, SeqEqual
<1> QED BY <1>1, <1>8

LEMMA ThreeBytes ==
  ASSUME NEW type \in RawTypes, NEW a \in Byte, NEW b \in Byte, NEW c \in Byte,
         a # Star, b # Star, c # Star
  PROVE  IsReport(<<Star, type, a, b, c>>, type, <<a, b, c>>)
<1>1. PICK w, s : w = <<Star, type, a, b, c>> /\ s = <<a, b, c>>
  OBVIOUS
<1>2. Star \in Byte /\ type \in Byte
  BY DEF Star, Byte, RawTypes
<1>3. /\ w \in Seq(Byte) /\ Len(w) = 5 /\ w[1] = Star /\ w[2] = type
      /\ w[3] = a /\ w[4] = b /\ w[5] = c
  BY <1>1, <1>2
<1>4. s \in Seq(Byte) /\ Len(s) = 3 /\ s[1] = a /\ s[2] = b /\ s[3] = c
  BY <1>1
<1>5. Len(s) <= 3 /\ Len(w) = Len(s) + 2
  BY <1>3, <1>4
<1>6. \A i \in 1 .. Len(s) : s[i] # Star
  BY <1>4
<1>7. \A i \in 1 .. Len(s) : w[i + 2] = s[i]
  BY <1>3, <1>4
<1>8. IsReport(w, type, s)
  BY <1>3, <1>4, <1>5, <1>6, <1>7, Zenon DEF IsReport
<1> QED BY <1>1, <1>8

\* The three bytes of a raw point, and the point in them.
LEMMA RawBytes ==
  ASSUME NEW x \in Coordinate, NEW y \in Coordinate
  PROVE  \E a, b, c \in Byte :
           /\ PointBytes(x, y) = <<a, b, c>>
           /\ 16 * a + b \div 16 = x /\ 256 * (b % 16) + c = y
<1>1. PICK a, r, u, c : /\ a = x \div 16 /\ r = x % 16 /\ u = y \div 256 /\ c = y % 256
  OBVIOUS
<1>2. a \in 0 .. 255 /\ r \in 0 .. 15 /\ 16 * a + r = x
  <2>1. x \in Nat /\ x <= 4095
    BY DEF Coordinate
  <2>2. a \in Nat /\ r \in 0 .. 15 /\ 16 * a + r = x
    BY <1>1, <2>1
  <2> QED BY <2>1, <2>2
<1>3. u \in 0 .. 15 /\ c \in 0 .. 255 /\ 256 * u + c = y
  <2>1. y \in Nat /\ y <= 4095
    BY DEF Coordinate
  <2>2. u \in Nat /\ c \in 0 .. 255 /\ 256 * u + c = y
    BY <1>1, <2>1
  <2> QED BY <2>1, <2>2
<1>4. PICK b : b = 16 * r + u
  OBVIOUS
<1>5. b \in 0 .. 255 /\ b \div 16 = r /\ b % 16 = u
  BY <1>2, <1>3, <1>4
<1>6. a \in Byte /\ b \in Byte /\ c \in Byte
  BY <1>2, <1>3, <1>5 DEF Byte
<1>7. 16 * a + b \div 16 = x /\ 256 * (b % 16) + c = y
  BY <1>2, <1>3, <1>5
<1>8. PointBytes(x, y) = <<a, b, c>>
  BY <1>1, <1>4, Zenon DEF PointBytes
<1> QED BY <1>6, <1>7, <1>8

LEMMA RawPoint ==
  ASSUME contact \in Nat, down \in BOOLEAN, "stock" \notin speaks,
         contact' \in 1 .. MaxContacts, contact' = (IF down THEN contact ELSE contact + 1), down',
         NEW y \in Rows, rest' \in PointReports(contact', y)
  PROVE  RawReported
<1>1. PICK x : x = contact'
  OBVIOUS
<1>2. PICK type \in {65, 129} : /\ rest' = <<Star, type>> \o PointBytes(x, y)
                                /\ \A i \in 1 .. 3 : PointBytes(x, y)[i] # Star
  BY <1>1 DEF PointReports
<1>3. x \in Coordinate /\ y \in Coordinate
  BY <1>1, ColumnOnScreen, RowOnScreen
<1>4. PICK a, b, c \in Byte : /\ PointBytes(x, y) = <<a, b, c>>
                              /\ 16 * a + b \div 16 = x /\ 256 * (b % 16) + c = y
  BY <1>3, RawBytes
<1>5. PICK s : s = <<a, b, c>>
  OBVIOUS
<1>6. Len(s) = 3 /\ s[1] = a /\ s[2] = b /\ s[3] = c
  BY <1>5
<1>7. a # Star /\ b # Star /\ c # Star
  <2>1. \A i \in 1 .. 3 : s[i] # Star
    BY <1>2, <1>4, <1>5
  <2> QED BY <1>6, <2>1
<1>9. type \in RawTypes
  BY <1>2 DEF RawTypes
<1>8. rest' = <<Star, type, a, b, c>>
  <2>1. Star \in Byte /\ type \in Byte
    BY <1>2 DEF Star, Byte
  <2>2. <<Star, type>> \o <<a, b, c>> = <<Star, type, a, b, c>>
    BY <1>4, <2>1, PairAndThree
  <2> QED BY <1>2, <1>4, <2>2
<1>10. IsReport(rest', type, s)
  BY <1>5, <1>7, <1>8, <1>9, ThreeBytes
<1>11. RawEffect(type, s) = Effect("mark", [x |-> x, y |-> y])
  <2>1. 16 * s[1] + s[2] \div 16 = x /\ 256 * (s[2] % 16) + s[3] = y
    BY <1>4, <1>6
  <2>2. Len(s) >= 3
    BY <1>6
  <2> QED BY <1>2, <2>1, <2>2, Zenon DEF RawEffect
<1>12. down' = TRUE
  OBVIOUS
<1>13. Leads(Effect("mark", [x |-> x, y |-> y]), contact, down, contact', down')
  BY <1>1, <1>12, LeadsFacts
<1> QED BY <1>10, <1>11, <1>13 DEF RawReported

LEMMA RawLift ==
  ASSUME "stock" \notin speaks, down = TRUE, down' = FALSE, contact' = contact,
         rest' \in ReleaseReports
  PROVE  RawReported
<1>1. rest' = <<Star, 1>>
  BY DEF ReleaseReports
<1>2. IsReport(<<Star, 1>>, 1, <<>>)
  BY DEF IsReport, RawTypes, Star, Byte
<1>3. RawEffect(1, <<>>) = Lifting
  BY DEF RawEffect
<1>4. Leads(Lifting, contact, down, contact', down')
  BY LeadsFacts
<1> QED BY <1>1, <1>2, <1>3, <1>4 DEF RawReported

LEMMA RawOther ==
  ASSUME "stock" \notin speaks, down \in BOOLEAN, down' = down, contact' = contact,
         rest' \in OtherReports
  PROVE  RawReported
<1>1. rest' = <<Star, 225, 3>>
  BY DEF OtherReports
<1>2. IsReport(<<Star, 225, 3>>, 225, <<3>>)
  BY DEF IsReport, RawTypes, Star, Byte
<1>3. RawEffect(225, <<3>>) = Nothing
  BY DEF RawEffect
<1>4. Leads(Nothing, contact, down, contact', down')
  BY LeadsFacts
<1> QED BY <1>1, <1>2, <1>3, <1>4 DEF RawReported

LEMMA RawReport ==
  ASSUME Fingers, "stock" \notin speaks, Press \/ Move \/ Lift \/ Other
  PROVE  RawReported
<1>1. contact \in Nat /\ down \in BOOLEAN
  BY FingerMoves DEF Fingers
<1>2. CASE /\ contact' \in 1 .. MaxContacts /\ down' = TRUE
           /\ contact' = (IF down THEN contact ELSE contact + 1)
           /\ \E y \in Rows : rest' \in PointReports(contact', y)
  BY <1>1, <1>2, RawPoint
<1>3. CASE down = TRUE /\ down' = FALSE /\ contact' = contact /\ rest' \in ReleaseReports
  BY <1>3, RawLift
<1>4. CASE down' = down /\ contact' = contact /\ rest' \in OtherReports
  BY <1>1, <1>4, RawOther
<1> QED BY <1>2, <1>3, <1>4, FingerMoves

-----------------------------------------------------------------------------
(* The invariant.                                                          *)

\* A finger of the app's that has a column, and one it leads to.
LEMMA LeadsOn ==
  ASSUME NEW n \in Nat, NEW d \in BOOLEAN, d => n > 0, NEW e, NEW m, NEW c, Leads(e, n, d, m, c)
  PROVE  m \in Nat /\ n <= m /\ (c \in BOOLEAN => (c => m > 0))
<1>1. CASE m = n /\ (c = d \/ ~c)
  BY <1>1
<1>2. CASE c /\ m = (IF d THEN n ELSE n + 1)
  BY <1>2
<1> QED BY <1>1, <1>2, Zenon DEF Leads

LEMMA SeenHasColumn ==
  ASSUME NEW a, NEW n, NEW d, Seen(a, n, d)
  PROVE  d => n > 0
BY Zenon DEF Seen, Tapped

\* The reports on the line and in the decoders, when the line is empty.
LEMMA StockAtRest ==
  ASSUME NEW e, StockCarries(e), rest = <<>>
  PROVE  e = Nothing /\ stock = Idle /\ raw = Empty /\ star = FALSE
<1>1. ASSUME NEW w, NEW cmd, NEW s, NEW at, NEW check, NEW k,
             IsFrame(w, cmd, s, at, check), k \in 0 .. Len(w) - 1, OnLine(rest, w, k)
      PROVE  FALSE
  <2>1. w \in Seq(Byte)
    BY <1>1, FrameFacts
  <2> QED BY <1>1, <2>1, LineStep
<1>2. rest = <<>> /\ stock = Idle /\ star = FALSE /\ e = Nothing
  BY <1>1, Zenon DEF StockCarries, StockLine
<1> QED BY <1>2, Zenon DEF StockCarries

\* Nothing but the effect of the last report is to come.
RawHeld(e) == stock = Idle /\ Holds(raw, star, e, FALSE)

LEMMA RawAtRest ==
  ASSUME NEW e, NEW f, RawCarries(e, f), rest = <<>>
  PROVE  f = Nothing /\ RawHeld(e)
<1>1. ASSUME NEW w, NEW type, NEW s, NEW k,
             IsReport(w, type, s), k \in 0 .. Len(w) - 1, OnLine(rest, w, k)
      PROVE  FALSE
  <2>1. w \in Seq(Byte)
    BY <1>1, ReportFacts
  <2> QED BY <1>1, <2>1, LineStep
<1> QED BY <1>1, Zenon DEF RawCarries, RawLine, RawHeld

\* A report begins.
LEMMA WholeLine ==
  ASSUME NEW w \in Seq(Byte)
  PROVE  OnLine(w, w, 0)
BY DEF OnLine

LEMMA FrameHasHead ==
  ASSUME NEW w, NEW cmd, NEW s, NEW at, NEW check, IsFrame(w, cmd, s, at, check)
  PROVE  w \in Seq(Byte) /\ Len(w) >= 4
<1>1. /\ w \in Seq(Byte) /\ Len(w) \in Nat /\ Len(s) \in 0 .. 5 /\ at[1] = 3
      /\ \A i \in 1 .. Len(s) + 1 : at[i] \in 3 .. Len(w) - 1
  BY FrameFacts
<1>2. 1 \in 1 .. Len(s) + 1
  BY <1>1
<1>3. 3 \in 3 .. Len(w) - 1
  BY <1>1, <1>2
<1> QED BY <1>1, <1>3

LEMMA StockStarts ==
  ASSUME NEW e, StockCarries(e), rest = <<>>, StockReported,
         UNCHANGED <<stock, raw, star>>
  PROVE  \E g : StockCarries(g)' /\ Leads(g, contact, down, contact', down')
<1>1. stock' = Idle /\ raw' = Empty /\ star' = FALSE
  BY StockAtRest
<1>2. PICK cmd, s, at, check : /\ IsFrame(rest', cmd, s, at, check)
                               /\ Leads(StockEffect(cmd, s, check), contact, down, contact', down')
  BY DEF StockReported
<1>3. PICK w, g : w = rest' /\ g = StockEffect(cmd, s, check)
  OBVIOUS
<1>4. w \in Seq(Byte) /\ Len(w) >= 4
  BY <1>2, <1>3, FrameHasHead
<1>6. 0 \in 0 .. Len(w) - 1 /\ 0 <= 1 /\ 0 # 1
  BY <1>4
<1>7. Parsed(stock', cmd, s, at, 0) /\ star' = (0 = 1)
  BY <1>1, <1>6, Zenon DEF Parsed
<1>10. IsFrame(w, cmd, s, at, check) /\ OnLine(rest', w, 0)
  <2>1. OnLine(w, w, 0)
    BY <1>4, WholeLine
  <2> QED BY <1>2, <1>3, <2>1
<1>8. StockLine(stock', rest', star', g)
  <2>1. PICK k : k = 0
    OBVIOUS
  <2>2. /\ IsFrame(w, cmd, s, at, check) /\ g = StockEffect(cmd, s, check)
        /\ k \in 0 .. Len(w) - 1 /\ OnLine(rest', w, k) /\ Parsed(stock', cmd, s, at, k)
    BY <1>3, <1>6, <1>7, <1>10, <2>1
  <2>3. star' = (k = 1)
    BY <1>7, <2>1, Zenon
  <2> QED BY <2>2, <2>3 DEF StockLine
<1>9. StockCarries(g)'
  BY <1>1, <1>8 DEF StockCarries
<1> QED BY <1>2, <1>3, <1>9

LEMMA RawStarts ==
  ASSUME NEW e, NEW f, RawCarries(e, f), rest = <<>>, RawReported,
         UNCHANGED <<stock, raw, star>>
  PROVE  \E g : RawCarries(e, g)' /\ Leads(g, contact, down, contact', down')
<1>1. stock' = Idle /\ Holds(raw', star', e, FALSE)
  BY RawAtRest DEF RawHeld
<1>2. PICK type, s : /\ IsReport(rest', type, s)
                     /\ Leads(RawEffect(type, s), contact, down, contact', down')
  BY DEF RawReported
<1>3. PICK w, g : w = rest' /\ g = RawEffect(type, s)
  OBVIOUS
<1>4. w \in Seq(Byte) /\ Len(w) = Len(s) + 2 /\ s \in Seq(Byte)
  BY <1>2, <1>3, ReportFacts
<1>6. 0 \in 0 .. Len(w) - 1 /\ 0 <= 1 /\ 0 # 1
  BY <1>4
<1>7. Holds(raw', star', e, 0 = 1)
  BY <1>1, <1>6, Zenon
<1>8. RawLine(raw', rest', star', e, g)
  BY <1>2, <1>3, <1>4, <1>6, <1>7, WholeLine, Zenon DEF RawLine
<1>9. RawCarries(e, g)'
  BY <1>1, <1>8 DEF RawCarries
<1> QED BY <1>2, <1>3, <1>9

\* Nothing the decoders hold has moved.
LEMMA CarriesStays ==
  ASSUME UNCHANGED <<stock, raw, star, rest>>
  PROVE  /\ \A e : StockCarries(e) => StockCarries(e)'
         /\ \A e, f : RawCarries(e, f) => RawCarries(e, f)'
BY DEF StockCarries, RawCarries

LEMMA SeenUnchanged ==
  ASSUME NEW n, NEW d, Seen(app, n, d), app' = app, speaks' = speaks
  PROVE  Seen(app, n, d)'
<1>1. PICK b : b = app'
  OBVIOUS
<1>2. Seen(b, n, d)
  BY <1>1
<1> QED BY <1>1, <1>2, SeenStays

\* The keys of the console and the steps that change nothing.
LEMMA KeysKeep ==
  ASSUME NEW n \in Nat, NEW d \in BOOLEAN, Seen(app, n, d), contact \in Nat,
         Clear \/ Calibrate \/ UNCHANGED vars
  PROVE  Seen(app, n, d)' /\ UNCHANGED <<stock, raw, star, contact, down, speaks, rest>>
<1>1. CASE Clear
  BY <1>1, SeenClear DEF Clear
<1>2. CASE Calibrate
  BY <1>2, SeenCalibrate DEF Calibrate
<1>3. CASE UNCHANGED vars
  <2>1. app' = app /\ speaks' = speaks
    BY <1>3 DEF vars
  <2> QED BY <1>3, <2>1, SeenUnchanged DEF vars
<1> QED BY <1>1, <1>2, <1>3

\* What is seen after a report took effect.
LEMMA SeenApplied ==
  ASSUME NEW n \in Nat, NEW d \in BOOLEAN, Seen(app, n, d), NEW e, NEW m, NEW c \in BOOLEAN,
         Leads(e, n, d, m, c), contact \in Nat, speaks = {"stock"} => contact = m,
         app' = Apply(app, e), speaks' = speaks
  PROVE  m \in Nat /\ Seen(app, m, c)'
<1>1. PICK b : b = Apply(app, e)
  OBVIOUS
<1>2. m \in Nat /\ Seen(b, m, c)
  BY <1>1, SeenLeads
<1>3. b = app'
  BY <1>1
<1>4. Seen(app, m, c)'
  BY <1>2, <1>3, SeenStays
<1> QED BY <1>2, <1>4

LEMMA StockStep ==
  ASSUME Panel, StockInv, "raw" \notin speaks, [Next]_vars
  PROVE  StockInv'
<1>0. PICK n \in Nat, d \in BOOLEAN : \E e :
        Seen(app, n, d) /\ Leads(e, n, d, contact, down) /\ StockCarries(e)
  BY Zenon DEF StockInv
<1>1. PICK e : Seen(app, n, d) /\ Leads(e, n, d, contact, down) /\ StockCarries(e)
  BY <1>0, Zenon
<1>2. contact \in Nat /\ down \in BOOLEAN
  BY TouchConstants DEF Panel
<1>3. CASE Clear \/ Calibrate \/ UNCHANGED vars
  <2>1. Seen(app, n, d)' /\ UNCHANGED <<stock, raw, star, contact, down, rest>>
    BY <1>1, <1>2, <1>3, KeysKeep
  <2>2. StockCarries(e)'
    BY <1>1, <2>1, CarriesStays
  <2>3. Leads(e, n, d, contact', down')
    BY <1>1, <2>1
  <2> QED BY <2>1, <2>2, <2>3, Zenon DEF StockInv
<1>4. CASE Read
  <2>1. contact' = contact /\ down' = down /\ speaks' = speaks
    BY <1>4, Zenon DEF Read
  <2>2. CASE app' = app /\ StockCarries(e)'
    <3>1. Seen(app, n, d)'
      BY <1>1, <2>1, <2>2, SeenUnchanged
    <3>2. Leads(e, n, d, contact', down')
      BY <1>1, <2>1
    <3> QED BY <2>2, <3>1, <3>2, Zenon DEF StockInv
  <2>3. CASE app' = Apply(app, e) /\ StockCarries(Nothing)'
    <3>1. Seen(app, contact, down)'
      <4>1. PICK m, c : m = contact /\ c = down
        OBVIOUS
      <4>2. Seen(app, m, c)'
        BY <1>1, <1>2, <2>1, <2>3, <4>1, SeenApplied
      <4> QED BY <2>1, <4>1, <4>2 DEF Seen
    <3>2. Leads(Nothing, contact', down', contact', down')
      BY <1>2, <2>1, LeadsFacts
    <3>3. contact' \in Nat /\ down' \in BOOLEAN
      BY <1>2, <2>1
    <3> QED BY <2>3, <3>1, <3>2, <3>3, Zenon DEF StockInv
  <2> QED BY <1>1, <1>4, <2>2, <2>3, StockByte
<1>5. CASE Press \/ Move \/ Lift \/ Other
  <2>1. rest = <<>> /\ UNCHANGED <<stock, raw, star, app, speaks>>
    BY <1>5, Zenon DEF Press, Move, Lift, Other, Report
  <2>2. e = Nothing
    BY <1>1, <2>1, StockAtRest
  <2>3. n = contact /\ d = down
    BY <1>1, <2>2, NothingLeads
  <2>4. Fingers
    BY <1>1, <2>3, SeenHasColumn DEF Fingers, Panel
  <2>5. PICK g : StockCarries(g)' /\ Leads(g, contact, down, contact', down')
    BY <1>1, <1>5, <2>1, <2>4, StockReport, StockStarts
  <2>6. Seen(app, n, d)'
    BY <1>1, <2>1, SeenUnchanged
  <2>7. Leads(g, n, d, contact', down')
    BY <2>3, <2>5
  <2> QED BY <2>5, <2>6, <2>7, Zenon DEF StockInv
<1> QED BY <1>3, <1>4, <1>5, Zenon DEF Next

LEMMA RawStep ==
  ASSUME Panel, RawInv, "raw" \in speaks, "stock" \notin speaks, [Next]_vars
  PROVE  RawInv'
<1>0. PICK n \in Nat, m \in Nat, d \in BOOLEAN, c \in BOOLEAN : \E e, f :
        /\ Seen(app, n, d) /\ Leads(e, n, d, m, c) /\ Leads(f, m, c, contact, down)
        /\ RawCarries(e, f)
  BY Zenon DEF RawInv
<1>1. PICK e, f : /\ Seen(app, n, d) /\ Leads(e, n, d, m, c) /\ Leads(f, m, c, contact, down)
                  /\ RawCarries(e, f)
  BY <1>0, Zenon
<1>2. contact \in Nat /\ down \in BOOLEAN /\ speaks # {"stock"}
  BY TouchConstants DEF Panel
<1>3. CASE Clear \/ Calibrate \/ UNCHANGED vars
  <2>1. Seen(app, n, d)' /\ UNCHANGED <<stock, raw, star, contact, down, rest>>
    BY <1>1, <1>2, <1>3, KeysKeep
  <2>2. RawCarries(e, f)'
    BY <1>1, <2>1, CarriesStays
  <2>3. Leads(e, n, d, m, c) /\ Leads(f, m, c, contact', down')
    BY <1>1, <2>1
  <2> QED BY <2>1, <2>2, <2>3, Zenon DEF RawInv
<1>4. CASE Read
  <2>1. contact' = contact /\ down' = down /\ speaks' = speaks
    BY <1>4, Zenon DEF Read
  <2>2. CASE app' = app /\ RawCarries(e, f)'
    <3>1. Seen(app, n, d)'
      BY <1>1, <2>1, <2>2, SeenUnchanged
    <3>2. Leads(e, n, d, m, c) /\ Leads(f, m, c, contact', down')
      BY <1>1, <2>1
    <3> QED BY <2>2, <3>1, <3>2, Zenon DEF RawInv
  <2>3. CASE app' = Apply(app, e) /\ RawCarries(f, Nothing)'
    <3>1. Seen(app, m, c)'
      BY <1>1, <1>2, <2>1, <2>3, SeenApplied
    <3>2. Leads(Nothing, contact', down', contact', down')
      BY <1>2, <2>1, LeadsFacts
    <3>3. contact' \in Nat /\ down' \in BOOLEAN /\ Leads(f, m, c, contact', down')
      BY <1>1, <1>2, <2>1
    <3> QED BY <2>3, <3>1, <3>2, <3>3, Zenon DEF RawInv
  <2> QED BY <1>1, <1>4, <2>2, <2>3, RawByte
<1>5. CASE Press \/ Move \/ Lift \/ Other
  <2>1. rest = <<>> /\ UNCHANGED <<stock, raw, star, app, speaks>>
    BY <1>5, Zenon DEF Press, Move, Lift, Other, Report
  <2>2. f = Nothing
    BY <1>1, <2>1, RawAtRest
  <2>3. m = contact /\ c = down
    BY <1>1, <2>2, NothingLeads
  <2>4. Fingers
    BY <1>1, <2>3, SeenHasColumn, LeadsOn DEF Fingers, Panel
  <2>5. PICK g : RawCarries(e, g)' /\ Leads(g, contact, down, contact', down')
    BY <1>1, <1>5, <2>1, <2>4, RawReport, RawStarts
  <2>6. Seen(app, n, d)'
    BY <1>1, <2>1, SeenUnchanged
  <2>7. Leads(g, m, c, contact', down')
    BY <2>3, <2>5
  <2> QED BY <1>1, <2>5, <2>6, <2>7, Zenon DEF RawInv
<1> QED BY <1>3, <1>4, <1>5, Zenon DEF Next

LEMMA InitSeen ==
  ASSUME Init
  PROVE  Seen(app, 0, FALSE)
<1>1. PICK a : a = app
  OBVIOUS
<1>2. /\ Record(a) /\ Entries(a.samples)
      /\ a.touching = FALSE /\ a.suppress = FALSE /\ a.last = None
      /\ a.active = FALSE /\ a.waiting_release = FALSE
      /\ a.index = 0 /\ a.tap = 0 /\ a.drawn = <<>> /\ a.shown = 0
  BY <1>1 DEF Init, Record, Entries, Fields
<1>3. Screen(<<>>, 0, 0) /\ Samples(a.samples, 0, 0) /\ Stroke(FALSE, None, 0, FALSE)
  BY DEF Screen, Samples, Stroke
<1>4. Target(FALSE, FALSE, 0, <<>>, 0, 0, FALSE) /\ Tapped(0, FALSE, FALSE, 0, FALSE)
  BY TouchConstants DEF Target, Tapped
<1>5. Seen(a, 0, FALSE)
  BY <1>2, <1>3, <1>4 DEF Seen
<1> QED BY <1>1, <1>5

LEMMA InitTInv ==
  ASSUME Protocols \subseteq {{"stock"}, {"raw"}}, Init
  PROVE  TInv
<1>1. /\ contact = 0 /\ down = FALSE /\ rest = <<>>
      /\ stock = Idle /\ raw = Empty /\ star = FALSE /\ speaks \in Protocols
  BY DEF Init
<1>2. Panel
  <2>1. speaks \in {{"stock"}, {"raw"}}
    BY <1>1, Zenon
  <2>2. 0 \in 0 .. MaxContacts /\ FALSE \in BOOLEAN
    <3>1. MaxContacts \in 1 .. RawWidth - 1 /\ RawWidth \in Nat
      BY TouchConstants
    <3> QED BY <3>1
  <2> QED BY <1>1, <2>1, <2>2, Zenon DEF Panel
<1>3. Leads(Nothing, 0, FALSE, 0, FALSE)
  BY LeadsFacts
<1>4. StockCarries(Nothing)
  BY <1>1, Zenon DEF StockCarries, StockLine
<1>5. RawCarries(Nothing, Nothing)
  <2>1. Holds(raw, star, Nothing, FALSE)
    BY <1>1, Zenon DEF Holds
  <2> QED BY <1>1, <2>1, Zenon DEF RawCarries, RawLine
<1>6. Leads(Nothing, 0, FALSE, contact, down)
  BY <1>1, <1>3
<1>7. 0 \in Nat /\ FALSE \in BOOLEAN
  OBVIOUS
<1>8. StockInv
  BY <1>4, <1>6, <1>7, InitSeen, Zenon DEF StockInv
<1>9. RawInv
  BY <1>3, <1>5, <1>6, <1>7, InitSeen, Zenon DEF RawInv
<1> QED BY <1>2, <1>8, <1>9, Zenon DEF TInv

LEMMA PanelStep ==
  ASSUME Panel, [Next]_vars
  PROVE  Panel' /\ speaks' = speaks
<1>1. contact \in Nat /\ contact <= MaxContacts /\ MaxContacts \in Nat
  BY TouchConstants DEF Panel
<1>2. CASE Press
  BY <1>1, <1>2 DEF Press, Report, Panel
<1>3. CASE Read \/ Clear \/ Calibrate \/ Move \/ Lift \/ Other \/ UNCHANGED vars
  BY <1>3 DEF Read, Clear, Calibrate, Move, Lift, Other, Report, Panel, vars
<1> QED BY <1>2, <1>3, Zenon DEF Next

LEMMA TInvStep ==
  ASSUME TInv, [Next]_vars
  PROVE  TInv'
<1>1. Panel /\ Panel' /\ speaks' = speaks
  BY PanelStep DEF TInv
<1>2. CASE "raw" \in speaks
  <2>1. "stock" \notin speaks
    BY <1>1, <1>2 DEF Panel
  <2>2. RawInv'
    BY <1>1, <1>2, <2>1, RawStep DEF TInv
  <2> QED BY <1>1, <1>2, <2>2 DEF TInv
<1>3. CASE "raw" \notin speaks
  <2>1. StockInv'
    BY <1>1, <1>3, StockStep DEF TInv
  <2> QED BY <1>1, <1>3, <2>1 DEF TInv
<1> QED BY <1>2, <1>3

-----------------------------------------------------------------------------
(* The app, the decoders and the line fit the finger in every state.       *)
THEOREM TouchInvariant ==
  ASSUME Protocols \subseteq {{"stock"}, {"raw"}}
  PROVE  Spec => []TInv
<1>1. Init => TInv
  BY InitTInv
<1>2. TInv /\ [Next]_vars => TInv'
  BY TInvStep
<1> QED BY <1>1, <1>2, PTL DEF Spec

-----------------------------------------------------------------------------
(* The properties.                                                         *)

\* The contact that is seen is one of those so far.
LEMMA SeenSoFar ==
  ASSUME TInv
  PROVE  \E n \in Nat : \E d : Seen(app, n, d) /\ n <= contact
<1>1. contact \in Nat
  BY TouchConstants DEF TInv, Panel
<1>2. CASE "raw" \in speaks
  <2>1. PICK n \in Nat, m \in Nat, d \in BOOLEAN, c \in BOOLEAN : \E e, f :
          /\ Seen(app, n, d) /\ Leads(e, n, d, m, c) /\ Leads(f, m, c, contact, down)
          /\ RawCarries(e, f)
    BY <1>2, Zenon DEF TInv, RawInv
  <2>2. n <= m /\ (c => m > 0)
    BY <2>1, SeenHasColumn, LeadsOn
  <2>3. m <= contact
    BY <2>1, <2>2, LeadsOn
  <2>4. n <= contact
    BY <1>1, <2>2, <2>3
  <2> QED BY <2>1, <2>4
<1>3. CASE "raw" \notin speaks
  <2>1. PICK n \in Nat, d \in BOOLEAN : \E e :
          Seen(app, n, d) /\ Leads(e, n, d, contact, down) /\ StockCarries(e)
    BY <1>3, Zenon DEF TInv, StockInv
  <2>2. n <= contact
    BY <2>1, SeenHasColumn, LeadsOn
  <2> QED BY <2>1, <2>2
<1> QED BY <1>2, <1>3

\* What is on the screen.
LEMMA ScreenFacts ==
  ASSUME NEW s, NEW tap, NEW n \in Nat, Screen(s, tap, n)
  PROVE  /\ Len(s) = 2 => s[1].x = s[2].x
         /\ tap # 0 /\ s # <<>> => s[Len(s)].x # tap
         /\ \A i \in 1 .. Len(s) : Of(s[i], n)
<1>1. CASE s = <<>>
  BY <1>1
<1>2. ASSUME NEW p, s = <<p>>, Of(p, n), tap = 0 \/ p.x # tap
      PROVE  /\ Len(s) = 1 /\ s[1] = p
             /\ \A i \in 1 .. Len(s) : Of(s[i], n)
  BY <1>2
<1>3. ASSUME NEW p, NEW q, s = <<p, q>>, Of(p, n), Of(q, n), p.x = q.x, tap = 0 \/ q.x # tap
      PROVE  /\ Len(s) = 2 /\ s[1] = p /\ s[2] = q
             /\ \A i \in 1 .. Len(s) : Of(s[i], n)
  BY <1>3
<1> QED BY <1>1, <1>2, <1>3 DEF Screen

\* Marks are of contacts so far.
LEMMA OfSoFar ==
  ASSUME NEW n \in Nat, NEW m \in Nat, n <= m, NEW p, Of(p, n)
  PROVE  p.x \in 1 .. m /\ p.y \in Rows
BY DEF Of

\* A line joins two points of one contact, while the panel speaks one protocol.
THEOREM OneContactPerLineHolds ==
  ASSUME Protocols \subseteq {{"stock"}, {"raw"}}
  PROVE  Spec => []OneContactPerLine
<1>1. ASSUME TInv
      PROVE  OneContactPerLine
  <2>1. PICK n \in Nat : \E d : Seen(app, n, d)
    BY <1>1, SeenSoFar
  <2>2. Screen(app.drawn, app.tap, n)
    BY <2>1, Zenon DEF Seen
  <2> QED BY <2>2, ScreenFacts DEF OneContactPerLine
<1> QED BY <1>1, TouchInvariant, PTL

\* The samples of a calibration come from as many contacts, in order, and on a
\* stock panel from contacts that began after their target was shown.
THEOREM OneSamplePerContactHolds ==
  ASSUME Protocols \subseteq {{"stock"}, {"raw"}}
  PROVE  Spec => []OneSamplePerContact
<1>1. ASSUME TInv
      PROVE  OneSamplePerContact
  <2>1. PICK n \in Nat : \E d : Seen(app, n, d)
    BY <1>1, SeenSoFar
  <2>2. Samples(app.samples, app.index, n)
    BY <2>1, Zenon DEF Seen
  <2> QED BY <2>2, Zenon DEF OneSamplePerContact, Samples
<1> QED BY <1>1, TouchInvariant, PTL

\* The finger of the last sample draws nothing.
THEOREM TapsDrawNothingHolds ==
  ASSUME Protocols \subseteq {{"stock"}, {"raw"}}
  PROVE  Spec => []TapsDrawNothing
<1>1. ASSUME TInv
      PROVE  TapsDrawNothing
  <2>1. PICK n \in Nat : \E d : Seen(app, n, d)
    BY <1>1, SeenSoFar
  <2>2. Screen(app.drawn, app.tap, n)
    BY <2>1, Zenon DEF Seen
  <2> QED BY <2>2, ScreenFacts DEF TapsDrawNothing
<1> QED BY <1>1, TouchInvariant, PTL

\* Marks and samples are where a finger was, also after damaged frames and
\* points outside the screen.
THEOREM RealPointsHolds ==
  ASSUME Protocols \subseteq {{"stock"}, {"raw"}}
  PROVE  Spec => []RealPoints
<1>1. ASSUME TInv
      PROVE  RealPoints
  <2>1. PICK n \in Nat : \E d : Seen(app, n, d) /\ n <= contact
    BY <1>1, SeenSoFar
  <2>2. contact \in Nat
    BY <1>1, TouchConstants DEF TInv, Panel
  <2>3. Screen(app.drawn, app.tap, n) /\ Samples(app.samples, app.index, n)
    BY <2>1, Zenon DEF Seen
  <2>4. \A i \in 1 .. Len(app.drawn) : Of(app.drawn[i], n)
    BY <2>3, ScreenFacts
  <2>5. \A i \in 1 .. app.index : Of(app.samples[i].at, n)
    BY <2>3, Zenon DEF Samples
  <2> QED BY <2>1, <2>2, <2>4, <2>5, OfSoFar DEF RealPoints
<1> QED BY <1>1, TouchInvariant, PTL

\* A lifted finger leaves no stroke open once its report is decoded.
THEOREM ReleaseDecodedHolds ==
  ASSUME Protocols \subseteq {{"stock"}, {"raw"}}
  PROVE  Spec => []ReleaseDecoded
<1>1. ASSUME TInv
      PROVE  ReleaseDecoded
  <2> SUFFICES ASSUME ~down, rest = <<>>, ~raw.in_frame
               PROVE  ~app.touching
    BY Zenon DEF ReleaseDecoded
  <2>1. down = FALSE
    BY <1>1 DEF TInv, Panel
  <2>2. \E n : Seen(app, n, FALSE)
    <3>1. CASE "raw" \in speaks
      <4>1. PICK n \in Nat, m \in Nat, d \in BOOLEAN, c \in BOOLEAN : \E e, f :
              /\ Seen(app, n, d) /\ Leads(e, n, d, m, c) /\ Leads(f, m, c, contact, down)
              /\ RawCarries(e, f)
        BY <1>1, <3>1, Zenon DEF TInv, RawInv
      <4>2. PICK e, f : /\ Seen(app, n, d) /\ Leads(e, n, d, m, c) /\ Leads(f, m, c, contact, down)
                        /\ RawCarries(e, f)
        BY <4>1, Zenon
      <4>3. f = Nothing /\ RawHeld(e)
        BY <4>2, RawAtRest
      <4>4. e = Nothing
        <5>1. \A type, s : raw # Collecting(FALSE, type, s)
          BY DEF Collecting
        <5> QED BY <4>3, <5>1, Zenon DEF RawHeld, Holds
      <4>5. d = c /\ c = down
        BY <4>2, <4>3, <4>4, NothingLeads
      <4> QED BY <2>1, <4>2, <4>5
    <3>2. CASE "raw" \notin speaks
      <4>1. PICK n \in Nat, d \in BOOLEAN : \E e :
              Seen(app, n, d) /\ Leads(e, n, d, contact, down) /\ StockCarries(e)
        BY <1>1, <3>2, Zenon DEF TInv, StockInv
      <4>2. PICK e : Seen(app, n, d) /\ Leads(e, n, d, contact, down) /\ StockCarries(e)
        BY <4>1, Zenon
      <4>3. e = Nothing
        BY <4>2, StockAtRest
      <4>4. d = down
        BY <4>2, <4>3, NothingLeads
      <4> QED BY <2>1, <4>2, <4>4
    <3> QED BY <3>1, <3>2
  <2> QED BY <2>2, Zenon DEF Seen, Stroke
<1> QED BY <1>1, TouchInvariant, PTL

=============================================================================
