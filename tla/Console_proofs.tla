--------------------------- MODULE Console_proofs ---------------------------
(***************************************************************************)
(* Proofs about wing_surface_console, in three parts.                      *)
(*                                                                         *)
(* The receiver of PnlcDemux overruns no buffer and logs the traffic, for  *)
(* every set of messages and any number of them.  DInv says what the       *)
(* receiver holds at each byte of each message; the lemmas before it say   *)
(* that Rx and the flushes lead from one such place to the next.  HInv     *)
(* says what it may hold once the line has lost a byte, up to the message  *)
(* that puts it right and after it.                                        *)
(*                                                                         *)
(* The main loop implements that receiver: it flushes only between two     *)
(* messages, for all times.                                                *)
(*                                                                         *)
(* The names given to what the PNLC reports (PldcNames) are right for any  *)
(* number of controls held.                                                *)
(***************************************************************************)
EXTENDS ConsoleLoop, PldcNames, FiniteSetTheorems, SequenceTheorems, TLAPS

-----------------------------------------------------------------------------
(* The receiver's buffers and its log, for any bytes at all.               *)

Events == [kind : Kinds, bytes : Seq(Byte)]

Fields == {"parser", "raw", "waiting", "touch", "type", "buf", "star", "unknown", "log"}

IsApp(a) == a = [x \in Fields |-> a[x]]

\* A receiver whose buffers are not overrun.
Sound(a) ==
  /\ a \in App
  /\ Len(a.raw) <= RawSize /\ Len(a.buf) <= BufSize /\ Len(a.unknown) <= BufSize

\* The log is only appended to.
Extends(a, c) ==
  /\ Sound(c)
  /\ Len(a.log) <= Len(c.log)
  /\ \A i \in 1 .. Len(a.log) : c.log[i] = a.log[i]

LEMMA SoundParts ==
  ASSUME NEW a
  PROVE  Sound(a) <=>
           /\ IsApp(a)
           /\ a.parser \in Parser /\ a.waiting \in BOOLEAN /\ a.touch \in BOOLEAN
           /\ a.type \in Byte /\ a.star \in BOOLEAN
           /\ a.raw \in Seq(Byte) /\ Len(a.raw) <= RawSize
           /\ a.buf \in Seq(Byte) /\ Len(a.buf) <= BufSize
           /\ a.unknown \in Seq(Byte) /\ Len(a.unknown) <= BufSize
           /\ a.log \in Seq(Events)
BY DEF Sound, App, IsApp, Fields, Events

LEMMA Nothing == <<>> \in Seq(Byte) /\ Len(<<>>) <= BufSize /\ Len(<<>>) <= RawSize
BY DEF BufSize, RawSize

LEMMA ExtendsSelf == ASSUME NEW a, Sound(a) PROVE Extends(a, a)
BY DEF Extends, Sound, App

LEMMA ExtendsAgain ==
  ASSUME NEW a, NEW c, NEW d, Sound(a), Extends(a, c), Extends(c, d)
  PROVE  Extends(a, d)
<1>1. Len(a.log) \in Nat /\ Len(c.log) \in Nat /\ Len(d.log) \in Nat
  BY SMTT(60) DEF Extends, Sound, App
<1> QED BY <1>1 DEF Extends

LEMMA SameLog ==
  ASSUME NEW a, NEW c, Sound(a), Sound(c), c.log = a.log
  PROVE  Extends(a, c)
BY DEF Extends, Sound, App

LEMMA OneMore ==
  ASSUME NEW a, NEW c, NEW e \in Events, Sound(a), Sound(c), c.log = Append(a.log, e)
  PROVE  Extends(a, c)
BY DEF Extends, Sound, App, Events

LEMMA EventType ==
  ASSUME NEW kind \in Kinds, NEW s \in Seq(Byte)
  PROVE  Event(kind, s) \in Events
BY DEF Event, Events

LEMMA LogRawExtends ==
  ASSUME NEW a, Sound(a)
  PROVE  Extends(a, LogRaw(a)) /\ LogRaw(a).raw = <<>>
<1> DEFINE c == LogRaw(a)
           e == Event("raw", a.raw)
<1>1. e \in Events
  BY SoundParts, EventType DEF Kinds
<1>2. IsApp(a)
  BY SoundParts
<1>3. /\ IsApp(c)
      /\ c.parser = a.parser /\ c.raw = <<>> /\ c.waiting = FALSE /\ c.touch = a.touch
      /\ c.type = a.type /\ c.buf = a.buf /\ c.star = a.star /\ c.unknown = a.unknown
      /\ c.log = Append(a.log, e)
  BY <1>2 DEF IsApp, Fields, LogRaw
<1> HIDE DEF e, c
<1>4. <<>> \in Seq(Byte) /\ Len(<<>>) <= RawSize
  BY DEF RawSize
<1>5. Append(a.log, e) \in Seq(Events)
  BY <1>1, SoundParts
<1>6. Sound(c)
  BY <1>3, <1>4, <1>5, SoundParts
<1>7. Extends(a, c)
  BY <1>1, <1>3, <1>6, OneMore
<1> QED BY <1>3, <1>7 DEF c

LEMMA WithRaw ==
  ASSUME NEW a, Sound(a), NEW r \in Seq(Byte), Len(r) <= RawSize
  PROVE  LET c == [a EXCEPT !.raw = r]
             d == [a EXCEPT !.raw = r, !.waiting = TRUE]
         IN  Extends(a, c) /\ c.raw = r /\ Extends(a, d)
<1> DEFINE c == [a EXCEPT !.raw = r]
           d == [a EXCEPT !.raw = r, !.waiting = TRUE]
<1>1. IsApp(a)
  BY SoundParts
<1>2. /\ IsApp(c)
      /\ c.parser = a.parser /\ c.raw = r /\ c.waiting = a.waiting /\ c.touch = a.touch
      /\ c.type = a.type /\ c.buf = a.buf /\ c.star = a.star /\ c.unknown = a.unknown
      /\ c.log = a.log
  BY <1>1 DEF IsApp, Fields
<1>3. /\ IsApp(d)
      /\ d.parser = a.parser /\ d.raw = r /\ d.waiting = TRUE /\ d.touch = a.touch
      /\ d.type = a.type /\ d.buf = a.buf /\ d.star = a.star /\ d.unknown = a.unknown
      /\ d.log = a.log
  BY <1>1 DEF IsApp, Fields
<1> HIDE DEF c, d
<1>4. Sound(c) /\ Sound(d)
  BY <1>2, <1>3, SoundParts
<1> QED BY <1>2, <1>3, <1>4, SameLog DEF c, d

LEMMA RawExtends ==
  ASSUME NEW a, Sound(a), NEW b \in Byte
  PROVE  Extends(a, Raw(a, b).app)
<1> DEFINE kept == IF Len(a.raw) >= RawSize THEN <<b>> ELSE Append(a.raw, b)
           put == [a EXCEPT !.raw = kept]
           waits == [put EXCEPT !.waiting = TRUE]
           split == [LogRaw(a) EXCEPT !.raw = <<b>>]
           none == [a EXCEPT !.raw = <<>>]
<1>1. a.raw \in Seq(Byte) /\ Len(a.raw) <= RawSize
  BY SoundParts
<1>2. <<b>> \in Seq(Byte) /\ Len(<<b>>) <= RawSize /\ <<>> \in Seq(Byte) /\ Len(<<>>) <= RawSize
  BY DEF RawSize
<1>3. kept \in Seq(Byte) /\ Len(kept) <= RawSize
  BY <1>1, <1>2 DEF RawSize
<1>4. waits = [a EXCEPT !.raw = kept, !.waiting = TRUE]
  <2> HIDE DEF kept
  <2>1. IsApp(a)
    BY SoundParts
  <2> QED BY <2>1 DEF IsApp, Fields
<1>5. Extends(a, put) /\ Extends(a, waits) /\ Extends(a, none)
  <2> HIDE DEF kept
  <2>1. Extends(a, put) /\ Extends(a, [a EXCEPT !.raw = kept, !.waiting = TRUE]) /\ Extends(a, none)
    BY <1>2, <1>3, WithRaw
  <2> QED BY <1>4, <2>1
<1>6. Extends(a, split)
  <2>1. Extends(a, LogRaw(a)) /\ Sound(LogRaw(a))
    BY LogRawExtends DEF Extends
  <2>2. Extends(LogRaw(a), split)
    BY <1>2, <2>1, WithRaw
  <2> QED BY <2>1, <2>2, ExtendsAgain
<1>7. Extends(a, LogRaw(put))
  <2>1. Sound(put)
    BY <1>5 DEF Extends
  <2> HIDE DEF put
  <2> QED BY <1>5, <2>1, LogRawExtends, ExtendsAgain
<1>8. Extends(a, a)
  BY ExtendsSelf
<1>9. Raw(a, b).app \in {LogRaw(put), split, a, put, none, waits}
  BY DEF Raw, Split
<1> HIDE DEF put, waits, split, none
<1> QED BY <1>5, <1>6, <1>7, <1>8, <1>9

LEMMA FeedType ==
  ASSUME NEW p \in Parser, NEW b \in Byte
  PROVE  Feed(p, b) \in Parser
<1>1. Idle \in Parser /\ Star \in Byte
  BY DEF Idle, Parser, Byte, Star
<1>2. ASSUME NEW star \in BOOLEAN, NEW have \in BOOLEAN, NEW cmd \in Byte,
             NEW payload \in Seq(Byte)
      PROVE  InFrame(star, have, cmd, payload) \in Parser
  BY DEF InFrame, Parser
<1>3. /\ p.have_cmd \in BOOLEAN /\ p.cmd \in Byte /\ p.payload \in Seq(Byte)
      /\ <<>> \in Seq(Byte)
  BY DEF Parser
<1>4. Restart(p) \in Parser /\ Command(p, b) \in Parser
      /\ InFrame(TRUE, p.have_cmd, p.cmd, p.payload) \in Parser
  BY <1>2, <1>3 DEF Restart, Command
<1>5. ASSUME NEW t \in Seq(Byte)
      PROVE  Push(p, t) \in Parser
  <2>1. Pushed(p.payload, t) \in Seq(Byte)
    BY <1>3 DEF Pushed
  <2> QED BY <1>2, <1>3, <2>1 DEF Push
<1>6. <<Star>> \in Seq(Byte) /\ <<b>> \in Seq(Byte) /\ <<Star, b>> \in Seq(Byte)
  BY <1>1
<1>7. Push(p, <<Star>>) \in Parser /\ Push(p, <<b>>) \in Parser /\ Push(p, <<Star, b>>) \in Parser
  BY <1>5, <1>6
<1> QED BY <1>1, <1>4, <1>7, Zenon DEF Feed, FeedAfterStar, FeedInside

LEMMA FeedFrameExtends ==
  ASSUME NEW a, Sound(a), NEW b \in Byte
  PROVE  Extends(a, FeedFrame(a, b))
<1> DEFINE c == FeedFrame(a, b)
           e == Event("frame", <<a.parser.cmd>> \o a.parser.payload)
           q == Feed(a.parser, b)
<1>1. IsApp(a) /\ a.parser \in Parser
  BY SoundParts
<1>2. <<a.parser.cmd>> \o a.parser.payload \in Seq(Byte)
  BY <1>1 DEF Parser
<1>3. e \in Events
  BY <1>2, EventType DEF Kinds
<1>4. q \in Parser
  BY <1>1, FeedType
<1>5. /\ IsApp(c)
      /\ c.parser = q /\ c.raw = a.raw /\ c.waiting = a.waiting /\ c.touch = a.touch
      /\ c.type = a.type /\ c.buf = a.buf /\ c.star = a.star /\ c.unknown = a.unknown
      /\ c.log = IF Emits(a.parser, b) THEN Append(a.log, e) ELSE a.log
  BY <1>1 DEF IsApp, Fields, FeedFrame
<1> HIDE DEF e, c, q
<1>6. Append(a.log, e) \in Seq(Events)
  BY <1>3, SoundParts
<1>7. Sound(c)
  BY <1>4, <1>5, <1>6, SoundParts
<1>8. Extends(a, c)
  BY <1>3, <1>5, <1>7, OneMore, SameLog
<1> QED BY <1>8 DEF c

LEMMA FlushTouchExtends ==
  ASSUME NEW a, Sound(a)
  PROVE  Extends(a, FlushTouch(a))
<1> DEFINE e == Event("touch", <<a.type>> \o a.buf)
           c == [a EXCEPT !.touch = FALSE, !.buf = <<>>, !.log = Append(@, e)]
<1>1. IsApp(a)
  BY SoundParts
<1>2. <<a.type>> \o a.buf \in Seq(Byte)
  BY SoundParts
<1>3. e \in Events
  BY <1>2, EventType DEF Kinds
<1>4. /\ IsApp(c)
      /\ c.parser = a.parser /\ c.raw = a.raw /\ c.waiting = a.waiting /\ c.touch = FALSE
      /\ c.type = a.type /\ c.buf = <<>> /\ c.star = a.star /\ c.unknown = a.unknown
      /\ c.log = Append(a.log, e)
  BY <1>1 DEF IsApp, Fields
<1>5. FlushTouch(a) = IF a.touch THEN c ELSE a
  BY DEF FlushTouch
<1> HIDE DEF e, c
<1>6. Append(a.log, e) \in Seq(Events)
  BY <1>3, SoundParts
<1>7. Sound(c)
  BY <1>4, <1>6, SoundParts, Nothing
<1>8. Extends(a, c)
  BY <1>3, <1>4, <1>7, OneMore
<1> QED BY <1>5, <1>8, ExtendsSelf

LEMMA FlushUnknownExtends ==
  ASSUME NEW a, Sound(a)
  PROVE  Extends(a, FlushUnknown(a))
<1> DEFINE e == Event("unknown", a.unknown)
           c == [a EXCEPT !.unknown = <<>>, !.log = Append(@, e)]
<1>1. IsApp(a)
  BY SoundParts
<1>2. e \in Events
  BY SoundParts, EventType DEF Kinds
<1>3. /\ IsApp(c)
      /\ c.parser = a.parser /\ c.raw = a.raw /\ c.waiting = a.waiting /\ c.touch = a.touch
      /\ c.type = a.type /\ c.buf = a.buf /\ c.star = a.star /\ c.unknown = <<>>
      /\ c.log = Append(a.log, e)
  BY <1>1 DEF IsApp, Fields
<1>4. FlushUnknown(a) = IF a.unknown = <<>> THEN a ELSE c
  BY DEF FlushUnknown
<1> HIDE DEF e, c
<1>5. Append(a.log, e) \in Seq(Events)
  BY <1>2, SoundParts
<1>6. Sound(c)
  BY <1>3, <1>5, SoundParts, Nothing
<1>7. Extends(a, c)
  BY <1>2, <1>3, <1>6, OneMore
<1> QED BY <1>4, <1>7, ExtendsSelf

LEMMA FlushAllExtends ==
  ASSUME NEW a, Sound(a)
  PROVE  Extends(a, FlushRaw(a)) /\ Extends(a, FlushAll(a))
<1> DEFINE c == FlushRaw(a)
           d == FlushTouch(c)
<1>1. Extends(a, c)
  BY LogRawExtends, ExtendsSelf DEF FlushRaw
<1> HIDE DEF c
<1>2. Extends(c, d)
  BY <1>1, FlushTouchExtends DEF Extends
<1> HIDE DEF d
<1>3. Extends(d, FlushUnknown(d))
  BY <1>2, FlushUnknownExtends DEF Extends
<1>4. Extends(a, FlushUnknown(d))
  BY <1>1, <1>2, <1>3, ExtendsAgain
<1> QED BY <1>1, <1>4 DEF FlushAll, c, d

LEMMA CollectExtends ==
  ASSUME NEW a, Sound(a), NEW s \in Seq(Byte)
  PROVE  Extends(a, Collect(a, s))
<1> DEFINE c == [a EXCEPT !.star = FALSE, !.buf = Room(@, s)]
           d == [a EXCEPT !.star = FALSE, !.unknown = Room(@, s)]
<1>1. IsApp(a)
  BY SoundParts
<1>2. ASSUME NEW t \in Seq(Byte), Len(t) <= BufSize
      PROVE  Room(t, s) \in Seq(Byte) /\ Len(Room(t, s)) <= BufSize
  BY <1>2 DEF Room, BufSize
<1>3. /\ IsApp(c)
      /\ c.parser = a.parser /\ c.raw = a.raw /\ c.waiting = a.waiting /\ c.touch = a.touch
      /\ c.type = a.type /\ c.buf = Room(a.buf, s) /\ c.star = FALSE /\ c.unknown = a.unknown
      /\ c.log = a.log
  BY <1>1 DEF IsApp, Fields
<1>4. /\ IsApp(d)
      /\ d.parser = a.parser /\ d.raw = a.raw /\ d.waiting = a.waiting /\ d.touch = a.touch
      /\ d.type = a.type /\ d.buf = a.buf /\ d.star = FALSE /\ d.unknown = Room(a.unknown, s)
      /\ d.log = a.log
  BY <1>1 DEF IsApp, Fields
<1>5. Collect(a, s) = c \/ Collect(a, s) = d
  BY DEF Collect
<1> HIDE DEF c, d
<1>6. Sound(c)
  BY <1>2, <1>3, SoundParts
<1>7. Sound(d)
  BY <1>2, <1>4, SoundParts
<1> QED BY <1>3, <1>4, <1>5, <1>6, <1>7, SameLog

LEMMA DispatchExtends ==
  ASSUME NEW a, Sound(a), NEW r, Extends(a, r.app), NEW c, Extends(a, c)
  PROVE  Extends(a, Dispatch(r, c))
<1> DEFINE d == [r.app EXCEPT !.parser = Idle]
<1>1. Sound(r.app) /\ IsApp(r.app)
  BY SoundParts DEF Extends
<1>2. /\ IsApp(d)
      /\ d.parser = Idle /\ d.raw = r.app.raw /\ d.waiting = r.app.waiting /\ d.touch = r.app.touch
      /\ d.type = r.app.type /\ d.buf = r.app.buf /\ d.star = r.app.star
      /\ d.unknown = r.app.unknown /\ d.log = r.app.log
  BY <1>1 DEF IsApp, Fields
<1>3. Idle \in Parser
  BY DEF Idle, Parser, Byte
<1> HIDE DEF d
<1>4. Sound(d)
  BY <1>1, <1>2, <1>3, SoundParts
<1>5. Extends(a, d)
  BY <1>1, <1>2, <1>4, SameLog, ExtendsAgain
<1> QED BY <1>5 DEF Dispatch, d

LEMMA OpenExtends ==
  ASSUME NEW a, Sound(a), NEW b \in Byte
  PROVE  Extends(a, Open(a, b))
<1> DEFINE c == Raw(a, Star).app
           r == Raw(c, b)
           d == FeedFrame(r.app, Star)
<1>1. Star \in Byte
  BY DEF Star, Byte
<1>2. Extends(a, c) /\ Sound(c)
  BY <1>1, RawExtends DEF Extends
<1> HIDE DEF c
<1>3. Extends(c, r.app) /\ Sound(r.app)
  BY <1>2, RawExtends DEF Extends
<1>4. Extends(a, r.app)
  BY <1>2, <1>3, ExtendsAgain
<1> HIDE DEF r
<1>5. Extends(r.app, d) /\ Sound(d)
  BY <1>1, <1>3, FeedFrameExtends DEF Extends
<1> HIDE DEF d
<1>6. Extends(d, FeedFrame(d, b))
  BY <1>5, FeedFrameExtends
<1>7. Extends(a, FeedFrame(d, b))
  BY <1>4, <1>5, <1>6, ExtendsAgain
<1>8. Extends(a, Dispatch(r, FeedFrame(d, b)))
  BY <1>4, <1>7, DispatchExtends
<1> QED BY <1>8 DEF Open, c, r, d

(* Whatever the bytes, no buffer of the receiver is overrun and what has   *)
(* been logged stays.                                                      *)
LEMMA RxExtends ==
  ASSUME NEW a, Sound(a), NEW b \in Byte
  PROVE  Extends(a, Rx(a, b))
<1> DEFINE emptied == [FlushUnknown(FlushTouch(a)) EXCEPT !.star = FALSE]
           touch == [emptied EXCEPT !.touch = TRUE, !.type = b, !.buf = <<>>]
           star == [a EXCEPT !.star = TRUE]
           r == Raw(a, b)
<1>1. Star \in Byte
  BY DEF Star, Byte
<1>2. Extends(a, emptied) /\ Sound(emptied)
  <2> DEFINE f == FlushTouch(a)
             u == FlushUnknown(f)
             v == [u EXCEPT !.star = FALSE]
  <2>1. Extends(a, f) /\ Sound(f)
    BY FlushTouchExtends DEF Extends
  <2> HIDE DEF f
  <2>2. Extends(f, u) /\ Sound(u)
    BY <2>1, FlushUnknownExtends DEF Extends
  <2> HIDE DEF u
  <2>3. IsApp(u)
    BY <2>2, SoundParts
  <2>4. /\ IsApp(v)
        /\ v.parser = u.parser /\ v.raw = u.raw /\ v.waiting = u.waiting /\ v.touch = u.touch
        /\ v.type = u.type /\ v.buf = u.buf /\ v.star = FALSE /\ v.unknown = u.unknown
        /\ v.log = u.log
    BY <2>3 DEF IsApp, Fields
  <2> HIDE DEF v
  <2>5. Sound(v)
    BY <2>2, <2>4, SoundParts
  <2>6. Extends(u, v)
    BY <2>2, <2>4, <2>5, SameLog
  <2>7. Extends(a, v)
    BY <2>1, <2>2, <2>6, ExtendsAgain
  <2> QED BY <2>5, <2>7 DEF v, u, f
<1> HIDE DEF emptied
<1>3. Extends(a, touch)
  <2>1. IsApp(emptied)
    BY <1>2, SoundParts
  <2>2. /\ IsApp(touch)
        /\ touch.parser = emptied.parser /\ touch.raw = emptied.raw
        /\ touch.waiting = emptied.waiting /\ touch.touch = TRUE
        /\ touch.type = b /\ touch.buf = <<>> /\ touch.star = emptied.star
        /\ touch.unknown = emptied.unknown /\ touch.log = emptied.log
    BY <2>1 DEF IsApp, Fields
  <2> HIDE DEF touch
  <2>3. Sound(touch)
    BY <1>2, <2>2, SoundParts, Nothing
  <2> QED BY <1>2, <2>2, <2>3, SameLog, ExtendsAgain
<1>4. Extends(a, star)
  <2>1. IsApp(a)
    BY SoundParts
  <2>2. /\ IsApp(star)
        /\ star.parser = a.parser /\ star.raw = a.raw /\ star.waiting = a.waiting
        /\ star.touch = a.touch /\ star.type = a.type /\ star.buf = a.buf /\ star.star = TRUE
        /\ star.unknown = a.unknown /\ star.log = a.log
    BY <2>1 DEF IsApp, Fields
  <2> HIDE DEF star
  <2>3. Sound(star)
    BY <2>2, SoundParts
  <2> QED BY <2>2, <2>3, SameLog
<1>5. Extends(a, Open(emptied, b))
  BY <1>2, OpenExtends, ExtendsAgain
<1>6. Extends(a, Collect(a, <<b>>)) /\ Extends(a, Collect(a, <<Star, b>>))
  <2>1. <<b>> \in Seq(Byte) /\ <<Star, b>> \in Seq(Byte)
    BY <1>1
  <2> QED BY <2>1, CollectExtends
<1>7. Extends(a, FeedFrame(a, b))
  BY FeedFrameExtends
<1>8. Extends(a, Dispatch(r, FeedFrame(r.app, b)))
  <2>1. Extends(a, r.app) /\ Sound(r.app)
    BY RawExtends DEF Extends
  <2> HIDE DEF r
  <2>2. Extends(a, FeedFrame(r.app, b))
    BY <2>1, FeedFrameExtends, ExtendsAgain
  <2> QED BY <2>1, <2>2, DispatchExtends
<1>9. AfterStar(a, b) = IF b \in TouchTypes THEN touch
                        ELSE IF Standard(b) THEN Open(emptied, b)
                        ELSE Collect(a, <<Star, b>>)
  BY DEF AfterStar, emptied
<1>10. Rx(a, b) = IF a.parser.in_frame THEN FeedFrame(a, b)
                  ELSE IF a.raw # <<>> THEN Dispatch(r, FeedFrame(r.app, b))
                  ELSE IF a.star THEN AfterStar(a, b)
                  ELSE IF b = Star THEN star
                  ELSE Collect(a, <<b>>)
  BY DEF Rx
<1> HIDE DEF touch, star, r
<1> QED BY <1>3, <1>4, <1>5, <1>6, <1>7, <1>8, <1>9, <1>10

\* The stars before byte i.
Stars(s, i) == {k \in 1 .. i - 1 : s[k] = Star}

LEMMA StarsFinite ==
  ASSUME NEW s, NEW i \in Nat
  PROVE  IsFiniteSet(Stars(s, i)) /\ Cardinality(Stars(s, i)) \in Nat
<1>1. IsFiniteSet(1 .. i - 1)
  BY FS_Interval
<1>2. Stars(s, i) \subseteq 1 .. i - 1
  BY DEF Stars
<1>3. IsFiniteSet(Stars(s, i))
  BY <1>1, <1>2, FS_Subset
<1> QED BY <1>3, FS_CardinalityType

LEMMA PlaceNext ==
  ASSUME NEW s
  PROVE  /\ Place(s, 1) = 1
         /\ \A i \in Nat \ {0} :
              /\ Place(s, i) \in Nat \ {0}
              /\ Place(s, i + 1) = Place(s, i) + (IF s[i] = Star THEN 2 ELSE 1)
         /\ \A i, j \in Nat \ {0} : i <= j => Place(s, i) <= Place(s, j)
<1>1. \A i : Place(s, i) = i + Cardinality(Stars(s, i))
  BY DEF Place, Stars
<1>2. Stars(s, 1) = {}
  BY DEF Stars
<1>3. Place(s, 1) = 1
  BY <1>1, <1>2, FS_EmptySet
<1>4. ASSUME NEW i \in Nat \ {0}
      PROVE  Place(s, i) \in Nat \ {0}
  BY <1>1, StarsFinite
<1>5. ASSUME NEW i \in Nat \ {0}
      PROVE  Place(s, i + 1) = Place(s, i) + (IF s[i] = Star THEN 2 ELSE 1)
  <2>0. IsFiniteSet(Stars(s, i)) /\ Cardinality(Stars(s, i)) \in Nat
    BY StarsFinite
  <2>1. CASE s[i] = Star
    <3>1. Stars(s, i + 1) = Stars(s, i) \cup {i} /\ i \notin Stars(s, i)
      BY <2>1 DEF Stars
    <3>2. Cardinality(Stars(s, i + 1)) = Cardinality(Stars(s, i)) + 1
      BY <2>0, <3>1, FS_AddElement
    <3> QED BY <1>1, <2>0, <2>1, <3>2
  <2>2. CASE s[i] # Star
    <3>1. Stars(s, i + 1) = Stars(s, i)
      BY <2>2 DEF Stars
    <3> QED BY <1>1, <2>0, <2>2, <3>1
  <2> QED BY <2>1, <2>2
<1>6. ASSUME NEW i \in Nat \ {0}, NEW j \in Nat \ {0}, i <= j
      PROVE  Place(s, i) <= Place(s, j)
  <2>1. Stars(s, i) \subseteq Stars(s, j)
    BY <1>6 DEF Stars
  <2>2. Cardinality(Stars(s, i)) <= Cardinality(Stars(s, j))
    BY <2>1, StarsFinite, FS_Subset
  <2> QED BY <1>1, <1>6, <2>2, StarsFinite
<1> QED BY <1>3, <1>4, <1>5, <1>6

LEMMA EscapedBytes ==
  ASSUME NEW s \in Seq(Byte)
  PROVE  /\ Escaped(s) \in Seq(Byte) /\ Len(Escaped(s)) = Place(s, Len(s) + 1) - 1
         /\ \A i \in 1 .. Len(s) :
              /\ Escaped(s)[Place(s, i)] = s[i]
              /\ s[i] = Star => Escaped(s)[Place(s, i) + 1] = Esc
<1> DEFINE n == Len(s)
           size == Place(s, n + 1) - 1
           At(p) == CHOOSE i \in 1 .. n : Place(s, i) = p
           Here(p) == IF \E i \in 1 .. n : Place(s, i) = p THEN s[At(p)] ELSE Esc
<1>1. n \in Nat /\ DOMAIN s = 1 .. n /\ size \in Nat
  <2>1. n \in Nat /\ DOMAIN s = 1 .. n /\ n + 1 \in Nat \ {0}
    OBVIOUS
  <2>2. Place(s, n + 1) \in Nat \ {0}
    BY <2>1, PlaceNext
  <2> QED BY <2>1, <2>2
<1>2. Escaped(s) = [p \in 1 .. size |-> Here(p)]
  BY <1>1 DEF Escaped
<1>3. ASSUME NEW i \in 1 .. n, NEW j \in 1 .. n, i < j
      PROVE  /\ Place(s, i) < Place(s, j)
             /\ s[i] = Star => Place(s, i) + 1 < Place(s, j)
  <2>1. i \in Nat \ {0} /\ j \in Nat \ {0} /\ i + 1 \in Nat \ {0} /\ i + 1 <= j
    BY <1>1, <1>3
  <2>2. /\ Place(s, i) \in Nat /\ Place(s, j) \in Nat
        /\ Place(s, i + 1) = Place(s, i) + (IF s[i] = Star THEN 2 ELSE 1)
        /\ Place(s, i + 1) <= Place(s, j)
    BY <2>1, PlaceNext
  <2> QED BY <2>2, SMTT(60)
<1>4. ASSUME NEW i \in 1 .. n
      PROVE  /\ Place(s, i) \in 1 .. size
             /\ s[i] = Star => Place(s, i) + 1 \in 1 .. size
  <2>1. i \in Nat \ {0} /\ i + 1 \in Nat \ {0} /\ n + 1 \in Nat \ {0} /\ i + 1 <= n + 1
    BY <1>1
  <2>2. /\ Place(s, i) \in Nat \ {0} /\ Place(s, n + 1) \in Nat
        /\ Place(s, i + 1) = Place(s, i) + (IF s[i] = Star THEN 2 ELSE 1)
        /\ Place(s, i + 1) <= Place(s, n + 1)
    BY <2>1, PlaceNext
  <2> QED BY <2>2, SMTT(60)
<1>5. ASSUME NEW i \in 1 .. n
      PROVE  Here(Place(s, i)) = s[i]
  <2>1. ASSUME NEW k \in 1 .. n, Place(s, k) = Place(s, i)
        PROVE  k = i
    <3>1. k \in Nat /\ i \in Nat /\ Place(s, i) \in Nat
      BY <1>1, <1>4
    <3> QED BY <1>3, <2>1, <3>1
  <2>2. At(Place(s, i)) = i
    BY <2>1
  <2> HIDE DEF At
  <2> QED BY <2>2
<1>6. ASSUME NEW i \in 1 .. n, s[i] = Star
      PROVE  Here(Place(s, i) + 1) = Esc
  <2>1. ASSUME NEW k \in 1 .. n, Place(s, k) = Place(s, i) + 1
        PROVE  FALSE
    <3>1. k \in Nat /\ i \in Nat /\ Place(s, i) \in Nat /\ Place(s, k) \in Nat
      BY <1>1, <1>4
    <3> QED BY <1>3, <1>6, <2>1, <3>1
  <2> QED BY <2>1
<1>7. ASSUME NEW p
      PROVE  Here(p) \in Byte
  <2>1. CASE \E i \in 1 .. n : Place(s, i) = p
    <3>1. At(p) \in 1 .. n
      BY <2>1
    <3> HIDE DEF At
    <3> QED BY <1>1, <2>1, <3>1
  <2>2. CASE ~ \E i \in 1 .. n : Place(s, i) = p
    BY <2>2 DEF Byte, Esc
  <2> QED BY <2>1, <2>2
<1> HIDE DEF Here
<1>8. Escaped(s) \in Seq(Byte) /\ Len(Escaped(s)) = size
  BY <1>1, <1>2, <1>7
<1>9. ASSUME NEW i \in 1 .. n
      PROVE  /\ Escaped(s)[Place(s, i)] = s[i]
             /\ s[i] = Star => Escaped(s)[Place(s, i) + 1] = Esc
  BY <1>2, <1>4, <1>5, <1>6
<1> QED BY <1>8, <1>9

LEMMA ChecksumIsCheck ==
  ASSUME NEW s
  PROVE  Checksum(s) \in 128 .. 255
<1>1. \A a, b : \A w \in Nat : XorBit(a, b, w) \in {0, w}
  BY DEF XorBit
<1> DEFINE X(w) == XorBit(PayloadSum(s), Len(s), w)
<1>2. /\ X(1) \in {0, 1} /\ X(2) \in {0, 2} /\ X(4) \in {0, 4} /\ X(8) \in {0, 8}
      /\ X(16) \in {0, 16} /\ X(32) \in {0, 32} /\ X(64) \in {0, 64}
  BY <1>1
<1>3. Checksum(s) = 128 + X(1) + X(2) + X(4) + X(8) + X(16) + X(32) + X(64)
  BY DEF Checksum
<1> HIDE DEF X
<1> QED BY <1>2, <1>3

LEMMA Prefix ==
  ASSUME NEW S, NEW s \in Seq(S), NEW k \in 0 .. Len(s)
  PROVE  /\ SubSeq(s, 1, k) \in Seq(S) /\ Len(SubSeq(s, 1, k)) = k
         /\ \A i \in 1 .. k : SubSeq(s, 1, k)[i] = s[i]
OBVIOUS

(* A prefix grows by the byte that follows it.                             *)
LEMMA PrefixGrows ==
  ASSUME NEW S, NEW s \in Seq(S), NEW k \in 0 .. Len(s) - 1
  PROVE  /\ SubSeq(s, 1, k) \o <<s[k + 1]>> = SubSeq(s, 1, k + 1)
         /\ Append(SubSeq(s, 1, k), s[k + 1]) = SubSeq(s, 1, k + 1)
<1> DEFINE p == SubSeq(s, 1, k)
           q == SubSeq(s, 1, k + 1)
           t == p \o <<s[k + 1]>>
<1>1. p \in Seq(S) /\ Len(p) = k /\ \A i \in 1 .. k : p[i] = s[i]
  BY Prefix
<1>2. q \in Seq(S) /\ Len(q) = k + 1 /\ \A i \in 1 .. k + 1 : q[i] = s[i]
  BY Prefix
<1>3. s[k + 1] \in S
  OBVIOUS
<1> HIDE DEF p, q
<1>4. t \in Seq(S) /\ Len(t) = k + 1 /\ t = Append(p, s[k + 1])
  BY <1>1, <1>3
<1>5. \A i \in 1 .. k + 1 : t[i] = s[i]
  BY <1>1, <1>3
<1>6. t = q
  BY <1>2, <1>4, <1>5, SeqEqual
<1> QED BY <1>4, <1>6 DEF p, q

LEMMA FrameWire ==
  ASSUME NEW m \in Messages, m.kind = "frame"
  PROVE  LET c == Head(m.bytes)
             s == Tail(m.bytes)
             w == Wire(m)
             e == Place(s, Len(s) + 1)
         IN  /\ s \in Seq(Byte) /\ Len(s) <= MaxPayload /\ m.bytes = <<c>> \o s
             /\ c \in (32 .. 126) \ (Selectors \union TouchTypes \union {Star, Esc})
             /\ w \in Seq(Byte) /\ e \in Nat \ {0} /\ Len(w) = e + 3
             /\ w[1] = Star /\ w[2] = c
             /\ \A i \in 1 .. Len(s) :
                  w[Place(s, i) + 2] = s[i] /\ (s[i] = Star => w[Place(s, i) + 3] = Esc)
             /\ w[e + 2] = Star /\ w[e + 3] = Checksum(s)
<1> DEFINE c == Head(m.bytes)
           s == Tail(m.bytes)
           x == Escaped(s)
           w == Wire(m)
           e == Place(s, Len(s) + 1)
<1>1. m.bytes \in Seq(Byte) /\ m.bytes # <<>> /\ Len(s) <= MaxPayload
      /\ c \in (32 .. 126) \ (Selectors \union TouchTypes \union {Star, Esc})
  BY MessagesAssumption, ZenonT(60) DEF IsFrame, IsReport, IsTouch
<1>2. s \in Seq(Byte) /\ m.bytes = <<c>> \o s /\ c \in Byte
  BY <1>1
<1>3. w = <<Star, c>> \o x \o <<Star, Checksum(s)>>
  BY DEF Wire
<1> HIDE DEF c, s
<1>4. Len(s) \in Nat /\ Len(s) + 1 \in Nat \ {0}
  BY <1>2
<1>5. e \in Nat \ {0}
  BY <1>4, PlaceNext
<1>6. x \in Seq(Byte) /\ Len(x) = e - 1
  BY <1>2, EscapedBytes
<1>7. Star \in Byte /\ Checksum(s) \in Byte
  BY ChecksumIsCheck DEF Star, Byte
<1> HIDE DEF x, w, e
<1> DEFINE y == <<Star, c>> \o x
<1>8. /\ y \in Seq(Byte) /\ Len(y) = e + 1 /\ y[1] = Star /\ y[2] = c
      /\ \A p \in 1 .. e - 1 : y[p + 2] = x[p]
  BY <1>2, <1>5, <1>6, <1>7
<1>9. w = y \o <<Star, Checksum(s)>>
  BY <1>3
<1> HIDE DEF y
<1>11. w \in Seq(Byte) /\ Len(w) = e + 3 /\ w[e + 2] = Star /\ w[e + 3] = Checksum(s)
  BY <1>5, <1>7, <1>8, <1>9, SMTT(60)
<1>12. \A p \in 1 .. e + 1 : w[p] = y[p]
  BY <1>5, <1>7, <1>8, <1>9
<1>13. w[1] = Star /\ w[2] = c
  BY <1>5, <1>8, <1>12
<1>14. \A p \in 1 .. e - 1 : w[p + 2] = x[p]
  BY <1>5, <1>8, <1>12
<1>10. ASSUME NEW i \in 1 .. Len(s)
       PROVE  w[Place(s, i) + 2] = s[i] /\ (s[i] = Star => w[Place(s, i) + 3] = Esc)
  <2>1. i \in Nat \ {0} /\ i + 1 \in Nat \ {0} /\ i + 1 <= Len(s) + 1
    BY <1>4
  <2>2. /\ Place(s, i) \in Nat \ {0}
        /\ Place(s, i + 1) = Place(s, i) + (IF s[i] = Star THEN 2 ELSE 1)
        /\ Place(s, i + 1) <= e
    BY <1>4, <2>1, PlaceNext DEF e
  <2>3. Place(s, i) \in 1 .. e - 1 /\ (s[i] = Star => Place(s, i) + 1 \in 1 .. e - 1)
    BY <1>5, <2>2, SMTT(60)
  <2>4. x[Place(s, i)] = s[i] /\ (s[i] = Star => x[Place(s, i) + 1] = Esc)
    BY <1>2, EscapedBytes DEF x
  <2>5. s[i] = Star => w[Place(s, i) + 1 + 2] = Esc
    BY <1>14, <2>3, <2>4
  <2>6. Place(s, i) + 1 + 2 = Place(s, i) + 3
    BY <2>2
  <2> QED BY <1>14, <2>3, <2>4, <2>5, <2>6
<1> QED BY <1>1, <1>2, <1>5, <1>10, <1>11, <1>13 DEF c, s, e, w

\* The parser inside frame m, with i bytes of its payload and perhaps a star read.
Reading(m, i, star) == InFrame(star, TRUE, Head(m.bytes), SubSeq(Tail(m.bytes), 1, i))

\* A parser that has read the first k bytes of a frame.
ReadTo(p, m, k) ==
  LET s == Tail(m.bytes) IN
  \/ \E i \in 0 .. Len(s) : k = Place(s, i + 1) + 1 /\ p = Reading(m, i, FALSE)
  \/ \E i \in 1 .. Len(s) : s[i] = Star /\ k = Place(s, i) + 2 /\ p = Reading(m, i - 1, TRUE)
  \/ k = Place(s, Len(s) + 1) + 2 /\ p = Reading(m, Len(s), TRUE)

LEMMA FeedWhileReading ==
  ASSUME NEW m, NEW i, NEW b
  PROVE  LET stored == SubSeq(Tail(m.bytes), 1, i)
             p == Reading(m, i, FALSE)
             q == Reading(m, i, TRUE)
         IN
         /\ p.in_frame /\ q.in_frame /\ ~Emits(p, b)
         /\ b # Star => Feed(p, b) = InFrame(FALSE, TRUE, Head(m.bytes), Pushed(stored, <<b>>))
         /\ Feed(p, Star) = q
         /\ ~Emits(q, Esc)
         /\ Feed(q, Esc) = InFrame(FALSE, TRUE, Head(m.bytes), Pushed(stored, <<Star>>))
         /\ b \in 128 .. 255 => Emits(q, b) /\ Feed(q, b) = Idle
         /\ q.cmd = Head(m.bytes) /\ q.payload = stored
<1>1. \A star : LET p == Reading(m, i, star) IN
        /\ p.in_frame = TRUE /\ p.after_star = star /\ p.have_cmd = TRUE
        /\ p.cmd = Head(m.bytes) /\ p.payload = SubSeq(Tail(m.bytes), 1, i)
  BY DEF Reading, InFrame
<1> DEFINE stored == SubSeq(Tail(m.bytes), 1, i)
           p == Reading(m, i, FALSE)
           q == Reading(m, i, TRUE)
<1>2. Esc # Star /\ ~IsCheck(Esc)
  BY DEF Esc, Star, IsCheck
<1>3. b # Star => Feed(p, b) = InFrame(FALSE, TRUE, Head(m.bytes), Pushed(stored, <<b>>))
  BY <1>1, Zenon DEF Feed, FeedInside, Push
<1>4. Feed(p, Star) = q
  BY <1>1, Zenon DEF Feed, FeedInside, Reading
<1>5. Feed(q, Esc) = InFrame(FALSE, TRUE, Head(m.bytes), Pushed(stored, <<Star>>))
  BY <1>1, <1>2, Zenon DEF Feed, FeedAfterStar, Push
<1>6. b \in 128 .. 255 => b # Star /\ b # Esc /\ IsCheck(b)
  BY DEF Esc, Star, IsCheck
<1>7. b \in 128 .. 255 => Feed(q, b) = Idle
  BY <1>1, <1>6, Zenon DEF Feed, FeedAfterStar
<1>8. ~Emits(p, b) /\ ~Emits(q, Esc) /\ (b \in 128 .. 255 => Emits(q, b))
  BY <1>1, <1>2, <1>6, ZenonT(60) DEF Emits
<1> QED BY <1>1, <1>3, <1>4, <1>5, <1>7, <1>8, ZenonT(60)

\* The next byte keeps a parser in its place, or ends the frame.
LEMMA FrameByte ==
  ASSUME NEW m \in Messages, m.kind = "frame", NEW k \in Nat, NEW p, ReadTo(p, m, k),
         k < Len(Wire(m))
  PROVE  LET b == Wire(m)[k + 1] IN
         /\ p.in_frame
         /\ k + 1 < Len(Wire(m)) => ~Emits(p, b) /\ ReadTo(Feed(p, b), m, k + 1)
         /\ k + 1 = Len(Wire(m)) => /\ Emits(p, b) /\ Feed(p, b) = Idle
                                    /\ <<p.cmd>> \o p.payload = m.bytes
<1> DEFINE c == Head(m.bytes)
           s == Tail(m.bytes)
           n == Len(s)
           w == Wire(m)
           e == Place(s, n + 1)
           b == w[k + 1]
           Goal == /\ p.in_frame
                   /\ k + 1 < Len(w) => ~Emits(p, b) /\ ReadTo(Feed(p, b), m, k + 1)
                   /\ k + 1 = Len(w) => /\ Emits(p, b) /\ Feed(p, b) = Idle
                                        /\ <<p.cmd>> \o p.payload = m.bytes
<1>1. /\ s \in Seq(Byte) /\ n \in Nat /\ n <= MaxPayload /\ m.bytes = <<c>> \o s
      /\ w \in Seq(Byte) /\ e \in Nat \ {0} /\ Len(w) = e + 3
      /\ w[e + 2] = Star /\ w[e + 3] = Checksum(s)
  BY FrameWire, SMTT(60)
<1>2. \A i \in 1 .. n : w[Place(s, i) + 2] = s[i] /\ (s[i] = Star => w[Place(s, i) + 3] = Esc)
  BY FrameWire
<1>3. ASSUME NEW i \in 1 .. n
      PROVE  /\ Place(s, i) \in Nat \ {0} /\ Place(s, i) < e
             /\ Place(s, i + 1) = Place(s, i) + (IF s[i] = Star THEN 2 ELSE 1)
             /\ Place(s, i + 1) <= e
  <2>1. i \in Nat \ {0} /\ i + 1 \in Nat \ {0} /\ n + 1 \in Nat \ {0} /\ i + 1 <= n + 1
    BY <1>1, SMTT(60)
  <2>2. Place(s, i) \in Nat \ {0} /\ Place(s, i + 1) <= e
        /\ Place(s, i + 1) = Place(s, i) + (IF s[i] = Star THEN 2 ELSE 1)
    BY <2>1, PlaceNext
  <2>3. e \in Nat
    BY <1>1
  <2> HIDE DEF e, s, n, w
  <2> QED BY <2>2, <2>3
<1>4. ASSUME NEW i \in 1 .. n
      PROVE  InFrame(FALSE, TRUE, c, Pushed(SubSeq(s, 1, i - 1), <<s[i]>>)) = Reading(m, i, FALSE)
  <2>1. i - 1 \in 0 .. n - 1 /\ (i - 1) + 1 = i
    BY <1>1
  <2>2. SubSeq(s, 1, i - 1) \o <<s[i]>> = SubSeq(s, 1, i) /\ Len(SubSeq(s, 1, i - 1)) = i - 1
    BY <1>1, <2>1, PrefixGrows, Prefix, SMTT(60)
  <2>3. Len(<<s[i]>>) = 1 /\ i - 1 + 1 <= MaxPayload
    BY <1>1, MaxPayloadAssumption
  <2> QED BY <2>2, <2>3 DEF Pushed, Reading
<1>5. ASSUME NEW i \in 0 .. n
      PROVE  Place(s, i + 1) \in Nat
  <2>1. i + 1 \in Nat \ {0}
    BY <1>1
  <2> QED BY <2>1, PlaceNext
<1> HIDE DEF c, s, n, w, e
<1>9. n \in Nat /\ e \in Nat \ {0} /\ Len(w) = e + 3 /\ w[e + 2] = Star
  BY <1>1, Zenon
<1>6. ASSUME NEW i \in 0 .. n, k = Place(s, i + 1) + 1, p = Reading(m, i, FALSE)
      PROVE  Goal
  <2>1. p.in_frame /\ ~Emits(p, b)
    BY <1>6, FeedWhileReading, ZenonT(60)
  <2>2. CASE i = n
    <3>1. k + 1 = e + 2 /\ b = Star /\ k + 1 < Len(w)
      <4>1. k = e + 1
        BY <1>6, <2>2 DEF e
      <4>2. k + 1 = e + 2
        BY <1>9, <4>1
      <4> QED BY <1>9, <4>2
    <3>2. Feed(p, b) = Reading(m, n, TRUE)
      BY <1>6, <2>2, <3>1, FeedWhileReading, ZenonT(60)
    <3>3. ReadTo(Feed(p, b), m, k + 1)
      BY <3>1, <3>2 DEF ReadTo, e, n, s
    <3> QED BY <2>1, <3>1, <3>3
  <2>3. CASE i # n
    <3>1. i + 1 \in 1 .. n /\ (i + 1) - 1 = i
      BY <1>1, <2>3
    <3>2. k + 1 = Place(s, i + 1) + 2 /\ b = s[i + 1] /\ k + 1 < Len(w)
      <4>1. Place(s, i + 1) \in Nat /\ Place(s, i + 1) < e
        BY <1>3, <3>1
      <4>2. k + 1 = Place(s, i + 1) + 2 /\ k + 1 < Len(w)
        BY <1>6, <1>9, <4>1, SMTT(60)
      <4>3. b = s[i + 1]
        BY <1>2, <3>1, <4>2
      <4> QED BY <4>2, <4>3
    <3>3. CASE s[i + 1] = Star
      <4>1. Feed(p, b) = Reading(m, (i + 1) - 1, TRUE)
        <5>1. b = Star
          BY <3>2, <3>3
        <5>2. Feed(Reading(m, i, FALSE), Star) = Reading(m, i, TRUE)
          BY FeedWhileReading
        <5> QED BY <1>6, <3>1, <5>1, <5>2
      <4>2. ReadTo(Feed(p, b), m, k + 1)
        BY <3>1, <3>2, <3>3, <4>1, Zenon DEF ReadTo, n, s
      <4> QED BY <2>1, <3>2, <4>2
    <3>4. CASE s[i + 1] # Star
      <4>1. Feed(p, b) = InFrame(FALSE, TRUE, c, Pushed(SubSeq(s, 1, i), <<b>>))
        <5>1. b # Star
          BY <3>2, <3>4
        <5> HIDE DEF b
        <5> QED BY <1>6, <5>1, FeedWhileReading, ZenonT(60) DEF c, s
      <4>2. Feed(p, b) = Reading(m, i + 1, FALSE)
        BY <1>4, <3>1, <3>2, <4>1
      <4>3. k + 1 = Place(s, (i + 1) + 1) + 1 /\ i + 1 \in 0 .. n
        BY <1>3, <1>6, <3>1, <3>4, SMTT(60)
      <4>4. ReadTo(Feed(p, b), m, k + 1)
        BY <4>2, <4>3, Zenon DEF ReadTo, n, s
      <4> QED BY <2>1, <3>2, <4>4
    <3> QED BY <3>3, <3>4
  <2> QED BY <2>2, <2>3
<1>7. ASSUME NEW i \in 1 .. n, s[i] = Star, k = Place(s, i) + 2, p = Reading(m, i - 1, TRUE)
      PROVE  Goal
  <2>1. k + 1 = Place(s, i) + 3 /\ b = Esc /\ k + 1 < Len(w)
    <3>1. Place(s, i) \in Nat /\ Place(s, i) < e
      BY <1>3
    <3>2. k + 1 = Place(s, i) + 3 /\ k + 1 < Len(w)
      <4>1. Place(s, i + 1) = Place(s, i) + 2 /\ Place(s, i + 1) <= e
        BY <1>3, <1>7
      <4> QED BY <1>7, <1>9, <3>1, <4>1, SMTT(60)
    <3>3. b = Esc
      BY <1>2, <1>7, <3>2
    <3> QED BY <3>2, <3>3
  <2>2. p.in_frame /\ ~Emits(p, b)
        /\ Feed(p, b) = InFrame(FALSE, TRUE, c, Pushed(SubSeq(s, 1, i - 1), <<Star>>))
    <3>1. PICK j : j = i - 1
      OBVIOUS
    <3>2. /\ Reading(m, j, TRUE).in_frame /\ ~Emits(Reading(m, j, TRUE), Esc)
          /\ Feed(Reading(m, j, TRUE), Esc) =
               InFrame(FALSE, TRUE, c, Pushed(SubSeq(s, 1, j), <<Star>>))
      BY FeedWhileReading, ZenonT(60) DEF c, s
    <3>3. p = Reading(m, j, TRUE) /\ b = Esc
      BY <1>7, <2>1, <3>1, Zenon
    <3> HIDE DEF b
    <3> QED BY <3>1, <3>2, <3>3, Zenon
  <2>3. Feed(p, b) = Reading(m, i, FALSE)
    BY <1>4, <1>7, <2>2
  <2>4. k + 1 = Place(s, i + 1) + 1 /\ i \in 0 .. n
    BY <1>3, <1>7, SMTT(60)
  <2>5. ReadTo(Feed(p, b), m, k + 1)
    BY <2>3, <2>4, Zenon DEF ReadTo, n, s
  <2>6. k + 1 # Len(w)
    BY <1>1, <2>1
  <2> QED BY <2>2, <2>5, <2>6
<1>8. ASSUME k = e + 2, p = Reading(m, n, TRUE)
      PROVE  Goal
  <2>1. k + 1 = e + 3 /\ b = Checksum(s) /\ b \in 128 .. 255 /\ k + 1 = Len(w)
    BY <1>1, <1>8, ChecksumIsCheck
  <2>2. p.in_frame /\ Emits(p, b) /\ Feed(p, b) = Idle /\ p.cmd = c /\ p.payload = SubSeq(s, 1, n)
    <3>1. b \in 128 .. 255
      BY <2>1
    <3> HIDE DEF b
    <3> QED BY <1>8, <3>1, FeedWhileReading, ZenonT(60) DEF c, s
  <2>3. SubSeq(s, 1, n) = s
    BY <1>1 DEF n
  <2> QED BY <1>1, <2>1, <2>2, <2>3
<1>10. Goal
  BY <1>6, <1>7, <1>8 DEF ReadTo, s, n, e
<1> QED BY <1>10 DEF w

LEMMA AppendAt ==
  ASSUME NEW S, NEW s \in Seq(S), NEW b \in S
  PROVE  /\ Append(s, b) \in Seq(S) /\ Len(Append(s, b)) = Len(s) + 1
         /\ \A i \in 1 .. Len(s) + 1 : Append(s, b)[i] = IF i = Len(s) + 1 THEN b ELSE s[i]
OBVIOUS

LEMMA AppendPair ==
  ASSUME NEW S, NEW a \in S, NEW b \in S
  PROVE  Append(<<a>>, b) = <<a, b>>
<1> DEFINE s == Append(<<a>>, b)
           t == <<a, b>>
<1>1. <<a>> \in Seq(S) /\ Len(<<a>>) = 1 /\ <<a>>[1] = a
  OBVIOUS
<1>2. s \in Seq(S) /\ Len(s) = 2 /\ \A i \in 1 .. 2 : s[i] = IF i = 2 THEN b ELSE <<a>>[i]
  BY <1>1, AppendAt
<1>3. t \in Seq(S) /\ Len(t) = 2 /\ t[1] = a /\ t[2] = b
  OBVIOUS
<1> HIDE DEF s, t
<1>4. \A i \in 1 .. 2 : s[i] = t[i]
  BY <1>1, <1>2, <1>3
<1>5. s = t
  BY <1>2, <1>3, <1>4, SeqEqual
<1> QED BY <1>5 DEF s, t

-----------------------------------------------------------------------------
(* The receiver in order: what it holds at each place of a message.        *)

\* Nothing but p in the parser and r in raw; no touch report, star or unknown byte.
Calm(a, p, r, log) ==
  /\ IsApp(a) /\ a.parser = p /\ a.raw = r /\ a.log = log
  /\ a.touch = FALSE /\ a.star = FALSE /\ a.unknown = <<>>

\* In a touch report, and in nothing else.
Touched(a, type, coords, log) ==
  /\ IsApp(a) /\ a.parser = Idle /\ a.raw = <<>> /\ a.log = log
  /\ a.touch = TRUE /\ a.star = FALSE /\ a.unknown = <<>>
  /\ a.type = type /\ a.buf = coords

\* A star that opens a message; what was there before it is still to be logged.
Opening(a, log) ==
  /\ IsApp(a) /\ a.parser = Idle /\ a.raw = <<>> /\ a.star = TRUE /\ a.touch \in BOOLEAN
  /\ log = FlushUnknown(FlushTouch(a)).log

LEMMA FlushLeaves ==
  ASSUME NEW a, IsApp(a), a.touch \in BOOLEAN
  PROVE  LET f == FlushUnknown(FlushTouch(a)) IN
         /\ IsApp(f) /\ f.parser = a.parser /\ f.raw = a.raw /\ f.waiting = a.waiting
         /\ f.star = a.star /\ f.touch = FALSE /\ f.unknown = <<>>
         /\ a.unknown = <<>> =>
              f.log = IF a.touch THEN Append(a.log, Event("touch", <<a.type>> \o a.buf)) ELSE a.log
<1> DEFINE e == Event("touch", <<a.type>> \o a.buf)
           d == FlushTouch(a)
           u == Event("unknown", d.unknown)
           f == FlushUnknown(d)
<1>1. /\ IsApp(d) /\ d.parser = a.parser /\ d.raw = a.raw /\ d.waiting = a.waiting
      /\ d.star = a.star /\ d.touch = FALSE /\ d.unknown = a.unknown
      /\ d.log = IF a.touch THEN Append(a.log, e) ELSE a.log
  <2>1. CASE a.touch = FALSE
    <3>1. d = a
      BY <2>1 DEF FlushTouch
    <3> QED BY <2>1, <3>1
  <2>2. CASE a.touch = TRUE
    <3>1. d = [a EXCEPT !.touch = FALSE, !.buf = <<>>, !.log = Append(@, e)]
      BY <2>2 DEF FlushTouch
    <3> HIDE DEF d, e
    <3> QED BY <2>2, <3>1 DEF IsApp, Fields
  <2> QED BY <2>1, <2>2
<1> HIDE DEF d, e
<1>2. CASE d.unknown = <<>>
  <2>1. f = d
    BY <1>2 DEF FlushUnknown
  <2> QED BY <1>1, <1>2, <2>1 DEF d, e
<1>3. CASE d.unknown # <<>>
  <2>1. f = [d EXCEPT !.unknown = <<>>, !.log = Append(@, u)]
    BY <1>3 DEF FlushUnknown
  <2> HIDE DEF f, u
  <2>2. /\ IsApp(f) /\ f.parser = d.parser /\ f.raw = d.raw /\ f.waiting = d.waiting
        /\ f.star = d.star /\ f.touch = d.touch /\ f.unknown = <<>>
    BY <1>1, <2>1 DEF IsApp, Fields
  <2> QED BY <1>1, <1>3, <2>2 DEF d, f
<1> QED BY <1>2, <1>3

LEMMA StarOpens ==
  ASSUME NEW a, NEW log
  PROVE  /\ Calm(a, Idle, <<>>, log) => Opening(Rx(a, Star), log)
         /\ \A type, coords : Touched(a, type, coords, log)
              => Opening(Rx(a, Star), Append(log, Event("touch", <<type>> \o coords)))
<1> DEFINE c == [a EXCEPT !.star = TRUE]
<1>1. Idle.in_frame = FALSE
  BY DEF Idle
<1>2. ASSUME IsApp(a), a.parser = Idle, a.raw = <<>>, a.star = FALSE
      PROVE  Rx(a, Star) = c
  BY <1>1, <1>2 DEF Rx
<1>3. ASSUME IsApp(a)
      PROVE  /\ IsApp(c) /\ c.parser = a.parser /\ c.raw = a.raw /\ c.touch = a.touch
             /\ c.type = a.type /\ c.buf = a.buf /\ c.star = TRUE
             /\ c.unknown = a.unknown /\ c.log = a.log
  BY <1>3 DEF IsApp, Fields
<1> HIDE DEF c
<1>4. ASSUME IsApp(a), a.unknown = <<>>, a.touch \in BOOLEAN
      PROVE  FlushUnknown(FlushTouch(c)).log =
               IF a.touch THEN Append(a.log, Event("touch", <<a.type>> \o a.buf)) ELSE a.log
  BY <1>3, <1>4, FlushLeaves, ZenonT(60)
<1>5. ASSUME Calm(a, Idle, <<>>, log)
      PROVE  Opening(Rx(a, Star), log)
  <2>1. IsApp(a) /\ a.parser = Idle /\ a.raw = <<>> /\ a.star = FALSE /\ a.unknown = <<>>
        /\ a.touch = FALSE /\ a.log = log
    BY <1>5 DEF Calm
  <2> QED BY <1>2, <1>3, <1>4, <2>1 DEF Opening
<1>6. ASSUME NEW type, NEW coords, Touched(a, type, coords, log)
      PROVE  Opening(Rx(a, Star), Append(log, Event("touch", <<type>> \o coords)))
  <2>1. IsApp(a) /\ a.parser = Idle /\ a.raw = <<>> /\ a.star = FALSE /\ a.unknown = <<>>
        /\ a.touch = TRUE /\ a.log = log /\ a.type = type /\ a.buf = coords
    BY <1>6 DEF Touched
  <2> QED BY <1>2, <1>3, <1>4, <2>1 DEF Opening
<1> QED BY <1>5, <1>6

LEMMA OpensAnew ==
  ASSUME NEW a, NEW log, Opening(a, log), NEW b
  PROVE  LET c == [FlushUnknown(FlushTouch(a)) EXCEPT !.star = FALSE] IN
         /\ Rx(a, b) = AfterStar(a, b)
         /\ Calm(c, Idle, <<>>, log)
<1> DEFINE f == FlushUnknown(FlushTouch(a))
           c == [f EXCEPT !.star = FALSE]
<1>1. /\ IsApp(a) /\ a.parser = Idle /\ a.raw = <<>> /\ a.star = TRUE /\ a.touch \in BOOLEAN
      /\ log = f.log
  BY DEF Opening
<1>2. Rx(a, b) = AfterStar(a, b)
  BY <1>1 DEF Rx, Idle
<1>3. /\ IsApp(f) /\ f.parser = Idle /\ f.raw = <<>> /\ f.touch = FALSE
      /\ f.unknown = <<>> /\ f.log = log
  BY <1>1, FlushLeaves
<1> HIDE DEF f
<1>4. /\ IsApp(c) /\ c.parser = f.parser /\ c.raw = f.raw /\ c.touch = f.touch
      /\ c.star = FALSE /\ c.unknown = f.unknown /\ c.log = f.log
  BY <1>3 DEF IsApp, Fields
<1> HIDE DEF c
<1>5. Calm(c, Idle, <<>>, log)
  BY <1>3, <1>4 DEF Calm
<1> QED BY <1>2, <1>5 DEF c, f

LEMMA OpensTouch ==
  ASSUME NEW a, NEW log, Opening(a, log), NEW b \in TouchTypes
  PROVE  Touched(Rx(a, b), b, <<>>, log)
<1> DEFINE emptied == [FlushUnknown(FlushTouch(a)) EXCEPT !.star = FALSE]
           c == [emptied EXCEPT !.touch = TRUE, !.type = b, !.buf = <<>>]
<1>1. Rx(a, b) = c
  BY OpensAnew DEF AfterStar
<1>2. Calm(emptied, Idle, <<>>, log)
  BY OpensAnew
<1> HIDE DEF emptied
<1>3. IsApp(emptied)
  BY <1>2 DEF Calm
<1>4. /\ IsApp(c) /\ c.parser = emptied.parser /\ c.raw = emptied.raw /\ c.touch = TRUE
      /\ c.type = b /\ c.buf = <<>> /\ c.star = emptied.star
      /\ c.unknown = emptied.unknown /\ c.log = emptied.log
  BY <1>3 DEF IsApp, Fields
<1> HIDE DEF c
<1> QED BY <1>1, <1>2, <1>4 DEF Calm, Touched

LEMMA FeedCalm ==
  ASSUME NEW a, NEW p, NEW r, NEW log, Calm(a, p, r, log), NEW b
  PROVE  Calm(FeedFrame(a, b), Feed(p, b), r,
              IF Emits(p, b) THEN Append(log, Event("frame", <<p.cmd>> \o p.payload)) ELSE log)
<1> DEFINE c == FeedFrame(a, b)
           e == Event("frame", <<p.cmd>> \o p.payload)
           q == Feed(p, b)
<1>1. IsApp(a) /\ a.parser = p
  BY DEF Calm
<1>2. c = [a EXCEPT !.parser = Feed(@, b), !.log = IF Emits(p, b) THEN Append(@, e) ELSE @]
  BY <1>1 DEF FeedFrame
<1>3. /\ IsApp(c) /\ c.parser = Feed(a.parser, b) /\ c.raw = a.raw /\ c.touch = a.touch
      /\ c.star = a.star /\ c.unknown = a.unknown
      /\ c.log = IF Emits(p, b) THEN Append(a.log, e) ELSE a.log
  <2> HIDE DEF c, e
  <2> QED BY <1>1, <1>2 DEF IsApp, Fields
<1> HIDE DEF c, e
<1>4. Calm(c, q, r, IF Emits(p, b) THEN Append(log, e) ELSE log)
  BY <1>1, <1>3 DEF Calm
<1> QED BY <1>4 DEF c, e

LEMMA WithRawCalm ==
  ASSUME NEW a, NEW p, NEW r, NEW log, Calm(a, p, r, log), NEW s
  PROVE  /\ Calm([a EXCEPT !.raw = s], p, s, log)
         /\ Calm([[a EXCEPT !.raw = s] EXCEPT !.waiting = TRUE], p, s, log)
         /\ [[a EXCEPT !.raw = s] EXCEPT !.waiting = TRUE].waiting = TRUE
<1> DEFINE c == [a EXCEPT !.raw = s]
           d == [c EXCEPT !.waiting = TRUE]
<1>1. IsApp(a)
  BY DEF Calm
<1>2. /\ IsApp(c) /\ c.parser = a.parser /\ c.raw = s /\ c.touch = a.touch
      /\ c.star = a.star /\ c.unknown = a.unknown /\ c.log = a.log
  BY <1>1 DEF IsApp, Fields
<1>3. /\ IsApp(d) /\ d.parser = c.parser /\ d.raw = c.raw /\ d.touch = c.touch
      /\ d.star = c.star /\ d.unknown = c.unknown /\ d.log = c.log /\ d.waiting = TRUE
  <2> HIDE DEF c
  <2> QED BY <1>2 DEF IsApp, Fields
<1> HIDE DEF c, d
<1>4. Calm(c, p, s, log) /\ Calm(d, p, s, log)
  BY <1>2, <1>3 DEF Calm
<1> QED BY <1>3, <1>4 DEF c, d

LEMMA LogRawCalm ==
  ASSUME NEW a, NEW p, NEW r, NEW log, Calm(a, p, r, log)
  PROVE  Calm(LogRaw(a), p, <<>>, Append(log, Event("raw", r)))
<1> DEFINE c == LogRaw(a)
<1>1. IsApp(a)
  BY DEF Calm
<1>2. /\ IsApp(c) /\ c.parser = a.parser /\ c.raw = <<>> /\ c.touch = a.touch
      /\ c.star = a.star /\ c.unknown = a.unknown /\ c.log = Append(a.log, Event("raw", a.raw))
  BY <1>1 DEF IsApp, Fields, LogRaw
<1> HIDE DEF c
<1>3. Calm(c, p, <<>>, Append(log, Event("raw", r)))
  BY <1>2 DEF Calm
<1> QED BY <1>3 DEF c

\* The star and the byte behind it, for the detector.
LEMMA RawOpens ==
  ASSUME NEW a, NEW log, Calm(a, Idle, <<>>, log), NEW b \in Byte
  PROVE  LET r == Raw(Raw(a, Star).app, b) IN
         /\ b \in Selectors => r.status = 1 /\ Calm(r.app, Idle, <<Star, b>>, log)
         /\ b \notin Selectors => r.status = 0 /\ Calm(r.app, Idle, <<>>, log)
<1> DEFINE c == [a EXCEPT !.raw = <<Star>>]
           d == [c EXCEPT !.raw = <<Star, b>>]
           e == [c EXCEPT !.raw = <<>>]
<1>3. Calm(c, Idle, <<Star>>, log)
  BY WithRawCalm
<1>1. a.raw = <<>> /\ c.raw = <<Star>>
  <2> HIDE DEF c
  <2> QED BY <1>3 DEF Calm
<1>2. /\ Len(<<>>) = 0 /\ Len(<<Star>>) = 1 /\ Len(<<Star, b>>) = 2 /\ 0 < RawSize /\ 1 < RawSize
      /\ Append(<<>>, Star) = <<Star>> /\ Append(<<Star>>, b) = <<Star, b>> /\ <<Star>> # <<>>
  <2>1. Star \in Byte
    BY DEF Star, Byte
  <2>2. <<Star>> \in Seq(Byte) /\ Len(<<Star>>) = 1
    BY <2>1
  <2>3. Append(<<>>, Star) = <<Star>>
    BY <2>1
  <2>4. Append(<<Star>>, b) = <<Star, b>>
    BY <2>1, AppendPair
  <2> QED BY <2>2, <2>3, <2>4 DEF RawSize
<1>4. Raw(a, Star) = [status |-> 0, app |-> c]
  <2> HIDE DEF c
  <2>1. ~MayContinue(a.raw) /\ ~(Len(a.raw) >= RawSize) /\ Append(a.raw, Star) = <<Star>>
    BY <1>1, <1>2 DEF MayContinue, RawSize
  <2> QED BY <1>2, <2>1 DEF Raw, c
<1>5. Raw(a, Star).app = c
  BY <1>4, SMTT(60)
<1> HIDE DEF c
<1>6. Calm(d, Idle, <<Star, b>>, log) /\ Calm(e, Idle, <<>>, log)
  BY <1>3, WithRawCalm
<1>7. ~MayContinue(c.raw) /\ ~(Len(c.raw) >= RawSize) /\ Append(c.raw, b) = <<Star, b>> /\ c.raw # <<>>
  BY <1>1, <1>2 DEF MayContinue, RawSize
<1>8. ~ShapeComplete(<<Star, b>>)
  BY <1>2 DEF ShapeComplete
<1>9. b \in Selectors => Raw(c, b) = [status |-> 1, app |-> d]
  BY <1>2, <1>7, <1>8 DEF Raw
<1>10. b \notin Selectors => Raw(c, b) = [status |-> 0, app |-> e]
  BY <1>2, <1>7 DEF Raw
<1> HIDE DEF d, e
<1> QED BY <1>5, <1>6, <1>9, <1>10

LEMMA OpensReport ==
  ASSUME NEW a, NEW log, Opening(a, log), NEW b \in Selectors
  PROVE  Calm(Rx(a, b), Idle, <<Star, b>>, log)
<1> DEFINE emptied == [FlushUnknown(FlushTouch(a)) EXCEPT !.star = FALSE]
           r == Raw(Raw(emptied, Star).app, b)
<1>1. b \notin TouchTypes /\ Standard(b) /\ b \in Byte /\ b # Star
  BY DEF Selectors, TouchTypes, Standard, Byte, Star
<1>2. Rx(a, b) = Open(emptied, b) /\ Calm(emptied, Idle, <<>>, log)
  BY <1>1, OpensAnew DEF AfterStar
<1> HIDE DEF emptied
<1>3. r.status = 1 /\ Calm(r.app, Idle, <<Star, b>>, log)
  BY <1>1, <1>2, RawOpens
<1>4. Open(emptied, b) = r.app
  <2>1. Open(emptied, b) = Dispatch(r, FeedFrame(FeedFrame(r.app, Star), b))
    BY DEF Open
  <2> HIDE DEF r
  <2> QED BY <1>3, <2>1 DEF Dispatch
<1> QED BY <1>2, <1>3, <1>4

LEMMA OpensFrame ==
  ASSUME NEW a, NEW log, Opening(a, log),
         NEW b \in (32 .. 126) \ (Selectors \union TouchTypes \union {Star, Esc})
  PROVE  Calm(Rx(a, b), InFrame(FALSE, TRUE, b, <<>>), <<>>, log)
<1> DEFINE emptied == [FlushUnknown(FlushTouch(a)) EXCEPT !.star = FALSE]
           r == Raw(Raw(emptied, Star).app, b)
           c == FeedFrame(r.app, Star)
           d == FeedFrame(c, b)
           p == Restart(Idle)
<1>1. /\ b \notin TouchTypes /\ b \notin Selectors /\ Standard(b) /\ b \in Byte
      /\ b # Star /\ b # Esc /\ ~IsCheck(b)
  BY DEF Standard, Byte, IsCheck
<1>2. Rx(a, b) = Open(emptied, b) /\ Calm(emptied, Idle, <<>>, log)
  BY <1>1, OpensAnew DEF AfterStar
<1> HIDE DEF emptied
<1>3. r.status = 0 /\ Calm(r.app, Idle, <<>>, log)
  BY <1>1, <1>2, RawOpens
<1>4. Open(emptied, b) = d
  <2>1. Open(emptied, b) = Dispatch(r, d)
    BY DEF Open
  <2> HIDE DEF r, d
  <2> QED BY <1>3, <2>1 DEF Dispatch
<1> HIDE DEF r
<1>5. Idle.in_frame = FALSE /\ ~Emits(Idle, Star) /\ Feed(Idle, Star) = p
  BY DEF Idle, Emits, Feed
<1>6. Calm(c, p, <<>>, log)
  BY <1>3, <1>5, FeedCalm, ZenonT(60)
<1>7. p.in_frame = TRUE /\ p.after_star = TRUE /\ p.have_cmd = FALSE /\ p.payload = <<>>
  BY DEF Restart, InFrame
<1> HIDE DEF p
<1>8. ~Emits(p, b) /\ Feed(p, b) = InFrame(FALSE, TRUE, b, <<>>)
  BY <1>1, <1>7 DEF Emits, Feed, FeedAfterStar, Command
<1> HIDE DEF c
<1>9. Calm(d, InFrame(FALSE, TRUE, b, <<>>), <<>>, log)
  BY <1>6, <1>8, FeedCalm, ZenonT(60)
<1> QED BY <1>2, <1>4, <1>9

LEMMA FrameStep ==
  ASSUME NEW a, NEW p, NEW r, NEW log, Calm(a, p, r, log), p.in_frame, NEW b
  PROVE  Calm(Rx(a, b), Feed(p, b), r,
              IF Emits(p, b) THEN Append(log, Event("frame", <<p.cmd>> \o p.payload)) ELSE log)
<1>1. Rx(a, b) = FeedFrame(a, b)
  BY DEF Calm, Rx
<1> QED BY <1>1, FeedCalm

LEMMA ResetCalm ==
  ASSUME NEW a, NEW p, NEW r, NEW log, Calm(a, p, r, log)
  PROVE  Calm([a EXCEPT !.parser = Idle], Idle, r, log)
<1> DEFINE c == [a EXCEPT !.parser = Idle]
<1>1. IsApp(a)
  BY DEF Calm
<1>2. /\ IsApp(c) /\ c.parser = Idle /\ c.raw = a.raw /\ c.touch = a.touch
      /\ c.star = a.star /\ c.unknown = a.unknown /\ c.log = a.log
  BY <1>1 DEF IsApp, Fields
<1> HIDE DEF c
<1>3. Calm(c, Idle, r, log)
  BY <1>2 DEF Calm
<1> QED BY <1>3 DEF c

LEMMA ReportStep ==
  ASSUME NEW a, NEW n \in 2 .. 4, NEW r \in Seq(Byte), Len(r) = n,
         NEW log, Calm(a, Idle, r, log), NEW b \in Byte
  PROVE  LET q == Append(r, b) IN
         /\ ~MayContinue(r) /\ (ShapeComplete(q) => MayContinue(q)) =>
              Calm(Rx(a, b), Idle, q, log) /\ (ShapeComplete(q) => Rx(a, b).waiting = TRUE)
         /\ (~MayContinue(r) /\ ShapeComplete(q) /\ ~MayContinue(q)) \/ (MayContinue(r) /\ b # Star) =>
              Calm(Rx(a, b), Idle, <<>>, Append(log, Event("raw", q)))
         /\ MayContinue(r) /\ b = Star =>
              Calm(Rx(a, b), Restart(Idle), <<Star>>, Append(log, Event("raw", r)))
<1> DEFINE q == Append(r, b)
           put == [a EXCEPT !.raw = q]
           waits == [put EXCEPT !.waiting = TRUE]
           cut == [LogRaw(a) EXCEPT !.raw = <<b>>]
           v == Raw(a, b)
<1>1. Calm(put, Idle, q, log) /\ Calm(waits, Idle, q, log) /\ waits.waiting = TRUE
  BY WithRawCalm
<1>2. Calm(LogRaw(put), Idle, <<>>, Append(log, Event("raw", q)))
  <2> HIDE DEF put
  <2> QED BY <1>1, LogRawCalm
<1>3. Calm(cut, Idle, <<b>>, Append(log, Event("raw", r)))
  BY LogRawCalm, WithRawCalm
<1>4. Len(q) \in 3 .. 5 /\ r # <<>> /\ ~(Len(r) >= RawSize)
  <2>1. Len(q) = Len(r) + 1
    OBVIOUS
  <2>2. Len(r) # 0
    OBVIOUS
  <2> QED BY <2>1, <2>2 DEF RawSize
<1>5. a.raw = r /\ a.parser = Idle
  BY DEF Calm
<1>6. Rx(a, b) = Dispatch(v, FeedFrame(v.app, b))
  BY <1>4, <1>5 DEF Rx, Idle
<1> DEFINE Kept == IF ShapeComplete(q)
                     THEN IF MayContinue(q) THEN [status |-> 1, app |-> waits]
                                            ELSE [status |-> 2, app |-> LogRaw(put)]
                     ELSE [status |-> 1, app |-> put]
<1>18. ~MayContinue(r) => v = Kept
  <2>1. Len(q) # 1 /\ Len(q) # 2
    BY <1>4
  <2> HIDE DEF q
  <2>2. Append(r, b) = q
    BY DEF q
  <2> QED BY <1>4, <1>5, <2>1, <2>2 DEF Raw
<1> HIDE DEF q, put, waits, cut
<1>7. MayContinue(r) /\ b # Star => v.status = 2 /\ v.app = LogRaw(put)
  BY <1>4, <1>5 DEF Raw, q, put
<1>8. MayContinue(r) /\ b = Star => v.status = 0 /\ v.app = cut
  BY <1>5 DEF Raw, Split, cut
<1>9. ~MayContinue(r) /\ ~ShapeComplete(q) => v.status = 1 /\ v.app = put
  BY <1>18
<1>10. ~MayContinue(r) /\ ShapeComplete(q) /\ MayContinue(q) => v.status = 1 /\ v.app = waits
  BY <1>18
<1>11. ~MayContinue(r) /\ ShapeComplete(q) /\ ~MayContinue(q) => v.status = 2 /\ v.app = LogRaw(put)
  BY <1>18
<1> HIDE DEF v
<1>12. v.status = 1 => Rx(a, b) = v.app
  BY <1>6 DEF Dispatch
<1>13. v.status = 2 => Rx(a, b) = [v.app EXCEPT !.parser = Idle]
  BY <1>6 DEF Dispatch
<1>14. v.status = 0 => Rx(a, b) = FeedFrame(v.app, b)
  BY <1>6 DEF Dispatch
<1>15. ASSUME ~MayContinue(r), ShapeComplete(q) => MayContinue(q)
       PROVE  Calm(Rx(a, b), Idle, q, log) /\ (ShapeComplete(q) => Rx(a, b).waiting = TRUE)
  BY <1>1, <1>9, <1>10, <1>12, <1>15
<1>16. ASSUME \/ ~MayContinue(r) /\ ShapeComplete(q) /\ ~MayContinue(q)
              \/ MayContinue(r) /\ b # Star
       PROVE  Calm(Rx(a, b), Idle, <<>>, Append(log, Event("raw", q)))
  <2>1. Rx(a, b) = [LogRaw(put) EXCEPT !.parser = Idle]
    BY <1>7, <1>11, <1>13, <1>16
  <2> QED BY <1>2, <2>1, ResetCalm
<1>17. ASSUME MayContinue(r), b = Star
       PROVE  Calm(Rx(a, b), Restart(Idle), <<Star>>, Append(log, Event("raw", r)))
  <2>1. Rx(a, b) = FeedFrame(cut, Star)
    BY <1>8, <1>14, <1>17
  <2>2. ~Emits(Idle, Star) /\ Feed(Idle, Star) = Restart(Idle)
    BY DEF Idle, Emits, Feed
  <2> QED BY <1>3, <1>17, <2>1, <2>2, FeedCalm, Zenon
<1> QED BY <1>15, <1>16, <1>17 DEF q

LEMMA TouchStep ==
  ASSUME NEW a, NEW type, NEW s \in Seq(Byte), NEW log, Touched(a, type, s, log),
         Len(s) < BufSize, NEW b \in Byte, b # Star
  PROVE  Touched(Rx(a, b), type, Append(s, b), log)
<1> DEFINE c == [a EXCEPT !.star = FALSE, !.buf = Room(@, <<b>>)]
<1>1. /\ IsApp(a) /\ a.parser = Idle /\ a.raw = <<>> /\ a.touch = TRUE /\ a.star = FALSE
      /\ a.buf = s
  BY DEF Touched
<1>2. Rx(a, b) = c
  BY <1>1 DEF Rx, Idle, Collect
<1>3. Room(s, <<b>>) = Append(s, b)
  BY DEF Room, BufSize
<1>4. /\ IsApp(c) /\ c.parser = a.parser /\ c.raw = a.raw /\ c.touch = a.touch
      /\ c.type = a.type /\ c.buf = Room(a.buf, <<b>>) /\ c.star = FALSE
      /\ c.unknown = a.unknown /\ c.log = a.log
  BY <1>1 DEF IsApp, Fields
<1> HIDE DEF c
<1> QED BY <1>1, <1>2, <1>3, <1>4 DEF Touched

LEMMA FlushCalm ==
  ASSUME NEW a, NEW r, NEW log, Calm(a, Idle, r, log)
  PROVE  /\ r = <<>> => FlushRaw(a) = a /\ FlushAll(a) = a
         /\ MayContinue(r) /\ a.waiting = TRUE =>
              /\ Calm(FlushRaw(a), Idle, <<>>, Append(log, Event("raw", r)))
              /\ Calm(FlushAll(a), Idle, <<>>, Append(log, Event("raw", r)))
<1>1. a.raw = r
  BY DEF Calm
<1>2. ASSUME NEW c, NEW s, NEW l, Calm(c, Idle, s, l)
      PROVE  FlushUnknown(FlushTouch(c)) = c
  BY <1>2 DEF Calm, FlushTouch, FlushUnknown
<1>3. ~MayContinue(<<>>)
  BY DEF MayContinue
<1>4. ASSUME r = <<>>
      PROVE  FlushRaw(a) = a /\ FlushAll(a) = a
  BY <1>1, <1>2, <1>3, <1>4 DEF FlushRaw, FlushAll
<1>5. ASSUME MayContinue(r), a.waiting = TRUE
      PROVE  /\ Calm(FlushRaw(a), Idle, <<>>, Append(log, Event("raw", r)))
             /\ Calm(FlushAll(a), Idle, <<>>, Append(log, Event("raw", r)))
  <2>1. FlushRaw(a) = LogRaw(a)
    BY <1>1, <1>5 DEF FlushRaw
  <2>2. Calm(LogRaw(a), Idle, <<>>, Append(log, Event("raw", r)))
    BY LogRawCalm
  <2>3. FlushAll(a) = LogRaw(a)
    BY <1>2, <2>1, <2>2 DEF FlushAll
  <2> QED BY <2>1, <2>2, <2>3
<1> QED BY <1>4, <1>5

LEMMA FlushTouched ==
  ASSUME NEW a, NEW type, NEW s, NEW log, Touched(a, type, s, log)
  PROVE  /\ FlushRaw(a) = a
         /\ Calm(FlushAll(a), Idle, <<>>, Append(log, Event("touch", <<type>> \o s)))
<1> DEFINE e == Event("touch", <<type>> \o s)
           c == FlushTouch(a)
<1>1. /\ IsApp(a) /\ a.parser = Idle /\ a.raw = <<>> /\ a.log = log
      /\ a.touch = TRUE /\ a.star = FALSE /\ a.unknown = <<>> /\ a.type = type /\ a.buf = s
  BY DEF Touched
<1>2. ~MayContinue(a.raw)
  BY <1>1 DEF MayContinue
<1>3. FlushRaw(a) = a
  BY <1>2 DEF FlushRaw
<1>4. c = [a EXCEPT !.touch = FALSE, !.buf = <<>>, !.log = Append(@, e)]
  BY <1>1 DEF FlushTouch
<1> HIDE DEF e, c
<1>5. /\ IsApp(c) /\ c.parser = a.parser /\ c.raw = a.raw /\ c.touch = FALSE
      /\ c.star = a.star /\ c.unknown = a.unknown /\ c.log = Append(a.log, e)
  BY <1>1, <1>4 DEF IsApp, Fields
<1>6. Calm(c, Idle, <<>>, Append(log, e))
  BY <1>1, <1>5 DEF Calm
<1>7. FlushUnknown(c) = c
  BY <1>6 DEF Calm, FlushUnknown
<1>8. FlushAll(a) = c
  BY <1>3, <1>7 DEF FlushAll, c
<1> QED BY <1>3, <1>6, <1>8 DEF e

-----------------------------------------------------------------------------
(* A receiver that is handed every byte of the line in order.              *)

\* Between two messages: log is what is logged once a touch report is.
Ready(a, log) ==
  \/ Calm(a, Idle, <<>>, log)
  \/ /\ Touched(a, a.type, a.buf, a.log)
     /\ log = Append(a.log, Event("touch", <<a.type>> \o a.buf))

\* Inside message m, of which k bytes have been handled.
Inside(a, m, k, log) ==
  IF k = 1 THEN Opening(a, log)
  ELSE \/ m.kind = "frame" /\ Calm(a, a.parser, <<>>, log) /\ ReadTo(a.parser, m, k)
       \/ /\ m.kind = "raw" /\ Calm(a, Idle, SubSeq(m.bytes, 1, k), log)
          /\ MayContinue(SubSeq(m.bytes, 1, k)) => a.waiting = TRUE
       \/ m.kind = "touch" /\ Touched(a, m.bytes[1], SubSeq(m.bytes, 2, k - 1), log)

\* Inside a frame that cut a report short: its star is still in raw.
InsideCut(a, m, k, log) ==
  /\ Calm(a, a.parser, <<Star>>, log)
  /\ IF k = 1 THEN a.parser = Restart(Idle) ELSE ReadTo(a.parser, m, k)

\* A four-byte report that may have a fifth byte.
Pending(m) == m.kind = "raw" /\ MayContinue(m.bytes)

\* After message m: a report that may continue waits to be seen as ended.
After(a, m, log, ended) ==
  IF Pending(m) /\ ~ended THEN Calm(a, Idle, m.bytes, log) /\ a.waiting = TRUE
  ELSE Ready(a, Append(log, m))

\* The bytes of message n of s on the line.
Size(s, n) == IF n = 0 THEN 0 ELSE Len(Wire(s[n]))

\* e is the byte that comes next to byte k of message n.
Follows(s, n, k, e) ==
  \/ e[1] = n /\ e[2] = k + 1
  \/ e[1] = n + 1 /\ e[2] = 1 /\ k = Size(s, n)

\* The bytes r are on the line: none is missing but where the line began.
Ordered(r, s) ==
  /\ r \in Seq((1 .. Len(s)) \X Nat \X Byte)
  /\ \A i \in DOMAIN r :
       /\ r[i][2] \in 1 .. Size(s, r[i][1])
       /\ r[i][3] = Wire(s[r[i][1]])[r[i][2]]
       /\ i + 1 \in DOMAIN r => Follows(s, r[i][1], r[i][2], r[i + 1])
       /\ i = Len(r) => r[i][1] = Len(s) /\ r[i][2] = Size(s, Len(s))

\* Byte k of message begun is the last one handled.
Reached(k) ==
  /\ IF begun = 0 THEN k = 0 ELSE k \in 1 .. Size(sent, begun)
  /\ IF rest = <<>> THEN begun = Len(sent) /\ k = Size(sent, begun)
                    ELSE Follows(sent, begun, k, Head(rest))
  /\ flushed \subseteq 0 .. begun
  /\ begun \in flushed => k = Size(sent, begun)

\* Up to message n nothing has happened that the receiver cannot tell.
Clean(n) ==
  /\ \A c \in 1 .. n : ~Starred(c)
  /\ \A c \in 1 .. n - 1 : Pending(sent[c]) => c \in flushed

\* What is sent before message n.
Before(n) == SubSeq(sent, 1, n - 1)

\* What the receiver holds when byte k of message begun is the last one handled.
Holds(k) ==
  IF begun = 0 THEN Calm(app, Idle, <<>>, <<>>)
  ELSE IF k = Size(sent, begun)
    THEN After(app, sent[begun], Before(begun), begun \in flushed)
  ELSE Inside(app, sent[begun], k, Before(begun))

\* Report n was cut short by a frame: both are logged once the frame ends.
Keeps(n, k) ==
  IF begun = n + 1 /\ k < Size(sent, begun)
    THEN InsideCut(app, sent[begun], k, SubSeq(sent, 1, n))
  ELSE Len(app.log) >= n + 1 /\ \A i \in 1 .. n + 1 : app.log[i] = sent[i]

\* The receiver is where the line is.  The third part outlives Clean(begun): the
\* first cut spoils what comes later, but not what is logged by then.
InStep(k) ==
  /\ Reached(k)
  /\ Clean(begun) => Holds(k)
  /\ \A n \in 1 .. begun - 1 :
       Clean(n) /\ Pending(sent[n]) /\ n \notin flushed /\ sent[n + 1].kind = "frame"
         => Keeps(n, k)

\* The inductive invariant.  Once a byte is lost nothing is said of the place.
DInv ==
  /\ TypeOK
  /\ Ordered(rest, sent)
  /\ lost = <<>> => \E k \in Nat : InStep(k)

-----------------------------------------------------------------------------
(* Messages, byte by byte.                                                 *)

LEMMA Middle ==
  ASSUME NEW S, NEW s \in Seq(S), NEW n \in Nat, Len(s) = n, NEW j \in 1 .. n
  PROVE  LET t == SubSeq(s, 2, j) IN
         /\ t \in Seq(S) /\ Len(t) = j - 1
         /\ \A i \in 1 .. j - 1 : t[i] = s[i + 1]
OBVIOUS

LEMMA MiddleGrows ==
  ASSUME NEW S, NEW s \in Seq(S), NEW n \in Nat, Len(s) = n, NEW j \in 1 .. n
  PROVE  /\ <<s[1]>> \o SubSeq(s, 2, j) = SubSeq(s, 1, j)
         /\ j < n => Append(SubSeq(s, 2, j), s[j + 1]) = SubSeq(s, 2, j + 1)
<1> DEFINE t == SubSeq(s, 2, j)
           u == SubSeq(s, 2, j + 1)
           p == SubSeq(s, 1, j)
           x == <<s[1]>> \o t
           y == Append(t, s[j + 1])
<1>1. t \in Seq(S) /\ Len(t) = j - 1 /\ \A i \in 1 .. j - 1 : t[i] = s[i + 1]
  BY Middle
<1>2. p \in Seq(S) /\ Len(p) = j /\ \A i \in 1 .. j : p[i] = s[i]
  BY Prefix
<1>3. s[1] \in S
  OBVIOUS
<1>4. x = p
  <2> HIDE DEF t, p
  <2>1. x \in Seq(S) /\ Len(x) = j
    BY <1>1, <1>3
  <2>2. x[1] = s[1] /\ \A i \in 1 .. j - 1 : x[i + 1] = t[i]
    BY <1>1, <1>3
  <2>3. \A i \in 1 .. j : x[i] = p[i]
    <3> SUFFICES ASSUME NEW i \in 1 .. j PROVE x[i] = p[i]
      OBVIOUS
    <3>1. CASE i = 1
      BY <1>2, <2>2, <3>1
    <3>2. CASE i # 1
      <4>1. i - 1 \in 1 .. j - 1 /\ (i - 1) + 1 = i
        BY <3>2
      <4>2. x[(i - 1) + 1] = t[i - 1] /\ t[i - 1] = s[(i - 1) + 1]
        BY <1>1, <2>2, <4>1
      <4> QED BY <1>2, <4>1, <4>2
    <3> QED BY <3>1, <3>2
  <2> HIDE DEF x
  <2> QED BY <1>2, <2>1, <2>3, SeqEqual
<1>5. ASSUME j < n
      PROVE  y = u
  <2>1. j + 1 \in 1 .. n /\ (j + 1) - 1 = j
    BY <1>5
  <2>2. u \in Seq(S) /\ Len(u) = j /\ \A i \in 1 .. j : u[i] = s[i + 1]
    BY <2>1, Middle
  <2>3. s[j + 1] \in S
    BY <2>1
  <2> HIDE DEF t, u
  <2>4. y \in Seq(S) /\ Len(y) = j /\ \A i \in 1 .. j : y[i] = IF i = j THEN s[j + 1] ELSE t[i]
    BY <1>1, <2>3, AppendAt
  <2>5. \A i \in 1 .. j : y[i] = u[i]
    <3> SUFFICES ASSUME NEW i \in 1 .. j PROVE y[i] = u[i]
      OBVIOUS
    <3>1. CASE i = j
      BY <2>2, <2>4, <3>1
    <3>2. CASE i # j
      <4>1. i \in 1 .. j - 1
        BY <3>2
      <4> QED BY <1>1, <2>2, <2>4, <3>2, <4>1
    <3> QED BY <3>1, <3>2
  <2> HIDE DEF y
  <2> QED BY <2>2, <2>4, <2>5, SeqEqual
<1> QED BY <1>4, <1>5

LEMMA MessageFacts ==
  ASSUME NEW m \in Messages
  PROVE  /\ m.bytes \in Seq(Byte)
         /\ Wire(m) \in Seq(Byte) /\ Len(Wire(m)) >= 2 /\ Wire(m)[1] = Star
         /\ m = Event(m.kind, m.bytes)
         /\ IsFrame(m) \/ IsReport(m) \/ IsTouch(m)
<1>1. /\ m.bytes \in Seq(Byte) /\ m = Event(m.kind, m.bytes)
      /\ IsFrame(m) \/ IsReport(m) \/ IsTouch(m)
  BY MessagesAssumption
<1>2. CASE IsFrame(m)
  <2>1. m.kind = "frame"
    BY <1>2 DEF IsFrame
  <2>2. PICK e \in Nat \ {0} : Len(Wire(m)) = e + 3
    BY <2>1, FrameWire, ZenonT(60)
  <2>3. Wire(m) \in Seq(Byte) /\ Wire(m)[1] = Star
    BY <2>1, FrameWire
  <2> QED BY <1>1, <2>2, <2>3
<1>3. CASE IsReport(m)
  <2>1. m.kind = "raw" /\ Len(m.bytes) \in {4, 5} /\ m.bytes[1] = Star
    BY <1>3 DEF IsReport
  <2>2. Wire(m) = m.bytes
    BY <2>1 DEF Wire
  <2>3. Len(Wire(m)) >= 2 /\ Wire(m)[1] = Star
    <3>1. Len(m.bytes) >= 2
      <4>1. PICK l \in {4, 5} : l = Len(m.bytes)
        BY <2>1, Zenon
      <4>2. l >= 2
        OBVIOUS
      <4> QED BY <4>1, <4>2, Zenon
    <3> QED BY <2>1, <2>2, <3>1, Zenon
  <2>4. Wire(m) \in Seq(Byte)
    BY <1>1, <2>2, Zenon
  <2> QED BY <1>1, <2>3, <2>4, Zenon
<1>4. CASE IsTouch(m)
  <2>1. m.kind = "touch" /\ Len(m.bytes) >= 1
    <3>1. m.kind = "touch" /\ Len(m.bytes) \in 1 .. BufSize + 1
      BY <1>4, Zenon DEF IsTouch
    <3>2. \A l \in 1 .. BufSize + 1 : l >= 1
      BY DEF BufSize
    <3> QED BY <3>1, <3>2, Zenon
  <2>2. Wire(m) = <<Star>> \o m.bytes /\ Star \in Byte
    BY <2>1 DEF Wire, Star, Byte
  <2> QED BY <1>1, <2>1, <2>2, SMTT(60)
<1> QED BY <1>1, <1>2, <1>3, <1>4

LEMMA ReadyOpens ==
  ASSUME NEW a, NEW log, Ready(a, log)
  PROVE  Opening(Rx(a, Star), log)
BY StarOpens DEF Ready

LEMMA ReadyFlush ==
  ASSUME NEW a, NEW log, Ready(a, log)
  PROVE  Ready(FlushRaw(a), log) /\ Calm(FlushAll(a), Idle, <<>>, log)
<1>1. CASE Calm(a, Idle, <<>>, log)
  BY <1>1, FlushCalm DEF Ready
<1>2. CASE /\ Touched(a, a.type, a.buf, a.log)
           /\ log = Append(a.log, Event("touch", <<a.type>> \o a.buf))
  BY <1>2, FlushTouched DEF Ready
<1> QED BY <1>1, <1>2 DEF Ready

(* A byte of a frame is the parser's.                                      *)
LEMMA InsideFrame ==
  ASSUME NEW m \in Messages, m.kind = "frame", NEW a, NEW log,
         NEW k \in Nat, k >= 1, k < Len(Wire(m)), Inside(a, m, k, log)
  PROVE  LET c == Rx(a, Wire(m)[k + 1]) IN
         IF k + 1 = Len(Wire(m)) THEN Ready(c, Append(log, m)) ELSE Inside(c, m, k + 1, log)
<1> DEFINE b == Wire(m)[k + 1]
           c == Rx(a, b)
           s == Tail(m.bytes)
<1>1. CASE k = 1
  <2>1. /\ Head(m.bytes) \in (32 .. 126) \ (Selectors \union TouchTypes \union {Star, Esc})
        /\ Wire(m)[2] = Head(m.bytes) /\ s \in Seq(Byte)
    BY FrameWire, ZenonT(60)
  <2>2. PICK e \in Nat \ {0} : Len(Wire(m)) = e + 3
    BY FrameWire, ZenonT(60)
  <2>3. b = Head(m.bytes) /\ k + 1 = 2 /\ k + 1 # Len(Wire(m))
    BY <1>1, <2>1, <2>2
  <2>4. Opening(a, log)
    BY <1>1 DEF Inside
  <2> HIDE DEF b
  <2>5. Calm(c, InFrame(FALSE, TRUE, b, <<>>), <<>>, log)
    BY <2>1, <2>3, <2>4, OpensFrame
  <2>6. InFrame(FALSE, TRUE, b, <<>>) = Reading(m, 0, FALSE)
    <3>1. SubSeq(s, 1, 0) = <<>>
      BY <2>1
    <3> QED BY <2>3, <3>1, Zenon DEF Reading
  <2>7. Place(s, 0 + 1) + 1 = 2 /\ 0 \in 0 .. Len(s)
    <3>1. 0 + 1 = 1 /\ 1 + 1 = 2 /\ 0 \in 0 .. Len(s)
      BY <2>1
    <3>2. Place(s, 1) = 1
      BY PlaceNext
    <3> QED BY <3>1, <3>2
  <2> HIDE DEF s
  <2>8. ReadTo(Reading(m, 0, FALSE), m, 2)
    BY <2>7, Zenon DEF ReadTo, s
  <2>9. Calm(c, c.parser, <<>>, log) /\ ReadTo(c.parser, m, k + 1)
    BY <2>3, <2>5, <2>6, <2>8 DEF Calm
  <2> QED BY <2>3, <2>9 DEF Inside, b
<1>2. CASE k # 1
  <2>1. Calm(a, a.parser, <<>>, log) /\ ReadTo(a.parser, m, k)
    BY <1>2 DEF Inside
  <2> DEFINE p == a.parser
             q == Feed(p, b)
  <2>2. /\ p.in_frame
        /\ k + 1 < Len(Wire(m)) => ~Emits(p, b) /\ ReadTo(q, m, k + 1)
        /\ k + 1 = Len(Wire(m)) => Emits(p, b) /\ q = Idle /\ <<p.cmd>> \o p.payload = m.bytes
    BY <2>1, FrameByte
  <2>3. Calm(c, q, <<>>, IF Emits(p, b) THEN Append(log, Event("frame", <<p.cmd>> \o p.payload)) ELSE log)
    BY <2>1, <2>2, FrameStep
  <2>4. m = Event("frame", m.bytes)
    BY MessageFacts
  <2> HIDE DEF b, c, p, q
  <2>5. CASE k + 1 = Len(Wire(m))
    <3>1. Calm(c, Idle, <<>>, Append(log, m))
      BY <2>2, <2>3, <2>4, <2>5
    <3> QED BY <2>5, <3>1 DEF Ready, b, c
  <2>6. CASE k + 1 # Len(Wire(m))
    <3>1. k + 1 < Len(Wire(m)) /\ k + 1 # 1
      BY <2>6, MessageFacts
    <3>2. Calm(c, q, <<>>, log) /\ ReadTo(q, m, k + 1)
      BY <2>2, <2>3, <3>1
    <3>3. Calm(c, c.parser, <<>>, log) /\ ReadTo(c.parser, m, k + 1)
      BY <3>2 DEF Calm
    <3> QED BY <2>6, <3>1, <3>3 DEF Inside, b, c
  <2> QED BY <2>5, <2>6
<1> QED BY <1>1, <1>2

(* A byte of a report: the detector keeps it until the shape is complete.  *)
LEMMA InsideReport ==
  ASSUME NEW m \in Messages, m.kind = "raw", NEW a, NEW log,
         NEW k \in Nat, k >= 1, k < Len(Wire(m)), Inside(a, m, k, log)
  PROVE  LET c == Rx(a, Wire(m)[k + 1]) IN
         IF k + 1 = Len(Wire(m)) THEN After(c, m, log, FALSE) ELSE Inside(c, m, k + 1, log)
<1> DEFINE b == Wire(m)[k + 1]
           c == Rx(a, b)
           s == m.bytes
           n == Len(s)
           r == SubSeq(s, 1, k)
           q == SubSeq(s, 1, k + 1)
<1>1. s \in Seq(Byte) /\ m = Event("raw", s) /\ IsReport(m)
  BY MessageFacts DEF IsFrame, IsTouch
<1>2. /\ n = 4 \/ n = 5
      /\ s[1] = Star /\ s[2] \in Selectors
      /\ n = 4 => ShapeComplete(s)
      /\ n = 5 => /\ s[2] # Button
                  /\ (s[4] % 128 = ReportEnd /\ s[5] # Star) \/ s[4] = Star
  BY <1>1 DEF IsReport
<1>3. Wire(m) = s
  BY DEF Wire
<1>4. k \in 1 .. n - 1 /\ b = s[k + 1] /\ b \in Byte
  BY <1>1, <1>2, <1>3
<1>5. /\ r \in Seq(Byte) /\ Len(r) = k /\ \A i \in 1 .. k : r[i] = s[i]
      /\ q \in Seq(Byte) /\ Len(q) = k + 1 /\ \A i \in 1 .. k + 1 : q[i] = s[i]
      /\ q = Append(r, b)
  <2>1. k \in 0 .. n - 1 /\ k \in 0 .. n /\ k + 1 \in 0 .. n
    BY <1>2, <1>4
  <2>2. /\ r \in Seq(Byte) /\ Len(r) = k /\ \A i \in 1 .. k : r[i] = s[i]
        /\ q \in Seq(Byte) /\ Len(q) = k + 1 /\ \A i \in 1 .. k + 1 : q[i] = s[i]
    BY <1>1, <2>1, Prefix, SMTT(60)
  <2>3. q = Append(r, s[k + 1])
    BY <1>1, <2>1, PrefixGrows
  <2> QED BY <1>4, <2>2, <2>3
<1>6. k + 1 = n => q = s
  <2> SUFFICES ASSUME k + 1 = n PROVE q = s
    OBVIOUS
  <2>1. Len(q) = Len(s) /\ \A i \in 1 .. Len(q) : q[i] = s[i]
    BY <1>5
  <2> HIDE DEF q
  <2> QED BY <1>1, <1>5, <2>1, SeqEqual
<1>7. /\ k # 4 => ~MayContinue(r)
      /\ k + 1 # 4 => ~MayContinue(q)
      /\ k + 1 < 4 => ~ShapeComplete(q)
  BY <1>5 DEF MayContinue, ShapeComplete
<1> HIDE DEF b, c, r, q, n
<1>10. ASSUME k + 1 # n, Calm(c, Idle, q, log), MayContinue(q) => c.waiting = TRUE
       PROVE  Inside(c, m, k + 1, log) /\ k + 1 # Len(Wire(m))
  <2>1. k + 1 # 1
    BY <1>4
  <2> QED BY <1>3, <1>10, <2>1 DEF Inside, q, n
<1>11. k = 1 \/ k = 2 \/ k = 3 \/ k = 4
  BY <1>2, <1>4
<1>8. CASE k = 1
  <2>1. k + 1 = 2 /\ k + 1 # n /\ b = s[2] /\ b \in Selectors
    BY <1>2, <1>4, <1>8
  <2>2. Opening(a, log)
    BY <1>8 DEF Inside
  <2>3. Calm(c, Idle, <<Star, b>>, log)
    BY <2>1, <2>2, OpensReport DEF c
  <2>4. <<Star, b>> = q
    <3>1. r = <<Star>>
      <4>1. Star \in Byte
        BY DEF Star, Byte
      <4>2. <<Star>> \in Seq(Byte) /\ Len(<<Star>>) = 1 /\ <<Star>>[1] = Star
        BY <4>1
      <4>3. Len(r) = 1 /\ r[1] = Star
        BY <1>2, <1>5, <1>8
      <4>4. \A i \in 1 .. Len(r) : r[i] = <<Star>>[i]
        BY <4>2, <4>3
      <4> QED BY <1>5, <4>2, <4>3, <4>4, SeqEqual
    <3>2. Append(<<Star>>, b) = <<Star, b>>
      <4>1. Star \in Byte
        BY DEF Star, Byte
      <4> QED BY <1>4, <4>1, AppendPair
    <3> QED BY <1>5, <3>1, <3>2
  <2>5. ~MayContinue(q)
    BY <1>7, <2>1
  <2> QED BY <1>10, <2>1, <2>3, <2>4, <2>5 DEF b, c
<1>9. CASE k # 1
  <2>1. Calm(a, Idle, r, log) /\ k \in 2 .. 4
    BY <1>9, <1>11 DEF Inside, r
  <2>2. /\ ~MayContinue(r) /\ (ShapeComplete(q) => MayContinue(q)) =>
             Calm(c, Idle, q, log) /\ (ShapeComplete(q) => c.waiting = TRUE)
        /\ (~MayContinue(r) /\ ShapeComplete(q) /\ ~MayContinue(q)) \/ (MayContinue(r) /\ b # Star) =>
             Calm(c, Idle, <<>>, Append(log, Event("raw", q)))
    BY <1>4, <1>5, <2>1, ReportStep, ZenonT(60) DEF c
  <2>3. CASE k + 1 = n
    <3>1. q = s
      BY <1>6, <2>3
    <3>2. CASE n = 4
      <4>1. ~MayContinue(r) /\ ShapeComplete(q)
        BY <1>2, <1>7, <2>3, <3>1, <3>2
      <4>2. CASE MayContinue(s)
        <5>1. Calm(c, Idle, s, log) /\ c.waiting = TRUE
          BY <2>2, <3>1, <4>1, <4>2
        <5>2. After(c, m, log, FALSE)
          BY <4>2, <5>1 DEF After, Pending, s
        <5> QED BY <1>3, <2>3, <5>2 DEF b, c, n
      <4>3. CASE ~MayContinue(s)
        <5>1. Calm(c, Idle, <<>>, Append(log, m))
          <6>1. Calm(c, Idle, <<>>, Append(log, Event("raw", q)))
            BY <2>2, <3>1, <4>1, <4>3
          <6> QED BY <1>1, <3>1, <6>1
        <5>2. After(c, m, log, FALSE)
          BY <4>3, <5>1 DEF After, Pending, Ready, s
        <5> QED BY <1>3, <2>3, <5>2 DEF b, c, n
      <4> QED BY <4>2, <4>3
    <3>3. CASE n = 5
      <4>1. k = 4 /\ b = s[5] /\ r[2] = s[2] /\ r[4] = s[4]
            /\ q[1] = Star /\ q[4] = s[4] /\ Len(q) = 5 /\ Len(r) = 4
        BY <1>2, <1>4, <1>5, <2>3, <3>3
      <4>2. ~MayContinue(q)
        BY <1>7, <4>1
      <4>3. \/ MayContinue(r) /\ b # Star
            \/ ~MayContinue(r) /\ ShapeComplete(q)
        BY <1>2, <3>3, <4>1 DEF MayContinue, ShapeComplete, Star, ReportEnd
      <4>4. Calm(c, Idle, <<>>, Append(log, m))
        <5>1. Calm(c, Idle, <<>>, Append(log, Event("raw", q)))
          BY <2>2, <4>2, <4>3
        <5> QED BY <1>1, <3>1, <5>1
      <4>5. After(c, m, log, FALSE)
        BY <3>1, <4>2, <4>4 DEF After, Pending, Ready, s
      <4> QED BY <1>3, <2>3, <4>5 DEF b, c, n
    <3> QED BY <1>2, <3>2, <3>3
  <2>4. CASE k + 1 # n
    <3>1. ~MayContinue(r) /\ (ShapeComplete(q) => MayContinue(q))
          /\ (MayContinue(q) => ShapeComplete(q))
      <4>1. CASE k + 1 = 4
        <5>1. n = 5 /\ q[1] = Star /\ q[2] = s[2] /\ Len(q) = 4
          <6>1. n = 5 /\ k = 3
            BY <1>2, <1>11, <2>4, <4>1
          <6>2. q[1] = s[1] /\ q[2] = s[2] /\ Len(q) = 4
            BY <1>5, <6>1
          <6> QED BY <1>2, <6>1, <6>2
        <5> QED BY <1>2, <1>7, <4>1, <5>1 DEF MayContinue, ShapeComplete
      <4>2. CASE k + 1 # 4
        <5>1. k + 1 < 4
          BY <1>2, <1>4, <1>11, <2>4, <4>2
        <5> QED BY <1>7, <5>1
      <4> QED BY <4>1, <4>2
    <3>2. Calm(c, Idle, q, log) /\ (MayContinue(q) => c.waiting = TRUE)
      BY <2>2, <3>1
    <3> QED BY <1>10, <2>4, <3>2 DEF b, c
  <2> QED BY <2>3, <2>4
<1> QED BY <1>8, <1>9

(* A byte of a touch report is a coordinate, as long as it is no star.     *)
LEMMA InsideTouch ==
  ASSUME NEW m \in Messages, m.kind = "touch", \A i \in 1 .. Len(m.bytes) : m.bytes[i] # Star,
         NEW a, NEW log,
         NEW k \in Nat, k >= 1, k < Len(Wire(m)), Inside(a, m, k, log)
  PROVE  LET c == Rx(a, Wire(m)[k + 1]) IN
         IF k + 1 = Len(Wire(m)) THEN Ready(c, Append(log, m)) ELSE Inside(c, m, k + 1, log)
<1> DEFINE b == Wire(m)[k + 1]
           c == Rx(a, b)
           s == m.bytes
           n == Len(s)
           t == SubSeq(s, 2, k)
<1>1. s \in Seq(Byte) /\ m = Event("touch", s) /\ IsTouch(m)
  BY MessageFacts DEF IsFrame, IsReport
<1>2. n \in Nat /\ n >= 1 /\ n <= BufSize + 1 /\ s[1] \in TouchTypes
  <2>1. n \in 1 .. 257 /\ s[1] \in TouchTypes
    <3>1. Head(s) \in TouchTypes
      BY <1>1, Zenon DEF IsTouch
    <3>2. Head(s) = s[1]
      BY <1>1
    <3>3. n \in 1 .. 257
      <4>1. n \in 1 .. BufSize + 1
        BY <1>1, Zenon DEF IsTouch
      <4> HIDE DEF n
      <4> QED BY <4>1 DEF BufSize
    <3> QED BY <3>1, <3>2, <3>3, Zenon
  <2> HIDE DEF n
  <2> QED BY <2>1, SMTT(60) DEF BufSize
<1>3. Len(Wire(m)) = n + 1 /\ \A i \in 1 .. n : Wire(m)[i + 1] = s[i]
  <2>1. Wire(m) = <<Star>> \o s /\ Star \in Byte
    BY DEF Wire, Star, Byte
  <2> QED BY <1>1, <2>1
<1>4. k \in 1 .. n /\ b = s[k] /\ b \in Byte /\ b # Star
  BY <1>1, <1>2, <1>3 DEF BufSize
<1>5. Touched(c, s[1], t, log)
  <2>1. CASE k = 1
    <3>1. Opening(a, log) /\ b \in TouchTypes /\ b = s[1]
      BY <1>2, <1>4, <2>1 DEF Inside
    <3>2. t = <<>>
      BY <1>1, <2>1
    <3> HIDE DEF b, s, t
    <3> QED BY <3>1, <3>2, OpensTouch
  <2>2. CASE k # 1
    <3>1. Touched(a, s[1], SubSeq(s, 2, k - 1), log)
      BY <2>2 DEF Inside
    <3>2. k - 1 \in 1 .. n /\ k - 1 < n /\ (k - 1) + 1 = k
      BY <1>2, <1>4, <2>2
    <3>3. SubSeq(s, 2, k - 1) \in Seq(Byte) /\ Len(SubSeq(s, 2, k - 1)) < BufSize
      <4> HIDE DEF s, n
      <4>1. n \in Nat /\ n = Len(s)
        BY <1>2 DEF n, BufSize
      <4>2. SubSeq(s, 2, k - 1) \in Seq(Byte) /\ Len(SubSeq(s, 2, k - 1)) = (k - 1) - 1
        BY <1>1, <3>2, <4>1, Middle
      <4>3. (k - 1) - 1 < BufSize
        <5>1. k <= n /\ n <= BufSize + 1
          BY <1>2, <1>4, <4>1 DEF BufSize
        <5> QED BY <4>1, <5>1 DEF BufSize
      <4> QED BY <4>2, <4>3
    <3>4. Append(SubSeq(s, 2, k - 1), b) = t
      BY <1>1, <1>2, <1>4, <3>2, MiddleGrows
    <3> HIDE DEF b, t
    <3>5. Touched(c, s[1], Append(SubSeq(s, 2, k - 1), b), log)
      BY <1>4, <3>1, <3>3, TouchStep
    <3> QED BY <3>4, <3>5
  <2> QED BY <2>1, <2>2
<1> HIDE DEF b, c
<1>6. CASE k = n
  <2>1. <<s[1]>> \o t = SubSeq(s, 1, n) /\ SubSeq(s, 1, n) = s
    BY <1>1, <1>2, <1>6, MiddleGrows
  <2>2. Event("touch", <<s[1]>> \o t) = m
    BY <1>1, <2>1
  <2> HIDE DEF t
  <2>3. /\ c.type = s[1] /\ c.buf = t /\ c.log = log
        /\ Touched(c, c.type, c.buf, c.log)
    BY <1>5 DEF Touched
  <2>4. Append(log, m) = Append(c.log, Event("touch", <<c.type>> \o c.buf))
    BY <2>2, <2>3
  <2> QED BY <1>3, <1>6, <2>3, <2>4 DEF Ready, b, c
<1>7. CASE k # n
  <2>1. k + 1 # n + 1 /\ k + 1 # 1 /\ (k + 1) - 1 = k
    BY <1>2, <1>4, <1>7
  <2> QED BY <1>3, <1>5, <2>1 DEF Inside, b, c
<1> QED BY <1>6, <1>7

(* Every byte of a message takes the receiver one place on in it.          *)
LEMMA InsideNext ==
  ASSUME NEW m \in Messages, m.kind = "touch" => \A i \in 1 .. Len(m.bytes) : m.bytes[i] # Star,
         NEW a, NEW log,
         NEW k \in Nat, k >= 1, k < Len(Wire(m)), Inside(a, m, k, log)
  PROVE  LET c == Rx(a, Wire(m)[k + 1]) IN
         IF k + 1 = Len(Wire(m)) THEN After(c, m, log, FALSE) ELSE Inside(c, m, k + 1, log)
<1>1. m.kind \in {"frame", "raw", "touch"}
  BY MessageFacts DEF IsFrame, IsReport, IsTouch
<1>2. CASE m.kind = "frame"
  BY <1>2, InsideFrame DEF After, Pending
<1>3. CASE m.kind = "raw"
  BY <1>3, InsideReport
<1>4. CASE m.kind = "touch"
  BY <1>4, InsideTouch DEF After, Pending
<1> QED BY <1>1, <1>2, <1>3, <1>4

(* A flush ends a pending report, and logs a touch report.                 *)
LEMMA AfterFlush ==
  ASSUME NEW m \in Messages, NEW a, NEW log, NEW ended \in BOOLEAN, After(a, m, log, ended)
  PROVE  /\ After(FlushRaw(a), m, log, TRUE) /\ After(FlushAll(a), m, log, TRUE)
         /\ FlushAll(a).log = Append(log, m)
<1>1. CASE Pending(m) /\ ~ended
  <2>1. Calm(a, Idle, m.bytes, log) /\ a.waiting = TRUE /\ MayContinue(m.bytes)
    BY <1>1 DEF After, Pending
  <2>2. m = Event("raw", m.bytes)
    BY <1>1, MessageFacts DEF Pending
  <2>3. /\ Calm(FlushRaw(a), Idle, <<>>, Append(log, m))
        /\ Calm(FlushAll(a), Idle, <<>>, Append(log, m))
    BY <2>1, <2>2, FlushCalm
  <2> QED BY <2>3 DEF After, Ready, Calm
<1>2. CASE ~(Pending(m) /\ ~ended)
  <2>1. Ready(a, Append(log, m))
    BY <1>2 DEF After
  <2>2. Ready(FlushRaw(a), Append(log, m)) /\ Calm(FlushAll(a), Idle, <<>>, Append(log, m))
    BY <2>1, ReadyFlush
  <2> QED BY <2>2 DEF After, Ready, Calm
<1> QED BY <1>1, <1>2

\* The same of message n of those sent.
LEMMA SentFlushed ==
  ASSUME NEW n, sent[n] \in Messages, After(app, sent[n], Before(n), n \in flushed)
  PROVE  /\ After(FlushRaw(app), sent[n], Before(n), TRUE)
         /\ After(FlushAll(app), sent[n], Before(n), TRUE)
         /\ FlushAll(app).log = Append(Before(n), sent[n])
<1>1. ASSUME NEW m \in Messages, NEW a, NEW log, After(a, m, log, TRUE)
      PROVE  /\ After(FlushRaw(a), m, log, TRUE) /\ After(FlushAll(a), m, log, TRUE)
             /\ FlushAll(a).log = Append(log, m)
  BY <1>1, AfterFlush, ZenonT(60)
<1>2. ASSUME NEW m \in Messages, NEW a, NEW log, After(a, m, log, FALSE)
      PROVE  /\ After(FlushRaw(a), m, log, TRUE) /\ After(FlushAll(a), m, log, TRUE)
             /\ FlushAll(a).log = Append(log, m)
  BY <1>2, AfterFlush, ZenonT(60)
<1>3. CASE n \in flushed
  <2>1. After(app, sent[n], Before(n), TRUE)
    BY <1>3
  <2> QED BY <1>1, <2>1, ZenonT(60)
<1>4. CASE n \notin flushed
  <2>1. After(app, sent[n], Before(n), FALSE)
    <3>1. (n \in flushed) = FALSE
      BY <1>4
    <3> QED BY <3>1, Zenon
  <2> QED BY <1>2, <2>1, ZenonT(60)
<1> QED BY <1>3, <1>4

(* A star that cuts a report short: the report is logged and the parser    *)
(* has seen the star.                                                      *)
LEMMA CutOpens ==
  ASSUME NEW m \in Messages, NEW a, NEW log, Pending(m), After(a, m, log, FALSE), NEW f
  PROVE  InsideCut(Rx(a, Star), f, 1, Append(log, m))
<1> DEFINE c == Rx(a, Star)
<1>1. /\ Calm(a, Idle, m.bytes, log) /\ MayContinue(m.bytes) /\ m.kind = "raw"
      /\ Len(m.bytes) = 4
  BY DEF After, Pending, MayContinue
<1>2. m = Event("raw", m.bytes) /\ m.bytes \in Seq(Byte)
  BY <1>1, MessageFacts
<1>3. Star \in Byte /\ 4 \in 2 .. 4
  BY DEF Star, Byte
<1>4. Calm(c, Restart(Idle), <<Star>>, Append(log, Event("raw", m.bytes)))
  BY <1>1, <1>2, <1>3, ReportStep
<1> HIDE DEF c
<1>5. Calm(c, Restart(Idle), <<Star>>, Append(log, m))
  BY <1>2, <1>4
<1> QED BY <1>5 DEF InsideCut, Calm, c

LEMMA InsideCutNext ==
  ASSUME NEW m \in Messages, m.kind = "frame", NEW a, NEW log,
         NEW k \in Nat, k >= 1, k < Len(Wire(m)), InsideCut(a, m, k, log)
  PROVE  LET c == Rx(a, Wire(m)[k + 1]) IN
         IF k + 1 = Len(Wire(m)) THEN c.log = Append(log, m) ELSE InsideCut(c, m, k + 1, log)
<1> DEFINE b == Wire(m)[k + 1]
           c == Rx(a, b)
           p == a.parser
           q == Feed(p, b)
           s == Tail(m.bytes)
<1>1. Calm(a, p, <<Star>>, log)
  BY DEF InsideCut
<1>2. /\ p.in_frame
      /\ k + 1 < Len(Wire(m)) => ~Emits(p, b) /\ ReadTo(q, m, k + 1)
      /\ k + 1 = Len(Wire(m)) => Emits(p, b) /\ q = Idle /\ <<p.cmd>> \o p.payload = m.bytes
  <2>1. CASE k = 1
    <3>1. /\ Head(m.bytes) \in (32 .. 126) \ (Selectors \union TouchTypes \union {Star, Esc})
          /\ Wire(m)[2] = Head(m.bytes) /\ s \in Seq(Byte)
      BY FrameWire, ZenonT(60)
    <3>2. PICK e \in Nat \ {0} : Len(Wire(m)) = e + 3
      BY FrameWire, ZenonT(60)
    <3>3. b = Head(m.bytes) /\ k + 1 = 2 /\ k + 1 # Len(Wire(m)) /\ b # Star /\ b # Esc /\ ~IsCheck(b)
      <4>1. k + 1 = 2 /\ k + 1 # Len(Wire(m)) /\ b = Head(m.bytes)
        BY <2>1, <3>1, <3>2
      <4>2. \A x \in (32 .. 126) \ (Selectors \union TouchTypes \union {Star, Esc}) :
              x # Star /\ x # Esc /\ ~IsCheck(x)
        BY DEF IsCheck
      <4> QED BY <3>1, <4>1, <4>2, ZenonT(60)
    <3>4. p = Restart(Idle)
      BY <2>1 DEF InsideCut
    <3>5. p.in_frame = TRUE /\ p.after_star = TRUE /\ p.have_cmd = FALSE /\ p.payload = <<>>
      BY <3>4 DEF Restart, InFrame
    <3> HIDE DEF b, p
    <3>6. ~Emits(p, b) /\ q = InFrame(FALSE, TRUE, b, <<>>)
      BY <3>3, <3>5 DEF Emits, Feed, FeedAfterStar, Command
    <3>7. InFrame(FALSE, TRUE, b, <<>>) = Reading(m, 0, FALSE)
      <4>1. SubSeq(s, 1, 0) = <<>>
        BY <3>1
      <4> QED BY <3>3, <4>1, Zenon DEF Reading
    <3>8. Place(s, 0 + 1) + 1 = 2 /\ 0 \in 0 .. Len(s)
      <4>1. 0 + 1 = 1 /\ 1 + 1 = 2 /\ 0 \in 0 .. Len(s)
        BY <3>1
      <4>2. Place(s, 1) = 1
        BY PlaceNext
      <4> QED BY <4>1, <4>2
    <3> HIDE DEF s
    <3>9. ReadTo(Reading(m, 0, FALSE), m, 2)
      BY <3>8, Zenon DEF ReadTo, s
    <3> HIDE DEF q
    <3> QED BY <3>3, <3>5, <3>6, <3>7, <3>9
  <2>2. CASE k # 1
    <3>1. ReadTo(p, m, k)
      BY <2>2 DEF InsideCut
    <3> QED BY <3>1, FrameByte
  <2> QED BY <2>1, <2>2
<1>3. Calm(c, q, <<Star>>, IF Emits(p, b) THEN Append(log, Event("frame", <<p.cmd>> \o p.payload)) ELSE log)
  BY <1>1, <1>2, FrameStep
<1>4. m = Event("frame", m.bytes)
  BY MessageFacts
<1> HIDE DEF b, c, p, q
<1>5. CASE k + 1 = Len(Wire(m))
  BY <1>2, <1>3, <1>4, <1>5 DEF Calm, b, c
<1>6. CASE k + 1 # Len(Wire(m))
  <2>1. k + 1 < Len(Wire(m)) /\ k + 1 # 1
    BY <1>6, MessageFacts
  <2>2. Calm(c, q, <<Star>>, log) /\ ReadTo(q, m, k + 1)
    BY <1>2, <1>3, <2>1
  <2>3. Calm(c, c.parser, <<Star>>, log) /\ ReadTo(c.parser, m, k + 1)
    BY <2>2 DEF Calm
  <2> QED BY <1>6, <2>1, <2>3 DEF InsideCut, b, c
<1> QED BY <1>5, <1>6

-----------------------------------------------------------------------------
(* The line, and the place on it that the receiver has reached.            *)

LEMMA BeforeNext ==
  ASSUME sent \in Seq(Messages), NEW n \in 1 .. Len(sent)
  PROVE  /\ Append(Before(n), sent[n]) = SubSeq(sent, 1, n)
         /\ Before(n + 1) = SubSeq(sent, 1, n)
         /\ Before(1) = <<>>
<1>1. n - 1 \in 0 .. Len(sent) - 1 /\ (n - 1) + 1 = n /\ (n + 1) - 1 = n
  OBVIOUS
<1>2. Append(SubSeq(sent, 1, n - 1), sent[(n - 1) + 1]) = SubSeq(sent, 1, (n - 1) + 1)
  BY <1>1, PrefixGrows
<1>3. SubSeq(sent, 1, 1 - 1) = <<>>
  OBVIOUS
<1> QED BY <1>1, <1>2, <1>3 DEF Before

LEMMA SizeFacts ==
  ASSUME NEW s \in Seq(Messages), NEW n \in 1 .. Len(s)
  PROVE  /\ s[n] \in Messages
         /\ Size(s, n) = Len(Wire(s[n])) /\ Size(s, n) \in Nat /\ Size(s, n) >= 2
         /\ Wire(s[n]) \in Seq(Byte) /\ Wire(s[n])[1] = Star
<1>1. s[n] \in Messages /\ n # 0
  OBVIOUS
<1>2. Wire(s[n]) \in Seq(Byte) /\ Wire(s[n])[1] = Star /\ Len(Wire(s[n])) >= 2
  BY <1>1, MessageFacts
<1>3. Len(Wire(s[n])) \in Nat
  BY <1>2
<1> QED BY <1>1, <1>2, <1>3 DEF Size

LEMMA TailParts ==
  ASSUME NEW S, NEW s \in Seq(S), s # <<>>
  PROVE  /\ Len(s) \in Nat /\ Len(s) >= 1 /\ DOMAIN s = 1 .. Len(s) /\ Head(s) = s[1]
         /\ Tail(s) \in Seq(S) /\ Len(Tail(s)) = Len(s) - 1
         /\ \A i \in 1 .. Len(s) - 1 : Tail(s)[i] = s[i + 1]
         /\ Tail(s) = <<>> => Len(s) = 1
         /\ Tail(s) # <<>> => Len(s) >= 2 /\ Head(Tail(s)) = s[2]
<1>1. /\ Len(s) \in Nat /\ Len(s) >= 1 /\ DOMAIN s = 1 .. Len(s) /\ Head(s) = s[1]
      /\ Tail(s) \in Seq(S) /\ Len(Tail(s)) = Len(s) - 1
      /\ \A i \in 1 .. Len(s) - 1 : Tail(s)[i] = s[i + 1]
  OBVIOUS
<1> DEFINE t == Tail(s)
<1>2. t = <<>> => Len(s) = 1
  <2>1. Len(t) = Len(s) - 1 /\ Len(s) \in Nat
    BY <1>1
  <2>2. Len(<<>>) = 0
    OBVIOUS
  <2> HIDE DEF t
  <2> QED BY <2>1, <2>2
<1>3. t # <<>> => Len(t) >= 1 /\ Head(t) = t[1]
  <2>1. t \in Seq(S)
    BY <1>1
  <2> HIDE DEF t
  <2> QED BY <2>1
<1> HIDE DEF t
<1>4. t # <<>> => Len(s) >= 2 /\ Head(t) = s[2]
  <2> SUFFICES ASSUME t # <<>> PROVE Len(s) >= 2 /\ Head(t) = s[2]
    OBVIOUS
  <2>1. Len(s) >= 2 /\ 1 \in 1 .. Len(s) - 1 /\ 1 + 1 = 2
    BY <1>1, <1>3 DEF t
  <2> QED BY <1>1, <1>3, <2>1 DEF t
<1> QED BY <1>1, <1>2, <1>4 DEF t

LEMMA ConcatParts ==
  ASSUME NEW S, NEW r \in Seq(S), NEW s \in Seq(S), NEW u, u = r \o s
  PROVE  /\ u \in Seq(S) /\ Len(u) = Len(r) + Len(s) /\ DOMAIN u = 1 .. Len(r) + Len(s)
         /\ \A i \in 1 .. Len(r) : u[i] = r[i]
         /\ \A i \in 1 .. Len(s) : u[Len(r) + i] = s[i]
<1>1. u \in Seq(S) /\ Len(u) = Len(r) + Len(s) /\ DOMAIN u = 1 .. Len(r) + Len(s)
  OBVIOUS
<1>2. \A i \in 1 .. Len(r) : u[i] = r[i]
  OBVIOUS
<1>3. ASSUME NEW i \in 1 .. Len(s)
      PROVE  u[Len(r) + i] = s[i]
  BY ConcatProperties
<1> QED BY <1>1, <1>2, <1>3

(* The first byte on the line, and the one that follows it.                *)
LEMMA OrderedHead ==
  ASSUME NEW s \in Seq(Messages), NEW r, Ordered(r, s), r # <<>>
  PROVE  LET e == Head(r) IN
         /\ e[1] \in 1 .. Len(s) /\ e[2] \in 1 .. Size(s, e[1])
         /\ e[3] = Wire(s[e[1]])[e[2]] /\ e[3] \in Byte
         /\ IF Tail(r) = <<>> THEN e[1] = Len(s) /\ e[2] = Size(s, Len(s))
                              ELSE Follows(s, e[1], e[2], Head(Tail(r)))
<1>1. r \in Seq((1 .. Len(s)) \X Nat \X Byte)
  BY DEF Ordered
<1>2. /\ Len(r) \in Nat /\ Len(r) >= 1 /\ 1 \in DOMAIN r /\ Head(r) = r[1]
      /\ r[1] \in (1 .. Len(s)) \X Nat \X Byte
      /\ Tail(r) = <<>> => 1 = Len(r)
      /\ Tail(r) # <<>> => 1 + 1 \in DOMAIN r /\ Head(Tail(r)) = r[1 + 1]
  <2> DEFINE T == (1 .. Len(s)) \X Nat \X Byte
  <2>1. r \in Seq(T)
    BY <1>1
  <2> HIDE DEF T
  <2>2. /\ Len(r) \in Nat /\ Len(r) >= 1 /\ DOMAIN r = 1 .. Len(r) /\ Head(r) = r[1]
        /\ Tail(r) = <<>> => Len(r) = 1
        /\ Tail(r) # <<>> => Len(r) >= 2 /\ Head(Tail(r)) = r[2]
    BY <2>1, TailParts
  <2>3. 1 \in DOMAIN r /\ r[1] \in T
    BY <2>1, <2>2
  <2> QED BY <2>2, <2>3 DEF T
<1>3. /\ r[1][2] \in 1 .. Size(s, r[1][1])
      /\ r[1][3] = Wire(s[r[1][1]])[r[1][2]]
      /\ 1 + 1 \in DOMAIN r => Follows(s, r[1][1], r[1][2], r[1 + 1])
      /\ 1 = Len(r) => r[1][1] = Len(s) /\ r[1][2] = Size(s, Len(s))
  BY <1>2 DEF Ordered
<1>4. r[1][1] \in 1 .. Len(s) /\ r[1][3] \in Byte
  BY <1>2, SMTT(60)
<1> QED BY <1>2, <1>3, <1>4

(* The line without its first byte.                                        *)
LEMMA OrderedTail ==
  ASSUME NEW s, NEW r, Ordered(r, s), r # <<>>
  PROVE  Ordered(Tail(r), s)
<1> DEFINE t == Tail(r)
<1>1. r \in Seq((1 .. Len(s)) \X Nat \X Byte)
  BY DEF Ordered
<1>2. /\ t \in Seq((1 .. Len(s)) \X Nat \X Byte) /\ Len(t) = Len(r) - 1 /\ Len(r) \in Nat
      /\ DOMAIN t = 1 .. Len(t) /\ DOMAIN r = 1 .. Len(r)
      /\ \A i \in 1 .. Len(t) : t[i] = r[i + 1]
  <2>1. /\ t \in Seq((1 .. Len(s)) \X Nat \X Byte) /\ Len(t) = Len(r) - 1 /\ Len(r) \in Nat
        /\ DOMAIN r = 1 .. Len(r) /\ \A i \in 1 .. Len(r) - 1 : t[i] = r[i + 1]
    BY <1>1, TailParts
  <2> HIDE DEF t
  <2>2. DOMAIN t = 1 .. Len(t)
    BY <2>1
  <2> QED BY <2>1, <2>2
<1> HIDE DEF t
<1>4. Len(t) = Len(r) - 1 /\ Len(r) \in Nat
  BY <1>2, Zenon
<1>3. ASSUME NEW i \in DOMAIN t
      PROVE  /\ t[i][2] \in 1 .. Size(s, t[i][1])
             /\ t[i][3] = Wire(s[t[i][1]])[t[i][2]]
             /\ i + 1 \in DOMAIN t => Follows(s, t[i][1], t[i][2], t[i + 1])
             /\ i = Len(t) => t[i][1] = Len(s) /\ t[i][2] = Size(s, Len(s))
  <2>0. i \in 1 .. Len(t)
    BY <1>2
  <2>1. i + 1 \in DOMAIN r /\ t[i] = r[i + 1] /\ (i = Len(t) => i + 1 = Len(r))
    <3>1. i + 1 \in 1 .. Len(r) /\ (i = Len(t) => i + 1 = Len(r))
      BY <1>4, <2>0
    <3> QED BY <1>2, <2>0, <3>1
  <2>2. /\ r[i + 1][2] \in 1 .. Size(s, r[i + 1][1])
        /\ r[i + 1][3] = Wire(s[r[i + 1][1]])[r[i + 1][2]]
        /\ (i + 1) + 1 \in DOMAIN r => Follows(s, r[i + 1][1], r[i + 1][2], r[(i + 1) + 1])
        /\ i + 1 = Len(r) => r[i + 1][1] = Len(s) /\ r[i + 1][2] = Size(s, Len(s))
    BY <2>1 DEF Ordered
  <2>3. ASSUME i + 1 \in DOMAIN t
        PROVE  (i + 1) + 1 \in DOMAIN r /\ t[i + 1] = r[(i + 1) + 1]
    <3>1. i + 1 \in 1 .. Len(t)
      BY <1>2, <2>3
    <3>2. t[i + 1] = r[(i + 1) + 1]
      BY <1>2, <3>1
    <3>3. (i + 1) + 1 \in 1 .. Len(r)
      BY <1>4, <2>0, <3>1
    <3> QED BY <1>2, <3>2, <3>3
  <2> QED BY <2>1, <2>2, <2>3
<1> QED BY <1>2, <1>3 DEF Ordered, t

LEMMA SizeGrows ==
  ASSUME NEW s \in Seq(Messages), NEW m \in Messages
  PROVE  LET t == Append(s, m) IN
         /\ t \in Seq(Messages) /\ Len(t) = Len(s) + 1 /\ t[Len(s) + 1] = m
         /\ \A n \in 1 .. Len(s) : t[n] = s[n]
         /\ \A n \in 0 .. Len(s) : Size(t, n) = Size(s, n) /\ SubSeq(t, 1, n) = SubSeq(s, 1, n)
<1> DEFINE t == Append(s, m)
<1>1. /\ t \in Seq(Messages) /\ Len(t) = Len(s) + 1 /\ t[Len(s) + 1] = m
      /\ \A n \in 1 .. Len(s) : t[n] = s[n]
  OBVIOUS
<1> HIDE DEF t
<1>2. ASSUME NEW n \in 0 .. Len(s)
      PROVE  Size(t, n) = Size(s, n) /\ SubSeq(t, 1, n) = SubSeq(s, 1, n)
  <2>1. Size(t, n) = Size(s, n)
    BY <1>1 DEF Size
  <2>2. n \in 0 .. Len(t)
    BY <1>1
  <2>3. /\ SubSeq(t, 1, n) \in Seq(Messages) /\ Len(SubSeq(t, 1, n)) = n
        /\ \A i \in 1 .. n : SubSeq(t, 1, n)[i] = t[i]
    BY <1>1, <2>2, Prefix
  <2>4. /\ SubSeq(s, 1, n) \in Seq(Messages) /\ Len(SubSeq(s, 1, n)) = n
        /\ \A i \in 1 .. n : SubSeq(s, 1, n)[i] = s[i]
    BY Prefix
  <2> DEFINE x == SubSeq(t, 1, n)
             y == SubSeq(s, 1, n)
  <2>5. \A i \in 1 .. n : i \in 1 .. Len(s)
    OBVIOUS
  <2> HIDE DEF x, y
  <2>6. x \in Seq(Messages) /\ y \in Seq(Messages) /\ Len(x) = Len(y) /\ \A i \in 1 .. Len(x) : x[i] = y[i]
    BY <1>1, <2>3, <2>4, <2>5 DEF x, y
  <2>7. x = y
    BY <2>6, SeqEqual
  <2> QED BY <2>1, <2>7 DEF x, y
<1> QED BY <1>1, <1>2 DEF t

(* A message sent goes behind what is on the line.                         *)
LEMMA OrderedSend ==
  ASSUME NEW s \in Seq(Messages), NEW m \in Messages, NEW r, Ordered(r, s)
  PROVE  LET t == Append(s, m)
             u == r \o Numbered(Len(s) + 1, Wire(m))
         IN  /\ Ordered(u, t)
             /\ u # <<>>
             /\ r # <<>> => Head(u) = Head(r)
             /\ r = <<>> => Head(u)[1] = Len(s) + 1 /\ Head(u)[2] = 1
<1> DEFINE t == Append(s, m)
           n == Len(s) + 1
           w == Wire(m)
           new == Numbered(n, w)
           u == r \o new
           T == (1 .. n) \X Nat \X Byte
<1>1. /\ t \in Seq(Messages) /\ Len(t) = n /\ t[n] = m
      /\ \A i \in 1 .. Len(s) : t[i] = s[i] /\ Size(t, i) = Size(s, i)
  BY SizeGrows
<1>2. w \in Seq(Byte) /\ Len(w) \in Nat /\ Len(w) >= 2 /\ DOMAIN w = 1 .. Len(w)
      /\ \A i \in 1 .. Len(w) : w[i] \in Byte
  <2>1. w \in Seq(Byte) /\ Len(w) >= 2
    BY MessageFacts
  <2> HIDE DEF w
  <2> QED BY <2>1
<1>3. n \in Nat /\ n >= 1 /\ n - 1 = Len(s) /\ Len(s) \in Nat
  OBVIOUS
<1>4. Size(t, n) = Len(w)
  BY <1>1, <1>3 DEF Size
<1>5. r \in Seq((1 .. Len(s)) \X Nat \X Byte)
  BY DEF Ordered
<1> HIDE DEF t, n, w
<1>6. new = [i \in 1 .. Len(w) |-> <<n, i, w[i]>>]
  BY <1>2 DEF Numbered
<1>7. \A i \in 1 .. Len(w) : <<n, i, w[i]>> \in T
  BY <1>2, <1>3
<1>8. r \in Seq(T)
  <2>1. (1 .. Len(s)) \X Nat \X Byte \subseteq T
    <3>1. 1 .. Len(s) \subseteq 1 .. n
      BY <1>3
    <3> QED BY <3>1
  <2> HIDE DEF T
  <2> QED BY <1>5, <2>1
<1> HIDE DEF T
<1>9. new \in Seq(T) /\ Len(new) = Len(w) /\ \A i \in 1 .. Len(w) : new[i] = <<n, i, w[i]>>
  BY <1>2, <1>6, <1>7
<1> HIDE DEF new
<1>10. /\ u \in Seq(T) /\ Len(u) = Len(r) + Len(w) /\ Len(r) \in Nat
       /\ DOMAIN u = 1 .. Len(u) /\ DOMAIN r = 1 .. Len(r)
       /\ \A i \in 1 .. Len(r) : u[i] = r[i]
       /\ \A i \in 1 .. Len(w) : u[Len(r) + i] = <<n, i, w[i]>>
  <2>1. /\ u \in Seq(T) /\ Len(u) = Len(r) + Len(new) /\ Len(r) \in Nat
        /\ DOMAIN u = 1 .. Len(u) /\ DOMAIN r = 1 .. Len(r)
        /\ \A i \in 1 .. Len(r) : u[i] = r[i]
        /\ \A i \in 1 .. Len(new) : u[Len(r) + i] = new[i]
    <3>1. Len(r) \in Nat /\ DOMAIN r = 1 .. Len(r)
      BY <1>8
    <3>2. r \in Seq(T) /\ new \in Seq(T) /\ u = r \o new
      BY <1>8, <1>9
    <3> HIDE DEF u
    <3>3. /\ u \in Seq(T) /\ Len(u) = Len(r) + Len(new)
          /\ DOMAIN u = 1 .. Len(r) + Len(new)
          /\ \A i \in 1 .. Len(r) : u[i] = r[i]
          /\ \A i \in 1 .. Len(new) : u[Len(r) + i] = new[i]
      BY <3>2, ConcatParts
    <3> QED BY <3>1, <3>3
  <2> HIDE DEF u
  <2> QED BY <1>9, <2>1
<1>11. u # <<>> /\ Head(u) = u[1]
  BY <1>2, <1>10
<1>17. Len(u) = Len(r) + Len(w) /\ Len(r) \in Nat /\ DOMAIN u = 1 .. Len(u)
  BY <1>10, Zenon
<1> HIDE DEF u
<1>12. ASSUME NEW i \in DOMAIN u
       PROVE  /\ u[i][2] \in 1 .. Size(t, u[i][1])
              /\ u[i][3] = Wire(t[u[i][1]])[u[i][2]]
              /\ i + 1 \in DOMAIN u => Follows(t, u[i][1], u[i][2], u[i + 1])
              /\ i = Len(u) => u[i][1] = Len(t) /\ u[i][2] = Size(t, Len(t))
  <2>1. CASE i \in 1 .. Len(r)
    <3>1. /\ r[i][2] \in 1 .. Size(s, r[i][1])
          /\ r[i][3] = Wire(s[r[i][1]])[r[i][2]]
          /\ i + 1 \in DOMAIN r => Follows(s, r[i][1], r[i][2], r[i + 1])
          /\ i = Len(r) => r[i][1] = Len(s) /\ r[i][2] = Size(s, Len(s))
      BY <1>10, <2>1 DEF Ordered
    <3>2. r[i][1] \in 1 .. Len(s)
      BY <1>5, <2>1, SMTT(60)
    <3>3. u[i] = r[i] /\ Size(t, r[i][1]) = Size(s, r[i][1]) /\ t[r[i][1]] = s[r[i][1]]
      BY <1>1, <1>10, <2>1, <3>2
    <3>4. i # Len(u)
      BY <1>2, <1>10, <2>1
    <3>5. ASSUME i + 1 \in DOMAIN u
          PROVE  Follows(t, r[i][1], r[i][2], u[i + 1])
      <4>1. CASE i + 1 \in DOMAIN r
        <5>1. u[i + 1] = r[i + 1]
          BY <1>10, <4>1
        <5> QED BY <3>1, <3>3, <4>1, <5>1 DEF Follows
      <4>2. CASE i + 1 \notin DOMAIN r
        <5>1. i = Len(r) /\ 1 \in 1 .. Len(w)
          BY <1>2, <1>10, <2>1, <4>2, SMTT(60)
        <5>2. u[Len(r) + 1] = <<n, 1, w[1]>>
          BY <1>10, <5>1
        <5>3. u[i + 1][1] = n /\ u[i + 1][2] = 1
          BY <5>1, <5>2
        <5>4. r[i][1] + 1 = n /\ r[i][2] = Size(t, r[i][1])
          BY <3>1, <3>3, <5>1 DEF n
        <5> QED BY <5>3, <5>4 DEF Follows
      <4> QED BY <4>1, <4>2
    <3> QED BY <3>1, <3>3, <3>4, <3>5
  <2>2. CASE i \notin 1 .. Len(r)
    <3> DEFINE j == i - Len(r)
    <3>1. j \in 1 .. Len(w) /\ i = Len(r) + j /\ (i = Len(u) => j = Len(w))
      BY <1>2, <1>10, <2>2, SMTT(60)
    <3>2. u[i] = <<n, j, w[j]>>
      <4> HIDE DEF j
      <4> QED BY <1>10, <3>1
    <3>3. u[i][1] = n /\ u[i][2] = j /\ u[i][3] = w[j]
      <4> HIDE DEF j
      <4> QED BY <3>2
    <3>4. ASSUME i + 1 \in DOMAIN u
          PROVE  Follows(t, n, j, u[i + 1])
      <4>1. j + 1 \in 1 .. Len(w) /\ i + 1 = Len(r) + (j + 1)
        <5>1. Len(w) \in Nat
          BY <1>2
        <5> QED BY <1>17, <3>1, <3>4, <5>1, SMTT(60)
      <4> HIDE DEF j
      <4>2. u[i + 1] = <<n, j + 1, w[j + 1]>>
        BY <1>10, <4>1
      <4>3. u[i + 1][1] = n /\ u[i + 1][2] = j + 1
        BY <4>2
      <4> QED BY <4>3 DEF Follows
    <3> HIDE DEF j
    <3> QED BY <1>1, <1>4, <3>1, <3>3, <3>4 DEF w
  <2> QED BY <2>1, <2>2
<1>13. u \in Seq((1 .. Len(t)) \X Nat \X Byte)
  BY <1>1, <1>10 DEF T
<1>14. Ordered(u, t)
  BY <1>12, <1>13 DEF Ordered
<1>15. r # <<>> => Head(u) = Head(r)
  BY <1>5, <1>10, <1>11
<1>16. r = <<>> => Head(u)[1] = n /\ Head(u)[2] = 1
  <2> SUFFICES ASSUME r = <<>> PROVE Head(u)[1] = n /\ Head(u)[2] = 1
    OBVIOUS
  <2>1. Len(r) = 0 /\ 1 \in 1 .. Len(w)
    BY <1>2
  <2>2. u[0 + 1] = <<n, 1, w[1]>> /\ 0 + 1 = 1
    BY <1>10, <2>1
  <2> QED BY <1>11, <2>2
<1> QED BY <1>11, <1>14, <1>15, <1>16 DEF t, u, n, new, w

-----------------------------------------------------------------------------
(* The steps of the panel, of the line and of the receiver.                *)

LEMMA TypeSound == TypeOK => Sound(app) /\ sent \in Seq(Messages) /\ Len(sent) \in Nat
BY DEF TypeOK, Sound

(* What has been logged stays as it was.                                   *)
LEMMA LoggedStays ==
  ASSUME NEW a, NEW c, Sound(a), Extends(a, c), NEW n \in Nat, NEW s,
         Len(a.log) >= n + 1 /\ \A i \in 1 .. n + 1 : a.log[i] = s[i]
  PROVE  Len(c.log) >= n + 1 /\ \A i \in 1 .. n + 1 : c.log[i] = s[i]
<1>1. /\ Len(a.log) \in Nat /\ Len(c.log) \in Nat /\ Len(a.log) <= Len(c.log)
      /\ \A i \in 1 .. Len(a.log) : c.log[i] = a.log[i]
  BY SMTT(60) DEF Extends, Sound, App
<1>2. ASSUME NEW i \in 1 .. n + 1
      PROVE  c.log[i] = s[i]
  <2>1. i \in 1 .. Len(a.log)
    BY <1>1
  <2> QED BY <1>1, <2>1
<1> QED BY <1>1, <1>2

LEMMA LogOfTwo ==
  ASSUME sent \in Seq(Messages), NEW n \in Nat, n + 1 \in 1 .. Len(sent), n >= 1,
         NEW log, log = Append(SubSeq(sent, 1, n), sent[n + 1])
  PROVE  Len(log) >= n + 1 /\ \A i \in 1 .. n + 1 : log[i] = sent[i]
<1>1. n \in 0 .. Len(sent) - 1 /\ n + 1 \in 0 .. Len(sent)
  OBVIOUS
<1>2. log = SubSeq(sent, 1, n + 1)
  BY <1>1, PrefixGrows
<1>3. Len(log) = n + 1 /\ \A i \in 1 .. n + 1 : log[i] = sent[i]
  BY <1>1, <1>2, Prefix
<1> QED BY <1>3

(* A byte handled takes the receiver on by one place: to the next byte of  *)
(* its message, or to the first of the next.                               *)
LEMMA ReceiveInStep ==
  ASSUME TypeOK, Ordered(rest, sent), NEW k \in Nat, InStep(k), Receive
  PROVE  \E j \in Nat : InStep(j)'
<1> DEFINE e == Head(rest)
<1>0. PICK n, i, b : n = e[1] /\ i = e[2] /\ b = e[3]
  OBVIOUS
<1>1. Sound(app) /\ sent \in Seq(Messages) /\ Len(sent) \in Nat
  BY TypeSound
<1>2. /\ n \in 1 .. Len(sent) /\ i \in 1 .. Size(sent, n) /\ b = Wire(sent[n])[i] /\ b \in Byte
      /\ IF Tail(rest) = <<>> THEN n = Len(sent) /\ i = Size(sent, Len(sent))
                              ELSE Follows(sent, n, i, Head(Tail(rest)))
  BY <1>0, <1>1, OrderedHead DEF Receive
<1>3. /\ app' = Rx(app, b) /\ rest' = Tail(rest) /\ begun' = n
      /\ sent' = sent /\ flushed' = flushed /\ rest # <<>>
  BY <1>0 DEF Receive
<1>4. /\ Follows(sent, begun, k, e)
      /\ IF begun = 0 THEN k = 0 ELSE k \in 1 .. Size(sent, begun)
      /\ flushed \subseteq 0 .. begun /\ (begun \in flushed => k = Size(sent, begun))
      /\ begun \in Nat
  BY <1>3 DEF InStep, Reached, TypeOK
<1>5. /\ sent[n] \in Messages /\ Size(sent, n) = Len(Wire(sent[n])) /\ Size(sent, n) \in Nat
      /\ Size(sent, n) >= 2 /\ Wire(sent[n])[1] = Star
  BY <1>1, <1>2, SizeFacts
<1>6. \/ n = begun /\ i = k + 1
      \/ n = begun + 1 /\ i = 1 /\ k = Size(sent, begun)
  BY <1>0, <1>4 DEF Follows
<1>7. Extends(app, Rx(app, b))
  BY <1>1, <1>2, RxExtends
<1> HIDE DEF e
<1>8. i \in Nat /\ n \in Nat /\ n # 0 /\ begun <= n
  BY <1>2, <1>4, <1>5, <1>6
<1>9. n \notin flushed
  <2>1. CASE n = begun /\ i = k + 1
    BY <1>2, <1>4, <1>5, <2>1
  <2>2. CASE n = begun + 1
    BY <1>4, <2>2
  <2> QED BY <1>6, <2>1, <2>2
<1>10. Reached(i)'
  <2>1. IF rest' = <<>> THEN begun' = Len(sent') /\ i = Size(sent', begun')
        ELSE Follows(sent', begun', i, Head(rest'))
    BY <1>2, <1>3
  <2>2. flushed' \subseteq 0 .. begun' /\ begun' \notin flushed'
    BY <1>3, <1>4, <1>8, <1>9
  <2>3. IF begun' = 0 THEN i = 0 ELSE i \in 1 .. Size(sent', begun')
    BY <1>2, <1>3, <1>8
  <2> QED BY <2>1, <2>2, <2>3 DEF Reached
<1>11. ASSUME NEW c \in Nat
       PROVE  Clean(c)' <=> Clean(c)
  BY <1>3 DEF Clean, Starred
<1>12. ASSUME n = begun + 1, begun # 0
       PROVE  begun \in 1 .. Len(sent) /\ n - 1 = begun
  BY <1>2, <1>4, <1>8, <1>12
<1>13. ASSUME Clean(n)
       PROVE  IF i = Size(sent, n) THEN After(Rx(app, b), sent[n], Before(n), FALSE)
                                   ELSE Inside(Rx(app, b), sent[n], i, Before(n))
  <2>1. CASE n = begun /\ i = k + 1
    <3>1. k \in Nat /\ k >= 1 /\ k < Size(sent, n) /\ begun # 0
      BY <1>2, <1>4, <1>5, <1>8, <2>1
    <3>2. Holds(k)
      BY <1>13, <2>1 DEF InStep
    <3>3. Inside(app, sent[n], k, Before(n))
      BY <2>1, <3>1, <3>2 DEF Holds
    <3>4. sent[n].kind = "touch" => \A x \in 1 .. Len(sent[n].bytes) : sent[n].bytes[x] # Star
      BY <1>8, <1>13 DEF Clean, Starred
    <3>5. b = Wire(sent[n])[k + 1] /\ k < Len(Wire(sent[n]))
      BY <1>2, <1>5, <2>1, <3>1
    <3> QED BY <1>5, <2>1, <3>1, <3>3, <3>4, <3>5, InsideNext
  <2>2. CASE n = begun + 1 /\ i = 1 /\ k = Size(sent, begun)
    <3>1. Clean(begun)
      BY <1>4, <1>13, <2>2 DEF Clean
    <3>2. Holds(k)
      BY <3>1 DEF InStep
    <3>3. Ready(app, Before(n))
      <4>1. CASE begun = 0
        <5>1. Calm(app, Idle, <<>>, <<>>)
          BY <3>2, <4>1 DEF Holds
        <5>2. n = 1
          BY <2>2, <4>1
        <5>3. Before(1) = <<>>
          BY <1>1, <1>2, BeforeNext
        <5> QED BY <5>1, <5>2, <5>3 DEF Ready
      <4>2. CASE begun # 0
        <5>1. begun \in 1 .. Len(sent) /\ n - 1 = begun
          BY <1>12, <2>2, <4>2
        <5>2. After(app, sent[begun], Before(begun), begun \in flushed)
          BY <2>2, <3>2, <4>2 DEF Holds
        <5>3. Pending(sent[begun]) => begun \in flushed
          BY <1>13, <5>1 DEF Clean
        <5>4. Append(Before(begun), sent[begun]) = Before(n)
          BY <1>1, <2>2, <5>1, BeforeNext
        <5> QED BY <5>2, <5>3, <5>4 DEF After
      <4> QED BY <4>1, <4>2
    <3>4. b = Star /\ i # Size(sent, n)
      <4>1. b = Wire(sent[n])[1]
        BY <1>2, <2>2
      <4>2. i # Size(sent, n)
        <5>1. Size(sent, n) >= 2
          BY <1>5
        <5>2. ~(1 >= 2)
          OBVIOUS
        <5> QED BY <2>2, <5>1, <5>2, Zenon
      <4> QED BY <1>5, <4>1, <4>2
    <3>5. Opening(Rx(app, Star), Before(n))
      BY <3>3, ReadyOpens
    <3> QED BY <2>2, <3>4, <3>5 DEF Inside
  <2> QED BY <1>6, <2>1, <2>2
<1>14. Clean(begun)' => Holds(i)'
  <2> SUFFICES ASSUME Clean(begun)' PROVE Holds(i)'
    OBVIOUS
  <2>1. Clean(n)
    BY <1>3 DEF Clean, Starred
  <2>2. IF i = Size(sent, n) THEN After(Rx(app, b), sent[n], Before(n), FALSE)
                             ELSE Inside(Rx(app, b), sent[n], i, Before(n))
    BY <1>13, <2>1
  <2>3. Before(n)' = Before(n)
    BY <1>3 DEF Before
  <2>4. (n \in flushed) = FALSE
    BY <1>9
  <2> QED BY <1>3, <1>8, <2>2, <2>3, <2>4 DEF Holds, Before
<1>15. ASSUME NEW c \in 1 .. n - 1, Clean(c), Pending(sent[c]), c \notin flushed,
              sent[c + 1].kind = "frame"
       PROVE  IF n = c + 1 /\ i < Size(sent, n)
                THEN InsideCut(Rx(app, b), sent[n], i, SubSeq(sent, 1, c))
              ELSE Len(Rx(app, b).log) >= c + 1 /\ \A x \in 1 .. c + 1 : Rx(app, b).log[x] = sent[x]
  <2>0. c \in Nat /\ c >= 1 /\ c + 1 <= n /\ c \in 1 .. Len(sent) /\ c + 1 \in 1 .. Len(sent)
    BY <1>2, <1>8
  <2>1. CASE n = begun /\ i = k + 1
    <3>1. k \in Nat /\ k >= 1 /\ k < Size(sent, n)
      BY <1>2, <1>4, <1>5, <1>8, <2>1
    <3>2. Keeps(c, k)
      BY <1>15, <2>1 DEF InStep
    <3>3. CASE n = c + 1
      <4>1. InsideCut(app, sent[n], k, SubSeq(sent, 1, c))
        BY <2>1, <3>1, <3>2, <3>3 DEF Keeps
      <4>2. b = Wire(sent[n])[k + 1] /\ k < Len(Wire(sent[n])) /\ sent[n].kind = "frame"
        BY <1>2, <1>5, <1>15, <2>1, <3>1, <3>3
      <4>3. IF k + 1 = Len(Wire(sent[n])) THEN Rx(app, b).log = Append(SubSeq(sent, 1, c), sent[n])
            ELSE InsideCut(Rx(app, b), sent[n], k + 1, SubSeq(sent, 1, c))
        BY <1>5, <3>1, <4>1, <4>2, InsideCutNext
      <4>4. CASE k + 1 = Len(Wire(sent[n]))
        <5>1. Rx(app, b).log = Append(SubSeq(sent, 1, c), sent[c + 1])
          BY <3>3, <4>3, <4>4
        <5>2. Len(Rx(app, b).log) >= c + 1 /\ \A x \in 1 .. c + 1 : Rx(app, b).log[x] = sent[x]
          BY <1>1, <2>0, <5>1, LogOfTwo
        <5>3. ~(i < Size(sent, n))
          BY <1>5, <2>1, <4>4
        <5> QED BY <5>2, <5>3
      <4>5. CASE k + 1 # Len(Wire(sent[n]))
        <5>1. i < Size(sent, n)
          BY <1>2, <1>5, <2>1, <4>5
        <5> QED BY <2>1, <3>3, <4>3, <4>5, <5>1
      <4> QED BY <4>4, <4>5
    <3>4. CASE n # c + 1
      <4>1. Len(app.log) >= c + 1 /\ \A x \in 1 .. c + 1 : app.log[x] = sent[x]
        BY <2>1, <3>2, <3>4 DEF Keeps
      <4> QED BY <1>1, <1>7, <2>0, <3>4, <4>1, LoggedStays
    <3> QED BY <3>3, <3>4
  <2>2. CASE n = begun + 1 /\ i = 1 /\ k = Size(sent, begun)
    <3>0. begun \in 1 .. Len(sent) /\ begun # 0
      <4>1. begun # 0
        BY <1>4, <1>8, <2>0, <2>2
      <4> QED BY <1>12, <2>2, <4>1
    <3>1. CASE c = begun
      <4>1. Holds(k)
        BY <1>15, <3>1 DEF InStep
      <4>2. After(app, sent[c], Before(c), FALSE)
        <5>1. (begun \in flushed) = FALSE
          BY <1>15, <3>1
        <5> QED BY <2>2, <3>0, <3>1, <4>1, <5>1 DEF Holds
      <4>3. sent[c] \in Messages
        BY <1>1, <2>0, SizeFacts
      <4>4. Append(Before(c), sent[c]) = SubSeq(sent, 1, c)
        BY <1>1, <2>0, BeforeNext
      <4>5. InsideCut(Rx(app, Star), sent[n], 1, SubSeq(sent, 1, c))
        BY <1>15, <4>2, <4>3, <4>4, CutOpens
      <4>6. b = Star /\ i < Size(sent, n) /\ n = c + 1
        BY <1>2, <1>5, <2>2, <3>1
      <4> QED BY <2>2, <4>5, <4>6
    <3>2. CASE c # begun
      <4>1. c \in 1 .. begun - 1
        BY <1>4, <2>0, <2>2, <3>2
      <4>2. Keeps(c, k)
        BY <1>15, <4>1 DEF InStep
      <4>3. ~(k < Size(sent, begun))
        <5>1. Size(sent, begun) \in Nat
          BY <1>1, <3>0, SizeFacts
        <5> QED BY <2>2, <5>1
      <4>4. Len(app.log) >= c + 1 /\ \A x \in 1 .. c + 1 : app.log[x] = sent[x]
        BY <4>2, <4>3 DEF Keeps
      <4>5. n # c + 1
        BY <1>4, <2>0, <2>2, <3>2
      <4> QED BY <1>1, <1>7, <2>0, <4>4, <4>5, LoggedStays
    <3> QED BY <3>1, <3>2
  <2> QED BY <1>6, <2>1, <2>2
<1>16. ASSUME NEW c \in 1 .. begun' - 1,
              Clean(c)', Pending(sent'[c]), c \notin flushed', sent'[c + 1].kind = "frame"
       PROVE  Keeps(c, i)'
  <2>1. c \in 1 .. n - 1 /\ Clean(c) /\ Pending(sent[c]) /\ c \notin flushed
        /\ sent[c + 1].kind = "frame"
    BY <1>3, <1>16 DEF Clean, Starred
  <2>2. IF n = c + 1 /\ i < Size(sent, n)
          THEN InsideCut(Rx(app, b), sent[n], i, SubSeq(sent, 1, c))
        ELSE Len(Rx(app, b).log) >= c + 1 /\ \A x \in 1 .. c + 1 : Rx(app, b).log[x] = sent[x]
    BY <1>15, <2>1
  <2> QED BY <1>3, <2>2 DEF Keeps
<1>17. InStep(i)'
  BY <1>10, <1>14, <1>16 DEF InStep
<1> QED BY <1>8, <1>17

(* A message sent leaves the place, and what is held there, as it was.     *)
LEMMA SendInStep ==
  ASSUME TypeOK, Ordered(rest, sent), NEW k \in Nat, InStep(k), NEW m \in Messages, Send(m)
  PROVE  InStep(k)'
<1>1. sent \in Seq(Messages) /\ Len(sent) \in Nat /\ begun \in 0 .. Len(sent)
  BY TypeSound DEF TypeOK
<1>2. /\ sent' = Append(sent, m) /\ rest' = rest \o Numbered(Len(sent) + 1, Wire(m))
      /\ app' = app /\ begun' = begun /\ flushed' = flushed
  BY DEF Send
<1>3. /\ \A c \in 1 .. Len(sent) : sent'[c] = sent[c]
      /\ \A c \in 0 .. Len(sent) : Size(sent', c) = Size(sent, c) /\ SubSeq(sent', 1, c) = SubSeq(sent, 1, c)
      /\ Len(sent') = Len(sent) + 1
  BY <1>1, <1>2, SizeGrows
<1>4. /\ rest' # <<>>
      /\ rest # <<>> => Head(rest') = Head(rest)
      /\ rest = <<>> => Head(rest')[1] = Len(sent) + 1 /\ Head(rest')[2] = 1
  BY <1>1, <1>2, OrderedSend
<1>5. Reached(k)
  BY DEF InStep
<1>6. Follows(sent, begun, k, Head(rest'))
  <2>1. CASE rest = <<>>
    BY <1>4, <1>5, <2>1 DEF Reached, Follows
  <2>2. CASE rest # <<>>
    BY <1>4, <1>5, <2>2 DEF Reached
  <2> QED BY <2>1, <2>2
<1>7. Reached(k)'
  <2>1. Size(sent', begun') = Size(sent, begun)
    BY <1>1, <1>2, <1>3
  <2>2. Follows(sent', begun', k, Head(rest'))
    BY <1>2, <1>6, <2>1 DEF Follows
  <2> QED BY <1>2, <1>4, <1>5, <2>1, <2>2 DEF Reached
<1>8. ASSUME NEW c \in 0 .. Len(sent)
      PROVE  Clean(c)' <=> Clean(c)
  <2>1. \A d \in 1 .. c : d \in 1 .. Len(sent) /\ sent'[d] = sent[d]
    BY <1>1, <1>3
  <2>2. \A d \in 1 .. c - 1 : sent'[d] = sent[d]
    BY <1>1, <1>3
  <2> QED BY <1>2, <2>1, <2>2, SMTT(60) DEF Clean, Starred
<1>9. Clean(begun)' => Holds(k)'
  <2> SUFFICES ASSUME Clean(begun)' PROVE Holds(k)'
    OBVIOUS
  <2>1. Clean(begun)
    BY <1>1, <1>2, <1>8 DEF Clean, Starred
  <2>2. Holds(k)
    BY <2>1 DEF InStep
  <2>3. CASE begun = 0
    BY <1>2, <2>2, <2>3 DEF Holds
  <2>4. CASE begun # 0
    <3>1. begun \in 1 .. Len(sent) /\ begun - 1 \in 0 .. Len(sent)
      BY <1>1, <2>4
    <3>2. sent'[begun] = sent[begun] /\ Size(sent', begun) = Size(sent, begun)
          /\ SubSeq(sent', 1, begun - 1) = SubSeq(sent, 1, begun - 1)
      BY <1>1, <1>3, <3>1
    <3> QED BY <1>2, <2>2, <2>4, <3>2 DEF Holds, Before
  <2> QED BY <2>3, <2>4
<1>10. ASSUME NEW c \in 1 .. begun' - 1,
              Clean(c)', Pending(sent'[c]), c \notin flushed', sent'[c + 1].kind = "frame"
       PROVE  Keeps(c, k)'
  <2>1. c \in 1 .. begun - 1 /\ c \in 0 .. Len(sent) /\ c \in 1 .. Len(sent) /\ c + 1 \in 1 .. Len(sent)
        /\ begun \in 1 .. Len(sent)
    BY <1>1, <1>2
  <2>2. Clean(c)
    BY <1>8, <1>10, <2>1
  <2>3. sent'[c] = sent[c] /\ sent'[c + 1] = sent[c + 1]
    BY <1>3, <2>1
  <2>4. Keeps(c, k)
    BY <1>2, <1>10, <2>1, <2>2, <2>3 DEF InStep
  <2>5. sent'[begun] = sent[begun] /\ Size(sent', begun) = Size(sent, begun)
        /\ SubSeq(sent', 1, c) = SubSeq(sent, 1, c)
    BY <1>1, <1>3, <2>1
  <2>6. \A x \in 1 .. c + 1 : sent'[x] = sent[x]
    BY <1>1, <1>3, <2>1
  <2> QED BY <1>2, <2>4, <2>5, <2>6 DEF Keeps
<1> QED BY <1>7, <1>9, <1>10 DEF InStep

(* A flush between two messages logs what was pending, and no more.        *)
LEMMA FlushInStep ==
  ASSUME TypeOK, Ordered(rest, sent), NEW k \in Nat, InStep(k),
         FlushTo(FlushRaw(app)) \/ FlushTo(FlushAll(app))
  PROVE  InStep(k)'
<1>1. Sound(app) /\ sent \in Seq(Messages) /\ Len(sent) \in Nat /\ begun \in 0 .. Len(sent)
  BY TypeSound DEF TypeOK
<1>2. /\ app' = FlushRaw(app) \/ app' = FlushAll(app)
      /\ flushed' = flushed \union {Handled}
      /\ sent' = sent /\ rest' = rest /\ begun' = begun /\ Between
  BY DEF FlushTo
<1>3. Reached(k)
  BY DEF InStep
<1>4. Handled = begun /\ k = Size(sent, begun)
  <2>1. CASE rest = <<>>
    BY <1>3, <2>1 DEF Reached, Handled
  <2>2. CASE rest # <<>>
    <3>1. Head(rest)[1] = begun + 1 /\ k = Size(sent, begun)
      BY <1>2, <1>3, <2>2 DEF Between, Reached, Follows
    <3> QED BY <1>1, <2>2, <3>1 DEF Handled
  <2> QED BY <2>1, <2>2
<1>5. Extends(app, app')
  BY <1>1, <1>2, FlushAllExtends
<1>6. flushed' = flushed \union {begun}
  BY <1>2, <1>4
<1>7. Reached(k)'
  <2>1. flushed' \subseteq 0 .. begun
    BY <1>1, <1>3, <1>6 DEF Reached
  <2> QED BY <1>2, <1>3, <1>4, <2>1 DEF Reached
<1>8. ASSUME NEW c \in 1 .. begun
      PROVE  Clean(c)' <=> Clean(c)
  <2>1. \A d \in 1 .. c - 1 : d # begun
    BY <1>1
  <2>2. \A d \in 1 .. c - 1 : d \in flushed' <=> d \in flushed
    BY <1>6, <2>1
  <2> QED BY <1>2, <2>2 DEF Clean, Starred
<1>9. Clean(begun)' => Holds(k)'
  <2> SUFFICES ASSUME Clean(begun)' PROVE Holds(k)'
    OBVIOUS
  <2>1. CASE begun = 0
    <3>1. Clean(begun)
      BY <2>1 DEF Clean
    <3>2. Calm(app, Idle, <<>>, <<>>)
      BY <2>1, <3>1 DEF InStep, Holds
    <3>3. app' = app
      <4>1. FlushRaw(app) = app /\ FlushAll(app) = app
        BY <3>2, FlushCalm
      <4> QED BY <1>2, <4>1
    <3> QED BY <1>2, <2>1, <3>2, <3>3 DEF Holds
  <2>2. CASE begun # 0
    <3>1. begun \in 1 .. begun /\ begun \in 1 .. Len(sent)
      BY <1>1, <2>2
    <3>2. Clean(begun)
      <4>1. \A d \in 1 .. begun - 1 : d # begun
        BY <1>1
      <4>2. \A d \in 1 .. begun - 1 : d \in flushed' <=> d \in flushed
        BY <1>6, <4>1
      <4> QED BY <1>2, <4>2 DEF Clean, Starred
    <3>3. After(app, sent[begun], Before(begun), begun \in flushed)
      BY <1>4, <2>2, <3>2 DEF InStep, Holds
    <3>4. sent[begun] \in Messages /\ (begun \in flushed) \in BOOLEAN
      BY <1>1, <3>1, SizeFacts
    <3>5. /\ After(FlushRaw(app), sent[begun], Before(begun), TRUE)
          /\ After(FlushAll(app), sent[begun], Before(begun), TRUE)
      BY <3>3, <3>4, SentFlushed, Zenon
    <3>6. After(app', sent[begun], Before(begun), TRUE)
      BY <1>2, <3>5
    <3>7. (begun \in flushed') = TRUE
      BY <1>6
    <3> QED BY <1>2, <1>4, <2>2, <3>6, <3>7 DEF Holds, Before
  <2> QED BY <2>1, <2>2
<1>10. ASSUME NEW c \in 1 .. begun' - 1,
              Clean(c)', Pending(sent'[c]), c \notin flushed', sent'[c + 1].kind = "frame"
       PROVE  Keeps(c, k)'
  <2>1. c \in 1 .. begun - 1 /\ c \in 1 .. begun /\ c \in Nat
    BY <1>1, <1>2
  <2>2. Clean(c) /\ c \notin flushed
    BY <1>6, <1>8, <1>10, <2>1
  <2>3. Keeps(c, k)
    BY <1>2, <1>10, <2>1, <2>2 DEF InStep
  <2>4. ~(k < Size(sent, begun))
    <3>1. begun \in 1 .. Len(sent)
      BY <1>1, <2>1
    <3>2. Size(sent, begun) \in Nat
      BY <1>1, <3>1, SizeFacts
    <3> QED BY <1>4, <3>2
  <2>5. Len(app.log) >= c + 1 /\ \A x \in 1 .. c + 1 : app.log[x] = sent[x]
    BY <2>3, <2>4 DEF Keeps
  <2>6. Len(app'.log) >= c + 1 /\ \A x \in 1 .. c + 1 : app'.log[x] = sent[x]
    BY <1>1, <1>5, <2>1, <2>5, LoggedStays
  <2> QED BY <1>2, <2>4, <2>6 DEF Keeps
<1> QED BY <1>7, <1>9, <1>10 DEF InStep

LEMMA SameInStep ==
  ASSUME NEW k \in Nat, InStep(k), UNCHANGED vars
  PROVE  InStep(k)'
BY DEF InStep, Reached, Holds, Keeps, Clean, Starred, Before, vars

(* What lies on the line stays ordered, and everything keeps its type.     *)
LEMMA OrderedNext == TypeOK /\ Ordered(rest, sent) /\ [Next]_vars => TypeOK' /\ Ordered(rest', sent')
<1> SUFFICES ASSUME TypeOK, Ordered(rest, sent), [Next]_vars
             PROVE  TypeOK' /\ Ordered(rest', sent')
  OBVIOUS
<1>1. /\ Sound(app) /\ sent \in Seq(Messages) /\ Len(sent) \in Nat /\ Len(sent) <= MaxMessages
      /\ begun \in 0 .. Len(sent) /\ flushed \subseteq 0 .. Len(sent)
      /\ lost \in Seq(1 .. Len(sent)) /\ Len(lost) <= MaxLost /\ Len(lost) \in Nat
  BY TypeSound DEF TypeOK
<1>2. ASSUME Sound(app'), sent' \in Seq(Messages), Len(sent') <= MaxMessages, Ordered(rest', sent'),
             begun' \in 0 .. Len(sent'), flushed' \subseteq 0 .. Len(sent'),
             lost' \in Seq(1 .. Len(sent')), Len(lost') <= MaxLost
      PROVE  TypeOK' /\ Ordered(rest', sent')
  BY <1>2 DEF TypeOK, Sound, Ordered
<1>3. ASSUME rest # <<>>
      PROVE  /\ Head(rest)[1] \in 1 .. Len(sent) /\ Head(rest)[3] \in Byte
             /\ Ordered(Tail(rest), sent)
  BY <1>1, <1>3, OrderedHead, OrderedTail
<1>4. ASSUME NEW m \in Messages, Send(m)
      PROVE  TypeOK' /\ Ordered(rest', sent')
  <2>1. /\ Len(sent) < MaxMessages /\ sent' = Append(sent, m)
        /\ rest' = rest \o Numbered(Len(sent) + 1, Wire(m))
        /\ app' = app /\ begun' = begun /\ flushed' = flushed /\ lost' = lost
    BY <1>4 DEF Send
  <2>2. sent' \in Seq(Messages) /\ Len(sent') = Len(sent) + 1
    BY <1>1, <2>1
  <2>3. Ordered(rest', sent')
    BY <1>1, <2>1, OrderedSend
  <2>4. 0 .. Len(sent) \subseteq 0 .. Len(sent') /\ 1 .. Len(sent) \subseteq 1 .. Len(sent')
    BY <1>1, <2>2
  <2>5. lost' \in Seq(1 .. Len(sent'))
    BY <1>1, <2>1, <2>4, SeqMonotonic
  <2>6. Len(sent') <= MaxMessages
    BY <1>1, <2>1, <2>2, BoundsAssumption
  <2> QED BY <1>1, <1>2, <2>1, <2>2, <2>3, <2>4, <2>5, <2>6
<1>5. CASE Receive
  <2>1. /\ rest # <<>> /\ app' = Rx(app, Head(rest)[3]) /\ rest' = Tail(rest)
        /\ begun' = Head(rest)[1] /\ sent' = sent /\ flushed' = flushed /\ lost' = lost
    BY <1>5 DEF Receive
  <2>2. Sound(app')
    BY <1>1, <1>3, <2>1, RxExtends DEF Extends
  <2>3. begun' \in 0 .. Len(sent')
    BY <1>1, <1>3, <2>1
  <2>4. Ordered(rest', sent')
    BY <1>3, <2>1
  <2> QED BY <1>1, <1>2, <2>1, <2>2, <2>3, <2>4
<1>6. CASE Lose
  <2>1. /\ rest # <<>> /\ Len(lost) < MaxLost /\ rest' = Tail(rest)
        /\ lost' = Append(lost, Head(rest)[1])
        /\ app' = app /\ sent' = sent /\ begun' = begun /\ flushed' = flushed
    BY <1>6 DEF Lose
  <2>2. lost' \in Seq(1 .. Len(sent')) /\ Len(lost') = Len(lost) + 1
    <3> DEFINE S == 1 .. Len(sent)
               x == Head(rest)[1]
    <3>1. lost \in Seq(S) /\ x \in S /\ lost' = Append(lost, x) /\ sent' = sent
      BY <1>1, <1>3, <2>1
    <3> HIDE DEF S, x
    <3>2. lost' \in Seq(S) /\ Len(lost') = Len(lost) + 1
      BY <3>1
    <3> QED BY <3>1, <3>2 DEF S
  <2>3. Len(lost') <= MaxLost
    BY <1>1, <2>1, <2>2, BoundsAssumption
  <2>4. Ordered(rest', sent')
    BY <1>3, <2>1
  <2> QED BY <1>1, <1>2, <2>1, <2>2, <2>3, <2>4
<1>7. ASSUME FlushTo(FlushRaw(app)) \/ FlushTo(FlushAll(app))
      PROVE  TypeOK' /\ Ordered(rest', sent')
  <2>1. /\ app' = FlushRaw(app) \/ app' = FlushAll(app)
        /\ flushed' = flushed \union {Handled}
        /\ sent' = sent /\ rest' = rest /\ begun' = begun /\ lost' = lost
    BY <1>7 DEF FlushTo
  <2>2. Sound(app')
    BY <1>1, <2>1, FlushAllExtends DEF Extends
  <2>3. Handled \in 0 .. Len(sent)
    BY <1>1, <1>3 DEF Handled
  <2>4. flushed' \subseteq 0 .. Len(sent')
    BY <1>1, <2>1, <2>3
  <2> QED BY <1>1, <1>2, <2>1, <2>2, <2>4
<1>8. CASE UNCHANGED vars
  BY <1>1, <1>2, <1>8 DEF vars
<1> QED BY <1>4, <1>5, <1>6, <1>7, <1>8 DEF Next

(* The receiver starts in step.                                            *)
LEMMA DInvInit == Init => DInv
<1> SUFFICES ASSUME Init PROVE DInv
  OBVIOUS
<1>1. sent = <<>> /\ rest = <<>> /\ begun = 0 /\ flushed = {} /\ lost = <<>>
  BY DEF Init
<1>2. /\ IsApp(app) /\ app.parser = Idle /\ app.raw = <<>> /\ app.waiting = FALSE
      /\ app.touch = FALSE /\ app.type = 0 /\ app.buf = <<>> /\ app.star = FALSE
      /\ app.unknown = <<>> /\ app.log = <<>>
  BY DEF Init, IsApp, Fields
<1>3. Idle \in Parser /\ 0 \in Byte /\ <<>> \in Seq(Events)
  BY DEF Idle, Parser, Byte
<1>4. Sound(app)
  BY <1>2, <1>3, SoundParts, Nothing
<1>5. Len(sent) = 0 /\ Len(lost) = 0 /\ sent \in Seq(Messages) /\ lost \in Seq(1 .. Len(sent))
      /\ rest \in Seq((1 .. Len(sent)) \X Nat \X Byte) /\ DOMAIN rest = {}
  BY <1>1
<1>6. TypeOK /\ Ordered(rest, sent)
  BY <1>1, <1>4, <1>5, BoundsAssumption DEF TypeOK, Sound, Ordered
<1>7. Calm(app, Idle, <<>>, <<>>)
  BY <1>2 DEF Calm
<1>8. Reached(0)
  BY <1>1, <1>5 DEF Reached, Size
<1>9. InStep(0)
  BY <1>1, <1>7, <1>8 DEF InStep, Holds
<1> QED BY <1>6, <1>9 DEF DInv

(* Every step keeps it in step, or loses a byte.                           *)
LEMMA DInvNext == DInv /\ [Next]_vars => DInv'
<1> SUFFICES ASSUME DInv, [Next]_vars PROVE DInv'
  OBVIOUS
<1>1. TypeOK /\ Ordered(rest, sent) /\ TypeOK' /\ Ordered(rest', sent')
  BY OrderedNext DEF DInv
<1>2. ASSUME lost' = <<>>
      PROVE  \E j \in Nat : InStep(j)'
  <2>1. CASE Lose
    <3>1. lost' = Append(lost, Head(rest)[1]) /\ lost \in Seq(1 .. Len(sent)) /\ Len(lost) \in Nat
      BY <1>1, <2>1 DEF Lose, TypeOK
    <3>2. Len(lost') = Len(lost) + 1
      <4>1. Head(rest)[1] \in 1 .. Len(sent)
        BY <1>1, <2>1, TypeSound, OrderedHead DEF Lose
      <4> DEFINE S == 1 .. Len(sent)
                 x == Head(rest)[1]
      <4> HIDE DEF S, x
      <4>2. lost \in Seq(S) /\ x \in S /\ lost' = Append(lost, x)
        BY <3>1, <4>1 DEF S, x
      <4> QED BY <4>2
    <3>3. Len(lost') = 0
      BY <1>2
    <3> QED BY <3>1, <3>2, <3>3
  <2>2. CASE lost = <<>>
    <3>1. PICK k \in Nat : InStep(k)
      BY <2>2 DEF DInv
    <3>2. ASSUME NEW m \in Messages, Send(m)
          PROVE  \E j \in Nat : InStep(j)'
      BY <1>1, <3>1, <3>2, SendInStep
    <3>3. CASE Receive
      BY <1>1, <3>1, <3>3, ReceiveInStep
    <3>4. CASE FlushTo(FlushRaw(app)) \/ FlushTo(FlushAll(app))
      BY <1>1, <3>1, <3>4, FlushInStep
    <3>5. CASE UNCHANGED vars
      BY <3>1, <3>5, SameInStep
    <3> QED BY <2>1, <3>2, <3>3, <3>4, <3>5 DEF Next
  <2>3. ASSUME ~Lose PROVE lost' = lost
    BY <2>3 DEF Next, Send, Receive, FlushTo, vars
  <2> QED BY <1>2, <2>1, <2>2, <2>3
<1> QED BY <1>1, <1>2 DEF DInv

-----------------------------------------------------------------------------
(* No buffer of the receiver is overrun, whatever arrives and whatever is  *)
(* lost, for any set of messages.                                          *)
THEOREM DemuxTypeCorrect == Spec => []TypeOK
<1>1. DInv => TypeOK
  BY DEF DInv
<1> QED BY <1>1, DInvInit, DInvNext, PTL DEF Spec

(* When the line is empty the place is the end of the last message.        *)
LEMMA TrafficLogged == DInv => LogIsTraffic
<1> SUFFICES ASSUME DInv, rest = <<>>, lost = <<>>, \A n \in 1 .. Len(sent) : Plain(n)
             PROVE  FlushAll(app).log = sent
  BY DEF LogIsTraffic
<1>1. sent \in Seq(Messages) /\ Len(sent) \in Nat
  BY TypeSound DEF DInv
<1>2. PICK k \in Nat : InStep(k)
  BY DEF DInv
<1>3. begun = Len(sent) /\ k = Size(sent, begun)
  BY <1>2 DEF InStep, Reached
<1>4. Clean(begun)
  <2>1. ASSUME NEW c \in 1 .. begun - 1
        PROVE  Pending(sent[c]) => c \in flushed
    <3>1. c \in 1 .. Len(sent) /\ c < Len(sent)
      BY <1>1, <1>3
    <3> QED BY <3>1 DEF Plain, Cut, Pending
  <2>2. \A c \in 1 .. begun : ~Starred(c)
    BY <1>3 DEF Plain
  <2> QED BY <2>1, <2>2 DEF Clean
<1>5. Holds(k)
  BY <1>2, <1>4 DEF InStep
<1>6. CASE begun = 0
  <2>1. Calm(app, Idle, <<>>, <<>>)
    BY <1>5, <1>6 DEF Holds
  <2>2. FlushAll(app) = app
    BY <2>1, FlushCalm
  <2>3. app.log = <<>> /\ sent = <<>>
    <3>1. Len(sent) = 0
      BY <1>3, <1>6
    <3>2. sent = <<>>
      BY <1>1, <3>1
    <3> QED BY <2>1, <3>2 DEF Calm
  <2> QED BY <2>2, <2>3
<1>7. CASE begun # 0
  <2>1. begun \in 1 .. Len(sent)
    BY <1>1, <1>3, <1>7
  <2>2. After(app, sent[begun], Before(begun), begun \in flushed)
    BY <1>3, <1>5, <1>7 DEF Holds
  <2>3. sent[begun] \in Messages /\ (begun \in flushed) \in BOOLEAN
    BY <1>1, <2>1, SizeFacts
  <2>4. FlushAll(app).log = Append(Before(begun), sent[begun])
    BY <2>2, <2>3, SentFlushed, Zenon
  <2>5. Append(Before(begun), sent[begun]) = SubSeq(sent, 1, begun)
    BY <1>1, <2>1, BeforeNext
  <2>6. SubSeq(sent, 1, begun) = sent
    <3>1. SubSeq(sent, 1, Len(sent)) = sent
      BY <1>1, SubSeqFull
    <3> QED BY <1>3, <3>1
  <2> QED BY <2>4, <2>5, <2>6
<1> QED BY <1>6, <1>7

(* When the frame has been handled, Keeps is about the two messages.       *)
LEMMA FrameLogged == DInv => FrameAfterPending
<1> SUFFICES ASSUME DInv, NEW n \in 1 .. Len(sent) - 1,
                    Cut(n), sent[n + 1].kind = "frame", lost = <<>>,
                    \A c \in 1 .. n - 1 : Plain(c),
                    \A i \in DOMAIN rest : rest[i][1] > n + 1
             PROVE  SubSeq(app.log, 1, n + 1) = SubSeq(sent, 1, n + 1)
  BY DEF FrameAfterPending
<1>1. /\ sent \in Seq(Messages) /\ Len(sent) \in Nat /\ Sound(app) /\ begun \in 0 .. Len(sent)
      /\ rest \in Seq((1 .. Len(sent)) \X Nat \X Byte)
  BY TypeSound DEF DInv, TypeOK
<1>2. PICK k \in Nat : InStep(k)
  BY DEF DInv
<1>3. Reached(k)
  BY <1>2 DEF InStep
<1>4. n \in Nat /\ n >= 1 /\ n + 1 <= Len(sent) /\ n \in 1 .. Len(sent)
  BY <1>1
<1>5. n + 1 <= begun /\ (begun = n + 1 => k = Size(sent, begun))
  <2>1. CASE rest = <<>>
    BY <1>3, <1>4, <2>1 DEF Reached
  <2>2. CASE rest # <<>>
    <3>1. 1 \in DOMAIN rest /\ Head(rest) = rest[1]
      <4> DEFINE T == (1 .. Len(sent)) \X Nat \X Byte
      <4>1. rest \in Seq(T)
        BY <1>1
      <4> HIDE DEF T
      <4> QED BY <2>2, <4>1
    <3>2. Head(rest)[1] > n + 1
      BY <3>1
    <3>3. Follows(sent, begun, k, Head(rest))
      BY <1>3, <2>2 DEF Reached
    <3> QED BY <1>1, <1>4, <3>2, <3>3, SMTT(60) DEF Follows
  <2> QED BY <2>1, <2>2
<1>6. Clean(n)
  <2>1. ASSUME NEW c \in 1 .. n - 1
        PROVE  ~Starred(c) /\ (Pending(sent[c]) => c \in flushed)
    <3>1. c < Len(sent)
      BY <1>1, <1>4
    <3> QED BY <3>1 DEF Plain, Cut, Pending
  <2>2. ~Starred(n)
    BY DEF Cut, Starred
  <2>3. \A c \in 1 .. n : c = n \/ c \in 1 .. n - 1
    BY <1>4
  <2> QED BY <2>1, <2>2, <2>3 DEF Clean
<1>7. Keeps(n, k)
  <2>1. n \in 1 .. begun - 1
    BY <1>1, <1>4, <1>5
  <2>2. Pending(sent[n]) /\ n \notin flushed
    BY DEF Cut, Pending
  <2> QED BY <1>2, <1>6, <2>1, <2>2 DEF InStep
<1>8. ~(begun = n + 1 /\ k < Size(sent, begun))
  <2>1. begun \in 1 .. Len(sent)
    BY <1>1, <1>4, <1>5
  <2>2. Size(sent, begun) \in Nat
    BY <1>1, <2>1, SizeFacts
  <2> QED BY <1>5, <2>2
<1>9. Len(app.log) >= n + 1 /\ \A i \in 1 .. n + 1 : app.log[i] = sent[i]
  BY <1>7, <1>8 DEF Keeps
<1> DEFINE x == SubSeq(app.log, 1, n + 1)
           y == SubSeq(sent, 1, n + 1)
<1>10. app.log \in Seq(Events) /\ Len(app.log) \in Nat
  BY <1>1 DEF Sound, App, Events
<1>11. n + 1 \in 0 .. Len(app.log) /\ n + 1 \in 0 .. Len(sent)
  BY <1>4, <1>9, <1>10
<1>12. Len(x) = n + 1 /\ x \in Seq(Events) /\ \A i \in 1 .. n + 1 : x[i] = app.log[i]
  BY <1>10, <1>11, Prefix
<1>13. Len(y) = n + 1 /\ y \in Seq(Messages) /\ \A i \in 1 .. n + 1 : y[i] = sent[i]
  BY <1>1, <1>11, Prefix
<1> HIDE DEF x, y
<1>14. Len(x) = Len(y) /\ \A i \in 1 .. Len(x) : x[i] = y[i]
  BY <1>9, <1>12, <1>13
<1>15. x = y
  BY <1>12, <1>13, <1>14, SeqEqual
<1> QED BY <1>15 DEF x, y

(* However many messages the panel sends, and whichever they are: if no    *)
(* byte is lost, no message follows a pending report at once and no touch  *)
(* report holds a star, the log is the traffic.                            *)
THEOREM LogIsTrafficHolds == Spec => []LogIsTraffic
BY DInvInit, DInvNext, TrafficLogged, PTL DEF Spec

(* The first standard frame that cuts a pending report short is logged     *)
(* whole, and so is the report.                                            *)
THEOREM FrameAfterPendingHolds == Spec => []FrameAfterPending
BY DInvInit, DInvNext, FrameLogged, PTL DEF Spec

-----------------------------------------------------------------------------
(* A receiver out of step, after the line has lost a byte.                 *)

\* The parser is inside some frame.
Framed(a) == IsApp(a) /\ a.parser.in_frame = TRUE /\ a.raw = <<>> /\ a.star = FALSE

\* Neither the parser nor the raw detector has begun anything.
Level(a, star) == IsApp(a) /\ a.parser = Idle /\ a.raw = <<>> /\ a.star = star

\* The raw detector has the first n bytes of what it takes for a report.
Half(a, n) ==
  /\ Calm(a, Idle, a.raw, a.log) /\ a.raw \in Seq(Byte) /\ Len(a.raw) = n
  /\ a.raw[1] = Star /\ a.raw[2] \in Selectors

LEMMA FedFields ==
  ASSUME NEW a, IsApp(a), NEW b
  PROVE  LET c == FeedFrame(a, b) IN
         /\ IsApp(c) /\ c.parser = Feed(a.parser, b) /\ c.raw = a.raw /\ c.star = a.star
<1> DEFINE e == Event("frame", <<a.parser.cmd>> \o a.parser.payload)
           c == FeedFrame(a, b)
<1>1. c = [a EXCEPT !.parser = Feed(@, b), !.log = IF Emits(a.parser, b) THEN Append(@, e) ELSE @]
  BY DEF FeedFrame
<1> HIDE DEF c, e
<1>2. IsApp(c) /\ c.parser = Feed(a.parser, b) /\ c.raw = a.raw /\ c.star = a.star
  BY <1>1 DEF IsApp, Fields
<1> QED BY <1>2 DEF c

\* In a frame a star is always noted, and a check byte behind it ends the frame.
LEMMA FeedFramed ==
  ASSUME NEW p, p.in_frame = TRUE, p.after_star \in BOOLEAN, NEW b \in Byte
  PROVE  LET q == Feed(p, b) IN
         /\ q = Idle \/ q.in_frame = TRUE
         /\ b = Star => q.in_frame = TRUE /\ q.after_star = TRUE
         /\ p.after_star = TRUE /\ b >= 128 => q = Idle
<1>2. CASE p.after_star = TRUE
  <2>1. Feed(p, b) = FeedAfterStar(p, b)
    BY <1>2 DEF Feed
  <2>2. CASE b = Star
    <3>1. Feed(p, b) = Restart(p) /\ ~(b >= 128)
      BY <2>1, <2>2 DEF FeedAfterStar, Star
    <3> QED BY <3>1 DEF Restart, InFrame
  <2>3. CASE b >= 128
    <3>1. b # Star /\ b # Esc /\ IsCheck(b)
      BY <2>3 DEF Star, Esc, IsCheck
    <3> QED BY <2>1, <3>1, Zenon DEF FeedAfterStar
  <2>4. CASE b # Star /\ ~(b >= 128)
    <3>1. ~IsCheck(b)
      BY <2>4 DEF IsCheck
    <3>2. Feed(p, b) \in {Push(p, <<Star>>), Command(p, b), Push(p, <<Star, b>>)}
      BY <2>1, <2>4, <3>1, Zenon DEF FeedAfterStar
    <3>3. Feed(p, b).in_frame = TRUE
      BY <3>2 DEF Push, Command, InFrame
    <3> QED BY <2>4, <3>3
  <2> QED BY <2>2, <2>3, <2>4
<1>3. CASE p.after_star = FALSE
  <2>1. Feed(p, b) = FeedInside(p, b)
    BY <1>3 DEF Feed
  <2>2. CASE b = Star
    <3>1. Feed(p, b) = InFrame(TRUE, p.have_cmd, p.cmd, p.payload)
      BY <2>1, <2>2, Zenon DEF FeedInside
    <3>2. Feed(p, b).in_frame = TRUE /\ Feed(p, b).after_star = TRUE
      BY <3>1 DEF InFrame
    <3> QED BY <1>3, <2>2, <3>2
  <2>3. CASE b # Star
    <3>1. Feed(p, b) \in {Command(p, b), Push(p, <<b>>)}
      BY <2>1, <2>3, Zenon DEF FeedInside
    <3>2. Feed(p, b).in_frame = TRUE
      BY <3>1 DEF Push, Command, InFrame
    <3> QED BY <1>3, <2>3, <3>2
  <2> QED BY <2>2, <2>3
<1> QED BY <1>2, <1>3

LEMMA FramedByte ==
  ASSUME NEW a, Sound(a), Framed(a), NEW b \in Byte
  PROVE  LET c == Rx(a, b) IN
         /\ Framed(c) \/ Level(c, FALSE)
         /\ b = Star => Framed(c) /\ c.parser.after_star = TRUE
         /\ a.parser.after_star = TRUE /\ b >= 128 => Level(c, FALSE)
<1> DEFINE c == Rx(a, b)
<1>1. IsApp(a) /\ a.parser.in_frame = TRUE /\ a.raw = <<>> /\ a.star = FALSE
  BY DEF Framed
<1>2. a.parser.after_star \in BOOLEAN
  BY SoundParts DEF Parser
<1>3. Rx(a, b) = FeedFrame(a, b)
  BY <1>1 DEF Rx
<1>4. IsApp(c) /\ c.parser = Feed(a.parser, b) /\ c.raw = <<>> /\ c.star = FALSE
  BY <1>1, <1>3, FedFields
<1> HIDE DEF c
<1>5. /\ c.parser = Idle \/ c.parser.in_frame = TRUE
      /\ b = Star => c.parser.in_frame = TRUE /\ c.parser.after_star = TRUE
      /\ a.parser.after_star = TRUE /\ b >= 128 => c.parser = Idle
  BY <1>1, <1>2, <1>4, FeedFramed
<1>6. c.parser = Idle => Level(c, FALSE)
  BY <1>4 DEF Level
<1>7. c.parser.in_frame = TRUE => Framed(c)
  BY <1>4 DEF Framed
<1> QED BY <1>5, <1>6, <1>7 DEF c

\* Outside every message a byte waits for a star.
LEMMA LevelByte ==
  ASSUME NEW a, Level(a, FALSE), NEW b
  PROVE  Level(Rx(a, b), b = Star)
<1> DEFINE c == Rx(a, b)
           s == [a EXCEPT !.star = TRUE]
           d == [a EXCEPT !.star = FALSE, !.buf = Room(@, <<b>>)]
           u == [a EXCEPT !.star = FALSE, !.unknown = Room(@, <<b>>)]
<1>1. IsApp(a) /\ a.parser = Idle /\ a.raw = <<>> /\ a.star = FALSE
  BY DEF Level
<1>2. c = IF b = Star THEN s ELSE Collect(a, <<b>>)
  BY <1>1 DEF Rx, Idle
<1>3. Collect(a, <<b>>) \in {d, u}
  BY DEF Collect
<1>4. IsApp(s) /\ s.parser = a.parser /\ s.raw = a.raw /\ s.star = TRUE
  BY <1>1 DEF IsApp, Fields
<1>5. /\ IsApp(d) /\ d.parser = a.parser /\ d.raw = a.raw /\ d.star = FALSE
      /\ IsApp(u) /\ u.parser = a.parser /\ u.raw = a.raw /\ u.star = FALSE
  BY <1>1 DEF IsApp, Fields
<1> HIDE DEF c, s, d, u
<1>6. CASE b = Star
  <2>1. (b = Star) = TRUE
    BY <1>6
  <2>2. Level(c, TRUE)
    BY <1>1, <1>2, <1>4, <1>6 DEF Level
  <2> QED BY <2>1, <2>2 DEF c
<1>7. CASE b # Star
  <2>1. (b = Star) = FALSE
    BY <1>7
  <2>2. Level(c, FALSE)
    BY <1>1, <1>2, <1>3, <1>5, <1>7 DEF Level
  <2> QED BY <2>1, <2>2 DEF c
<1> QED BY <1>6, <1>7

LEMMA CollectLevel ==
  ASSUME NEW a, IsApp(a), a.parser = Idle, a.raw = <<>>, NEW s
  PROVE  Level(Collect(a, s), FALSE)
<1> DEFINE d == [a EXCEPT !.star = FALSE, !.buf = Room(@, s)]
           u == [a EXCEPT !.star = FALSE, !.unknown = Room(@, s)]
<1>1. Collect(a, s) \in {d, u}
  BY DEF Collect
<1>2. /\ IsApp(d) /\ d.parser = a.parser /\ d.raw = a.raw /\ d.star = FALSE
      /\ IsApp(u) /\ u.parser = a.parser /\ u.raw = a.raw /\ u.star = FALSE
  BY DEF IsApp, Fields
<1> HIDE DEF d, u
<1> QED BY <1>1, <1>2 DEF Level

\* Behind a star a byte opens a report, a touch report or a frame, or nothing.
LEMMA StarByte ==
  ASSUME NEW a, NEW log, Opening(a, log), NEW b \in Byte
  PROVE  LET c == Rx(a, b) IN
         /\ b \in Selectors => Calm(c, Idle, <<Star, b>>, log)
         /\ b \notin Selectors => Framed(c) \/ Level(c, FALSE)
         /\ b \notin Selectors /\ b >= 128 => Level(c, FALSE)
         /\ b = Star => Framed(c) /\ c.parser.after_star = TRUE
<1> DEFINE c == Rx(a, b)
           emptied == [FlushUnknown(FlushTouch(a)) EXCEPT !.star = FALSE]
           r == Raw(Raw(emptied, Star).app, b)
           d == FeedFrame(r.app, Star)
<1>1. Calm(emptied, Idle, <<>>, log)
  BY OpensAnew
<1>2. /\ b \notin TouchTypes /\ Standard(b) => c = Open(emptied, b)
      /\ b \notin TouchTypes /\ ~Standard(b) => c = Collect(a, <<Star, b>>)
  <2>1. ASSUME b \notin TouchTypes, Standard(b)
        PROVE  Rx(a, b) = Open(emptied, b)
    BY <2>1, OpensAnew DEF AfterStar
  <2>2. ASSUME b \notin TouchTypes, ~Standard(b)
        PROVE  Rx(a, b) = Collect(a, <<Star, b>>)
    BY <2>2, OpensAnew DEF AfterStar
  <2> QED BY <2>1, <2>2
<1> HIDE DEF emptied
<1>3. CASE b \in Selectors
  <2>1. Calm(c, Idle, <<Star, b>>, log)
    BY <1>3, OpensReport
  <2>2. b # Star
    BY <1>3 DEF Selectors, Star
  <2> QED BY <1>3, <2>1, <2>2
<1>4. CASE b \in TouchTypes
  <2>1. Touched(c, b, <<>>, log)
    BY <1>4, OpensTouch
  <2>2. b \notin Selectors /\ b # Star
    BY <1>4 DEF Selectors, TouchTypes, Star
  <2> QED BY <2>1, <2>2 DEF Touched, Level
<1>5. CASE b \notin TouchTypes /\ ~Standard(b)
  <2>1. Level(c, FALSE)
    BY <1>2, <1>5, CollectLevel DEF Opening
  <2>2. b \notin Selectors /\ b # Star
    BY <1>5 DEF Standard, Star
  <2> QED BY <2>1, <2>2
<1>6. CASE b \notin TouchTypes /\ b \notin Selectors /\ Standard(b)
  <2>1. r.status = 0 /\ Calm(r.app, Idle, <<>>, log)
    BY <1>1, <1>6, RawOpens
  <2>2. c = FeedFrame(d, b)
    <3>1. c = Dispatch(r, FeedFrame(d, b))
      BY <1>2, <1>6 DEF Open
    <3> HIDE DEF r, d
    <3> QED BY <2>1, <3>1 DEF Dispatch
  <2> HIDE DEF r
  <2>3. /\ IsApp(r.app) /\ r.app.parser = Idle /\ r.app.raw = <<>> /\ r.app.star = FALSE
    BY <2>1 DEF Calm
  <2>4. Feed(Idle, Star) = Restart(Idle)
    BY DEF Feed, Idle
  <2>5. IsApp(d) /\ d.parser = Restart(Idle) /\ d.raw = <<>> /\ d.star = FALSE
    BY <2>3, <2>4, FedFields
  <2> HIDE DEF d
  <2>6. IsApp(c) /\ c.parser = Feed(Restart(Idle), b) /\ c.raw = <<>> /\ c.star = FALSE
    BY <2>2, <2>5, FedFields
  <2> DEFINE p == Restart(Idle)
             q == Feed(p, b)
  <2>7. p.in_frame = TRUE /\ p.after_star = TRUE
    BY DEF Restart, InFrame
  <2>8. ~IsCheck(b) /\ ~(b >= 128)
    <3>1. b \in 32 .. 126
      BY <1>6 DEF Standard
    <3> QED BY <3>1 DEF IsCheck
  <2> HIDE DEF p, c
  <2>9. q.in_frame = TRUE /\ (b = Star => q.after_star = TRUE)
    <3>1. b = Star => q.in_frame = TRUE /\ q.after_star = TRUE
      BY <2>7, FeedFramed
    <3>3. b # Star => q \in {Push(p, <<Star>>), Command(p, b), Push(p, <<Star, b>>)}
      BY <2>7, <2>8, Zenon DEF Feed, FeedAfterStar
    <3>4. b # Star => q.in_frame = TRUE
      BY <3>3 DEF Push, Command, InFrame
    <3> QED BY <3>1, <3>4
  <2>10. c.parser = q
    BY <2>6 DEF p
  <2> HIDE DEF q
  <2>11. Framed(c)
    BY <2>6, <2>9, <2>10 DEF Framed
  <2> QED BY <1>6, <2>8, <2>9, <2>10, <2>11 DEF c
<1>7. b \in Selectors => Standard(b)
  BY DEF Standard
<1> QED BY <1>3, <1>4, <1>5, <1>6, <1>7 DEF c

-----------------------------------------------------------------------------
(* Stars inside a message.                                                 *)

\* The messages after which the receiver is said to heal.
Straight(m) == ~Misleads(m) /\ (m.kind = "touch" => \A i \in 1 .. Len(m.bytes) : m.bytes[i] # Star)

\* In a frame a star is followed by the escape or by the check byte.
LEMMA FrameStars ==
  ASSUME NEW m \in Messages, m.kind = "frame",
         NEW k \in 2 .. Len(Wire(m)) - 1, Wire(m)[k] = Star
  PROVE  Wire(m)[k + 1] = Esc \/ k = Len(Wire(m)) - 1
<1> DEFINE c == Head(m.bytes)
           s == Tail(m.bytes)
           x == Escaped(s)
           w == Wire(m)
           e == Place(s, Len(s) + 1)
           y == <<Star, c>> \o x
           z == <<Star, Checksum(s)>>
<1>1. /\ s \in Seq(Byte) /\ c \in Byte /\ c # Star
      /\ w \in Seq(Byte) /\ e \in Nat \ {0} /\ Len(w) = e + 3 /\ w[2] = c
      /\ \A i \in 1 .. Len(s) : s[i] = Star => w[Place(s, i) + 3] = Esc
  <2>1. \A b \in (32 .. 126) \ (Selectors \union TouchTypes \union {Star, Esc}) : b \in Byte /\ b # Star
    BY DEF Byte
  <2> QED BY <2>1, FrameWire, ZenonT(60)
<1>2. w = y \o z
  BY DEF Wire
<1>3. x \in Seq(Byte) /\ Len(x) = e - 1
  BY <1>1, EscapedBytes
<1>4. Star \in Byte /\ Checksum(s) \in Byte
  BY ChecksumIsCheck DEF Star, Byte
<1>5. x = [p \in 1 .. e - 1 |->
             IF \E i \in DOMAIN s : Place(s, i) = p
               THEN s[CHOOSE i \in DOMAIN s : Place(s, i) = p]
               ELSE Esc]
  BY DEF Escaped
<1>6. ASSUME NEW p \in 1 .. e - 1, x[p] = Star
      PROVE  w[p + 3] = Esc
  <2> DEFINE i == CHOOSE i \in DOMAIN s : Place(s, i) = p
  <2>1. x[p] = IF \E j \in DOMAIN s : Place(s, j) = p THEN s[i] ELSE Esc
    BY <1>5
  <2>2. \E j \in DOMAIN s : Place(s, j) = p
    BY <1>6, <2>1 DEF Star, Esc
  <2>3. i \in DOMAIN s /\ Place(s, i) = p
    BY <2>2
  <2> HIDE DEF i
  <2>4. i \in 1 .. Len(s) /\ s[i] = Star
    <3>1. DOMAIN s = 1 .. Len(s)
      BY <1>1
    <3>2. x[p] = s[i]
      BY <2>1, <2>2
    <3> HIDE DEF x, s
    <3> QED BY <1>6, <2>3, <3>1, <3>2
  <2> QED BY <1>1, <2>3, <2>4
<1> HIDE DEF x, w, e, c, s
<1>7. y \in Seq(Byte) /\ Len(y) = e + 1 /\ \A p \in 1 .. e - 1 : y[p + 2] = x[p]
  BY <1>1, <1>3, <1>4
<1> HIDE DEF y
<1>8. \A p \in 1 .. e + 1 : w[p] = y[p]
  BY <1>1, <1>2, <1>4, <1>7
<1>9. k \in 2 .. e + 2 /\ w[k] = Star
  BY <1>1 DEF w
<1>10. CASE k = 2
  BY <1>1, <1>9, <1>10
<1>11. CASE k \in 3 .. e + 1
  <2> DEFINE p == k - 2
  <2>1. p \in 1 .. e - 1 /\ p + 2 = k /\ p + 3 = k + 1 /\ k \in 1 .. e + 1
    BY <1>1, <1>11
  <2> HIDE DEF p
  <2>2. x[p] = Star
    BY <1>7, <1>8, <1>9, <2>1
  <2> QED BY <1>6, <2>1, <2>2 DEF w
<1>12. CASE k = e + 2
  <2>1. k = Len(w) - 1
    BY <1>1, <1>12
  <2> QED BY <2>1 DEF w
<1> QED BY <1>1, <1>9, <1>10, <1>11, <1>12

LEMMA KindFacts ==
  ASSUME NEW m \in Messages
  PROVE  /\ m.kind \in {"frame", "raw", "touch"} /\ m.bytes \in Seq(Byte)
         /\ m.kind = "raw" => /\ Wire(m) = m.bytes /\ Len(m.bytes) \in {4, 5}
                              /\ m.bytes[1] = Star /\ m.bytes[2] \in Selectors
         /\ m.kind = "touch" => /\ Wire(m) = <<Star>> \o m.bytes /\ Len(m.bytes) >= 1
                                /\ Len(Wire(m)) = Len(m.bytes) + 1
                                /\ \A k \in 1 .. Len(m.bytes) : Wire(m)[k + 1] = m.bytes[k]
                                /\ m.bytes[1] \in TouchTypes
<1>1. m.bytes \in Seq(Byte) /\ (IsFrame(m) \/ IsReport(m) \/ IsTouch(m))
  BY MessageFacts
<1>2. CASE IsFrame(m)
  BY <1>1, <1>2 DEF IsFrame
<1>3. CASE IsReport(m)
  BY <1>1, <1>3 DEF IsReport, Wire
<1>4. CASE IsTouch(m)
  <2>1. m.kind = "touch" /\ Head(m.bytes) \in TouchTypes /\ Len(m.bytes) \in 1 .. BufSize + 1
    BY <1>4 DEF IsTouch
  <2>2. Wire(m) = <<Star>> \o m.bytes /\ Star \in Byte
    BY <2>1 DEF Wire, Star, Byte
  <2> DEFINE s == m.bytes
  <2>3. s \in Seq(Byte) /\ Len(s) \in Nat /\ Len(s) >= 1 /\ Head(s) = s[1]
    <3>1. Len(s) \in Nat /\ Len(s) >= 1
      BY <1>1, <2>1, SMTT(60) DEF BufSize
    <3> HIDE DEF s
    <3>2. s \in Seq(Byte)
      BY <1>1 DEF s
    <3>3. Head(s) = s[1]
      BY <3>1, <3>2
    <3> QED BY <3>1, <3>2, <3>3, SMTT(60)
  <2>4. /\ Len(<<Star>> \o s) = Len(s) + 1
        /\ \A k \in 1 .. Len(s) : (<<Star>> \o s)[k + 1] = s[k]
    <3> HIDE DEF s
    <3> QED BY <2>2, <2>3
  <2> QED BY <1>1, <2>1, <2>2, <2>3, <2>4
<1> QED BY <1>1, <1>2, <1>3, <1>4

LEMMA StraightStars ==
  ASSUME NEW m \in Messages, Straight(m),
         NEW k \in 2 .. Len(Wire(m)) - 1, Wire(m)[k] = Star
  PROVE  /\ Wire(m)[k + 1] \notin Selectors
         /\ Closes(m) => m.kind = "frame"
<1>1. CASE m.kind = "frame"
  <2>1. Esc \notin Selectors
    BY DEF Esc, Selectors
  <2>2. PICK e : e \in Nat \ {0} /\ Len(Wire(m)) = e + 3 /\ Wire(m)[e + 3] = Checksum(Tail(m.bytes))
    BY <1>1, FrameWire, ZenonT(60)
  <2>3. k = Len(Wire(m)) - 1 => k + 1 = e + 3
    BY <2>2
  <2>4. Checksum(Tail(m.bytes)) \notin Selectors
    BY <1>1 DEF Straight, Misleads
  <2> QED BY <1>1, <2>1, <2>2, <2>3, <2>4, FrameStars
<1>2. CASE m.kind = "raw"
  <2>1. /\ Wire(m) = m.bytes /\ m.bytes \in Seq(Byte) /\ Len(m.bytes) \in {4, 5}
        /\ m.bytes[2] \in Selectors
    BY <1>2, KindFacts
  <2>2. Len(m.bytes) \in Nat
    BY <2>1
  <2>3. k # 2
    BY <2>1 DEF Selectors, Star
  <2>4. k \in 3 .. Len(m.bytes) - 1 /\ m.bytes[k] = Star /\ k \in 3 .. Len(m.bytes)
    BY <2>1, <2>2, <2>3
  <2> QED BY <1>2, <2>1, <2>4 DEF Straight, Misleads, Closes
<1>3. CASE m.kind = "touch"
  <2>1. /\ Len(Wire(m)) = Len(m.bytes) + 1
        /\ \A i \in 1 .. Len(m.bytes) : Wire(m)[i + 1] = m.bytes[i]
        /\ Len(m.bytes) \in Nat
    BY <1>3, KindFacts
  <2>2. k - 1 \in 1 .. Len(m.bytes) /\ (k - 1) + 1 = k
    BY <2>1
  <2>3. Wire(m)[k] = m.bytes[k - 1]
    BY <2>1, <2>2
  <2>4. m.bytes[k - 1] # Star
    BY <1>3, <2>2 DEF Straight
  <2> QED BY <2>3, <2>4
<1> QED BY <1>1, <1>2, <1>3, KindFacts

\* How a message begins.
LEMMA StraightOpens ==
  ASSUME NEW m \in Messages, Straight(m)
  PROVE  /\ m.kind = "raw" => Wire(m)[2] \in Selectors
         /\ m.kind # "raw" => /\ Wire(m)[2] \notin Selectors
                              /\ Len(Wire(m)) >= 3 => Wire(m)[3] \notin Selectors
         /\ Closes(m) /\ m.kind # "frame" => Wire(m)[2] >= 128
<1>1. CASE m.kind = "frame"
  <2> DEFINE c == Head(m.bytes)
             s == Tail(m.bytes)
             w == Wire(m)
             e == Place(s, Len(s) + 1)
  <2>1. /\ s \in Seq(Byte) /\ m.bytes = <<c>> \o s
        /\ c \in (32 .. 126) \ (Selectors \union TouchTypes \union {Star, Esc})
        /\ e \in Nat \ {0} /\ w[2] = c
        /\ \A i \in 1 .. Len(s) : w[Place(s, i) + 2] = s[i]
        /\ w[e + 2] = Star
    BY <1>1, FrameWire, ZenonT(60)
  <2>2. Place(s, 1) = 1 /\ Star \notin Selectors
    BY PlaceNext DEF Star, Selectors
  <2>3. m.bytes \in Seq(Byte) /\ (Len(m.bytes) > 1 => m.bytes[2] \notin Selectors)
    BY <1>1, KindFacts DEF Straight, Misleads
  <2> HIDE DEF w, e, c
  <2>4. w[3] \notin Selectors
    <3>1. CASE Len(s) = 0
      <4>1. e = 1
        <5>1. Len(s) + 1 = 1
          BY <3>1
        <5> HIDE DEF s
        <5> QED BY <2>2, <5>1 DEF e
      <4>2. e + 2 = 3
        BY <4>1
      <4> QED BY <2>1, <2>2, <4>2
    <3>2. CASE Len(s) # 0
      <4> HIDE DEF s
      <4>1. Len(m.bytes) > 1 /\ m.bytes[2] = s[1] /\ 1 \in 1 .. Len(s)
        BY <2>1, <3>2
      <4>2. w[Place(s, 1) + 2] = s[1]
        BY <2>1, <4>1
      <4>3. w[3] = s[1]
        BY <2>2, <4>2
      <4> QED BY <2>3, <4>1, <4>3
    <3> QED BY <3>1, <3>2
  <2> QED BY <1>1, <2>1, <2>4 DEF w
<1>2. CASE m.kind = "raw"
  BY <1>2, KindFacts DEF Closes
<1>3. CASE m.kind = "touch"
  <2>1. /\ Len(Wire(m)) = Len(m.bytes) + 1 /\ Len(m.bytes) >= 1 /\ Len(m.bytes) \in Nat
        /\ \A i \in 1 .. Len(m.bytes) : Wire(m)[i + 1] = m.bytes[i]
        /\ m.bytes[1] \in TouchTypes /\ m.bytes \in Seq(Byte)
    BY <1>3, KindFacts
  <2>2. 1 \in 1 .. Len(m.bytes) /\ 1 + 1 = 2 /\ 2 + 1 = 3
    BY <2>1
  <2>3. Wire(m)[2] = m.bytes[1]
    BY <2>1, <2>2
  <2>4. Len(Wire(m)) >= 3 => Len(m.bytes) > 1 /\ Wire(m)[3] = m.bytes[2]
    <3>1. Len(Wire(m)) >= 3 => Len(m.bytes) > 1 /\ 2 \in 1 .. Len(m.bytes)
      BY <2>1
    <3> QED BY <2>1, <2>2, <3>1
  <2>5. Closes(m) => m.bytes[1] >= 128
    <3>1. Head(m.bytes) = m.bytes[1]
      <4>1. m.bytes # <<>>
        BY <2>1
      <4> QED BY <2>1, <4>1
    <3> QED BY <1>3, <3>1 DEF Closes
  <2>6. \A b \in TouchTypes : b \notin Selectors
    BY DEF TouchTypes, Selectors
  <2>7. Len(m.bytes) > 1 => m.bytes[2] \notin Selectors
    BY <1>3 DEF Straight, Misleads
  <2> QED BY <1>3, <2>1, <2>3, <2>4, <2>5, <2>6, <2>7
<1> QED BY <1>1, <1>2, <1>3, KindFacts

\* How a message that closes ends.
LEMMA ClosesEnd ==
  ASSUME NEW m \in Messages, Straight(m), Closes(m)
  PROVE  LET w == Wire(m) IN
         /\ Len(w) \in Nat /\ w[Len(w)] \notin {Star}
         /\ m.kind = "frame" =>
              Len(w) >= 4 /\ w[Len(w) - 1] = Star /\ w[Len(w)] >= 128 /\ w[Len(w)] \notin Selectors
<1>1. CASE m.kind = "frame"
  <2>1. Checksum(Tail(m.bytes)) \in 128 .. 255 /\ Checksum(Tail(m.bytes)) \notin Selectors
    BY <1>1, ChecksumIsCheck DEF Straight, Misleads
  <2>2. PICK e : /\ e \in Nat \ {0} /\ Len(Wire(m)) = e + 3 /\ Wire(m)[e + 2] = Star
                 /\ Wire(m)[e + 3] = Checksum(Tail(m.bytes))
    BY <1>1, FrameWire, ZenonT(60)
  <2>3. Len(Wire(m)) - 1 = e + 2 /\ Len(Wire(m)) >= 4 /\ Len(Wire(m)) \in Nat
    BY <2>2
  <2>4. Checksum(Tail(m.bytes)) # Star /\ Checksum(Tail(m.bytes)) >= 128
    BY <2>1 DEF Star
  <2>5. /\ Wire(m)[Len(Wire(m))] = Checksum(Tail(m.bytes)) /\ Wire(m)[Len(Wire(m)) - 1] = Star
        /\ Len(Wire(m)) >= 4 /\ Len(Wire(m)) \in Nat
    BY <2>2, <2>3, Zenon
  <2> QED BY <2>1, <2>4, <2>5, Zenon
<1>2. CASE m.kind = "raw"
  <2>1. /\ Wire(m) = m.bytes /\ m.bytes \in Seq(Byte) /\ Len(m.bytes) \in {4, 5}
    BY <1>2, KindFacts
  <2>2. \A l \in {4, 5} : l \in 3 .. l /\ l \in Nat
    OBVIOUS
  <2>3. Len(m.bytes) \in 3 .. Len(m.bytes) /\ Len(m.bytes) \in Nat
    BY <2>1, <2>2, Zenon
  <2> QED BY <1>2, <2>1, <2>3 DEF Closes
<1>3. CASE m.kind = "touch"
  <2>1. /\ Len(Wire(m)) = Len(m.bytes) + 1 /\ Len(m.bytes) >= 1 /\ Len(m.bytes) \in Nat
        /\ \A i \in 1 .. Len(m.bytes) : Wire(m)[i + 1] = m.bytes[i]
    BY <1>3, KindFacts
  <2>2. Len(m.bytes) \in 1 .. Len(m.bytes) /\ Len(Wire(m)) \in Nat
    BY <2>1
  <2> QED BY <1>3, <2>1, <2>2 DEF Straight
<1> QED BY <1>1, <1>2, <1>3, KindFacts

-----------------------------------------------------------------------------
(* A receiver out of step, byte by byte.                                   *)

\* What the detector holds half of becomes a report, whatever it is.
LEMMA HalfByte ==
  ASSUME NEW a, NEW b \in Byte, NEW n \in 2 .. 4, Half(a, n),
         n = 4 => a.raw[2] # Button /\ a.raw[4] = Star
  PROVE  LET c == Rx(a, b) IN
         /\ n = 2 => Half(c, 3)
         /\ n = 3 /\ b = Star =>
              Level(c, FALSE) \/ (Half(c, 4) /\ c.raw[2] # Button /\ c.raw[4] = Star)
         /\ n = 4 => Level(c, FALSE)
<1> DEFINE c == Rx(a, b)
<1>1. PICK r, log : r = a.raw /\ log = a.log
  OBVIOUS
<1>2. /\ Calm(a, Idle, r, log) /\ r \in Seq(Byte) /\ Len(r) = n
      /\ r[1] = Star /\ r[2] \in Selectors
  BY <1>1 DEF Half
<1> DEFINE q == Append(r, b)
<1>3. /\ ~MayContinue(r) /\ (ShapeComplete(q) => MayContinue(q)) => Calm(c, Idle, q, log)
      /\ ~MayContinue(r) /\ ShapeComplete(q) /\ ~MayContinue(q) =>
           Calm(c, Idle, <<>>, Append(log, Event("raw", q)))
  BY <1>2, ReportStep
<1>4. /\ q \in Seq(Byte) /\ Len(q) = n + 1 /\ q[n + 1] = b
      /\ \A i \in 1 .. n : q[i] = r[i]
  <2>1. /\ Append(r, b) \in Seq(Byte) /\ Len(Append(r, b)) = n + 1
        /\ \A i \in 1 .. n + 1 : Append(r, b)[i] = IF i = n + 1 THEN b ELSE r[i]
    BY <1>2, AppendAt
  <2>2. n + 1 \in 1 .. n + 1 /\ \A i \in 1 .. n : i \in 1 .. n + 1 /\ i # n + 1
    OBVIOUS
  <2> QED BY <2>1, <2>2
<1>5. q[1] = Star /\ q[2] = r[2] /\ q[2] \in Selectors
  <2>1. 1 \in 1 .. n /\ 2 \in 1 .. n
    OBVIOUS
  <2> QED BY <1>2, <1>4, <2>1
<1>6. ASSUME NEW s, Calm(c, Idle, <<>>, s)
      PROVE  Level(c, FALSE)
  BY <1>6 DEF Calm, Level
<1>7. ASSUME Calm(c, Idle, q, log)
      PROVE  Half(c, n + 1) /\ c.raw = q
  <2> HIDE DEF c, q
  <2>1. c.raw = q /\ c.log = log
    BY <1>7 DEF Calm
  <2>2. Calm(c, Idle, c.raw, c.log)
    BY <1>7, <2>1
  <2> QED BY <1>4, <1>5, <2>1, <2>2 DEF Half
<1> HIDE DEF c, q
<1>8. Star % 128 # ReportEnd
  BY DEF Star, ReportEnd
<1>9. ASSUME n = 2
      PROVE  Half(c, 3)
  <2>1. Len(q) = 3 /\ ~MayContinue(r) /\ ~ShapeComplete(q) /\ n + 1 = 3
    BY <1>2, <1>4, <1>9 DEF MayContinue, ShapeComplete
  <2> QED BY <1>3, <1>7, <2>1
<1>10. ASSUME n = 3, b = Star
       PROVE  Level(c, FALSE) \/ (Half(c, 4) /\ c.raw[2] # Button /\ c.raw[4] = Star)
  <2>1. Len(q) = 4 /\ q[4] = Star /\ n + 1 = 4
    BY <1>4, <1>10
  <2>2. ~MayContinue(r) /\ ~MayContinue(q)
    BY <1>2, <1>8, <1>10, <2>1 DEF MayContinue
  <2>3. ShapeComplete(q) <=> q[2] = Button
    BY <1>5, <1>8, <2>1 DEF ShapeComplete
  <2>4. CASE q[2] = Button
    BY <1>3, <1>6, <2>2, <2>3, <2>4
  <2>5. CASE q[2] # Button
    <3>1. Half(c, 4) /\ c.raw = q
      BY <1>3, <1>7, <2>1, <2>2, <2>3, <2>5
    <3> QED BY <2>1, <2>5, <3>1
  <2> QED BY <2>4, <2>5
<1>11. ASSUME n = 4
       PROVE  Level(c, FALSE)
  <2>1. Len(q) = 5 /\ 4 \in 1 .. n
    BY <1>4, <1>11
  <2>2. r[4] = Star /\ q[4] = Star
    BY <1>1, <1>4, <1>11, <2>1
  <2>3. ~MayContinue(r) /\ ~MayContinue(q) /\ ShapeComplete(q)
    BY <1>5, <1>8, <2>1, <2>2 DEF MayContinue, ShapeComplete
  <2> QED BY <1>3, <1>6, <2>3
<1> QED BY <1>9, <1>10, <1>11 DEF c

\* A flush does not put a receiver in step, nor out of it.
LEMMA FlushDrift ==
  ASSUME NEW a, Sound(a), NEW c \in {FlushRaw(a), FlushAll(a)}
  PROVE  /\ Framed(a) => Framed(c)
         /\ \A star \in BOOLEAN : Level(a, star) => Level(c, star)
         /\ Half(a, 3) => c = a
<1> DEFINE f == FlushUnknown(FlushTouch(a))
<1>1. IsApp(a) /\ a.touch \in BOOLEAN
  BY SoundParts
<1>2. /\ IsApp(f) /\ f.parser = a.parser /\ f.raw = a.raw /\ f.star = a.star
      /\ a.touch = FALSE /\ a.unknown = <<>> => f = a
  <2>1. IsApp(f) /\ f.parser = a.parser /\ f.raw = a.raw /\ f.star = a.star
    BY <1>1, FlushLeaves
  <2>2. a.touch = FALSE /\ a.unknown = <<>> => f = a
    BY DEF FlushTouch, FlushUnknown
  <2> QED BY <2>1, <2>2
<1>3. ASSUME ~MayContinue(a.raw)
      PROVE  FlushRaw(a) = a /\ FlushAll(a) = f
  BY <1>3 DEF FlushRaw, FlushAll
<1>4. Len(a.raw) # 4 => c = a \/ c = f
  BY <1>3 DEF MayContinue
<1> HIDE DEF f
<1>5. a.raw = <<>> => Len(a.raw) # 4
  OBVIOUS
<1>6. Framed(a) => Framed(c)
  BY <1>2, <1>4, <1>5 DEF Framed
<1>7. ASSUME NEW star \in BOOLEAN, Level(a, star)
      PROVE  Level(c, star)
  BY <1>2, <1>4, <1>5, <1>7 DEF Level
<1>8. Half(a, 3) => c = a
  BY <1>2, <1>4 DEF Half, Calm
<1> QED BY <1>6, <1>7, <1>8

LEMMA LevelOpens ==
  ASSUME NEW a, Sound(a), Level(a, TRUE)
  PROVE  \E log \in Seq(Events) : Opening(a, log)
<1> DEFINE log == FlushUnknown(FlushTouch(a)).log
<1>1. Sound(FlushUnknown(FlushTouch(a)))
  BY FlushTouchExtends, FlushUnknownExtends DEF Extends
<1>2. log \in Seq(Events)
  BY <1>1, SoundParts
<1>3. a.touch \in BOOLEAN
  BY SoundParts
<1> HIDE DEF log
<1>4. log = FlushUnknown(FlushTouch(a)).log
  BY DEF log
<1>5. Opening(a, log)
  BY <1>3, <1>4 DEF Level, Opening
<1> QED BY <1>2, <1>5

LEMMA OpeningLevel ==
  ASSUME NEW a, NEW log, Opening(a, log)
  PROVE  Level(a, TRUE)
BY DEF Opening, Level

\* Behind a star that opens nothing the receiver meant.
LEMMA StarredByte ==
  ASSUME NEW a, Sound(a), Level(a, TRUE), NEW b \in Byte
  PROVE  LET c == Rx(a, b) IN
         /\ b \in Selectors => Half(c, 2)
         /\ b \notin Selectors => Framed(c) \/ Level(c, FALSE)
         /\ b \notin Selectors /\ b >= 128 => Level(c, FALSE)
         /\ b = Star => Framed(c) /\ c.parser.after_star = TRUE
<1> DEFINE c == Rx(a, b)
<1>1. PICK log : Opening(a, log)
  BY LevelOpens
<1>2. /\ b \in Selectors => Calm(c, Idle, <<Star, b>>, log)
      /\ b \notin Selectors => Framed(c) \/ Level(c, FALSE)
      /\ b \notin Selectors /\ b >= 128 => Level(c, FALSE)
      /\ b = Star => Framed(c) /\ c.parser.after_star = TRUE
  BY <1>1, StarByte
<1> HIDE DEF c
<1>3. ASSUME b \in Selectors
      PROVE  Half(c, 2)
  <2>1. Calm(c, Idle, <<Star, b>>, log)
    BY <1>2, <1>3
  <2>2. c.raw = <<Star, b>> /\ c.log = log
    BY <2>1 DEF Calm
  <2>3. Calm(c, Idle, c.raw, c.log)
    BY <2>1, <2>2
  <2>4. Star \in Byte /\ b \in Byte
    BY DEF Star, Byte
  <2>5. c.raw \in Seq(Byte) /\ Len(c.raw) = 2 /\ c.raw[1] = Star /\ c.raw[2] = b
    BY <2>2, <2>4
  <2> QED BY <1>3, <2>3, <2>5 DEF Half
<1> QED BY <1>2, <1>3 DEF c

\* The rest of the message that lost a byte; k is the place last gone by.
Broken(a, m, k) ==
  \/ Framed(a)
  \/ Level(a, FALSE)
  \/ Level(a, TRUE) /\ k >= 2 /\ (k = 2 \/ Wire(m)[k] = Star)
  \/ m.kind = "raw" /\ k >= 3 /\ Half(a, k - 1)

\* Between two messages, the last of which lost a byte.
Left(a) ==
  \/ Framed(a)
  \/ Level(a, FALSE)
  \/ Level(a, TRUE)
  \/ Half(a, 3)

LEMMA BrokenNext ==
  ASSUME NEW m \in Messages, Straight(m), m.kind = "raw" => Len(m.bytes) = 4,
         NEW a, Sound(a), NEW k \in 1 .. Len(Wire(m)) - 1, Broken(a, m, k)
  PROVE  LET c == Rx(a, Wire(m)[k + 1]) IN
         IF k + 1 = Len(Wire(m)) THEN Left(c) ELSE Broken(c, m, k + 1)
<1> DEFINE b == Wire(m)[k + 1]
           c == Rx(a, b)
<1>1. Wire(m) \in Seq(Byte) /\ Len(Wire(m)) \in Nat
  BY MessageFacts
<1>2. b \in Byte /\ k \in Nat /\ k + 1 >= 2 /\ k + 1 \in 2 .. Len(Wire(m))
  BY <1>1
<1> HIDE DEF b
<1>3. CASE Framed(a)
  <2>1. Framed(c) \/ Level(c, FALSE)
    BY <1>2, <1>3, FramedByte
  <2> QED BY <2>1 DEF Left, Broken, b
<1>4. CASE Level(a, FALSE)
  <2>1. Level(c, b = Star)
    BY <1>4, LevelByte
  <2>2. CASE b = Star
    <3>1. (b = Star) = TRUE
      BY <2>2
    <3>2. Level(c, TRUE)
      BY <2>1, <3>1, Zenon
    <3> QED BY <1>2, <2>2, <3>2 DEF Left, Broken, b
  <2>3. CASE b # Star
    <3>1. (b = Star) = FALSE
      BY <2>3
    <3>2. Level(c, FALSE)
      BY <2>1, <3>1, Zenon
    <3> QED BY <3>2 DEF Left, Broken, b
  <2> QED BY <2>2, <2>3
<1>5. CASE Level(a, TRUE) /\ k >= 2 /\ (k = 2 \/ Wire(m)[k] = Star)
  <2>1. CASE b \in Selectors
    <3>1. Half(c, 2)
      BY <1>2, <1>5, <2>1, StarredByte
    <3>2. m.kind = "raw" /\ k = 2
      <4>1. CASE k = 2
        <5>1. Len(Wire(m)) >= 3 /\ b = Wire(m)[3]
          BY <1>1, <4>1 DEF b
        <5> QED BY <2>1, <4>1, <5>1, StraightOpens
      <4>2. CASE k # 2
        <5>1. Wire(m)[k] = Star /\ k \in 2 .. Len(Wire(m)) - 1
          BY <1>1, <1>5, <4>2
        <5> QED BY <2>1, <5>1, StraightStars DEF b
      <4> QED BY <4>1, <4>2
    <3>3. Len(Wire(m)) = 4 /\ k + 1 = 3 /\ (k + 1) - 1 = 2
      BY <3>2, KindFacts
    <3>4. k + 1 # Len(Wire(m))
      BY <3>3
    <3>5. Half(c, (k + 1) - 1) /\ k + 1 >= 3
      BY <3>1, <3>3
    <3>6. Broken(c, m, k + 1)
      BY <3>2, <3>5, Zenon DEF Broken
    <3> QED BY <3>4, <3>6 DEF b
  <2>2. CASE b \notin Selectors
    <3>1. Framed(c) \/ Level(c, FALSE)
      BY <1>2, <1>5, <2>2, StarredByte
    <3> QED BY <3>1 DEF Left, Broken, b
  <2> QED BY <2>1, <2>2
<1>6. CASE m.kind = "raw" /\ k >= 3 /\ Half(a, k - 1)
  <2>1. Len(Wire(m)) = 4
    BY <1>6, KindFacts
  <2>2. k = 3 /\ k - 1 = 2 /\ k + 1 = Len(Wire(m))
    BY <1>6, <2>1
  <2>3. 2 \in 2 .. 4 /\ Half(a, 2)
    BY <1>6, <2>2
  <2>4. Half(c, 3)
    <3>1. (2 = 4) = FALSE /\ (2 = 2) = TRUE
      OBVIOUS
    <3> QED BY <1>2, <2>3, <3>1, HalfByte
  <2> QED BY <2>2, <2>4 DEF Left, b
<1> QED BY <1>3, <1>4, <1>5, <1>6 DEF Broken

\* Between two messages, after one that came whole behind the loss.
Apart(a, m, ended) ==
  \/ Framed(a)
  \/ Level(a, FALSE)
  \/ Level(a, TRUE)
  \/ \E log \in Seq(Events) : After(a, m, log, ended)

\* The same, of one that closes: it put the receiver right.
Righted(a, m, ended) ==
  Level(a, FALSE) \/ \E log \in Seq(Events) : After(a, m, log, ended)

\* Inside message m, that came whole behind the loss.
Adrift(a, m, k) ==
  \/ /\ Framed(a) /\ (Wire(m)[k] = Star => a.parser.after_star = TRUE)
     /\ Closes(m) /\ k >= 2 => m.kind = "frame"
  \/ Level(a, FALSE)
  \/ /\ Level(a, TRUE) /\ Wire(m)[k] = Star
     /\ Closes(m) /\ k >= 2 => m.kind = "frame"
  \/ k = 1 /\ Half(a, 4) /\ a.raw[2] # Button /\ a.raw[4] = Star
  \/ m.kind = "raw" /\ k >= 2 /\ \E log \in Seq(Events) : Inside(a, m, k, log)

LEMMA FramedNext ==
  ASSUME NEW m \in Messages, Straight(m), NEW a, Sound(a), NEW k \in 1 .. Len(Wire(m)) - 1,
         Framed(a), Wire(m)[k] = Star => a.parser.after_star = TRUE,
         Closes(m) /\ k >= 2 => m.kind = "frame"
  PROVE  LET c == Rx(a, Wire(m)[k + 1]) IN
         /\ Framed(c) \/ Level(c, FALSE)
         /\ Wire(m)[k + 1] = Star => Framed(c) /\ c.parser.after_star = TRUE
         /\ Closes(m) /\ (m.kind # "frame" \/ k + 1 = Len(Wire(m))) => Level(c, FALSE)
<1> DEFINE b == Wire(m)[k + 1]
           c == Rx(a, b)
<1>1. Wire(m) \in Seq(Byte) /\ Len(Wire(m)) \in Nat /\ Wire(m)[1] = Star
  BY MessageFacts
<1>2. b \in Byte /\ k \in Nat
  BY <1>1
<1>3. /\ Framed(c) \/ Level(c, FALSE)
      /\ b = Star => Framed(c) /\ c.parser.after_star = TRUE
      /\ a.parser.after_star = TRUE /\ b >= 128 => Level(c, FALSE)
  BY <1>2, FramedByte
<1>4. ASSUME Closes(m), m.kind # "frame"
      PROVE  a.parser.after_star = TRUE /\ b >= 128
  <2>1. k = 1 /\ k + 1 = 2
    BY <1>2, <1>4
  <2> QED BY <1>1, <1>4, <2>1, StraightOpens
<1>5. ASSUME Closes(m), m.kind = "frame", k + 1 = Len(Wire(m))
      PROVE  a.parser.after_star = TRUE /\ b >= 128
  <2>1. k = Len(Wire(m)) - 1
    BY <1>1, <1>5
  <2>2. Wire(m)[k] = Star /\ b >= 128
    BY <1>5, <2>1, ClosesEnd
  <2> QED BY <2>2
<1> HIDE DEF c, b
<1> QED BY <1>3, <1>4, <1>5 DEF c, b

LEMMA StarredNext ==
  ASSUME NEW m \in Messages, Straight(m), NEW a, Sound(a), NEW k \in 1 .. Len(Wire(m)) - 1,
         Level(a, TRUE), Wire(m)[k] = Star, Wire(m)[k + 1] \notin Selectors,
         Closes(m) /\ k >= 2 => m.kind = "frame"
  PROVE  LET c == Rx(a, Wire(m)[k + 1]) IN
         /\ Framed(c) \/ Level(c, FALSE)
         /\ Wire(m)[k + 1] = Star => Framed(c) /\ c.parser.after_star = TRUE
         /\ Closes(m) /\ (m.kind # "frame" \/ k + 1 = Len(Wire(m))) => Level(c, FALSE)
<1> DEFINE b == Wire(m)[k + 1]
           c == Rx(a, b)
<1>1. Wire(m) \in Seq(Byte) /\ Len(Wire(m)) \in Nat /\ Wire(m)[1] = Star
  BY MessageFacts
<1>2. b \in Byte /\ k \in Nat
  BY <1>1
<1>3. /\ Framed(c) \/ Level(c, FALSE)
      /\ b = Star => Framed(c) /\ c.parser.after_star = TRUE
      /\ b >= 128 => Level(c, FALSE)
  BY <1>2, StarredByte
<1>4. ASSUME Closes(m), m.kind # "frame"
      PROVE  b >= 128
  <2>1. k = 1 /\ k + 1 = 2
    BY <1>2, <1>4
  <2> QED BY <1>1, <1>4, <2>1, StraightOpens
<1>5. ASSUME Closes(m), m.kind = "frame", k + 1 = Len(Wire(m))
      PROVE  b >= 128
  BY <1>5, ClosesEnd
<1> HIDE DEF c, b
<1> QED BY <1>3, <1>4, <1>5 DEF c, b

LEMMA AdriftNext ==
  ASSUME NEW m \in Messages, Straight(m), NEW a, Sound(a), NEW k \in 1 .. Len(Wire(m)) - 1,
         Adrift(a, m, k)
  PROVE  LET c == Rx(a, Wire(m)[k + 1]) IN
         IF k + 1 = Len(Wire(m))
           THEN Apart(c, m, FALSE) /\ (Closes(m) => Righted(c, m, FALSE))
           ELSE Adrift(c, m, k + 1)
<1> DEFINE b == Wire(m)[k + 1]
           c == Rx(a, b)
           Goal == IF k + 1 = Len(Wire(m))
                     THEN Apart(c, m, FALSE) /\ (Closes(m) => Righted(c, m, FALSE))
                     ELSE Adrift(c, m, k + 1)
<1> SUFFICES Goal
  OBVIOUS
<1>1. Wire(m) \in Seq(Byte) /\ Len(Wire(m)) \in Nat /\ Wire(m)[1] = Star
  BY MessageFacts
<1>2. b \in Byte /\ k \in Nat /\ k >= 1 /\ k + 1 >= 2 /\ k + 1 # 1 /\ k < Len(Wire(m))
  BY <1>1
<1>3. ASSUME /\ Framed(c) \/ Level(c, FALSE)
             /\ b = Star => Framed(c) /\ c.parser.after_star = TRUE
             /\ Closes(m) /\ (m.kind # "frame" \/ k + 1 = Len(Wire(m))) => Level(c, FALSE)
      PROVE  Goal
  <2>1. CASE Level(c, FALSE)
    BY <2>1 DEF Apart, Righted, Adrift
  <2>2. CASE ~Level(c, FALSE)
    <3>1. Framed(c) /\ (b = Star => c.parser.after_star = TRUE)
      BY <1>3, <2>2
    <3>2. Closes(m) => m.kind = "frame" /\ k + 1 # Len(Wire(m))
      BY <1>3, <2>2
    <3>3. Apart(c, m, FALSE)
      BY <3>1 DEF Apart
    <3>4. Adrift(c, m, k + 1)
      BY <3>1, <3>2 DEF Adrift
    <3> QED BY <3>2, <3>3, <3>4
  <2> QED BY <2>1, <2>2
<1>4. ASSUME NEW log \in Seq(Events), Inside(a, m, k, log), m.kind = "raw"
      PROVE  Goal
  <2>1. IF k + 1 = Len(Wire(m)) THEN After(c, m, log, FALSE) ELSE Inside(c, m, k + 1, log)
    BY <1>2, <1>4, InsideNext
  <2> HIDE DEF c
  <2>2. CASE k + 1 = Len(Wire(m))
    <3>1. \E l \in Seq(Events) : After(c, m, l, FALSE)
      BY <2>1, <2>2
    <3>2. Apart(c, m, FALSE) /\ Righted(c, m, FALSE)
      BY <3>1 DEF Apart, Righted
    <3> QED BY <2>2, <3>2
  <2>3. CASE k + 1 # Len(Wire(m))
    <3>1. \E l \in Seq(Events) : Inside(c, m, k + 1, l)
      BY <2>1, <2>3
    <3>2. Adrift(c, m, k + 1)
      BY <1>2, <1>4, <3>1 DEF Adrift
    <3> QED BY <2>3, <3>2
  <2> QED BY <2>2, <2>3
<1> HIDE DEF Goal
<1>5. CASE /\ Framed(a) /\ (Wire(m)[k] = Star => a.parser.after_star = TRUE)
           /\ Closes(m) /\ k >= 2 => m.kind = "frame"
  <2>1. /\ Framed(c) \/ Level(c, FALSE)
        /\ b = Star => Framed(c) /\ c.parser.after_star = TRUE
        /\ Closes(m) /\ (m.kind # "frame" \/ k + 1 = Len(Wire(m))) => Level(c, FALSE)
    BY <1>5, FramedNext
  <2> QED BY <1>3, <2>1
<1>6. CASE Level(a, FALSE)
  <2>1. Level(c, b = Star)
    BY <1>6, LevelByte
  <2>2. CASE b # Star
    <3>1. (b = Star) = FALSE
      BY <2>2
    <3>2. Level(c, FALSE)
      BY <2>1, <3>1, Zenon
    <3> HIDE DEF b, c
    <3> QED BY <1>3, <2>2, <3>2
  <2>3. CASE b = Star
    <3>1. (b = Star) = TRUE
      BY <2>3
    <3>2. Level(c, TRUE)
      BY <2>1, <3>1, Zenon
    <3>3. Closes(m) => k + 1 # Len(Wire(m))
      BY <2>3, ClosesEnd
    <3>4. Closes(m) /\ k + 1 # Len(Wire(m)) => m.kind = "frame"
      <4>1. k + 1 # Len(Wire(m)) => k + 1 \in 2 .. Len(Wire(m)) - 1
        BY <1>1, <1>2
      <4> QED BY <2>3, <4>1, StraightStars
    <3> HIDE DEF c
    <3>5. Apart(c, m, FALSE)
      BY <3>2 DEF Apart
    <3>6. k + 1 # Len(Wire(m)) => Adrift(c, m, k + 1)
      BY <2>3, <3>2, <3>4 DEF Adrift
    <3> QED BY <3>3, <3>5, <3>6 DEF Goal
  <2> QED BY <2>2, <2>3
<1>7. CASE /\ Level(a, TRUE) /\ Wire(m)[k] = Star
           /\ Closes(m) /\ k >= 2 => m.kind = "frame"
  <2>1. CASE b \in Selectors
    <3>1. k = 1
      <4>1. k # 1 => k \in 2 .. Len(Wire(m)) - 1
        BY <1>2
      <4> QED BY <1>7, <2>1, <4>1, StraightStars
    <3>2. m.kind = "raw"
      <4>1. b = Wire(m)[2]
        BY <3>1
      <4> QED BY <2>1, <4>1, StraightOpens
    <3>3. PICK log \in Seq(Events) : Opening(a, log)
      BY <1>7, LevelOpens
    <3>4. Inside(a, m, k, log)
      BY <3>1, <3>3 DEF Inside
    <3> QED BY <1>4, <3>2, <3>4
  <2>2. CASE b \notin Selectors
    <3>1. /\ Framed(c) \/ Level(c, FALSE)
          /\ b = Star => Framed(c) /\ c.parser.after_star = TRUE
          /\ Closes(m) /\ (m.kind # "frame" \/ k + 1 = Len(Wire(m))) => Level(c, FALSE)
      BY <1>7, <2>2, StarredNext
    <3> QED BY <1>3, <3>1
  <2> QED BY <2>1, <2>2
<1>8. CASE k = 1 /\ Half(a, 4) /\ a.raw[2] # Button /\ a.raw[4] = Star
  <2>1. 4 \in 2 .. 4 /\ (4 = 4) = TRUE
    OBVIOUS
  <2>2. Level(c, FALSE)
    BY <1>2, <1>8, <2>1, HalfByte
  <2> QED BY <2>2 DEF Apart, Righted, Adrift, Goal
<1>9. CASE m.kind = "raw" /\ k >= 2 /\ \E log \in Seq(Events) : Inside(a, m, k, log)
  BY <1>4, <1>9
<1> QED BY <1>5, <1>6, <1>7, <1>8, <1>9 DEF Adrift

\* The star of the next message.
LEMMA LeftOpens ==
  ASSUME NEW a, Sound(a), Left(a), NEW m \in Messages
  PROVE  Adrift(Rx(a, Star), m, 1)
<1> DEFINE c == Rx(a, Star)
<1>1. Wire(m)[1] = Star /\ Star \in Byte /\ Star \notin Selectors /\ ~(1 >= 2)
  BY MessageFacts DEF Star, Byte, Selectors
<1>2. CASE Framed(a) \/ Level(a, TRUE)
  <2>1. Framed(c) /\ c.parser.after_star = TRUE
    BY <1>1, <1>2, FramedByte, StarredByte
  <2> QED BY <1>1, <2>1 DEF Adrift
<1>3. CASE Level(a, FALSE)
  <2>1. Level(c, Star = Star)
    BY <1>3, LevelByte
  <2>2. (Star = Star) = TRUE
    OBVIOUS
  <2>3. Level(c, TRUE)
    BY <2>1, <2>2, Zenon
  <2> QED BY <1>1, <2>3 DEF Adrift
<1>4. CASE Half(a, 3)
  <2>1. 3 \in 2 .. 4 /\ (3 = 4) = FALSE /\ (3 = 3) = TRUE
    OBVIOUS
  <2>2. Level(c, FALSE) \/ (Half(c, 4) /\ c.raw[2] # Button /\ c.raw[4] = Star)
    BY <1>1, <1>4, <2>1, HalfByte
  <2> QED BY <2>2 DEF Adrift
<1> QED BY <1>2, <1>3, <1>4 DEF Left

LEMMA ApartOpens ==
  ASSUME NEW a, Sound(a), NEW p, Apart(a, p, TRUE) \/ (Apart(a, p, FALSE) /\ ~Pending(p)),
         NEW m \in Messages
  PROVE  Adrift(Rx(a, Star), m, 1)
<1> DEFINE c == Rx(a, Star)
<1>1. Wire(m)[1] = Star /\ ~(1 >= 2)
  BY MessageFacts
<1>2. CASE Framed(a) \/ Level(a, FALSE) \/ Level(a, TRUE)
  BY <1>2, LeftOpens DEF Left
<1>3. CASE ~(Framed(a) \/ Level(a, FALSE) \/ Level(a, TRUE))
  <2>1. PICK log : Ready(a, Append(log, p))
    BY <1>3 DEF Apart, After
  <2>2. Opening(c, Append(log, p))
    BY <2>1, ReadyOpens
  <2>3. Level(c, TRUE)
    BY <2>2, OpeningLevel
  <2> QED BY <1>1, <2>3 DEF Adrift
<1> QED BY <1>2, <1>3

LEMMA DriftFlush ==
  ASSUME NEW a, Sound(a), NEW c \in {FlushRaw(a), FlushAll(a)}, NEW m \in Messages
  PROVE  /\ Left(a) => Left(c)
         /\ Apart(a, m, TRUE) \/ Apart(a, m, FALSE) => Apart(c, m, TRUE)
         /\ Righted(a, m, TRUE) \/ Righted(a, m, FALSE) => Righted(c, m, TRUE)
<1>1. /\ Framed(a) => Framed(c)
      /\ Level(a, TRUE) => Level(c, TRUE)
      /\ Level(a, FALSE) => Level(c, FALSE)
      /\ Half(a, 3) => c = a
  BY FlushDrift
<1>2. ASSUME NEW log \in Seq(Events), After(a, m, log, TRUE) \/ After(a, m, log, FALSE)
      PROVE  After(c, m, log, TRUE)
  <2>1. CASE After(a, m, log, TRUE)
    BY <2>1, AfterFlush
  <2>2. CASE After(a, m, log, FALSE)
    BY <2>2, AfterFlush
  <2> QED BY <1>2, <2>1, <2>2
<1> QED BY <1>1, <1>2 DEF Left, Apart, Righted

\* What holds the receiver when a byte inside a message is lost.
LEMMA LosesInside ==
  ASSUME NEW m \in Messages, m.kind = "raw" => Len(m.bytes) = 4,
         NEW a, NEW log, NEW k \in 1 .. Len(Wire(m)) - 1, Inside(a, m, k, log)
  PROVE  IF k + 1 = Len(Wire(m)) THEN Left(a) ELSE Broken(a, m, k + 1)
<1>1. Wire(m) \in Seq(Byte) /\ Len(Wire(m)) \in Nat /\ k \in Nat /\ k >= 1
  BY MessageFacts
<1>2. CASE k = 1
  <2>1. Level(a, TRUE)
    BY <1>2, OpeningLevel DEF Inside
  <2>2. k + 1 >= 2 /\ k + 1 = 2
    BY <1>2
  <2> QED BY <2>1, <2>2 DEF Left, Broken
<1>3. CASE k # 1 /\ m.kind = "frame"
  <2>1. Calm(a, a.parser, <<>>, log) /\ ReadTo(a.parser, m, k)
    BY <1>3 DEF Inside
  <2>2. a.parser.in_frame = TRUE
    <3>1. PICK i, star : a.parser = Reading(m, i, star)
      BY <2>1, Zenon DEF ReadTo
    <3> QED BY <3>1 DEF Reading, InFrame
  <2>3. Framed(a)
    BY <2>1, <2>2 DEF Calm, Framed
  <2> QED BY <2>3 DEF Left, Broken
<1>4. CASE k # 1 /\ m.kind = "touch"
  <2>1. Level(a, FALSE)
    BY <1>4 DEF Inside, Touched, Level
  <2> QED BY <2>1 DEF Left, Broken
<1>5. CASE k # 1 /\ m.kind = "raw"
  <2>1. /\ Wire(m) = m.bytes /\ Len(m.bytes) = 4 /\ m.bytes \in Seq(Byte)
        /\ m.bytes[1] = Star /\ m.bytes[2] \in Selectors
    BY <1>5, KindFacts
  <2>2. Calm(a, Idle, SubSeq(m.bytes, 1, k), log)
    BY <1>5 DEF Inside
  <2>3. k \in 2 .. 3 /\ k \in 0 .. Len(m.bytes) /\ 1 \in 1 .. k /\ 2 \in 1 .. k /\ (k + 1) - 1 = k
    BY <1>1, <1>5, <2>1
  <2> DEFINE r == SubSeq(m.bytes, 1, k)
  <2>4. r \in Seq(Byte) /\ Len(r) = k /\ \A i \in 1 .. k : r[i] = m.bytes[i]
    BY <2>1, <2>3, Prefix
  <2> HIDE DEF r
  <2>5. r[1] = Star /\ r[2] \in Selectors
    BY <2>1, <2>3, <2>4
  <2>6. a.raw = r /\ a.log = log
    BY <2>2 DEF Calm, r
  <2>7. Calm(a, Idle, a.raw, a.log)
    BY <2>2, <2>6 DEF r
  <2>8. Half(a, k)
    BY <2>4, <2>5, <2>6, <2>7 DEF Half
  <2>9. CASE k = 3
    <3>1. k + 1 = Len(Wire(m)) /\ Half(a, 3)
      BY <2>1, <2>8, <2>9
    <3> QED BY <3>1 DEF Left
  <2>10. CASE k = 2
    <3>1. k + 1 # Len(Wire(m)) /\ k + 1 >= 3
      BY <2>1, <2>10
    <3>2. Half(a, (k + 1) - 1)
      BY <2>3, <2>8
    <3>3. Broken(a, m, k + 1)
      BY <1>5, <3>1, <3>2, Zenon DEF Broken
    <3> QED BY <3>1, <3>3
  <2> QED BY <2>3, <2>9, <2>10
<1> QED BY <1>2, <1>3, <1>4, <1>5, KindFacts

LEMMA RightedLevel ==
  ASSUME NEW a, NEW m, Righted(a, m, TRUE) \/ (Righted(a, m, FALSE) /\ ~Pending(m))
  PROVE  Level(a, FALSE)
<1>1. ASSUME NEW log, Ready(a, log)
      PROVE  Level(a, FALSE)
  BY <1>1 DEF Ready, Calm, Touched, Level
<1>2. CASE Level(a, FALSE)
  BY <1>2
<1>3. CASE ~Level(a, FALSE)
  <2>1. PICK log : Ready(a, Append(log, m))
    BY <1>3 DEF Righted, After
  <2> QED BY <1>1, <2>1
<1> QED BY <1>2, <1>3

\* Between messages the receiver is as before a first one, or after one that closed.
LEMMA RightedOpens ==
  ASSUME NEW a, Sound(a), Level(a, FALSE)
  PROVE  \E log \in Seq(Events) : Opening(Rx(a, Star), log)
<1>1. Level(Rx(a, Star), Star = Star)
  BY LevelByte
<1>2. (Star = Star) = TRUE /\ Star \in Byte
  BY DEF Star, Byte
<1>3. Level(Rx(a, Star), TRUE)
  BY <1>1, <1>2, Zenon
<1>4. Sound(Rx(a, Star))
  BY <1>2, RxExtends DEF Extends
<1> QED BY <1>3, <1>4, LevelOpens

-----------------------------------------------------------------------------
(* The inductive invariant for one lost byte.                              *)

\* The next byte to come is byte k + 1 of message n.
Coming(n, k) ==
  IF rest = <<>> THEN n = Len(sent) + 1 /\ k = 0
  ELSE n = Head(rest)[1] /\ k + 1 = Head(rest)[2]

\* No message from l, which lost a byte, to n misleads.
Leads(l, n) ==
  /\ sent[l].kind = "raw" => Len(sent[l].bytes) = 4
  /\ \A d \in l .. n : ~Misleads(sent[d])

\* The receiver on its way: message l lost a byte, byte k of n is the last gone by.
Strays(l, n, k) ==
  IF k = 0
    THEN Leads(l, n - 1) /\ Clean(n - 1) =>
           IF n = l + 1 THEN Left(app) ELSE Apart(app, sent[n - 1], n - 1 \in flushed)
  ELSE IF n # l THEN Leads(l, n) /\ Clean(n) => Adrift(app, sent[n], k)
  ELSE IF k # 1 THEN Leads(l, n) /\ Clean(n) => Broken(app, sent[n], k)
  ELSE Clean(n - 1) =>
         IF n = 1 THEN Level(app, FALSE) ELSE Righted(app, sent[n - 1], n - 1 \in flushed)

\* The log ends with what was sent after message c and before message n.
Resumed(c, n, log) ==
  /\ log \in Seq(Events) /\ Len(log) >= n - 1 - c
  /\ \A i \in c + 1 .. n - 1 : log[Len(log) - (n - 1) + i] = sent[i]

\* Message c has put the receiver right.
Healed(c, n, k) ==
  IF k # 0 THEN Clean(n) => \E log : Resumed(c, n, log) /\ Inside(app, sent[n], k, log)
  ELSE Clean(n - 1) =>
         IF n = c + 1 THEN Righted(app, sent[c], c \in flushed)
         ELSE \E log : Resumed(c, n - 1, log) /\ After(app, sent[n - 1], log, n - 1 \in flushed)

Heals(l, n, k) ==
  /\ Coming(n, k) /\ l >= 1 /\ n >= l /\ (n = l => k >= 1)
  /\ begun = IF k = 0 \/ (n = l /\ k = 1) THEN n - 1 ELSE n
  /\ flushed \subseteq 0 .. n - 1
  /\ Strays(l, n, k)
  /\ \A c \in l + 1 .. n - 1 : Closes(sent[c]) /\ Leads(l, c) => Healed(c, n, k)

HInv == Len(lost) = 1 => \E l, n, k \in Nat : l = lost[1] /\ Heals(l, n, k)

LEMMA ResumedStart ==
  ASSUME NEW c \in Nat, NEW log \in Seq(Events)
  PROVE  Resumed(c, c + 1, log)
<1>1. (c + 1) - 1 - c = 0 /\ c + 1 .. (c + 1) - 1 = {} /\ Len(log) >= 0
  OBVIOUS
<1> QED BY <1>1 DEF Resumed

LEMMA MessageEvent ==
  ASSUME NEW m \in Messages
  PROVE  m \in Events
<1>1. m = Event(m.kind, m.bytes) /\ m.kind \in Kinds /\ m.bytes \in Seq(Byte)
  BY KindFacts, MessageFacts DEF Kinds
<1> QED BY <1>1 DEF Event, Events

LEMMA ResumedGrows ==
  ASSUME sent \in Seq(Messages), NEW c \in Nat, NEW n \in 1 .. Len(sent), c < n,
         NEW log, Resumed(c, n, log)
  PROVE  Resumed(c, n + 1, Append(log, sent[n]))
<1> DEFINE m == sent[n]
           s == Append(log, m)
           z == Len(log)
<1>1. m \in Events
  BY MessageEvent
<1>2. /\ log \in Seq(Events) /\ z \in Nat /\ z >= n - 1 - c
      /\ \A i \in c + 1 .. n - 1 : log[z - (n - 1) + i] = sent[i]
  BY DEF Resumed
<1>3. s \in Seq(Events) /\ Len(s) = z + 1
      /\ \A i \in 1 .. z + 1 : s[i] = IF i = z + 1 THEN m ELSE log[i]
  BY <1>1, <1>2, AppendAt
<1> HIDE DEF s, m, z
<1>4. ASSUME NEW i \in c + 1 .. n
      PROVE  s[Len(s) - n + i] = sent[i]
  <2>1. CASE i = n
    <3>1. Len(s) - n + i = z + 1 /\ z + 1 \in 1 .. z + 1
      BY <1>2, <1>3, <2>1
    <3> QED BY <1>3, <2>1, <3>1 DEF m
  <2>2. CASE i # n
    <3>1. /\ i \in c + 1 .. n - 1
          /\ Len(s) - n + i = z - (n - 1) + i
          /\ z - (n - 1) + i \in 1 .. z + 1 /\ z - (n - 1) + i # z + 1
      BY <1>2, <1>3, <2>2
    <3> QED BY <1>2, <1>3, <3>1
  <2> QED BY <2>1, <2>2
<1>5. Len(s) >= (n + 1) - 1 - c /\ (n + 1) - 1 = n
  BY <1>2, <1>3
<1>6. \A i \in c + 1 .. (n + 1) - 1 : s[Len(s) - ((n + 1) - 1) + i] = sent[i]
  BY <1>4, <1>5
<1> QED BY <1>3, <1>5, <1>6 DEF Resumed, s, m

LEMMA ComingNext ==
  ASSUME sent \in Seq(Messages), Ordered(rest, sent), rest # <<>>,
         NEW n \in Nat, NEW k \in Nat, Coming(n, k), rest' = Tail(rest), sent' = sent
  PROVE  /\ n \in 1 .. Len(sent) /\ sent[n] \in Messages
         /\ Head(rest)[1] = n /\ Head(rest)[2] = k + 1
         /\ k + 1 \in 1 .. Len(Wire(sent[n])) /\ Len(Wire(sent[n])) >= 2
         /\ Head(rest)[3] = Wire(sent[n])[k + 1] /\ Wire(sent[n])[k + 1] \in Byte
         /\ k = 0 => Wire(sent[n])[k + 1] = Star
         /\ IF k + 1 = Len(Wire(sent[n])) THEN Coming(n + 1, 0)' ELSE Coming(n, k + 1)'
<1> DEFINE e == Head(rest)
           t == Tail(rest)
           f == Head(t)
           z == Len(Wire(sent[n]))
<1>1. e[1] = n /\ e[2] = k + 1
  BY DEF Coming
<1>2. /\ e[1] \in 1 .. Len(sent) /\ e[2] \in 1 .. Size(sent, e[1])
      /\ e[3] = Wire(sent[e[1]])[e[2]] /\ e[3] \in Byte
      /\ IF t = <<>> THEN e[1] = Len(sent) /\ e[2] = Size(sent, Len(sent))
                     ELSE Follows(sent, e[1], e[2], f)
  BY OrderedHead
<1> HIDE DEF e
<1>3. n \in 1 .. Len(sent)
  BY <1>1, <1>2
<1>4. /\ sent[n] \in Messages /\ Size(sent, n) = z /\ z \in Nat /\ z >= 2
      /\ Wire(sent[n])[1] = Star
  BY <1>3, SizeFacts
<1>5. k + 1 \in 1 .. z /\ e[3] = Wire(sent[n])[k + 1] /\ Wire(sent[n])[k + 1] \in Byte
  BY <1>1, <1>2, <1>4
<1>6. k = 0 => Wire(sent[n])[k + 1] = Star
  BY <1>4
<1>7. t # <<>> => f[2] \in 1 .. Size(sent, f[1])
  <2> SUFFICES ASSUME t # <<>> PROVE f[2] \in 1 .. Size(sent, f[1])
    OBVIOUS
  <2>1. Ordered(t, sent)
    BY OrderedTail
  <2> HIDE DEF t
  <2> QED BY <2>1, OrderedHead
<1> HIDE DEF z, f, t
<1>8. CASE t = <<>>
  <2>1. n = Len(sent) /\ k + 1 = z
    BY <1>1, <1>2, <1>4, <1>8
  <2>2. rest' = <<>> /\ n + 1 = Len(sent') + 1
    BY <1>8, <2>1 DEF t
  <2>3. Coming(n + 1, 0)'
    BY <2>2 DEF Coming
  <2> QED BY <1>1, <1>3, <1>4, <1>5, <1>6, <2>1, <2>3 DEF e, z
<1>9. CASE t # <<>>
  <2>1. /\ rest' # <<>> /\ Head(rest') = f
        /\ \/ f[1] = n /\ f[2] = (k + 1) + 1
           \/ f[1] = n + 1 /\ f[2] = 1 /\ k + 1 = z
    BY <1>1, <1>2, <1>4, <1>9 DEF Follows, f, t
  <2>2. CASE f[1] = n /\ f[2] = (k + 1) + 1
    <3>1. k + 1 # z
      <4>1. (k + 1) + 1 \in 1 .. z
        BY <1>4, <1>7, <1>9, <2>2
      <4> QED BY <1>4, <4>1
    <3>2. Coming(n, k + 1)'
      BY <2>1, <2>2 DEF Coming
    <3> QED BY <1>1, <1>3, <1>4, <1>5, <1>6, <3>1, <3>2 DEF e, z
  <2>3. CASE f[1] = n + 1 /\ f[2] = 1 /\ k + 1 = z
    <3>1. 0 + 1 = 1
      OBVIOUS
    <3>2. Coming(n + 1, 0)'
      BY <2>1, <2>3, <3>1 DEF Coming
    <3> QED BY <1>1, <1>3, <1>4, <1>5, <1>6, <2>3, <3>2 DEF e, z
  <2> QED BY <2>1, <2>2, <2>3
<1> QED BY <1>8, <1>9

LEMMA LeadsOn ==
  ASSUME NEW l \in Nat, NEW n \in Nat, Leads(l, n), NEW d \in Nat, d <= n
  PROVE  Leads(l, d) /\ (d >= l => ~Misleads(sent[d]))
BY DEF Leads

LEMMA CleanOn ==
  ASSUME NEW n \in Nat, Clean(n), n >= 1
  PROVE  /\ Clean(n - 1)
         /\ sent[n].kind = "touch" => \A i \in 1 .. Len(sent[n].bytes) : sent[n].bytes[i] # Star
         /\ n > 1 => (Pending(sent[n - 1]) => n - 1 \in flushed)
<1>1. 1 .. n - 1 \subseteq 1 .. n /\ 1 .. (n - 1) - 1 \subseteq 1 .. n - 1 /\ n \in 1 .. n
  OBVIOUS
<1>2. n > 1 => n - 1 \in 1 .. n - 1
  OBVIOUS
<1>3. Clean(n - 1)
  BY <1>1 DEF Clean
<1>4. ~Starred(n)
  BY <1>1 DEF Clean
<1>5. n > 1 => (Pending(sent[n - 1]) => n - 1 \in flushed)
  BY <1>2 DEF Clean
<1> QED BY <1>3, <1>4, <1>5 DEF Starred

\* What byte k + 1 of message n makes of a receiver on its way.
LEMMA StraysOn ==
  ASSUME sent \in Seq(Messages), Sound(app), NEW l \in Nat, l >= 1, NEW n \in 1 .. Len(sent), n >= l,
         NEW k \in 0 .. Len(Wire(sent[n])) - 1, n = l => k >= 1, Strays(l, n, k),
         Leads(l, n), Clean(n)
  PROVE  LET m == sent[n]
             c == Rx(app, Wire(m)[k + 1])
         IN  IF k + 1 = Len(Wire(m))
               THEN IF n = l THEN Left(c)
                    ELSE Apart(c, m, FALSE) /\ (Closes(m) => Righted(c, m, FALSE))
             ELSE IF n = l THEN Broken(c, m, k + 1)
             ELSE Adrift(c, m, k + 1)
<1> DEFINE m == sent[n]
           z == Len(Wire(m))
           c == Rx(app, Wire(m)[k + 1])
           Goal == IF k + 1 = z
                     THEN IF n = l THEN Left(c)
                          ELSE Apart(c, m, FALSE) /\ (Closes(m) => Righted(c, m, FALSE))
                   ELSE IF n = l THEN Broken(c, m, k + 1)
                   ELSE Adrift(c, m, k + 1)
<1> SUFFICES Goal
  OBVIOUS
<1>1. m \in Messages /\ z \in Nat /\ z >= 2 /\ Wire(m)[1] = Star
  BY SizeFacts
<1>2. n \in Nat /\ n >= 1 /\ n <= n /\ n - 1 \in Nat /\ n - 1 <= n /\ k \in Nat
  BY <1>1
<1>3. /\ Clean(n - 1)
      /\ m.kind = "touch" => \A i \in 1 .. Len(m.bytes) : m.bytes[i] # Star
      /\ n > 1 => (Pending(sent[n - 1]) => n - 1 \in flushed)
  BY <1>2, CleanOn
<1>4. Straight(m) /\ Leads(l, n - 1)
  <2>1. ~Misleads(m) /\ Leads(l, n - 1)
    BY <1>2, LeadsOn
  <2> QED BY <1>3, <2>1 DEF Straight
<1>5. n = l /\ m.kind = "raw" => Len(m.bytes) = 4
  BY DEF Leads
<1>6. n > 1 => (n - 1 \in flushed) = TRUE \/ ((n - 1 \in flushed) = FALSE /\ ~Pending(sent[n - 1]))
  BY <1>3
<1> HIDE DEF z, m, c
<1>7. k # 0 => k \in 1 .. z - 1
  BY <1>1, <1>2 DEF m, z
<1>8. CASE n = l
  <2>1. Broken(app, m, k)
    <3>1. CASE k # 1
      BY <1>8, <3>1 DEF Strays, m
    <3>2. CASE k = 1
      <4>1. IF n = 1 THEN Level(app, FALSE) ELSE Righted(app, sent[n - 1], n - 1 \in flushed)
        <5>1. k # 0 /\ Strays(l, n, k)
          BY <3>2
        <5> QED BY <1>3, <1>8, <3>2, <5>1, Zenon DEF Strays
      <4>2. Level(app, FALSE)
        <5>1. CASE n = 1
          BY <4>1, <5>1
        <5>2. CASE n # 1
          <6>1. n > 1 /\ Righted(app, sent[n - 1], n - 1 \in flushed)
            BY <1>2, <4>1, <5>2
          <6>2. Righted(app, sent[n - 1], TRUE) \/ (Righted(app, sent[n - 1], FALSE) /\ ~Pending(sent[n - 1]))
            BY <1>6, <6>1, Zenon
          <6> QED BY <6>2, RightedLevel
        <5> QED BY <5>1, <5>2
      <4> QED BY <4>2 DEF Broken
    <3> QED BY <3>1, <3>2
  <2>2. IF k + 1 = z THEN Left(c) ELSE Broken(c, m, k + 1)
    BY <1>1, <1>4, <1>5, <1>7, <1>8, <2>1, BrokenNext DEF z, c
  <2> QED BY <1>8, <2>2
<1>9. CASE n # l /\ k # 0
  <2>1. Adrift(app, m, k)
    BY <1>9 DEF Strays, m
  <2>2. IF k + 1 = z THEN Apart(c, m, FALSE) /\ (Closes(m) => Righted(c, m, FALSE))
        ELSE Adrift(c, m, k + 1)
    BY <1>1, <1>4, <1>7, <1>9, <2>1, AdriftNext DEF z, c
  <2> QED BY <1>9, <2>2
<1>10. CASE n # l /\ k = 0
  <2>1. IF n = l + 1 THEN Left(app) ELSE Apart(app, sent[n - 1], n - 1 \in flushed)
    BY <1>3, <1>4, <1>10 DEF Strays
  <2>2. k + 1 = 1 /\ k + 1 # z /\ n > 1
    BY <1>1, <1>2, <1>10
  <2>3. c = Rx(app, Star)
    BY <1>1, <2>2 DEF c
  <2>4. Adrift(c, m, 1)
    <3>1. CASE n = l + 1
      BY <1>1, <2>1, <2>3, <3>1, LeftOpens
    <3>2. CASE n # l + 1
      <4>1. Apart(app, sent[n - 1], n - 1 \in flushed)
        BY <2>1, <3>2
      <4>2. Apart(app, sent[n - 1], TRUE) \/ (Apart(app, sent[n - 1], FALSE) /\ ~Pending(sent[n - 1]))
        BY <1>6, <2>2, <4>1, Zenon
      <4> QED BY <1>1, <2>3, <4>2, ApartOpens
    <3> QED BY <3>1, <3>2
  <2> QED BY <1>10, <2>2, <2>4
<1> QED BY <1>8, <1>9, <1>10

\* Behind a message that closed the receiver follows the line again.
LEMMA HealedOn ==
  ASSUME sent \in Seq(Messages), Sound(app), NEW c \in Nat, c >= 1, NEW n \in 1 .. Len(sent), c < n,
         NEW k \in 0 .. Len(Wire(sent[n])) - 1, Healed(c, n, k), Clean(n)
  PROVE  \E log :
           /\ Resumed(c, n, log)
           /\ LET x == Rx(app, Wire(sent[n])[k + 1])
              IN  IF k + 1 = Len(Wire(sent[n])) THEN After(x, sent[n], log, FALSE)
                                                ELSE Inside(x, sent[n], k + 1, log)
<1> DEFINE m == sent[n]
           z == Len(Wire(m))
           x == Rx(app, Wire(m)[k + 1])
<1>1. m \in Messages /\ z \in Nat /\ z >= 2 /\ Wire(m)[1] = Star
  BY SizeFacts
<1>2. n \in Nat /\ n >= 1 /\ n - 1 \in Nat /\ k \in Nat /\ (n - 1) + 1 = n
  BY <1>1
<1>3. /\ Clean(n - 1)
      /\ m.kind = "touch" => \A i \in 1 .. Len(m.bytes) : m.bytes[i] # Star
      /\ n > 1 => (Pending(sent[n - 1]) => n - 1 \in flushed)
  BY <1>2, CleanOn
<1>4. n > 1 => (n - 1 \in flushed) = TRUE \/ ((n - 1 \in flushed) = FALSE /\ ~Pending(sent[n - 1]))
  BY <1>3
<1> HIDE DEF z, m, x
<1>5. CASE k # 0
  <2>1. PICK log : Resumed(c, n, log) /\ Inside(app, m, k, log)
    BY <1>5 DEF Healed, m
  <2>2. k >= 1 /\ k < Len(Wire(m))
    BY <1>1, <1>2, <1>5 DEF z, m
  <2>3. IF k + 1 = Len(Wire(m)) THEN After(x, m, log, FALSE) ELSE Inside(x, m, k + 1, log)
    BY <1>1, <1>2, <1>3, <2>1, <2>2, InsideNext DEF x
  <2> QED BY <2>1, <2>3 DEF m, x
<1>6. CASE k = 0
  <2>1. k + 1 = 1 /\ k + 1 # z /\ n > 1
    BY <1>1, <1>2, <1>6
  <2>2. x = Rx(app, Star)
    BY <1>1, <2>1 DEF x
  <2>3. \E log : Resumed(c, n, log) /\ Opening(x, log)
    <3>1. CASE n = c + 1
      <4>1. Righted(app, sent[c], c \in flushed) /\ n - 1 = c
        BY <1>2, <1>3, <1>6, <3>1 DEF Healed
      <4>2. Righted(app, sent[c], TRUE) \/ (Righted(app, sent[c], FALSE) /\ ~Pending(sent[c]))
        BY <1>4, <2>1, <4>1, Zenon
      <4>3. Level(app, FALSE)
        BY <4>2, RightedLevel
      <4>4. PICK log \in Seq(Events) : Opening(Rx(app, Star), log)
        BY <4>3, RightedOpens
      <4>5. Resumed(c, n, log)
        BY <3>1, ResumedStart
      <4> QED BY <2>2, <4>4, <4>5
    <3>2. CASE n # c + 1
      <4>1. PICK log : Resumed(c, n - 1, log) /\ After(app, sent[n - 1], log, n - 1 \in flushed)
        BY <1>3, <1>6, <3>2 DEF Healed
      <4>2. \/ After(app, sent[n - 1], log, TRUE)
            \/ After(app, sent[n - 1], log, FALSE) /\ ~Pending(sent[n - 1])
        BY <1>4, <2>1, <4>1, Zenon
      <4>3. Ready(app, Append(log, sent[n - 1]))
        BY <4>2 DEF After
      <4>4. Opening(Rx(app, Star), Append(log, sent[n - 1]))
        BY <4>3, ReadyOpens
      <4>5. n - 1 \in 1 .. Len(sent) /\ c < n - 1
        BY <1>2, <2>1, <3>2
      <4>6. Resumed(c, n, Append(log, sent[n - 1]))
        BY <1>2, <4>1, <4>5, ResumedGrows
      <4> QED BY <2>2, <4>4, <4>6
    <3> QED BY <3>1, <3>2
  <2>4. PICK log : Resumed(c, n, log) /\ Opening(x, log)
    BY <2>3
  <2>5. Inside(x, m, k + 1, log)
    BY <2>1, <2>4 DEF Inside
  <2> QED BY <2>1, <2>4, <2>5 DEF m, x, z
<1> QED BY <1>5, <1>6

(* A byte handled.                                                         *)
LEMMA ReceiveHeals ==
  ASSUME TypeOK, Ordered(rest, sent), Receive, NEW l \in Nat, NEW n \in Nat, NEW k \in Nat,
         Heals(l, n, k)
  PROVE  \E i, j \in Nat : Heals(l, i, j)'
<1> DEFINE m == sent[n]
           b == Wire(m)[k + 1]
           x == Rx(app, b)
           z == Len(Wire(m))
<1>1. Sound(app) /\ sent \in Seq(Messages) /\ Len(sent) \in Nat
  BY TypeSound
<1>2. /\ rest # <<>> /\ rest' = Tail(rest) /\ sent' = sent /\ flushed' = flushed
      /\ app' = Rx(app, Head(rest)[3]) /\ begun' = Head(rest)[1]
  BY DEF Receive
<1>3. /\ Coming(n, k) /\ l >= 1 /\ n >= l /\ (n = l => k >= 1)
      /\ flushed \subseteq 0 .. n - 1 /\ Strays(l, n, k)
      /\ \A c \in l + 1 .. n - 1 : Closes(sent[c]) /\ Leads(l, c) => Healed(c, n, k)
  BY DEF Heals
<1>4. /\ n \in 1 .. Len(sent) /\ m \in Messages
      /\ k + 1 \in 1 .. z /\ z >= 2 /\ z \in Nat
      /\ Head(rest)[3] = b /\ Head(rest)[1] = n
      /\ IF k + 1 = z THEN Coming(n + 1, 0)' ELSE Coming(n, k + 1)'
  <2>1. /\ n \in 1 .. Len(sent) /\ m \in Messages
        /\ k + 1 \in 1 .. z /\ z >= 2
        /\ Head(rest)[3] = b /\ Head(rest)[1] = n
        /\ IF k + 1 = z THEN Coming(n + 1, 0)' ELSE Coming(n, k + 1)'
    BY <1>1, <1>2, <1>3, ComingNext
  <2>2. z \in Nat
    BY <2>1, MessageFacts
  <2> QED BY <2>1, <2>2
<1>5. app' = x /\ begun' = n
  BY <1>2, <1>4
<1>6. k \in 0 .. z - 1 /\ (n \in flushed) = FALSE /\ n \in Nat /\ n >= 1 /\ (n + 1) - 1 = n
  BY <1>3, <1>4
<1>7. ASSUME NEW i \in Nat
      PROVE  (Clean(i)' <=> Clean(i)) /\ (Leads(l, i)' <=> Leads(l, i))
  BY <1>2 DEF Clean, Starred, Leads
<1>8. ASSUME Leads(l, n), Clean(n)
      PROVE  IF k + 1 = z
               THEN IF n = l THEN Left(x) ELSE Apart(x, m, FALSE) /\ (Closes(m) => Righted(x, m, FALSE))
             ELSE IF n = l THEN Broken(x, m, k + 1)
             ELSE Adrift(x, m, k + 1)
  BY <1>1, <1>3, <1>4, <1>6, <1>8, StraysOn, ZenonT(60)
<1>9. ASSUME NEW c \in l + 1 .. n - 1, Closes(sent[c]), Leads(l, c), Clean(n)
      PROVE  \E log : /\ Resumed(c, n, log)
                      /\ IF k + 1 = z THEN After(x, m, log, FALSE) ELSE Inside(x, m, k + 1, log)
  <2>1. c \in Nat /\ c >= 1 /\ c < n /\ Healed(c, n, k)
    BY <1>3, <1>6, <1>9
  <2> QED BY <1>1, <1>4, <1>6, <1>9, <2>1, HealedOn
<1>10. ASSUME NEW c, NEW i, NEW log
       PROVE  Resumed(c, i, log)' <=> Resumed(c, i, log)
  BY <1>2 DEF Resumed
<1> HIDE DEF z, x, b
<1>11. CASE k + 1 = z
  <2>1. Strays(l, n + 1, 0)'
    <3>1. ASSUME Leads(l, n), Clean(n)
          PROVE  IF n + 1 = l + 1 THEN Left(app') ELSE Apart(app', sent'[n], n \in flushed')
      <4>1. CASE n = l
        <5>1. Left(x)
          BY <1>8, <1>11, <3>1, <4>1
        <5>2. Left(app')
          BY <1>5, <5>1
        <5> QED BY <4>1, <5>2
      <4>2. CASE n # l
        <5>1. Apart(x, m, FALSE)
          BY <1>8, <1>11, <3>1, <4>2
        <5>2. (n \in flushed') = FALSE
          BY <1>2, <1>6
        <5>3. Apart(app', sent'[n], n \in flushed')
          BY <1>2, <1>5, <5>1, <5>2 DEF m
        <5>4. n + 1 # l + 1
          BY <1>6, <4>2
        <5> QED BY <5>3, <5>4
      <4> QED BY <4>1, <4>2
    <3>2. Leads(l, n)' /\ Clean(n)' => Leads(l, n) /\ Clean(n)
      BY <1>6, <1>7
    <3> QED BY <1>6, <3>1, <3>2 DEF Strays
  <2>2. ASSUME NEW c \in l + 1 .. (n + 1) - 1, Closes(sent[c]), Leads(l, c), Clean(n)
        PROVE  IF n + 1 = c + 1 THEN Righted(app', sent'[c], c \in flushed')
               ELSE \E log : Resumed(c, n, log)' /\ After(app', sent'[n], log, n \in flushed')
    <3>0. (n \in flushed') = FALSE
      BY <1>2, <1>6
    <3>1. CASE c = n
      <4>1. n # l
        BY <2>2, <3>1
      <4>2. Righted(x, m, FALSE)
        BY <1>8, <1>11, <2>2, <3>1, <4>1 DEF m
      <4>3. Righted(app', sent'[c], c \in flushed')
        BY <1>2, <1>5, <3>0, <3>1, <4>2 DEF m
      <4> QED BY <3>1, <4>3
    <3>2. CASE c # n
      <4>1. c \in l + 1 .. n - 1 /\ n + 1 # c + 1
        BY <1>6, <2>2, <3>2
      <4>2. PICK log : Resumed(c, n, log) /\ After(x, m, log, FALSE)
        BY <1>9, <1>11, <2>2, <4>1
      <4>3. After(app', sent'[n], log, n \in flushed')
        BY <1>2, <1>5, <3>0, <4>2 DEF m
      <4> QED BY <1>10, <4>1, <4>2, <4>3
    <3> QED BY <3>1, <3>2
  <2>3. ASSUME NEW c \in l + 1 .. (n + 1) - 1
        PROVE  (Closes(sent[c]) /\ Leads(l, c) => Healed(c, n + 1, 0))'
    <3>1. Leads(l, c)' => Leads(l, c)
      BY <1>6, <1>7
    <3>2. Clean(n)' => Clean(n)
      BY <1>6, <1>7
    <3> QED BY <1>2, <1>6, <2>2, <3>1, <3>2 DEF Healed
  <2>4. Heals(l, n + 1, 0)'
    <3>1. Coming(n + 1, 0)'
      BY <1>4, <1>11
    <3>2. /\ n + 1 >= l /\ n + 1 # l /\ begun' = (n + 1) - 1
          /\ flushed' \subseteq 0 .. (n + 1) - 1
      BY <1>2, <1>3, <1>5, <1>6
    <3> QED BY <1>3, <2>1, <2>3, <3>1, <3>2 DEF Heals
  <2>5. n + 1 \in Nat /\ 0 \in Nat
    BY <1>6
  <2> QED BY <2>4, <2>5
<1>12. CASE k + 1 # z
  <2>0. k + 1 # 0 /\ k + 1 \in Nat
    BY <1>6
  <2>1. Strays(l, n, k + 1)'
    <3>1. ASSUME Leads(l, n), Clean(n)
          PROVE  IF n # l THEN Adrift(app', sent'[n], k + 1) ELSE Broken(app', sent'[n], k + 1)
      BY <1>2, <1>5, <1>8, <1>12, <3>1 DEF m
    <3>2. Leads(l, n)' /\ Clean(n)' => Leads(l, n) /\ Clean(n)
      BY <1>6, <1>7
    <3>3. n = l => k + 1 # 1
      BY <1>3, <1>6
    <3> QED BY <2>0, <3>1, <3>2, <3>3 DEF Strays
  <2>2. ASSUME NEW c \in l + 1 .. n - 1
        PROVE  (Closes(sent[c]) /\ Leads(l, c) => Healed(c, n, k + 1))'
    <3>1. ASSUME Closes(sent[c]), Leads(l, c), Clean(n)
          PROVE  \E log : Resumed(c, n, log)' /\ Inside(app', sent'[n], k + 1, log)
      <4>1. PICK log : Resumed(c, n, log) /\ Inside(x, m, k + 1, log)
        BY <1>9, <1>12, <3>1
      <4> QED BY <1>2, <1>5, <1>10, <4>1 DEF m
    <3>2. Leads(l, c)' => Leads(l, c)
      BY <1>6, <1>7
    <3>3. Clean(n)' => Clean(n)
      BY <1>6, <1>7
    <3> QED BY <1>2, <2>0, <3>1, <3>2, <3>3 DEF Healed
  <2>3. Heals(l, n, k + 1)'
    <3>1. Coming(n, k + 1)'
      BY <1>4, <1>12
    <3>2. begun' = n /\ flushed' \subseteq 0 .. n - 1 /\ k + 1 >= 1 /\ (n = l => k + 1 # 1)
      BY <1>2, <1>3, <1>5, <1>6
    <3> QED BY <1>3, <2>0, <2>1, <2>2, <3>1, <3>2 DEF Heals
  <2> QED BY <2>0, <2>3
<1> QED BY <1>11, <1>12

(* A flush between two messages.                                           *)
LEMMA FlushHeals ==
  ASSUME TypeOK, NEW l \in Nat, NEW n \in Nat, NEW k \in Nat, Heals(l, n, k),
         FlushTo(FlushRaw(app)) \/ FlushTo(FlushAll(app))
  PROVE  Heals(l, n, k)'
<1>1. Sound(app) /\ sent \in Seq(Messages) /\ Len(sent) \in Nat /\ begun \in 0 .. Len(sent)
  BY TypeSound DEF TypeOK
<1>2. /\ app' \in {FlushRaw(app), FlushAll(app)}
      /\ flushed' = flushed \union {Handled}
      /\ sent' = sent /\ rest' = rest /\ begun' = begun /\ Between
  BY DEF FlushTo
<1>3. /\ Coming(n, k) /\ l >= 1 /\ n >= l /\ (n = l => k >= 1)
      /\ begun = IF k = 0 \/ (n = l /\ k = 1) THEN n - 1 ELSE n
      /\ flushed \subseteq 0 .. n - 1
      /\ Strays(l, n, k)
      /\ \A c \in l + 1 .. n - 1 : Closes(sent[c]) /\ Leads(l, c) => Healed(c, n, k)
  BY DEF Heals
<1>4. Handled = n - 1 /\ begun = n - 1 /\ (k = 0 \/ (n = l /\ k = 1))
  <2>1. CASE rest = <<>>
    BY <1>1, <1>3, <2>1 DEF Coming, Handled
  <2>2. CASE rest # <<>>
    <3>1. Head(rest)[1] = n /\ begun # n
      BY <1>2, <1>3, <2>2 DEF Coming, Between
    <3>2. Handled = n - 1
      BY <2>2, <3>1 DEF Handled
    <3> QED BY <1>3, <3>1, <3>2
  <2> QED BY <2>1, <2>2
<1>5. /\ flushed' = flushed \union {n - 1} /\ (n - 1 \in flushed') = TRUE
      /\ (n - 1 \in flushed) = TRUE \/ (n - 1 \in flushed) = FALSE
  BY <1>2, <1>4
<1>6. n > 1 => sent[n - 1] \in Messages
  BY <1>1, <1>4
<1>7. ASSUME NEW i \in Nat, i <= n - 1
      PROVE  (Clean(i)' <=> Clean(i)) /\ (Leads(l, i)' <=> Leads(l, i))
  <2>1. \A c \in 1 .. i - 1 : c \in flushed' <=> c \in flushed
    BY <1>5, <1>7
  <2> QED BY <1>2, <2>1 DEF Clean, Starred, Leads
<1>8. Coming(n, k)'
  BY <1>2, <1>3 DEF Coming
<1>9. flushed' \subseteq 0 .. n - 1
  BY <1>3, <1>5
<1>10. n >= 1 /\ n - 1 \in Nat /\ n - 1 <= n - 1
  BY <1>3
<1>11. ASSUME n > 1, Righted(app, sent[n - 1], n - 1 \in flushed)
       PROVE  Righted(app', sent'[n - 1], n - 1 \in flushed')
  <2>1. Righted(app, sent[n - 1], TRUE) \/ Righted(app, sent[n - 1], FALSE)
    BY <1>5, <1>11, Zenon
  <2>2. Righted(app', sent[n - 1], TRUE)
    BY <1>1, <1>2, <1>6, <1>11, <2>1, DriftFlush
  <2> QED BY <1>2, <1>5, <2>2
<1>12. CASE k = 0
  <2>1. n >= l + 1 /\ n > 1 /\ n # l
    BY <1>3, <1>12
  <2>2. Strays(l, n, k)'
    <3>1. ASSUME Leads(l, n - 1), Clean(n - 1)
          PROVE  IF n = l + 1 THEN Left(app') ELSE Apart(app', sent'[n - 1], n - 1 \in flushed')
      <4>1. IF n = l + 1 THEN Left(app) ELSE Apart(app, sent[n - 1], n - 1 \in flushed)
        BY <1>3, <1>12, <3>1 DEF Strays
      <4>2. CASE n = l + 1
        BY <1>1, <1>2, <1>6, <2>1, <4>1, <4>2, DriftFlush
      <4>3. CASE n # l + 1
        <5>1. Apart(app, sent[n - 1], n - 1 \in flushed)
          BY <4>1, <4>3
        <5>2. Apart(app, sent[n - 1], TRUE) \/ Apart(app, sent[n - 1], FALSE)
          BY <1>5, <5>1, Zenon
        <5>3. Apart(app', sent[n - 1], TRUE)
          BY <1>1, <1>2, <1>6, <2>1, <5>2, DriftFlush
        <5> QED BY <1>2, <1>5, <4>3, <5>3
      <4> QED BY <4>2, <4>3
    <3> QED BY <1>7, <1>10, <1>12, <3>1 DEF Strays
  <2>3. ASSUME NEW c \in l + 1 .. n - 1
        PROVE  (Closes(sent[c]) /\ Leads(l, c) => Healed(c, n, k))'
    <3>1. ASSUME Healed(c, n, k), Clean(n - 1)
          PROVE  IF n = c + 1 THEN Righted(app', sent'[c], c \in flushed')
                 ELSE \E log : Resumed(c, n - 1, log)' /\ After(app', sent'[n - 1], log, n - 1 \in flushed')
      <4>1. CASE n = c + 1
        <5>1. c = n - 1
          BY <1>3, <4>1
        <5>2. Righted(app, sent[c], c \in flushed)
          BY <1>12, <3>1, <4>1 DEF Healed
        <5> QED BY <1>11, <2>1, <4>1, <5>1, <5>2
      <4>2. CASE n # c + 1
        <5>1. PICK log : Resumed(c, n - 1, log) /\ After(app, sent[n - 1], log, n - 1 \in flushed)
          BY <1>12, <3>1, <4>2 DEF Healed
        <5>2. After(app, sent[n - 1], log, TRUE) \/ After(app, sent[n - 1], log, FALSE)
          BY <1>5, <5>1, Zenon
        <5>3. After(app', sent[n - 1], log, TRUE)
          <6>1. sent[n - 1] \in Messages
            BY <1>6, <2>1
          <6>2. After(FlushRaw(app), sent[n - 1], log, TRUE) /\ After(FlushAll(app), sent[n - 1], log, TRUE)
            BY <5>2, <6>1, AfterFlush, ZenonT(60)
          <6> QED BY <1>2, <6>2
        <5>4. Resumed(c, n - 1, log)'
          BY <1>2, <5>1 DEF Resumed
        <5>5. After(app', sent'[n - 1], log, n - 1 \in flushed')
          BY <1>2, <1>5, <5>3
        <5> QED BY <4>2, <5>4, <5>5
      <4> QED BY <4>1, <4>2
    <3>2. c \in Nat /\ c <= n - 1
      BY <1>3
    <3>3. Leads(l, c)' <=> Leads(l, c)
      BY <1>7, <3>2
    <3>4. Clean(n - 1)' <=> Clean(n - 1)
      BY <1>7, <1>10
    <3>5. (Closes(sent[c]) /\ Leads(l, c))' => Healed(c, n, k)
      BY <1>2, <1>3, <3>3
    <3> QED BY <1>12, <3>1, <3>4, <3>5 DEF Healed
  <2> QED BY <1>2, <1>3, <1>8, <1>9, <2>2, <2>3 DEF Heals
<1>13. CASE k # 0
  <2>1. n = l /\ k = 1
    BY <1>4, <1>13
  <2>2. Strays(l, n, k)'
    <3>1. ASSUME Clean(n - 1)
          PROVE  IF n = 1 THEN Level(app', FALSE) ELSE Righted(app', sent'[n - 1], n - 1 \in flushed')
      <4>1. IF n = 1 THEN Level(app, FALSE) ELSE Righted(app, sent[n - 1], n - 1 \in flushed)
        <5>1. k # 0 /\ n = l /\ k = 1 /\ Strays(l, n, k)
          BY <1>3, <1>13, <2>1
        <5> QED BY <3>1, <5>1, Zenon DEF Strays
      <4>2. CASE n = 1
        BY <1>1, <1>2, <4>1, <4>2, FlushDrift
      <4>3. CASE n # 1
        <5>1. n > 1
          BY <1>10, <4>3
        <5> QED BY <1>11, <4>1, <4>3, <5>1
      <4> QED BY <4>2, <4>3
    <3>2. Clean(n - 1)' <=> Clean(n - 1)
      BY <1>7, <1>10
    <3> QED BY <1>13, <2>1, <3>1, <3>2, Zenon DEF Strays
  <2>3. l + 1 .. n - 1 = {}
    BY <2>1
  <2> QED BY <1>2, <1>3, <1>8, <1>9, <2>2, <2>3 DEF Heals
<1> QED BY <1>12, <1>13

(* A message sent goes behind what is on the line.                         *)
LEMMA SendHeals ==
  ASSUME TypeOK, Ordered(rest, sent), NEW l \in Nat, NEW n \in Nat, NEW k \in Nat, Heals(l, n, k),
         NEW m \in Messages, Send(m)
  PROVE  Heals(l, n, k)'
<1>1. sent \in Seq(Messages) /\ Len(sent) \in Nat /\ begun \in 0 .. Len(sent)
  BY TypeSound DEF TypeOK
<1>2. /\ sent' = Append(sent, m) /\ rest' = rest \o Numbered(Len(sent) + 1, Wire(m))
      /\ app' = app /\ begun' = begun /\ flushed' = flushed
  BY DEF Send
<1>3. /\ \A c \in 1 .. Len(sent) : sent'[c] = sent[c]
      /\ Len(sent') = Len(sent) + 1
  BY <1>1, <1>2, SizeGrows
<1>4. /\ rest' # <<>>
      /\ rest # <<>> => Head(rest') = Head(rest)
      /\ rest = <<>> => Head(rest')[1] = Len(sent) + 1 /\ Head(rest')[2] = 1
  BY <1>1, <1>2, OrderedSend
<1>5. /\ Coming(n, k) /\ l >= 1 /\ n >= l /\ (n = l => k >= 1)
      /\ begun = IF k = 0 \/ (n = l /\ k = 1) THEN n - 1 ELSE n
      /\ flushed \subseteq 0 .. n - 1
      /\ Strays(l, n, k)
      /\ \A c \in l + 1 .. n - 1 : Closes(sent[c]) /\ Leads(l, c) => Healed(c, n, k)
  BY DEF Heals
<1>6. n - 1 \in 0 .. Len(sent) /\ (k # 0 => n \in 1 .. Len(sent))
  <2>1. CASE rest = <<>>
    BY <1>1, <1>5, <2>1 DEF Coming
  <2>2. CASE rest # <<>>
    <3>1. Head(rest)[1] \in 1 .. Len(sent)
      BY <1>1, <2>2, OrderedHead
    <3>2. n = Head(rest)[1]
      BY <1>5, <2>2 DEF Coming
    <3> QED BY <1>1, <3>1, <3>2
  <2> QED BY <2>1, <2>2
<1>7. Coming(n, k)'
  <2>1. CASE rest = <<>>
    BY <1>4, <1>5, <2>1 DEF Coming
  <2>2. CASE rest # <<>>
    BY <1>4, <1>5, <2>2 DEF Coming
  <2> QED BY <2>1, <2>2
<1>8. ASSUME NEW i \in 0 .. Len(sent)
      PROVE  Clean(i)' <=> Clean(i)
  <2>1. \A d \in 1 .. i : d \in 1 .. Len(sent) /\ sent'[d] = sent[d]
    BY <1>1, <1>3
  <2>2. \A d \in 1 .. i - 1 : sent'[d] = sent[d]
    BY <1>1, <1>3
  <2>3. \A d \in 1 .. i : Starred(d)' <=> Starred(d)
    BY <2>1 DEF Starred
  <2>4. \A d \in 1 .. i - 1 : (Pending(sent[d]) => d \in flushed)' <=> (Pending(sent[d]) => d \in flushed)
    BY <1>2, <2>2
  <2> QED BY <2>3, <2>4 DEF Clean
<1>9. l \in 1 .. Len(sent) /\ sent'[l] = sent[l]
  <2>1. l \in 1 .. Len(sent)
    BY <1>1, <1>5, <1>6
  <2> QED BY <1>3, <2>1
<1>10. ASSUME NEW i \in 0 .. Len(sent)
       PROVE  Leads(l, i)' <=> Leads(l, i)
  <2>1. \A d \in l .. i : sent'[d] = sent[d]
    BY <1>1, <1>3, <1>9, SMTT(60)
  <2> QED BY <1>9, <2>1 DEF Leads
<1>11. ASSUME NEW c \in Nat, NEW i \in 0 .. Len(sent) + 1, NEW log
       PROVE  Resumed(c, i, log)' <=> Resumed(c, i, log)
  <2>1. \A d \in c + 1 .. i - 1 : sent'[d] = sent[d]
    BY <1>1, <1>3
  <2> QED BY <2>1 DEF Resumed
<1>12. n - 1 >= 1 => sent'[n - 1] = sent[n - 1]
  BY <1>1, <1>3, <1>6
<1>13. k # 0 => sent'[n] = sent[n] /\ n \in 0 .. Len(sent)
  BY <1>1, <1>3, <1>6
<1>14. Strays(l, n, k)'
  <2>0. (Clean(n - 1)' <=> Clean(n - 1)) /\ (Leads(l, n - 1)' <=> Leads(l, n - 1))
    BY <1>6, <1>8, <1>10
  <2>1. CASE k = 0
    <3>1. n - 1 >= 1
      BY <1>5, <2>1
    <3> QED BY <1>2, <1>5, <1>12, <2>0, <2>1, <3>1 DEF Strays
  <2>2. CASE k # 0
    <3>1. sent'[n] = sent[n] /\ (Clean(n)' <=> Clean(n)) /\ (Leads(l, n)' <=> Leads(l, n))
      BY <1>8, <1>10, <1>13, <2>2
    <3>2. n # 1 => sent'[n - 1] = sent[n - 1]
      BY <1>5, <1>12
    <3>3. CASE n # l
      BY <1>2, <1>5, <2>2, <3>1, <3>3 DEF Strays
    <3>4. CASE n = l /\ k # 1
      BY <1>2, <1>5, <2>2, <3>1, <3>4 DEF Strays
    <3>5. CASE n = l /\ k = 1
      <4>1. n = 1 \/ (n # 1 /\ sent'[n - 1] = sent[n - 1])
        BY <3>2
      <4>2. CASE n = 1
        BY <1>2, <1>5, <2>0, <2>2, <3>5, <4>2 DEF Strays
      <4>3. CASE n # 1
        <5>1. Righted(app, sent[n - 1], n - 1 \in flushed)' <=> Righted(app, sent[n - 1], n - 1 \in flushed)
          BY <1>2, <4>1, <4>3
        <5> QED BY <1>5, <2>0, <2>2, <3>5, <4>3, <5>1, Zenon DEF Strays
      <4> QED BY <4>2, <4>3
    <3> QED BY <3>3, <3>4, <3>5
  <2> QED BY <2>1, <2>2
<1>15. ASSUME NEW c \in l + 1 .. n - 1
       PROVE  (Closes(sent[c]) /\ Leads(l, c) => Healed(c, n, k))'
  <2>1. c \in Nat /\ c \in 1 .. Len(sent) /\ c \in 0 .. Len(sent) /\ n >= c + 1
    BY <1>1, <1>5, <1>6
  <2>2. sent'[c] = sent[c] /\ (Leads(l, c)' <=> Leads(l, c))
    BY <1>3, <1>10, <2>1
  <2>3. Healed(c, n, k) => Healed(c, n, k)'
    <3>1. CASE k # 0
      <4>1. sent'[n] = sent[n] /\ (Clean(n)' <=> Clean(n)) /\ n \in 0 .. Len(sent) + 1
        BY <1>1, <1>8, <1>13, <3>1
      <4>2. \A log : Resumed(c, n, log)' <=> Resumed(c, n, log)
        BY <1>11, <2>1, <4>1
      <4>3. \A log : Inside(app, sent[n], k, log)' <=> Inside(app, sent[n], k, log)
        BY <1>2, <4>1
      <4> QED BY <3>1, <4>1, <4>2, <4>3, Zenon DEF Healed
    <3>2. CASE k = 0
      <4>1. /\ Clean(n - 1)' <=> Clean(n - 1)
            /\ n - 1 \in 0 .. Len(sent) + 1 /\ sent'[n - 1] = sent[n - 1]
        BY <1>1, <1>6, <1>8, <1>12, <2>1
      <4>2. \A log : Resumed(c, n - 1, log)' <=> Resumed(c, n - 1, log)
        BY <1>11, <2>1, <4>1
      <4>3. \A log : After(app, sent[n - 1], log, n - 1 \in flushed)'
                       <=> After(app, sent[n - 1], log, n - 1 \in flushed)
        BY <1>2, <4>1
      <4>4. Righted(app, sent[c], c \in flushed)' <=> Righted(app, sent[c], c \in flushed)
        BY <1>2, <2>2
      <4> QED BY <3>2, <4>1, <4>2, <4>3, <4>4, Zenon DEF Healed
    <3> QED BY <3>1, <3>2
  <2> QED BY <1>5, <2>2, <2>3
<1> QED BY <1>2, <1>5, <1>7, <1>14, <1>15 DEF Heals

(* The line loses a byte of message l.                                     *)
LEMMA LoseHeals ==
  ASSUME TypeOK, Ordered(rest, sent), NEW k \in Nat, InStep(k), Lose,
         NEW l, l = Head(rest)[1]
  PROVE  \E n, j \in Nat : Heals(l, n, j)'
<1>1. Sound(app) /\ sent \in Seq(Messages) /\ Len(sent) \in Nat /\ begun \in 0 .. Len(sent)
  BY TypeSound DEF TypeOK
<1>2. /\ rest # <<>> /\ rest' = Tail(rest) /\ app' = app /\ sent' = sent
      /\ begun' = begun /\ flushed' = flushed
  BY DEF Lose
<1>3. Reached(k) /\ (Clean(begun) => Holds(k))
  BY DEF InStep
<1>4. /\ IF begun = 0 THEN k = 0 ELSE k \in 1 .. Size(sent, begun)
      /\ Follows(sent, begun, k, Head(rest))
      /\ flushed \subseteq 0 .. begun
      /\ begun \in flushed => k = Size(sent, begun)
  BY <1>2, <1>3 DEF Reached
<1>5. ASSUME NEW i \in Nat
      PROVE  (Clean(i)' <=> Clean(i)) /\ (Leads(l, i)' <=> Leads(l, i))
  BY <1>2 DEF Clean, Starred, Leads
<1>6. l \in 1 .. Len(sent) /\ l \in Nat /\ l >= 1 /\ l >= l
  BY <1>1, <1>2, OrderedHead
<1> DEFINE m == sent[l]
           z == Len(Wire(m))
<1>7. CASE l = begun /\ Head(rest)[2] = k + 1
  <2>1. Coming(l, k)
    BY <1>2, <1>7 DEF Coming
  <2>2. /\ m \in Messages /\ k + 1 \in 1 .. z /\ z >= 2
        /\ IF k + 1 = z THEN Coming(l + 1, 0)' ELSE Coming(l, k + 1)'
    BY <1>1, <1>2, <1>6, <2>1, ComingNext
  <2>3. Size(sent, begun) = z /\ z \in Nat
    BY <1>1, <1>6, <1>7, SizeFacts
  <2>4. k \in 1 .. z - 1 /\ k + 1 \in Nat /\ k + 1 # 0 /\ k + 1 # 1 /\ k # z
    BY <1>4, <1>6, <1>7, <2>2, <2>3
  <2>5. l \notin flushed
    BY <1>4, <1>7, <2>3, <2>4
  <2>6. flushed \subseteq 0 .. l - 1
    BY <1>4, <1>6, <1>7, <2>5
  <2>7. ASSUME Leads(l, l), Clean(l)
        PROVE  IF k + 1 = z THEN Left(app) ELSE Broken(app, m, k + 1)
    <3>1. Inside(app, m, k, Before(begun))
      BY <1>3, <1>6, <1>7, <2>3, <2>4, <2>7 DEF Holds
    <3>2. m.kind = "raw" => Len(m.bytes) = 4
      BY <2>7 DEF Leads
    <3> HIDE DEF m
    <3> QED BY <2>2, <2>4, <3>1, <3>2, LosesInside
  <2> HIDE DEF z, m
  <2>8. CASE k + 1 = z
    <3>1. Strays(l, l + 1, 0)'
      <4>1. (l + 1) - 1 = l
        BY <1>6
      <4> QED BY <1>2, <1>5, <1>6, <2>7, <2>8, <4>1 DEF Strays
    <3>2. l + 1 .. (l + 1) - 1 = {} /\ begun = (l + 1) - 1 /\ l + 1 >= l /\ l + 1 # l /\ l + 1 \in Nat
      BY <1>6, <1>7
    <3>3. flushed \subseteq 0 .. (l + 1) - 1
      BY <1>4, <3>2
    <3>4. Heals(l, l + 1, 0)'
      BY <1>2, <1>6, <2>2, <2>8, <3>1, <3>2, <3>3 DEF Heals
    <3> QED BY <3>2, <3>4
  <2>9. CASE k + 1 # z
    <3>1. Strays(l, l, k + 1)'
      BY <1>2, <1>5, <1>6, <2>4, <2>7, <2>9 DEF Strays, m
    <3>2. l + 1 .. l - 1 = {} /\ k + 1 >= 1
      BY <1>6, <2>4
    <3>3. Heals(l, l, k + 1)'
      BY <1>2, <1>6, <1>7, <2>2, <2>4, <2>6, <2>9, <3>1, <3>2 DEF Heals
    <3> QED BY <1>6, <2>4, <3>3
  <2> QED BY <2>8, <2>9
<1>8. CASE l = begun + 1 /\ Head(rest)[2] = 1 /\ k = Size(sent, begun)
  <2>0. 0 + 1 = 1 /\ 0 \in Nat /\ 1 \in Nat /\ l - 1 = begun /\ begun \in Nat
    BY <1>1, <1>8
  <2>1. Coming(l, 0)
    BY <1>2, <1>8, <2>0 DEF Coming
  <2>2. z >= 2 /\ IF 0 + 1 = z THEN Coming(l + 1, 0)' ELSE Coming(l, 0 + 1)'
    BY <1>1, <1>2, <1>6, <2>0, <2>1, ComingNext
  <2>3. z # 1
    <3>1. z >= 2
      BY <2>2
    <3> HIDE DEF z
    <3> QED BY <3>1
  <2>4. Coming(l, 1)'
    BY <2>0, <2>2, <2>3
  <2>5. ASSUME Clean(begun)
        PROVE  IF l = 1 THEN Level(app, FALSE) ELSE Righted(app, sent[begun], begun \in flushed)
    <3>1. Holds(k)
      BY <1>3, <2>5
    <3>2. CASE begun = 0
      <4>1. Calm(app, Idle, <<>>, <<>>)
        BY <3>1, <3>2 DEF Holds
      <4>2. Level(app, FALSE) /\ l = 1
        BY <1>8, <3>2, <4>1 DEF Calm, Level
      <4> QED BY <4>2
    <3>3. CASE begun # 0
      <4>1. After(app, sent[begun], Before(begun), begun \in flushed)
        BY <1>8, <3>1, <3>3 DEF Holds
      <4>2. Before(begun) \in Seq(Events)
        <5>1. begun - 1 \in 0 .. Len(sent)
          BY <1>1, <3>3
        <5>2. Before(begun) \in Seq(Messages)
          BY <1>1, <5>1, Prefix DEF Before
        <5>3. Messages \subseteq Events
          BY MessageEvent
        <5> QED BY <5>2, <5>3, SeqMonotonic
      <4>3. l # 1
        BY <2>0, <3>3
      <4> QED BY <4>1, <4>2, <4>3 DEF Righted
    <3> QED BY <3>2, <3>3
  <2>6. Strays(l, l, 1)'
    <3>1. (Clean(l - 1))' <=> Clean(l - 1)
      BY <1>5, <2>0
    <3>2. 1 # 0
      OBVIOUS
    <3>3. (Clean(l - 1))' <=> Clean(begun)
      BY <2>0, <3>1
    <3>4. ASSUME Clean(begun)
          PROVE  IF l = 1 THEN Level(app', FALSE) ELSE Righted(app', sent'[l - 1], l - 1 \in flushed')
      BY <1>2, <2>0, <2>5, <3>4
    <3> QED BY <3>2, <3>3, <3>4, Zenon DEF Strays
  <2>7. l + 1 .. l - 1 = {} /\ begun = l - 1 /\ flushed \subseteq 0 .. l - 1 /\ 1 >= 1
    BY <1>4, <1>6, <2>0
  <2>8. Heals(l, l, 1)'
    BY <1>2, <1>6, <2>4, <2>6, <2>7 DEF Heals
  <2> QED BY <1>6, <2>0, <2>8
<1> QED BY <1>4, <1>7, <1>8 DEF Follows

LEMMA HInvInit == Init => HInv
<1> SUFFICES ASSUME Init PROVE HInv
  OBVIOUS
<1>1. Len(lost) = 0
  BY DEF Init
<1> QED BY <1>1 DEF HInv

(* After the loss every step leads from one place to the next.             *)
LEMMA HInvNext == DInv /\ HInv /\ [Next]_vars => HInv'
<1> SUFFICES ASSUME DInv, HInv, [Next]_vars, Len(lost') = 1
             PROVE  \E l, n, k \in Nat : l = lost'[1] /\ Heals(l, n, k)'
  BY DEF HInv
<1>1. TypeOK /\ Ordered(rest, sent)
  BY DEF DInv
<1>2. CASE Lose
  <2> DEFINE l == Head(rest)[1]
             S == 1 .. Len(sent)
  <2>1. rest # <<>> /\ lost' = Append(lost, l)
    BY <1>2 DEF Lose
  <2>2. l \in S /\ lost \in Seq(S) /\ Len(sent) \in Nat
    BY <1>1, <2>1, TypeSound, OrderedHead DEF TypeOK
  <2>3. l \in Nat
    BY <2>2
  <2> HIDE DEF l, S
  <2>4. Len(lost) \in Nat /\ Len(lost') = Len(lost) + 1
        /\ \A i \in 1 .. Len(lost) + 1 : lost'[i] = IF i = Len(lost) + 1 THEN l ELSE lost[i]
    BY <2>1, <2>2, AppendAt
  <2>5. Len(lost) = 0 /\ lost'[1] = l
    BY <2>4
  <2>6. lost = <<>>
    BY <2>2, <2>5
  <2>7. PICK k \in Nat : InStep(k)
    BY <2>6 DEF DInv
  <2>8. PICK x \in Nat : x = l
    BY <2>3
  <2>9. x = Head(rest)[1]
    BY <2>8 DEF l
  <2>10. \E n, j \in Nat : Heals(x, n, j)'
    BY <1>1, <1>2, <2>7, <2>9, LoseHeals
  <2> QED BY <2>5, <2>8, <2>10
<1>3. CASE ~Lose
  <2>1. lost' = lost
    BY <1>3 DEF Next, Send, Receive, FlushTo, vars
  <2>2. PICK l \in Nat, n \in Nat, k \in Nat : l = lost[1] /\ Heals(l, n, k)
    BY <2>1 DEF HInv
  <2>3. l = lost'[1]
    BY <2>1, <2>2
  <2>4. ASSUME NEW m \in Messages, Send(m)
        PROVE  Heals(l, n, k)'
    BY <1>1, <2>2, <2>4, SendHeals
  <2>5. CASE Receive
    <3>1. \E i, j \in Nat : Heals(l, i, j)'
      BY <1>1, <2>2, <2>5, ReceiveHeals
    <3> QED BY <2>3, <3>1
  <2>6. ASSUME FlushTo(FlushRaw(app)) \/ FlushTo(FlushAll(app))
        PROVE  Heals(l, n, k)'
    BY <1>1, <2>2, <2>6, FlushHeals
  <2>7. ASSUME UNCHANGED vars
        PROVE  Heals(l, n, k)'
    BY <2>2, <2>7, ZenonT(60) DEF vars, Heals, Coming, Strays, Healed, Resumed, Leads, Clean, Starred
  <2> QED BY <1>3, <2>3, <2>4, <2>5, <2>6, <2>7 DEF Next
<1> QED BY <1>2, <1>3

LEMMA EndsWithIf ==
  ASSUME NEW S, NEW log \in Seq(S), NEW s \in Seq(S), NEW c \in 0 .. Len(s),
         Len(log) >= Len(s) - c,
         \A i \in c + 1 .. Len(s) : log[Len(log) - Len(s) + i] = s[i]
  PROVE  EndsWith(log, SubSeq(s, c + 1, Len(s)))
<1> DEFINE n == Len(s)
           z == Len(log)
           t == SubSeq(s, c + 1, n)
           u == SubSeq(log, z - (n - c) + 1, z)
<1>1. n \in Nat /\ z \in Nat /\ n - c \in Nat /\ z - (n - c) + 1 >= 1
  OBVIOUS
<1>2. t \in Seq(S) /\ Len(t) = n - c /\ \A i \in 1 .. n - c : t[i] = s[c + i]
  OBVIOUS
<1>3. u \in Seq(S) /\ Len(u) = n - c /\ \A i \in 1 .. n - c : u[i] = log[z - (n - c) + i]
  OBVIOUS
<1>4. \A i \in 1 .. n - c : u[i] = t[i]
  <2> SUFFICES ASSUME NEW i \in 1 .. n - c PROVE u[i] = t[i]
    OBVIOUS
  <2>1. c + i \in c + 1 .. n /\ z - n + (c + i) = z - (n - c) + i
    BY <1>1
  <2>2. log[z - n + (c + i)] = s[c + i]
    BY <2>1
  <2> QED BY <1>2, <1>3, <2>1, <2>2
<1> HIDE DEF t, u
<1>5. u = t
  BY <1>2, <1>3, <1>4, SeqEqual
<1> QED BY <1>1, <1>2, <1>5 DEF EndsWith, t, u, n, z

(* When the line is empty, what came behind the closing message is logged. *)
LEMMA HealedLogged == DInv /\ HInv => HealsAtCheck
<1> SUFFICES ASSUME DInv, HInv, NEW c \in 1 .. Len(sent),
                    rest = <<>>, Len(lost) = 1, \A n \in 1 .. Len(sent) : Plain(n),
                    sent[lost[1]].kind = "raw" => Len(sent[lost[1]].bytes) = 4,
                    lost[1] < c, Closes(sent[c]), \A n \in lost[1] .. c : ~Misleads(sent[n])
             PROVE  EndsWith(FlushAll(app).log, SubSeq(sent, c + 1, Len(sent)))
  BY DEF HealsAtCheck
<1> DEFINE z == Len(sent)
           g == FlushAll(app).log
<1>1. Sound(app) /\ sent \in Seq(Messages) /\ z \in Nat
  BY TypeSound DEF DInv
<1>2. PICK l \in Nat, n \in Nat, k \in Nat : l = lost[1] /\ Heals(l, n, k)
  BY DEF HInv
<1>3. /\ n = z + 1 /\ k = 0 /\ n - 1 = z
      /\ \A d \in l + 1 .. n - 1 : Closes(sent[d]) /\ Leads(l, d) => Healed(d, n, k)
  BY <1>1, <1>2 DEF Heals, Coming
<1>4. c \in l + 1 .. n - 1 /\ c \in Nat /\ c \in 0 .. z
  BY <1>1, <1>2, <1>3
<1>5. Leads(l, c)
  BY <1>2 DEF Leads
<1>6. Healed(c, n, 0)
  BY <1>3, <1>4, <1>5
<1>7. Clean(z)
  <2>1. ASSUME NEW d \in 1 .. z - 1
        PROVE  Pending(sent[d]) => d \in flushed
    <3>1. d \in 1 .. z /\ d < z
      BY <1>1
    <3> QED BY <3>1 DEF Plain, Cut, Pending
  <2>2. \A d \in 1 .. z : ~Starred(d)
    BY DEF Plain
  <2> QED BY <2>1, <2>2 DEF Clean
<1>8. g \in Seq(Events)
  <2>1. Sound(FlushAll(app))
    BY <1>1, FlushAllExtends DEF Extends
  <2> QED BY <2>1, SoundParts
<1> HIDE DEF g, z
<1>9. Resumed(c, z + 1, g)
  <2>1. CASE n = c + 1
    <3>1. z = c
      BY <1>1, <1>3, <1>4, <2>1
    <3> QED BY <1>4, <1>8, <3>1, ResumedStart
  <2>2. CASE n # c + 1
    <3>1. PICK log : Resumed(c, z, log) /\ After(app, sent[z], log, z \in flushed)
      BY <1>3, <1>6, <1>7, <2>2 DEF Healed
    <3>2. z \in 1 .. Len(sent) /\ c < z
      BY <1>1, <1>3, <1>4, <2>2 DEF z
    <3>3. sent[z] \in Messages
      BY <1>1, <3>2
    <3>4. (z \in flushed) = TRUE \/ (z \in flushed) = FALSE
      OBVIOUS
    <3>5. After(app, sent[z], log, TRUE) \/ After(app, sent[z], log, FALSE)
      BY <3>1, <3>4, Zenon
    <3>6. g = Append(log, sent[z])
      BY <3>3, <3>5, AfterFlush, ZenonT(60) DEF g
    <3>7. Resumed(c, z + 1, Append(log, sent[z]))
      BY <1>1, <1>4, <3>1, <3>2, ResumedGrows
    <3> QED BY <3>6, <3>7
  <2> QED BY <2>1, <2>2
<1>10. Len(g) >= z - c /\ \A i \in c + 1 .. z : g[Len(g) - z + i] = sent[i]
  <2>1. (z + 1) - 1 = z
    BY <1>1
  <2> QED BY <1>9, <2>1 DEF Resumed
<1>11. sent \in Seq(Events)
  <2>1. Messages \subseteq Events
    BY MessageEvent
  <2> QED BY <1>1, <2>1, SeqMonotonic
<1> QED BY <1>4, <1>8, <1>10, <1>11, EndsWithIf DEF g, z

(* However many messages follow it, a lost byte spoils the log no further  *)
(* than to the next message that closes a frame, if neither the message it *)
(* was lost from nor those up to that one mislead the raw detector.        *)
THEOREM HealsAtCheckHolds == Spec => []HealsAtCheck
BY DInvInit, DInvNext, HInvInit, HInvNext, HealedLogged, PTL DEF Spec

-----------------------------------------------------------------------------
(* The loop of main flushes only between two messages.                     *)

\* A byte on the line, with the number of its message and its place in it.
OnLine == Nat \X Nat \X Byte

\* The bytes on the line are in order, none older than the last one handled.
InOrder ==
  /\ rest \in Seq(OnLine)
  /\ begun \in 0 .. Len(sent)
  /\ \A i \in DOMAIN rest : rest[i][1] \in begun .. Len(sent)
  /\ \A i, j \in DOMAIN rest : i < j => rest[i][1] <= rest[j][1]

\* When half a message has been handled, the last byte has just been, or the
\* kernel has more and the loop reads it before it flushes.
Attends == Between \/ age = 0 \/ (arrived > 0 /\ pc # "flush")

LInv ==
  /\ sent \in Seq(Messages)
  /\ InOrder
  /\ arrived \in 0 .. Len(rest)
  /\ age \in Nat
  /\ Attends

-----------------------------------------------------------------------------
(* A step of the clock or of the loop that leaves the line alone.          *)
LEMMA LoopOnly ==
  ASSUME LInv, UNCHANGED vars, arrived' \in 0 .. Len(rest), age' \in Nat, Attends'
  PROVE  LInv'
BY DEF LInv, InOrder, Attends, Between, vars

(* A message is sent only to a line of which all has arrived.              *)
LEMMA SendsInOrder ==
  ASSUME LInv, NEW m \in Messages, Send(m)
  PROVE  /\ sent' \in Seq(Messages)
         /\ InOrder'
         /\ Len(rest) <= Len(rest')
         /\ Between => Between'
<1> DEFINE n == Len(sent) + 1
           new == Numbered(n, Wire(m))
<1>1. sent \in Seq(Messages) /\ rest \in Seq(OnLine)
  BY DEF LInv, InOrder
<1>2. Wire(m) \in Seq(Byte)
  BY MessageFacts
<1>3. new \in Seq(OnLine) /\ \A i \in DOMAIN new : new[i][1] = n
  <2>1. DOMAIN Wire(m) = 1 .. Len(Wire(m)) /\ Len(Wire(m)) \in Nat
    BY <1>2
  <2>2. \A i \in DOMAIN Wire(m) : Wire(m)[i] \in Byte
    BY <1>2
  <2>3. n \in Nat
    BY <1>1
  <2>4. new = [i \in 1 .. Len(Wire(m)) |-> <<n, i, Wire(m)[i]>>]
    BY <2>1 DEF Numbered
  <2>5. \A i \in 1 .. Len(Wire(m)) : <<n, i, Wire(m)[i]>> \in OnLine
    BY <2>1, <2>2, <2>3 DEF OnLine
  <2> HIDE DEF n, new
  <2> QED BY <2>1, <2>4, <2>5
<1>4. /\ sent' = Append(sent, m) /\ rest' = rest \o new /\ begun' = begun
      /\ sent' \in Seq(Messages) /\ Len(sent') = n
  BY <1>1 DEF Send
<1>5. n \in Nat /\ n = Len(sent) + 1 /\ begun \in 0 .. n - 1
  BY <1>1 DEF LInv, InOrder
<1>6. \A i \in DOMAIN rest : rest[i][1] \in begun .. n - 1
  BY <1>1 DEF LInv, InOrder
<1>7. \A i, j \in DOMAIN rest : i < j => rest[i][1] <= rest[j][1]
  BY DEF LInv, InOrder
<1> HIDE DEF new, n
<1>8. /\ rest' \in Seq(OnLine) /\ Len(rest') = Len(rest) + Len(new)
      /\ \A i \in DOMAIN rest' : \/ i \in DOMAIN rest /\ rest'[i] = rest[i]
                                 \/ i > Len(rest) /\ rest'[i][1] = n
  BY <1>1, <1>3, <1>4
<1>9. \A i \in DOMAIN rest' : rest'[i][1] \in begun .. n
  BY <1>5, <1>6, <1>8
<1>10. \A i, j \in DOMAIN rest' : i < j => rest'[i][1] <= rest'[j][1]
  <2> SUFFICES ASSUME NEW i \in DOMAIN rest', NEW j \in DOMAIN rest', i < j
               PROVE  rest'[i][1] <= rest'[j][1]
    OBVIOUS
  <2>1. CASE rest'[j][1] = n
    BY <2>1, <1>5, <1>9
  <2>2. CASE j \in DOMAIN rest /\ rest'[j] = rest[j]
    <3>1. i \in 1 .. Len(rest') /\ j \in 1 .. Len(rest)
      BY <1>1, <1>8, <2>2
    <3>2. i \in DOMAIN rest /\ rest'[i] = rest[i]
      BY <1>1, <1>8, <3>1
    <3> QED BY <1>7, <2>2, <3>2
  <2> QED BY <1>8, <2>1, <2>2
<1>11. InOrder'
  BY <1>4, <1>5, <1>8, <1>9, <1>10, SMTT(60) DEF InOrder
<1>12. rest # <<>> => rest' # <<>> /\ Head(rest') = Head(rest)
  BY <1>1, <1>3, <1>4
<1>13. rest = <<>> /\ rest' # <<>> => Head(rest')[1] = n
  BY <1>1, <1>3, <1>4
<1>14. Between => Between'
  BY <1>4, <1>5, <1>12, <1>13 DEF Between
<1> QED BY <1>1, <1>3, <1>4, <1>8, <1>11, <1>14

(* What follows a byte that has left the line is in order again, and of    *)
(* the same message or of none that has begun.                             *)
LEMMA TailInOrder ==
  ASSUME LInv, rest # <<>>, rest' = Tail(rest), sent' = sent,
         begun' = begun \/ begun' = Head(rest)[1]
  PROVE  InOrder' /\ Len(rest') = Len(rest) - 1 /\ (begun' = begun /\ Between => Between')
<1>1. /\ rest \in Seq(OnLine) /\ begun \in 0 .. Len(sent) /\ Len(sent) \in Nat
      /\ \A i \in DOMAIN rest : rest[i][1] \in begun .. Len(sent)
      /\ \A i, j \in DOMAIN rest : i < j => rest[i][1] <= rest[j][1]
  BY DEF LInv, InOrder
<1>2. /\ rest' \in Seq(OnLine) /\ Len(rest') = Len(rest) - 1 /\ Len(rest) >= 1
      /\ \A i \in DOMAIN rest' : i + 1 \in DOMAIN rest /\ rest'[i] = rest[i + 1]
      /\ 1 \in DOMAIN rest /\ Head(rest) = rest[1]
      /\ rest' # <<>> => 1 \in DOMAIN rest' /\ Head(rest') = rest'[1]
  BY <1>1
<1>3. \A i \in DOMAIN rest : i \in Nat
  BY <1>1
<1>4. \A i \in DOMAIN rest' : i \in Nat /\ rest'[i][1] \in begun .. Len(sent) /\ rest[1][1] <= rest'[i][1]
  <2> SUFFICES ASSUME NEW i \in DOMAIN rest' PROVE i \in Nat /\ rest'[i][1] \in begun .. Len(sent) /\ rest[1][1] <= rest'[i][1]
    OBVIOUS
  <2>1. i \in Nat /\ i >= 1
    BY <1>2
  <2>2. i + 1 \in DOMAIN rest /\ 1 < i + 1 /\ rest'[i] = rest[i + 1]
    BY <1>2, <2>1
  <2> QED BY <1>1, <1>2, <2>1, <2>2
<1>5. \A i, j \in DOMAIN rest' : i < j => rest'[i][1] <= rest'[j][1]
  <2> SUFFICES ASSUME NEW i \in DOMAIN rest', NEW j \in DOMAIN rest', i < j
               PROVE  rest'[i][1] <= rest'[j][1]
    OBVIOUS
  <2>1. i + 1 < j + 1
    BY <1>4
  <2> QED BY <1>1, <1>2, <2>1
<1>6. rest[1][1] \in begun .. Len(sent) /\ begun' \in 0 .. Len(sent)
  BY <1>1, <1>2
<1>7. \A i \in DOMAIN rest' : rest'[i][1] \in begun' .. Len(sent)
  BY <1>1, <1>2, <1>4, <1>6, SMTT(60)
<1>8. InOrder'
  BY <1>2, <1>5, <1>6, <1>7 DEF InOrder
<1>9. begun' = begun /\ Between => Between'
  <2> SUFFICES ASSUME begun' = begun, Between, rest' # <<>> PROVE Head(rest')[1] # begun
    BY DEF Between
  <2>1. rest[1][1] # begun /\ rest[1][1] <= rest'[1][1]
    BY <1>2, <1>4 DEF Between
  <2> QED BY <1>1, <1>2, <1>4, <1>6, <2>1
<1> QED BY <1>2, <1>8, <1>9

-----------------------------------------------------------------------------
LEMMA LInvInit == LoopInit => LInv
<1> SUFFICES ASSUME LoopInit PROVE LInv
  OBVIOUS
<1>1. sent = <<>> /\ rest = <<>> /\ begun = 0 /\ arrived = 0 /\ age = QuietAge
  BY DEF LoopInit, Init
<1>2. Len(sent) = 0 /\ Len(rest) = 0 /\ DOMAIN rest = {} /\ sent \in Seq(Messages) /\ rest \in Seq(OnLine)
  BY <1>1
<1> QED BY <1>1, <1>2, TimesAssumption DEF LInv, InOrder, Attends, Between

LEMMA LInvNext == LInv /\ [LoopNext]_allvars => LInv'
<1> SUFFICES ASSUME LInv, [LoopNext]_allvars PROVE LInv'
  OBVIOUS
<1>0. /\ sent \in Seq(Messages) /\ rest \in Seq(OnLine)
      /\ arrived \in 0 .. Len(rest) /\ age \in Nat /\ Len(rest) \in Nat
  BY DEF LInv, InOrder
<1>1. CASE Timers
  BY <1>0, <1>1, LoopOnly DEF Timers, LInv, Attends, Between, vars
<1>2. CASE PollWaits
  <2>1. rest = <<>>
    BY <1>0, <1>2 DEF PollWaits, Tick, Silent
  <2>2. age' \in Nat /\ Between'
    BY <1>0, <1>2, <2>1, TimesAssumption DEF PollWaits, Tick, Older, Between, vars
  <2> QED BY <1>0, <1>2, <2>2, LoopOnly DEF PollWaits, Tick, Attends
<1>3. CASE PollWakes
  BY <1>0, <1>3, LoopOnly DEF PollWakes, LInv, Attends, Between, vars
<1>4. CASE PollReturns
  BY <1>0, <1>4, LoopOnly DEF PollReturns, LInv, Attends, Between, vars
<1>5. CASE HandleByte
  <2>1. rest # <<>> /\ rest' = Tail(rest) /\ begun' = Head(rest)[1] /\ sent' = sent /\ age' = 0
    BY <1>5 DEF HandleByte, Receive
  <2>2. InOrder' /\ Len(rest') = Len(rest) - 1
    BY <2>1, TailInOrder
  <2>3. arrived' \in 0 .. Len(rest')
    BY <1>0, <1>5, <2>2 DEF HandleByte
  <2> QED BY <1>0, <2>1, <2>2, <2>3 DEF LInv, Attends
<1>6. CASE ReadEnds
  BY <1>0, <1>6, LoopOnly DEF ReadEnds, LInv, Attends, Between, vars
<1>7. CASE Flush
  <2>1. UNCHANGED <<sent, rest, begun, arrived, age>> /\ pc = "flush"
    BY <1>7 DEF Flush
  <2>2. Between' = Between
    BY <2>1 DEF Between
  <2>3. Attends'
    BY <2>1, <2>2 DEF LInv, Attends
  <2>4. InOrder'
    BY <2>1 DEF LInv, InOrder
  <2> QED BY <1>0, <2>1, <2>3, <2>4 DEF LInv
<1>8. CASE KeysStall
  <2>1. pc' = "keys" /\ arrived' = arrived /\ UNCHANGED vars /\ arrived = Len(rest)
    BY <1>8 DEF KeysStall, Tick, Silent
  <2>2. age' \in Nat
    BY <1>0, <1>8, TimesAssumption DEF KeysStall, Tick, Older
  <2>3. Attends'
    <3>1. CASE rest = <<>>
      BY <3>1, <2>1 DEF Attends, Between, vars
    <3>2. CASE rest # <<>>
      BY <3>2, <1>0, <2>1 DEF Attends
    <3> QED BY <3>1, <3>2
  <2> QED BY <1>0, <2>1, <2>2, <2>3, LoopOnly
<1>9. CASE KeysEnd
  BY <1>0, <1>9, LoopOnly DEF KeysEnd, LInv, Attends, Between, vars
<1>10. CASE PanelSends
  <2>1. PICK m \in Messages : Send(m)
    BY <1>10 DEF PanelSends
  <2>2. UNCHANGED loop /\ arrived = Len(rest)
    BY <1>10 DEF PanelSends, Silent
  <2>3. /\ sent' \in Seq(Messages) /\ InOrder' /\ Len(rest) <= Len(rest') /\ Len(rest') \in Nat
        /\ (Between => Between')
    BY <2>1, SendsInOrder DEF InOrder
  <2>4. Attends'
    BY <2>2, <2>3 DEF LInv, Attends, loop
  <2> QED BY <1>0, <2>2, <2>3, <2>4 DEF LInv, loop
<1>11. CASE Arrives
  <2>1. UNCHANGED vars /\ UNCHANGED <<pc, age>> /\ arrived' \in 0 .. Len(rest) /\ arrived' > arrived
    BY <1>0, <1>11 DEF Arrives
  <2>2. Between' = Between
    BY <2>1 DEF Between, vars
  <2>3. Attends'
    BY <1>0, <2>1, <2>2 DEF LInv, Attends
  <2> QED BY <1>0, <2>1, <2>3, LoopOnly
<1>12. CASE LineLoses
  <2>1. /\ rest # <<>> /\ rest' = Tail(rest) /\ sent' = sent /\ begun' = begun
        /\ arrived = 0 /\ UNCHANGED loop
    BY <1>12 DEF LineLoses, Lose
  <2>2. InOrder' /\ Len(rest') = Len(rest) - 1 /\ (Between => Between')
    BY <2>1, TailInOrder
  <2>3. Len(rest) >= 1
    BY <1>0, <2>1
  <2>4. Attends'
    BY <2>1, <2>2 DEF LInv, Attends, loop
  <2> QED BY <1>0, <2>1, <2>2, <2>3, <2>4 DEF LInv, loop
<1>13. CASE TestOn
  BY <1>0, <1>13, LoopOnly DEF TestOn, LInv, Attends, Between, vars
<1>14. CASE TestOff
  BY <1>0, <1>14, LoopOnly DEF TestOff, LInv, Attends, Between, vars
<1>15. CASE UNCHANGED allvars
  BY <1>0, <1>15, LoopOnly DEF allvars, loop, LInv, Attends, Between, vars
<1> QED
  BY <1>1, <1>2, <1>3, <1>4, <1>5, <1>6, <1>7, <1>8, <1>9, <1>10, <1>11, <1>12, <1>13, <1>14, <1>15
     DEF LoopNext, Round

-----------------------------------------------------------------------------
(* Every step of the loop is a step of the receiver, or leaves it alone.   *)
LEMMA StepImplements == LInv /\ [LoopNext]_allvars => [Next]_vars
<1> SUFFICES ASSUME LInv, [LoopNext]_allvars PROVE [Next]_vars
  OBVIOUS
<1>1. CASE Flush
  <2>1. CASE age >= RawAge
    <3>1. Between
      BY <1>1, <2>1, TimesAssumption DEF Flush, LInv, Attends
    <3>2. FlushTo(FlushBy(age))
      BY <1>1, <2>1, <3>1 DEF Flush, FlushTo
    <3>3. FlushBy(age) = FlushAll(app) \/ FlushBy(age) = FlushRaw(app)
      BY <2>1 DEF FlushBy
    <3>4. FlushTo(FlushAll(app)) \/ FlushTo(FlushRaw(app))
      BY <3>2, <3>3
    <3> QED BY <3>4 DEF Next
  <2>2. CASE ~(age >= RawAge)
    <3>1. FlushBy(age) = app
      BY <2>2, TimesAssumption DEF FlushBy, LInv
    <3> QED BY <1>1, <2>2, <3>1 DEF Flush, vars
  <2> QED BY <2>1, <2>2
<1>2. CASE HandleByte
  BY <1>2 DEF HandleByte, Next
<1>3. CASE PanelSends
  BY <1>3 DEF PanelSends, Next
<1>4. CASE LineLoses
  BY <1>4 DEF LineLoses, Next
<1>5. CASE PollWaits \/ KeysStall
  BY <1>5 DEF PollWaits, KeysStall, Tick
<1>6. CASE Timers \/ PollWakes \/ PollReturns \/ ReadEnds \/ KeysEnd
  BY <1>6 DEF Timers, PollWakes, PollReturns, ReadEnds, KeysEnd
<1>7. CASE Arrives \/ TestOn \/ TestOff
  BY <1>7 DEF Arrives, TestOn, TestOff
<1>8. CASE UNCHANGED allvars
  BY <1>8 DEF allvars
<1> QED
  BY <1>1, <1>2, <1>3, <1>4, <1>5, <1>6, <1>7, <1>8 DEF LoopNext, Round

(* The loop of main, with whatever stalls in its commands, keeps to the    *)
(* receiver that is checked in PnlcDemux: no flush cuts a message.         *)
THEOREM LoopImplements == LoopSpec => ImplementsDemux
<1>1. LoopInit => Init
  BY DEF LoopInit
<1>2. LInv /\ [LoopNext]_allvars => [Next]_vars
  BY StepImplements
<1> QED BY <1>1, <1>2, LInvInit, LInvNext, PTL DEF LoopSpec, ImplementsDemux, Spec

(* So what the receiver logs is the traffic in the program, too: neither   *)
(* its clock nor a command that stalls it cuts or joins messages, or keeps *)
(* the damage of a lost byte from ending.                                  *)
THEOREM LoopLogsTraffic == LoopSpec => []LogIsTraffic /\ []FrameAfterPending /\ []HealsAtCheck
BY LoopImplements, LogIsTrafficHolds, FrameAfterPendingHolds, HealsAtCheckHolds, PTL
   DEF ImplementsDemux

-----------------------------------------------------------------------------
(* The names of the PNLC's controls, for any number of controls held and   *)
(* any turns.                                                              *)

LEMMA ControlFacts ==
  ASSUME NEW x \in Controls
  PROVE  /\ \/ x.base = 0 /\ x.bit = 1
            \/ x.base = 16 /\ x.bit = 64
            \/ x.base = 8 /\ x.bit = 32
         /\ x.sel \in {87, 151, 23, 215} => x.base = 0 /\ x.bit = 1
         /\ x.name # NoName
<1>1. \/ x.base = 0 /\ x.bit = 1
      \/ x.base = 16 /\ x.bit = 64
      \/ x.base = 8 /\ x.bit = 32
  BY DEF Controls, Row
<1>2. x.sel \in {87, 151, 23, 215} => x.base = 0 /\ x.bit = 1
  BY DEF Controls, Row
<1>3. x.name # NoName
  BY DEF Controls, Row, NoName
<1> QED BY <1>1, <1>2, <1>3

(* No two rows of the tables are alike but for their names.                *)
LEMMA ControlKeys ==
  ASSUME NEW x \in Controls, NEW y \in Controls,
         x.sel = y.sel, x.base = y.base, x.bit = y.bit, x.qual = y.qual
  PROVE  x = y
BY DEF Controls, Row, None

LEMMA EncoderFacts ==
  ASSUME NEW e \in Encoders
  PROVE  e.sel \in {87, 151, 23, 215} /\ \A f \in Encoders : f.sel = e.sel /\ f.qual = e.qual => f = e
BY DEF Encoders, Encoder, None

LEMMA OneName == \A x : NameIn({x}) = x.name
BY DEF NameIn

(* A report of a control is found in the table by its own row.             *)
LEMMA LookupFinds ==
  ASSUME NEW x \in Controls, NEW state, NEW d, d.base = x.base, d.bit = x.bit
  PROVE  Lookup(Report(x.sel, state, x.qual), d) = x.name
<1> DEFINE r == Report(x.sel, state, x.qual)
           rows == {y \in Controls : y.sel = r.selector /\ y.base = d.base /\ y.bit = d.bit}
           same == {y \in rows : y.qual = r.qual}
<1>1. r.selector = x.sel /\ r.qual = x.qual /\ ~r.direct
  BY DEF Report
<1>2. same = {x}
  BY <1>1, ControlKeys
<1>3. Lookup(r, d) = NameIn(same)
  BY <1>1, <1>2 DEF Lookup
<1> QED BY <1>2, <1>3, OneName

LEMMA PressDecodes ==
  ASSUME NEW x \in Controls, NEW sel, NEW qual
  PROVE  Decode(Report(sel, x.base + x.bit, qual))
           = [ok |-> TRUE, base |-> x.base, bit |-> x.bit, pressed |-> TRUE]
<1> DEFINE r == Report(sel, x.base + x.bit, qual)
           set == {b \in {64, 32, 1} : Bit(r.state, b)}
<1>1. r.state = x.base + x.bit /\ ~r.direct
  BY DEF Report
<1>2. set = {x.bit}
  <2>1. CASE x.base = 0 /\ x.bit = 1
    BY <1>1, <2>1 DEF Bit
  <2>2. CASE x.base = 16 /\ x.bit = 64
    BY <1>1, <2>2 DEF Bit
  <2>3. CASE x.base = 8 /\ x.bit = 32
    BY <1>1, <2>3 DEF Bit
  <2> QED BY <2>1, <2>2, <2>3, ControlFacts
<1>3. x.bit \in Nat /\ x.base \in Nat
  BY ControlFacts
<1> DEFINE top == CHOOSE b \in set : \A c \in set : c <= b
<1>4. top = x.bit
  BY <1>2, <1>3
<1>5. Decode(r) = [ok |-> TRUE, base |-> r.state - top, bit |-> top, pressed |-> TRUE]
  <2>1. set # {}
    BY <1>2
  <2> QED BY <1>1, <2>1 DEF Decode
<1> HIDE DEF top, set
<1>6. r.state - top = x.base
  BY <1>1, <1>3, <1>4
<1> QED BY <1>4, <1>5, <1>6

LEMMA ReleaseDecodes ==
  ASSUME NEW x \in Controls, NEW sel, NEW qual
  PROVE  Decode(Report(sel, x.base, qual))
           = [ok |-> TRUE, base |-> x.base, bit |-> x.bit, pressed |-> FALSE]
<1> DEFINE r == Report(sel, x.base, qual)
           set == {b \in {64, 32, 1} : Bit(r.state, b)}
<1>1. r.state = x.base /\ ~r.direct
  BY DEF Report
<1>2. set = {}
  BY <1>1, ControlFacts DEF Bit
<1>3. CASE x.base = 16 /\ x.bit = 64
  BY <1>1, <1>2, <1>3 DEF Decode
<1>4. CASE x.base = 8 /\ x.bit = 32
  BY <1>1, <1>2, <1>4 DEF Decode
<1>5. CASE x.base = 0 /\ x.bit = 1
  BY <1>1, <1>2, <1>5 DEF Decode
<1> QED BY <1>3, <1>4, <1>5, ControlFacts

(* The line and the memory after the report of a button or a touch.        *)
ButtonLine(name, pressed) ==
  /\ line' = Line("button", Shown(name, pressed), pressed, 0)
  /\ last' = Remembered(Shown(name, pressed), pressed)

(* A press is remembered; the release of another control changes nothing.  *)
LEMMA RememberedPress ==
  ASSUME NEW name, name # NoName
  PROVE  /\ Shown(name, TRUE) = name
         /\ Remembered(name, TRUE) = name
         /\ Shown(name, FALSE) = name \/ (Shown(name, FALSE) = last /\ <<name, last>> \in Alias)
<1>1. Shown(name, TRUE) = name
  BY DEF Shown
<1>2. Remembered(name, TRUE) = name
  BY DEF Remembered
<1>3. Shown(name, FALSE) = name \/ (Shown(name, FALSE) = last /\ <<name, last>> \in Alias)
  BY DEF Shown
<1> QED BY <1>1, <1>2, <1>3

LEMMA RememberedOthers ==
  ASSUME NEW name, name # last
  PROVE  Remembered(name, FALSE) = last
BY Zenon DEF Remembered

LEMMA LogsControl ==
  ASSUME NEW x \in Controls, NEW pressed \in BOOLEAN,
         Log(Report(x.sel, IF pressed THEN x.base + x.bit ELSE x.base, x.qual))
  PROVE  ButtonLine(x.name, pressed)
<1> DEFINE state == IF pressed THEN x.base + x.bit ELSE x.base
           r == Report(x.sel, state, x.qual)
           d == Decode(r)
<1>1. d = [ok |-> TRUE, base |-> x.base, bit |-> x.bit, pressed |-> pressed]
  BY PressDecodes, ReleaseDecodes
<1>2. d.ok /\ d.pressed = pressed /\ Lookup(r, d) = x.name
  BY <1>1, LookupFinds
<1>3. ~IsMotion(r)
  BY ControlFacts DEF IsMotion, Report
<1>4. ~r.direct
  BY DEF Report
<1>5. x.name # NoName
  BY ControlFacts
<1> HIDE DEF d, r
<1>7. /\ line' = Line("button", Shown(x.name, pressed), pressed, 0)
      /\ last' = Remembered(Shown(x.name, pressed), pressed)
  BY <1>2, <1>3, <1>4, <1>5 DEF Log, r, d
<1> QED BY <1>7 DEF ButtonLine

LEMMA LogsDirect ==
  ASSUME NEW id \in 0 .. Len(DirectNames) - 1, NEW state \in {0, 1},
         Log(DirectReport(id, state))
  PROVE  /\ line' = Line("button", DirectNames[id + 1], state = 1, 0)
         /\ last' = Remembered(DirectNames[id + 1], state = 1)
         /\ DirectNames[id + 1] # NoName
<1> DEFINE r == DirectReport(id, state)
           d == Decode(r)
<1>1. r.direct /\ r.selector = id /\ r.state = state
  BY DEF DirectReport
<1>2. d.ok /\ d.pressed = (state = 1)
  BY <1>1 DEF Decode
<1>3. Lookup(r, d) = DirectNames[id + 1]
  BY <1>1 DEF Lookup, DirectNames
<1>4. DirectNames[id + 1] # NoName
  <2>1. id + 1 \in {1, 2, 3, 4, 5, 6, 7, 8, 9}
    BY DEF DirectNames
  <2>2. \A i \in {1, 2, 3, 4, 5, 6, 7, 8, 9} : DirectNames[i] # NoName
    BY DEF DirectNames, NoName
  <2> QED BY <2>1, <2>2
<1>5. ~IsMotion(r)
  BY <1>1 DEF IsMotion
<1> HIDE DEF d, r
<1> QED BY <1>1, <1>2, <1>3, <1>4, <1>5 DEF Log, r, d

(* A turn is logged with its size when its state is decoded at all.        *)
LEMMA LogsTurn ==
  ASSUME NEW e \in Encoders, NEW delta \in (-128 .. 127) \ {0, 1},
         Log(Report(e.sel, delta % 256, e.qual))
  PROVE  /\ \/ line' = Line("motion", e.name, FALSE, delta)
            \/ delta \notin -97 .. -1 /\ line'.kind = "unknown"
         /\ last' = last
<1> DEFINE r == Report(e.sel, delta % 256, e.qual)
           d == Decode(r)
           set == {b \in {64, 32, 1} : Bit(r.state, b)}
<1>1. /\ r.state = IF delta >= 0 THEN delta ELSE delta + 256
      /\ r.state \in 2 .. 255
      /\ ~r.direct /\ r.selector = e.sel /\ r.qual = e.qual
  BY DEF Report
<1>2. IsMotion(r)
  BY <1>1, EncoderFacts, SMTT(60) DEF IsMotion
<1>3. Delta(r) = delta
  BY <1>1 DEF Delta
<1>4. NameIn({y \in Encoders : y.sel = r.selector /\ y.qual = r.qual}) = e.name
  <2>1. {y \in Encoders : y.sel = r.selector /\ y.qual = r.qual} = {e}
    BY <1>1, EncoderFacts, SMTT(60)
  <2> QED BY <2>1, OneName
<1>5. ASSUME delta \in -97 .. -1
      PROVE  d.ok
  <2>1. CASE r.state = 159
    <3>1. 1 \in set
      BY <2>1, SMTT(60) DEF Bit
    <3> QED BY <1>1, <3>1 DEF Decode
  <2>2. CASE r.state \in 160 .. 191
    <3>1. r.state \div 32 = 5
      BY <2>2
    <3>2. 32 \in set
      BY <3>1, SMTT(60) DEF Bit
    <3> QED BY <1>1, <3>2 DEF Decode
  <2>3. CASE r.state \in 192 .. 255
    <3>1. r.state \div 64 = 3
      BY <2>3
    <3>2. 64 \in set
      BY <3>1 DEF Bit
    <3> QED BY <1>1, <3>2 DEF Decode
  <2> QED BY <1>1, <1>5, <2>1, <2>2, <2>3, SMTT(60)
<1> HIDE DEF d, r
<1>6. CASE d.ok
  <2>1. line' = Line("motion", e.name, FALSE, delta)
    BY <1>2, <1>3, <1>4, <1>6, ZenonT(60) DEF Log, r, d
  <2>2. last' = last
    BY <1>2, <1>6, ZenonT(60) DEF Log, r, d
  <2> QED BY <2>1, <2>2
<1>7. CASE ~d.ok
  <2>1. line' = Line("unknown", NoName, d.pressed, 0)
    BY <1>7, ZenonT(60) DEF Log, r, d, Shown
  <2>2. last' = Remembered(NoName, d.pressed)
    BY <1>7, ZenonT(60) DEF Log, r, d, Shown
  <2>3. Remembered(NoName, d.pressed) = last
    BY DEF Remembered
  <2> QED BY <1>5, <1>7, <2>1, <2>2, <2>3 DEF Line
<1> QED BY <1>6, <1>7

(* One step to the right is the press of the encoder's touch.              *)
LEMMA LogsStep ==
  ASSUME NEW e \in Encoders, Log(Report(e.sel, 1 % 256, e.qual))
  PROVE  \E touch \in TouchNames :
           touch[1] = e.name /\ line' = Line("button", touch[2], TRUE, 0)
<1>1. PICK x \in Controls : /\ x.sel = e.sel /\ x.base = 0 /\ x.bit = 1 /\ x.qual = e.qual
                            /\ <<e.name, x.name>> \in TouchNames
  BY DEF Encoders, Encoder, Controls, Row, TouchNames
<1>2. Log(Report(x.sel, IF TRUE THEN x.base + x.bit ELSE x.base, x.qual))
  <2>1. 1 % 256 = 1 /\ x.base + x.bit = 1
    BY <1>1
  <2> QED BY <1>1, <2>1
<1>3. line' = Line("button", Shown(x.name, TRUE), TRUE, 0)
  BY <1>2, LogsControl DEF ButtonLine
<1>4. Shown(x.name, TRUE) = x.name
  BY DEF Shown
<1> QED BY <1>1, <1>3, <1>4

-----------------------------------------------------------------------------
(* The control pressed last is held and remembered, until it or its sibling *)
(* is released.                                                             *)
FreshInv == fresh # NoName => fresh \in held /\ last = fresh

LEMMA FreshNext == FreshInv /\ [NamesNext]_nameVars => FreshInv'
<1> SUFFICES ASSUME FreshInv, [NamesNext]_nameVars
             PROVE  FreshInv'
  OBVIOUS
<1>1. ASSUME NEW x \in Controls, Press(x)
      PROVE  FreshInv'
  <2>1. Log(Report(x.sel, IF TRUE THEN x.base + x.bit ELSE x.base, x.qual))
    BY <1>1 DEF Press
  <2>2. last' = x.name
    BY <2>1, LogsControl, ControlFacts, RememberedPress DEF ButtonLine
  <2> QED BY <1>1, <2>2 DEF Press, FreshInv
<1>2. ASSUME NEW id \in 0 .. Len(DirectNames) - 1, PressDirect(id)
      PROVE  FreshInv'
  <2>1. last' = Remembered(DirectNames[id + 1], 1 = 1) /\ DirectNames[id + 1] # NoName
    BY <1>2, LogsDirect DEF PressDirect
  <2>2. last' = DirectNames[id + 1]
    BY <2>1, RememberedPress
  <2> QED BY <1>2, <2>2 DEF PressDirect, FreshInv
<1>3. ASSUME NEW x \in Controls, Release(x)
      PROVE  FreshInv'
  <2>1. held' = held \ {x.name} /\ fresh' = FreshAfter(x.name)
    BY <1>3 DEF Release
  <2>2. SUFFICES ASSUME fresh' # NoName
                 PROVE  fresh' \in held' /\ last' = fresh'
    BY DEF FreshInv
  <2>3. fresh' = fresh /\ x.name # fresh /\ ~Sibling(x.name, fresh)
    BY <2>1, <2>2 DEF FreshAfter
  <2>4. fresh \in held /\ last = fresh
    BY <2>2, <2>3 DEF FreshInv
  <2>5. PICK y \in Controls :
          /\ y = x \/ <<y.name, x.name>> \in Alias
          /\ y.sel = x.sel /\ y.base = x.base /\ y.bit = x.bit
          /\ Log(Report(x.sel, x.base, y.qual))
    BY <1>3 DEF Release
  <2>6. Log(Report(y.sel, IF FALSE THEN y.base + y.bit ELSE y.base, y.qual))
    BY <2>5
  <2>7. last' = Remembered(Shown(y.name, FALSE), FALSE)
    BY <2>6, LogsControl DEF ButtonLine
  <2>8. y.name # last /\ <<y.name, last>> \notin Alias
    <3>1. CASE y = x
      BY <2>3, <2>4, <3>1 DEF Sibling
    <3>2. CASE <<y.name, x.name>> \in Alias
      <4>1. y.name # last
        BY <2>3, <2>4, <3>2 DEF Sibling
      <4>2. <<y.name, last>> \in Alias => last = x.name
        BY <3>2 DEF Alias
      <4> QED BY <2>3, <2>4, <4>1, <4>2
    <3> QED BY <2>5, <3>1, <3>2
  <2>9. Shown(y.name, FALSE) # last
    BY <2>8, ControlFacts, RememberedPress
  <2>10. last' = last
    BY <2>7, <2>9, RememberedOthers
  <2> QED BY <2>1, <2>3, <2>4, <2>10
<1>4. ASSUME NEW id \in 0 .. Len(DirectNames) - 1, ReleaseDirect(id)
      PROVE  FreshInv'
  <2>1. held' = held \ {DirectNames[id + 1]} /\ fresh' = FreshAfter(DirectNames[id + 1])
    BY <1>4 DEF ReleaseDirect
  <2>2. SUFFICES ASSUME fresh' # NoName
                 PROVE  fresh' \in held' /\ last' = fresh'
    BY DEF FreshInv
  <2>3. fresh' = fresh /\ DirectNames[id + 1] # fresh
    BY <2>1, <2>2 DEF FreshAfter
  <2>4. fresh \in held /\ last = fresh
    BY <2>2, <2>3 DEF FreshInv
  <2>5. last' = Remembered(DirectNames[id + 1], 0 = 1)
    BY <1>4, LogsDirect DEF ReleaseDirect
  <2>6. (0 = 1) = FALSE
    OBVIOUS
  <2>7. last' = Remembered(DirectNames[id + 1], FALSE)
    BY <2>5, <2>6, Zenon
  <2>8. last' = last
    BY <2>3, <2>4, <2>7, RememberedOthers
  <2> QED BY <2>1, <2>3, <2>4, <2>8
<1>5. ASSUME NEW e \in Encoders, NEW delta \in Turns, Turn(e, delta)
      PROVE  FreshInv'
  <2>1. CASE delta = 1
    BY <1>5, <2>1 DEF Turn, FreshInv
  <2>2. CASE delta # 1
    <3>1. delta \in (-128 .. 127) \ {0, 1}
      BY <2>2, PldcAssumption
    <3>2. last' = last
      BY <1>5, <3>1, LogsTurn DEF Turn
    <3> QED BY <1>5, <2>2, <3>2 DEF Turn, FreshInv
  <2> QED BY <2>1, <2>2
<1>6. CASE UNCHANGED nameVars
  BY <1>6 DEF nameVars, FreshInv
<1> QED BY <1>1, <1>2, <1>3, <1>4, <1>5, <1>6 DEF NamesNext

LEMMA ReleaseIsNamed ==
  ASSUME FreshInv, fresh # NoName, held' = held \ {fresh}, [NamesNext]_nameVars
  PROVE  line' = Line("button", fresh, FALSE, 0)
<1>1. fresh \in held /\ last = fresh
  BY DEF FreshInv
<1>2. ASSUME NEW x \in Controls, Release(x)
      PROVE  line' = Line("button", fresh, FALSE, 0)
  <2>1. x.name = fresh
    BY <1>1, <1>2 DEF Release
  <2>2. PICK y \in Controls :
          /\ y = x \/ <<y.name, x.name>> \in Alias
          /\ y.sel = x.sel /\ y.base = x.base /\ y.bit = x.bit
          /\ Log(Report(x.sel, x.base, y.qual))
    BY <1>2 DEF Release
  <2>3. Log(Report(y.sel, IF FALSE THEN y.base + y.bit ELSE y.base, y.qual))
    BY <2>2
  <2>4. line' = Line("button", Shown(y.name, FALSE), FALSE, 0)
    BY <2>3, LogsControl DEF ButtonLine
  <2>5. Shown(y.name, FALSE) = fresh
    BY <1>1, <2>1, <2>2 DEF Shown
  <2> QED BY <2>4, <2>5
<1>3. ASSUME NEW id \in 0 .. Len(DirectNames) - 1, ReleaseDirect(id)
      PROVE  line' = Line("button", fresh, FALSE, 0)
  <2>1. DirectNames[id + 1] = fresh
    BY <1>1, <1>3 DEF ReleaseDirect
  <2>2. line' = Line("button", DirectNames[id + 1], 0 = 1, 0)
    BY <1>3, LogsDirect DEF ReleaseDirect
  <2>3. (0 = 1) = FALSE
    OBVIOUS
  <2> QED BY <2>1, <2>2, <2>3, Zenon
<1>4. \A x \in Controls : ~Press(x)
  BY <1>1 DEF Press
<1>5. \A id \in 0 .. Len(DirectNames) - 1 : ~PressDirect(id)
  BY <1>1 DEF PressDirect
<1>6. \A e \in Encoders, delta \in Turns : ~Turn(e, delta)
  BY <1>1 DEF Turn
<1>7. ~UNCHANGED nameVars
  BY <1>1 DEF nameVars
<1> QED BY <1>2, <1>3, <1>4, <1>5, <1>6, <1>7 DEF NamesNext

(* However many controls are held, the control pressed last is released     *)
(* under the name it was pressed with, although the release report may be   *)
(* that of its sibling: whatever is turned and released in between, but its *)
(* sibling and a single step to the right.                                  *)
THEOREM ReleasedByNameHolds == NamesSpec => ReleasedByName
<1>1. NamesInit => FreshInv
  BY DEF NamesInit, FreshInv
<1>2. FreshInv /\ [NamesNext]_nameVars
        => [fresh # NoName /\ held' = held \ {fresh}
              => line' = Line("button", fresh, FALSE, 0)]_nameVars
  BY ReleaseIsNamed
<1> QED BY <1>1, <1>2, FreshNext, PTL DEF NamesSpec, ReleasedByName

(* No turn to the left of up to 97 steps is lost or taken for another, one  *)
(* step to the right is a touch of its encoder, and no other turn is logged *)
(* with a wrong size or as another control.                                 *)
THEOREM TurnsLoggedHolds == NamesSpec => []TurnsLogged
<1>1. NamesInit => TurnsLogged
  BY DEF NamesInit, TurnsLogged
<1>2. TurnsLogged /\ [NamesNext]_nameVars => TurnsLogged'
  <2> SUFFICES ASSUME TurnsLogged, [NamesNext]_nameVars
               PROVE  TurnsLogged'
    OBVIOUS
  <2>1. ASSUME NEW e \in Encoders, NEW delta \in Turns, Turn(e, delta)
        PROVE  TurnsLogged'
    <3>1. turned' = [name |-> e.name, delta |-> delta]
      BY <2>1 DEF Turn
    <3>2. turned'.name = e.name /\ turned'.delta = delta
      BY <3>1
    <3>3. CASE delta = 1
      <4>1. Log(Report(e.sel, 1 % 256, e.qual))
        BY <2>1, <3>3 DEF Turn
      <4> QED BY <3>2, <3>3, <4>1, LogsStep DEF TurnsLogged
    <3>4. CASE delta # 1
      <4>1. delta \in (-128 .. 127) \ {0, 1}
        BY <3>4, PldcAssumption
      <4>2. \/ line' = Line("motion", e.name, FALSE, delta)
            \/ delta \notin -97 .. -1 /\ line'.kind = "unknown"
        BY <2>1, <4>1, LogsTurn, ZenonT(60) DEF Turn
      <4> QED BY <3>2, <3>4, <4>2 DEF TurnsLogged
    <3> QED BY <3>3, <3>4
  <2>2. CASE turned' = NotTurned
    BY <2>2 DEF TurnsLogged, NotTurned
  <2>3. CASE UNCHANGED nameVars
    BY <2>3 DEF nameVars, TurnsLogged
  <2> QED
    BY <2>1, <2>2, <2>3 DEF NamesNext, Press, Release, PressDirect, ReleaseDirect
<1> QED BY <1>1, <1>2, PTL DEF NamesSpec
=============================================================================
