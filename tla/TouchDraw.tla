----------------------------- MODULE TouchDraw ------------------------------
(***************************************************************************)
(* wing_draw.c: a finger on the touch panel, the two decoders that share   *)
(* the panel's line, and the drawing and calibration state they drive.     *)
(*                                                                         *)
(* The panel reports in stock frames ('p' and 't', read by a copy of the   *)
(* frame parser) and in raw reports (2A type coordinates).  A raw report   *)
(* has no end mark and wing-draw no timer: it is acted on when the next    *)
(* raw report starts.  Keys arrive on the serial console between any two   *)
(* bytes.  In the model the n-th contact of a finger is at column n, so a  *)
(* point tells which contact it belongs to.                                *)
(***************************************************************************)
EXTENDS WingParser, SequencesExt

CONSTANTS Points,         \* CALIBRATION_POINTS: 5 in the code
          RawWidth,       \* app.raw_width
          RawHeight,      \* app.raw_height
          Rows,           \* rows a finger may touch
          Protocols,      \* sets of protocols a panel may speak
          MaxContacts     \* bound: contacts in one behaviour

ASSUME TouchConstants == /\ Points \in Nat \ {0} /\ MaxPayload >= 5
                         /\ RawWidth \in 1 .. 4096 /\ MaxContacts \in 1 .. RawWidth - 1
                         /\ RawHeight \in 1 .. 4096 /\ Rows \subseteq 0 .. RawHeight - 1
                         /\ Protocols \subseteq SUBSET {"stock", "raw"}

BufSize   == 256          \* sizeof(decoder->buf)
RawTypes  == {65, 129, 1, 225}
PointCmd  == 112          \* 'p'
StateCmd  == 116          \* 't'

Point == [x : 0 .. 4095, y : 0 .. 4095]
None  == [x |-> 0, y |-> 0]

VARIABLES stock,          \* struct stock_touch_decoder
          raw,            \* struct touch_decoder
          star,           \* pending_frame_star
          app,            \* struct app_state
          contact,        \* contacts so far
          down,           \* the finger is on the panel
          speaks,         \* protocols this panel uses
          rest            \* bytes on the line

vars == <<stock, raw, star, app, contact, down, speaks, rest>>

Decoder == [in_frame : BOOLEAN, pending_star : BOOLEAN, type : Byte, buf : Seq(Byte)]

\* drawn: the last mark on the screen, from and to; shown: contacts begun when
\* the current target was drawn; tap: contact of the last sample taken.
App == [touching : BOOLEAN, last : Point, suppress : BOOLEAN,
        active : BOOLEAN, waiting_release : BOOLEAN, index : 0 .. Points,
        samples : [1 .. Points -> [at : Point, shown : Nat]],
        drawn : Seq(Point), shown : Nat, tap : Nat]

TypeOK ==
  /\ stock \in Parser
  /\ raw \in Decoder /\ Len(raw.buf) <= BufSize
  /\ star \in BOOLEAN
  /\ app \in App /\ Len(app.drawn) <= 2
  /\ contact \in 0 .. MaxContacts /\ down \in BOOLEAN
  /\ speaks \in Protocols
  /\ rest \in Seq(Byte)

Empty == [in_frame |-> FALSE, pending_star |-> FALSE, type |-> 0, buf |-> <<>>]

Init ==
  /\ stock = Idle /\ raw = Empty /\ star = FALSE
  /\ app = [touching |-> FALSE, last |-> None, suppress |-> FALSE,
            active |-> FALSE, waiting_release |-> FALSE, index |-> 0,
            samples |-> [i \in 1 .. Points |-> [at |-> None, shown |-> 0]],
            drawn |-> <<>>, shown |-> 0, tap |-> 0]
  /\ contact = 0 /\ down = FALSE
  /\ speaks \in Protocols
  /\ rest = <<>>

-----------------------------------------------------------------------------
(* Touches.  Each operator is the app after one call.                      *)

\* The target drawn clears the screen.
ShowTarget(a) == [a EXCEPT !.drawn = <<>>, !.shown = contact]

\* Does not wait for the release of the last tap.
FinishAtOnce(a) ==
  [a EXCEPT !.active = FALSE, !.waiting_release = FALSE, !.touching = FALSE,
            !.drawn = <<>>]

\* finish_touch_calibration; whether the equations can be solved only
\* decides which coefficients are used from now on.
Finish(a) ==
  [a EXCEPT !.active = FALSE, !.waiting_release = FALSE, !.touching = FALSE,
            !.suppress = TRUE, !.drawn = <<>>]

\* Takes a sample from every report.
CaptureAlways(a, p) ==
  LET next == [a EXCEPT !.index = @ + 1, !.waiting_release = TRUE, !.tap = p.x,
                        !.samples[a.index + 1] = [at |-> p, shown |-> a.shown]]
  IN  IF next.index >= Points THEN Finish(next) ELSE next

Capture(a, p) ==
  LET next == [a EXCEPT !.index = @ + 1, !.waiting_release = TRUE, !.tap = p.x,
                        !.samples[a.index + 1] = [at |-> p, shown |-> a.shown]]
  IN  IF a.waiting_release THEN a
      ELSE IF next.index >= Points THEN Finish(next)
      ELSE next

\* handle_touch_point
Touch(a, p) ==
  IF a.active        THEN Capture(a, p)
  ELSE IF a.suppress THEN a
  ELSE [a EXCEPT !.drawn = IF a.touching THEN <<a.last, p>> ELSE <<p>>,
                 !.touching = TRUE, !.last = p]

\* Leaves the stroke open.
ReleaseKeepsTouching(a) ==
  LET next == [a EXCEPT !.suppress = FALSE]
  IN  IF a.active /\ a.waiting_release
        THEN ShowTarget([next EXCEPT !.waiting_release = FALSE])
        ELSE next

\* handle_touch_release; an active calibration still has a target to show.
Release(a) ==
  LET next == [a EXCEPT !.suppress = FALSE, !.touching = FALSE]
  IN  IF a.active /\ a.waiting_release
        THEN ShowTarget([next EXCEPT !.waiting_release = FALSE])
        ELSE next

-----------------------------------------------------------------------------
(* The stock decoder: stock_touch_decoder_feed_byte is wing_parser_feed.   *)

Word(lo, hi) == lo + 256 * hi

\* Ignores the check byte.
HandleUnchecked(a, d, check) ==
  LET p == [x |-> Word(d.payload[2], d.payload[3]),
            y |-> Word(d.payload[4], d.payload[5])]
  IN  IF d.cmd = PointCmd /\ Len(d.payload) = 5
        THEN IF p.x >= RawWidth \/ p.y >= RawHeight THEN a
             ELSE IF d.payload[1] = 0               THEN Release(a)
             ELSE IF d.payload[1] \in {16, 32}      THEN Touch(a, p)
             ELSE a
      ELSE IF d.cmd = StateCmd /\ Len(d.payload) = 2 /\ d.payload[2] = 0 THEN Release(a)
      ELSE a

HandleFrame(a, d, check) ==
  LET p == [x |-> Word(d.payload[2], d.payload[3]),
            y |-> Word(d.payload[4], d.payload[5])]
  IN  IF check # Checksum(d.payload) THEN a
      ELSE IF d.cmd = PointCmd /\ Len(d.payload) = 5
        THEN IF p.x >= RawWidth \/ p.y >= RawHeight THEN a
             ELSE IF d.payload[1] = 0               THEN Release(a)
             ELSE IF d.payload[1] \in {16, 32}      THEN Touch(a, p)
             ELSE a
      ELSE IF d.cmd = StateCmd /\ Len(d.payload) = 2 /\ d.payload[2] = 0 THEN Release(a)
      ELSE a

(* The raw decoder.                                                        *)

\* flush_touch_decoder, which acts on the report collected so far.
Flushed(a, d) ==
  IF ~d.in_frame THEN a
  ELSE IF d.type \in {65, 129}
    THEN IF Len(d.buf) < 3 THEN a
         ELSE Touch(a, [x |-> 16 * d.buf[1] + d.buf[2] \div 16,
                        y |-> 256 * (d.buf[2] % 16) + d.buf[3]])
  ELSE IF d.type = 1 THEN Release(a)
  ELSE a

Collected(d, bytes) ==
  IF d.in_frame /\ Len(d.buf) + Len(bytes) <= BufSize
    THEN [d EXCEPT !.pending_star = FALSE, !.buf = @ \o bytes]
    ELSE [d EXCEPT !.pending_star = FALSE]

\* touch_decoder_feed_byte: what it leaves in the decoder.
RawFeed(d, b) ==
  IF d.pending_star /\ b \in RawTypes
    THEN [in_frame |-> TRUE, pending_star |-> FALSE, type |-> b, buf |-> <<>>]
  ELSE IF d.pending_star THEN Collected(d, <<Star, b>>)
  ELSE IF b = Star       THEN [d EXCEPT !.pending_star = TRUE]
  ELSE Collected(d, <<b>>)

-----------------------------------------------------------------------------
(* feed_touch_stream: which decoder the byte b is for.                     *)

FrameCommand(b) == b \in 32 .. 126 /\ b \notin RawTypes

\* A star and b open a stock frame.
OpenFrame(b) == stock' = Feed(Feed(stock, Star), b)

InsideFrame(b) ==
  /\ stock.in_frame
  /\ stock' = Feed(stock, b)
  /\ app' = IF Emits(stock, b) THEN HandleFrame(app, stock, b) ELSE app
  /\ UNCHANGED <<raw, star>>

InsideReport == ~stock.in_frame /\ (raw.in_frame \/ raw.pending_star)

\* A stock frame ends the raw report, which is dropped.
FrameAfterReport(b) ==
  /\ InsideReport /\ raw.pending_star /\ FrameCommand(b)
  /\ raw' = Empty
  /\ OpenFrame(b)
  /\ UNCHANGED <<star, app>>

ReportByte(b) ==
  /\ InsideReport /\ ~(raw.pending_star /\ FrameCommand(b))
  /\ raw' = RawFeed(raw, b)
  /\ app' = IF raw.pending_star /\ b \in RawTypes THEN Flushed(app, raw) ELSE app
  /\ UNCHANGED <<stock, star>>

Between == ~stock.in_frame /\ ~raw.in_frame /\ ~raw.pending_star

AfterStar(b) ==
  /\ Between /\ star
  /\ star' = (b = Star)
  /\ raw' = IF b \in RawTypes THEN RawFeed(RawFeed(raw, Star), b) ELSE raw
  /\ IF FrameCommand(b) THEN OpenFrame(b) ELSE UNCHANGED stock
  /\ UNCHANGED app

FirstByte(b) ==
  /\ Between /\ ~star
  /\ star' = (b = Star)
  /\ UNCHANGED <<stock, raw, app>>

Read ==
  /\ rest # <<>>
  /\ LET b == Head(rest) IN
       InsideFrame(b) \/ FrameAfterReport(b) \/ ReportByte(b) \/ AfterStar(b) \/ FirstByte(b)
  /\ rest' = Tail(rest)
  /\ UNCHANGED <<contact, down, speaks>>

-----------------------------------------------------------------------------
(* Keys of the serial console.                                             *)

Clear ==
  /\ app' = [app EXCEPT !.drawn = <<>>, !.touching = FALSE, !.active = FALSE,
                        !.suppress = FALSE, !.tap = 0]
  /\ UNCHANGED <<stock, raw, star, contact, down, speaks, rest>>

Calibrate ==
  /\ app' = ShowTarget([app EXCEPT !.active = TRUE, !.waiting_release = FALSE,
                                   !.index = 0, !.touching = FALSE,
                                   !.suppress = FALSE, !.tap = 0])
  /\ UNCHANGED <<stock, raw, star, contact, down, speaks, rest>>

-----------------------------------------------------------------------------
(* The panel.  One report at a time is on the line.                        *)

(* A stock frame as wing_send_frame puts it on the line.                   *)
PointFrame(phase, x, y) ==
  <<Star, PointCmd>>
    \o Escape(phase) \o Escape(x % 256) \o Escape(x \div 256)
    \o Escape(y % 256) \o Escape(y \div 256)
    \o <<Star, Checksum(<<phase, x % 256, x \div 256, y % 256, y \div 256>>)>>

StateFrame(state) ==
  <<Star, StateCmd>> \o Escape(0) \o Escape(state) \o <<Star, Checksum(<<0, state>>)>>

\* A frame damaged on the line: its check byte is another one's.
Damaged(frame) == [frame EXCEPT ![Len(frame)] = 128 + ((@ + 1) % 128)]

PointBytes(x, y) == <<x \div 16, 16 * (x % 16) + y \div 256, y % 256>>

\* A raw report cannot hold a star: nothing would tell it from the next report's.
PointReports(x, y) ==
  {PointFrame(phase, x, y) : phase \in {p \in {16, 32} : "stock" \in speaks}}
  \union {<<Star, type>> \o PointBytes(x, y) :
            type \in {t \in {65, 129} :
                         "raw" \in speaks /\ \A i \in 1 .. 3 : PointBytes(x, y)[i] # Star}}

ReleaseReports ==
  (IF "stock" \in speaks THEN {PointFrame(0, 1, 0),
                               StateFrame(0)} ELSE {})
  \union (IF "raw" \in speaks THEN {<<Star, 1>>} ELSE {})

\* Reports that tell nothing: the finger is still down, a damaged frame, a
\* point outside the screen, type E1.
OtherReports ==
  (IF "stock" \in speaks /\ down THEN {StateFrame(1)} ELSE {})
  \union (IF "stock" \in speaks THEN {Damaged(PointFrame(16, 5, 9)),
                                      PointFrame(16, RawWidth, 0)} ELSE {})
  \union (IF "raw" \in speaks THEN {<<Star, 225, 3>>} ELSE {})

Report(reports) ==
  /\ rest = <<>> /\ rest' \in reports
  /\ UNCHANGED <<stock, raw, star, app, speaks>>

Press == /\ ~down /\ contact < MaxContacts
         /\ down' = TRUE /\ contact' = contact + 1
         /\ Report(UNION {PointReports(contact + 1, y) : y \in Rows})

Move == /\ down
        /\ Report(UNION {PointReports(contact, y) : y \in Rows})
        /\ UNCHANGED <<down, contact>>

Lift == /\ down /\ down' = FALSE
        /\ Report(ReleaseReports)
        /\ UNCHANGED contact

Other == Report(OtherReports) /\ UNCHANGED <<down, contact>>

Next == Read \/ Clear \/ Calibrate \/ Press \/ Move \/ Lift \/ Other

Spec == Init /\ [][Next]_vars

-----------------------------------------------------------------------------
(* A line on the screen joins two points of one contact: the release       *)
(* between two contacts is never skipped, whichever protocol reports it    *)
(* and although a raw release is only decoded when the next report comes.  *)
OneContactPerLine ==
  Len(app.drawn) = 2 => app.drawn[1].x = app.drawn[2].x

(* The five samples of a calibration come from five contacts, in order,    *)
(* however many reports one contact makes and whenever a key is pressed;   *)
(* on a panel that speaks the stock protocol the second and later ones     *)
(* come from contacts that began after their target was shown.             *)
OneSamplePerContact ==
  /\ \A i, j \in 1 .. app.index :
       i < j => app.samples[i].at.x < app.samples[j].at.x
  /\ speaks = {"stock"} =>
       \A i \in 2 .. app.index : app.samples[i].at.x > app.samples[i].shown

(* A tap that gave a sample draws nothing, also the last one, whose finger *)
(* is still down when the calibration ends.                                *)
TapsDrawNothing ==
  app.tap # 0 /\ app.drawn # <<>> => app.drawn[Len(app.drawn)].x # app.tap

(* Marks and samples are points where a finger was: damaged frames and     *)
(* points outside the screen leave no trace.                               *)
RealPoints ==
  /\ \A i \in 1 .. Len(app.drawn) : app.drawn[i].x \in 1 .. contact /\ app.drawn[i].y \in Rows
  /\ \A i \in 1 .. app.index : app.samples[i].at.x \in 1 .. contact /\ app.samples[i].at.y \in Rows

(* Once the line is read and the raw decoder holds no report, a lifted     *)
(* finger has been noticed: no stroke is left open.                        *)
ReleaseDecoded ==
  ~down /\ rest = <<>> /\ ~raw.in_frame => ~app.touching
=============================================================================
