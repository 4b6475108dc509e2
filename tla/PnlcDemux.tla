----------------------------- MODULE PnlcDemux ------------------------------
(***************************************************************************)
(* wing_surface_console's receiver for the PNLC line: handle_rx_byte_pnlc  *)
(* and the functions under it.  Three kinds of traffic share the line, all *)
(* opened by a star: standard frames, which wing_parser_feed reads; button *)
(* and encoder reports ("raw" reports) of four or five bytes; and touch    *)
(* reports, which have no end mark and end with the next star or a pause.  *)
(* Some four-byte reports may have a fifth byte: they stay pending until   *)
(* the next byte or 20 ms of silence.                                      *)
(*                                                                         *)
(* Each byte is handled by Rx, a function of struct app.  The panel sends  *)
(* whole messages, and the line may lose a byte.  A flush finds the line   *)
(* quiet: that the main loop keeps this promise, with its polls and its    *)
(* clock, is shown in module ConsoleLoop.                                  *)
(***************************************************************************)
EXTENDS WingParser, FiniteSets

CONSTANTS Messages,       \* what the panel may send: records [kind, bytes]
          MaxMessages,    \* bound: messages in one behaviour
          MaxLost         \* bound: bytes the line loses

ASSUME BoundsAssumption == MaxMessages \in Nat /\ MaxLost \in Nat

Button     == 98                             \* 0x62
Selectors  == {98, 44, 172, 23, 87, 151, 215}
TouchTypes == {65, 129, 1, 225}              \* is_touchscreen_type
ReportEnd  == 37                             \* 0x25
RawSize    == 8                              \* sizeof(app->pnlc_raw_buf)
BufSize    == 256                            \* touch_parser.buf, unknown_buf

Kinds == {"frame", "raw", "touch", "unknown"}
Event(kind, bytes) == [kind |-> kind, bytes |-> bytes]

VARIABLES app,            \* the receiver: fields of struct app, and its log
          sent,           \* messages sent so far
          rest,           \* bytes on their way: <<message, place in it, byte>>
          begun,          \* the last message of which a byte was handled
          flushed,        \* the n after which there was a flush
          lost            \* the numbers of the messages that lost a byte

vars == <<app, sent, rest, begun, flushed, lost>>

App == [parser : Parser, raw : Seq(Byte), waiting : BOOLEAN,
        touch : BOOLEAN, type : Byte, buf : Seq(Byte), star : BOOLEAN,
        unknown : Seq(Byte), log : Seq([kind : Kinds, bytes : Seq(Byte)])]

TypeOK ==
  /\ app \in App
  /\ Len(app.raw) <= RawSize
  /\ Len(app.buf) <= BufSize /\ Len(app.unknown) <= BufSize
  /\ sent \in Seq(Messages) /\ Len(sent) <= MaxMessages
  /\ rest \in Seq((1 .. Len(sent)) \X Nat \X Byte)
  /\ begun \in 0 .. Len(sent)
  /\ flushed \subseteq 0 .. Len(sent)
  /\ lost \in Seq(1 .. Len(sent)) /\ Len(lost) <= MaxLost

-----------------------------------------------------------------------------
(* Raw reports.                                                            *)

MayContinue(r) == Len(r) = 4 /\ r[2] # Button /\ r[4] % 128 = ReportEnd

ShapeComplete(r) ==
  /\ Len(r) >= 4 /\ r[1] = Star
  /\ r[2] = Button \/ r[4] % 128 = ReportEnd \/ (Len(r) = 5 /\ r[4] = Star)

LogRaw(a) ==
  [a EXCEPT !.raw = <<>>, !.waiting = FALSE, !.log = Append(@, Event("raw", a.raw))]

\* A star ends the pending report and may open the next one.
SplitKeepsStar(a, b) == [status |-> 1, app |-> [LogRaw(a) EXCEPT !.raw = <<b>>]]

Split(a, b) == [status |-> 0, app |-> [LogRaw(a) EXCEPT !.raw = <<b>>]]

\* handle_pnlc_raw_report: the new state, and what it returns.  0: the byte
\* is for the frame parser too; 1: kept; 2: it completed a report.
Raw(a, b) ==
  LET kept == IF Len(a.raw) >= RawSize THEN <<b>> ELSE Append(a.raw, b)
      put  == [a EXCEPT !.raw = kept]
  IN  IF MayContinue(a.raw) /\ b # Star THEN [status |-> 2, app |-> LogRaw(put)]
      ELSE IF MayContinue(a.raw) THEN Split(a, b)
      ELSE IF a.raw = <<>> /\ b # Star THEN [status |-> 0, app |-> a]
      ELSE IF Len(kept) = 1 THEN [status |-> 0, app |-> put]
      ELSE IF Len(kept) = 2 /\ b \notin Selectors
             THEN [status |-> 0, app |-> [a EXCEPT !.raw = <<>>]]
      ELSE IF ~ShapeComplete(kept) THEN [status |-> 1, app |-> put]
      ELSE IF MayContinue(kept)
             THEN [status |-> 1, app |-> [put EXCEPT !.waiting = TRUE]]
      ELSE [status |-> 2, app |-> LogRaw(put)]

-----------------------------------------------------------------------------
(* Frames, touch reports and bytes that fit nothing.                       *)

\* wing_parser_feed with frame_cb.
FeedFrame(a, b) ==
  [a EXCEPT !.parser = Feed(@, b),
            !.log = IF Emits(a.parser, b)
                      THEN Append(@, Event("frame", <<a.parser.cmd>> \o a.parser.payload))
                      ELSE @]

FlushTouch(a) ==
  IF a.touch
    THEN [a EXCEPT !.touch = FALSE, !.buf = <<>>,
                   !.log = Append(@, Event("touch", <<a.type>> \o a.buf))]
    ELSE a

FlushUnknown(a) ==
  IF a.unknown = <<>> THEN a
  ELSE [a EXCEPT !.unknown = <<>>, !.log = Append(@, Event("unknown", a.unknown))]

\* is_standard_raw_type
Standard(b) == b \in Selectors \/ b \in 32 .. 126

Room(s, bytes) == IF Len(s) + Len(bytes) <= BufSize THEN s \o bytes ELSE s

Collect(a, bytes) ==
  IF a.touch THEN [a EXCEPT !.star = FALSE, !.buf = Room(@, bytes)]
             ELSE [a EXCEPT !.star = FALSE, !.unknown = Room(@, bytes)]

\* What the detector's verdict means for the frame parser: fed is the state
\* when it gets the byte.
Dispatch(r, fed) ==
  IF r.status = 2      THEN [r.app EXCEPT !.parser = Idle]
  ELSE IF r.status = 1 THEN r.app
  ELSE fed

\* A star and the first byte of a frame or of a report.
Open(a, b) ==
  LET r == Raw(Raw(a, Star).app, b)
  IN  Dispatch(r, FeedFrame(FeedFrame(r.app, Star), b))

\* Leaves a touch report open.
AfterStarNoFlush(a, b) ==
  LET fresh == [FlushUnknown(a) EXCEPT !.star = FALSE] IN
  IF b \in TouchTypes THEN [fresh EXCEPT !.touch = TRUE, !.type = b, !.buf = <<>>]
  ELSE IF Standard(b) THEN Open(fresh, b)
  ELSE Collect(a, <<Star, b>>)

AfterStar(a, b) ==
  LET fresh == [FlushUnknown(FlushTouch(a)) EXCEPT !.star = FALSE] IN
  IF b \in TouchTypes THEN [fresh EXCEPT !.touch = TRUE, !.type = b, !.buf = <<>>]
  ELSE IF Standard(b) THEN Open(fresh, b)
  ELSE Collect(a, <<Star, b>>)

\* handle_rx_byte_pnlc
Rx(a, b) ==
  IF a.parser.in_frame  THEN FeedFrame(a, b)
  ELSE IF a.raw # <<>>  THEN Dispatch(Raw(a, b), FeedFrame(Raw(a, b).app, b))
  ELSE IF a.star        THEN AfterStar(a, b)
  ELSE IF b = Star      THEN [a EXCEPT !.star = TRUE]
  ELSE Collect(a, <<b>>)

\* flush_pending_pnlc_raw_report after 20 ms, and after 50 ms, of silence.
FlushRaw(a) == IF MayContinue(a.raw) /\ a.waiting THEN LogRaw(a) ELSE a
FlushAll(a) == FlushUnknown(FlushTouch(FlushRaw(a)))

-----------------------------------------------------------------------------
Init ==
  /\ app = [parser |-> Idle, raw |-> <<>>, waiting |-> FALSE,
            touch |-> FALSE, type |-> 0, buf |-> <<>>, star |-> FALSE,
            unknown |-> <<>>, log |-> <<>>]
  /\ sent = <<>> /\ rest = <<>> /\ begun = 0 /\ flushed = {} /\ lost = <<>>

-----------------------------------------------------------------------------
(* What the panel sends.                                                   *)

\* Where byte i of a payload goes: each star before it takes two bytes.
Place(s, i) == i + Cardinality({k \in 1 .. i - 1 : s[k] = Star})

\* The bytes between command and last star: no place is an escape's own.
Escaped(s) ==
  [p \in 1 .. Place(s, Len(s) + 1) - 1 |->
     IF \E i \in DOMAIN s : Place(s, i) = p
       THEN s[CHOOSE i \in DOMAIN s : Place(s, i) = p]
       ELSE Esc]

\* The bytes of a message on the line.
Wire(m) ==
  IF m.kind = "frame"
    THEN LET s == Tail(m.bytes)
         IN  <<Star, Head(m.bytes)>> \o Escaped(s) \o <<Star, Checksum(s)>>
  ELSE IF m.kind = "touch" THEN <<Star>> \o m.bytes
  ELSE m.bytes

\* A command is text, and opens no message of another kind.
IsFrame(m) ==
  /\ m.kind = "frame" /\ m.bytes # <<>>
  /\ Head(m.bytes) \in (32 .. 126) \ (Selectors \union TouchTypes \union {Star, Esc})
  /\ Len(Tail(m.bytes)) <= MaxPayload

IsReport(m) ==
  /\ m.kind = "raw" /\ Len(m.bytes) \in {4, 5}
  /\ m.bytes[1] = Star /\ m.bytes[2] \in Selectors
  /\ Len(m.bytes) = 4 => ShapeComplete(m.bytes)
  /\ Len(m.bytes) = 5 => /\ m.bytes[2] # Button
                         /\ \/ m.bytes[4] % 128 = ReportEnd /\ m.bytes[5] # Star
                            \/ m.bytes[4] = Star

IsTouch(m) ==
  m.kind = "touch" /\ Len(m.bytes) \in 1 .. BufSize + 1 /\ Head(m.bytes) \in TouchTypes

ASSUME MessagesAssumption ==
  \A m \in Messages :
    /\ m = Event(m.kind, m.bytes) /\ m.bytes \in Seq(Byte)
    /\ IsFrame(m) \/ IsReport(m) \/ IsTouch(m)

\* The bytes of message n, each with its number and place.
Numbered(n, bytes) == [i \in DOMAIN bytes |-> <<n, i, bytes[i]>>]

Send(m) ==
  /\ Len(sent) < MaxMessages
  /\ sent' = Append(sent, m)
  /\ rest' = rest \o Numbered(Len(sent) + 1, Wire(m))
  /\ UNCHANGED <<app, begun, flushed, lost>>

Receive ==
  /\ rest # <<>>
  /\ app' = Rx(app, Head(rest)[3])
  /\ rest' = Tail(rest)
  /\ begun' = Head(rest)[1]
  /\ UNCHANGED <<sent, flushed, lost>>

Lose ==
  /\ rest # <<>> /\ Len(lost) < MaxLost
  /\ rest' = Tail(rest)
  /\ lost' = Append(lost, Head(rest)[1])
  /\ UNCHANGED <<app, sent, begun, flushed>>

\* The messages that have been handled to their end.
Handled == IF rest = <<>> THEN Len(sent) ELSE Head(rest)[1] - 1

\* Nothing has been handled of the next one.
Between == rest # <<>> => Head(rest)[1] # begun

\* A flush, after 20 ms or 50 ms without a byte, finds no message half read.
FlushTo(a) ==
  /\ Between
  /\ app' = a
  /\ flushed' = flushed \union {Handled}
  /\ UNCHANGED <<sent, rest, begun, lost>>

Next ==
  \/ \E m \in Messages : Send(m)
  \/ Receive
  \/ Lose
  \/ FlushTo(FlushRaw(app))
  \/ FlushTo(FlushAll(app))

Spec == Init /\ [][Next]_vars

-----------------------------------------------------------------------------
\* Message n left a report pending and the next one came before a flush.
Cut(n) ==
  sent[n].kind = "raw" /\ MayContinue(sent[n].bytes) /\ n < Len(sent) /\ n \notin flushed

\* A touch report with a star among its coordinates: nothing on the line
\* tells that star from the one that opens the next message.
Starred(n) == sent[n].kind = "touch" /\ \E k \in 1 .. Len(sent[n].bytes) : sent[n].bytes[k] = Star

Plain(n) == ~Cut(n) /\ ~Starred(n)

(* As long as no message follows a pending report at once and no touch     *)
(* report holds a star, the log is the traffic: every message, in the      *)
(* order sent, each under its own kind and cut at the right place.         *)
LogIsTraffic ==
  rest = <<>> /\ lost = <<>> /\ (\A n \in 1 .. Len(sent) : Plain(n))
    => FlushAll(app).log = sent

(* A standard frame that cuts a pending report short is still logged, and  *)
(* so is the report, the first time this happens: the star between them    *)
(* reaches the frame parser although the raw detector saw it first.        *)
FrameAfterPending ==
  \A n \in 1 .. Len(sent) - 1 :
    /\ Cut(n) /\ sent[n + 1].kind = "frame" /\ lost = <<>>
    /\ \A k \in 1 .. n - 1 : Plain(k)
    /\ \A k \in DOMAIN rest : rest[k][1] > n + 1
    => SubSeq(app.log, 1, n + 1) = SubSeq(sent, 1, n + 1)

\* After its last star comes a byte with the top bit set, which takes a frame
\* parser out of every frame.
Closes(m) ==
  \/ m.kind = "frame"
  \/ m.kind = "touch" /\ Head(m.bytes) >= 128
  \/ /\ m.kind = "raw" /\ m.bytes[2] >= 128
     /\ \A k \in 3 .. Len(m.bytes) : m.bytes[k] # Star

\* With a byte lost, or read from its middle, it has a star followed by what
\* opens a button report.
Misleads(m) ==
  \/ m.kind # "raw" /\ Len(m.bytes) > 1 /\ m.bytes[2] \in Selectors
  \/ m.kind = "frame" /\ Checksum(Tail(m.bytes)) \in Selectors
  \/ m.kind = "raw" /\ \E k \in 3 .. Len(m.bytes) - 1 :
                          m.bytes[k] = Star /\ m.bytes[k + 1] \in Selectors

EndsWith(log, s) == Len(log) >= Len(s) /\ SubSeq(log, Len(log) - Len(s) + 1, Len(log)) = s

(* The receiver has no time-out for a frame or for a report that lost a    *)
(* byte: what follows is taken for more of it.  The damage ends: one later *)
(* message that closes a frame puts the receiver right, and all that comes *)
(* after it is logged as sent.  Two things are excepted, because they keep *)
(* the raw detector, which eats up to eight bytes, half full: a report of  *)
(* five bytes that lost one, and messages that mislead it.                 *)
HealsAtCheck ==
  \A c \in 1 .. Len(sent) :
    /\ rest = <<>> /\ Len(lost) = 1 /\ \A n \in 1 .. Len(sent) : Plain(n)
    /\ sent[lost[1]].kind = "raw" => Len(sent[lost[1]].bytes) = 4
    /\ lost[1] < c /\ Closes(sent[c]) /\ \A n \in lost[1] .. c : ~Misleads(sent[n])
    => EndsWith(FlushAll(app).log, SubSeq(sent, c + 1, Len(sent)))

(* The comment in handle_rx_byte_pnlc: keep all bytes of a standard frame  *)
(* on its parser, and lose none of the stock 'p' frames.                   *)
FramesDelivered ==
  rest = <<>> =>
    \A n \in 1 .. Len(sent) :
      sent[n].kind = "frame" => \E k \in 1 .. Len(app.log) : app.log[k] = sent[n]
=============================================================================
