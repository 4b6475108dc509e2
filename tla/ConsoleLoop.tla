---------------------------- MODULE ConsoleLoop -----------------------------
(***************************************************************************)
(* The main loop of wing_surface_console, on a clock: the poll with its    *)
(* time-out, the reads, the flush of what is pending on the PNLC line, the *)
(* keys, and the display test csctest.                                     *)
(*                                                                         *)
(* Module PnlcDemux lets a flush happen only while the line is quiet.  The *)
(* loop has no such test: it looks at the time since the last byte that it *)
(* has handled, while more may wait in the kernel.  The loop implements    *)
(* PnlcDemux because it reads until nothing is left before it flushes.     *)
(*                                                                         *)
(* Time passes in the poll and in a command (a latch transfer may take     *)
(* 500 ms to fail); the bytes of one message take no time.                 *)
(***************************************************************************)
EXTENDS PnlcDemux

CONSTANTS RawAge,         \* 20 ms: a pending report is flushed
          QuietAge,       \* 50 ms: touch reports and unknown bytes are
          PollTime,       \* 50 ms: timeout of the poll
          UpdateTime,     \* 50 ms between two updates of csctest
          TextTime,       \* 2000 ms: csctest shows its text
          MaxStall,       \* bound: how long the commands of one round take
          MessagesInTest, \* bound: messages sent before the end of a csctest
          MessagesInLoss  \* bound: messages sent before the last loss of a byte

ASSUME TimesAssumption ==
  /\ RawAge \in Nat \ {0} /\ QuietAge \in Nat /\ RawAge <= QuietAge
  /\ PollTime \in Nat \ {0} /\ UpdateTime \in Nat /\ TextTime \in Nat /\ MaxStall \in Nat
  /\ MessagesInTest \in Nat /\ MessagesInLoss \in Nat

\* The first update of csctest comes in time: after csctest there may be the
\* rest of a round, one that is too early for an update, and its commands.
ASSUME StallAssumption == 2 * MaxStall + PollTime < TextTime

VARIABLES pc,             \* where the loop is
          arrived,        \* how many bytes of rest the kernel holds
          age,            \* time since the last byte was handled
          spent,          \* time spent in this poll, or in these commands
          test,           \* csc_test_phase, or "off"
          elapsed,        \* time since csctest
          update          \* time since last_csc_test_update

loop == <<pc, arrived, age, spent, test, elapsed, update>>
allvars == <<vars, loop>>

Phases == {"off", "start", "text", "meters"}

LoopTypeOK ==
  /\ TypeOK
  /\ pc \in {"timers", "poll", "read", "flush", "keys"}
  /\ arrived \in 0 .. Len(rest)
  /\ age \in 0 .. QuietAge /\ elapsed \in 0 .. TextTime /\ update \in 0 .. UpdateTime
  /\ spent \in Nat
  /\ test \in Phases

LoopInit ==
  /\ Init
  /\ pc = "timers" /\ arrived = 0 /\ spent = 0
  /\ age = QuietAge
  /\ test = "off" /\ elapsed = 0 /\ update = UpdateTime

-----------------------------------------------------------------------------
(* The line and the clock.                                                 *)

Older(t, limit) == IF t < limit THEN t + 1 ELSE t

\* No byte of a message is on the wire.
Silent == arrived = Len(rest)

Tick ==
  /\ Silent
  /\ spent' = spent + 1
  /\ age' = Older(age, QuietAge)
  /\ elapsed' = IF test = "off" THEN 0 ELSE Older(elapsed, TextTime)
  /\ update' = Older(update, UpdateTime)
  /\ UNCHANGED <<vars, pc, arrived, test>>

PanelSends ==
  /\ Silent
  /\ test # "off" => Len(sent) < MessagesInTest
  /\ \E m \in Messages : Send(m)
  /\ UNCHANGED loop

Arrives ==
  /\ arrived' \in arrived + 1 .. Len(rest)
  /\ UNCHANGED <<vars, pc, age, spent, test, elapsed, update>>

\* A byte that the receiver misses.  The loop does not look at an empty line
\* before it is in its poll, so that the loss may as well wait for that.
LineLoses ==
  /\ pc = "poll" /\ arrived = 0 /\ Len(sent) <= MessagesInLoss
  /\ Lose
  /\ UNCHANGED loop

-----------------------------------------------------------------------------
(* One round of the loop.                                                  *)

\* The first two seconds show a text, what follows are meters.
TestUpdate(phase, time) ==
  IF time < TextTime THEN IF phase = "start" THEN "text" ELSE phase
  ELSE IF phase = "text" THEN "meters" ELSE phase

\* The probes of the CSC and of the touchscreen, which keep no state here,
\* and an update of csctest.
Timers ==
  /\ pc = "timers"
  /\ pc' = "poll" /\ spent' = 0
  /\ IF test # "off" /\ update >= UpdateTime
       THEN test' = TestUpdate(test, elapsed) /\ update' = 0
       ELSE UNCHANGED <<test, update>>
  /\ UNCHANGED <<vars, arrived, age, elapsed>>

PollWaits == pc = "poll" /\ arrived = 0 /\ spent < PollTime /\ Tick

PollWakes ==
  /\ pc = "poll" /\ arrived > 0
  /\ pc' = "read"
  /\ UNCHANGED <<vars, arrived, age, spent, test, elapsed, update>>

\* Flushes only after a read.
PollReturnsPast ==
  /\ pc = "poll" /\ arrived = 0
  /\ pc' = "keys" /\ spent' = 0
  /\ UNCHANGED <<vars, arrived, age, test, elapsed, update>>

\* A time-out, or only bytes of the CSC.
PollReturns ==
  /\ pc = "poll" /\ arrived = 0
  /\ pc' = "flush"
  /\ UNCHANGED <<vars, arrived, age, spent, test, elapsed, update>>

\* Forgets pnlc_last_rx_ms.
HandleByteUntimed ==
  /\ pc = "read" /\ arrived > 0
  /\ Receive
  /\ arrived' = arrived - 1
  /\ UNCHANGED <<pc, age, spent, test, elapsed, update>>

HandleByte ==
  /\ pc = "read" /\ arrived > 0
  /\ Receive
  /\ arrived' = arrived - 1
  /\ age' = 0
  /\ UNCHANGED <<pc, spent, test, elapsed, update>>

\* The read that finds nothing.
ReadEnds ==
  /\ pc = "read" /\ arrived = 0
  /\ pc' = "flush"
  /\ UNCHANGED <<vars, arrived, age, spent, test, elapsed, update>>

\* flush_pending_pnlc_raw_report
FlushBy(a) ==
  IF a >= QuietAge THEN FlushAll(app) ELSE IF a >= RawAge THEN FlushRaw(app) ELSE app

Flush ==
  /\ pc = "flush"
  /\ pc' = "keys" /\ spent' = 0
  /\ app' = FlushBy(age)
  /\ flushed' = IF age >= RawAge THEN flushed \union {Handled} ELSE flushed
  /\ UNCHANGED <<sent, rest, begun, lost, arrived, age, test, elapsed, update>>

KeysStall == pc = "keys" /\ spent < MaxStall /\ Tick

KeysEnd ==
  /\ pc = "keys"
  /\ pc' = "timers" /\ spent' = 0
  /\ UNCHANGED <<vars, arrived, age, test, elapsed, update>>

\* Takes the time only when the test was off.
TestOnAgain ==
  /\ pc = "keys" /\ Len(sent) <= MessagesInTest
  /\ test' = "start"
  /\ UNCHANGED <<vars, pc, arrived, age, spent, elapsed, update>>

\* csctest on, and off.
TestOn ==
  /\ pc = "keys" /\ Len(sent) <= MessagesInTest
  /\ test' = "start" /\ elapsed' = 0
  /\ UNCHANGED <<vars, pc, arrived, age, spent, update>>

TestOff ==
  /\ pc = "keys"
  /\ test' = "off" /\ elapsed' = 0
  /\ UNCHANGED <<vars, pc, arrived, age, spent, update>>

Round ==
  \/ Timers
  \/ PollWaits \/ PollWakes \/ PollReturns
  \/ HandleByte \/ ReadEnds
  \/ Flush
  \/ KeysStall \/ KeysEnd

LoopNext == Round \/ PanelSends \/ Arrives \/ LineLoses \/ TestOn \/ TestOff

\* The process runs, bytes arrive, and time passes in the poll: the other
\* line cannot wake it at once every time, because a byte takes time there.
Fairness ==
  WF_allvars(Round) /\ WF_allvars(Arrives) /\ SF_allvars(PollWaits)

LoopSpec == LoopInit /\ [][LoopNext]_allvars /\ Fairness

-----------------------------------------------------------------------------
(* The loop never flushes in the middle of a message, although it does not *)
(* know what waits in the kernel: a command may take longer than the 50 ms *)
(* that end a report, while half of one is in the receiver.                *)
ImplementsDemux == Spec

(* A message is logged when the line falls silent after it, although it    *)
(* has no end mark: the poll has a time-out, and the flush comes after it  *)
(* as after a read.  Again and again the log holds all that was sent.      *)
EventuallyLogged ==
  []<>(\/ Len(app.log) >= Len(sent)
       \/ lost # <<>> \/ \E n \in 1 .. Len(sent) : ~Plain(n))

(* Every csctest gets past its first phase, to its text, and past its text,*)
(* to its meters: its first update is never too late.                      *)
TestAdvances == []<>(test # "start") /\ []<>(test # "text")
=============================================================================
