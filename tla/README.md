# OpenWING in TLA+

OpenWING boots Linux on the Behringer WING mixing console and brings the
programs that talk to its hardware: two surface controllers on serial lines
(the CSC with faders, strips and lights, and the PNLC with the screen's buttons,
encoders and touch panel), a light-supply latch behind SPI, a configuration in
flash, and an FPGA. The programs are small, run on one core, and are mostly
sequential. What is hard about them is the other side: a line whose bytes may be
cut anywhere, lost or changed; three protocols that share one start byte;
registers that cannot be read back; frames nobody acknowledges; calls that fail
half-way; processes that restart over hardware that does not. This directory
models those parts, checks them with TLC and proves the most important of them
with TLAPS.

Paths below are relative to `src/`; `common`, `console`, `draw` and `syscfg` stand
for `linux-tools/wing_surface_common.c`, `wing_surface_console.c`, `wing_draw.c`
and `wing_syscfg.c`.

## 1. The system

| Part | State it keeps | Operations | What must hold |
|---|---|---|---|
| Frame protocol (`common`, `.h`) | `struct wing_frame_parser` per line | `wing_send_frame`, `wing_parser_feed` | what is sent comes out, once and in order; one fault costs little |
| CSC latch (`common`) | `csc_latch_state`, `csc_lights_enabled`; two registers in hardware | `wing_csc_latch_update`, `wing_enable_csc_lights`, `csclatch` | success means the hardware is on; supplies in order; levels set in the dark |
| Surface state (`common`) | LED states and levels in `struct wing_surface` | open with baseline, `led`, `leds_all`, `brightness`, raw frames | the copies say what the panels show, or there is a reason |
| PNLC receiver (`console`, `touchscreen_parser.h`) | frame parser, raw report buffer, touch parser, two deadlines | one byte; flush after 20 and 50 ms | every message logged, whole and under its kind |
| PNLC names (`console`) | `last_pldc_button` | decode a report, look it up | a control is released under the name it was pressed with |
| Console texts (`console`) | the line buffer of `main` | `scribble`, `scribble_cfg`, `csctext` | what is sent is what was typed |
| Console loop (`console`) | time of the last PNLC byte, csctest phase and its clocks | `main`: poll, reads, flush, keys | a flush never cuts a message; the last message is shown; csctest reaches its meters |
| Drawing (`draw`) | two decoders, touch and calibration state | one byte, keys `c`, `k` | a stroke is one contact; samples belong to their targets |
| System configuration (`syscfg`) | key store; the kernel's interfaces | flash read, file scan, `--get`, `--apply-mac` | the last value wins; the exit status is true; no port is left down |
| FPGA loader (`software/fpgaconfig_trion`) | FIFO and its position, reset and chip select | one pass | the bitstream arrives once and whole |
| Pin monitor (`tools/fpga-pin-monitor`) | counters of each pin, framing engine in the FPGA | `read_reg`, `write_reg`, `run_scan` | the counters are true; a broken transfer costs one frame |
| GPIO banks (`common`, `syscfg`, `linux-tools/wing_panel_init.c`, `wing_fpga_dsp_tool.c`) | data and direction registers in hardware, shared through `/dev/mem` | reset of the panels, latch update, flash read, FPGA reset | each program's pins do what it set them for, unless another's write undid it |
| Raw dump, SPI test, demo, init script, build and packing tools, kernel and U-Boot data | | | not modelled, reasons in `PROJECT.json` |

**How they interact.** The console process calls `common` for everything it sends;
both panels' bytes come back through `poll` and `read` in its main loop and go byte
by byte to a `wing_frame_parser` (CSC) or to `handle_rx_byte_pnlc` (PNLC), which
owns a `wing_frame_parser` too and calls back into the console. `wing-draw`
is another process with a copy of the parser and its own raw decoder, meant to be run
instead of the console. `wing_panel_init` runs once at boot and
resets the PNLC; the console relies on that and does not reset it again. The
init script then runs `wing-syscfg --apply-mac` to completion, but it has started the
shells before that, so that a console may run beside it. The latch and the
pin monitor share ECSPI2. GPIO registers are read, changed and written back by
several programs through `/dev/mem`, and pin 25 of bank 3 is both `/HOLD` of the
flash and a select line of the latch.

**What is concurrent.** No program has threads. Interleaving comes from the other
side of a line (bytes and pauses against the reader's deadlines), from the user
(keys between any two bytes), from hardware that samples while it is read,
from restarts, and from programs that write the same GPIO registers.

## 2. Modules

| Module | Models | Extends |
|---|---|---|
| `WingParser` | the parser as operators: `Feed(p, b)`, `Emits(p, b)`; checksum, escape | |
| `FrameChannel` | abstract: a queue of frames | |
| `WingFrame` | sender, line and receiver; implements `FrameChannel` | `WingParser` |
| `WingFrameFaults` | the same with lost, changed and spurious bytes | `WingFrame` |
| `CscLatch` | the latch, its copy, the light sequence, restarts | |
| `Surface` | copies and panels, commands of several frames | |
| `PnlcDemux` | the console's PNLC receiver; a flush happens when the line is quiet | `WingParser` |
| `ConsoleLoop` | the main loop on a clock; implements `PnlcDemux` | `PnlcDemux` |
| `GpioBanks` | five programs on the GPIO registers, access by access | |
| `PldcNames` | naming of reports | |
| `TouchDraw` | decoders, drawing and calibration of wing-draw | `WingParser` |
| `SysCfg` | wing-syscfg | |
| `TrionConfig` | the FPGA loader | |
| `PinTelemetry` | counters of a pin and the scan that reads them | |
| `PinSpi` | the pin monitor's serial protocol, bit by bit | |
| `CommandText` | texts of console commands | |
| `*_proofs` | theorems about the module they are named for | |
| `MC*` | instances for TLC, where the constants need more than a value | |

`map` in `PROJECT.json` gives the lines of every definition. An operator under a
comment `A plausible slip` is not part of a model: it is a form of the next
definition with a bug in it, by which a property is shown to notice the bug.

### How state and actions correspond to the code

*Frame protocol.* The line holds whole frames; `cursor` is the next byte, so a
`read` may end inside a frame or an escape pair. `Send` is `wing_send_frame` with
its length check, `Receive` one call of `wing_parser_feed`. A parser is a record with
the fields of the struct; `len` is the length of the payload. In
`WingFrameFaults` a byte may be lost, arrive changed, or appear, at any place of
a frame.

*CSC latch.* A register value is a set of bits. `Succeeds` and `Fails` are the
outcomes of `wing_csc_latch_update`: nothing to change, transferred, refused,
or timed out, before or after the hardware took the word. The nine calls of
`wing_enable_csc_lights` are nine steps (`step`), so that a restart (`Restart`) may
come between any two. The test `value > CSC_LIGHT_VALUE_MASK` is kept numeric
(`Exceeds`).

*Surface.* A cell is what one frame sets. `Goes` is a frame that is sent, and
may or may not arrive; a failed one ends the command where the code returns. What
the latch does to an LED command is one outcome here, `LedRefused`; `CscLatch` has
the detail. `unsure` collects the cells whose copy has a reason to be wrong.

*PNLC receiver.* `Rx(app, b)` is `handle_rx_byte_pnlc`, case by case in its order;
`FlushAll` is the 50 ms flush and the 20 ms one with it. Messages are sent whole, with
or without a pause between them. `begun` is the message whose bytes were handled last,
so that `Between` says that none is half handled: this is the only moment a flush
may happen in this module. `Lose` is a byte the receiver misses.

*Console loop.* `pc` is the place in `main`: timers, poll, reads, flush, keys. `rest` of
`PnlcDemux` is what the panel has begun to send, `arrived` the part of it the kernel holds.
`age` is the time since `pnlc_last_rx_ms`, and `Flush` looks at it and at nothing
else, as the code does. Time passes in `PollWaits` and `KeysStall` (a command may take
long: a latch transfer fails after 500 ms). `TestUpdate` is the two conditions of
`csc_test_phase`. The refinement is the identity on the variables of
`PnlcDemux`, which the loop extends.

*GPIO banks.* A program is the sequence of its register accesses, in the order of the
code (`Program`); one step is one `readl` or `writel`. A process may be started again,
and killed between any two accesses. The panels, the flash and the FPGA react to
edges of their pins (`ChipAfter`, `ClocksAfter`, `FpgaAfter`). `torn` and `met` are history:
whose run saw a write that undid another's, and which jobs ran beside it.

*Names.* A report is its decoded fields; the panel is derived from the console's
tables: pressed with a qualifier, a button of two may leave it out when released. A turn is
any step but 0, one step to the right included, whose report is that of a touched knob.
`fresh` is history: the control pressed last, as long as the remembered name is its own (no
other press since, no release of its sibling, no single step to the right).

*Drawing.* A finger presses, moves and lifts; contact number n is at column n, so
that every point names the contact it came from. A raw report is never one whose bytes hold a
star, which nothing would tell from the start of the next. `Read` is `feed_touch_stream` for
one byte; `Clear` and `Calibrate` are the keys. The framebuffer is the last stroke.

*System configuration.* `pc` is the place in the program: the flash is read whole
(`ReadFlash`) and then scanned token by token (`ParseToken`), a file is opened
(`OpenPath`), scanned in chunks (`ReadChunk`, `ParseToken`, `ChunkDone`) and left at its end
(`EndOfFile`), which goes on to the next path or to what the arguments ask for. A token is
one entry `KEY=value`, or `Gap`, bytes that are none; `text` is what is left of the chunk in
hand. Each action of `--apply-mac` is one ioctl, with success or failure. An address is
its upper five bytes and its last one, because the code treats them apart.

*FPGA loader.* Byte k of the file is the number k, so that a duplicated or missing
byte shows. Memory behind `tx_buffer` is modelled as memory (`mem` may grow over the
FIFO); what is written there beyond the stack frame may crash the program (`crashed`), and so
does a bitstream that cannot be opened (`OpenBitstream`). Each write to the LED files may be
lost, as all are when the file did not open; `missed` is history: one of the reset sequence was.

*Pin monitor.* One step of `PinTelemetry` is one edge of the SPI clock for one pin;
all pins are counted alike. The host follows `run_scan` (`phase`), and any of its transfers may
fail (`TransferFails`): a read that fails is 0, a select that fails leaves the words of another
pin, a reset that fails leaves the counts of the scan before, and a transfer behind one that
stopped half-way may be taken for another (`ClearAstray`). `failed` is history: it happened in
this scan. One step of `PinSpi` is one bit: a rising edge, which
shifts MOSI in, and the falling edge after it, which puts the next bit of MISO out.

*Console texts.* The buffer is an array of characters that a new line overwrites
only in part; a number and a command are one character each.

## 3. Runs

`tlc -config <cfg> <module>` in this directory repeats each one.

| Run | Module, cfg | Shows | Bounds |
|---|---|---|---|
| wing_frame | `MCWingFrame`, `WingFrame.cfg` | round trip, refinement of `FrameChannel`, eventual delivery | 2 frames, all payloads of 3 bytes or less over {7, star, escape, 200}, buffer of 2 |
| wing_frame_faults | `MCWingFrameFaults` | what a fault may cost | 3 frames of 4 payloads, 2 faults, buffer of 3 |
| csc_latch | `MCCscLatch` | supplies and levels | 4 light values, 5 updates, any number of time-outs and restarts |
| surface | `MCSurface` | copies against panels | 4 LEDs in 3 groups, 2 levels of 2 values |
| console_loop | `MCConsoleLoop`, `ConsoleLoop.cfg` | the loop on a clock implements the receiver, messages told apart, logged in time, a lost byte | 3 of 3 messages, 1 lost byte of the first, times in units of 25 to 50 ms |
| gpio | `MCGpioBanks`, `GpioBanks.cfg` | five programs on shared registers | 3 starts, 2 at the same time, one bit of the flash |
| pldc_names | `MCPldcNames` | names | all controls, 2 held at once, 9 deltas |
| touch_draw | `MCTouchDraw` | strokes and samples | 4 contacts, 3 targets, 2 rows (one with a star in its frame), any keys |
| syscfg | `MCSysCfg` | store, exit status, interfaces | 4 interfaces; flash texts of 2 tokens, files of 2 chunks; base addresses that blank `lan2` and one that wraps |
| trion | `TrionConfig` | short bitstreams | FIFO of 4, files to 9 bytes |
| pins | `PinTelemetry` | counters | counters to 3, 6 clocks between resets, any transfers failing |
| pin_spi | `MCPinSpi` | resynchronization | 16 data bits of 32, pin 90, 2 other registers, 2 broken transfers |

Run by hand, because they take longer or show a counterexample:

| Cfg | Shows |
|---|---|
| `PnlcDemux.cfg` (`MCPnlcDemux`) | the receiver alone with 4 of 8 messages of all kinds and one lost byte anywhere, 11.8 million states: the invariants of `console_loop` |
| `CommandText.cfg` (`MCCommandText`) | `TextsAsTyped`: a line with texts sends what was typed |
| those of section 6 | a counterexample each |

Why these are enough. The frame parser looks at a byte only through three tests
(star, escape, top bit), and the four bytes have each outcome; two frames are
needed for one to disturb the next, and the theorems of section 5 remove the
bound. Two faults can hit one frame, or two in a row. The latch run has no bound on
its length: its state is finite. In `Surface` a second LED in a group shows whether a
group rewritten from a copy changes an LED nobody named, and a second level
what a command that stops between them leaves behind. In `PnlcDemux` a
message can be disturbed by what its predecessor left pending, and that by one
before it; four messages have both and one after. `ConsoleLoop` is about time: its
three kinds of message are one that ends itself, one that only the 20 ms flush ends and
one that only the 50 ms flush ends, and all that matters of the times is their order
(section 5 proves the refinement for all of them). In `GpioBanks` the first of
three starts leaves any state a killed program can, and two more interleave; a write
undoes another with two processes already. Two held controls are two
siblings, or one and another that is released while it is held. Deltas are at the limits of the state bits the
code tests. `TouchDraw` needs one contact for the last tap, one before and one
after. The counters of `PinTelemetry` reach their limits and the window is twice as
long; pin 90 is `5A`, the second half of the preamble. Shorter data words
change the numbers of a frame, not the order of its parts.

Deadlock is not checked where the system stops: a program that has run to its
end (syscfg, trion), or a bound on messages or clocks that has been used up.

**Fairness.** `EventuallyDelivered` (every frame that `wing_send_frame` accepted reaches
the callback) assumes weak fairness of `Receive`: the receive loops poll every 50 ms or
less and read until the line is empty, so that a byte is not left there for ever while
the program runs. `ConsoleLoop` assumes weak fairness of `Round` (the process is
scheduled and its calls return), weak fairness of `Arrives` (the bytes of a message that
was begun come in) and strong fairness of `PollWaits`: the poll may return early for a byte
of the CSC, which is not modelled, but a byte takes 87 microseconds on that line
and the loop reads all there are, so that again and again time passes in the poll.
Without it a loop that is woken at once for ever would never see the clock move. No
fairness is assumed of the user or of the panel: `TestOn`, `TestOff`, `PanelSends` and
`LineLoses` need never happen.

**What is assumed of time.** The bytes of one message follow each other without a
pause (9 bytes take less than a millisecond), and the loop is not preempted for 20 ms
between its last read and the flush behind it: in the model a message is never split by
that gap. `StallAssumption`: the commands typed in one round take less than a second
together. A longer stall between `csctest` and its first update makes `TestAdvances` false:
the update comes after 2 s, finds phase 0 and neither shows the text nor starts
the meters, until csctest is typed again. A latch command
fails after 500 ms, so that this takes several failing commands typed ahead.

## 4. The properties

Every property is stated and explained in its module. Those that carry the most:

* `Recovers`: a frame that no fault hit, and whose predecessor kept its last star and
  check, is delivered as it was sent, whatever the parser had swallowed before.
* `LitForReal`: when the light sequence has returned success, the register has every
  supply on and agrees with the copy, although every call of it may skip its transfer
  because of a copy that was wrong when it began.
* `LevelsWhileDark`, `EnableOrder`: actions of the sequence over registers in any
  state an earlier process left them.
* `InStep`, `OnlyNamedChange`: the LED copies against lost frames and restarts.
* `LogIsTraffic`, `FrameAfterPending`: three protocols on one line, and how much a
  stray star costs.
* `ImplementsDemux`: the loop flushes by a clock while bytes may wait in the kernel, and yet
  never in the middle of a message.
* `HealsAtCheck`: neither parser has a time-out, so that a lost byte makes the receiver take
  what follows for more of a broken message. One message that closes a frame ends that, with
  two exceptions, which the attempt to prove more found. A message `Misleads` when a byte of it
  that can come behind a star, a coordinate, a value or the check byte of a frame, opens a
  button report; and a five-byte report that lost a byte leaves a detector that waits for a
  closing byte among eight. In both cases the raw detector can be left half full again by
  every message that follows, and no number of them is enough.
* `EventuallyLogged`, `TestAdvances`: what only a time-out can bring about.
* `ResetsWork`, `LatchIsAddressed`, `FlashKeepsCount`: what each program may rely on, from any
  state that killed programs leave in the registers, as long as no write undid another and
  no job ran beside it that uses the same pins. Both exceptions are needed: with either
  dropped TLC finds a panel left in reset or a flash read that counts wrong.
* `OneContactPerLine`, `OneSamplePerContact`, `TapsDrawNothing`: no report of a finger is
  taken for another's, with the keys pressed at any time.
* `ReleasedByName`: one remembered name for many buttons, with turns and releases of others
  in between. Another press, a release of the sibling and a single step to the right, which
  the console takes for a press, are excepted: each makes the remembered name another one.
* `TurnsLogged`: which turns can be told from buttons. One step to the right cannot.
* `ComesUpAgain`, `AddressesAreGood`, `GetAnswersLast`: the machine stays reachable.
  `AddressesAreGood` is about the addresses the interfaces are given, and has an exception that
  the code has: `lan2` gets all zeros or all ones from two base addresses.
* `CountersAreTrue`: registers against the history of samples, over a reset that leaves
  the synchronizers running, whatever the host's transfers did.
* `ReadOutAgrees`: mask and words of a pin from different frames, in scans of which no transfer
  failed. In the others an active pin may be shown as static: the program prints the error and
  uses the 0.
* `InSyncAgain`, `OperationsWork`: a slave that ignores chip select.

`TypeOK` of `WingFrame` is checked; in the other modules it documents the variables and may be
added to the cfg (it holds). Those of `WingFrameFaults`, `PnlcDemux`, `CscLatch` (`CscTypeOK`) and
`GpioBanks` are theorems.

## 5. Proofs

Eight modules are proved about, for every value of their constants.

**`WingFrame_proofs`**, from `CmdsAssumption` (commands are 7-bit and neither star nor
escape, as the letters the tools use), `PayloadsAssumption` (payloads are sequences of
bytes) and `MaxPayloadAssumption`. `RoundTrip` is not inductive: it
says nothing of a frame half read. `IInv` adds `ParserMatches`: at byte j of unit i of
a frame the parser holds exactly the command and the payload read so far, with
`after_star` set inside an escape and before the check. The lemma behind it is
`ChecksumIsCheck`: a check byte always has its top bit set, so it can be neither
an escape nor a command. From `IInv` follow `TypeCorrect`, `RoundTripHolds`,
`ChecksGoodHolds` and `CleanBetweenFramesHolds`; `Implements` shows that
each step of the protocol is a `Send` or `Deliver` of `FrameChannel` or changes neither
queue.

Its second half is about `WingFrameFaults`, for any noise and any number of faults. `FInv` says the
same of the parser only while a *whole* frame arrives (no fault in it, nor in the last
two units before it), and that the star of an intact tail leaves any parser waiting for
a check (`AwaitsCheck`): that is why a frame whose tail is intact resets the parser
whatever it had made of the rest. `FaultTypeCorrect`, `RecoversHolds`,
`TailResetsHolds`. `AtMostOneCallbackHolds`, that a frame which arrives whole makes at most one
callback, rests on `CInv`: inside such a frame, whatever the parser held when it began, the
parser has just read a star exactly where the sender wrote one (`StarsAgree`), so that no byte
before the last can be a check, and none of them has made a callback (`Unanswered`).

**`Console_proofs`** is about three components of the console.
`DemuxTypeCorrect`, `LogIsTrafficHolds` and `FrameAfterPendingHolds` are about the receiver
(`PnlcDemux`), for any set of messages and any number of them, from `MessagesAssumption`: which
frames, reports and touch reports there are. A frame has a printable command that opens no
report, a report one of the shapes the detector knows, and a touch report may hold any bytes.
`LogIsTraffic` speaks of the end of the line only; `DInv` says what the receiver holds at every
byte. The line is in order (`Ordered`: each byte carries the number of its message and its place in
it), byte `k` of message `begun` is the last one handled (`Reached`), and as long as no
report was cut short and no touch report had a star, the log is what was sent before that
message and the buffers hold its first `k` bytes (`Holds`): a frame is in the parser as far
as `ReadTo` says, a report in `raw`, a touch report in `buf`, a star in `star`. The lemmas
`InsideFrame`, `InsideReport` and `InsideTouch` take one byte each, `StarOpens` and
`OpensAnew` the first two of a message, `AfterFlush` a pause. For `FrameAfterPending` the same
is said of the frame that follows the first report cut short (`InsideCut`): its star stays in
`raw` while the parser reads the frame. What comes later may be read wrongly, but leaves the log
as it was: that is `RxExtends`, which holds for any bytes, and gives the bounds of the buffers
too. The proofs need what a frame looks like on the line, so `Wire` says for each place which
byte it is (`Escaped`); that this is what `wing_send_frame` writes, TLC evaluates for payloads of up
to four bytes with stars and escapes (`WireIsUnits`).
`HealsAtCheckHolds` is about one lost byte, and about every message that may follow it. `HInv`
follows the place on the line (`Heals`): up to the closing message the receiver is in one of a few
states (`Strays`), each of which names what it cannot hold, not what it does. It may be in a frame
of its own (`Framed`), at rest (`Level`), have seen a star in place of the one it waits for, or
have half a report that only a shortened one can leave (`Half`, which is why reports of five bytes
and messages that mislead are excepted). Every byte leads from one of these to another
(`BrokenNext` in the message that lost the byte, `AdriftNext` behind it), and the last byte of a
closing message to rest, whatever state it finds: in a frame it is a check byte behind a star, which
always ends it. From there the argument is that of `DInv`, with the log's end in place of the
log (`Healed`, `Resumed`).

`LoopImplements`: the loop implements the receiver, for every
set of messages, any number of lost bytes and all times with `RawAge > 0`. The step that
needs an argument is `Flush`: `PnlcDemux` allows it only `Between` two messages, the loop
knows only `age`. `LInv` says why that is enough: the messages on the line are in order
(`InOrder`), and whenever a message is half handled then its last byte was handled at this
very time, or more of it has arrived and the loop is not at its flush (`Attends`). It is needed
because a stall may make `age` large while bytes wait; the loop then reads before it
flushes, and every read sets `age` to 0. With this the theorems about the receiver hold of
the loop (`LoopLogsTraffic`).
`ReleasedByNameHolds` and `TurnsLoggedHolds` are about `PldcNames`, for any number of held
controls and any deltas of an encoder but 0 (`PldcAssumption`: no turn of no steps is reported). A
release report may fit two buttons, and the console decides by the one name it remembers:
`FreshInv` says that as long as `fresh` lasts that control is held and is the one remembered, and
`LogsControl` what each report is logged as.

**`Surface_proofs`**, from `SurfaceAssumption` (the PNLC's LEDs are of no baseline frame, and
a level is a percentage): `InStepHolds` and `OnlyNamedChangeHolds` for any number of LEDs,
levels, raw commands and lost frames. `InStep` speaks of an open console only, and is not
inductive: `UInv` adds `Greeting`, that while the baseline is sent the copies hold its values,
the cells whose frame has been sent show them unless it was lost, and the PNLC, which is sent
none, is marked unsure. `BaselineFacts` shows that the other cells are all greeted.

Its second half is about `CscLatch`, whose state is its own, for every set of light values and
updates. `LInv` records which bits
the *copy* has before each call (`Held`). The point of the proof: call six always
finds bit 27 missing in the copy, because call one cleared it, so it does
transfer, and from there on register and copy agree; a skipped transfer before it cannot
hurt. `RInv` adds for each step which supplies are on in the *register* and gives
`EnableOrderHolds`; `LevelsWhileDarkHolds` follows from the shape of the calls.
`LatchTypeCorrect` and `LitForRealHolds` follow from `LInv`.

**`SysCfg_proofs`**, for any storage, any interfaces and any outcome of the ioctls: `SInv`
records where the interface in hand is (`Stages`) and that exactly the interfaces that
are counted, or about to be, have the address they should (`Addressed`). From it follow
`StatusIsTrueHolds` and `ComesUpAgainHolds`: an interface leaves the function only from
`flags`, where nothing has been taken down, or through `Restore`, which raises it whenever
the flags read before said that it was up.
`GetAnswersLastHolds` and `AddressesAreGoodHolds` are about the store, from `MachinesAssumption`.
`KInv` relates each place of the load to the text read so far: what the store holds for a key
is what the text gave it last, and it lacks a key only when it is full (`Recalls`); while it
has room, the address in use is a good one and comes with a `MAC` entry (`MacParsedOnce`), from
which the addresses given are computed: that `lan2`'s is blank from two base addresses and no others
is arithmetic on the last byte. The parser
starts at the first signature of a chunk, and that there is a first is lemma `Least`, from the
well-founded order of the naturals.

**`TrionConfig_proofs`**, from `TrionAssumption`: `SmallArrivesHolds` for every size of the FIFO and
every bitstream shorter than it, if no write of the reset sequence was lost. `TInv` says what the
lines are before each of the five reset writes
(`Pins`), so that the last finds the FPGA selected, and that the FIFO holds what has been
read so far: it never fills, hence nothing is sent before the end of the file.

**`PinMonitor_proofs`**, from `PinAssumption`, for counters of any width and windows of any
length: `CountersAreTrueHolds`, `NoPulseIsMissedHolds` and `ReadOutAgreesHolds`. `PInv` adds
what the registers mean between two clocks (`InPulse`): the second synchronizer stage is the
last sample, and `cur_pulse` is the length since the last edge, if there was one; and
that in a scan of which no transfer has failed the host reads the words of a pin only while it is
active, behind a reset that was done (`Reading`, `Orderly`). `SampleFacts` says
what one sample adds to the sets of edges and of high samples, `NextCardinality` what
that adds to a counter that stops at its limit.
`InSyncAgainHolds` is about `PinSpi`, for any number of broken transfers: after one whole
transfer the engine waits for a preamble again. It needs `SyncAssumption`, that the
preamble is found nowhere in a frame but at its start, which TLC evaluates for the real
preamble, frame length, registers and pins; and `SyncInv`, that the engine, wherever it was when a
transfer began, is either inside a frame that ends before the transfer does or has in its
window the bits the transfer has sent so far.

**`GpioBanks_proofs`**, for any number of starts: `GpioTypeCorrect`, `ResetsWorkHolds`,
`LatchIsAddressedHolds` and `FlashKeepsCountHolds`. `IInv` says for each program, as long as no
write undid one of another's and no rival for its pins ran beside it (`Alone`), what its accesses
up to `pc` have made of the registers and of the device behind them (`Reached`), and that two
programs that run together have met (`Bystanders`). A write puts back what was read, so that it
either leaves the bits of another program alone or makes that one torn.

**`TouchDraw_proofs`**, for any number of calibration points, any rows, and contacts on every column
of a screen of up to 4096 by 4096 points: `OneContactPerLineHolds`, `OneSamplePerContactHolds`,
`TapsDrawNothingHolds`, `RealPointsHolds` and `ReleaseDecodedHolds`. Each has the hypothesis
that a panel speaks one protocol, `Protocols \subseteq {{"stock"}, {"raw"}}`; a panel that mixes
them breaks the first one (section 6). What makes the properties hard is that the app acts on a
report bytes after the finger moved, and on a raw one only when the next begins, with keys
pressed in between. `TInv` therefore does not relate the app to the panel, but to the contact the
app has *seen* (`Seen`: what may be drawn, sampled, suppressed or waited for), and that one to the
panel's through the effects still to come (`Leads`): of the stock frame half read
(`StockInv`), or of the raw report in the decoder and the one behind it on the line (`RawInv`).
`StockByte` and `RawByte` take one byte of any report from one such state to another or to
the report's effect, and `SeenLeads` one effect, which is where `Touch` and `Release` are argued
about. What a frame is, is said by where its bytes are (`IsFrame`: byte `i` of the payload is at
`at[i]`, a star has an escape behind it); `PointIsFrame` and the lemmas beside it show that the
panel's reports are such frames, and TLC evaluates that they are what `wing_send_frame` writes
(`FramesAreUnits`).

**Only model-checked**: `EventuallyDelivered`, `EventuallyLogged` and `TestAdvances` (the
prover has no liveness under fairness); `OperationsWork` of `PinSpi` (it decodes numbers from
bits by a fold). What a recursive definition computes for
every input would need induction over data, which is out of the prover's reach: `Units` and
`Checksum` are used in the proofs through what is known of their definitions, not by
induction.

## 6. Where the code and its own words differ

Each is stated as a property at the end of its module, and TLC shows a counterexample
in seconds with the configuration named. Where one names two properties, the run stops at the
first that fails: take that one out to see the other.

| Property (cfg) | Code | What it shows |
|---|---|---|
| `EachByteOnce` (`TrionConfigDocs.cfg`) | `fpgaconfig_trion.c:149` | `fifo_pos` stays at 4096 after a full FIFO was sent: later bytes are stored behind the buffer and the last message starts with the first 4096 bytes again. |
| `ReturnsZero` (`TrionConfigDocs.cfg`) | `fpgaconfig_trion.c:202` | A success returns the length of the last SPI message; the comment at line 62 says 0. |
| `AckedIsApplied` (`CscLatchAcked.cfg`) | `common:560` | A `csclatch` is reported as sent though the stale copy made it skip the transfer. |
| `FramesDelivered` (`PnlcDemuxFrames.cfg`) | `console:397` | A star that ends a pending report goes to two parsers; a later stock frame is lost, against the comment at line 549. |
| `OneContactPerLine` (`TouchDrawMixed.cfg`) | `draw:871` | If a panel mixes the two protocols, a stock frame drops the raw report before it and two contacts are joined by a line. |
| `RefusalIsTrue` (`SysCfgRefusal.cfg`) | `syscfg:152` | A valid user `MAC=` after a blank factory one is stored but not parsed: "No valid MAC address found". |
| `Lan2IsNext` (`SysCfgLan2.cfg`) | `syscfg:539` | "base MAC + 1" has no carry out of the last byte: `lan2` gets the address 255 below, all zeros from `00:..:00:FF`; and all ones from `FF:..:FF:FE`, where no next address is a port's. |
| `ShortestIsAPulse` (`PinTelemetryDocs.cfg`) | `all_pin_monitor.v:119` | The rest of a pulse that the reset cut counts as the width of a pulse. |
| `DutyIsNotFull` (`PinTelemetryDocs.cfg`) | `test_all_pins.c:555` | In a long scan a full high counter shows as a duty cycle of 100%. |
| `TextIsTyped` (`CommandTextStale.cfg`) | `console:1155` | `scribble 3` without a text sends what an earlier line left in the buffer; `TextsAsTyped` (`CommandText.cfg`) holds for lines with one. |

Three more are seen without TLC. An encoder turned by one step to the right reports the state byte
`01`, which `pldc_decode_report` (`console:201-204`) does not take for a motion, so that the log
shows `ENCODER_n_TOUCH` pressed (254-259); `TurnsLogged` states it. The comment at
`wing_fpga_dsp_tool.c:99` says that
`hardware_gpio_set_pin` makes the pin an output, but it writes the data register only: CRESET is driven only
if a latch update has set its direction before, which is why `ResetsWork` asks for it. And
the usage text of that tool (lines 383-384) lists GPIO options that are parsed and never used.

The properties of section 4 are stated with these cases set apart where they bite
(`SmallArrives`: a file shorter than the FIFO, and a reset sequence that was written;
`LogIsTraffic`: no message cuts a pending report; `ReadOutAgrees` and `OperationsWork`: no transfer
failed; `OneContactPerLine`: a panel that speaks one protocol; `InStep`: cells that are not
`unsure`), so they say what does hold beside them. The note of each hazard in `PROJECT.json` says
what of it is set apart in this way.

## 7. Not modelled

* Of the console's loop: the probes every three seconds (they send a frame and keep nothing
  that is read here), the editing of the line, the bytes of the CSC; the commands that
  keep no state in the console (faders, meters, displays, colours).
* Of `wing_panel_init`: the script of frames, which is sent line by line without an answer. A line
  with a bad hex digit still sends its frame, with no payload.
* Of `wing_fpga_dsp_tool`: the transfers after the reset of the FPGA. A chunk that fails ends the
  upload, but `main` exits with 0 all the same; when neither the registers nor spidev can
  be opened the tool goes on with a descriptor of -1.
* Which pins the pads are connected to (the IOMUX registers): every program sets those it uses.
* The bits of the flash read and of one latch transfer; delays (`usleep`) order steps but
  have no length.
* The calibration's equations (floating point), formatting, logs, drawing, tables
  of names, the pin monitor's menu, the waveform register.
* Build scripts, packing tools (their implementation is not in the repository),
  configuration data for the kernel, BusyBox and U-Boot, the init script.

## 8. Plan

Done: the modules above, in the order frame protocol, latch, receiver, drawing,
configuration, surface, loader, names, pin monitor, texts, loop, GPIO banks; proofs of the
frame protocol with and without faults, of the latch, of the receiver and of the loop over it, of the
surface's copies, of the store and of the addresses set at boot, of the loader, of names, of the
pin counters and the framing of their read-out, of the GPIO banks, and of drawing from touch.

What would come next:

1. `PnlcDemux` and `PldcNames` composed, so that names are checked on bytes, with the parity
   marks that stand for a qualifier.
2. `CommandText` with numbers of several characters, in one run with the command
   dispatcher.
