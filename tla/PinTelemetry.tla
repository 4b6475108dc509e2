---------------------------- MODULE PinTelemetry -----------------------------
(***************************************************************************)
(* tools/fpga-pin-monitor: what the FPGA counts of one probed pin          *)
(* (all_pin_monitor.v, section 1; every pin is counted alike) and what the *)
(* host program test_all_pins makes of it in a scan.  The SPI clock is the *)
(* only clock: the pin is sampled once at each of its edges, whatever the  *)
(* frame is for.  The serial protocol is PinSpi.  The waveform register,   *)
(* which only keeps the last 32 samples, is left out.                      *)
(***************************************************************************)
EXTENDS Integers, Sequences, FiniteSetsExt

CONSTANTS CMax,         \* 16'hFFFF: edge_cnt and high_cnt stay there
          PMax,         \* 8'hFF: cur_pulse stays there, min_pulse starts there
          MaxWindow     \* bound: clocks from one reset to the next

ASSUME PinAssumption == CMax \in Nat \ {0} /\ PMax \in Nat \ {0} /\ MaxWindow \in Nat

Levels == {0, 1}

VARIABLES pin,          \* the registers of the pin, probe_d1 and probe_d2 too
          rst_counters, \* set by the host's write, seen one clock later
          phase,        \* where the host is in run_scan
          sample_clocks,
          shown,        \* the words it has read of the pin
          failed,       \* history: a transfer of this scan has failed
          before,       \* history: level and length, at most PMax, of the
                        \* pulse in progress at the reset
          seen          \* history: the samples since the reset

vars == <<pin, rst_counters, phase, sample_clocks, shown, failed, before, seen>>

-----------------------------------------------------------------------------
UpTo(bound, n) == IF n < bound THEN n ELSE bound

(* A plausible slip: an edge does not start a new pulse.                    *)
PulseKeeps(edge) == UpTo(PMax, pin.cur_pulse + 1)

Pulse(edge) == IF edge THEN 1 ELSE UpTo(PMax, pin.cur_pulse + 1)

Shortest(edge) ==
    IF edge /\ pin.cur_pulse # 0 /\ pin.cur_pulse < pin.min_pulse
    THEN pin.cur_pulse ELSE pin.min_pulse

(* A plausible slip: the edge is looked for in the raw input.               *)
ClockedRaw(probe_in) ==
    LET edge == pin.probe_d1 # probe_in
    IN  [probe_d1 |-> probe_in, probe_d2 |-> pin.probe_d1,
         high_cnt |-> UpTo(CMax, pin.high_cnt + pin.probe_d1),
         edge_cnt |-> UpTo(CMax, pin.edge_cnt + (IF edge THEN 1 ELSE 0)),
         activity |-> pin.activity \/ edge,
         saw_high |-> pin.saw_high \/ pin.probe_d1 = 1,
         saw_low |-> pin.saw_low \/ pin.probe_d1 = 0,
         cur_pulse |-> Pulse(edge), min_pulse |-> Shortest(edge)]

(* The else branch: all of it looks at the registers before the clock.      *)
Clocked(probe_in) ==
    LET edge == pin.probe_d1 # pin.probe_d2
    IN  [probe_d1 |-> probe_in, probe_d2 |-> pin.probe_d1,
         high_cnt |-> UpTo(CMax, pin.high_cnt + pin.probe_d1),
         edge_cnt |-> UpTo(CMax, pin.edge_cnt + (IF edge THEN 1 ELSE 0)),
         activity |-> pin.activity \/ edge,
         saw_high |-> pin.saw_high \/ pin.probe_d1 = 1,
         saw_low |-> pin.saw_low \/ pin.probe_d1 = 0,
         cur_pulse |-> Pulse(edge), min_pulse |-> Shortest(edge)]

(* A plausible slip: the activity bit is not reset.                         *)
ClearedButActivity == [pin EXCEPT !.high_cnt = 0, !.edge_cnt = 0,
                                  !.saw_high = FALSE, !.saw_low = FALSE,
                                  !.cur_pulse = 0, !.min_pulse = PMax]

(* The reset branch leaves the two synchronizer stages alone.               *)
Cleared == [pin EXCEPT !.high_cnt = 0, !.edge_cnt = 0, !.activity = FALSE,
                       !.saw_high = FALSE, !.saw_low = FALSE,
                       !.cur_pulse = 0, !.min_pulse = PMax]

Nothing == [edge_cnt |-> -1, high_cnt |-> -1, min_pulse |-> -1]

Init == /\ pin \in [probe_d1 : Levels, probe_d2 : Levels, high_cnt : {0}, edge_cnt : {0},
                    activity : {FALSE}, saw_high : {FALSE}, saw_low : {FALSE},
                    cur_pulse : {0}, min_pulse : {0}]
        /\ rst_counters = FALSE
        /\ phase = "shown" /\ sample_clocks = 0 /\ shown = Nothing /\ failed = FALSE
        /\ before \in [level : {pin.probe_d2}, length : 1 .. PMax]
        /\ seen = << >>

Clock(probe_in) ==
    /\ ~rst_counters /\ Len(seen) < MaxWindow
    /\ pin' = Clocked(probe_in) /\ seen' = Append(seen, pin.probe_d1)
    /\ UNCHANGED before

(* The clocks of the frames that wait are counted as samples (64 a frame).  *)
Sampled ==
    \/ /\ phase = "sample" /\ sample_clocks < MaxWindow
       /\ sample_clocks' = sample_clocks + 1
    \/ phase # "sample" /\ UNCHANGED sample_clocks

(* A clock of any frame.                                                    *)
Tick(probe_in) ==
    /\ Clock(probe_in) /\ Sampled
    /\ UNCHANGED <<rst_counters, phase, shown, failed>>

-----------------------------------------------------------------------------
(* The pulses seen.                                                         *)

Samples == <<before.level>> \o seen     \* Samples[i + 1] is seen[i]
Edges == {i \in DOMAIN seen : Samples[i + 1] # Samples[i]}
Highs == {i \in DOMAIN seen : seen[i] = 1}

(* Lengths of the pulses with both ends seen since the reset.               *)
WholePulses == {e[2] - e[1] : e \in {ends \in Edges \X Edges :
                   ends[1] < ends[2] /\ \A k \in Edges : k <= ends[1] \/ k >= ends[2]}}

(* Length of the pulse that the reset fell into, if its end was seen.       *)
FirstPulse == IF Edges = {} THEN {} ELSE {before.length + Min(Edges) - 1}

InProgress ==
    IF Edges = {} THEN before.length + Len(seen) ELSE Len(seen) - Max(Edges) + 1

-----------------------------------------------------------------------------
(* test_all_pins: run_scan.                                                 *)

ToPhase(p, q) == phase = p /\ phase' = q /\ ~rst_counters

(* The reads of registers 0 to 2, which change nothing.                     *)
StartScan ==
    /\ ToPhase("shown", "clear") /\ shown' = Nothing /\ failed' = FALSE
    /\ UNCHANGED <<pin, rst_counters, sample_clocks, before, seen>>

(* clear_counters: the write takes effect at its last data bit.             *)
ClearCounters(probe_in) ==
    /\ Clock(probe_in)
    /\ phase = "clear" /\ phase' = "cleared" /\ sample_clocks' = 0
    /\ rst_counters' = TRUE
    /\ UNCHANGED <<shown, failed>>

(* In the FPGA, at the clock after a write of register 2.                   *)
Reset ==
    /\ rst_counters
    /\ pin' = Cleared /\ rst_counters' = FALSE
    /\ before' = [level |-> pin.probe_d2, length |-> UpTo(PMax, InProgress)]
    /\ seen' = << >>
    /\ Sampled
    /\ UNCHANGED <<phase, shown, failed>>

(* A transfer of the scan, of this pin's registers or another's, fails: the *)
(* program prints that and goes on; a read that waits counts all the same.  *)
(* What the transfers that follow do while the FPGA is out of step (PinSpi) *)
(* may be anything that a frame can do.                                     *)
TransferFails ==
    /\ phase # "shown" /\ failed' = TRUE
    /\ sample_clocks' \in IF phase = "sample" THEN sample_clocks .. MaxWindow
                          ELSE {sample_clocks}
    /\ UNCHANGED <<pin, rst_counters, phase, shown, before, seen>>

ClearLost ==
    /\ failed /\ ToPhase("clear", "cleared") /\ sample_clocks' = 0
    /\ UNCHANGED <<pin, rst_counters, shown, failed, before, seen>>

(* Also in the first reads, when the scan before has left it out of step.   *)
ClearAstray(probe_in) ==
    /\ failed \/ phase = "clear"
    /\ Clock(probe_in) /\ Sampled
    /\ rst_counters' = TRUE
    /\ UNCHANGED <<phase, shown, failed>>

StartSampling == /\ ToPhase("cleared", "sample")
                 /\ UNCHANGED <<pin, rst_counters, sample_clocks, shown, failed, before, seen>>

StopSampling == /\ ToPhase("sample", "mask")
                /\ UNCHANGED <<pin, rst_counters, sample_clocks, shown, failed, before, seen>>

(* get_activity_masks: only an active pin is looked at.  A mask that was    *)
(* not read is 0, one read out of step anything.                            *)
ReadMask == /\ \/ (pin.activity \/ failed) /\ ToPhase("mask", "word0")
               \/ (~pin.activity \/ failed) /\ ToPhase("mask", "shown")
            /\ UNCHANGED <<pin, rst_counters, sample_clocks, shown, failed, before, seen>>

(* What read_reg returns of a register: 0 when the transfer fails, another  *)
(* pin's when the write that selects this one did.                          *)
Answers(register, limit) == IF failed THEN 0 .. limit ELSE {register}

(* read_pin_telemetry: registers 4 and 5, in two frames.                    *)
ReadWord0 == /\ ToPhase("word0", "word1")
             /\ \E n \in Answers(pin.edge_cnt, CMax) : shown' = [shown EXCEPT !.edge_cnt = n]
             /\ UNCHANGED <<pin, rst_counters, sample_clocks, failed, before, seen>>

ReadWord1 == /\ ToPhase("word1", "shown")
             /\ \E h \in Answers(pin.high_cnt, CMax) : \E w \in Answers(pin.min_pulse, PMax) :
                   shown' = [shown EXCEPT !.high_cnt = h, !.min_pulse = w]
             /\ UNCHANGED <<pin, rst_counters, sample_clocks, failed, before, seen>>

(* The duty cycle is high_cnt out of this many.                             *)
DutyOf == UpTo(CMax, sample_clocks)

Next ==
    \/ \E p \in Levels : Tick(p) \/ ClearCounters(p) \/ ClearAstray(p)
    \/ Reset \/ StartScan \/ TransferFails \/ ClearLost \/ StartSampling \/ StopSampling \/ ReadMask \/ ReadWord0 \/ ReadWord1

Spec == Init /\ [][Next]_vars

-----------------------------------------------------------------------------
(* The pin is in the table of a scan of which every transfer was whole.     *)
IsShown == phase = "shown" /\ shown # Nothing /\ ~failed

TypeOK ==
    /\ pin \in [probe_d1 : Levels, probe_d2 : Levels, high_cnt : 0 .. CMax,
                edge_cnt : 0 .. CMax, activity : BOOLEAN,
                saw_high : BOOLEAN, saw_low : BOOLEAN,
                cur_pulse : 0 .. PMax, min_pulse : 0 .. PMax]
    /\ rst_counters \in BOOLEAN
    /\ failed \in BOOLEAN /\ phase \in {"clear", "cleared", "sample", "mask", "word0", "word1", "shown"}
    /\ sample_clocks \in 0 .. MaxWindow
    /\ shown \in [edge_cnt : -1 .. CMax, high_cnt : -1 .. CMax, min_pulse : -1 .. PMax]
    /\ before \in [level : Levels, length : 1 .. PMax]

(* Between two resets, the one that sets them going too, the counters say   *)
(* what the pin did: as many edges and high samples as there were, or the   *)
(* limit, counting the edge that was in the synchronizer when the reset     *)
(* came, and none that was before it (all_pin_monitor.v, section 1).        *)
CountersAreTrue ==
    /\ pin.edge_cnt = UpTo(CMax, Cardinality(Edges))
    /\ pin.high_cnt = UpTo(CMax, Cardinality(Highs))
    /\ pin.activity <=> Edges # {}
    /\ pin.saw_high <=> Highs # {}
    /\ pin.saw_low <=> Highs # DOMAIN seen

(* No pulse that was seen whole is shorter than min_pulse.                  *)
NoPulseIsMissed == \A n \in WholePulses : pin.min_pulse <= UpTo(PMax, n)

(* A pin that a scan lists as active has edges to show, and is not          *)
(* classified as static, although the mask and the words of the pin are     *)
(* read in different frames and other frames come between: unless a         *)
(* transfer of the scan failed, whose read is 0 and whose write is lost     *)
(* without the program minding (test_all_pins.c, run_scan).                 *)
ReadOutAgrees == IsShown => shown.edge_cnt > 0

(* min_pulse is the width of a pulse: "Minimum Observed Pulse Width: 8-bit  *)
(* counter measuring shortest pulse width" (all_pin_monitor.v:24).          *)
ShortestIsAPulse ==
    IsShown /\ shown.min_pulse < PMax => shown.min_pulse \in WholePulses \cup FirstPulse

(* A pin that was high at fewer than half as many clocks as were sampled is *)
(* not shown with a duty cycle of 100%: the high counter is there "for      *)
(* exact duty cycle calculation" (test_all_pins.c:19).                      *)
DutyIsNotFull ==
    IsShown /\ 2 * Cardinality(Highs) < sample_clocks => shown.high_cnt # DutyOf
=============================================================================
