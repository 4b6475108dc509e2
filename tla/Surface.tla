------------------------------ MODULE Surface -------------------------------
(***************************************************************************)
(* The console's picture of the panels (struct wing_surface in             *)
(* linux-tools/wing_surface_common.c): the LED states and brightness       *)
(* levels it last asked for, beside what the CSC and the PNLC show.  An LED *)
(* command rewrites a whole group of LEDs from the copy, in one frame that  *)
(* nobody acknowledges, so a group changes all at once and a wrong copy     *)
(* shows up in the LEDs the command did not name.                           *)
(*                                                                         *)
(* A cell is what one frame sets: the LED groups "strip" (CSC frame 'B'),  *)
(* "layer" (CSC 'l'), "pnlc" (PNLC 'L'), and each brightness level (CSC    *)
(* 'U').  A level is a group with one member, 0.                           *)
(***************************************************************************)
EXTENDS Naturals, Sequences

CONSTANTS Leds,      \* number of LEDs of each group
          Dials,     \* the brightness levels, in the order they are sent
          Levels,    \* values of a level, 50 among them
          RawCells,  \* cells that raw frames are sent for
          Keep,      \* an argument below zero: leave the level alone
          Settings   \* the arguments of brightness commands, one a level

LedGroups == {"strip", "layer", "pnlc"}
DialCells == {Dials[k] : k \in DOMAIN Dials}
Cells     == LedGroups \cup DialCells

Contents(c) == IF c \in LedGroups THEN [0 .. Leds[c] - 1 -> {0, 1}] ELSE [{0} -> Levels]
Dark(c)     == [i \in 0 .. Leds[c] - 1 |-> 0]
AtLevel(v)  == [i \in {0} |-> v]

ASSUME SurfaceAssumption ==
    /\ Leds \in [LedGroups -> Nat \ {0}]
    /\ Dials \in Seq(DialCells) /\ "other" \notin DialCells
    /\ Levels \subseteq 0 .. 100 /\ 50 \in Levels /\ Keep \notin Levels
    /\ DialCells \cap LedGroups = {} /\ RawCells \subseteq Cells
    /\ Settings \subseteq [DOMAIN Dials -> Levels \cup {Keep}]

VARIABLES copy,      \* the states and levels in struct wing_surface
          panel,     \* what the panels show
          phase,     \* 0: no console; k: baseline frame k is next; else open
          pnlc,      \* pnlc_fd is open
          did,       \* the last command: the LEDs and levels its frames name
          unsure     \* history: cells with a reason to differ: the last frame
                     \* was lost or failed, it was a raw one, or the console is
                     \* new and its open sends nothing for the cell

vars == <<copy, panel, phase, pnlc, did, unsure>>

-----------------------------------------------------------------------------
(* wing_send_stock_baseline, the frame 'H' before it, and the frames that   *)
(* set no cell of the copies ("other").                                     *)

Baseline == <<"other", "strip", "other", "layer", "other">> \o Dials

Open == Len(Baseline) + 1

BaselineValue(c) == IF c \in LedGroups THEN Dark(c) ELSE AtLevel(50)

Init ==
    /\ copy = [c \in Cells |-> BaselineValue(c)]
    /\ panel = [c \in Cells |-> BaselineValue(c)]
    /\ phase = 0 /\ pnlc = FALSE
    /\ did = {} /\ unsure = {}

(* One frame: it arrives, it is lost or damaged on the line without anyone  *)
(* noticing, or write() fails before its last byte.                         *)
Arrives(c, v) == /\ panel' = [panel EXCEPT ![c] = v] /\ unsure' = unsure \ {c}
Lost(c)       == /\ unsure' = unsure \cup {c} /\ UNCHANGED panel
Goes(c, v)    == Arrives(c, v) \/ Lost(c)

-----------------------------------------------------------------------------
(* wing_surface_open: a new process, and the CSC comes out of its reset     *)
(* with LEDs the source does not tell.  The PNLC is not reset, and gets no  *)
(* baseline.                                                                *)
Start ==
    /\ phase = 0
    /\ copy' = [c \in Cells |-> BaselineValue(c)]
    /\ \E s \in Contents("strip"), l \in Contents("layer") :
          panel' = [panel EXCEPT !["strip"] = s, !["layer"] = l]
    /\ phase' = 1
    /\ unsure' = {"pnlc"} /\ did' = {}
    /\ UNCHANGED pnlc

Greet ==
    /\ phase \in 1 .. Open - 1
    /\ LET c == Baseline[phase]
       IN  IF c = "other" THEN UNCHANGED <<panel, unsure>> ELSE Goes(c, BaselineValue(c))
    /\ phase' = phase + 1
    /\ pnlc' = IF phase' = Open THEN TRUE ELSE pnlc
    /\ UNCHANGED <<copy, did>>

(* The PNLC device cannot be opened: the console runs without it.           *)
GreetWithoutPnlc ==
    /\ phase = Open - 1
    /\ Goes(Baseline[phase], BaselineValue(Baseline[phase]))
    /\ phase' = Open /\ pnlc' = FALSE
    /\ UNCHANGED <<copy, did>>

(* A failed frame ends the program; so does quit, or a signal, later on.    *)
Leave ==
    /\ phase > 0
    /\ phase' = 0 /\ pnlc' = FALSE /\ did' = {}
    /\ UNCHANGED <<copy, panel, unsure>>

-----------------------------------------------------------------------------
(* wing_surface_led_color.                                                  *)

(* A plausible slip: the copy of the group is cleared with the new state.   *)
WithLedAlone(g, i, on) == [Dark(g) EXCEPT ![i] = on]

WithLed(g, i, on) == [copy[g] EXCEPT ![i] = on]

(* The copy takes the state first, whatever becomes of the frame.           *)
LedPnlc(i, on) ==
    /\ phase = Open
    /\ LET v == WithLed("pnlc", i, on)
       IN  /\ copy' = [copy EXCEPT !["pnlc"] = v]
           /\ \/ pnlc /\ Goes("pnlc", v) /\ did' = {<<"pnlc", i>>}
              \/ /\ UNCHANGED panel /\ did' = {}
                 /\ unsure' = unsure \cup {"pnlc"}
    /\ UNCHANGED <<phase, pnlc>>

LedCsc(g, i, on) ==
    /\ phase = Open
    /\ LET v == WithLed(g, i, on)
       IN  /\ copy' = [copy EXCEPT ![g] = v]
           /\ \/ Goes(g, v) /\ did' = {<<g, i>>}
              \/ /\ UNCHANGED panel /\ did' = {}
                 /\ unsure' = unsure \cup {g}
    /\ UNCHANGED <<phase, pnlc>>

(* Every CSC LED command enables the lights first, unless a call to do so   *)
(* has succeeded (CscLatch), and stops if it cannot; the names of the       *)
(* master LEDs are known but set nothing.                                   *)
LedRefused ==
    /\ phase = Open
    /\ did' = {}
    /\ UNCHANGED <<copy, panel, phase, pnlc, unsure>>

AllLeds(g, on) == [i \in 0 .. Leds[g] - 1 |-> on]

(* A plausible slip: both copies are written before the first frame.        *)
CopyBothFirst(on, upto) ==
    [copy EXCEPT !["strip"] = AllLeds("strip", on), !["layer"] = AllLeds("layer", on)]

(* The copies after csc_leds_all that got as far as group number upto.      *)
CopyAll(on, upto) ==
    [c \in Cells |-> IF c = "strip" \/ (c = "layer" /\ upto = 2) THEN AllLeds(c, on) ELSE copy[c]]

(* wing_surface_csc_leds_all: frame 'B', then 'l' unless 'B' failed.  ok are *)
(* the frames that arrive, sent those whose write succeeded.                *)
LedsAll(on) ==
    /\ phase = Open
    /\ \E upto \in 1 .. 2, failed \in BOOLEAN :
         LET tried == IF upto = 1 THEN {"strip"} ELSE {"strip", "layer"}
             sent  == IF failed THEN tried \ {IF upto = 1 THEN "strip" ELSE "layer"} ELSE tried
         IN  /\ upto = 1 => failed
             /\ \E ok \in SUBSET sent :
                  /\ panel' = [c \in Cells |-> IF c \in ok THEN AllLeds(c, on) ELSE panel[c]]
                  /\ unsure' = (unsure \ ok) \cup (tried \ ok)
             /\ copy' = CopyAll(on, upto)
             /\ did' = UNION {{g} \X (0 .. Leds[g] - 1) : g \in sent}
    /\ UNCHANGED <<phase, pnlc>>

-----------------------------------------------------------------------------
(* A plausible slip: all copies are written before the first frame.         *)
CopyDialsFirst(val, upto) ==
    [c \in Cells |->
        IF \E k \in DOMAIN Dials : Dials[k] = c /\ val[k] # Keep
        THEN AtLevel(val[CHOOSE k \in DOMAIN Dials : Dials[k] = c]) ELSE copy[c]]

CopyDials(val, upto) ==
    [c \in Cells |->
        IF \E k \in 1 .. upto : Dials[k] = c /\ val[k] # Keep
        THEN AtLevel(val[CHOOSE k \in 1 .. upto : Dials[k] = c]) ELSE copy[c]]

(* wing_surface_csc_brightness: one frame a level, in order, up to the      *)
(* first that fails; val[k] is Keep for a level the command leaves alone.   *)
Brightness(val) ==
    /\ phase = Open
    /\ \E upto \in DOMAIN Dials, failed \in BOOLEAN :
         LET tried == {Dials[k] : k \in {j \in 1 .. upto : val[j] # Keep}}
             sent  == IF failed THEN tried \ {Dials[upto]} ELSE tried
         IN  /\ failed => val[upto] # Keep
             /\ ~failed => upto = Len(Dials)
             /\ copy' = CopyDials(val, upto)
             /\ \E ok \in SUBSET sent :
                  /\ panel' = [c \in Cells |-> IF c \in ok THEN copy'[c] ELSE panel[c]]
                  /\ unsure' = (unsure \ ok) \cup (tried \ ok)
             /\ did' = sent \X {0}
    /\ UNCHANGED <<phase, pnlc>>

(* wing_surface_raw_csc, wing_surface_raw_pnlc: a frame of the user's, past *)
(* the copies.                                                              *)
Raw(c, v) ==
    /\ phase = Open
    /\ c = "pnlc" => pnlc
    /\ panel' = [panel EXCEPT ![c] = v]
    /\ unsure' = unsure \cup {c}
    /\ did' = {<<c, i>> : i \in DOMAIN v}
    /\ UNCHANGED <<copy, phase, pnlc>>

Next ==
    \/ Start \/ Greet \/ GreetWithoutPnlc \/ Leave
    \/ \E on \in {0, 1} :
          \/ \E i \in 0 .. Leds["pnlc"] - 1 : LedPnlc(i, on)
          \/ \E g \in {"strip", "layer"} : \E i \in 0 .. Leds[g] - 1 : LedCsc(g, i, on)
          \/ LedsAll(on)
    \/ LedRefused
    \/ \E val \in Settings : Brightness(val)
    \/ \E c \in RawCells : \E v \in Contents(c) : Raw(c, v)

Spec == Init /\ [][Next]_vars

-----------------------------------------------------------------------------
TypeOK ==
    /\ DOMAIN copy = Cells /\ DOMAIN panel = Cells
    /\ \A c \in Cells : copy[c] \in Contents(c) /\ panel[c] \in Contents(c)
    /\ phase \in 0 .. Open /\ pnlc \in BOOLEAN
    /\ \A x \in did : x[1] \in Cells
    /\ unsure \subseteq Cells

(* The copies of an open console say what the panels show, but for the      *)
(* cells whose last frame went wrong or bypassed them and the PNLC's LEDs   *)
(* of a new process: the baseline covers every CSC copy, and a command of   *)
(* several frames that stops half-way has not run ahead in the copies of    *)
(* the frames it never tried (wing_send_stock_baseline, csc_leds_all,       *)
(* csc_brightness).                                                         *)
InStep == phase = Open => \A c \in Cells \ unsure : panel[c] = copy[c]

(* Although an LED command rewrites its group, only the LEDs and levels it  *)
(* names change, in every cell the copy was in step with; a command that    *)
(* fails half-way changes only those of the frames it sent.                 *)
OnlyNamedChange ==
    [][phase = Open /\ phase' = Open =>
         \A c \in Cells \ unsure : \A i \in DOMAIN panel[c] :
            panel'[c][i] # panel[c][i] => <<c, i>> \in did']_vars
=============================================================================
