----------------------------- MODULE PldcNames ------------------------------
(***************************************************************************)
(* How wing_surface_console names what the PNLC reports (pldc_* and        *)
(* log_pnlc_raw_report): a raw report is decoded to selector, base, bit    *)
(* and qualifier and looked up in a table.  Some buttons leave out their   *)
(* qualifier when they are released, and then look like another button:    *)
(* last_pldc_button remembers who was pressed.                             *)
(*                                                                         *)
(* A report is [direct, selector, state, qual]; qual, 255 for none, is the *)
(* fifth byte or stands for a parity error on the second.  The panel is    *)
(* modelled from the tables.                                               *)
(***************************************************************************)
EXTENDS Integers, Sequences, FiniteSets

CONSTANTS Turns,        \* the deltas of encoder reports: a byte, and no turn is 0
          MaxHeld       \* bound: controls touched at once

None == 255             \* PLDC_QUAL_NONE
NoName == "none"

ASSUME PldcAssumption ==
    /\ Turns \subseteq (-128 .. 127) \ {0}
    /\ MaxHeld \in Nat \ {0}

VARIABLES last,         \* last_pldc_button
          line,         \* the last line logged: [kind, name, pressed, delta]
          held,         \* controls the user is touching
          fresh,        \* the control pressed last, until it or its sibling is released
          turned        \* the encoder turned by the last report, and its delta

nameVars == <<last, line, held, fresh, turned>>
NotTurned == [name |-> NoName, delta |-> 0]

-----------------------------------------------------------------------------
Row(sel, base, bit, qual, name) ==
    [sel |-> sel, base |-> base, bit |-> bit, qual |-> qual, name |-> name]

Controls ==
    { Row( 44,  0,  1, None, "HOME"),     Row( 44,  0,  1, 120, "METERS"),
      Row(172,  0,  1, None, "EFFECTS"),  Row(172,  0,  1, 120, "ROUTING"),
      Row( 44, 16, 64, 120, "SETUP"),     Row( 44, 16, 64,  97, "UTILITY"),
      Row(172, 16, 64, 120, "LIBRARY"),   Row(172, 16, 64, 113, "SELECT"),
      Row(172, 16, 64,  97, "SELECT"),    Row( 44,  8, 32, 113, "CLR_SOLO"),
      Row(151,  0,  1, None, "ENCODER_7_TOUCH"), Row(215,  0,  1, None, "ENCODER_1_TOUCH"),
      Row(215,  0,  1, 120, "ENCODER_1_TOUCH"),  Row( 23,  0,  1, 120, "ENCODER_2_TOUCH"),
      Row( 87,  0,  1, 120, "ENCODER_3_TOUCH"),  Row(151,  0,  1, 120, "ENCODER_4_TOUCH"),
      Row( 23,  0,  1, None, "ENCODER_5_TOUCH"), Row( 87,  0,  1, None, "ENCODER_6_TOUCH") }

Encoder(sel, qual, name) == [sel |-> sel, qual |-> qual, name |-> name]

Encoders ==
    { Encoder(151, None, "ENCODER_7"), Encoder(215, None, "ENCODER_1"),
      Encoder( 23, 120, "ENCODER_2"),  Encoder( 87, 120, "ENCODER_3"),
      Encoder(151, 120, "ENCODER_4"),  Encoder( 23, None, "ENCODER_5"),
      Encoder( 87, None, "ENCODER_6") }

DirectNames == <<"HOME", "EFFECTS", "METERS", "ROUTING", "SETUP", "LIBRARY",
                 "UTILITY", "SELECT", "CLR_SOLO">>

Bit(state, bit) == (state \div bit) % 2 = 1

(* pldc_decode_report: the highest of the bits 0x40, 0x20, 0x01 that is set  *)
(* says pressed; without one, the base alone says which bit was released.   *)
Decode(r) ==
    LET Is(base, bit, pressed) == [ok |-> TRUE, base |-> base, bit |-> bit, pressed |-> pressed]
        set == {b \in {64, 32, 1} : Bit(r.state, b)}
        top == CHOOSE b \in set : \A c \in set : c <= b
    IN  IF r.direct THEN Is(0, 0, r.state = 1)
        ELSE IF set # {} THEN Is(r.state - top, top, TRUE)
        ELSE CASE r.state = 16 -> Is(16, 64, FALSE)
               [] r.state =  8 -> Is( 8, 32, FALSE)
               [] r.state =  0 -> Is( 0,  1, FALSE)
               [] OTHER -> [Is(0, 0, FALSE) EXCEPT !.ok = FALSE]

NameIn(rows) == IF rows = {} THEN NoName ELSE (CHOOSE x \in rows : TRUE).name

(* pldc_lookup_control: with the qualifier, else without.                   *)
Lookup(r, d) ==
    LET rows == {x \in Controls : x.sel = r.selector /\ x.base = d.base /\ x.bit = d.bit}
        same == {x \in rows : x.qual = r.qual}
    IN  IF r.direct
        THEN IF r.selector < Len(DirectNames) THEN DirectNames[r.selector + 1] ELSE NoName
        ELSE NameIn(IF same # {} THEN same ELSE {x \in rows : x.qual = None})

(* A plausible slip: the state is compared as a signed number.              *)
IsMotionSigned(r) == ~r.direct /\ r.selector \in {87, 151, 23, 215} /\ r.state \in 2 .. 127

IsMotion(r) == ~r.direct /\ r.selector \in {87, 151, 23, 215} /\ r.state \notin {0, 1}

(* The buttons whose release can look like another's, and that other.       *)
Alias == {<<"SETUP", "UTILITY">>, <<"LIBRARY", "SELECT">>,
          <<"HOME", "METERS">>, <<"EFFECTS", "ROUTING">>}

Shown(name, pressed) ==
    IF ~pressed /\ <<name, last>> \in Alias THEN last ELSE name

Delta(r) == IF r.state >= 128 THEN r.state - 256 ELSE r.state

Line(kind, name, pressed, delta) ==
    [kind |-> kind, name |-> name, pressed |-> pressed, delta |-> delta]

(* A plausible slip: every release clears it.                               *)
RememberedOnce(name, pressed) ==
    CASE name = NoName                -> last
      [] name # NoName /\ pressed      -> name
      [] name # NoName /\ ~pressed     -> NoName

(* last_pldc_button after a button's line: the button, if it was pressed;   *)
(* none, if it was the one remembered and is released.                      *)
Remembered(name, pressed) ==
    CASE name = NoName                -> last
      [] name # NoName /\ pressed      -> name
      [] name # NoName /\ ~pressed     -> IF last = name THEN NoName ELSE last

(* log_pnlc_raw_report.                                                     *)
Log(r) ==
    LET d     == Decode(r)
        name  == IF d.ok THEN Lookup(r, d) ELSE NoName
        shown == IF r.direct \/ name = NoName THEN name ELSE Shown(name, d.pressed)
    IN  IF d.ok /\ IsMotion(r)
        THEN /\ line' = Line("motion", NameIn({x \in Encoders : x.sel = r.selector /\ x.qual = r.qual}),
                             FALSE, Delta(r))
             /\ UNCHANGED last
        ELSE /\ line' = Line(IF name = NoName THEN "unknown" ELSE "button", shown, d.pressed, 0)
             /\ last' = Remembered(shown, d.pressed)

-----------------------------------------------------------------------------
(* The panel.                                                               *)

Sibling(a, b) == <<a, b>> \in Alias \/ <<b, a>> \in Alias

(* What is fresh after the release of a control.                            *)
FreshAfter(name) == IF name = fresh \/ Sibling(name, fresh) THEN NoName ELSE fresh

NamesInit ==
    /\ last = NoName
    /\ line = Line("none", NoName, FALSE, 0)
    /\ held = {} /\ fresh = NoName
    /\ turned = NotTurned

Report(sel, state, qual) == [direct |-> FALSE, selector |-> sel, state |-> state, qual |-> qual]
DirectReport(id, state)  == [direct |-> TRUE, selector |-> id, state |-> state, qual |-> None]

Press(x) ==
    /\ x.name \notin held /\ Cardinality(held) < MaxHeld
    /\ Log(Report(x.sel, x.base + x.bit, x.qual))
    /\ held' = held \cup {x.name} /\ fresh' = x.name /\ turned' = NotTurned

(* A release report has the qualifier of the press, or that of the button   *)
(* it is taken for.                                                         *)
Release(x) ==
    /\ x.name \in held
    /\ \E y \in Controls :
          /\ y = x \/ <<y.name, x.name>> \in Alias
          /\ y.sel = x.sel /\ y.base = x.base /\ y.bit = x.bit
          /\ Log(Report(x.sel, x.base, y.qual))
    /\ held' = held \ {x.name} /\ fresh' = FreshAfter(x.name) /\ turned' = NotTurned

PressDirect(id) ==
    /\ DirectNames[id + 1] \notin held /\ Cardinality(held) < MaxHeld
    /\ Log(DirectReport(id, 1))
    /\ held' = held \cup {DirectNames[id + 1]} /\ fresh' = DirectNames[id + 1]
    /\ turned' = NotTurned

ReleaseDirect(id) ==
    /\ DirectNames[id + 1] \in held
    /\ Log(DirectReport(id, 0))
    /\ held' = held \ {DirectNames[id + 1]} /\ fresh' = FreshAfter(DirectNames[id + 1])
    /\ turned' = NotTurned

(* One step to the right has the state 0x01, that of a touched encoder, and *)
(* is remembered like one.                                                  *)
Turn(e, delta) ==
    /\ Log(Report(e.sel, delta % 256, e.qual))
    /\ fresh' = IF delta = 1 THEN NoName ELSE fresh
    /\ turned' = [name |-> e.name, delta |-> delta]
    /\ UNCHANGED held

NamesNext ==
    \/ \E x \in Controls : Press(x) \/ Release(x)
    \/ \E id \in 0 .. Len(DirectNames) - 1 : PressDirect(id) \/ ReleaseDirect(id)
    \/ \E e \in Encoders, delta \in Turns : Turn(e, delta)

NamesSpec == NamesInit /\ [][NamesNext]_nameVars

-----------------------------------------------------------------------------
Names == {x.name : x \in Controls} \cup {NoName}

NamesTypeOK ==
    /\ last \in Names
    /\ line.kind \in {"none", "button", "motion", "unknown"}
    /\ line.name \in Names \cup {e.name : e \in Encoders} /\ line.delta \in -128 .. 127
    /\ held \subseteq Names /\ fresh \in held \cup {NoName}
    /\ turned.delta \in Turns \cup {0}

(* A control is released under the name it was pressed with, also when the  *)
(* release looks like its sibling's (last_pldc_button), whatever encoders   *)
(* are turned and other controls released in between: unless another was    *)
(* pressed, an encoder turned by one step to the right, which is taken for  *)
(* a press, or its sibling released.                                        *)
ReleasedByName ==
    [][fresh # NoName /\ held' = held \ {fresh}
         => line' = Line("button", fresh, FALSE, 0)]_nameVars

TouchNames ==
    {<<"ENCODER_1", "ENCODER_1_TOUCH">>, <<"ENCODER_2", "ENCODER_2_TOUCH">>,
     <<"ENCODER_3", "ENCODER_3_TOUCH">>, <<"ENCODER_4", "ENCODER_4_TOUCH">>,
     <<"ENCODER_5", "ENCODER_5_TOUCH">>, <<"ENCODER_6", "ENCODER_6_TOUCH">>,
     <<"ENCODER_7", "ENCODER_7_TOUCH">>}

(* Every turn to the left of up to 97 steps is logged as one, with its size,*)
(* for the encoder that was turned.  A turn of one step to the right is     *)
(* logged as a touch of that encoder.  Any other turn is logged as one, or  *)
(* as an unknown report: never as another control or with another size.     *)
TurnsLogged ==
    turned # NotTurned =>
        \/ turned.delta # 1 /\ line = Line("motion", turned.name, FALSE, turned.delta)
        \/ turned.delta = 1 /\ \E touch \in TouchNames :
              touch[1] = turned.name /\ line = Line("button", touch[2], TRUE, 0)
        \/ turned.delta \notin (-97 .. -1) \cup {1} /\ line.kind = "unknown"
=============================================================================
