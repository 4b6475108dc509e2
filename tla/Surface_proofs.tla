--------------------------- MODULE Surface_proofs ---------------------------
(***************************************************************************)
(* wing_surface_common.c: the copies of struct wing_surface for any number *)
(* of LEDs and any levels (module Surface), then the light sequence and    *)
(* the latch below it (module CscLatch), whose state is its own.           *)
(***************************************************************************)
EXTENDS Surface, CscLatch, TLAPS

Members(c) == IF c \in LedGroups THEN 0 .. Leds[c] - 1 ELSE {0}

Shape ==
  /\ DOMAIN copy = Cells /\ DOMAIN panel = Cells
  /\ \A c \in Cells : DOMAIN copy[c] = Members(c) /\ DOMAIN panel[c] = Members(c)
  /\ phase \in 0 .. Open

\* The baseline frame of a cell has been sent.
Greeted(c) == \E k \in 1 .. phase - 1 : Baseline[k] = c

Greeting ==
  phase \in 1 .. Open - 1 =>
    /\ "pnlc" \in unsure
    /\ \A c \in Cells : copy[c] = BaselineValue(c)
    /\ \A c \in Cells \ unsure : Greeted(c) => panel[c] = copy[c]

UInv == Shape /\ Greeting /\ InStep

-----------------------------------------------------------------------------
(* The baseline sets every cell but the LEDs of the PNLC.                   *)
LEMMA BaselineFacts ==
  /\ Open \in Nat \ {0} /\ Open > 1
  /\ \A k \in 1 .. Open - 1 : Baseline[k] # "pnlc"
  /\ \A c \in Cells \ {"pnlc"} : \E k \in 1 .. Open - 1 : Baseline[k] = c
<1> DEFINE first == <<"other", "strip", "other", "layer", "other">>
<1>1. Dials \in Seq(DialCells) /\ Len(Dials) \in Nat /\ DOMAIN Dials = 1 .. Len(Dials)
  BY SurfaceAssumption
<1>2. /\ Open = Len(Dials) + 6
      /\ \A k \in 1 .. 5 : Baseline[k] = first[k]
      /\ \A k \in 1 .. Len(Dials) : Baseline[k + 5] = Dials[k]
  <2> HIDE DEF DialCells
  <2>1. DialCells \union {"other", "strip", "layer"} # {}
    OBVIOUS
  <2>2. first \in Seq(DialCells \union {"other", "strip", "layer"}) /\ Len(first) = 5
    OBVIOUS
  <2>3. Dials \in Seq(DialCells \union {"other", "strip", "layer"})
    BY <1>1
  <2>4. Baseline = first \o Dials
    BY DEF Baseline
  <2> QED BY <1>1, <2>2, <2>3, <2>4 DEF Open
<1>3. \A k \in 1 .. Open - 1 : Baseline[k] # "pnlc"
  <2> SUFFICES ASSUME NEW k \in 1 .. Open - 1 PROVE Baseline[k] # "pnlc"
    OBVIOUS
  <2>1. CASE k \in 1 .. 5
    BY <1>2, <2>1
  <2>2. CASE k \notin 1 .. 5
    <3>1. k - 5 \in 1 .. Len(Dials) /\ Baseline[k] = Dials[k - 5]
      BY <1>1, <1>2, <2>2
    <3>2. Dials[k - 5] \in DialCells
      BY <1>1, <3>1 DEF DialCells
    <3> QED BY <3>1, <3>2, SurfaceAssumption DEF LedGroups
  <2> QED BY <2>1, <2>2
<1>4. \A c \in Cells \ {"pnlc"} : \E k \in 1 .. Open - 1 : Baseline[k] = c
  <2> SUFFICES ASSUME NEW c \in Cells, c # "pnlc" PROVE \E k \in 1 .. Open - 1 : Baseline[k] = c
    OBVIOUS
  <2>1. CASE c = "strip"
    <3>1. Baseline[2] = c /\ 2 \in 1 .. Open - 1
      BY <1>1, <1>2, <2>1
    <3> QED BY <3>1
  <2>2. CASE c = "layer"
    <3>1. Baseline[4] = c /\ 4 \in 1 .. Open - 1
      BY <1>1, <1>2, <2>2
    <3> QED BY <3>1
  <2>3. CASE c \in DialCells
    <3> PICK k \in 1 .. Len(Dials) : Dials[k] = c
      BY <1>1, <2>3 DEF DialCells
    <3>1. k + 5 \in 1 .. Open - 1 /\ Baseline[k + 5] = c
      BY <1>1, <1>2
    <3> QED BY <3>1
  <2> QED BY <2>1, <2>2, <2>3 DEF Cells, LedGroups
<1> QED BY <1>1, <1>2, <1>3, <1>4

LEMMA BaselineMembers == \A c \in Cells : DOMAIN BaselineValue(c) = Members(c)
BY DEF BaselineValue, Dark, AtLevel, Members

LEMMA ContentsMembers == \A c \in Cells : \A v \in Contents(c) : DOMAIN v = Members(c)
BY DEF Contents, Members

LEMMA UInvInit == Init => UInv
<1> SUFFICES ASSUME Init PROVE UInv
  OBVIOUS
<1>1. Shape
  BY BaselineMembers, BaselineFacts DEF Init, Shape
<1> QED BY <1>1, BaselineFacts DEF Init, UInv, Greeting, InStep

-----------------------------------------------------------------------------
(* A frame that sets cell c to what the copy says, or that does not get     *)
(* there, leaves the other cells as they were.                              *)
LEMMA GoesFacts ==
  ASSUME Shape, NEW c, NEW v, Goes(c, v)
  PROVE  /\ DOMAIN panel' = Cells
         /\ \A d \in Cells \ {c} : panel'[d] = panel[d] /\ (d \in unsure' <=> d \in unsure)
         /\ c \in Cells => (panel'[c] = v /\ c \notin unsure') \/ (panel'[c] = panel[c] /\ c \in unsure')
BY DEF Shape, Goes, Arrives, Lost

LEMMA StartKeepsUInv == UInv /\ Start => UInv'
<1> SUFFICES ASSUME UInv, Start PROVE UInv'
  OBVIOUS
<1> PICK s \in Contents("strip"), l \in Contents("layer") :
         panel' = [panel EXCEPT !["strip"] = s, !["layer"] = l]
  BY DEF Start
<1>1. /\ copy' = [c \in Cells |-> BaselineValue(c)] /\ phase' = 1 /\ unsure' = {"pnlc"}
  BY DEF Start
<1>2. DOMAIN s = Members("strip") /\ DOMAIN l = Members("layer")
  BY ContentsMembers DEF Cells, LedGroups
<1>3. /\ DOMAIN panel' = Cells
      /\ \A c \in Cells : panel'[c] = IF c = "layer" THEN l ELSE IF c = "strip" THEN s ELSE panel[c]
  BY DEF UInv, Shape, Cells, LedGroups
<1>4. Shape'
  BY <1>1, <1>2, <1>3, BaselineMembers, BaselineFacts DEF UInv, Shape, Cells, Members, LedGroups
<1>5. Greeting' /\ InStep'
  BY <1>1, BaselineFacts DEF Greeting, Greeted, InStep, Cells
<1> QED BY <1>4, <1>5 DEF UInv

(* The last baseline frame completes the picture.                           *)
LEMMA GreetKeepsUInv == UInv /\ Greet => UInv'
<1> SUFFICES ASSUME UInv, Greet PROVE UInv'
  OBVIOUS
<1> DEFINE b == Baseline[phase]
<1>1. /\ phase \in 1 .. Open - 1 /\ phase' = phase + 1 /\ copy' = copy
      /\ b = "other" \/ b # "other"
      /\ IF b = "other" THEN UNCHANGED <<panel, unsure>> ELSE Goes(b, BaselineValue(b))
  BY DEF Greet
<1>2. /\ "pnlc" \in unsure /\ b # "pnlc"
      /\ \A c \in Cells : copy[c] = BaselineValue(c)
      /\ \A c \in Cells \ unsure : Greeted(c) => panel[c] = copy[c]
  BY <1>1, BaselineFacts DEF UInv, Greeting
<1>3. "other" \notin Cells
  BY SurfaceAssumption DEF Cells, LedGroups
<1>4. /\ DOMAIN panel' = Cells
      /\ \A d \in Cells \ {b} : panel'[d] = panel[d] /\ (d \in unsure' <=> d \in unsure)
      /\ b \in Cells => (panel'[b] = BaselineValue(b) /\ b \notin unsure')
                        \/ (panel'[b] = panel[b] /\ b \in unsure')
  BY <1>1, <1>3, GoesFacts DEF UInv, Shape
<1>5. Shape'
  <2>1. phase' \in 0 .. Open
    BY <1>1, BaselineFacts
  <2>2. \A d \in Cells : DOMAIN panel'[d] = Members(d)
    BY <1>4, BaselineMembers DEF UInv, Shape
  <2> QED BY <1>1, <1>4, <2>1, <2>2 DEF UInv, Shape, Members, Open
<1>6. \A c \in Cells : Greeted(c)' => Greeted(c) \/ c = b
  <2>1. Baseline' = Baseline /\ phase \in Nat
    BY <1>1, BaselineFacts DEF Baseline
  <2> SUFFICES ASSUME NEW c \in Cells, NEW k \in 1 .. phase' - 1, Baseline[k] = c, k # phase
               PROVE  k \in 1 .. phase - 1
    BY <2>1 DEF Greeted
  <2> QED BY <1>1, <2>1
<1>7. "pnlc" \in unsure'
  BY <1>2, <1>4 DEF Cells, LedGroups
<1>8. \A c \in Cells \ unsure' : Greeted(c)' => panel'[c] = copy'[c]
  BY <1>1, <1>2, <1>4, <1>6
<1>9. Greeting'
  BY <1>1, <1>2, <1>7, <1>8 DEF Greeting, BaselineValue, Dark, AtLevel, Open, Baseline
<1>10. InStep'
  <2> SUFFICES ASSUME phase' = Open, NEW c \in Cells, c \notin unsure' PROVE panel'[c] = copy'[c]
    BY DEF InStep, Open, Baseline
  <2>1. c # "pnlc"
    BY <1>7
  <2> PICK k \in 1 .. Open - 1 : Baseline[k] = c
    BY <2>1, BaselineFacts
  <2>2. Greeted(c)'
    BY DEF Greeted, Baseline
  <2> QED BY <1>8, <2>2
<1> QED BY <1>5, <1>9, <1>10 DEF UInv

LEMMA GreetWithoutPnlcKeepsUInv == UInv /\ GreetWithoutPnlc => UInv'
<1> SUFFICES ASSUME UInv, GreetWithoutPnlc PROVE UInv'
  OBVIOUS
<1> DEFINE b == Baseline[phase]
<1>1. /\ phase = Open - 1 /\ phase' = Open /\ copy' = copy /\ Goes(b, BaselineValue(b))
  BY DEF GreetWithoutPnlc
<1>2. phase \in 1 .. Open - 1 /\ Open \in Nat
  BY <1>1, BaselineFacts
<1>3. /\ "pnlc" \in unsure /\ b # "pnlc"
      /\ \A c \in Cells : copy[c] = BaselineValue(c)
      /\ \A c \in Cells \ unsure : Greeted(c) => panel[c] = copy[c]
  BY <1>2, BaselineFacts DEF UInv, Greeting
<1>4. /\ DOMAIN panel' = Cells
      /\ \A d \in Cells \ {b} : panel'[d] = panel[d] /\ (d \in unsure' <=> d \in unsure)
      /\ b \in Cells => (panel'[b] = BaselineValue(b) /\ b \notin unsure')
                        \/ (panel'[b] = panel[b] /\ b \in unsure')
  BY <1>1, GoesFacts DEF UInv
<1>5. Shape'
  <2>1. \A d \in Cells : DOMAIN panel'[d] = Members(d)
    BY <1>4, BaselineMembers DEF UInv, Shape
  <2> QED BY <1>1, <1>2, <1>4, <2>1 DEF UInv, Shape, Members, Open
<1>6. Greeting'
  BY <1>1, <1>2 DEF Greeting, Open, Baseline
<1>7. InStep'
  <2> SUFFICES ASSUME NEW c \in Cells, c \notin unsure' PROVE panel'[c] = copy'[c]
    BY DEF InStep
  <2>1. CASE c = b
    BY <1>1, <1>3, <1>4, <2>1
  <2>2. CASE c # b
    <3>1. c # "pnlc" /\ c \notin unsure
      BY <1>3, <1>4, <2>2
    <3> PICK k \in 1 .. Open - 1 : Baseline[k] = c
      BY <3>1, BaselineFacts
    <3>2. k \in 1 .. phase - 1
      BY <1>1, <1>2, <2>2
    <3>3. panel[c] = copy[c]
      BY <1>3, <3>1, <3>2 DEF Greeted
    <3> QED BY <1>1, <1>4, <2>2, <3>3
  <2> QED BY <2>1, <2>2
<1> QED BY <1>5, <1>6, <1>7 DEF UInv

(* In an open console only the shape and InStep are left to show.           *)
LEMMA OpenKeepsUInv ==
  ASSUME phase' = Open, Shape', InStep'
  PROVE  UInv'
BY BaselineFacts DEF UInv, Greeting, Open, Baseline

LEMMA LeaveKeepsUInv == UInv /\ Leave => UInv'
BY BaselineFacts DEF Leave, UInv, Shape, Members, Greeting, InStep, Open, Baseline

(* One LED command: the copy takes the state, and the frame goes or does    *)
(* not.                                                                     *)
LEMMA LedKeepsUInv ==
  ASSUME UInv, phase = Open, phase' = Open, NEW g \in LedGroups, NEW i, NEW on,
         copy' = [copy EXCEPT ![g] = WithLed(g, i, on)],
         Goes(g, WithLed(g, i, on)) \/ (UNCHANGED panel /\ unsure' = unsure \union {g})
  PROVE  UInv'
<1>1. g \in Cells /\ DOMAIN WithLed(g, i, on) = Members(g)
  BY DEF Cells, WithLed, UInv, Shape
<1>2. /\ DOMAIN copy' = Cells /\ copy'[g] = WithLed(g, i, on)
      /\ \A d \in Cells \ {g} : copy'[d] = copy[d]
  BY <1>1 DEF UInv, Shape
<1>3. /\ DOMAIN panel' = Cells
      /\ \A d \in Cells \ {g} : panel'[d] = panel[d] /\ (d \in unsure' <=> d \in unsure)
      /\ (panel'[g] = WithLed(g, i, on) /\ g \notin unsure')
         \/ (panel'[g] = panel[g] /\ g \in unsure')
  BY <1>1, GoesFacts DEF UInv, Shape
<1>4. Shape'
  <2>1. \A d \in Cells : DOMAIN panel'[d] = Members(d) /\ DOMAIN copy'[d] = Members(d)
    BY <1>1, <1>2, <1>3 DEF UInv, Shape
  <2> QED BY <1>2, <1>3, <2>1 DEF UInv, Shape, Members, Open
<1>5. InStep'
  BY <1>2, <1>3 DEF UInv, InStep
<1> QED BY <1>4, <1>5, OpenKeepsUInv

LEMMA LedsAllKeepsUInv == ASSUME NEW on PROVE UInv /\ LedsAll(on) => UInv'
<1> SUFFICES ASSUME UInv, LedsAll(on) PROVE UInv'
  OBVIOUS
<1> PICK upto \in 1 .. 2, failed \in BOOLEAN, ok \in SUBSET {"strip", "layer"} :
      LET tried == IF upto = 1 THEN {"strip"} ELSE {"strip", "layer"}
          sent  == IF failed THEN tried \ {IF upto = 1 THEN "strip" ELSE "layer"} ELSE tried
      IN  /\ ok \in SUBSET sent
          /\ panel' = [c \in Cells |-> IF c \in ok THEN AllLeds(c, on) ELSE panel[c]]
          /\ unsure' = (unsure \ ok) \union (tried \ ok)
          /\ copy' = CopyAll(on, upto)
  BY DEF LedsAll
<1>1. phase = Open /\ phase' = Open
  BY DEF LedsAll
<1> DEFINE tried == IF upto = 1 THEN {"strip"} ELSE {"strip", "layer"}
<1>2. /\ ok \subseteq tried /\ tried \subseteq {"strip", "layer"}
      /\ panel' = [c \in Cells |-> IF c \in ok THEN AllLeds(c, on) ELSE panel[c]]
      /\ unsure' = (unsure \ ok) \union (tried \ ok)
      /\ copy' = [c \in Cells |-> IF c \in tried THEN AllLeds(c, on) ELSE copy[c]]
  BY DEF CopyAll
<1> HIDE DEF tried
<1>3. \A c \in {"strip", "layer"} : DOMAIN AllLeds(c, on) = Members(c)
  BY DEF AllLeds, Members, LedGroups
<1>4. Shape'
  <2>1. ASSUME NEW d \in Cells
        PROVE  DOMAIN panel'[d] = Members(d) /\ DOMAIN copy'[d] = Members(d)
    <3>1. /\ panel'[d] = IF d \in ok THEN AllLeds(d, on) ELSE panel[d]
          /\ copy'[d] = IF d \in tried THEN AllLeds(d, on) ELSE copy[d]
      BY <1>2
    <3>2. DOMAIN panel[d] = Members(d) /\ DOMAIN copy[d] = Members(d)
      BY DEF UInv, Shape
    <3>3. d \in ok => d \in {"strip", "layer"}
      BY <1>2
    <3>4. d \in tried => d \in {"strip", "layer"}
      BY <1>2
    <3> QED BY <1>3, <3>1, <3>2, <3>3, <3>4
  <2>2. DOMAIN copy' = Cells /\ DOMAIN panel' = Cells
    BY <1>2
  <2>3. phase' \in 0 .. Open
    BY <1>1 DEF UInv, Shape
  <2> QED BY <2>1, <2>2, <2>3 DEF Shape, Members
<1>5. InStep'
  BY <1>1, <1>2, ZenonT(60) DEF UInv, InStep
<1> QED BY <1>1, <1>4, <1>5, OpenKeepsUInv

LEMMA BrightnessKeepsUInv == ASSUME NEW val \in Settings PROVE UInv /\ Brightness(val) => UInv'
<1> SUFFICES ASSUME UInv, Brightness(val) PROVE UInv'
  OBVIOUS
<1> PICK upto, failed, ok :
      /\ upto \in DOMAIN Dials /\ failed \in BOOLEAN
      /\ LET tried == {Dials[k] : k \in {j \in 1 .. upto : val[j] # Keep}}
             sent  == IF failed THEN tried \ {Dials[upto]} ELSE tried
         IN  /\ ok \in SUBSET sent
             /\ copy' = CopyDials(val, upto)
             /\ panel' = [c \in Cells |-> IF c \in ok THEN copy'[c] ELSE panel[c]]
             /\ unsure' = (unsure \ ok) \union (tried \ ok)
  BY ZenonT(60) DEF Brightness
<1> DEFINE tried == {Dials[k] : k \in {j \in 1 .. upto : val[j] # Keep}}
<1>1. /\ phase = Open /\ phase' = Open /\ ok \subseteq tried
      /\ copy' = CopyDials(val, upto)
      /\ panel' = [c \in Cells |-> IF c \in ok THEN copy'[c] ELSE panel[c]]
      /\ unsure' = (unsure \ ok) \union (tried \ ok)
  BY DEF Brightness
<1>2. 1 .. upto \subseteq DOMAIN Dials
  BY SurfaceAssumption
<1>3. tried \subseteq DialCells /\ DialCells \intersect LedGroups = {}
  BY <1>2, SurfaceAssumption DEF DialCells
<1>4. /\ DOMAIN copy' = Cells
      /\ \A c \in Cells \ tried : copy'[c] = copy[c]
      /\ \A c \in tried : c \in Cells /\ DOMAIN copy'[c] = {0}
  <2>1. DOMAIN copy' = Cells
    BY <1>1 DEF CopyDials
  <2>2. \A c \in Cells \ tried : copy'[c] = copy[c]
    BY <1>1 DEF CopyDials
  <2>3. \A c \in tried : c \in Cells /\ DOMAIN copy'[c] = {0}
    BY <1>1, <1>3 DEF CopyDials, AtLevel, Cells
  <2> QED BY <2>1, <2>2, <2>3
<1>5. \A c \in tried : Members(c) = {0}
  BY <1>3 DEF Members
<1> HIDE DEF tried
<1>6. Shape'
  <2>1. \A c \in Cells : DOMAIN copy'[c] = Members(c)
    BY <1>4, <1>5 DEF UInv, Shape
  <2>2. \A c \in Cells : DOMAIN panel'[c] = Members(c)
    BY <1>1, <2>1 DEF UInv, Shape
  <2> QED BY <1>1, <1>4, <2>1, <2>2 DEF UInv, Shape, Members, Open
<1>7. InStep'
  BY <1>1, <1>4 DEF UInv, InStep
<1> QED BY <1>1, <1>6, <1>7, OpenKeepsUInv

LEMMA RawKeepsUInv == ASSUME NEW c \in RawCells, NEW v \in Contents(c) PROVE UInv /\ Raw(c, v) => UInv'
<1> SUFFICES ASSUME UInv, Raw(c, v) PROVE UInv'
  OBVIOUS
<1>1. /\ phase = Open /\ phase' = Open /\ copy' = copy
      /\ panel' = [panel EXCEPT ![c] = v] /\ unsure' = unsure \union {c}
  BY DEF Raw
<1>2. c \in Cells /\ DOMAIN v = Members(c)
  BY SurfaceAssumption, ContentsMembers
<1>3. Shape'
  BY <1>1, <1>2 DEF UInv, Shape, Members, Open
<1>4. InStep'
  BY <1>1, <1>2 DEF UInv, Shape, InStep
<1> QED BY <1>1, <1>3, <1>4, OpenKeepsUInv

LEMMA UInvNext == UInv /\ [Next]_vars => UInv'
<1> SUFFICES ASSUME UInv, [Next]_vars PROVE UInv'
  OBVIOUS
<1>1. CASE UNCHANGED vars
  BY <1>1 DEF vars, UInv, Shape, Members, Greeting, Greeted, InStep, Open, Baseline, BaselineValue, Dark, AtLevel
<1>2. ASSUME NEW on \in {0, 1}, NEW i \in 0 .. Leds["pnlc"] - 1, LedPnlc(i, on) PROVE UInv'
  BY <1>2, LedKeepsUInv DEF LedPnlc, LedGroups
<1>3. ASSUME NEW on \in {0, 1}, NEW g \in {"strip", "layer"}, NEW i \in 0 .. Leds[g] - 1, LedCsc(g, i, on)
      PROVE  UInv'
  BY <1>3, LedKeepsUInv DEF LedCsc, LedGroups
<1>4. CASE LedRefused
  BY <1>4, OpenKeepsUInv DEF LedRefused, UInv, Shape, Members, InStep, Open
<1> QED
  BY <1>1, <1>2, <1>3, <1>4, StartKeepsUInv, GreetKeepsUInv, GreetWithoutPnlcKeepsUInv, LeaveKeepsUInv,
     LedsAllKeepsUInv, BrightnessKeepsUInv, RawKeepsUInv DEF Next

-----------------------------------------------------------------------------
(* What a command changes.                                                  *)
OnlyNamed ==
  \A c \in Cells \ unsure : \A i \in DOMAIN panel[c] :
     panel'[c][i] # panel[c][i] => <<c, i>> \in did'

LEMMA LedNamesChange ==
  ASSUME UInv, phase = Open, NEW g \in LedGroups, NEW i, NEW on,
         (Goes(g, WithLed(g, i, on)) /\ did' = {<<g, i>>}) \/ UNCHANGED panel
  PROVE  OnlyNamed
<1>1. CASE UNCHANGED panel
  BY <1>1 DEF OnlyNamed
<1>2. CASE Goes(g, WithLed(g, i, on)) /\ did' = {<<g, i>>}
  <2> SUFFICES ASSUME NEW c \in Cells \ unsure, NEW j \in DOMAIN panel[c], panel'[c][j] # panel[c][j]
               PROVE  <<c, j>> \in did'
    BY DEF OnlyNamed
  <2>1. c = g /\ panel'[g] = WithLed(g, i, on)
    BY <1>2, GoesFacts DEF UInv
  <2>2. panel[c] = copy[c]
    BY DEF UInv, InStep
  <2>3. j = i
    BY <2>1, <2>2 DEF WithLed
  <2> QED BY <1>2, <2>1, <2>3
<1> QED BY <1>1, <1>2

LEMMA LedsAllNamesChange == ASSUME NEW on PROVE UInv /\ LedsAll(on) => OnlyNamed
<1> SUFFICES ASSUME UInv, LedsAll(on) PROVE OnlyNamed
  OBVIOUS
<1>0. PICK upto \in 1 .. 2, failed \in BOOLEAN, ok \in SUBSET {"strip", "layer"} :
      LET tried == IF upto = 1 THEN {"strip"} ELSE {"strip", "layer"}
          sent  == IF failed THEN tried \ {IF upto = 1 THEN "strip" ELSE "layer"} ELSE tried
      IN  /\ ok \in SUBSET sent
          /\ panel' = [c \in Cells |-> IF c \in ok THEN AllLeds(c, on) ELSE panel[c]]
          /\ did' = UNION {{g} \X (0 .. Leds[g] - 1) : g \in sent}
  BY DEF LedsAll
<1> DEFINE tried == IF upto = 1 THEN {"strip"} ELSE {"strip", "layer"}
           sent  == IF failed THEN tried \ {IF upto = 1 THEN "strip" ELSE "layer"} ELSE tried
<1>1. /\ ok \subseteq sent /\ sent \subseteq LedGroups
      /\ \A c \in Cells \ ok : panel'[c] = panel[c]
      /\ did' = UNION {{g} \X (0 .. Leds[g] - 1) : g \in sent}
  BY <1>0 DEF LedGroups
<1> HIDE DEF sent
<1> SUFFICES ASSUME NEW c \in Cells \ unsure, NEW j \in DOMAIN panel[c],
                    panel'[c][j] # panel[c][j]
             PROVE  <<c, j>> \in did'
  BY DEF OnlyNamed
<1>2. c \in ok
  BY <1>1
<1>3. c \in sent /\ j \in 0 .. Leds[c] - 1
  BY <1>1, <1>2 DEF UInv, Shape, Members
<1> QED BY <1>1, <1>3

LEMMA BrightnessNamesChange == ASSUME NEW val PROVE UInv /\ Brightness(val) => OnlyNamed
<1> SUFFICES ASSUME UInv, Brightness(val) PROVE OnlyNamed
  OBVIOUS
<1> PICK upto, failed, ok :
      /\ upto \in DOMAIN Dials /\ failed \in BOOLEAN
      /\ LET tried == {Dials[k] : k \in {j \in 1 .. upto : val[j] # Keep}}
             sent  == IF failed THEN tried \ {Dials[upto]} ELSE tried
         IN  /\ ok \in SUBSET sent
             /\ panel' = [c \in Cells |-> IF c \in ok THEN copy'[c] ELSE panel[c]]
             /\ did' = sent \X {0}
  BY ZenonT(60) DEF Brightness
<1> DEFINE tried == {Dials[k] : k \in {j \in 1 .. upto : val[j] # Keep}}
           sent  == IF failed THEN tried \ {Dials[upto]} ELSE tried
<1>1. /\ ok \subseteq sent /\ sent \subseteq tried
      /\ \A c \in Cells \ ok : panel'[c] = panel[c]
      /\ did' = sent \X {0}
  OBVIOUS
<1>2. tried \intersect LedGroups = {}
  BY SurfaceAssumption DEF DialCells
<1> HIDE DEF tried, sent
<1> SUFFICES ASSUME NEW c \in Cells \ unsure, NEW j \in DOMAIN panel[c], c \in ok
             PROVE  <<c, j>> \in did'
  BY <1>1 DEF OnlyNamed
<1>3. c \in sent /\ j = 0
  BY <1>1, <1>2 DEF UInv, Shape, Members
<1> QED BY <1>1, <1>3

LEMMA RawNamesChange == ASSUME NEW c \in RawCells, NEW v \in Contents(c) PROVE UInv /\ Raw(c, v) => OnlyNamed
<1> SUFFICES ASSUME UInv, Raw(c, v) PROVE OnlyNamed
  OBVIOUS
<1>1. c \in Cells /\ DOMAIN v = Members(c)
  BY SurfaceAssumption, ContentsMembers
<1>2. \A d \in Cells \ {c} : panel'[d] = panel[d]
  BY <1>1 DEF Raw, UInv, Shape
<1>3. DOMAIN panel[c] = DOMAIN v /\ did' = {<<c, j>> : j \in DOMAIN v}
  BY <1>1 DEF Raw, UInv, Shape
<1> QED BY <1>2, <1>3 DEF OnlyNamed

-----------------------------------------------------------------------------
(* An open console's copies say what the panels show wherever they have no  *)
(* reason not to, for any number of LEDs, levels and frames lost.           *)
THEOREM InStepHolds == Spec => []InStep
<1>1. UInv => InStep
  BY DEF UInv
<1> QED BY <1>1, UInvInit, UInvNext, PTL DEF Spec

(* No command changes an LED or a level it does not name, in a cell the     *)
(* copy was in step with.                                                   *)
THEOREM OnlyNamedChangeHolds == Spec => OnlyNamedChange
<1>1. UInv /\ [Next]_vars =>
        [phase = Open /\ phase' = Open =>
           \A c \in Cells \ unsure : \A i \in DOMAIN panel[c] :
              panel'[c][i] # panel[c][i] => <<c, i>> \in did']_vars
  <2> SUFFICES ASSUME UInv, Next, phase = Open, phase' = Open PROVE OnlyNamed
    BY DEF OnlyNamed
  <2>1. ASSUME NEW on \in {0, 1}, NEW i \in 0 .. Leds["pnlc"] - 1, LedPnlc(i, on) PROVE OnlyNamed
    BY <2>1, LedNamesChange DEF LedPnlc, LedGroups
  <2>2. ASSUME NEW on \in {0, 1}, NEW g \in {"strip", "layer"}, NEW i \in 0 .. Leds[g] - 1, LedCsc(g, i, on)
        PROVE  OnlyNamed
    BY <2>2, LedNamesChange DEF LedCsc, LedGroups
  <2>3. CASE LedRefused
    BY <2>3 DEF LedRefused, OnlyNamed
  <2>4. ~Start /\ ~Greet /\ ~GreetWithoutPnlc /\ ~Leave
    BY BaselineFacts DEF Start, Greet, GreetWithoutPnlc, Leave, Open, Baseline
  <2> QED BY <2>1, <2>2, <2>3, <2>4, LedsAllNamesChange, BrightnessNamesChange, RawNamesChange DEF Next
<1> QED BY <1>1, UInvInit, UInvNext, PTL DEF Spec, OnlyNamedChange

-----------------------------------------------------------------------------
(* The light sequence of wing_enable_csc_lights, for every argument and    *)
(* every csclatch command (CscLatch).                                      *)

\* Bits the copy holds before each call of the sequence.  Bit 27 is never
\* there when the sixth call wants it, so that call does transfer.
Held ==
  /\ step \in 2 .. 6 => 27 \notin shadow[0]
  /\ step \in 3 .. 9 => 18 \in shadow[0]
  /\ step \in 5 .. 9 => 6 \in shadow[0]
  /\ step \in 6 .. 9 => 7 \in shadow[0]
  /\ step \in 7 .. 9 => 27 \in shadow[0] /\ hw[0] = shadow[0]
  /\ step \in 8 .. 9 => 28 \in shadow[0]
  /\ step = 9 => 29 \in shadow[0]

Running == step > 0 => ~lit /\ ~Exceeds(level, LevelBits)

LInv == CscTypeOK /\ Held /\ Running /\ LitForReal

-----------------------------------------------------------------------------
(* The numeric test value > 0x602f admits no value with a bit above 14.    *)
LEMMA AcceptedIsLow ==
  ASSUME NEW v \in SUBSET Bits, ~Exceeds(v, LevelBits)
  PROVE  v \intersect 15 .. 31 = {}
<1> SUFFICES ASSUME NEW b \in 15 .. 31, b \in v PROVE FALSE
  OBVIOUS
<1>1. b \in v \ LevelBits
  BY DEF LevelBits
<1>2. \A c \in LevelBits : c < b
  BY DEF LevelBits
<1> QED BY <1>1, <1>2 DEF Exceeds

LEMMA WantedType ==
  ASSUME CscTypeOK, NEW p \in Ports, NEW u, u.value \in SUBSET Bits
  PROVE  Wanted(p, u) \in SUBSET Bits
BY DEF CscTypeOK, Wanted

(* A successful update: the copy has the wanted bits; so has the register  *)
(* when there was anything to change or when it agreed with the copy.      *)
LEMMA SuccessCases ==
  ASSUME CscTypeOK, NEW p \in Ports, NEW u, u.value \in SUBSET Bits, Succeeds(p, u)
  PROVE  /\ hw' \in [Ports -> SUBSET Bits] /\ shadow' \in [Ports -> SUBSET Bits]
         /\ shadow'[p] = Wanted(p, u)
         /\ Wanted(p, u) # shadow[p] => hw'[p] = Wanted(p, u)
         /\ Wanted(p, u) = shadow[p] => hw' = hw
<1>1. Wanted(p, u) \in SUBSET Bits
  BY WantedType
<1>2. CASE Skipped(p, u)
  BY <1>2 DEF Skipped, CscTypeOK
<1>3. CASE Transferred(p, u)
  BY <1>1, <1>3 DEF Transferred, CscTypeOK
<1> QED BY <1>2, <1>3 DEF Succeeds

LEMMA FailureCases ==
  ASSUME CscTypeOK, NEW p \in Ports, NEW u, u.value \in SUBSET Bits, Fails(p, u)
  PROVE  /\ hw' \in [Ports -> SUBSET Bits] /\ shadow' = shadow
         /\ hw' = hw \/ hw'[p] = Wanted(p, u)
<1>1. Wanted(p, u) \in SUBSET Bits
  BY WantedType
<1> QED BY <1>1 DEF Fails, CscTypeOK

(* The calls of the sequence, one by one.                                  *)
LEMMA Steps ==
  ASSUME NEW v \in SUBSET Bits
  PROVE  LET s == LightSteps(v) IN
         /\ s[1] = Write({}, Cleared) /\ s[2] = Write({18}, {6})
         /\ s[3] = Write(v, LevelBits) /\ s[4] = Write({6}, {}) /\ s[5] = Write({7}, {})
         /\ s[6] = Write({27}, {}) /\ s[7] = Write({28}, {}) /\ s[8] = Write({29}, {})
         /\ s[9] = Write({8}, {})
         /\ \A i \in 1 .. 9 : s[i].value \in SUBSET Bits
<1> DEFINE s == LightSteps(v)
<1>1. /\ s[1] = Write({}, Cleared) /\ s[2] = Write({18}, {6})
      /\ s[3] = Write(v, LevelBits) /\ s[4] = Write({6}, {}) /\ s[5] = Write({7}, {})
      /\ s[6] = Write({27}, {}) /\ s[7] = Write({28}, {}) /\ s[8] = Write({29}, {})
      /\ s[9] = Write({8}, {})
  BY DEF LightSteps
<1>2. \A x, m : Write(x, m).value = x
  BY DEF Write
<1>3. \A b \in {6, 7, 8, 18, 27, 28, 29} : {b} \in SUBSET Bits
  BY DEF Bits
<1> HIDE DEF s
<1>4. ASSUME NEW i \in 1 .. 9
      PROVE  s[i].value \in SUBSET Bits
  <2>1. i \in {1, 2, 3} \/ i \in {4, 5, 6} \/ i \in {7, 8, 9}
    BY SMTT(60)
  <2> QED BY <1>1, <1>2, <1>3, <2>1, SMTT(60)
<1> QED BY <1>1, <1>4 DEF s

-----------------------------------------------------------------------------
LEMMA StepHeld ==
  ASSUME LInv, step \in 1 .. 9, Succeeds(0, LightSteps(level)[step])
  PROVE  LET w == Wanted(0, LightSteps(level)[step]) IN
         /\ hw' \in [Ports -> SUBSET Bits] /\ shadow' \in [Ports -> SUBSET Bits]
         /\ shadow'[0] = w
         /\ step = 1 => 27 \notin w
         /\ step = 2 => 27 \notin w /\ 18 \in w
         /\ step = 3 => 27 \notin w /\ 18 \in w
         /\ step = 4 => 27 \notin w /\ {18, 6} \subseteq w
         /\ step = 5 => 27 \notin w /\ {18, 6, 7} \subseteq w
         /\ step = 6 => {18, 6, 7, 27} \subseteq w /\ hw'[0] = w
         /\ step = 7 => {18, 6, 7, 27, 28} \subseteq w /\ hw'[0] = w
         /\ step = 8 => {18, 6, 7, 27, 28, 29} \subseteq w /\ hw'[0] = w
         /\ step = 9 => {18, 6, 7, 27, 28, 29, 8} \subseteq w /\ hw'[0] = w
<1> DEFINE u == LightSteps(level)[step]
           w == Wanted(0, u)
<1>1. CscTypeOK /\ Held /\ level \in SUBSET Bits
  BY DEF LInv, CscTypeOK
<1>2. u.value \in SUBSET Bits
  BY <1>1, Steps
<1>3. /\ hw' \in [Ports -> SUBSET Bits] /\ shadow' \in [Ports -> SUBSET Bits]
      /\ shadow'[0] = w /\ (w # shadow[0] => hw'[0] = w) /\ (w = shadow[0] => hw' = hw)
  BY <1>1, <1>2, SuccessCases DEF Ports
<1>4. \A x, m : /\ Write(x, m).value = x /\ Write(x, m).mask = m
                /\ Wanted(0, Write(x, m)) = (shadow[0] \ m) \union x
  BY DEF Write, Wanted
<1>5. \A x : Wanted(0, Write(x, {})) = shadow[0] \union x
  BY <1>4
<1> HIDE DEF u, w
<1>6. CASE step = 1
  <2>1. w = shadow[0] \ Cleared
    BY <1>1, <1>4, <1>6, Steps DEF u, w
  <2> QED BY <1>3, <1>6, <2>1 DEF Cleared, u, w
<1>7. CASE step = 2
  <2>1. w = (shadow[0] \ {6}) \union {18}
    BY <1>1, <1>4, <1>7, Steps DEF u, w
  <2> QED BY <1>1, <1>3, <1>7, <2>1 DEF Held, u, w
<1>8. CASE step = 3
  <2>1. w = (shadow[0] \ LevelBits) \union level
    BY <1>1, <1>4, <1>8, Steps DEF u, w
  <2>2. 27 \notin level
    BY <1>1, <1>8, AcceptedIsLow DEF LInv, Running
  <2>3. 27 \notin shadow[0] /\ 18 \in shadow[0]
    BY <1>1, <1>8 DEF Held
  <2> QED BY <1>3, <1>8, <2>1, <2>2, <2>3 DEF LevelBits, u, w
<1>9. CASE step = 4
  <2>1. w = shadow[0] \union {6}
    BY <1>1, <1>5, <1>9, Steps DEF u, w
  <2> QED BY <1>1, <1>3, <1>9, <2>1 DEF Held, u, w
<1>10. CASE step = 5
  <2>1. w = shadow[0] \union {7}
    BY <1>1, <1>5, <1>10, Steps DEF u, w
  <2> QED BY <1>1, <1>3, <1>10, <2>1 DEF Held, u, w
<1>11. CASE step = 6
  <2>1. w = shadow[0] \union {27}
    BY <1>1, <1>5, <1>11, Steps DEF u, w
  <2> QED BY <1>1, <1>3, <1>11, <2>1 DEF Held, u, w
<1>12. CASE step = 7
  <2>1. w = shadow[0] \union {28}
    BY <1>1, <1>5, <1>12, Steps DEF u, w
  <2> QED BY <1>1, <1>3, <1>12, <2>1 DEF Held, u, w
<1>13. CASE step = 8
  <2>1. w = shadow[0] \union {29}
    BY <1>1, <1>5, <1>13, Steps DEF u, w
  <2> QED BY <1>1, <1>3, <1>13, <2>1 DEF Held, u, w
<1>14. CASE step = 9
  <2>1. w = shadow[0] \union {8}
    BY <1>1, <1>5, <1>14, Steps DEF u, w
  <2> QED BY <1>1, <1>3, <1>14, <2>1 DEF Held, u, w
<1>15. step \in {1, 2, 3} \/ step \in {4, 5, 6} \/ step \in {7, 8, 9}
  OBVIOUS
<1> QED BY <1>6, <1>7, <1>8, <1>9, <1>10, <1>11, <1>12, <1>13, <1>14, <1>15

LEMMA LNextInv == LInv /\ [CscNext]_cscVars => LInv'
<1> SUFFICES ASSUME LInv, [CscNext]_cscVars PROVE LInv'
  OBVIOUS
<1>1. CscTypeOK /\ Held /\ Running /\ LitForReal
  BY DEF LInv
<1>2. CASE Restart
  <2>1. LevelBits \in SUBSET Bits /\ ~Exceeds(LevelBits, LevelBits)
    BY DEF LevelBits, Bits, Exceeds
  <2>2. CscTypeOK'
    <3>1. shadow' \in [Ports -> SUBSET Bits] /\ hw' = hw
      BY <1>2 DEF Restart
    <3>2. level' \in SUBSET Bits /\ step' \in 0 .. 9
      BY <1>2, <2>1 DEF Restart
    <3>3. enabled' \in BOOLEAN /\ lit' \in BOOLEAN /\ acked' \in SUBSET Updates
      BY <1>2 DEF Restart
    <3> QED BY <1>1, <3>1, <3>2, <3>3 DEF CscTypeOK
  <2> QED BY <1>2, <2>1, <2>2 DEF Restart, LInv, Held, Running, LitForReal
<1>3. ASSUME NEW v \in LightValues \union {LevelBits}, BeginLights(v)
      PROVE  LInv'
  <2>1. v \in SUBSET Bits
    BY LightValuesAssumption DEF LevelBits, Bits
  <2>2. CscTypeOK'
    <3>1. level' \in SUBSET Bits /\ step' \in 0 .. 9
      BY <1>3, <2>1 DEF BeginLights
    <3>2. lit' \in BOOLEAN /\ acked' \in SUBSET Updates
      BY <1>3 DEF BeginLights
    <3> QED BY <1>1, <1>3, <3>1, <3>2 DEF BeginLights, CscTypeOK
  <2> QED BY <1>3, <2>2 DEF BeginLights, LInv, Held, Running, LitForReal
<1>4. CASE LightStep
  <2>1. step \in 1 .. 8 /\ step' = step + 1 /\ level' = level /\ lit' = lit
    BY <1>1, <1>4 DEF LightStep, CscTypeOK
  <2>2. CscTypeOK'
    BY <1>1, <1>4, <2>1, StepHeld DEF LightStep, CscTypeOK
  <2>3. Running' /\ LitForReal'
    BY <1>1, <2>1 DEF Running, LitForReal
  <2>4. Held'
    <3> DEFINE w == Wanted(0, LightSteps(level)[step])
    <3>1. /\ shadow'[0] = w
          /\ step = 1 => 27 \notin w
          /\ step = 2 => 27 \notin w /\ 18 \in w
          /\ step = 3 => 27 \notin w /\ 18 \in w
          /\ step = 4 => 27 \notin w /\ {18, 6} \subseteq w
          /\ step = 5 => 27 \notin w /\ {18, 6, 7} \subseteq w
          /\ step = 6 => {18, 6, 7, 27} \subseteq w /\ hw'[0] = w
          /\ step = 7 => {18, 6, 7, 27, 28} \subseteq w /\ hw'[0] = w
          /\ step = 8 => {18, 6, 7, 27, 28, 29} \subseteq w /\ hw'[0] = w
      BY <1>4, <2>1, StepHeld DEF LightStep
    <3> HIDE DEF w
    <3> QED BY <2>1, <3>1 DEF Held
  <2> QED BY <2>2, <2>3, <2>4 DEF LInv
<1>5. CASE LastLightStep
  <2>1. /\ step = 9 /\ step' = 0 /\ level' = level /\ lit' = TRUE /\ enabled' = TRUE
        /\ acked' = acked
    BY <1>5 DEF LastLightStep
  <2> DEFINE w == Wanted(0, LightSteps(level)[step])
  <2>2. /\ hw' \in [Ports -> SUBSET Bits] /\ shadow' \in [Ports -> SUBSET Bits]
        /\ shadow'[0] = w
        /\ {18, 6, 7, 27, 28, 29, 8} \subseteq w /\ hw'[0] = w
    BY <1>5, <2>1, StepHeld DEF LastLightStep
  <2> HIDE DEF w
  <2>3. CscTypeOK'
    BY <1>1, <2>1, <2>2 DEF CscTypeOK
  <2>4. LitForReal'
    BY <2>2 DEF LitForReal, EnableBits
  <2> QED BY <2>1, <2>3, <2>4 DEF LInv, Held, Running
<1>6. CASE LightsFail
  <2>1. step \in 1 .. 9 /\ step' = 0 /\ level' = level /\ lit' = lit
    BY <1>1, <1>6 DEF LightsFail, CscTypeOK
  <2>2. LightSteps(level)[step].value \in SUBSET Bits
    BY <1>1, <2>1, Steps DEF CscTypeOK
  <2>3. CscTypeOK'
    BY <1>1, <1>6, <2>2, FailureCases DEF LightsFail, CscTypeOK, Ports
  <2> QED BY <1>1, <2>1, <2>3 DEF LInv, Held, Running, LitForReal
<1>7. ASSUME NEW u \in Updates, Latch(u)
      PROVE  LInv'
  <2>1. u.value \in SUBSET Bits /\ u.port \in Ports
    BY <1>7, UpdatesAssumption DEF Latch, Update
  <2>2. hw' \in [Ports -> SUBSET Bits] /\ shadow' \in [Ports -> SUBSET Bits]
    <3>1. CASE Succeeds(u.port, u)
      BY <1>1, <2>1, <3>1, SuccessCases
    <3>2. CASE Fails(u.port, u)
      <4>1. hw' \in [Ports -> SUBSET Bits] /\ shadow' = shadow
        BY <1>1, <2>1, <3>2, FailureCases
      <4> QED BY <1>1, <4>1 DEF CscTypeOK
    <3> QED BY <1>7, <3>1, <3>2 DEF Latch
  <2>3. CscTypeOK'
    BY <1>1, <1>7, <2>2 DEF Latch, CscTypeOK
  <2> QED BY <1>7, <2>3 DEF Latch, LInv, Held, Running, LitForReal
<1>8. CASE UNCHANGED cscVars
  BY <1>1, <1>8 DEF cscVars, LInv, CscTypeOK, Held, Running, LitForReal
<1> QED BY <1>2, <1>3, <1>4, <1>5, <1>6, <1>7, <1>8 DEF CscNext

LEMMA LInitInv == CscInit => LInv
<1>1. LevelBits \in SUBSET Bits /\ ~Exceeds(LevelBits, LevelBits)
  BY DEF LevelBits, Bits, Exceeds
<1>2. ASSUME CscInit PROVE CscTypeOK
  <2>1. hw \in [Ports -> SUBSET Bits] /\ shadow \in [Ports -> SUBSET Bits]
    BY <1>2 DEF CscInit
  <2>2. level \in SUBSET Bits /\ step \in 0 .. 9
    BY <1>1, <1>2 DEF CscInit
  <2>3. enabled \in BOOLEAN /\ lit \in BOOLEAN /\ acked \in SUBSET Updates
    BY <1>2 DEF CscInit
  <2> QED BY <2>1, <2>2, <2>3 DEF CscTypeOK
<1>3. CscInit => step = 1 /\ level = LevelBits /\ ~lit
  BY DEF CscInit
<1>4. CscInit => Held
  BY <1>3 DEF Held
<1>5. CscInit => Running
  BY <1>1, <1>3 DEF Running
<1>6. CscInit => LitForReal
  BY <1>3 DEF LitForReal
<1> QED BY <1>2, <1>4, <1>5, <1>6 DEF LInv

-----------------------------------------------------------------------------
(* The inductive invariant: bit 27 is down before its call in every run of *)
(* the sequence, so that call writes the register and ends any staleness.  *)
THEOREM LatchInvariance == CscSpec => []LInv
BY LInitInv, LNextInv, PTL DEF CscSpec

(* Registers and copy are 32-bit values in every reachable state.          *)
THEOREM LatchTypeCorrect == CscSpec => []CscTypeOK
<1>1. LInv => CscTypeOK
  BY DEF LInv
<1> QED BY <1>1, LatchInvariance, PTL

(* When wing_enable_csc_lights reports success the supplies are on, for    *)
(* every accepted argument and after every history.                        *)
THEOREM LitForRealHolds == CscSpec => []LitForReal
<1>1. LInv => LitForReal
  BY DEF LInv
<1> QED BY <1>1, LatchInvariance, PTL
-----------------------------------------------------------------------------
(* For an argument inside the mask the copy holds, before each call, none  *)
(* of the supplies but those already raised.                               *)
Raised ==
  step \in 2 .. 9 /\ level \subseteq LevelBits =>
    /\ step = 2 => shadow[0] \intersect EnableBits \subseteq {6}
    /\ step \in {3, 4} => shadow[0] \intersect EnableBits = {}
    /\ step = 5 => shadow[0] \intersect EnableBits \subseteq {6}
    /\ step = 6 => shadow[0] \intersect EnableBits \subseteq {6, 7}
    /\ step = 7 => shadow[0] \intersect EnableBits \subseteq {6, 7, 27}
    /\ step = 8 => shadow[0] \intersect EnableBits \subseteq {6, 7, 27, 28}
    /\ step = 9 => shadow[0] \intersect EnableBits \subseteq {6, 7, 27, 28, 29}

RInv == LInv /\ Raised

(* The register word each call of the sequence asks for.                   *)
LEMMA WantedInSequence ==
  ASSUME RInv, step \in 1 .. 9, level \subseteq LevelBits
  PROVE  LET w == Wanted(0, LightSteps(level)[step])
             e == w \intersect EnableBits
         IN  /\ step = 1 => e \subseteq {6}
             /\ step \in {2, 3} => e = {}
             /\ step = 4 => e \subseteq {6}
             /\ step = 5 => e \subseteq {6, 7}
             /\ step = 6 => e \subseteq {6, 7, 27}
             /\ step = 7 => e \subseteq {6, 7, 27, 28}
             /\ step = 8 => e \subseteq {6, 7, 27, 28, 29}
             /\ step \in 4 .. 9 => w \intersect LevelBits \subseteq shadow[0]
             /\ step \in {1, 2} => w \intersect LevelBits \subseteq shadow[0]
<1> DEFINE w == Wanted(0, LightSteps(level)[step])
<1>1. CscTypeOK /\ Raised /\ level \in SUBSET Bits
  BY DEF RInv, LInv, CscTypeOK
<1>2. \A x, m : Wanted(0, Write(x, m)) = (shadow[0] \ m) \union x
  BY DEF Write, Wanted
<1>3. \A x : Wanted(0, Write(x, {})) = shadow[0] \union x
  BY <1>2
<1>4. \A b \in {6, 7, 8, 18, 27, 28, 29} : b \notin LevelBits
  BY DEF LevelBits
<1> HIDE DEF w
<1>5. CASE step = 1
  <2>1. w = shadow[0] \ Cleared
    BY <1>1, <1>2, <1>5, Steps DEF w
  <2>2. EnableBits \ {6} \subseteq Cleared
    BY DEF EnableBits, Cleared
  <2> QED BY <1>5, <2>1, <2>2 DEF w
<1>6. CASE step = 2
  <2>1. w = (shadow[0] \ {6}) \union {18}
    BY <1>1, <1>2, <1>6, Steps DEF w
  <2>2. 18 \notin EnableBits /\ 18 \notin LevelBits
    BY DEF EnableBits, LevelBits
  <2> QED BY <1>1, <1>6, <2>1, <2>2 DEF Raised, w
<1>7. CASE step = 3
  <2>1. w = (shadow[0] \ LevelBits) \union level
    BY <1>1, <1>2, <1>7, Steps DEF w
  <2>2. LevelBits \intersect EnableBits = {}
    BY DEF EnableBits, LevelBits
  <2> QED BY <1>1, <1>7, <2>1, <2>2 DEF Raised, w
<1>8. CASE step = 4
  <2>1. w = shadow[0] \union {6}
    BY <1>1, <1>3, <1>8, Steps DEF w
  <2> QED BY <1>1, <1>4, <1>8, <2>1 DEF Raised, w
<1>9. CASE step = 5
  <2>1. w = shadow[0] \union {7}
    BY <1>1, <1>3, <1>9, Steps DEF w
  <2> QED BY <1>1, <1>4, <1>9, <2>1 DEF Raised, w
<1>10. CASE step = 6
  <2>1. w = shadow[0] \union {27}
    BY <1>1, <1>3, <1>10, Steps DEF w
  <2> QED BY <1>1, <1>4, <1>10, <2>1 DEF Raised, w
<1>11. CASE step = 7
  <2>1. w = shadow[0] \union {28}
    BY <1>1, <1>3, <1>11, Steps DEF w
  <2> QED BY <1>1, <1>4, <1>11, <2>1 DEF Raised, w
<1>12. CASE step = 8
  <2>1. w = shadow[0] \union {29}
    BY <1>1, <1>3, <1>12, Steps DEF w
  <2> QED BY <1>1, <1>4, <1>12, <2>1 DEF Raised, w
<1>13. CASE step = 9
  <2>1. w = shadow[0] \union {8}
    BY <1>1, <1>3, <1>13, Steps DEF w
  <2> QED BY <1>1, <1>4, <1>13, <2>1 DEF Raised, w
<1>14. step \in {1, 2, 3} \/ step \in {4, 5, 6} \/ step \in {7, 8, 9}
  OBVIOUS
<1> QED BY <1>5, <1>6, <1>7, <1>8, <1>9, <1>10, <1>11, <1>12, <1>13, <1>14

LEMMA RNextInv == RInv /\ [CscNext]_cscVars => RInv'
<1> SUFFICES ASSUME RInv, [CscNext]_cscVars PROVE RInv'
  OBVIOUS
<1>1. LInv' /\ CscTypeOK /\ Raised
  BY LNextInv DEF RInv, LInv
<1>2. CASE LightStep
  <2>1. step \in 1 .. 8 /\ step' = step + 1 /\ level' = level
    BY <1>1, <1>2 DEF LightStep, CscTypeOK
  <2> DEFINE w == Wanted(0, LightSteps(level)[step])
  <2>2. shadow'[0] = w
    BY <1>2, <2>1, StepHeld DEF LightStep, RInv
  <2>3. level \subseteq LevelBits =>
          /\ step = 1 => w \intersect EnableBits \subseteq {6}
          /\ step \in {2, 3} => w \intersect EnableBits = {}
          /\ step = 4 => w \intersect EnableBits \subseteq {6}
          /\ step = 5 => w \intersect EnableBits \subseteq {6, 7}
          /\ step = 6 => w \intersect EnableBits \subseteq {6, 7, 27}
          /\ step = 7 => w \intersect EnableBits \subseteq {6, 7, 27, 28}
          /\ step = 8 => w \intersect EnableBits \subseteq {6, 7, 27, 28, 29}
    BY <2>1, WantedInSequence
  <2> HIDE DEF w
  <2>4. Raised'
    BY <2>1, <2>2, <2>3 DEF Raised
  <2> QED BY <1>1, <2>4 DEF RInv
<1>3. CASE step' \in {0, 1}
  BY <1>1, <1>3 DEF RInv, Raised
<1>4. CASE UNCHANGED cscVars
  BY <1>1, <1>4 DEF RInv, Raised, cscVars
<1>5. LightStep \/ step' \in {0, 1} \/ UNCHANGED cscVars
  BY DEF CscNext, Restart, BeginLights, LastLightStep, LightsFail, Latch
<1> QED BY <1>2, <1>3, <1>4, <1>5

(* The word on the bus is either not written or the wanted one.            *)
LEMMA RegisterStep ==
  ASSUME RInv, CscNext, step > 0
  PROVE  hw'[0] = hw[0] \/ (step \in 1 .. 9 /\ hw'[0] = Wanted(0, LightSteps(level)[step]))
<1>1. CscTypeOK /\ step \in 1 .. 9 /\ 0 \in Ports
  BY DEF RInv, LInv, CscTypeOK, Ports
<1>2. LightSteps(level)[step].value \in SUBSET Bits
  BY <1>1, Steps DEF CscTypeOK
<1>3. CASE Succeeds(0, LightSteps(level)[step])
  BY <1>1, <1>2, <1>3, SuccessCases
<1>4. CASE Fails(0, LightSteps(level)[step])
  BY <1>1, <1>2, <1>4, FailureCases
<1>5. CASE hw' = hw
  BY <1>5
<1>6. Succeeds(0, LightSteps(level)[step]) \/ Fails(0, LightSteps(level)[step]) \/ hw' = hw
  BY <1>1 DEF CscNext, Restart, BeginLights, LightStep, LastLightStep, LightsFail, Latch
<1> QED BY <1>1, <1>3, <1>4, <1>5, <1>6

LEMMA RInitInv == CscInit => RInv
BY LInitInv DEF CscInit, RInv, Raised

THEOREM RaisedInvariance == CscSpec => []RInv
BY RInitInv, RNextInv, PTL DEF CscSpec

(* The supplies come up one after the other, in every run of the sequence. *)
THEOREM EnableOrderHolds == CscSpec => EnableOrder
<1>1. RInv /\ [CscNext]_cscVars =>
        [step > 0 /\ level \subseteq LevelBits =>
           \A i \in 1 .. 6 :
             Enables[i] \in hw'[0] \ hw[0] =>
               \A j \in 1 .. i - 1 : Enables[j] \in hw'[0]]_cscVars
  <2> SUFFICES ASSUME RInv, CscNext, step > 0, level \subseteq LevelBits,
                      NEW i \in 1 .. 6, Enables[i] \in hw'[0] \ hw[0],
                      NEW j \in 1 .. i - 1
               PROVE  Enables[j] \in hw'[0]
    OBVIOUS
  <2> DEFINE w == Wanted(0, LightSteps(level)[step])
  <2>1. step \in 1 .. 9 /\ hw'[0] = w
    BY RegisterStep
  <2>2. /\ step = 1 => w \intersect EnableBits \subseteq {6}
        /\ step \in {2, 3} => w \intersect EnableBits = {}
        /\ step = 4 => w \intersect EnableBits \subseteq {6}
        /\ step = 5 => w \intersect EnableBits \subseteq {6, 7}
        /\ step = 6 => w \intersect EnableBits \subseteq {6, 7, 27}
        /\ step = 7 => w \intersect EnableBits \subseteq {6, 7, 27, 28}
        /\ step = 8 => w \intersect EnableBits \subseteq {6, 7, 27, 28, 29}
    BY <2>1, WantedInSequence
  <2>3. /\ step \in 5 .. 9 => 6 \in w
        /\ step \in 6 .. 9 => 7 \in w
        /\ step \in 7 .. 9 => 27 \in w
        /\ step \in 8 .. 9 => 28 \in w
        /\ step = 9 => 29 \in w
    <3>1. Held
      BY DEF RInv, LInv
    <3>2. step \in 4 .. 9 => shadow[0] \subseteq w
      <4>1. \A x : Wanted(0, Write(x, {})) = shadow[0] \union x
        BY DEF Wanted, Write
      <4>2. level \in SUBSET Bits
        BY DEF RInv, LInv, CscTypeOK
      <4>3. step = 4 \/ step = 5 \/ step = 6 \/ step = 7 \/ step = 8 \/ step = 9
              => \E x : LightSteps(level)[step] = Write(x, {})
        BY <4>2, Steps
      <4> QED BY <4>1, <4>3
    <3> HIDE DEF w
    <3> QED BY <2>1, <3>1, <3>2 DEF Held
  <2> HIDE DEF w
  <2>4. /\ Enables[1] = 6 /\ Enables[2] = 7 /\ Enables[3] = 27
        /\ Enables[4] = 28 /\ Enables[5] = 29 /\ Enables[6] = 8
        /\ \A b \in {6, 7, 27, 28, 29, 8} : b \in EnableBits
    BY DEF Enables, EnableBits
  <2>5. Enables[i] \in w
    BY <2>1
  <2>6. CASE i = 1
    BY <2>6
  <2>7. CASE i = 2
    <3>1. j = 1 /\ step \in 5 .. 9
      BY <2>1, <2>2, <2>4, <2>5, <2>7
    <3> QED BY <2>1, <2>3, <2>4, <3>1
  <2>8. CASE i = 3
    <3>1. j \in {1, 2} /\ step \in 6 .. 9
      BY <2>1, <2>2, <2>4, <2>5, <2>8
    <3> QED BY <2>1, <2>3, <2>4, <3>1
  <2>9. CASE i = 4
    <3>1. j \in {1, 2, 3} /\ step \in 7 .. 9
      BY <2>1, <2>2, <2>4, <2>5, <2>9
    <3> QED BY <2>1, <2>3, <2>4, <3>1
  <2>10. CASE i = 5
    <3>1. j \in {1, 2, 3, 4} /\ step \in 8 .. 9
      BY <2>1, <2>2, <2>4, <2>5, <2>10
    <3> QED BY <2>1, <2>3, <2>4, <3>1
  <2>11. CASE i = 6
    <3>1. j \in {1, 2, 3, 4, 5} /\ step = 9
      BY <2>1, <2>2, <2>4, <2>5, <2>11
    <3> QED BY <2>1, <2>3, <2>4, <3>1
  <2> QED BY <2>6, <2>7, <2>8, <2>9, <2>10, <2>11
<1> QED BY <1>1, RaisedInvariance, PTL DEF CscSpec, EnableOrder

(* No transfer of the sequence raises a level under a supply that stays on.*)
THEOREM LevelsWhileDarkHolds == CscSpec => LevelsWhileDark
<1>1. RInv /\ [CscNext]_cscVars =>
        [step > 0 /\ level \subseteq LevelBits /\ shadow[0] \in {hw[0], {}}
         /\ (hw'[0] \ hw[0]) \intersect LevelBits # {}
           => EnableBits \intersect hw'[0] = {}]_cscVars
  <2> SUFFICES ASSUME RInv, CscNext, step > 0, level \subseteq LevelBits,
                      shadow[0] \in {hw[0], {}},
                      (hw'[0] \ hw[0]) \intersect LevelBits # {}
               PROVE  EnableBits \intersect hw'[0] = {}
    OBVIOUS
  <2>1. step \in 1 .. 9 /\ hw'[0] = Wanted(0, LightSteps(level)[step])
    BY RegisterStep
  <2> DEFINE w == Wanted(0, LightSteps(level)[step])
  <2>2. /\ step = 3 => w \intersect EnableBits = {}
        /\ step \in 4 .. 9 => w \intersect LevelBits \subseteq shadow[0]
        /\ step \in {1, 2} => w \intersect LevelBits \subseteq shadow[0]
    BY <2>1, WantedInSequence
  <2> HIDE DEF w
  <2>3. ~(w \intersect LevelBits \subseteq shadow[0])
    BY <2>1 DEF w
  <2>4. step = 3
    BY <2>1, <2>2, <2>3
  <2> QED BY <2>1, <2>2, <2>4 DEF w
<1> QED BY <1>1, RaisedInvariance, PTL DEF CscSpec, LevelsWhileDark
=============================================================================
