-------------------------- MODULE PinMonitor_proofs --------------------------
(***************************************************************************)
(* Proofs about the pin monitor FPGA: what the counters of a pin say, for  *)
(* any limits, any samples and windows of any length (PinTelemetry), and   *)
(* that the SPI finds its frames again after transfers that stopped        *)
(* anywhere (PinSpi).                                                      *)
(***************************************************************************)
EXTENDS PinTelemetry, PinSpi, FiniteSetTheorems, TLAPS

Registers == [probe_d1 : Levels, probe_d2 : Levels, high_cnt : Nat, edge_cnt : Nat,
              activity : BOOLEAN, saw_high : BOOLEAN, saw_low : BOOLEAN,
              cur_pulse : Nat, min_pulse : Nat]

Types == pin \in Registers /\ seen \in Seq(Levels) /\ before.level \in Levels

Counted ==
  /\ pin.edge_cnt = UpTo(CMax, Cardinality(Edges))
  /\ pin.high_cnt = UpTo(CMax, Cardinality(Highs))
  /\ pin.activity <=> Edges # {}
  /\ pin.saw_high <=> Highs # {}
  /\ pin.saw_low <=> Highs # DOMAIN seen

\* The second synchronizer stage holds the last sample, and cur_pulse the
\* length of the pulse that began at the last edge.
InPulse ==
  /\ Samples[Len(seen) + 1] = pin.probe_d2
  /\ \A e \in Edges :
       (\A k \in Edges : k <= e) => pin.cur_pulse = UpTo(PMax, Len(seen) - e + 1)

Shorter == \A n \in WholePulses : pin.min_pulse <= UpTo(PMax, n)

\* While no transfer fails, the host reads the words of a pin that the FPGA has
\* seen active, and nothing resets the counters in between.
Orderly ==
  /\ rst_counters => phase \in {"clear", "cleared"}
  /\ phase \in {"clear", "cleared", "sample", "mask", "word0"} => shown = Nothing
  /\ phase \in {"word0", "word1"} => pin.activity
  /\ phase = "word1" => DOMAIN shown = DOMAIN Nothing /\ shown.edge_cnt > 0
  /\ phase = "shown" /\ shown # Nothing => shown.edge_cnt > 0

Reading ==
  /\ rst_counters \in BOOLEAN /\ failed \in BOOLEAN
  /\ phase \in {"clear", "cleared", "sample", "mask", "word0", "word1", "shown"}
  /\ ~failed => Orderly

PInv == Types /\ Counted /\ InPulse /\ Shorter /\ Reading

-----------------------------------------------------------------------------
LEMMA UpToFacts ==
  ASSUME NEW b \in Nat, NEW n \in Nat
  PROVE  /\ UpTo(b, n) \in Nat /\ UpTo(b, n) <= n
         /\ UpTo(b, UpTo(b, n) + 1) = UpTo(b, n + 1)
BY DEF UpTo

LEMMA SamplesFacts ==
  ASSUME NEW l \in Levels, NEW s \in Seq(Levels)
  PROVE  \A i \in 1 .. Len(s) + 1 : (<<l>> \o s)[i] = IF i = 1 THEN l ELSE s[i - 1]
BY DEF Levels

(* One sample more: the sets of edges and of high samples.                  *)
LEMMA SampleFacts ==
  ASSUME Types, NEW x \in Levels, seen' = Append(seen, x), before' = before
  PROVE  /\ Len(seen) \in Nat /\ seen' \in Seq(Levels) /\ Len(seen') = Len(seen) + 1
         /\ DOMAIN seen = 1 .. Len(seen) /\ DOMAIN seen' = 1 .. Len(seen) + 1
         /\ \A i \in 1 .. Len(seen) + 1 : Samples'[i] = Samples[i]
         /\ Samples'[Len(seen) + 2] = x
         /\ Edges \subseteq 1 .. Len(seen) /\ Highs \subseteq 1 .. Len(seen)
         /\ Edges' = Edges \union (IF Samples[Len(seen) + 1] # x THEN {Len(seen) + 1} ELSE {})
         /\ Highs' = Highs \union (IF x = 1 THEN {Len(seen) + 1} ELSE {})
<1>1. /\ seen \in Seq(Levels) /\ before.level \in Levels /\ Len(seen) \in Nat
      /\ seen' \in Seq(Levels) /\ Len(seen') = Len(seen) + 1
      /\ DOMAIN seen = 1 .. Len(seen) /\ DOMAIN seen' = 1 .. Len(seen) + 1
      /\ \A i \in 1 .. Len(seen) : seen'[i] = seen[i]
      /\ seen'[Len(seen) + 1] = x
  BY DEF Types
<1>2. \A i \in 1 .. Len(seen) + 1 : Samples[i] = IF i = 1 THEN before.level ELSE seen[i - 1]
  BY <1>1, SamplesFacts DEF Samples
<1>3. \A i \in 1 .. Len(seen') + 1 : (<<before.level>> \o seen')[i] = IF i = 1 THEN before.level ELSE seen'[i - 1]
  BY <1>1, SamplesFacts
<1>4. /\ \A i \in 1 .. Len(seen) + 1 : Samples'[i] = Samples[i]
      /\ Samples'[Len(seen) + 2] = x
  <2>1. Samples' = <<before.level>> \o seen'
    BY DEF Samples
  <2>2. ASSUME NEW i \in 1 .. Len(seen) + 1 PROVE Samples'[i] = Samples[i]
    BY <1>1, <1>2, <1>3, <2>1
  <2>3. Samples'[Len(seen) + 2] = x
    BY <1>1, <1>3, <2>1
  <2> QED BY <2>2, <2>3
<1>5. Edges' = Edges \union (IF Samples[Len(seen) + 1] # x THEN {Len(seen) + 1} ELSE {})
  <2>1. Edges = {i \in 1 .. Len(seen) : Samples[i + 1] # Samples[i]}
    BY <1>1 DEF Edges
  <2>2. Edges' = {i \in 1 .. Len(seen) + 1 : Samples'[i + 1] # Samples'[i]}
    BY <1>1 DEF Edges
  <2>3. ASSUME NEW i \in 1 .. Len(seen)
        PROVE  Samples'[i + 1] # Samples'[i] <=> Samples[i + 1] # Samples[i]
    BY <1>1, <1>4
  <2>4. Samples'[(Len(seen) + 1) + 1] = x /\ Samples'[Len(seen) + 1] = Samples[Len(seen) + 1]
    BY <1>1, <1>4
  <2>5. 1 .. Len(seen) + 1 = (1 .. Len(seen)) \union {Len(seen) + 1}
    BY <1>1
  <2> QED BY <1>1, <2>1, <2>2, <2>3, <2>4, <2>5
<1>6. Highs' = Highs \union (IF x = 1 THEN {Len(seen) + 1} ELSE {})
  <2>1. 1 .. Len(seen) + 1 = (1 .. Len(seen)) \union {Len(seen) + 1}
    BY <1>1
  <2> QED BY <1>1, <2>1 DEF Highs
<1>7. Edges \subseteq 1 .. Len(seen) /\ Highs \subseteq 1 .. Len(seen)
  BY <1>1 DEF Edges, Highs
<1> QED BY <1>1, <1>4, <1>5, <1>6, <1>7

LEMMA NextCardinality ==
  ASSUME NEW n \in Nat, NEW S, S \subseteq 1 .. n, NEW b \in Nat
  PROVE  /\ Cardinality(S) \in Nat /\ (S # {} => Cardinality(S) > 0)
         /\ UpTo(b, Cardinality(S \union {n + 1})) = UpTo(b, UpTo(b, Cardinality(S)) + 1)
         /\ UpTo(b, Cardinality(S)) = UpTo(b, UpTo(b, Cardinality(S)) + 0)
<1>1. IsFiniteSet(1 .. n)
  BY FS_Interval
<1>2. IsFiniteSet(S)
  BY <1>1, FS_Subset
<1>3. Cardinality(S) \in Nat /\ (S # {} => Cardinality(S) > 0)
  BY <1>2, FS_CardinalityType, FS_EmptySet
<1>4. n + 1 \notin S
  OBVIOUS
<1>5. Cardinality(S \union {n + 1}) = Cardinality(S) + 1
  BY <1>2, <1>4, FS_AddElement
<1> QED BY <1>3, <1>5, UpToFacts DEF UpTo

(* The registers after one clock.                                           *)
LEMMA ClockedFacts ==
  ASSUME PInv, NEW p \in Levels, Clock(p), NEW edge, edge = (pin.probe_d1 # pin.probe_d2)
  PROVE  /\ pin' \in Registers /\ pin.probe_d1 \in Levels
         /\ seen' = Append(seen, pin.probe_d1) /\ before' = before
         /\ pin'.probe_d2 = pin.probe_d1
         /\ pin'.high_cnt = UpTo(CMax, pin.high_cnt + pin.probe_d1)
         /\ pin'.edge_cnt = UpTo(CMax, pin.edge_cnt + (IF edge THEN 1 ELSE 0))
         /\ pin'.activity <=> (pin.activity \/ edge)
         /\ pin'.saw_high <=> (pin.saw_high \/ pin.probe_d1 = 1)
         /\ pin'.saw_low <=> (pin.saw_low \/ pin.probe_d1 = 0)
         /\ pin'.cur_pulse = (IF edge THEN 1 ELSE UpTo(PMax, pin.cur_pulse + 1))
         /\ pin'.min_pulse = (IF edge /\ pin.cur_pulse # 0 /\ pin.cur_pulse < pin.min_pulse
                              THEN pin.cur_pulse ELSE pin.min_pulse)
<1>1. pin \in Registers /\ pin.probe_d1 \in Levels /\ CMax \in Nat /\ PMax \in Nat
  BY PinAssumption DEF PInv, Types, Registers
<1>2. /\ UpTo(CMax, pin.high_cnt + pin.probe_d1) \in Nat
      /\ UpTo(CMax, pin.edge_cnt + (IF edge THEN 1 ELSE 0)) \in Nat
      /\ UpTo(PMax, pin.cur_pulse + 1) \in Nat
      /\ pin.cur_pulse \in Nat /\ pin.min_pulse \in Nat
  BY <1>1 DEF UpTo, Registers, Levels
<1>3. edge \in BOOLEAN
  OBVIOUS
<1>4. Pulse(edge) \in Nat /\ Shortest(edge) \in Nat
  BY <1>2 DEF Pulse, Shortest
<1>5. pin' = [probe_d1 |-> p, probe_d2 |-> pin.probe_d1,
              high_cnt |-> UpTo(CMax, pin.high_cnt + pin.probe_d1),
              edge_cnt |-> UpTo(CMax, pin.edge_cnt + (IF edge THEN 1 ELSE 0)),
              activity |-> pin.activity \/ edge,
              saw_high |-> pin.saw_high \/ pin.probe_d1 = 1,
              saw_low |-> pin.saw_low \/ pin.probe_d1 = 0,
              cur_pulse |-> Pulse(edge), min_pulse |-> Shortest(edge)]
  BY DEF Clock, Clocked
<1>6. /\ (pin.activity \/ edge) \in BOOLEAN /\ (pin.saw_high \/ pin.probe_d1 = 1) \in BOOLEAN
      /\ (pin.saw_low \/ pin.probe_d1 = 0) \in BOOLEAN
  OBVIOUS
<1>7. pin' \in Registers
  BY <1>1, <1>2, <1>4, <1>5, <1>6 DEF Registers
<1>8. seen' = Append(seen, pin.probe_d1) /\ before' = before
  BY DEF Clock
<1>9. /\ Pulse(edge) = (IF edge THEN 1 ELSE UpTo(PMax, pin.cur_pulse + 1))
      /\ Shortest(edge) = (IF edge /\ pin.cur_pulse # 0 /\ pin.cur_pulse < pin.min_pulse
                           THEN pin.cur_pulse ELSE pin.min_pulse)
  BY DEF Pulse, Shortest
<1>10. /\ pin'.activity = (pin.activity \/ edge)
       /\ pin'.saw_high = (pin.saw_high \/ pin.probe_d1 = 1)
       /\ pin'.saw_low = (pin.saw_low \/ pin.probe_d1 = 0)
       /\ pin'.cur_pulse = Pulse(edge) /\ pin'.min_pulse = Shortest(edge)
       /\ pin'.probe_d2 = pin.probe_d1
       /\ pin'.high_cnt = UpTo(CMax, pin.high_cnt + pin.probe_d1)
       /\ pin'.edge_cnt = UpTo(CMax, pin.edge_cnt + (IF edge THEN 1 ELSE 0))
  BY <1>5
<1> QED BY <1>1, <1>7, <1>8, <1>9, <1>10

LEMMA ClockKeepsCounts ==
  ASSUME PInv, NEW p \in Levels, Clock(p)
  PROVE  Types' /\ Counted' /\ InPulse'
<1> DEFINE edge == pin.probe_d1 # pin.probe_d2
           x == pin.probe_d1
           n == Len(seen)
<1>1. /\ pin' \in Registers /\ x \in Levels
      /\ seen' = Append(seen, x) /\ before' = before /\ pin'.probe_d2 = x
      /\ pin'.high_cnt = UpTo(CMax, pin.high_cnt + x)
      /\ pin'.edge_cnt = UpTo(CMax, pin.edge_cnt + (IF edge THEN 1 ELSE 0))
      /\ pin'.activity <=> (pin.activity \/ edge)
      /\ pin'.saw_high <=> (pin.saw_high \/ x = 1)
      /\ pin'.saw_low <=> (pin.saw_low \/ x = 0)
      /\ pin'.cur_pulse = (IF edge THEN 1 ELSE UpTo(PMax, pin.cur_pulse + 1))
  BY ClockedFacts
<1>2. edge <=> Samples[n + 1] # x
  BY DEF PInv, InPulse
<1>3. /\ n \in Nat /\ seen' \in Seq(Levels) /\ Len(seen') = n + 1
      /\ DOMAIN seen = 1 .. n /\ DOMAIN seen' = 1 .. n + 1
      /\ Samples'[n + 2] = x
      /\ Edges \subseteq 1 .. n /\ Highs \subseteq 1 .. n
      /\ Edges' = Edges \union (IF edge THEN {n + 1} ELSE {})
      /\ Highs' = Highs \union (IF x = 1 THEN {n + 1} ELSE {})
  <2>1. Types
    BY DEF PInv
  <2> QED BY <1>1, <1>2, <2>1, SampleFacts
<1>4. CMax \in Nat /\ PMax \in Nat \ {0} /\ pin \in Registers
  BY PinAssumption DEF PInv, Types
<1> HIDE DEF edge, x, n
<1>5. Types'
  BY <1>1, <1>3 DEF PInv, Types
<1>6. pin'.edge_cnt = UpTo(CMax, Cardinality(Edges'))
  <2>1. pin.edge_cnt = UpTo(CMax, Cardinality(Edges))
    BY DEF PInv, Counted
  <2>2. /\ UpTo(CMax, Cardinality(Edges \union {n + 1})) = UpTo(CMax, UpTo(CMax, Cardinality(Edges)) + 1)
        /\ UpTo(CMax, Cardinality(Edges)) = UpTo(CMax, UpTo(CMax, Cardinality(Edges)) + 0)
    <3>1. n \in Nat /\ Edges \subseteq 1 .. n /\ CMax \in Nat
      BY <1>3, <1>4, Zenon
    <3> QED BY <3>1, NextCardinality, ZenonT(60)
  <2>3. CASE edge
    BY <1>1, <1>3, <2>1, <2>2, <2>3
  <2>4. CASE ~edge
    <3>1. Edges' = Edges
      BY <1>3, <2>4
    <3> QED BY <1>1, <2>1, <2>2, <2>4, <3>1
  <2> QED BY <2>3, <2>4
<1>7. pin'.high_cnt = UpTo(CMax, Cardinality(Highs'))
  <2>1. pin.high_cnt = UpTo(CMax, Cardinality(Highs))
    BY DEF PInv, Counted
  <2>2. /\ UpTo(CMax, Cardinality(Highs \union {n + 1})) = UpTo(CMax, UpTo(CMax, Cardinality(Highs)) + 1)
        /\ UpTo(CMax, Cardinality(Highs)) = UpTo(CMax, UpTo(CMax, Cardinality(Highs)) + 0)
    <3>1. n \in Nat /\ Highs \subseteq 1 .. n /\ CMax \in Nat
      BY <1>3, <1>4, Zenon
    <3> QED BY <3>1, NextCardinality, ZenonT(60)
  <2>3. CASE x = 1
    BY <1>1, <1>3, <2>1, <2>2, <2>3
  <2>4. CASE x # 1
    <3>1. Highs' = Highs /\ x = 0
      BY <1>1, <1>3, <2>4 DEF Levels
    <3> QED BY <1>1, <2>1, <2>2, <3>1
  <2> QED BY <2>3, <2>4
<1>8. /\ pin'.activity <=> Edges' # {}
      /\ pin'.saw_high <=> Highs' # {}
  <2>1. /\ pin.activity <=> Edges # {}
        /\ pin.saw_high <=> Highs # {}
    BY DEF PInv, Counted
  <2> QED BY <1>1, <1>3, <2>1
<1>9. pin'.saw_low <=> Highs' # DOMAIN seen'
  <2>1. pin.saw_low <=> Highs # 1 .. n
    BY <1>3 DEF PInv, Counted
  <2>2. n + 1 \notin Highs /\ 1 .. n + 1 = (1 .. n) \union {n + 1} /\ n + 1 \notin 1 .. n
    BY <1>3
  <2>3. CASE x = 1
    <3>1. Highs' # 1 .. n + 1 <=> Highs # 1 .. n
      BY <1>3, <2>2, <2>3
    <3> QED BY <1>1, <1>3, <2>1, <2>3, <3>1
  <2>4. CASE x = 0
    <3>1. Highs' = Highs
      BY <1>3, <2>4
    <3> QED BY <1>1, <1>3, <2>2, <2>4, <3>1
  <2> QED BY <1>1, <2>3, <2>4 DEF Levels
<1>10. Counted'
  BY <1>6, <1>7, <1>8, <1>9 DEF Counted
<1>11. ASSUME NEW e \in Edges', \A k \in Edges' : k <= e
       PROVE  pin'.cur_pulse = UpTo(PMax, (n + 1) - e + 1)
  <2>1. CASE edge
    <3>1. e = n + 1
      BY <1>3, <1>11, <2>1
    <3> QED BY <1>1, <1>3, <1>4, <2>1, <3>1 DEF UpTo
  <2>2. CASE ~edge
    <3>1. Edges' = Edges /\ e \in 1 .. n
      BY <1>3, <2>2
    <3>2. pin.cur_pulse = UpTo(PMax, n - e + 1)
      BY <1>11, <3>1 DEF PInv, InPulse, n
    <3>3. n - e + 1 \in Nat /\ (n - e + 1) + 1 = (n + 1) - e + 1
      BY <1>3, <3>1
    <3> QED BY <1>1, <1>4, <2>2, <3>2, <3>3, UpToFacts
  <2> QED BY <2>1, <2>2
<1>12. InPulse'
  <2>1. Samples'[Len(seen') + 1] = pin'.probe_d2
    BY <1>1, <1>3
  <2> QED BY <1>3, <1>11, <2>1 DEF InPulse
<1> QED BY <1>5, <1>10, <1>12

(* A pulse that ends was as long as cur_pulse says.                         *)
LEMMA ClockKeepsShorter ==
  ASSUME PInv, NEW p \in Levels, Clock(p)
  PROVE  Shorter'
<1> DEFINE edge == pin.probe_d1 # pin.probe_d2
           n == Len(seen)
<1>1. /\ seen' = Append(seen, pin.probe_d1) /\ before' = before /\ pin.probe_d1 \in Levels
      /\ pin'.min_pulse = (IF edge /\ pin.cur_pulse # 0 /\ pin.cur_pulse < pin.min_pulse
                           THEN pin.cur_pulse ELSE pin.min_pulse)
      /\ pin.cur_pulse \in Nat /\ pin.min_pulse \in Nat
  <2>1. pin.cur_pulse \in Nat /\ pin.min_pulse \in Nat
    BY DEF PInv, Types, Registers
  <2> QED BY <2>1, ClockedFacts
<1>2. edge <=> Samples[n + 1] # pin.probe_d1
  BY DEF PInv, InPulse
<1>3. /\ n \in Nat /\ Edges \subseteq 1 .. n
      /\ Edges' = Edges \union (IF edge THEN {n + 1} ELSE {})
  <2>1. Types
    BY DEF PInv
  <2> QED BY <1>1, <1>2, <2>1, SampleFacts
<1>4. PMax \in Nat \ {0}
  BY PinAssumption
<1> HIDE DEF edge
<1> SUFFICES ASSUME NEW m \in WholePulses' PROVE pin'.min_pulse <= UpTo(PMax, m)
  BY DEF Shorter
<1>5. PICK i \in Edges', j \in Edges' : m = j - i /\ i < j /\ \A k \in Edges' : k <= i \/ k >= j
  BY DEF WholePulses
<1>6. CASE j \in Edges
  <2>1. i \in Edges
    BY <1>3, <1>5, <1>6
  <2>2. <<i, j>> \in Edges \X Edges /\ \A k \in Edges : k <= i \/ k >= j
    BY <1>3, <1>5, <1>6, <2>1
  <2>3. m \in WholePulses
    BY <1>5, <2>2 DEF WholePulses
  <2>4. pin.min_pulse <= UpTo(PMax, m) /\ UpTo(PMax, m) \in Int
    <3>1. m \in Nat
      BY <1>3, <1>5, <1>6, <2>1
    <3> QED BY <1>4, <2>3, <3>1 DEF PInv, Shorter, UpTo
  <2> QED BY <1>1, <2>4
<1>7. CASE j \notin Edges
  <2>1. edge /\ j = n + 1 /\ i \in Edges
    BY <1>3, <1>5, <1>7
  <2>2. \A k \in Edges : k <= i
    BY <1>3, <1>5, <2>1
  <2>3. pin.cur_pulse = UpTo(PMax, n - i + 1)
    BY <2>1, <2>2 DEF PInv, InPulse
  <2>4. m = n - i + 1 /\ m \in Nat \ {0}
    BY <1>3, <1>5, <2>1
  <2>5. pin.cur_pulse = UpTo(PMax, m) /\ pin.cur_pulse # 0
    BY <1>4, <2>3, <2>4 DEF UpTo
  <2> QED BY <1>1, <2>1, <2>5
<1> QED BY <1>6, <1>7

(* A clock touches nothing of the host, and no pin becomes inactive.        *)
LEMMA ClockKeepsActivity ==
  ASSUME PInv, NEW p \in Levels, Clock(p)
  PROVE  pin.activity => pin'.activity
BY ClockedFacts

LEMMA TickKeepsPInv == ASSUME PInv, NEW p \in Levels, Tick(p) PROVE PInv'
<1>1. Clock(p) /\ UNCHANGED <<rst_counters, phase, shown, failed>>
  BY DEF Tick
<1>2. Reading'
  BY <1>1, ClockKeepsActivity DEF PInv, Reading, Orderly
<1> QED BY <1>1, <1>2, ClockKeepsCounts, ClockKeepsShorter DEF PInv

LEMMA ClearKeepsPInv ==
  ASSUME PInv, NEW p \in Levels, ClearCounters(p) \/ ClearAstray(p)
  PROVE  PInv'
<1>1. CASE ClearCounters(p)
  <2>1. /\ Clock(p) /\ phase = "clear" /\ phase' = "cleared" /\ rst_counters' = TRUE
        /\ shown' = shown /\ failed' = failed
    BY <1>1 DEF ClearCounters
  <2>2. Reading'
    BY <2>1 DEF PInv, Reading, Orderly
  <2> QED BY <2>1, <2>2, ClockKeepsCounts, ClockKeepsShorter DEF PInv
<1>2. CASE ClearAstray(p)
  <2>1. /\ Clock(p) /\ (failed \/ phase = "clear") /\ rst_counters' = TRUE
        /\ UNCHANGED <<phase, shown, failed>>
    BY <1>2 DEF ClearAstray
  <2>2. Reading'
    BY <2>1 DEF PInv, Reading, Orderly
  <2> QED BY <2>1, <2>2, ClockKeepsCounts, ClockKeepsShorter DEF PInv
<1> QED BY <1>1, <1>2

LEMMA NoneSeen ==
  ASSUME seen = <<>>
  PROVE  Edges = {} /\ Highs = {} /\ WholePulses = {} /\ DOMAIN seen = {} /\ Len(seen) = 0
         /\ Samples[1] = before.level
<1>1. Edges = {} /\ Highs = {} /\ DOMAIN seen = {} /\ Len(seen) = 0
  BY DEF Edges, Highs
<1>2. WholePulses = {}
  BY <1>1 DEF WholePulses
<1>3. Samples[1] = before.level
  BY DEF Samples
<1> QED BY <1>1, <1>2, <1>3

(* The reset keeps the synchronizer: what it holds is the level before.     *)
LEMMA ResetKeepsPInv == ASSUME PInv, Reset PROVE PInv'
<1>1. /\ pin' = Cleared /\ rst_counters' = FALSE /\ before'.level = pin.probe_d2
      /\ seen' = <<>> /\ rst_counters /\ UNCHANGED <<phase, shown, failed>>
      /\ pin \in Registers /\ PMax \in Nat /\ CMax \in Nat
  BY PinAssumption DEF Reset, PInv, Types
<1>2. /\ pin' \in Registers /\ pin'.probe_d2 = pin.probe_d2 /\ pin.probe_d2 \in Levels
      /\ pin'.high_cnt = 0 /\ pin'.edge_cnt = 0
      /\ pin'.activity = FALSE /\ pin'.saw_high = FALSE /\ pin'.saw_low = FALSE
  BY <1>1 DEF Cleared, Registers
<1>3. /\ Edges' = {} /\ Highs' = {} /\ WholePulses' = {} /\ DOMAIN seen' = {} /\ Len(seen') = 0
      /\ Samples'[1] = before'.level
  <2>1. Edges' = {} /\ Highs' = {} /\ DOMAIN seen' = {} /\ Len(seen') = 0
    BY <1>1 DEF Edges, Highs
  <2>2. WholePulses' = {}
    BY <2>1 DEF WholePulses
  <2>3. Samples'[1] = before'.level
    BY <1>1 DEF Samples
  <2> QED BY <2>1, <2>2, <2>3
<1>4. Types'
  BY <1>1, <1>2 DEF Types
<1>5. Counted'
  <2>1. UpTo(CMax, Cardinality({})) = 0
    BY <1>1, FS_EmptySet DEF UpTo
  <2> QED BY <1>2, <1>3, <2>1 DEF Counted
<1>6. InPulse' /\ Shorter'
  BY <1>1, <1>2, <1>3 DEF InPulse, Shorter
<1>7. Reading'
  BY <1>1 DEF PInv, Reading, Orderly
<1> QED BY <1>4, <1>5, <1>6, <1>7 DEF PInv

LEMMA PInvInit == Init => PInv
<1> SUFFICES ASSUME Init PROVE PInv
  OBVIOUS
<1>1. /\ pin \in Registers /\ pin.high_cnt = 0 /\ pin.edge_cnt = 0
      /\ pin.activity = FALSE /\ pin.saw_high = FALSE /\ pin.saw_low = FALSE
      /\ before.level = pin.probe_d2 /\ pin.probe_d2 \in Levels /\ seen = <<>>
      /\ CMax \in Nat
  <2>1. pin \in [probe_d1 : Levels, probe_d2 : Levels, high_cnt : {0}, edge_cnt : {0},
                 activity : {FALSE}, saw_high : {FALSE}, saw_low : {FALSE},
                 cur_pulse : {0}, min_pulse : {0}]
        /\ before \in [level : {pin.probe_d2}, length : 1 .. PMax] /\ seen = <<>>
    BY DEF Init
  <2>2. /\ pin.high_cnt = 0 /\ pin.edge_cnt = 0 /\ pin.cur_pulse = 0 /\ pin.min_pulse = 0
        /\ pin.activity = FALSE /\ pin.saw_high = FALSE /\ pin.saw_low = FALSE
        /\ pin.probe_d1 \in Levels /\ pin.probe_d2 \in Levels
    BY <2>1
  <2>3. pin \in Registers
    <3> DEFINE Start(a, b) == [probe_d1 |-> a, probe_d2 |-> b, high_cnt |-> 0, edge_cnt |-> 0,
                               activity |-> FALSE, saw_high |-> FALSE, saw_low |-> FALSE,
                               cur_pulse |-> 0, min_pulse |-> 0]
    <3>1. ASSUME NEW a \in Levels, NEW b \in Levels PROVE Start(a, b) \in Registers
      BY DEF Registers
    <3>2. pin = Start(pin.probe_d1, pin.probe_d2)
      BY <2>1, <2>2
    <3> HIDE DEF Start
    <3> QED BY <2>2, <3>1, <3>2
  <2>4. before.level = pin.probe_d2
    BY <2>1
  <2> QED BY <2>1, <2>2, <2>3, <2>4, PinAssumption
<1>2. Types
  BY <1>1 DEF Types
<1>3. Counted
  <2>1. UpTo(CMax, Cardinality({})) = 0
    BY <1>1, FS_EmptySet DEF UpTo
  <2> QED BY <1>1, <2>1, NoneSeen DEF Counted
<1>4. InPulse /\ Shorter
  BY <1>1, NoneSeen DEF InPulse, Shorter
<1>5. Reading
  BY DEF Init, Reading, Orderly
<1> QED BY <1>2, <1>3, <1>4, <1>5 DEF PInv

LEMMA SampledIsKept ==
  ASSUME PInv, UNCHANGED <<pin, before, seen>>
  PROVE  Types' /\ Counted' /\ InPulse' /\ Shorter'
<1>1. Edges' = Edges /\ Highs' = Highs /\ WholePulses' = WholePulses /\ Samples' = Samples
  BY DEF Edges, Highs, WholePulses, Samples
<1> QED BY <1>1 DEF PInv, Types, Counted, InPulse, Shorter

(* The mask says active only if there is an edge, and edge_cnt counts it.   *)
LEMMA ActiveHasEdges == ASSUME PInv, pin.activity PROVE pin.edge_cnt > 0
<1>1. Edges # {}
  BY DEF PInv, Counted
<1>2. Len(seen) \in Nat /\ Edges \subseteq 1 .. Len(seen)
  BY DEF PInv, Types, Edges
<1>3. Cardinality(Edges) \in Nat /\ Cardinality(Edges) > 0
  BY <1>1, <1>2, PinAssumption, NextCardinality
<1> QED BY <1>3, PinAssumption DEF PInv, Counted, UpTo

LEMMA HostKeepsPInv ==
  ASSUME PInv, \/ StartScan \/ TransferFails \/ ClearLost
               \/ StartSampling \/ StopSampling \/ ReadMask \/ ReadWord0 \/ ReadWord1
  PROVE  PInv'
<1>1. UNCHANGED <<pin, before, seen, rst_counters>>
  BY DEF StartScan, TransferFails, ClearLost, StartSampling, StopSampling, ReadMask, ReadWord0,
         ReadWord1
<1>2. SUFFICES Reading'
  BY <1>1, SampledIsKept DEF PInv
<1>3. CASE StartScan
  <2>1. /\ phase = "shown" /\ phase' = "clear" /\ ~rst_counters
        /\ shown' = Nothing /\ failed' = FALSE
    BY <1>3 DEF StartScan, ToPhase
  <2> QED BY <1>1, <2>1 DEF PInv, Reading, Orderly
<1>4. CASE TransferFails
  BY <1>1, <1>4 DEF TransferFails, PInv, Reading
<1>5. CASE ClearLost
  BY <1>1, <1>5 DEF ClearLost, ToPhase, PInv, Reading
<1>6. CASE StartSampling \/ StopSampling
  BY <1>1, <1>6 DEF StartSampling, StopSampling, ToPhase, PInv, Reading, Orderly
<1>7. CASE ReadMask
  <2>1. /\ phase = "mask" /\ ~rst_counters /\ shown' = shown /\ failed' = failed
        /\ \/ phase' = "word0" /\ (pin.activity \/ failed)
           \/ phase' = "shown"
    BY <1>7 DEF ReadMask, ToPhase
  <2> QED BY <1>1, <2>1 DEF PInv, Reading, Orderly
<1>8. CASE ReadWord0
  <2>1. PICK n \in Answers(pin.edge_cnt, CMax) : shown' = [shown EXCEPT !.edge_cnt = n]
    BY <1>8 DEF ReadWord0
  <2>2. /\ phase = "word0" /\ phase' = "word1" /\ ~rst_counters /\ failed' = failed
    BY <1>8 DEF ReadWord0, ToPhase
  <2>3. ~failed => /\ shown = Nothing /\ n = pin.edge_cnt /\ pin.activity
    BY <2>2 DEF PInv, Reading, Orderly, Answers
  <2>4. ~failed => DOMAIN shown' = DOMAIN Nothing /\ shown'.edge_cnt > 0
    BY <2>1, <2>3, ActiveHasEdges DEF Nothing
  <2> QED BY <1>1, <2>2, <2>3, <2>4 DEF PInv, Reading, Orderly
<1>9. CASE ReadWord1
  <2>1. PICK h \in Answers(pin.high_cnt, CMax) : \E w \in Answers(pin.min_pulse, PMax) :
          shown' = [shown EXCEPT !.high_cnt = h, !.min_pulse = w]
    BY <1>9 DEF ReadWord1
  <2>2. /\ phase = "word1" /\ phase' = "shown" /\ ~rst_counters /\ failed' = failed
    BY <1>9 DEF ReadWord1, ToPhase
  <2>3. ~failed => DOMAIN shown = DOMAIN Nothing /\ shown.edge_cnt > 0
    BY <2>2 DEF PInv, Reading, Orderly
  <2>4. ~failed => shown'.edge_cnt > 0
    <3>1. PICK w \in Answers(pin.min_pulse, PMax) :
            shown' = [shown EXCEPT !.high_cnt = h, !.min_pulse = w]
      BY <2>1
    <3> QED BY <3>1, <2>3 DEF Nothing
  <2> QED BY <1>1, <2>2, <2>4 DEF PInv, Reading, Orderly
<1> QED BY <1>3, <1>4, <1>5, <1>6, <1>7, <1>8, <1>9

LEMMA PInvNext == PInv /\ [Next]_vars => PInv'
<1> SUFFICES ASSUME PInv, [Next]_vars PROVE PInv'
  OBVIOUS
<1>1. CASE UNCHANGED vars
  <2>1. Reading'
    BY <1>1 DEF vars, PInv, Reading, Orderly
  <2> QED BY <1>1, <2>1, SampledIsKept DEF vars, PInv
<1> QED
  BY <1>1, TickKeepsPInv, ClearKeepsPInv, ResetKeepsPInv, HostKeepsPInv DEF Next

-----------------------------------------------------------------------------
(* The counters say what the pin did since the reset, whatever their widths *)
(* and however long the window.                                             *)
THEOREM CountersAreTrueHolds == Spec => []CountersAreTrue
<1>1. PInv => CountersAreTrue
  BY DEF PInv, Counted, CountersAreTrue
<1> QED BY <1>1, PInvInit, PInvNext, PTL DEF Spec

(* No pulse seen whole is shorter than min_pulse.                           *)
THEOREM NoPulseIsMissedHolds == Spec => []NoPulseIsMissed
<1>1. PInv => NoPulseIsMissed
  BY DEF PInv, Shorter, NoPulseIsMissed
<1> QED BY <1>1, PInvInit, PInvNext, PTL DEF Spec

(* A pin listed as active is shown with at least one edge, though the mask  *)
(* and the words are read in different frames: in a scan in which no        *)
(* transfer failed, whatever failed in the scans before it.                 *)
THEOREM ReadOutAgreesHolds == Spec => []ReadOutAgrees
<1>1. PInv => ReadOutAgrees
  BY DEF PInv, Reading, Orderly, ReadOutAgrees, IsShown
<1> QED BY <1>1, PInvInit, PInvNext, PTL DEF Spec

-----------------------------------------------------------------------------
(* The framing of the SPI: wherever the engine is when a transfer starts,  *)
(* it waits for a preamble when the transfer is whole.                     *)

L == Len(Preamble)

\* All that is ever shifted in.
Levels01 == {Frame(t)[k] : t \in Transfers, k \in 1 .. L + FrameBits} \cup {0}

\* The window of the last bits holds what the transfer has sent so far, but
\* for the zeros that the end of a frame has left in it.
Window(sync, frame, b) ==
  \A i \in 1 .. L :
    b - L + i >= 1 => \/ sync[i] = frame[b - L + i]
                      \/ \A k \in 1 .. i : sync[k] = 0

SyncTypeOK ==
  /\ fpga = [active |-> fpga.active, cnt |-> fpga.cnt, sync |-> fpga.sync,
             cmd |-> fpga.cmd, wdata |-> fpga.wdata]
  /\ fpga.active \in BOOLEAN /\ fpga.cnt \in 0 .. FrameBits - 1
  /\ fpga.sync \in Seq(Levels01) /\ Len(fpga.sync) = L
  /\ todo \in Seq(Transfers)
  /\ bit \in 0 .. L + FrameBits /\ (todo = << >> => bit = 0)
  /\ whole \in 0 .. Enough

\* A frame that is under way ends before the transfer does.
SyncInv ==
  /\ SyncTypeOK
  /\ todo # << >> /\ fpga.active => bit <= L + fpga.cnt
  /\ todo # << >> /\ ~fpga.active => Window(fpga.sync, Frame(todo[1]), bit)
  /\ bit = 0 /\ whole >= 1 => ~fpga.active

LEMMA Sizes == L \in Nat \ {0} /\ FrameBits \in Nat /\ FrameBits >= 24
<1>1. Preamble \in Seq({0, 1}) /\ Preamble # << >>
  BY SpiAssumption
<1>2. L \in Nat \ {0}
  BY <1>1 DEF L
<1> QED BY <1>2, SpiAssumption DEF FrameBits, CmdBits, TrailerBits

LEMMA OperationsAreTransfers == Operations \subseteq Seq(Transfers)
<1>1. ASSUME NEW i \in Pins
      PROVE  Telemetry(i) \in Seq(Transfers)
  <2>1. WriteReg(3, i) \in Transfers /\ ReadReg(4) \in Transfers
        /\ ReadReg(5) \in Transfers /\ ReadReg(6) \in Transfers
    BY DEF Transfers
  <2> QED BY <2>1 DEF Telemetry
<1>2. ASSUME NEW r \in Fixed
      PROVE  Poll(r) \in Seq(Transfers)
  <2>1. ReadReg(r) \in Transfers
    BY DEF Transfers
  <2> QED BY <2>1 DEF Poll
<1>3. ClearOperation \in Seq(Transfers)
  <2>1. WriteReg(2, 1) \in Transfers
    BY DEF Transfers
  <2> QED BY <2>1 DEF ClearOperation
<1> QED BY <1>1, <1>2, <1>3 DEF Operations

LEMMA ShiftFacts ==
  ASSUME NEW S, NEW s \in Seq(S), s # << >>, NEW x \in S
  PROVE  /\ ShiftIn(s, x) \in Seq(S) /\ Len(ShiftIn(s, x)) = Len(s)
         /\ \A i \in 1 .. Len(s) - 1 : ShiftIn(s, x)[i] = s[i + 1]
         /\ ShiftIn(s, x)[Len(s)] = x
BY DEF ShiftIn

LEMMA BitShifts ==
  ASSUME NEW s \in Seq(Levels01), s # << >>, NEW x \in Levels01
  PROVE  /\ \A i \in 1 .. Len(s) - 1 : ShiftIn(s, x)[i] = s[i + 1]
         /\ ShiftIn(s, x)[Len(s)] = x
BY DEF ShiftIn

(* One more bit is shifted into the window.                                *)
LEMMA WindowShifts ==
  ASSUME NEW sync \in Seq(Levels01), Len(sync) = L, NEW frame, NEW b \in 0 .. L + FrameBits - 1,
         frame[b + 1] \in Levels01, Window(sync, frame, b)
  PROVE  Window(ShiftIn(sync, frame[b + 1]), frame, b + 1)
<1> DEFINE new == ShiftIn(sync, frame[b + 1])
<1>1. L \in Nat \ {0} /\ b \in Nat
  BY Sizes
<1>2. /\ \A i \in 1 .. L - 1 : new[i] = sync[i + 1]
      /\ new[L] = frame[b + 1]
  <2>1. sync # << >>
    BY <1>1
  <2>2. /\ \A i \in 1 .. Len(sync) - 1 : new[i] = sync[i + 1]
        /\ new[Len(sync)] = frame[b + 1]
    <3>1. PICK x \in Levels01 : x = frame[b + 1]
      OBVIOUS
    <3>2. /\ \A i \in 1 .. Len(sync) - 1 : ShiftIn(sync, x)[i] = sync[i + 1]
          /\ ShiftIn(sync, x)[Len(sync)] = x
      BY <2>1, BitShifts, ZenonT(60)
    <3> QED BY <3>1, <3>2, Zenon
  <2> QED BY <2>2
<1> HIDE DEF new
<1>3. ASSUME NEW i \in 1 .. L, b + 1 - L + i >= 1
      PROVE  new[i] = frame[b + 1 - L + i] \/ \A k \in 1 .. i : new[k] = 0
  <2>1. CASE i = L
    BY <1>1, <1>2, <2>1
  <2>2. CASE i # L
    <3>1. i + 1 \in 1 .. L /\ b - L + (i + 1) >= 1 /\ b - L + (i + 1) = b + 1 - L + i
      BY <1>1, <1>3, <2>2
    <3>2. CASE sync[i + 1] = frame[b - L + (i + 1)]
      BY <1>1, <1>2, <2>2, <3>1, <3>2
    <3>3. CASE \A k \in 1 .. i + 1 : sync[k] = 0
      <4>1. ASSUME NEW k \in 1 .. i
            PROVE  new[k] = 0
        <5>1. k \in 1 .. L - 1 /\ k + 1 \in 1 .. i + 1
          BY <1>1, <2>2
        <5> QED BY <1>2, <3>3, <5>1
      <4> QED BY <4>1
    <3> QED BY <3>1, <3>2, <3>3 DEF Window
  <2> QED BY <2>1, <2>2
<1> QED BY <1>3, SMTT(60) DEF Window, new

(* The preamble is not found past the start of a transfer.                 *)
LEMMA NoLateMatch ==
  ASSUME NEW t \in Transfers, NEW b \in L + 1 .. L + FrameBits, Window(Preamble, Frame(t), b)
  PROVE  FALSE
<1>1. L \in Nat \ {0} /\ FrameBits \in Nat
  BY Sizes
<1>2. Preamble[1] = 1
  BY SyncAssumption
<1>3. ASSUME NEW i \in 1 .. L
      PROVE  Frame(t)[(b - L) + i] = Preamble[i]
  <2>1. b - L + i >= 1 /\ 1 \in 1 .. i /\ b - L + i = (b - L) + i
    BY <1>1
  <2> QED BY <1>2, <2>1 DEF Window
<1>4. b - L \in 1 .. FrameBits
  BY <1>1
<1> QED BY <1>3, <1>4, SyncAssumption DEF NoEcho, L

LEMMA ClockKeepsSync == ASSUME SyncInv, ClockBit PROVE SyncInv'
<1> DEFINE frame == Frame(todo[1])
           mosi == frame[bit + 1]
           sync == ShiftIn(fpga.sync, mosi)
<1>1. /\ todo # << >> /\ bit < L + FrameBits /\ Rise(mosi)
      /\ bit' = bit + 1 /\ todo' = todo /\ whole' = whole
  BY DEF ClockBit, L
<1>2. L \in Nat \ {0} /\ FrameBits \in Nat /\ FrameBits >= 24 /\ bit \in Nat
  BY Sizes DEF SyncInv, SyncTypeOK
<1>3. todo[1] \in Transfers
  BY <1>1 DEF SyncInv, SyncTypeOK
<1>4. mosi \in Levels01 /\ 0 \in Levels01
  <2>1. bit + 1 \in 1 .. L + FrameBits
    BY <1>1, <1>2
  <2> QED BY <1>3, <2>1 DEF Levels01
<1>5. /\ fpga.sync \in Seq(Levels01) /\ Len(fpga.sync) = L /\ fpga.sync # << >>
  BY <1>2 DEF SyncInv, SyncTypeOK
<1>6. sync \in Seq(Levels01) /\ Len(sync) = L
  <2>1. sync \in Seq(Levels01) /\ Len(sync) = Len(fpga.sync)
    <3> HIDE DEF mosi, frame
    <3> QED BY <1>4, <1>5, ShiftFacts, ZenonT(60)
  <2> QED BY <1>5, <2>1
<1>7. bit' \in 0 .. L + FrameBits /\ bit' # 0
  BY <1>1, <1>2
<1>8. CASE ~fpga.active
  <2>1. Window(fpga.sync, frame, bit)
    BY <1>1, <1>8 DEF SyncInv
  <2>2. Window(sync, frame, bit')
    <3>1. bit \in 0 .. L + FrameBits - 1
      BY <1>1, <1>2
    <3> QED BY <1>1, <1>4, <1>5, <2>1, <3>1, WindowShifts
  <2> HIDE DEF sync, frame, mosi
  <2>3. CASE sync = Preamble
    <3>1. fpga' = [fpga EXCEPT !.sync = sync, !.active = TRUE, !.cnt = 0, !.cmd = Zeros(CmdBits)]
      BY <1>1, <1>8, <2>3 DEF Rise, sync
    <3>2. fpga' = [active |-> TRUE, cnt |-> 0, sync |-> sync, cmd |-> Zeros(CmdBits),
                   wdata |-> fpga.wdata]
      BY <3>1 DEF SyncInv, SyncTypeOK
    <3>3. bit' <= L
      BY <1>2, <1>3, <1>7, <2>2, <2>3, NoLateMatch DEF frame
    <3>4. SyncTypeOK'
      BY <1>1, <1>2, <1>6, <1>7, <3>2 DEF SyncInv, SyncTypeOK
    <3> QED BY <1>2, <1>7, <3>2, <3>3, <3>4 DEF SyncInv
  <2>4. CASE sync # Preamble
    <3>1. fpga' = [fpga EXCEPT !.sync = sync]
      BY <1>1, <1>8, <2>4 DEF Rise, sync
    <3>2. fpga' = [active |-> FALSE, cnt |-> fpga.cnt, sync |-> sync, cmd |-> fpga.cmd,
                   wdata |-> fpga.wdata]
      BY <1>8, <3>1 DEF SyncInv, SyncTypeOK
    <3>3. SyncTypeOK'
      BY <1>1, <1>2, <1>6, <1>7, <3>2 DEF SyncInv, SyncTypeOK
    <3>4. Window(fpga'.sync, Frame(todo'[1]), bit')
      BY <1>1, <2>2, <3>2 DEF frame
    <3> QED BY <1>7, <3>2, <3>3, <3>4 DEF SyncInv
  <2> QED BY <2>3, <2>4
<1>9. CASE fpga.active
  <2>1. /\ DOMAIN fpga' = {"active", "cnt", "sync", "cmd", "wdata"}
        /\ fpga' = [active |-> fpga'.active, cnt |-> fpga'.cnt, sync |-> fpga'.sync,
                    cmd |-> fpga'.cmd, wdata |-> fpga'.wdata]
        /\ fpga'.active = (fpga.cnt # LastBit)
        /\ fpga'.cnt = IF fpga.cnt = LastBit THEN 0 ELSE fpga.cnt + 1
        /\ fpga'.sync = IF fpga.cnt = LastBit THEN Zeros(L) ELSE fpga.sync
    BY <1>1, <1>9 DEF Rise, L
  <2>2. Zeros(L) \in Seq(Levels01) /\ Len(Zeros(L)) = L /\ \A k \in 1 .. L : Zeros(L)[k] = 0
    BY <1>2, <1>4 DEF Zeros
  <2>3. fpga.cnt \in 0 .. FrameBits - 1 /\ bit <= L + fpga.cnt
    BY <1>1, <1>9 DEF SyncInv, SyncTypeOK
  <2> HIDE DEF sync, frame, mosi
  <2>4. SyncTypeOK'
    BY <1>1, <1>2, <1>5, <1>7, <2>1, <2>2, <2>3, SMTT(60) DEF SyncInv, SyncTypeOK, LastBit
  <2>5. CASE fpga.cnt = LastBit
    <3>1. ~fpga'.active /\ fpga'.sync = Zeros(L)
      BY <2>1, <2>5
    <3>2. Window(fpga'.sync, Frame(todo'[1]), bit')
      BY <1>2, <2>2, <3>1 DEF Window
    <3> QED BY <1>7, <2>4, <3>1, <3>2 DEF SyncInv
  <2>6. CASE fpga.cnt # LastBit
    <3>1. fpga'.active /\ fpga'.cnt = fpga.cnt + 1
      BY <2>1, <2>6
    <3>2. bit' <= L + fpga'.cnt
      BY <1>1, <1>2, <2>3, <3>1
    <3> QED BY <1>7, <2>4, <3>1, <3>2 DEF SyncInv
  <2> QED BY <2>5, <2>6
<1> QED BY <1>8, <1>9 DEF SyncInv, SyncTypeOK

(* At the start of a transfer nothing of it is in the window yet.          *)
LEMMA StartsAnew ==
  ASSUME SyncInv, fpga' = fpga, bit' = 0, todo' \in Seq(Transfers), whole' \in 0 .. Enough,
         whole' >= 1 => ~fpga.active
  PROVE  SyncInv'
<1>1. L \in Nat \ {0} /\ FrameBits \in Nat /\ fpga.cnt \in 0 .. FrameBits - 1
  BY Sizes DEF SyncInv, SyncTypeOK
<1>2. SyncTypeOK'
  BY <1>1, SMTT(60) DEF SyncInv, SyncTypeOK
<1>3. Window(fpga'.sync, Frame(todo'[1]), bit')
  BY <1>1 DEF Window
<1> QED BY <1>1, <1>2, <1>3 DEF SyncInv

LEMMA SyncInit == SpiInit => SyncInv
<1> SUFFICES ASSUME SpiInit
             PROVE  SyncInv
  OBVIOUS
<1>1. L \in Nat \ {0} /\ FrameBits \in Nat /\ FrameBits >= 24
  BY Sizes
<1>2. /\ fpga = [active |-> FALSE, cnt |-> 0, sync |-> Zeros(L),
                 cmd |-> Zeros(CmdBits), wdata |-> Zeros(CmdBits)]
      /\ todo = << >> /\ bit = 0 /\ whole = Enough
  BY DEF SpiInit, L
<1>3. Zeros(L) \in Seq(Levels01) /\ Len(Zeros(L)) = L
  BY <1>1 DEF Zeros, Levels01
<1> QED BY <1>1, <1>2, <1>3 DEF SyncInv, SyncTypeOK, Enough

LEMMA SyncNext == SyncInv /\ [SpiNext]_spiVars => SyncInv'
<1> SUFFICES ASSUME SyncInv, [SpiNext]_spiVars
             PROVE  SyncInv'
  OBVIOUS
<1>1. CASE Begin
  <2>1. todo = << >> /\ bit = 0 /\ op' \in Operations /\ todo' = op' /\ bit' = bit
        /\ fpga' = fpga /\ whole' = whole
    BY <1>1 DEF Begin, spi, SyncInv, SyncTypeOK
  <2>2. todo' \in Seq(Transfers)
    BY <2>1, OperationsAreTransfers
  <2> QED BY <2>1, <2>2, StartsAnew DEF SyncInv, SyncTypeOK
<1>2. CASE ClockBit
  BY <1>2, ClockKeepsSync
<1>3. ASSUME NEW word, Returns(word), todo # << >>
      PROVE  fpga' = fpga /\ bit' = 0 /\ todo' \in Seq(Transfers)
  BY <1>3 DEF Returns, spi, SyncInv, SyncTypeOK
<1>4. CASE Done
  <2>1. L \in Nat \ {0} /\ FrameBits \in Nat /\ FrameBits >= 24
    BY Sizes
  <2>2. bit = L + FrameBits /\ todo # << >>
    BY <1>4, <2>1 DEF Done, L, SyncInv, SyncTypeOK
  <2>3. fpga' = fpga /\ bit' = 0 /\ todo' \in Seq(Transfers)
    BY <1>3, <1>4, <2>2 DEF Done
  <2>4. ~fpga.active
    BY <2>1, <2>2, SMTT(60) DEF SyncInv, SyncTypeOK
  <2>5. whole' \in 0 .. Enough
    BY <1>4, SMTT(60) DEF Done, SyncInv, SyncTypeOK, Enough
  <2> QED BY <2>3, <2>4, <2>5, StartsAnew
<1>5. CASE Fails
  <2>1. fpga' = fpga /\ bit' = 0 /\ todo' \in Seq(Transfers)
    BY <1>3, <1>5 DEF Fails
  <2>2. whole' = 0
    BY <1>5 DEF Fails
  <2> QED BY <2>1, <2>2, StartsAnew DEF Enough
<1>6. CASE UNCHANGED spiVars
  BY <1>6 DEF spiVars, SyncInv, SyncTypeOK, Window
<1> QED BY <1>1, <1>2, <1>4, <1>5, <1>6 DEF SpiNext

(* Wherever in a frame a transfer stopped, and however often, the engine   *)
(* waits for a preamble again at the end of the next whole transfer: for   *)
(* any preamble that starts with a one and is found nowhere else in a      *)
(* frame, any width of the data and any number of failures.                *)
THEOREM InSyncAgainHolds == SpiSpec => []InSyncAgain
<1>1. SyncInv => InSyncAgain
  BY DEF SyncInv, InSyncAgain
<1> QED BY <1>1, SyncInit, SyncNext, PTL DEF SpiSpec
=============================================================================
