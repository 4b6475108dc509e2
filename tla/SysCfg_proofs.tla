--------------------------- MODULE SysCfg_proofs ----------------------------
(***************************************************************************)
(* wing-syscfg --apply-mac for any storage, any interfaces and any outcome *)
(* of the ioctls: proofs about module SysCfg.                              *)
(***************************************************************************)
EXTENDS SysCfg, WellFoundedInduction, TLAPS

Names == DOMAIN Interfaces
Macs == {NoValue} \union {Wanted(i) : i \in Names}

\* Where main is in auto_discover_config.
LoadingAt == {"flash", "block", "scan", "file", "chunk"}

Load == \/ ReadFlash \/ ParseToken \/ FlashDone \/ OpenPath \/ ReadChunk
        \/ ChunkDone \/ EndOfFile \/ NothingFound

Types ==
  /\ pc \in LoadingAt \union {"loaded", "apply", "done"}
  /\ links \in [Names -> [mac : Macs, up : BOOLEAN]]
  /\ cur \in [name : Names \union {NoKey}, orig : BOOLEAN, res : BOOLEAN,
              stage : {"idle", "flags", "down", "set", "restore"}]
  /\ todo \subseteq Names /\ applied \subseteq Names

\* Where an interface is in apply_interface_mac.
Stages ==
  /\ cur.stage = "idle" => cur = Idle
  /\ cur.stage # "idle" => pc = "apply" /\ cur.name \in Names /\ Eligible(cur.name)
                           /\ cur.name \notin todo \union applied
  /\ cur.stage = "flags" => ~cur.orig
  /\ cur.res => cur.stage = "restore"
  /\ todo \intersect applied = {}
  /\ pc \in LoadingAt \union {"loaded"} => todo = {} /\ applied = {}

\* The interfaces whose address has been set: those that are counted, and the
\* one that is about to be.
IsSet(i) == i \in applied \/ (cur.name = i /\ cur.res)

Addressed ==
  \A i \in Names :
    /\ IsSet(i) => Eligible(i) /\ links[i].mac = Wanted(i)
    /\ ~IsSet(i) => links[i].mac = NoValue

SInv == Types /\ Stages /\ Addressed /\ StatusIsTrue

-----------------------------------------------------------------------------
LEMMA SInvInit == Init => SInv
<1> SUFFICES ASSUME Init PROVE SInv
  OBVIOUS
<1> PICK up \in [Names -> BOOLEAN] : links = [i \in Names |-> [mac |-> NoValue, up |-> up[i]]]
  BY DEF Init, Names
<1>1. NoValue \in Macs
  BY DEF Macs
<1>2. links \in [Names -> [mac : Macs, up : BOOLEAN]]
  BY <1>1
<1>3. Types
  BY <1>2 DEF Types, Init, Idle, LoadingAt
<1>4. Stages
  BY DEF Stages, Init, Idle, LoadingAt
<1>5. Addressed
  BY DEF Addressed, IsSet, Init, Idle
<1>6. StatusIsTrue
  BY DEF StatusIsTrue, Ran, Init
<1> QED BY <1>3, <1>4, <1>5, <1>6 DEF SInv

(* While the configuration is read no interface is touched.                 *)
LEMMA LoadKeepsSInv ==
  ASSUME SInv, Load
  PROVE  SInv'
<1>1. /\ pc \in LoadingAt /\ pc' \in LoadingAt \union {"loaded", "done"}
      /\ pc' = "done" => rc' = 1
      /\ UNCHANGED running
  BY DEF Load, LoadingAt, ReadFlash, ParseToken, FlashDone, OpenPath, ReadChunk, ChunkDone,
         EndOfFile, NothingFound
<1>2. links' = links /\ cur' = cur /\ todo' = todo /\ applied' = applied
  BY <1>1 DEF running
<1>3. cur = Idle /\ applied = {} /\ todo = {}
  BY <1>1 DEF SInv, Types, Stages, LoadingAt
<1>4. \A i \in Names : links[i].mac = NoValue
  BY <1>3 DEF SInv, Addressed, IsSet, Idle
<1>5. links \in [Names -> [mac : {NoValue}, up : BOOLEAN]]
  BY <1>4 DEF SInv, Types
<1>6. NoValue \in Macs'
  BY DEF Macs, NoValue, Text, Mac
<1>7. links' \in [Names -> [mac : Macs', up : BOOLEAN]]
  BY <1>2, <1>5, <1>6
<1>8. Types'
  BY <1>1, <1>2, <1>7 DEF SInv, Types, Names, LoadingAt
<1>9. Stages'
  BY <1>1, <1>2, <1>3 DEF Stages, Idle
<1>10. Addressed'
  BY <1>2, <1>3, <1>4 DEF Addressed, IsSet, Idle, NoValue, Text, Mac, Names
<1>11. StatusIsTrue'
  BY <1>1, <1>2, <1>4, <1>8 DEF StatusIsTrue, Ran, Types, NoValue, Text, Mac, Names
<1> QED BY <1>8, <1>9, <1>10, <1>11 DEF SInv

-----------------------------------------------------------------------------
(* Once it is read the configuration stays, and with it what is wanted.     *)
LEMMA SameMacs ==
  ASSUME store' = store
  PROVE  /\ Macs' = Macs /\ NoValue' = NoValue /\ Names' = Names /\ Idle' = Idle
         /\ \A i \in Names : Wanted(i)' = Wanted(i) /\ Eligible(i)' = Eligible(i)
BY DEF Macs, NoValue, Text, Wanted, Mac, Names, Idle, NoKey, Eligible, Skipped

(* An action that leaves the addresses and the set ones alone.              *)
LEMMA AddressedKept ==
  ASSUME SInv, store' = store,
         \A i \in Names : IsSet(i)' = IsSet(i) /\ links'[i].mac = links[i].mac
  PROVE  Addressed'
BY SameMacs DEF SInv, Addressed

LEMMA NotDone ==
  ASSUME Types', pc' \in LoadingAt \union {"loaded", "apply"}
  PROVE  StatusIsTrue'
BY DEF StatusIsTrue, Ran, LoadingAt

LEMMA AnswerKeepsSInv == SInv /\ Answer => SInv'
<1> SUFFICES ASSUME SInv, Answer PROVE SInv'
  OBVIOUS
<1>1. /\ pc = "loaded" /\ store' = store /\ links' = links /\ cur' = cur /\ applied' = applied
      /\ pc' = (IF apply THEN "apply" ELSE "done") /\ apply' = apply
      /\ todo' \in {{}, Names}
  BY DEF Answer, Names, reading, machine
<1>2. cur = Idle /\ applied = {}
  BY <1>1 DEF SInv, Types, Stages
<1>3. Types'
  BY <1>1, SameMacs DEF SInv, Types
<1>4. Stages'
  BY <1>1, <1>2, SameMacs DEF Stages, Idle, LoadingAt
<1>5. Addressed'
  BY <1>1, AddressedKept DEF IsSet
<1>6. StatusIsTrue'
  BY <1>1 DEF StatusIsTrue, Ran
<1> QED BY <1>3, <1>4, <1>5, <1>6 DEF SInv

LEMMA RefuseKeepsSInv == SInv /\ Refuse => SInv'
<1> SUFFICES ASSUME SInv, Refuse PROVE SInv'
  OBVIOUS
<1>1. /\ pc = "apply" /\ cur = Idle /\ applied = {} /\ pc' = "done" /\ rc' = 1 /\ todo' = {}
      /\ store' = store /\ links' = links /\ cur' = cur /\ applied' = applied
  BY DEF Refuse, loading, reading
<1>2. Types'
  BY <1>1, SameMacs DEF SInv, Types
<1>3. Stages'
  BY <1>1, SameMacs DEF Stages, Idle
<1>4. Addressed'
  BY <1>1, AddressedKept DEF IsSet
<1>5. \A i \in Names : links[i].mac = NoValue
  BY <1>1 DEF SInv, Addressed, IsSet, Idle
<1>6. DOMAIN links = Names
  BY DEF SInv, Types
<1>7. StatusIsTrue'
  BY <1>1, <1>5, <1>6, SameMacs DEF StatusIsTrue, Ran
<1> QED BY <1>2, <1>3, <1>4, <1>7 DEF SInv

LEMMA SkipKeepsSInv == ASSUME NEW i \in Names PROVE SInv /\ Skip(i) => SInv'
<1> SUFFICES ASSUME SInv, Skip(i) PROVE SInv'
  OBVIOUS
<1>1. /\ pc = "apply" /\ cur = Idle /\ todo' = todo \ {i} /\ pc' = pc /\ rc' = rc
      /\ store' = store /\ links' = links /\ cur' = cur /\ applied' = applied
  BY DEF Skip, loading, reading
<1>2. Types'
  BY <1>1, SameMacs DEF SInv, Types
<1>3. Stages'
  BY <1>1, SameMacs DEF SInv, Stages, Idle
<1>4. Addressed'
  BY <1>1, AddressedKept DEF IsSet
<1> QED BY <1>1, <1>2, <1>3, <1>4, NotDone DEF SInv

(* SIOCSIFHWADDR at once, or the way over the flags.                        *)
LEMMA SetDirectKeepsSInv == ASSUME NEW i \in Names PROVE SInv /\ SetDirect(i) => SInv'
<1> SUFFICES ASSUME SInv, SetDirect(i) PROVE SInv'
  OBVIOUS
<1>1. /\ pc = "apply" /\ cur = Idle /\ i \in todo /\ Eligible(i) /\ todo' = todo \ {i}
      /\ pc' = pc /\ store' = store
  BY DEF SetDirect, loading, reading
<1>2. i \notin applied /\ todo \subseteq Names /\ applied \subseteq Names
  BY <1>1 DEF SInv, Types, Stages
<1>3. CASE /\ links' = [links EXCEPT ![i].mac = Wanted(i)]
           /\ applied' = applied \union {i} /\ cur' = cur
  <2>1. Wanted(i) \in Macs
    BY DEF Macs
  <2>2. links' \in [Names -> [mac : Macs, up : BOOLEAN]]
    BY <1>3, <2>1 DEF SInv, Types
  <2>3. links'[i].mac = Wanted(i) /\ \A j \in Names \ {i} : links'[j] = links[j]
    BY <1>3 DEF SInv, Types
  <2>4. Types'
    BY <1>1, <1>2, <1>3, <2>2, SameMacs DEF SInv, Types
  <2>5. Stages'
    BY <1>1, <1>2, <1>3, SameMacs DEF SInv, Stages, Idle
  <2>6. Addressed'
    BY <1>1, <1>2, <1>3, <2>3, SameMacs DEF SInv, Addressed, IsSet, Idle
  <2> QED BY <1>1, <2>4, <2>5, <2>6, NotDone DEF SInv
<1>4. CASE /\ cur' = [name |-> i, stage |-> "flags", orig |-> FALSE, res |-> FALSE]
           /\ links' = links /\ applied' = applied
  <2>1. Types'
    BY <1>1, <1>2, <1>4, SameMacs DEF SInv, Types
  <2>2. Stages'
    BY <1>1, <1>2, <1>4, SameMacs DEF SInv, Stages, Idle
  <2>3. Addressed'
    BY <1>1, <1>4, AddressedKept DEF IsSet, Idle
  <2> QED BY <1>1, <2>1, <2>2, <2>3, NotDone DEF SInv
<1> QED BY <1>3, <1>4 DEF SetDirect

(* Taking an interface down or up leaves the addresses alone.               *)
LEMMA UpFacts ==
  ASSUME NEW f \in [Names -> [mac : Macs, up : BOOLEAN]], NEW g, NEW n \in Names,
         \/ g = f
         \/ g = [f EXCEPT ![n].up = TRUE]
         \/ g = [f EXCEPT ![n].up = FALSE]
  PROVE  g \in [Names -> [mac : Macs, up : BOOLEAN]] /\ \A i \in Names : g[i].mac = f[i].mac
<1>1. ASSUME NEW u \in BOOLEAN, g = [f EXCEPT ![n].up = u]
      PROVE  g \in [Names -> [mac : Macs, up : BOOLEAN]] /\ \A i \in Names : g[i].mac = f[i].mac
  <2>1. f[n] \in [mac : Macs, up : BOOLEAN]
    OBVIOUS
  <2>2. [f[n] EXCEPT !.up = u] = [mac |-> f[n].mac, up |-> u]
    BY <2>1
  <2>3. g = [i \in Names |-> IF i = n THEN [mac |-> f[n].mac, up |-> u] ELSE f[i]]
    BY <1>1, <2>2
  <2> QED BY <2>1, <2>3
<1> QED BY <1>1

LEMMA GetFlagsKeepsSInv == SInv /\ GetFlags => SInv'
<1> SUFFICES ASSUME SInv, GetFlags PROVE SInv'
  OBVIOUS
<1>1. /\ cur.stage = "flags" /\ pc' = pc /\ rc' = rc /\ store' = store /\ links' = links
      /\ todo' = todo /\ applied' = applied
  BY DEF GetFlags, loading, reading
<1>2. ~cur.res /\ pc = "apply" /\ cur.name \in Names /\ links[cur.name].up \in BOOLEAN
  BY <1>1 DEF SInv, Types, Stages
<1>3. cur' = Idle \/ (/\ cur'.stage = "down" /\ cur'.name = cur.name /\ ~cur'.res
                      /\ cur' \in [name : Names \union {NoKey}, orig : BOOLEAN, res : BOOLEAN,
                                   stage : {"idle", "flags", "down", "set", "restore"}])
  BY <1>1, <1>2, ZenonT(60) DEF GetFlags, SInv, Types
<1>4. Types'
  <2>1. Idle \in [name : Names \union {NoKey}, orig : BOOLEAN, res : BOOLEAN,
                  stage : {"idle", "flags", "down", "set", "restore"}]
    BY DEF Idle
  <2> QED BY <1>1, <1>3, <2>1, SameMacs DEF SInv, Types
<1>5. Stages'
  BY <1>1, <1>2, <1>3, SameMacs DEF SInv, Stages, Idle
<1>6. Addressed'
  BY <1>1, <1>2, <1>3, AddressedKept DEF IsSet, Idle
<1> QED BY <1>1, <1>2, <1>4, <1>5, <1>6, NotDone DEF SInv

LEMMA TakeDownKeepsSInv == SInv /\ TakeDown => SInv'
<1> SUFFICES ASSUME SInv, TakeDown PROVE SInv'
  OBVIOUS
<1>1. /\ cur.stage = "down" /\ pc' = pc /\ rc' = rc /\ store' = store
      /\ todo' = todo /\ applied' = applied
      /\ links' = [links EXCEPT ![cur.name].up = FALSE] \/ links' = links
      /\ cur' = [cur EXCEPT !.stage = "set"]
  BY DEF TakeDown, loading, reading
<1>2. ~cur.res /\ pc = "apply" /\ cur.name \in Names
  BY <1>1 DEF SInv, Types, Stages
<1>3. /\ cur'.stage = "set" /\ cur'.name = cur.name /\ ~cur'.res
      /\ cur' \in [name : Names \union {NoKey}, orig : BOOLEAN, res : BOOLEAN,
                   stage : {"idle", "flags", "down", "set", "restore"}]
  BY <1>1, <1>2 DEF SInv, Types
<1>4. /\ links' \in [Names -> [mac : Macs, up : BOOLEAN]]
      /\ \A i \in Names : links'[i].mac = links[i].mac
  <2>1. links \in [Names -> [mac : Macs, up : BOOLEAN]]
    BY DEF SInv, Types
  <2> QED BY <1>1, <1>2, <2>1, UpFacts
<1>5. Types'
  BY <1>1, <1>3, <1>4, SameMacs DEF SInv, Types
<1>6. Stages'
  BY <1>1, <1>2, <1>3, SameMacs DEF SInv, Stages
<1>7. Addressed'
  BY <1>1, <1>2, <1>3, <1>4, AddressedKept DEF IsSet
<1> QED BY <1>1, <1>2, <1>5, <1>6, <1>7, NotDone DEF SInv

(* SIOCSIFHWADDR with the interface down.                                   *)
LEMMA SetDownKeepsSInv == SInv /\ SetDown => SInv'
<1> SUFFICES ASSUME SInv, SetDown PROVE SInv'
  OBVIOUS
<1> DEFINE n == cur.name
<1>1. /\ cur.stage = "set" /\ pc' = pc /\ rc' = rc /\ store' = store
      /\ todo' = todo /\ applied' = applied
  BY DEF SetDown, loading, reading
<1>2. ~cur.res /\ pc = "apply" /\ n \in Names /\ Eligible(n) /\ n \notin todo \union applied
  BY <1>1 DEF SInv, Types, Stages
<1>3. /\ cur'.stage = "restore" /\ cur'.name = n
      /\ cur' \in [name : Names \union {NoKey}, orig : BOOLEAN, res : BOOLEAN,
                   stage : {"idle", "flags", "down", "set", "restore"}]
  BY <1>1, <1>2, ZenonT(60) DEF SetDown, SInv, Types
<1>4. Stages'
  BY <1>1, <1>2, <1>3, SameMacs DEF SInv, Stages
<1>5. CASE links' = [links EXCEPT ![n].mac = Wanted(n)] /\ cur' = [cur EXCEPT !.stage = "restore", !.res = TRUE]
  <2>1. Wanted(n) \in Macs
    BY <1>2 DEF Macs
  <2>2. links' \in [Names -> [mac : Macs, up : BOOLEAN]]
    BY <1>2, <1>5, <2>1 DEF SInv, Types
  <2>3. links'[n].mac = Wanted(n) /\ \A j \in Names \ {n} : links'[j] = links[j]
    BY <1>2, <1>5 DEF SInv, Types
  <2>4. cur'.res
    BY <1>5 DEF SInv, Types
  <2>5. Types'
    BY <1>1, <1>3, <2>2, SameMacs DEF SInv, Types
  <2>6. Addressed'
    <3> SUFFICES ASSUME NEW i \in Names
                 PROVE  /\ IsSet(i)' => Eligible(i) /\ links'[i].mac = Wanted(i)
                        /\ ~IsSet(i)' => links'[i].mac = NoValue
      BY <1>1, SameMacs DEF Addressed
    <3>1. CASE i = n
      BY <1>2, <1>3, <2>3, <2>4, <3>1 DEF IsSet
    <3>2. CASE i # n
      BY <1>1, <1>2, <1>3, <2>3, <3>2 DEF SInv, Addressed, IsSet
    <3> QED BY <3>1, <3>2
  <2> QED BY <1>1, <1>2, <1>4, <2>5, <2>6, NotDone DEF SInv
<1>6. CASE links' = links /\ cur' = [cur EXCEPT !.stage = "restore"]
  <2>1. ~cur'.res
    BY <1>2, <1>6 DEF SInv, Types
  <2>2. Types'
    BY <1>1, <1>3, <1>6, SameMacs DEF SInv, Types
  <2>3. Addressed'
    BY <1>1, <1>2, <1>6, <2>1, AddressedKept DEF IsSet
  <2> QED BY <1>1, <1>2, <1>4, <2>2, <2>3, NotDone DEF SInv
<1> QED BY <1>5, <1>6 DEF SetDown

(* Raises again what was up, and counts what was set.                       *)
LEMMA RestoreKeepsSInv == SInv /\ Restore => SInv'
<1> SUFFICES ASSUME SInv, Restore PROVE SInv'
  OBVIOUS
<1> DEFINE n == cur.name
<1>1. /\ cur.stage = "restore" /\ pc' = pc /\ rc' = rc /\ store' = store /\ todo' = todo
      /\ applied' = (IF cur.res THEN applied \union {n} ELSE applied)
      /\ cur' = Idle
      /\ links' = [links EXCEPT ![n].up = TRUE] \/ links' = links
  BY DEF Restore, Counts, loading, reading
<1>2. pc = "apply" /\ n \in Names /\ Eligible(n) /\ n \notin todo \union applied
  BY <1>1 DEF SInv, Types, Stages
<1>3. /\ links' \in [Names -> [mac : Macs, up : BOOLEAN]]
      /\ \A i \in Names : links'[i].mac = links[i].mac
  <2>1. links \in [Names -> [mac : Macs, up : BOOLEAN]]
    BY DEF SInv, Types
  <2>2. n \in Names /\ (links' = [links EXCEPT ![n].up = TRUE] \/ links' = links)
    BY <1>1, <1>2
  <2> HIDE DEF n
  <2> QED BY <2>1, <2>2, UpFacts
<1>4. Types'
  BY <1>1, <1>2, <1>3, SameMacs DEF SInv, Types, Idle
<1>5. Stages'
  BY <1>1, <1>2, SameMacs DEF SInv, Stages, Idle, LoadingAt
<1>6. \A i \in Names : IsSet(i)' = IsSet(i)
  BY <1>1 DEF IsSet, Idle
<1>7. Addressed'
  BY <1>1, <1>3, <1>6, AddressedKept
<1> QED BY <1>1, <1>2, <1>4, <1>5, <1>7, NotDone DEF SInv

(* The exit status: 0 needs an interface that was counted, and an uncounted *)
(* one was not touched.                                                     *)
LEMMA FinishKeepsSInv == SInv /\ Finish => SInv'
<1> SUFFICES ASSUME SInv, Finish PROVE SInv'
  OBVIOUS
<1>1. /\ cur = Idle /\ pc = "apply" /\ pc' = "done" /\ rc' = (IF applied # {} THEN 0 ELSE 2)
      /\ store' = store /\ links' = links /\ cur' = cur /\ applied' = applied /\ todo' = todo
  BY DEF Finish, loading, reading, running
<1>2. Types'
  BY <1>1, SameMacs DEF SInv, Types
<1>3. Stages'
  BY <1>1, SameMacs DEF SInv, Stages, Idle, LoadingAt
<1>4. Addressed'
  BY <1>1, AddressedKept DEF IsSet
<1>5. DOMAIN links = Names /\ applied \subseteq Names
  BY DEF SInv, Types
<1>6. \A i \in Names : IF i \in applied THEN Eligible(i) /\ links[i].mac = Wanted(i)
                       ELSE links[i].mac = NoValue
  BY <1>1 DEF SInv, Addressed, IsSet, Idle
<1>7. CASE applied # {}
  <2>1. rc' = 0 /\ \E i \in Names : Eligible(i) /\ links[i].mac = Wanted(i)
    BY <1>1, <1>5, <1>6, <1>7
  <2> QED BY <1>1, <1>2, <1>3, <1>4, <1>5, <2>1, SameMacs DEF SInv, StatusIsTrue
<1>8. CASE applied = {}
  <2>1. rc' = 2 /\ \A i \in Names : links[i].mac = NoValue
    BY <1>1, <1>6, <1>8
  <2> QED BY <1>1, <1>2, <1>3, <1>4, <1>5, <2>1, SameMacs DEF SInv, StatusIsTrue
<1> QED BY <1>7, <1>8

LEMMA SInvNext == SInv /\ [Next]_vars => SInv'
<1> SUFFICES ASSUME SInv, [Next]_vars PROVE SInv'
  OBVIOUS
<1>1. CASE UNCHANGED vars
  BY <1>1 DEF vars, SInv, Types, Stages, Addressed, IsSet, StatusIsTrue, Ran, Macs, Names, Wanted,
              Eligible, Mac, NoValue, Text, Idle
<1>2. ASSUME NEW i \in Names, Skip(i) \/ SetDirect(i) PROVE SInv'
  BY <1>2, SkipKeepsSInv, SetDirectKeepsSInv
<1> QED
  BY <1>1, <1>2, LoadKeepsSInv, AnswerKeepsSInv, RefuseKeepsSInv, GetFlagsKeepsSInv,
     TakeDownKeepsSInv, SetDownKeepsSInv, RestoreKeepsSInv, FinishKeepsSInv DEF Next, Names, Load

-----------------------------------------------------------------------------
(* The exit status of wing-syscfg --apply-mac is the truth about the        *)
(* interfaces, whatever the storage holds and whichever ioctls fail.        *)
THEOREM StatusIsTrueHolds == Spec => []StatusIsTrue
<1>1. SInv => StatusIsTrue
  BY DEF SInv
<1> QED BY <1>1, SInvInit, SInvNext, PTL DEF Spec

(* An interface taken down comes up again unless raising it fails, and none *)
(* that was down is raised: for any interfaces and any failures.            *)
THEOREM ComesUpAgainHolds == Spec => ComesUpAgain
<1> DEFINE Safely == \A i \in Names :
             /\ cur'.name # i /\ cur.name = i /\ cur.orig => links'[i].up \/ i \in lost'
             /\ ~links[i].up /\ links'[i].up => cur.name = i /\ cur.orig
<1>1. SInv /\ [Next]_vars => Safely
  <2> SUFFICES ASSUME SInv, [Next]_vars, NEW i \in Names
               PROVE  /\ cur'.name # i /\ cur.name = i /\ cur.orig => links'[i].up \/ i \in lost'
                      /\ ~links[i].up /\ links'[i].up => cur.name = i /\ cur.orig
    OBVIOUS
  <2>1. links \in [Names -> [mac : Macs, up : BOOLEAN]]
    BY DEF SInv, Types
  <2>2. CASE links' = links /\ cur' = cur
    BY <2>2
  <2>3. ASSUME NEW j \in Names, SetDirect(j)
        PROVE  ~cur.orig /\ links'[i].up = links[i].up
    <3>1. cur = Idle /\ (links' = [links EXCEPT ![j].mac = Wanted(j)] \/ links' = links)
      BY <2>3 DEF SetDirect
    <3>2. Wanted(j) \in Macs
      BY DEF Macs
    <3> QED BY <2>1, <3>1, <3>2 DEF Idle
  <2>4. CASE GetFlags
    BY <2>4 DEF GetFlags, SInv, Stages
  <2>5. CASE TakeDown
    <3>1. cur'.name = cur.name
      BY <2>5 DEF TakeDown, SInv, Types
    <3>2. links' = [links EXCEPT ![cur.name].up = FALSE] \/ links' = links
      BY <2>5 DEF TakeDown
    <3>3. links'[i].up => links[i].up
      BY <2>1, <3>2
    <3> QED BY <3>1, <3>3
  <2>6. CASE SetDown
    <3>1. cur'.name = cur.name /\ cur.name \in Names
      BY <2>6, ZenonT(60) DEF SetDown, SInv, Types, Stages
    <3>2. links' = [links EXCEPT ![cur.name].mac = Wanted(cur.name)] \/ links' = links
      BY <2>6 DEF SetDown
    <3>3. Wanted(cur.name) \in Macs
      BY <3>1 DEF Macs
    <3>4. links'[i].up = links[i].up
      BY <2>1, <3>1, <3>2, <3>3
    <3> QED BY <3>1, <3>4
  <2>7. CASE Restore
    <3>1. CASE cur.orig /\ links' = [links EXCEPT ![cur.name].up = TRUE]
      <4>1. cur.name = i => links'[i].up
        BY <2>1, <3>1
      <4>2. cur.name # i => links'[i].up = links[i].up
        BY <2>1, <3>1
      <4> QED BY <3>1, <4>1, <4>2
    <3>2. CASE lost' = lost \union {cur.name} /\ links' = links
      BY <3>2
    <3>3. CASE ~cur.orig /\ links' = links
      BY <3>3
    <3> QED BY <2>7, <3>1, <3>2, <3>3 DEF Restore, Raises
  <2>8. (links' = links /\ cur' = cur) \/ (\E j \in Names : SetDirect(j))
          \/ GetFlags \/ TakeDown \/ SetDown \/ Restore
    BY DEF Next, vars, Names, ReadFlash, ParseToken, FlashDone, OpenPath, ReadChunk, ChunkDone,
           EndOfFile, NothingFound, Answer, Refuse, Skip, Finish, running
  <2> QED BY <2>2, <2>3, <2>4, <2>5, <2>6, <2>7, <2>8
<1>2. SInv => DOMAIN links = Names
  BY DEF SInv, Types
<1>3. SInv /\ [Next]_vars =>
        [\A i \in DOMAIN links :
          /\ cur'.name # i /\ cur.name = i /\ cur.orig => links'[i].up \/ i \in lost'
          /\ ~links[i].up /\ links'[i].up => cur.name = i /\ cur.orig]_vars
  BY <1>1, <1>2
<1> QED BY <1>3, SInvInit, SInvNext, PTL DEF Spec, ComesUpAgain

-----------------------------------------------------------------------------
(* What the store says of the text that has been parsed.                    *)
Vals == [hi : Nat, lo : 0..256]
Keys == STRING \union {"DEVTYPE"}   \* the provers do not know it to be a string

IsStore(s) == s = [entries |-> s.entries, mac |-> s.mac, has_mac |-> s.has_mac]

StoreOK(s) ==
  /\ IsStore(s)
  /\ s.entries \in Seq([key : Keys, val : Vals]) /\ Len(s.entries) <= MaxEntries
  /\ s.mac \in [hi : Nat, lo : 0..255] /\ s.has_mac \in BOOLEAN
  /\ \A i, j \in DOMAIN s.entries : s.entries[i].key = s.entries[j].key => i = j

\* The token f[n] gives the key a value.
Gives(f, n, key) == IsEntry(f[n]) /\ KeyOf(f[n]) = key

\* An entry holds what its key was given last, and a key is only left out of
\* a full store.
Recalls(s, f) ==
  /\ \A i \in DOMAIN s.entries :
        \E n \in DOMAIN f : /\ Gives(f, n, s.entries[i].key)
                            /\ s.entries[i].val = f[n].val
                            /\ \A k \in DOMAIN f : Gives(f, k, s.entries[i].key) => k <= n
  /\ \A n \in DOMAIN f :
        IsEntry(f[n]) => \/ Len(s.entries) = MaxEntries
                         \/ \E i \in DOMAIN s.entries : s.entries[i].key = KeyOf(f[n])

\* As long as there is room, MAC is parsed once, when its entry is made.
MacParsedOnce(s) ==
  Len(s.entries) < MaxEntries =>
     /\ s.has_mac => s.mac \notin InvalidMacs
     /\ (\A i \in DOMAIN s.entries : s.entries[i].key # "MAC") => ~s.has_mac

\* store_add_kv changes a value, or adds an entry if there is room.
Updates(s, key, val, t) ==
  /\ t.entries = [i \in DOMAIN s.entries |->
        IF s.entries[i].key = key THEN [key |-> key, val |-> val] ELSE s.entries[i]]
  /\ t.mac = s.mac /\ t.has_mac = s.has_mac

Adds(s, key, val, t) ==
  /\ t.entries = IF Len(s.entries) < MaxEntries
                 THEN Append(s.entries, [key |-> key, val |-> val]) ELSE s.entries
  /\ IF key = "MAC" /\ IsAddress(val)
     THEN t.mac = val /\ t.has_mac = (s.has_mac \/ val \notin InvalidMacs)
     ELSE t.mac = s.mac /\ t.has_mac = s.has_mac

LEMMA AddKvCases ==
  ASSUME NEW s, StoreOK(s), NEW key, NEW val
  PROVE  /\ IsStore(AddKv(s, key, val))
         /\ IF EntriesOf(s, key) # {} THEN Updates(s, key, val, AddKv(s, key, val))
            ELSE Adds(s, key, val, AddKv(s, key, val))
<1> DEFINE t == AddKv(s, key, val)
<1> DEFINE e == [key |-> key, val |-> val]
           added == IF Len(s.entries) < MaxEntries THEN [s EXCEPT !.entries = Append(@, e)] ELSE s
<1>1. s = [entries |-> s.entries, mac |-> s.mac, has_mac |-> s.has_mac]
  BY DEF StoreOK, IsStore
<1>2. CASE EntriesOf(s, key) # {}
  <2>1. AddKv(s, key, val) =
          [entries |-> [i \in DOMAIN s.entries |-> IF s.entries[i].key = key THEN e ELSE s.entries[i]],
           mac |-> s.mac, has_mac |-> s.has_mac]
    BY <1>1, <1>2 DEF AddKv
  <2>2. /\ t.mac = s.mac /\ t.has_mac = s.has_mac
        /\ t.entries = [i \in DOMAIN s.entries |-> IF s.entries[i].key = key THEN e ELSE s.entries[i]]
        /\ t = [entries |-> t.entries, mac |-> t.mac, has_mac |-> t.has_mac]
    BY <2>1
  <2> HIDE DEF t
  <2>3. Updates(s, key, val, t) /\ IsStore(t)
    BY <2>2 DEF Updates, IsStore
  <2> QED BY <1>2, <2>3 DEF t
<1>3. CASE EntriesOf(s, key) = {}
  <2>1. added = [entries |-> IF Len(s.entries) < MaxEntries THEN Append(s.entries, e) ELSE s.entries,
                 mac |-> s.mac, has_mac |-> s.has_mac]
    BY <1>1
  <2>2. CASE key = "MAC" /\ IsAddress(val)
    <3>1. AddKv(s, key, val) = [added EXCEPT !.mac = val, !.has_mac = @ \/ val \notin InvalidMacs]
      BY <1>3, <2>2 DEF AddKv, ParseMac
    <3> HIDE DEF added
    <3>2. AddKv(s, key, val) = [entries |-> added.entries, mac |-> val,
                                has_mac |-> (s.has_mac \/ val \notin InvalidMacs)]
      BY <2>1, <3>1
    <3>3. /\ t.entries = added.entries /\ t.mac = val
          /\ t.has_mac = (s.has_mac \/ val \notin InvalidMacs)
          /\ t = [entries |-> t.entries, mac |-> t.mac, has_mac |-> t.has_mac]
      BY <3>2
    <3>4. added.entries = IF Len(s.entries) < MaxEntries THEN Append(s.entries, e) ELSE s.entries
      BY <2>1
    <3> HIDE DEF t
    <3>5. Adds(s, key, val, t) /\ IsStore(t)
      BY <2>2, <3>3, <3>4 DEF Adds, IsStore
    <3> QED BY <1>3, <3>5 DEF t
  <2>3. CASE ~(key = "MAC" /\ IsAddress(val))
    <3>1. AddKv(s, key, val) = added
      BY <1>3, <2>3 DEF AddKv, ParseMac
    <3>2. /\ t.mac = s.mac /\ t.has_mac = s.has_mac
          /\ t.entries = IF Len(s.entries) < MaxEntries THEN Append(s.entries, e) ELSE s.entries
          /\ t = [entries |-> t.entries, mac |-> t.mac, has_mac |-> t.has_mac]
      BY <2>1, <3>1
    <3> HIDE DEF t
    <3>3. Adds(s, key, val, t) /\ IsStore(t)
      BY <2>3, <3>2 DEF Adds, IsStore
    <3> QED BY <1>3, <3>3 DEF t
  <2> QED BY <2>2, <2>3
<1> QED BY <1>2, <1>3

LEMMA Limits == MaxEntries \in Nat \ {0}
BY MachinesAssumption

\* In terms of the entries: those of the key get the value, at most one is
\* added, and for that there must be room.
Stores(s, key, val, t) ==
  /\ t.entries \in Seq([key : Keys, val : Vals])
  /\ \A i \in 1..Len(s.entries) :
        t.entries[i] = IF s.entries[i].key = key THEN [key |-> key, val |-> val]
                       ELSE s.entries[i]
  /\ \/ /\ Len(t.entries) = Len(s.entries)
        /\ Len(t.entries) = MaxEntries \/ EntriesOf(s, key) # {}
     \/ /\ Len(t.entries) = Len(s.entries) + 1 /\ Len(t.entries) <= MaxEntries
        /\ t.entries[Len(t.entries)] = [key |-> key, val |-> val]
        /\ EntriesOf(s, key) = {}

LEMMA AddKvStores ==
  ASSUME NEW s, StoreOK(s), NEW key \in Keys, NEW val \in Vals
  PROVE  Stores(s, key, val, AddKv(s, key, val))
<1> DEFINE t == AddKv(s, key, val)
<1> DEFINE Entry == [key : Keys, val : Vals]
           e == [key |-> key, val |-> val]
<1>1. /\ s.entries \in Seq(Entry) /\ Len(s.entries) <= MaxEntries /\ e \in Entry
      /\ Len(s.entries) \in Nat /\ MaxEntries \in Nat
      /\ DOMAIN s.entries = 1..Len(s.entries)
  BY Limits DEF StoreOK
<1>2. CASE EntriesOf(s, key) # {}
  <2>1. t.entries = [i \in 1..Len(s.entries) |-> IF s.entries[i].key = key THEN e ELSE s.entries[i]]
    BY <1>1, <1>2, AddKvCases DEF Updates
  <2> HIDE DEF e, t
  <2>2. \A i \in 1..Len(s.entries) : (IF s.entries[i].key = key THEN e ELSE s.entries[i]) \in Entry
    <3> HIDE DEF Entry
    <3>1. \A i \in 1..Len(s.entries) : s.entries[i] \in Entry
      BY <1>1
    <3> QED BY <1>1, <3>1
  <2>3. t.entries \in Seq(Entry) /\ Len(t.entries) = Len(s.entries)
    BY <1>1, <2>1, <2>2
  <2>4. Stores(s, key, val, t)
    BY <1>1, <1>2, <2>1, <2>3 DEF e, Stores
  <2> QED BY <2>4 DEF t
<1>3. CASE EntriesOf(s, key) = {} /\ Len(s.entries) < MaxEntries
  <2>1. t.entries = Append(s.entries, e)
    BY <1>3, AddKvCases DEF Adds
  <2>2. \A i \in 1..Len(s.entries) : s.entries[i].key # key
    BY <1>1, <1>3 DEF EntriesOf
  <2> HIDE DEF e, t
  <2>3. /\ t.entries \in Seq(Entry) /\ Len(t.entries) = Len(s.entries) + 1
        /\ DOMAIN t.entries = 1..Len(s.entries) + 1
        /\ t.entries[Len(s.entries) + 1] = e
        /\ \A i \in 1..Len(s.entries) : t.entries[i] = s.entries[i]
    BY <1>1, <2>1
  <2>4. Stores(s, key, val, t)
    BY <1>1, <1>3, <2>2, <2>3 DEF e, Stores
  <2> QED BY <2>4 DEF t
<1>4. CASE EntriesOf(s, key) = {} /\ ~(Len(s.entries) < MaxEntries)
  <2>1. Adds(s, key, val, t)
    BY <1>4, AddKvCases
  <2>2. \A i \in 1..Len(s.entries) : s.entries[i].key # key
    BY <1>1, <1>4 DEF EntriesOf
  <2> HIDE DEF t
  <2>3. t.entries = s.entries /\ Len(s.entries) = MaxEntries
    BY <1>1, <1>4, <2>1 DEF Adds
  <2>4. Stores(s, key, val, t)
    BY <1>1, <1>4, <2>2, <2>3, SMTT(60) DEF Stores
  <2> QED BY <2>4 DEF t
<1> QED BY <1>2, <1>3, <1>4

LEMMA AddKvStore ==
  ASSUME NEW s, StoreOK(s), NEW key \in Keys, NEW val \in Vals
  PROVE  StoreOK(AddKv(s, key, val))
<1> DEFINE t == AddKv(s, key, val)
<1>1. /\ t = [entries |-> t.entries, mac |-> t.mac, has_mac |-> t.has_mac]
      /\ t.mac \in [hi : Nat, lo : 0..255] /\ t.has_mac \in BOOLEAN
  <2>1. s.mac \in [hi : Nat, lo : 0..255] /\ s.has_mac \in BOOLEAN
    BY DEF StoreOK
  <2>2. IsAddress(val) => val \in [hi : Nat, lo : 0..255]
    BY DEF IsAddress, Vals
  <2>3. IsStore(t) /\ (Updates(s, key, val, t) \/ Adds(s, key, val, t))
    BY AddKvCases
  <2> HIDE DEF t
  <2>4. \/ t.mac = s.mac /\ t.has_mac = s.has_mac
        \/ IsAddress(val) /\ t.mac = val /\ t.has_mac \in BOOLEAN
    BY <2>3 DEF Updates, Adds
  <2>5. CASE t.mac = s.mac /\ t.has_mac = s.has_mac
    BY <2>1, <2>3, <2>5 DEF IsStore
  <2>6. CASE IsAddress(val) /\ t.mac = val /\ t.has_mac \in BOOLEAN
    BY <2>2, <2>3, <2>6 DEF IsStore
  <2> QED BY <2>4, <2>5, <2>6
<1> HIDE DEF t
<1>2. Stores(s, key, val, t)
  BY AddKvStores DEF t
<1>3. /\ t.entries \in Seq([key : Keys, val : Vals]) /\ Len(t.entries) <= MaxEntries
      /\ DOMAIN t.entries = 1..Len(t.entries) /\ DOMAIN s.entries = 1..Len(s.entries)
      /\ Len(s.entries) \in Nat
  BY <1>2, Limits DEF StoreOK, Stores
<1>4. \A i \in DOMAIN s.entries : t.entries[i].key = s.entries[i].key
  BY <1>2, <1>3, SMTT(60) DEF Stores
<1>5. ASSUME NEW i \in DOMAIN t.entries, NEW j \in DOMAIN t.entries,
             t.entries[i].key = t.entries[j].key
      PROVE  i = j
  <2>1. CASE Len(t.entries) = Len(s.entries)
    BY <1>3, <1>4, <1>5, <2>1, SMTT(60) DEF StoreOK
  <2>2. CASE /\ Len(t.entries) = Len(s.entries) + 1 /\ EntriesOf(s, key) = {}
             /\ t.entries[Len(t.entries)] = [key |-> key, val |-> val]
    <3>1. \A k \in DOMAIN s.entries : s.entries[k].key # key
      BY <2>2 DEF EntriesOf
    <3>2. t.entries[Len(t.entries)].key = key
      BY <2>2
    <3>3. /\ i = Len(t.entries) \/ i \in DOMAIN s.entries
          /\ j = Len(t.entries) \/ j \in DOMAIN s.entries
      BY <1>3, <2>2
    <3>4. CASE i \in DOMAIN s.entries /\ j \in DOMAIN s.entries
      BY <1>4, <1>5, <3>4 DEF StoreOK
    <3>5. CASE i = Len(t.entries) /\ j \in DOMAIN s.entries
      BY <1>4, <1>5, <3>1, <3>2, <3>5
    <3>6. CASE i \in DOMAIN s.entries /\ j = Len(t.entries)
      BY <1>4, <1>5, <3>1, <3>2, <3>6
    <3> QED BY <3>3, <3>4, <3>5, <3>6
  <2> QED BY <1>2, <2>1, <2>2 DEF Stores
<1> QED BY <1>1, <1>3, <1>5, SMTT(60) DEF StoreOK, IsStore, t

LEMMA AddKvMac ==
  ASSUME NEW s, StoreOK(s), MacParsedOnce(s), NEW key \in Keys, NEW val \in Vals
  PROVE  MacParsedOnce(AddKv(s, key, val))
<1> DEFINE t == AddKv(s, key, val)
<1>1. /\ Stores(s, key, val, t)
      /\ IF EntriesOf(s, key) # {} THEN Updates(s, key, val, t) ELSE Adds(s, key, val, t)
  BY AddKvStores, AddKvCases
<1> HIDE DEF t
<1>2. SUFFICES ASSUME Len(t.entries) < MaxEntries
               PROVE  /\ t.has_mac => t.mac \notin InvalidMacs
                      /\ (\A i \in DOMAIN t.entries : t.entries[i].key # "MAC") => ~t.has_mac
  BY DEF MacParsedOnce, t
<1>3. /\ Len(s.entries) \in Nat /\ MaxEntries \in Nat /\ DOMAIN s.entries = 1..Len(s.entries)
      /\ t.entries \in Seq([key : Keys, val : Vals]) /\ DOMAIN t.entries = 1..Len(t.entries)
      /\ Len(t.entries) = Len(s.entries) \/ Len(t.entries) = Len(s.entries) + 1
  BY <1>1, Limits DEF StoreOK, Stores
<1>4. /\ s.has_mac => s.mac \notin InvalidMacs
      /\ (\A i \in DOMAIN s.entries : s.entries[i].key # "MAC") => ~s.has_mac
  BY <1>2, <1>3 DEF MacParsedOnce
<1>5. \A i \in DOMAIN s.entries : i \in DOMAIN t.entries /\ t.entries[i].key = s.entries[i].key
  BY <1>1, <1>3, SMTT(60) DEF Stores
<1>6. CASE t.mac = s.mac /\ t.has_mac = s.has_mac
  BY <1>4, <1>5, <1>6
<1>7. CASE /\ EntriesOf(s, key) = {} /\ key = "MAC"
           /\ t.mac = val /\ t.has_mac = (s.has_mac \/ val \notin InvalidMacs)
  <2>1. \A i \in DOMAIN s.entries : s.entries[i].key # "MAC"
    BY <1>7 DEF EntriesOf
  <2>2. ~s.has_mac
    BY <1>4, <2>1
  <2>3. \/ Len(t.entries) = Len(s.entries) /\ Len(t.entries) = MaxEntries
        \/ /\ Len(t.entries) = Len(s.entries) + 1
           /\ t.entries[Len(t.entries)] = [key |-> key, val |-> val]
    BY <1>1, <1>7 DEF Stores
  <2>4. t.entries[Len(t.entries)].key = "MAC" /\ Len(t.entries) \in DOMAIN t.entries
    BY <1>2, <1>3, <1>7, <2>3
  <2> QED BY <1>7, <2>2, <2>4
<1> QED BY <1>1, <1>6, <1>7 DEF Updates, Adds

LEMMA KeyIsText == ASSUME NEW token \in Tokens PROVE KeyOf(token) \in Keys /\ token.val \in Vals
<1>1. token.key \in Keys /\ token.val \in Vals
  BY DEF Tokens, Keys, Vals
<1>2. KeyOf(token) \in {token.key, "DEVTYPE"}
  BY DEF KeyOf
<1> QED BY <1>1, <1>2 DEF Keys

(* The history grows with the store.                                        *)
LEMMA RecallsStored ==
  ASSUME NEW s, StoreOK(s), NEW f \in Seq(Tokens), Recalls(s, f), NEW token \in Tokens,
         IsEntry(token)
  PROVE  Recalls(AddKv(s, KeyOf(token), token.val), Append(f, token))
<1> DEFINE key == KeyOf(token)
           val == token.val
           t == AddKv(s, key, val)
           g == Append(f, token)
           n == Len(f) + 1
<1>1. Stores(s, key, val, t) /\ StoreOK(t)
  BY KeyIsText, AddKvStores, AddKvStore
<1>2. /\ DOMAIN f = 1..Len(f) /\ Len(f) \in Nat /\ DOMAIN g = 1..n /\ g[n] = token
      /\ \A k \in 1..Len(f) : g[k] = f[k]
  OBVIOUS
<1> HIDE DEF key, val, t, g
<1>3. /\ Gives(g, n, key) /\ g[n].val = val
      /\ \A o : o # key => ~Gives(g, n, o)
      /\ \A k \in 1..Len(f) : \A o : Gives(g, k, o) <=> Gives(f, k, o)
  BY <1>2 DEF Gives, key, val
<1>4. /\ DOMAIN s.entries = 1..Len(s.entries) /\ Len(s.entries) \in Nat /\ MaxEntries \in Nat
      /\ DOMAIN t.entries = 1..Len(t.entries) /\ Len(t.entries) <= MaxEntries
      /\ Len(s.entries) <= MaxEntries
  BY <1>1, Limits DEF StoreOK
<1>5. ASSUME NEW i \in DOMAIN t.entries
      PROVE  \E m \in DOMAIN g : /\ Gives(g, m, t.entries[i].key)
                                 /\ t.entries[i].val = g[m].val
                                 /\ \A k \in DOMAIN g : Gives(g, k, t.entries[i].key) => k <= m
  <2>1. CASE t.entries[i] = [key |-> key, val |-> val]
    <3>1. t.entries[i].key = key /\ t.entries[i].val = val
      BY <2>1
    <3>2. n \in DOMAIN g /\ \A k \in DOMAIN g : k <= n
      BY <1>2
    <3> QED BY <1>3, <3>1, <3>2
  <2>2. CASE i \in DOMAIN s.entries /\ s.entries[i].key # key /\ t.entries[i] = s.entries[i]
    <3>1. PICK m \in DOMAIN f : /\ Gives(f, m, s.entries[i].key)
                                /\ s.entries[i].val = f[m].val
                                /\ \A k \in DOMAIN f : Gives(f, k, s.entries[i].key) => k <= m
      BY <2>2 DEF Recalls
    <3>2. m \in DOMAIN g /\ Gives(g, m, s.entries[i].key) /\ g[m].val = f[m].val
      BY <1>2, <1>3, <3>1
    <3>3. ASSUME NEW k \in DOMAIN g, Gives(g, k, s.entries[i].key)
          PROVE  k <= m
      <4>1. k # n
        BY <1>3, <2>2, <3>3
      <4>2. k \in 1..Len(f)
        BY <1>2, <4>1
      <4> QED BY <1>2, <1>3, <3>1, <3>3, <4>2
    <3> QED BY <2>2, <3>1, <3>2, <3>3
  <2>3. CASE i \in DOMAIN s.entries
    <3>1. t.entries[i] = IF s.entries[i].key = key THEN [key |-> key, val |-> val]
                         ELSE s.entries[i]
      BY <1>1, <1>4, <2>3 DEF Stores
    <3> QED BY <2>1, <2>2, <2>3, <3>1
  <2>4. CASE i \notin DOMAIN s.entries
    <3>1. /\ Len(t.entries) = Len(s.entries) + 1
          /\ t.entries[Len(t.entries)] = [key |-> key, val |-> val]
      BY <1>1, <1>4, <2>4 DEF Stores
    <3>2. i = Len(t.entries)
      BY <1>4, <2>4, <3>1, SMTT(60)
    <3> QED BY <2>1, <3>1, <3>2
  <2> QED BY <2>3, <2>4
<1>6. ASSUME NEW i \in DOMAIN s.entries
      PROVE  i \in DOMAIN t.entries /\ t.entries[i].key = s.entries[i].key
  <2>1. t.entries[i] = IF s.entries[i].key = key THEN [key |-> key, val |-> val]
                       ELSE s.entries[i]
    BY <1>1, <1>4 DEF Stores
  <2>2. Len(t.entries) >= Len(s.entries)
    BY <1>1, <1>4 DEF Stores
  <2> QED BY <1>4, <2>1, <2>2
<1>7. Len(s.entries) = MaxEntries => Len(t.entries) = MaxEntries
  BY <1>1, <1>4 DEF Stores
<1>8. ASSUME NEW m \in DOMAIN g, IsEntry(g[m])
      PROVE  \/ Len(t.entries) = MaxEntries
             \/ \E i \in DOMAIN t.entries : t.entries[i].key = KeyOf(g[m])
  <2>1. CASE m = n
    <3>1. CASE Len(t.entries) = MaxEntries
      BY <3>1
    <3>2. CASE EntriesOf(s, key) # {}
      <4>1. PICK i \in DOMAIN s.entries : s.entries[i].key = key
        BY <3>2 DEF EntriesOf
      <4> QED BY <1>2, <1>6, <2>1, <4>1 DEF key
    <3>3. CASE /\ Len(t.entries) = Len(s.entries) + 1
               /\ t.entries[Len(t.entries)] = [key |-> key, val |-> val]
      <4>1. Len(t.entries) \in DOMAIN t.entries /\ t.entries[Len(t.entries)].key = key
        BY <1>4, <3>3
      <4> QED BY <1>2, <2>1, <4>1 DEF key
    <3> QED BY <1>1, <3>1, <3>2, <3>3 DEF Stores
  <2>2. CASE m # n
    <3>1. m \in DOMAIN f /\ g[m] = f[m]
      BY <1>2, <2>2
    <3> QED BY <1>6, <1>7, <1>8, <3>1 DEF Recalls
  <2> QED BY <2>1, <2>2
<1>9. Recalls(t, g)
  BY <1>5, <1>8 DEF Recalls
<1> QED BY <1>9 DEF t, g, key, val

(* One token of parse_config_stream.                                        *)
LEMMA ParsedKeeps ==
  ASSUME NEW s, StoreOK(s), MacParsedOnce(s), NEW f \in Seq(Tokens), Recalls(s, f),
         NEW token \in Tokens
  PROVE  /\ StoreOK(Parsed(s, token)) /\ MacParsedOnce(Parsed(s, token))
         /\ Recalls(Parsed(s, token), Append(f, token))
<1>1. CASE IsEntry(token)
  BY <1>1, KeyIsText, AddKvStore, AddKvMac, RecallsStored DEF Parsed
<1>2. CASE ~IsEntry(token)
  <2>1. Parsed(s, token) = s
    BY <1>2 DEF Parsed
  <2> DEFINE g == Append(f, token)
  <2>2. /\ DOMAIN f = 1..Len(f) /\ Len(f) \in Nat /\ DOMAIN g = 1..Len(f) + 1
        /\ g[Len(f) + 1] = token /\ \A k \in 1..Len(f) : g[k] = f[k]
    OBVIOUS
  <2> HIDE DEF g
  <2>3. \A o : ~Gives(g, Len(f) + 1, o)
    BY <1>2, <2>2 DEF Gives
  <2>4. \A k \in DOMAIN f : k \in DOMAIN g /\ g[k] = f[k]
    BY <2>2
  <2>5. \A k \in DOMAIN g : k \in DOMAIN f \/ k = Len(f) + 1
    BY <2>2
  <2>6. Recalls(s, g)
    <3>1. ASSUME NEW i \in DOMAIN s.entries
          PROVE  \E m \in DOMAIN g : /\ Gives(g, m, s.entries[i].key)
                                     /\ s.entries[i].val = g[m].val
                                     /\ \A k \in DOMAIN g : Gives(g, k, s.entries[i].key) => k <= m
      <4>1. PICK m \in DOMAIN f : /\ Gives(f, m, s.entries[i].key)
                                  /\ s.entries[i].val = f[m].val
                                  /\ \A k \in DOMAIN f : Gives(f, k, s.entries[i].key) => k <= m
        BY DEF Recalls
      <4>2. \A k \in DOMAIN g : Gives(g, k, s.entries[i].key) => k <= m
        BY <2>3, <2>4, <2>5, <4>1 DEF Gives
      <4> QED BY <2>4, <4>1, <4>2 DEF Gives
    <3>2. ASSUME NEW m \in DOMAIN g, IsEntry(g[m])
          PROVE  \/ Len(s.entries) = MaxEntries
                 \/ \E i \in DOMAIN s.entries : s.entries[i].key = KeyOf(g[m])
      <4>1. m \in DOMAIN f /\ g[m] = f[m]
        BY <1>2, <2>2, <2>4, <2>5, <3>2
      <4> QED BY <3>2, <4>1 DEF Recalls
    <3> QED BY <3>1, <3>2 DEF Recalls
  <2> QED BY <2>1, <2>6 DEF g
<1> QED BY <1>1, <1>2

-----------------------------------------------------------------------------
(* load_config_from_file: every set of positions has a first one, so that   *)
(* what it has parsed is a part of the chunk.                               *)
LEMMA Least ==
  ASSUME NEW T, T \subseteq Nat, T # {}
  PROVE  Min(T) \in T
<1> DEFINE R == OpToRel(<, Nat)
<1>1. IsWellFoundedOn(R, Nat)
  BY NatLessThanWellFounded
<1>2. \A x, y \in Nat : x < y => <<x, y>> \in R
  BY DEF OpToRel
<1> HIDE DEF R
<1>3. PICK x \in T : \A y \in T : ~ (<<y, x>> \in R)
  BY <1>1, WFMin
<1>4. ASSUME NEW y \in T
      PROVE  x <= y
  <2>1. x \in Nat /\ y \in Nat
    OBVIOUS
  <2>2. ~(y < x)
    BY <1>2, <1>3, <2>1, Zenon
  <2> QED BY <2>1, <2>2
<1> QED BY <1>3, <1>4 DEF Min

LEMMA ConfigTextType ==
  ASSUME NEW chunk \in Seq(Tokens)
  PROVE  ConfigText(chunk) \in Seq(Tokens)
<1>1. DOMAIN chunk = 1..Len(chunk) /\ Len(chunk) \in Nat
  OBVIOUS
<1>2. CASE Signed(chunk) = {}
  BY <1>2 DEF ConfigText
<1>3. CASE Signed(chunk) # {}
  <2> DEFINE sig == Min(Signed(chunk))
             start == Min(Starts(chunk, sig))
  <2>1. \A k \in {"MAC", Signature, "SN"} :
           \A i \in With(chunk, k) : i \in 1..Len(chunk) /\ chunk[i].key = k
    BY <1>1 DEF With
  <2>2. \A i \in Signed(chunk) : i \in 1..Len(chunk) /\ chunk[i].key # Gap
    BY <2>1 DEF Signed, Gap, Signature
  <2>3. Signed(chunk) \subseteq Nat
    BY <1>1, <2>2
  <2>4. sig \in 1..Len(chunk) /\ chunk[sig].key # Gap
    BY <1>3, <2>2, <2>3, Least
  <2> HIDE DEF sig
  <2>5. sig \in Starts(chunk, sig) /\ Starts(chunk, sig) \subseteq 1..sig
    BY <1>1, <2>4 DEF Starts
  <2>6. Starts(chunk, sig) \subseteq Nat
    BY <2>4, <2>5
  <2>7. start \in 1..Len(chunk)
    BY <1>1, <2>4, <2>5, <2>6, Least
  <2> HIDE DEF start
  <2>8. SubSeq(chunk, start, Len(chunk)) \in Seq(Tokens)
    BY <1>1, <2>7
  <2> QED BY <1>3, <2>8 DEF ConfigText, start, sig
<1> QED BY <1>2, <1>3

-----------------------------------------------------------------------------
(* What has been read is what the store recalls, at every step of the load. *)
LoadTypes ==
  /\ flash.factory \in Seq(Tokens) /\ flash.user \in Seq(Tokens)
  /\ disk \in Seq(Seq(Seq(Tokens))) /\ path \in Nat \ {0}
  /\ file \in Seq(Seq(Tokens)) /\ text \in Seq(Tokens) /\ fed \in Seq(Tokens)

StoreInv == StoreOK(store) /\ Recalls(store, fed) /\ MacParsedOnce(store)

Phases ==
  /\ pc \in {"flash", "scan", "file"} => store.entries = << >>
  /\ pc = "chunk" => before = 0
  /\ pc \in LoadingAt \union {"loaded"} => printed = NoValue

\* No interface is looked at without an address to give it.
Armed == todo # {} \/ cur # Idle \/ applied # {} => store.has_mac

LoadInv == LoadTypes /\ StoreInv /\ Phases /\ Armed /\ GetAnswersLast

KInv == SInv /\ LoadInv

LEMMA Unasked ==
  ASSUME pc' \in LoadingAt \union {"loaded"}
  PROVE  GetAnswersLast'
BY DEF GetAnswersLast, LoadingAt

(* An entry is found, and it has the last value, or there is no room for it.*)
LEMMA LookupIsLast ==
  ASSUME LoadTypes, StoreInv, NEW key
  PROVE  IF Given(key) = {} THEN Lookup(store, key) = NoValue
         ELSE \/ Lookup(store, key) = fed[Max(Given(key))].val
              \/ Lookup(store, key) = NoValue /\ Len(store.entries) = MaxEntries
<1>1. \A n \in DOMAIN fed : n \in Given(key) <=> Gives(fed, n, key)
  BY DEF Given, Gives
<1>2. Given(key) \subseteq DOMAIN fed
  BY DEF Given
<1>5. DOMAIN fed \subseteq Nat
  BY DEF LoadTypes
<1>3. CASE EntriesOf(store, key) = {}
  <2>1. Lookup(store, key) = NoValue
    BY <1>3 DEF Lookup
  <2>2. \A i \in DOMAIN store.entries : store.entries[i].key # key
    BY <1>3 DEF EntriesOf
  <2>3. Given(key) # {} => Len(store.entries) = MaxEntries
    BY <1>1, <1>2, <2>2 DEF StoreInv, Recalls, Gives
  <2> QED BY <2>1, <2>3
<1>4. CASE EntriesOf(store, key) # {}
  <2>1. PICK i \in DOMAIN store.entries : store.entries[i].key = key
    BY <1>4 DEF EntriesOf
  <2>2. DOMAIN store.entries \subseteq Nat
    BY DEF StoreInv, StoreOK
  <2>3. EntriesOf(store, key) \subseteq Nat
    BY <2>2 DEF EntriesOf
  <2>4. Min(EntriesOf(store, key)) \in EntriesOf(store, key)
    BY <1>4, <2>3, Least
  <2>5. Min(EntriesOf(store, key)) = i
    BY <2>1, <2>4, ZenonT(60) DEF EntriesOf, StoreInv, StoreOK
  <2>6. Lookup(store, key) = store.entries[i].val
    BY <1>4, <2>5 DEF Lookup
  <2>7. PICK n \in DOMAIN fed : /\ Gives(fed, n, key)
                                /\ store.entries[i].val = fed[n].val
                                /\ \A k \in DOMAIN fed : Gives(fed, k, key) => k <= n
    BY <2>1 DEF StoreInv, Recalls
  <2>8. n \in Given(key) /\ \A k \in Given(key) : n >= k
    BY <1>1, <1>2, <2>7
  <2>9. Max(Given(key)) \in Given(key) /\ \A k \in Given(key) : Max(Given(key)) >= k
    BY <2>8 DEF Max
  <2> DEFINE last == Max(Given(key))
  <2> HIDE DEF last
  <2>10. last = n
    BY <1>5, <1>2, <2>8, <2>9 DEF last
  <2> QED BY <2>6, <2>7, <2>8, <2>10 DEF last
<1> QED BY <1>3, <1>4

LEMMA LoadInvInit == Init => LoadInv
<1> SUFFICES ASSUME Init PROVE LoadInv
  OBVIOUS
<1>1. /\ pc = "flash" /\ path = 1 /\ store = EmptyStore /\ cur = Idle
      /\ file = << >> /\ text = << >> /\ fed = << >> /\ printed = NoValue
      /\ todo = {} /\ applied = {}
  BY DEF Init
<1>2. PICK m \in Machines : flash = m.flash /\ disk = m.disk
  BY DEF Init
<1>3. LoadTypes
  BY <1>1, <1>2, MachinesAssumption DEF LoadTypes
<1>4. store.entries = << >> /\ store.mac = Mac(0, 0) /\ store.has_mac = FALSE
  BY <1>1 DEF EmptyStore
<1>5. StoreOK(store)
  <2>1. IsStore(store)
    BY <1>1, <1>4 DEF IsStore, EmptyStore
  <2>2. << >> \in Seq([key : Keys, val : Vals]) /\ Len(<< >>) <= MaxEntries /\ DOMAIN << >> = {}
    BY Limits
  <2>3. store.mac \in [hi : Nat, lo : 0..255]
    BY <1>4 DEF Mac
  <2> QED BY <1>4, <2>1, <2>2, <2>3, ZenonT(60) DEF StoreOK
<1>6. Recalls(store, fed) /\ MacParsedOnce(store)
  BY <1>1, <1>4 DEF Recalls, MacParsedOnce
<1>7. Phases /\ Armed /\ GetAnswersLast
  BY <1>1, <1>4 DEF Phases, Armed, GetAnswersLast
<1> QED BY <1>3, <1>5, <1>6, <1>7 DEF LoadInv, StoreInv

LEMMA StoreInvKept ==
  ASSUME StoreInv, store' = store, fed' = fed
  PROVE  StoreInv'
BY DEF StoreInv

LEMMA ArmedKept ==
  ASSUME Armed, running' = running, store.has_mac => store'.has_mac
  PROVE  Armed'
BY DEF Armed, running, Idle, NoKey

(* While the text is loaded: each token is parsed into the store, and the   *)
(* scan goes on only as long as the store is empty.                         *)
LEMMA LoadKeepsLoadInv ==
  ASSUME KInv, Load
  PROVE  LoadInv'
<1> USE DEF KInv, LoadInv
<1>1. CASE ReadFlash
  <2>1. /\ pc' = "block" /\ text' = (IF flash.answers THEN flash.factory \o flash.user ELSE << >>)
        /\ flash' = flash /\ disk' = disk /\ path' = path /\ file' = file /\ store' = store
        /\ fed' = fed /\ printed' = printed /\ running' = running /\ pc = "flash"
    BY <1>1 DEF ReadFlash, machine, running
  <2>2. LoadTypes'
    BY <2>1 DEF LoadTypes
  <2>3. Phases' /\ GetAnswersLast'
    BY <2>1, Unasked DEF Phases, LoadingAt
  <2> QED BY <2>1, <2>2, <2>3, StoreInvKept, ArmedKept
<1>2. CASE ParseToken
  <2> DEFINE token == Head(text)
  <2>1. /\ pc \in {"block", "chunk"} /\ pc' = pc /\ text # << >>
        /\ store' = Parsed(store, token) /\ fed' = Append(fed, token) /\ text' = Tail(text)
        /\ flash' = flash /\ disk' = disk /\ path' = path /\ file' = file /\ before' = before
        /\ printed' = printed /\ running' = running
    BY <1>2 DEF ParseToken, machine, running
  <2>2. token \in Tokens /\ text' \in Seq(Tokens) /\ fed' \in Seq(Tokens)
    BY <2>1 DEF LoadTypes
  <2> HIDE DEF token
  <2>3. LoadTypes'
    BY <2>1, <2>2 DEF LoadTypes
  <2>4. StoreInv'
    <3>1. StoreOK(store) /\ MacParsedOnce(store) /\ Recalls(store, fed) /\ fed \in Seq(Tokens)
      BY DEF StoreInv, LoadTypes
    <3> QED BY <2>1, <2>2, <3>1, ParsedKeeps DEF StoreInv
  <2>5. Phases' /\ GetAnswersLast'
    BY <2>1, Unasked DEF Phases, LoadingAt
  <2>6. Armed'
    <3>1. cur = Idle /\ applied = {} /\ todo = {}
      BY <2>1 DEF SInv, Types, Stages, LoadingAt
    <3> QED BY <2>1, <3>1 DEF Armed, running, Idle, NoKey
  <2> QED BY <2>3, <2>4, <2>5, <2>6
<1>3. CASE FlashDone
  <2>1. /\ pc = "block" /\ pc' = (IF store.entries # << >> THEN "loaded" ELSE "scan")
        /\ flash' = flash /\ disk' = disk /\ path' = path /\ file' = file /\ text' = text
        /\ store' = store /\ fed' = fed /\ printed' = printed /\ running' = running
    BY <1>3 DEF FlashDone, machine, reading, running
  <2>2. LoadTypes'
    BY <2>1 DEF LoadTypes
  <2>3. Phases' /\ GetAnswersLast'
    BY <2>1, Unasked DEF Phases, LoadingAt
  <2> QED BY <2>1, <2>2, <2>3, StoreInvKept, ArmedKept
<1>4. CASE OpenPath
  <2>1. /\ pc = "scan" /\ path <= Len(disk) /\ pc' = "file" /\ file' = disk[path]
        /\ path' = path + 1 /\ flash' = flash /\ disk' = disk /\ text' = text
        /\ store' = store /\ fed' = fed /\ printed' = printed /\ running' = running
    BY <1>4 DEF OpenPath, machine, running
  <2>2. disk[path] \in Seq(Seq(Tokens)) /\ path + 1 \in Nat \ {0}
    BY <2>1 DEF LoadTypes
  <2>3. LoadTypes'
    BY <2>1, <2>2 DEF LoadTypes
  <2>4. Phases' /\ GetAnswersLast'
    BY <2>1, Unasked DEF Phases, LoadingAt
  <2> QED BY <2>1, <2>3, <2>4, StoreInvKept, ArmedKept
<1>5. CASE ReadChunk
  <2>1. /\ pc = "file" /\ file # << >> /\ pc' = "chunk" /\ text' = ConfigText(Head(file))
        /\ file' = Tail(file) /\ before' = Len(store.entries)
        /\ flash' = flash /\ disk' = disk /\ path' = path
        /\ store' = store /\ fed' = fed /\ printed' = printed /\ running' = running
    BY <1>5 DEF ReadChunk, machine, running
  <2>2. Head(file) \in Seq(Tokens) /\ Tail(file) \in Seq(Seq(Tokens))
    BY <2>1 DEF LoadTypes
  <2>3. LoadTypes'
    BY <2>1, <2>2, ConfigTextType DEF LoadTypes
  <2>4. Phases' /\ GetAnswersLast'
    BY <2>1, Unasked DEF Phases, LoadingAt
  <2> QED BY <2>1, <2>3, <2>4, StoreInvKept, ArmedKept
<1>6. CASE ChunkDone
  <2>1. /\ pc = "chunk" /\ pc' = (IF Len(store.entries) > before THEN "loaded" ELSE "file")
        /\ flash' = flash /\ disk' = disk /\ path' = path /\ file' = file /\ text' = text
        /\ store' = store /\ fed' = fed /\ printed' = printed /\ running' = running
    BY <1>6 DEF ChunkDone, machine, reading, running
  <2>2. pc' = "file" => store.entries = << >>
    <3>1. before = 0 /\ store.entries \in Seq([key : Keys, val : Vals])
      BY <2>1 DEF Phases, StoreInv, StoreOK
    <3> QED BY <2>1, <3>1
  <2>3. LoadTypes'
    BY <2>1 DEF LoadTypes
  <2>4. Phases' /\ GetAnswersLast'
    BY <2>1, <2>2, Unasked DEF Phases, LoadingAt
  <2> QED BY <2>1, <2>3, <2>4, StoreInvKept, ArmedKept
<1>7. CASE EndOfFile
  <2>1. /\ pc = "file" /\ pc' = "scan"
        /\ flash' = flash /\ disk' = disk /\ path' = path /\ file' = file /\ text' = text
        /\ store' = store /\ fed' = fed /\ printed' = printed /\ running' = running
    BY <1>7 DEF EndOfFile, machine, reading, running
  <2>2. LoadTypes'
    BY <2>1 DEF LoadTypes
  <2>3. Phases' /\ GetAnswersLast'
    BY <2>1, Unasked DEF Phases, LoadingAt
  <2> QED BY <2>1, <2>2, <2>3, StoreInvKept, ArmedKept
<1>8. CASE NothingFound
  <2>1. /\ pc = "scan" /\ pc' = "done" /\ UNCHANGED loading /\ running' = running
    BY <1>8 DEF NothingFound
  <2>2. /\ flash' = flash /\ disk' = disk /\ path' = path /\ file' = file /\ text' = text
        /\ store' = store /\ fed' = fed /\ printed' = printed /\ get' = get
    BY <2>1 DEF loading, reading, machine
  <2>3. LoadTypes'
    BY <2>2 DEF LoadTypes
  <2>4. Phases'
    BY <2>1 DEF Phases, LoadingAt
  <2>5. GetAnswersLast'
    <3>1. store.entries = << >> /\ printed = NoValue
      BY <2>1 DEF Phases, LoadingAt
    <3>2. \A n \in DOMAIN fed : ~IsEntry(fed[n])
      BY <3>1, Limits DEF StoreInv, Recalls
    <3>3. Given(get) = {}
      BY <3>2 DEF Given
    <3>4. Given(get)' = {}
      BY <2>2, <3>3 DEF Given
    <3> QED BY <2>2, <3>1, <3>4 DEF GetAnswersLast, NoValue, Text, Mac
  <2> QED BY <2>1, <2>2, <2>3, <2>4, <2>5, StoreInvKept, ArmedKept
<1> QED BY <1>1, <1>2, <1>3, <1>4, <1>5, <1>6, <1>7, <1>8 DEF Load

(* After that the answer, the store and the history stay as they are.       *)
LEMMA AnswerKeepsLoadInv == KInv /\ Answer => LoadInv'
<1> SUFFICES ASSUME KInv, Answer PROVE LoadInv'
  OBVIOUS
<1> USE DEF KInv, LoadInv
<1>1. /\ pc = "loaded" /\ printed' = (IF get = NoKey THEN NoValue ELSE Lookup(store, get))
      /\ pc' = (IF apply THEN "apply" ELSE "done")
      /\ todo' = (IF apply /\ store.has_mac THEN DOMAIN Interfaces ELSE {})
      /\ flash' = flash /\ disk' = disk /\ path' = path /\ file' = file /\ text' = text
      /\ store' = store /\ fed' = fed /\ get' = get /\ cur' = cur /\ applied' = applied
  BY DEF Answer, machine, reading
<1>2. LoadTypes'
  BY <1>1 DEF LoadTypes
<1>3. Phases'
  BY <1>1 DEF Phases, LoadingAt
<1>4. Armed'
  BY <1>1 DEF Armed, Idle, NoKey
<1>5. Given(get)' = Given(get) /\ NoValue' = NoValue
  BY <1>1 DEF Given, NoValue, Text, Mac
<1>6. GetAnswersLast'
  <2>1. ASSUME get # NoKey
        PROVE  IF Given(get) = {} THEN printed' = NoValue
               ELSE \/ printed' = fed[Max(Given(get))].val
                    \/ printed' = NoValue /\ Len(store.entries) = MaxEntries
    BY <1>1, <2>1, LookupIsLast
  <2> QED BY <1>1, <1>5, <2>1 DEF GetAnswersLast, NoKey
<1> QED BY <1>1, <1>2, <1>3, <1>4, <1>6, StoreInvKept

LEMMA AnsweredStays ==
  ASSUME LoadInv, loading' = loading, pc \in {"apply", "done"}, pc' \in {"apply", "done"}, Armed'
  PROVE  LoadInv'
<1> USE DEF LoadInv
<1>1. /\ flash' = flash /\ disk' = disk /\ path' = path /\ file' = file /\ text' = text
      /\ store' = store /\ fed' = fed /\ get' = get /\ printed' = printed
  BY DEF loading, machine, reading
<1>2. LoadTypes'
  BY <1>1 DEF LoadTypes
<1>3. Phases'
  BY DEF Phases, LoadingAt
<1>4. Given(get)' = Given(get) /\ NoValue' = NoValue
  BY <1>1 DEF Given, NoValue, Text, Mac
<1>5. GetAnswersLast'
  BY <1>1, <1>4 DEF GetAnswersLast
<1> QED BY <1>1, <1>2, <1>3, <1>5, StoreInvKept

LEMMA ApplyKeepsLoadInv ==
  ASSUME KInv,
         \/ Refuse \/ GetFlags \/ TakeDown \/ SetDown \/ Restore \/ Finish
         \/ \E i \in Names : Skip(i) \/ SetDirect(i)
  PROVE  LoadInv'
<1>1. loading' = loading /\ pc = "apply" /\ pc' \in {"apply", "done"}
  BY DEF KInv, SInv, Types, Stages, Refuse, GetFlags, TakeDown, SetDown, Restore, Finish, Skip,
         SetDirect
<1>2. store' = store
  BY <1>1 DEF loading, reading
<1>3. todo # {} \/ cur # Idle \/ applied # {} \/ (todo' = {} /\ cur' = Idle /\ applied' = {})
  BY DEF Refuse, GetFlags, TakeDown, SetDown, Restore, Finish, Skip, SetDirect, Idle, running
<1>4. Armed'
  BY <1>2, <1>3 DEF KInv, LoadInv, Armed, Idle, NoKey
<1> QED BY <1>1, <1>4, AnsweredStays DEF KInv

LEMMA KInvNext == KInv /\ [Next]_vars => KInv'
<1> SUFFICES ASSUME KInv, [Next]_vars PROVE KInv'
  OBVIOUS
<1>1. SInv'
  BY SInvNext DEF KInv
<1>2. CASE UNCHANGED vars
  <2>1. LoadInv'
    <3>1. /\ loading' = loading /\ running' = running /\ pc' = pc
      BY <1>2 DEF vars, loading, running, machine, reading
    <3>2. LoadTypes' /\ StoreInv' /\ Phases' /\ Armed'
      BY <3>1 DEF KInv, LoadInv, LoadTypes, StoreInv, Phases, Armed, loading, running, machine,
                  reading, Idle, NoKey
    <3>3. GetAnswersLast'
      BY <1>2 DEF KInv, LoadInv, GetAnswersLast, Given, vars, NoValue, Text, Mac
    <3> QED BY <3>2, <3>3 DEF LoadInv
  <2> QED BY <1>1, <2>1 DEF KInv
<1>3. CASE Next
  BY <1>1, <1>3, LoadKeepsLoadInv, AnswerKeepsLoadInv, ApplyKeepsLoadInv
     DEF Next, KInv, Load, Names
<1> QED BY <1>2, <1>3

LEMMA KInvInit == Init => KInv
BY SInvInit, LoadInvInit DEF KInv

(* --get prints what the configuration, in whichever device it was found,   *)
(* gives the key last, or nothing if the key is not there or the store is   *)
(* full: for any storage and any number of entries.                         *)
THEOREM GetAnswersLastHolds == Spec => []GetAnswersLast
<1>1. KInv => GetAnswersLast
  BY DEF KInv, LoadInv
<1> QED BY <1>1, KInvInit, KInvNext, PTL DEF Spec

(* While the store has room no interface gets a blank address, in whatever  *)
(* order the text holds its keys and however often; except lan2, from just  *)
(* two base addresses.                                                      *)
THEOREM AddressesAreGoodHolds == Spec => []AddressesAreGood
<1>1. KInv => AddressesAreGood
  <2> SUFFICES ASSUME KInv, Len(store.entries) < MaxEntries,
                      NEW i \in Names, links[i].mac \in InvalidMacs
               PROVE  i = "lan2" /\ store.mac \in {Mac(0, 255), Mac(HiMax, 254)}
    BY DEF AddressesAreGood, KInv, SInv, Types
  <2>1. store.mac \in [hi : Nat, lo : 0..255]
    BY DEF KInv, LoadInv, StoreInv, StoreOK
  <2>2. IsSet(i)
    BY DEF KInv, SInv, Addressed, InvalidMacs, NoValue, Text, Mac
  <2>3. links[i].mac = Wanted(i)
    BY <2>2 DEF KInv, SInv, Addressed
  <2>4. store.has_mac
    BY <2>2 DEF KInv, SInv, Stages, LoadInv, Armed, IsSet, Idle
  <2>5. store.mac \notin InvalidMacs
    BY <2>4 DEF KInv, LoadInv, StoreInv, MacParsedOnce
  <2>6. i = "lan2"
    BY <2>3, <2>5 DEF Wanted
  <2>7. PICK hi \in Nat, lo \in 0..255 : store.mac = Mac(hi, lo)
    <3>1. store.mac.hi \in Nat /\ store.mac.lo \in 0..255
      BY <2>1
    <3>2. store.mac = Mac(store.mac.hi, store.mac.lo)
      BY <2>1 DEF Mac
    <3> QED BY <3>1, <3>2
  <2>8. Mac(hi, (lo + 1) % 256) \in {Mac(0, 0), Mac(HiMax, 255)}
    BY <2>3, <2>6, <2>7 DEF Wanted, InvalidMacs, Mac
  <2>9. (hi = 0 /\ (lo + 1) % 256 = 0) \/ (hi = HiMax /\ (lo + 1) % 256 = 255)
    BY <2>8 DEF Mac
  <2>10. ((lo + 1) % 256 = 0 => lo = 255) /\ ((lo + 1) % 256 = 255 => lo = 254)
    BY <2>7
  <2> QED BY <2>6, <2>7, <2>9, <2>10
<1> QED BY <1>1, KInvInit, KInvNext, PTL DEF Spec
=============================================================================
