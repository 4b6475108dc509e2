------------------------------ MODULE CscLatch ------------------------------
(***************************************************************************)
(* The CSC latch: two 32-bit output registers behind ECSPI2 that switch    *)
(* the supplies of the console's lights (wing_surface_common.c).  The      *)
(* registers cannot be read back.  wing_csc_latch_update works from        *)
(* csc_latch_state, a copy in the process: it is zero in a new process     *)
(* while the registers keep their value, and it is not updated when a      *)
(* transfer times out, whether or not the register took the word.          *)
(*                                                                         *)
(* A register value is the set of its bits that are 1.                     *)
(***************************************************************************)
EXTENDS Naturals, Sequences

CONSTANTS LightValues,    \* values given to wing_enable_csc_lights
          Updates         \* [port, value, mask] given to csclatch

Bits  == 0 .. 31
Ports == {0, 1}

LevelBits == {0, 1, 2, 3, 5, 13, 14}            \* CSC_LIGHT_VALUE_MASK, 0x602f
Cleared   == 0 .. 5 \union {7, 8, 27, 28, 29}   \* 0x380001bf
Enables   == <<6, 7, 27, 28, 29, 8>>            \* in the order they are raised
EnableBits == {6, 7, 27, 28, 29, 8}

Update == [port : Nat, value : SUBSET Bits, mask : SUBSET Bits]

ASSUME LightValuesAssumption == LightValues \subseteq SUBSET Bits
ASSUME UpdatesAssumption == Updates \subseteq Update

VARIABLES hw,             \* the latch registers
          shadow,         \* csc_latch_state
          step,           \* next call in wing_enable_csc_lights, 0: not running
          level,          \* its argument
          enabled,        \* surface->csc_lights_enabled
          lit,            \* wing_enable_csc_lights was the last user, with success
          acked           \* the csclatch command just reported as sent

cscVars == <<hw, shadow, step, level, enabled, lit, acked>>

CscTypeOK ==
  /\ hw \in [Ports -> SUBSET Bits]
  /\ shadow \in [Ports -> SUBSET Bits]
  /\ step \in 0 .. 9
  /\ level \in SUBSET Bits
  /\ enabled \in BOOLEAN
  /\ lit \in BOOLEAN
  /\ acked \in SUBSET Updates

CscInit ==
  /\ hw = [p \in Ports |-> {}]
  /\ shadow = [p \in Ports |-> {}]
  /\ step = 1 /\ level = LevelBits
  /\ enabled = FALSE /\ lit = FALSE
  /\ acked = {}

-----------------------------------------------------------------------------
(* wing_csc_latch_update on one port: the three ways it ends.              *)

Wanted(p, u) == (shadow[p] \ u.mask) \union u.value

\* Nothing to change in the copy: returns 0 and touches no hardware.
Skipped(p, u) == Wanted(p, u) = shadow[p] /\ UNCHANGED <<hw, shadow>>

Transferred(p, u) ==
  /\ Wanted(p, u) # shadow[p]
  /\ hw' = [hw EXCEPT ![p] = Wanted(p, u)]
  /\ shadow' = [shadow EXCEPT ![p] = Wanted(p, u)]

\* Ignores the time-out of the transfer.
SucceedsAnyway(p, u) ==
  \/ Skipped(p, u)
  \/ Transferred(p, u)
  \/ shadow' = [shadow EXCEPT ![p] = Wanted(p, u)] /\ UNCHANGED hw

Succeeds(p, u) == Skipped(p, u) \/ Transferred(p, u)

\* /dev/mem cannot be mapped, or no transfer-complete in 500 ms.  Then the
\* word may have been latched all the same; the copy keeps the old value.
Fails(p, u) ==
  /\ Wanted(p, u) # shadow[p]
  /\ \/ UNCHANGED hw
     \/ hw' = [hw EXCEPT ![p] = Wanted(p, u)]
  /\ UNCHANGED shadow

-----------------------------------------------------------------------------
Write(value, mask) == [value |-> value, mask |-> mask]

\* Raises supply 28 before supply 27.
LightStepsSwapped(v) ==
  << Write({}, Cleared), Write({18}, {6}), Write(v, LevelBits),
     Write({6}, {}), Write({7}, {}), Write({28}, {}), Write({27}, {}),
     Write({29}, {}), Write({8}, {}) >>

\* Sets the levels after the first supply.
LightStepsLate(v) ==
  << Write({}, Cleared), Write({18}, {6}), Write({6}, {}), Write(v, LevelBits),
     Write({7}, {}), Write({27}, {}), Write({28}, {}), Write({29}, {}), Write({8}, {}) >>

LightSteps(v) ==
  << Write({}, Cleared), Write({18}, {6}), Write(v, LevelBits),
     Write({6}, {}), Write({7}, {}), Write({27}, {}), Write({28}, {}),
     Write({29}, {}), Write({8}, {}) >>

\* value > CSC_LIGHT_VALUE_MASK, as numbers.
Exceeds(v, m) == \E b \in v \ m : \A c \in m \ v : c < b

\* A new process, whatever the old one was doing: wing_surface_open.
Restart ==
  /\ shadow' = [p \in Ports |-> {}]
  /\ step' = 1 /\ level' = LevelBits
  /\ enabled' = FALSE /\ lit' = FALSE /\ acked' = {}
  /\ UNCHANGED hw

\* csclights, and every LED command while the lights are not enabled.
BeginLights(v) ==
  /\ step = 0
  /\ ~Exceeds(v, LevelBits)
  /\ step' = 1 /\ level' = v
  /\ lit' = FALSE /\ acked' = {}
  /\ UNCHANGED <<hw, shadow, enabled>>

\* Runs past the last call.
LightStepPast ==
  /\ step > 0
  /\ Succeeds(0, LightSteps(level)[step])
  /\ step' = step + 1
  /\ UNCHANGED <<level, enabled, lit, acked>>

LightStep ==
  /\ step > 0 /\ step < 9
  /\ Succeeds(0, LightSteps(level)[step])
  /\ step' = step + 1
  /\ UNCHANGED <<level, enabled, lit, acked>>

LastLightStep ==
  /\ step = 9
  /\ Succeeds(0, LightSteps(level)[9])
  /\ step' = 0
  /\ enabled' = TRUE /\ lit' = TRUE
  /\ UNCHANGED <<level, acked>>

\* The first call that fails ends the sequence where it stands.
LightsFail ==
  /\ step > 0
  /\ Fails(0, LightSteps(level)[step])
  /\ step' = 0
  /\ UNCHANGED <<level, enabled, lit, acked>>

\* The console command csclatch.
Latch(u) ==
  /\ step = 0
  /\ u.port \in Ports
  /\ \/ Succeeds(u.port, u) /\ acked' = {u}
     \/ Fails(u.port, u) /\ acked' = {}
  /\ lit' = FALSE
  /\ UNCHANGED <<step, level, enabled>>

CscNext ==
  \/ Restart
  \/ \E v \in LightValues \union {LevelBits} : BeginLights(v)
  \/ LightStep
  \/ LastLightStep
  \/ LightsFail
  \/ \E u \in Updates : Latch(u)

CscSpec == CscInit /\ [][CscNext]_cscVars

-----------------------------------------------------------------------------
(* When wing_enable_csc_lights returns 0, the latch really holds the       *)
(* copy, with every supply on: whatever earlier timeouts and restarts left *)
(* in the register, and although each single update may skip its transfer. *)
LitForReal ==
  lit => hw[0] = shadow[0] /\ EnableBits \union {18} \subseteq hw[0]

(* The supplies come up in sequence: a supply that the sequence switches   *)
(* on finds all earlier ones on, also after a restart over lit lights.     *)
EnableOrder ==
  [][step > 0 /\ level \subseteq LevelBits =>
       \A i \in 1 .. 6 :
         Enables[i] \in hw'[0] \ hw[0] =>
           \A j \in 1 .. i - 1 : Enables[j] \in hw'[0]]_cscVars

(* From a copy that agrees with the register, or is still that of a new    *)
(* process, the level bits change only while the supplies are off: no      *)
(* transfer of the sequence raises a level and leaves a supply on.         *)
LevelsWhileDark ==
  [][step > 0 /\ level \subseteq LevelBits /\ shadow[0] \in {hw[0], {}}
     /\ (hw'[0] \ hw[0]) \intersect LevelBits # {}
       => EnableBits \intersect hw'[0] = {}]_cscVars

(* What the console says after csclatch, "sent CSC latch update": the      *)
(* masked bits of the register are now those of the value.                 *)
AckedIsApplied ==
  \A u \in acked :
    /\ u.value \subseteq hw[u.port]
    /\ (u.mask \ u.value) \intersect hw[u.port] = {}
=============================================================================
