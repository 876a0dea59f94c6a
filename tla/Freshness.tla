------------------------------ MODULE Freshness ------------------------------
(***************************************************************************)
(* robot_safety::Freshness, one instance per feedback channel: from the      *)
(* times of the frames it tells whether a measurement may be relied on for    *)
(* motion.  All times are given by the caller.  Two variables of the model   *)
(* are history: since when the observations have been calm, and the newest    *)
(* frame before the last one.                                                *)
(***************************************************************************)
EXTENDS Integers

CONSTANTS
  Warn, Stop, Stable,   \* Thresholds
  Horizon               \* bound: the last moment observed

ASSUME FreshnessAssumption ==
  /\ Warn \in Nat \ {0} /\ Stop \in Nat /\ Warn < Stop /\ Stable \in Nat
  /\ Horizon \in Nat

VARIABLES
  health,         \* state_
  now,            \* last_now_, -1 before the first observation
  newest,         \* last_feedback_
  stableSince,    \* stable_since_
  latched,        \* warning_latched_
  restless,       \* the last observation, or the first, that was not calm
  previous        \* newest before it last changed

freshVars == <<health, now, newest, stableSince, latched, restless, previous>>

Healths == {"Unknown", "Healthy", "Warn", "Stop", "Stabilizing"}
Trusted == health \in {"Healthy", "Warn"}       \* trustworthyForMotion()

FreshInit ==
  /\ health = "Unknown" /\ now = -1 /\ newest = -1 /\ stableSince = -1 /\ latched = FALSE
  /\ restless = -1 /\ previous = -1

-----------------------------------------------------------------------------

(* A frame of the future, or one marked invalid, counts for nothing.         *)
Trustworthy(t, frame, valid) == valid /\ frame \in 0..t

Gap(frame) == newest >= 0 /\ frame - newest >= Stop

Notes(t, calm) == restless' = IF calm /\ now >= 0 THEN restless ELSE t

Remembers(frame) ==
  IF frame > newest THEN newest' = frame /\ previous' = newest ELSE UNCHANGED <<newest, previous>>

(* Mutant of Stopped: the stable window goes on.                             *)
StoppedShortly == health' = "Stop" /\ latched' = FALSE /\ UNCHANGED stableSince

Stopped == health' = "Stop" /\ stableSince' = -1 /\ latched' = FALSE

(* A hard fault, an untrustworthy or overdue frame, or a gap before it.       *)
Alarm(t, frame, valid, fault) ==
  /\ fault \/ ~Trustworthy(t, frame, valid) \/ Gap(frame) \/ t - frame >= Stop
  /\ Stopped
  /\ now' = t /\ Notes(t, FALSE)
  /\ IF Trustworthy(t, frame, valid) THEN Remembers(frame) ELSE UNCHANGED <<newest, previous>>

Reliable(t, frame, valid, fault) ==
  /\ ~fault /\ Trustworthy(t, frame, valid) /\ ~Gap(frame) /\ t - frame < Stop
  /\ now' = t /\ Remembers(frame)

(* A late frame: a warning, if there was trust that can wane.                *)
Late(t, frame, valid, fault) ==
  /\ Reliable(t, frame, valid, fault) /\ t - frame >= Warn
  /\ stableSince' = -1 /\ Notes(t, FALSE)
  /\ IF Trusted
     THEN health' = "Warn" /\ latched' = TRUE
     ELSE health' = "Stop" /\ UNCHANGED latched

Since(t) == IF stableSince < 0 THEN t ELSE stableSince

(* A timely frame: the stable window runs, and at its end there is trust.     *)
Timely(t, frame, valid, fault) ==
  /\ Reliable(t, frame, valid, fault) /\ t - frame < Warn /\ Notes(t, TRUE)
  /\ \/ /\ health = "Healthy" \/ (health = "Unknown" /\ Stable = 0)
        /\ health' = "Healthy" /\ UNCHANGED <<stableSince, latched>>
     \/ /\ health # "Healthy" /\ ~(health = "Unknown" /\ Stable = 0)
        /\ stableSince' = Since(t)
        /\ IF t - Since(t) >= Stable
           THEN health' = "Healthy" /\ latched' = FALSE
           ELSE health' = (IF latched THEN "Warn" ELSE "Stabilizing") /\ UNCHANGED latched

(* A clock that runs backwards: observe() throws.                            *)
Backwards ==
  /\ now >= 0
  /\ Stopped
  /\ restless' = now
  /\ UNCHANGED <<now, newest, previous>>

Observe(t, frame, valid, fault) ==
  /\ t >= now
  /\ \/ Alarm(t, frame, valid, fault)
     \/ Late(t, frame, valid, fault)
     \/ Timely(t, frame, valid, fault)

FreshNext ==
  \/ \E t \in 0..Horizon : \E frame \in -1..(t + 1), valid, fault \in BOOLEAN :
       Observe(t, frame, valid, fault)
  \/ Backwards

FreshSpec == FreshInit /\ [][FreshNext]_freshVars

-----------------------------------------------------------------------------

FreshKinds == health \in Healths /\ latched \in BOOLEAN

FreshTimes == {now, stableSince, restless, previous, newest} \subseteq -1..Horizon

FreshTypeOK == FreshKinds /\ FreshTimes

(* Trust is earned and cannot be kept by accident.  A trusted channel is fresh; *)
(* full trust takes a whole stable window since the last observation that was *)
(* late, faulty or overdue, and since the first one; and a silence breaks the *)
(* calm although the frame that ends it is new (freshness.hpp:22-46).         *)
TrustIsEarned ==
  /\ Trusted => newest >= 0 /\ now - newest < Stop
  /\ health = "Healthy" => now - restless >= Stable
  /\ previous >= 0 /\ newest - previous >= Stop => restless >= newest

(* What the proof of TrustIsEarned needs besides: the order of the times.     *)
FreshOrder ==
  /\ previous <= newest /\ newest <= now /\ restless <= now
  /\ stableSince >= 0 => restless <= stableSince /\ stableSince <= now

FreshInv == FreshTypeOK /\ TrustIsEarned /\ FreshOrder
=============================================================================
