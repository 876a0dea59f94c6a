---------------------------- MODULE SafetyDomain ----------------------------
(***************************************************************************)
(* robot_safety::Domain (src/robot_safety/src/domain.cpp): the permission   *)
(* gate every hardware writer of the robot asks before it moves an axis.    *)
(*                                                                          *)
(* Every public method takes mutex_ first, so one call is one step.  The    *)
(* motion groups hold a state and an epoch; a writer that remembers an      *)
(* epoch may move only while permits(group, epoch) holds.  Restrictions are *)
(* recomputed from the outstanding events, from the readiness of the axes   *)
(* and from evidence that expires, and they are committed lazily: time      *)
(* passing changes nothing until some call runs propagate().                *)
(*                                                                          *)
(* Deadlines are kept as the time left until them (deadline - clock_()), so *)
(* that a clock that never stops has finitely many states; one call reads   *)
(* the clock once.                                                          *)
(***************************************************************************)
EXTENDS Naturals, FiniteSets

CONSTANTS
  Groups,            \* motion groups: arm, flippers, base, gripper
  Axes,              \* joints
  Backends,          \* hardware components that share a transport
  AxisGroup,         \* the group an axis belongs to
  AxisBackend,       \* the backend an axis belongs to
  Policies,          \* the association tables configure() may be given
  Conditions,        \* names of physical conditions, "arm_secured"
  Sources,           \* who may attest a condition
  Categories,        \* classes of events
  AnyCategory,       \* the "*" of an association
  ReportCategories,  \* the categories device reports carry
  ReportIds,         \* ids of externally raised events
  Reports,           \* the events external callers raise
  WarnedAxes,        \* axes whose feedback watchdog raises warnings
  ReportedBackends,  \* backends whose transport is reported
  WriterModes,       \* which writers register: "grouped", "legacy"
  Components,        \* names of the legacy readiness report
  None,              \* an empty string field
  MaxLease,          \* longest owner lease, in ticks; 0 leaves leases out
  MaxValidity,       \* longest validity of evidence, in ticks
  MaxEpoch,          \* bound: no new session or configuration beyond it
  MaxLegacyEpoch     \* bound on the epoch of the legacy gate

Severities == {"Reject", "Warn", "GroupStop", "GlobalStop"}

(* An externally raised event as the caller fills it in. *)
Report == [id : ReportIds, axis : Axes \cup {None}, group : Groups \cup {None},
           backend : Backends \cup {None}, category : Categories,
           severity : Severities]

(* While `dependent` relies on `source`, a stop of `source` spreads to it    *)
(* unless `attester` vouches for `condition`.                                *)
Association == [source : Groups, category : Categories \cup {AnyCategory},
                dependent : Groups, condition : Conditions, attester : Sources]

ASSUME DomainAssumption ==
  /\ AxisGroup \in [Axes -> Groups]
  /\ AxisBackend \in [Axes -> Backends]
  /\ None \notin Groups \cup Axes \cup Backends
  /\ {"feedback", "feedback_warning", "transport", "unavailable"} \subseteq Categories
  /\ AnyCategory \notin Categories
  /\ ReportCategories \subseteq Categories
  /\ Reports \subseteq Report
  /\ WarnedAxes \subseteq Axes /\ ReportedBackends \subseteq Backends
  /\ WriterModes \subseteq {"grouped", "legacy"}
  /\ \A p \in Policies : p \subseteq Association
  /\ MaxLease \in Nat /\ MaxValidity \in Nat
  /\ MaxEpoch \in Nat /\ MaxLegacyEpoch \in Nat

(* configure() accepts a finite set of groups that all have axes              *)
(* (domain.cpp:33-41).                                                       *)
ASSUME GroupsAssumption ==
  IsFiniteSet(Groups) /\ \A g \in Groups : \E a \in Axes : AxisGroup[a] = g

VARIABLES
  configured,      \* groups_ is not empty
  associations,    \* associations_
  axisReady,       \* axes_[a].ready
  state,           \* groups_[g].state
  epoch,           \* groups_[g].epoch
  evidence,        \* conditions_: time a source's attestation is still good for
  events,          \* events_: outstanding, not yet acknowledged
  globalInhibit,   \* global_inhibit_
  ownerRequired,   \* owner_required_
  leased,          \* owner_deadline_ > 0
  leaseLeft,       \* time left until owner_deadline_
  ownerExpired,    \* owner_expired_
  legacyState,     \* state_ of the whole-vehicle gate
  legacyEpoch,     \* epoch_ of the whole-vehicle gate
  componentReady,  \* ready_
  writers          \* the mode of the registered writers

configVars == <<configured, associations>>
leaseVars  == <<ownerRequired, leased, leaseLeft>>
ownerVars  == <<ownerRequired, leased, leaseLeft, ownerExpired>>
legacyVars == <<legacyState, legacyEpoch, componentReady>>
groupVars  == <<state, epoch>>
vars == <<configured, associations, axisReady, state, epoch, evidence, events,
          globalInhibit, ownerRequired, leased, leaseLeft, ownerExpired,
          legacyState, legacyEpoch, componentReady, writers>>

States == {"Stopped", "Armed", "Running", "Fault"}
Live == {"Armed", "Running"}

EventIds == ({"readiness", "warning"} \X Axes) \cup ({"backend"} \X Backends)
              \cup ({"report"} \X ReportIds)

Event == [id : EventIds, axis : Axes \cup {None}, group : Groups \cup {None},
          backend : Backends \cup {None}, category : Categories,
          severity : Severities]

TypeOK ==
  /\ configured \in BOOLEAN
  /\ associations \in SUBSET Association
  /\ axisReady \in [Axes -> BOOLEAN]
  /\ state \in [Groups -> States]
  /\ epoch \in [Groups -> Nat]
  /\ evidence \in [Conditions -> [Sources -> 0..MaxValidity]]
  /\ events \in SUBSET Event
  /\ globalInhibit \in BOOLEAN
  /\ ownerRequired \in BOOLEAN /\ leased \in BOOLEAN /\ ownerExpired \in BOOLEAN
  /\ leaseLeft \in 0..MaxLease
  /\ legacyState \in States
  /\ legacyEpoch \in Nat
  /\ componentReady \in [Components -> BOOLEAN]
  /\ writers \in {"none", "grouped", "legacy"}

-----------------------------------------------------------------------------
(* What restricts a group.                                                  *)

ConfiguredGroups == IF configured THEN Groups ELSE {}

(* refreshGroups(): a group is ready when each of its axes is. *)
Ready(g) == \A a \in Axes : AxisGroup[a] = g => axisReady[a]

ConditionSatisfied(r) == evidence[r.condition][r.attester] > 0

(* Mutant of Seed: an axis event with backend metadata taken for an outage of  *)
(* the bus.                                                                  *)
SeedTakesBackend(e) ==
  {g \in Groups :
     \/ e.severity = "GlobalStop"
     \/ /\ e.severity = "GroupStop"
        /\ \/ e.axis # None /\ g = AxisGroup[e.axis]
           \/ g = e.group
           \/ \E a \in Axes : AxisGroup[a] = g /\ AxisBackend[a] = e.backend}

(* The groups an event stops by itself: an axis event its group, a group     *)
(* event that group, and only an event with neither the whole backend.       *)
Seed(e) ==
  {g \in Groups :
     \/ e.severity = "GlobalStop"
     \/ /\ e.severity = "GroupStop"
        /\ \/ e.axis # None /\ g = AxisGroup[e.axis]
           \/ g = e.group
           \/ /\ e.axis = None /\ e.group = None
              /\ \E a \in Axes : AxisGroup[a] = g /\ AxisBackend[a] = e.backend}

(* A stop of r.source by e spreads to r.dependent.  A restriction that has   *)
(* spread carries unknown mechanical state, so past the event's own group    *)
(* every category applies.                                                   *)
Spreads(r, e) ==
  /\ r.category \in {AnyCategory, e.category} \/ r.source # e.group
  /\ ~ConditionSatisfied(r)

(* Mutant of Scope: one pass over the rules instead of a fixed point. *)
ScopeOfOnePass(e) ==
  Seed(e) \cup {r.dependent : r \in {q \in associations : q.source \in Seed(e) /\ Spreads(q, e)}}

(* scope(): the least set of groups that holds the seed and that no rule     *)
(* leads out of: g is in it when every closed set around the seed has g.     *)
Scope(e) ==
  LET seed == Seed(e)
      links == {r \in associations : Spreads(r, e)}
  IN
  {g \in Groups :
     ~\E S \in SUBSET (Groups \ {g}) :
        seed \subseteq S /\ \A r \in links : r.source \in S => r.dependent \in S}

Unavailable(g) ==
  [id |-> <<"unavailable", g>>, axis |-> None, group |-> g, backend |-> None,
   category |-> "unavailable", severity |-> "GroupStop"]

(* restrictions(): what the events stop, and whoever depends on a group that *)
(* is not ready -- not that group itself, which keeps its startup state.     *)
Restricted ==
  (UNION {Scope(e) : e \in events})
    \cup (UNION {Scope(Unavailable(g)) \ {g} : g \in {h \in Groups : ~Ready(h)}})

OwnerFresh == ~ownerRequired \/ leaseLeft > 0
LeaseLapsed == ownerRequired /\ leased /\ ~ownerExpired /\ ~OwnerFresh

(* What permits(g, epoch[g]) answers now. *)
Permits(g) ==
  /\ configured /\ state[g] = "Running"
  /\ ~globalInhibit /\ OwnerFresh
  /\ Ready(g) /\ g \notin Restricted

-----------------------------------------------------------------------------
(* Committing a restriction.                                                *)

RevokedState(S) ==
  [g \in Groups |-> IF g \in S \cap ConfiguredGroups THEN "Fault" ELSE state[g]]

(* Mutant of RevokedEpoch: a revoked session keeps its epoch. *)
EpochKept(S) == epoch

RevokedEpoch(S) ==
  [g \in Groups |-> IF g \in S \cap ConfiguredGroups /\ state[g] # "Fault"
                      THEN epoch[g] + 1 ELSE epoch[g]]

(* revoke() on every group of S: Fault, and a new epoch on the first time. *)
Revoke(S) == state' = RevokedState(S) /\ epoch' = RevokedEpoch(S)

(* Mutant of ExpireOwner: the inhibition is latched, the groups run on. *)
ExpireWithoutRevoking ==
  /\ ownerExpired' = (ownerExpired \/ LeaseLapsed)
  /\ globalInhibit' = (globalInhibit \/ LeaseLapsed)
  /\ UNCHANGED groupVars

(* expireOwner(): a lapsed lease inhibits everything and stops all groups. *)
ExpireOwner ==
  /\ ownerExpired' = (ownerExpired \/ LeaseLapsed)
  /\ globalInhibit' = (globalInhibit \/ LeaseLapsed)
  /\ Revoke(IF LeaseLapsed THEN Groups ELSE {})

(* propagate() in the state the call leaves behind, where the call has        *)
(* revoked the groups of S before and set the inhibit flag to `inhibit`.      *)
Propagate(S, inhibit) ==
  /\ ownerExpired' = (ownerExpired \/ LeaseLapsed)
  /\ globalInhibit' = (inhibit \/ LeaseLapsed)
  /\ \E stopped \in {IF LeaseLapsed THEN Groups ELSE S \cup Restricted'} :
       Revoke(stopped)

-----------------------------------------------------------------------------
Init ==
  /\ configured = FALSE
  /\ associations = {}
  /\ axisReady = [a \in Axes |-> FALSE]
  /\ state = [g \in Groups |-> "Stopped"]
  /\ epoch = [g \in Groups |-> 0]
  /\ evidence = [c \in Conditions |-> [s \in Sources |-> 0]]
  /\ events = {}
  /\ globalInhibit = FALSE
  /\ ownerRequired = FALSE /\ leased = FALSE /\ leaseLeft = 0
  /\ ownerExpired = FALSE
  /\ legacyState = "Stopped" /\ legacyEpoch = 0
  /\ componentReady = [c \in Components |-> FALSE]
  /\ writers = "none"

(* Mutant of Configure: outstanding events do not refuse it. *)
ConfigureOverEvents(policy) ==
  /\ writers # "legacy"
  /\ legacyState \notin Live
  /\ \A g \in Groups : state[g] \notin Live
  /\ \A g \in Groups : epoch[g] < MaxEpoch
  /\ configured' = TRUE
  /\ associations' = policy
  /\ axisReady' = [a \in Axes |-> FALSE]
  /\ evidence' = [c \in Conditions |-> [s \in Sources |-> 0]]
  /\ state' = [g \in Groups |-> "Stopped"]
  /\ epoch' = [g \in Groups |-> epoch[g] + 1]
  /\ UNCHANGED <<events, globalInhibit, ownerVars, legacyVars, writers>>

(* configure(): refused beside a legacy writer, a live session or an         *)
(* outstanding event; every axis must report again, every session ends.      *)
Configure(policy) ==
  /\ writers # "legacy"
  /\ legacyState \notin Live
  /\ \A g \in Groups : state[g] \notin Live
  /\ events = {}
  /\ \A g \in Groups : epoch[g] < MaxEpoch
  /\ configured' = TRUE
  /\ associations' = policy
  /\ axisReady' = [a \in Axes |-> FALSE]
  /\ evidence' = [c \in Conditions |-> [s \in Sources |-> 0]]
  /\ state' = [g \in Groups |-> "Stopped"]
  /\ epoch' = [g \in Groups |-> epoch[g] + 1]
  /\ UNCHANGED <<events, globalInhibit, ownerVars, legacyVars, writers>>

(* registerWriter(): grouped and legacy writers never share a domain. *)
RegisterWriter(mode) ==
  /\ mode = "legacy" => ~configured
  /\ writers \in {"none", mode}
  /\ writers' = mode
  /\ UNCHANGED <<configVars, axisReady, groupVars, evidence, events,
                 globalInhibit, ownerVars, legacyVars>>

-----------------------------------------------------------------------------
(* Reports of the hardware.                                                 *)

(* An id identifies one occurrence: the first event raised under it stays. *)
Emplace(e) == IF \E x \in events : x.id = e.id THEN events ELSE events \cup {e}

ReadinessEvent(a, category) ==
  [id |-> <<"readiness", a>>, axis |-> a, group |-> AxisGroup[a],
   backend |-> AxisBackend[a], category |-> category, severity |-> "GroupStop"]

BackendEvent(b) ==
  [id |-> <<"backend", b>>, axis |-> None, group |-> None, backend |-> b,
   category |-> "transport", severity |-> "GroupStop"]

WarningEvent(a) ==
  [id |-> <<"warning", a>>, axis |-> a, group |-> AxisGroup[a],
   backend |-> AxisBackend[a], category |-> "feedback_warning", severity |-> "Warn"]

(* Mutant of UnprepareAxis: taking an axis out leaves the session alone. *)
UnprepareQuietly(a) ==
  /\ configured
  /\ axisReady' = [axisReady EXCEPT ![a] = FALSE]
  /\ UNCHANGED <<configVars, evidence, events>>
  /\ Propagate({}, globalInhibit)
  /\ UNCHANGED <<leaseVars, legacyVars, writers>>

(* unprepareAxis(): an axis taken out of service, which is not a fault: it    *)
(* ends its group's session and leaves no event to acknowledge.              *)
UnprepareAxis(a) ==
  /\ configured
  /\ axisReady' = [axisReady EXCEPT ![a] = FALSE]
  /\ UNCHANGED <<configVars, evidence, events>>
  /\ Propagate({g \in {AxisGroup[a]} : state[g] \in Live}, globalInhibit)
  /\ UNCHANGED <<leaseVars, legacyVars, writers>>

(* reportAxis(): lost feedback is an event that outlives its recovery. *)
ReportAxis(a, ready, category) ==
  /\ configured
  /\ axisReady' = [axisReady EXCEPT ![a] = ready]
  /\ events' = IF ready THEN events ELSE Emplace(ReadinessEvent(a, category))
  /\ UNCHANGED <<configVars, evidence>>
  /\ Propagate({}, globalInhibit)
  /\ UNCHANGED <<leaseVars, legacyVars, writers>>

(* reportBackend(): a lost transport takes all its axes; a restored one does  *)
(* not make any of them ready.                                               *)
ReportBackend(b, ready) ==
  /\ configured
  /\ \E a \in Axes : AxisBackend[a] = b
  /\ axisReady' = [a \in Axes |-> axisReady[a] /\ (ready \/ AxisBackend[a] # b)]
  /\ events' = IF ready THEN events ELSE Emplace(BackendEvent(b))
  /\ UNCHANGED <<configVars, evidence>>
  /\ Propagate({}, globalInhibit)
  /\ UNCHANGED <<leaseVars, legacyVars, writers>>

(* warning(): raised and cleared without touching any permission. *)
Warning(a, active) ==
  /\ configured
  /\ events' = IF active THEN Emplace(WarningEvent(a))
               ELSE {e \in events : e.id # <<"warning", a>>}
  /\ UNCHANGED <<configVars, axisReady, groupVars, evidence, globalInhibit,
                 ownerVars, legacyVars, writers>>

-----------------------------------------------------------------------------
(* Evidence and externally raised events.                                   *)

(* Mutant of Condition: the lapse of the old attestation is not committed. *)
ConditionForgives(c, s, left) ==
  /\ configured
  /\ \E r \in associations : r.condition = c /\ r.attester = s
  /\ evidence' = [evidence EXCEPT ![c] = [t \in Sources |-> IF t = s THEN left ELSE 0]]
  /\ UNCHANGED <<configVars, axisReady, events>>
  /\ Propagate({}, globalInhibit)
  /\ UNCHANGED <<leaseVars, legacyVars, writers>>

(* condition(): an attestation of c by s, good for `left` ticks; 0 stands for *)
(* Unknown or Unsatisfied.  It replaces what any source said of c before.    *)
(* The lapse of the old attestation is committed first.                      *)
Condition(c, s, left) ==
  /\ configured
  /\ \E r \in associations : r.condition = c /\ r.attester = s
  /\ evidence' = [evidence EXCEPT ![c] = [t \in Sources |-> IF t = s THEN left ELSE 0]]
  /\ UNCHANGED <<configVars, axisReady, events>>
  /\ Propagate(Restricted, globalInhibit)
  /\ UNCHANGED <<leaseVars, legacyVars, writers>>

(* An event about an axis may name no other owner than the axis's own. *)
OwnershipAgrees(r) ==
  r.axis # None => /\ r.group \in {None, AxisGroup[r.axis]}
                   /\ r.backend \in {None, AxisBackend[r.axis]}

Completed(r) ==
  [id |-> <<"report", r.id>>, axis |-> r.axis,
   group |-> IF r.axis = None THEN r.group ELSE AxisGroup[r.axis],
   backend |-> IF r.axis = None THEN r.backend ELSE AxisBackend[r.axis],
   category |-> r.category, severity |-> r.severity]

(* event(): an id reused for another source or class is refused, a repeated   *)
(* event only propagates; a global stop also faults the legacy gate.         *)
RaiseEvent(r) ==
  LET e == Completed(r)
      new == e \notin events
      global == new /\ e.severity = "GlobalStop"
  IN
  /\ OwnershipAgrees(r)
  /\ ~configured => r.axis = None /\ r.group = None /\ r.severity # "GroupStop"
  /\ r.severity = "GroupStop" => Seed(e) # {}
  /\ \A x \in events : x.id = e.id => x = e
  /\ events' = events \cup {e}
  /\ UNCHANGED <<configVars, axisReady, evidence>>
  /\ Propagate({}, globalInhibit \/ global)
  /\ legacyState' = IF global THEN "Fault" ELSE legacyState
  /\ legacyEpoch' = IF global /\ legacyState # "Fault" THEN legacyEpoch + 1 ELSE legacyEpoch
  /\ UNCHANGED <<leaseVars, componentReady, writers>>

(* The axes a stop came from: they must be ready before it is acknowledged. *)
SourceAxes(e) ==
  {a \in Axes : \/ a = e.axis
                \/ e.axis = None /\ e.group # None /\ AxisGroup[a] = e.group
                \/ e.axis = None /\ e.group = None /\ AxisBackend[a] = e.backend}

Acknowledgeable(e) ==
  e.severity \in {"GroupStop", "GlobalStop"} => \A a \in SourceAxes(e) : axisReady[a]

(* acknowledge(): lapses are committed before the event goes; the groups it   *)
(* stopped stay in Fault.  A refused call still commits them: see Poll.      *)
Acknowledge(e) ==
  /\ e \in events /\ Acknowledgeable(e)
  /\ events' = events \ {e}
  /\ UNCHANGED <<configVars, axisReady, evidence>>
  /\ Propagate(Restricted, globalInhibit)
  /\ UNCHANGED <<leaseVars, legacyVars, writers>>

-----------------------------------------------------------------------------
(* Sessions.                                                                *)

(* What arm() and run() ask besides the group's own state. *)
Unhindered(g) ==
  /\ configured /\ ~globalInhibit /\ OwnerFresh
  /\ Ready(g) /\ g \notin Restricted

(* arm() of a group that is not running: a new epoch, unless already Armed.   *)
(* A refused call only propagates: see Poll.                                 *)
Arm(g) ==
  /\ Unhindered(g) /\ state[g] # "Running"
  /\ state[g] = "Armed" \/ epoch[g] < MaxEpoch
  /\ \E stopped \in {Restricted} :
       /\ state' = [RevokedState(stopped) EXCEPT ![g] = "Armed"]
       /\ epoch' = [RevokedEpoch(stopped) EXCEPT
                      ![g] = IF state[g] = "Armed" THEN epoch[g] ELSE epoch[g] + 1]
  /\ UNCHANGED <<configVars, axisReady, evidence, events, globalInhibit,
                 ownerVars, legacyVars, writers>>

(* run(): the armed session, with the epoch it was armed with, may move. *)
Run(g) ==
  /\ Unhindered(g) /\ state[g] = "Armed"
  /\ \E stopped \in {Restricted} :
       /\ state' = [RevokedState(stopped) EXCEPT ![g] = "Running"]
       /\ epoch' = RevokedEpoch(stopped)
  /\ UNCHANGED <<configVars, axisReady, evidence, events, globalInhibit,
                 ownerVars, legacyVars, writers>>

(* The groups of S in `from` are stopped with a new epoch. *)
StopSessions(S, from) ==
  /\ state' = [g \in Groups |-> IF g \in S /\ state[g] \in from THEN "Stopped" ELSE state[g]]
  /\ epoch' = [g \in Groups |-> IF g \in S /\ state[g] \in from THEN epoch[g] + 1 ELSE epoch[g]]

(* Mutant of Halt: halting clears a latched fault. *)
HaltClearsFault(g) ==
  /\ configured
  /\ StopSessions({g}, Live \cup {"Fault"})
  /\ UNCHANGED <<configVars, axisReady, evidence, events, globalInhibit,
                 ownerVars, legacyVars, writers>>

(* halt(group) *)
Halt(g) ==
  /\ configured
  /\ StopSessions({g}, Live)
  /\ UNCHANGED <<configVars, axisReady, evidence, events, globalInhibit,
                 ownerVars, legacyVars, writers>>

(* Mutant of Invalidate: cancelling an operation clears a latched fault. *)
InvalidateClearsFault(g) ==
  /\ configured
  /\ epoch[g] < MaxEpoch
  /\ state' = [state EXCEPT ![g] = "Stopped"]
  /\ epoch' = [epoch EXCEPT ![g] = @ + 1]
  /\ UNCHANGED <<configVars, axisReady, evidence, events, globalInhibit,
                 ownerVars, legacyVars, writers>>

(* invalidate(): cancels whatever was prepared, in every state of the group. *)
Invalidate(g) ==
  /\ configured
  /\ epoch[g] < MaxEpoch
  /\ state' = [state EXCEPT ![g] = IF @ = "Fault" THEN "Fault" ELSE "Stopped"]
  /\ epoch' = [epoch EXCEPT ![g] = @ + 1]
  /\ UNCHANGED <<configVars, axisReady, evidence, events, globalInhibit,
                 ownerVars, legacyVars, writers>>

(* What a query leaves of the groups: all are stopped when the lease has         *)
(* lapsed, otherwise those that are restricted now.                          *)
Overdue == IF LeaseLapsed THEN Groups ELSE Restricted
Queried == RevokedState(Overdue)

(* Mutant of Poll: a query looks at the owner's lease only. *)
PollOwnerOnly ==
  /\ ExpireOwner
  /\ UNCHANGED <<configVars, axisReady, evidence, events, leaseVars, legacyVars, writers>>

(* poll(), permits(group, _), epoch(group), group(), groups() and every       *)
(* refused arm(), run() and acknowledge(): propagate() commits what has       *)
(* lapsed, and nothing else changes.                                         *)
Poll ==
  /\ \E overdue \in {Overdue} : Revoke(overdue)
  /\ ownerExpired' = (ownerExpired \/ LeaseLapsed)
  /\ globalInhibit' = (globalInhibit \/ LeaseLapsed)
  /\ UNCHANGED <<configVars, axisReady, evidence, events, leaseVars, legacyVars, writers>>

-----------------------------------------------------------------------------
(* Global stop and the owner's lease.                                       *)

LegacyEnterFault ==
  /\ legacyState' = "Fault"
  /\ legacyEpoch' = IF legacyState = "Fault" THEN legacyEpoch ELSE legacyEpoch + 1

(* globalStop() *)
GlobalStop ==
  /\ globalInhibit' = TRUE
  /\ Revoke(Groups)
  /\ LegacyEnterFault
  /\ UNCHANGED <<configVars, axisReady, evidence, events, ownerVars,
                 componentReady, writers>>

(* resetGlobalStop(): lifts the inhibition and starts nothing. *)
ResetGlobalStop ==
  /\ OwnerFresh
  /\ \A e \in events : e.severity # "GlobalStop"
  /\ ownerExpired' = FALSE
  /\ globalInhibit' = FALSE
  /\ UNCHANGED <<configVars, axisReady, groupVars, evidence, events, leaseVars,
                 legacyVars, writers>>

(* requireOwnerLease(): guard() calls it before it offers the arm services,   *)
(* so no group is live yet.                                                  *)
RequireOwnerLease ==
  /\ MaxLease > 0
  /\ \A g \in Groups : state[g] \notin Live
  /\ ownerRequired' = TRUE
  /\ UNCHANGED <<configVars, axisReady, groupVars, evidence, events,
                 globalInhibit, leased, leaseLeft, ownerExpired, legacyVars, writers>>

(* Mutant of RenewOwner: the lapse of the old lease is not looked for. *)
RenewForgives(left) ==
  /\ leased' = (leased \/ left > 0)
  /\ leaseLeft' = IF left > leaseLeft THEN left ELSE leaseLeft
  /\ UNCHANGED <<configVars, axisReady, groupVars, evidence, events, globalInhibit,
                 ownerRequired, ownerExpired, legacyVars, writers>>

(* renewOwner() by a heartbeat that still has `left` ticks of its lifetime:   *)
(* a lapse is committed first.  A dead or future heartbeat (0) is refused     *)
(* after that commit.                                                        *)
RenewOwner(left) ==
  /\ ExpireOwner
  /\ leased' = (leased \/ left > 0)
  /\ leaseLeft' = IF left > leaseLeft THEN left ELSE leaseLeft
  /\ UNCHANGED <<configVars, axisReady, evidence, events, ownerRequired,
                 legacyVars, writers>>

(* globallyInhibited() *)
GloballyInhibited ==
  /\ ExpireOwner
  /\ UNCHANGED <<configVars, axisReady, evidence, events, leaseVars,
                 legacyVars, writers>>

(* The steady clock advances by one tick. *)
Tick ==
  /\ leaseLeft' = IF leaseLeft > 0 THEN leaseLeft - 1 ELSE 0
  /\ evidence' = [c \in Conditions |-> [s \in Sources |->
                    IF evidence[c][s] > 0 THEN evidence[c][s] - 1 ELSE 0]]
  /\ UNCHANGED <<configVars, axisReady, groupVars, events, globalInhibit,
                 ownerRequired, leased, ownerExpired, legacyVars, writers>>

-----------------------------------------------------------------------------
(* The whole-vehicle gate of the writers that were not migrated.            *)

(* report(): lost readiness under a live group session inhibits everything. *)
LegacyReport(c, ready) ==
  LET stops == ~ready /\ \E g \in ConfiguredGroups : state[g] \in Live
      faults == ~ready /\ legacyState \in Live
  IN
  /\ componentReady' = [componentReady EXCEPT ![c] = ready]
  /\ globalInhibit' = (globalInhibit \/ stops)
  /\ Revoke(IF stops THEN Groups ELSE {})
  /\ legacyState' = IF faults THEN "Fault" ELSE legacyState
  /\ legacyEpoch' = IF faults THEN legacyEpoch + 1 ELSE legacyEpoch
  /\ UNCHANGED <<configVars, axisReady, evidence, events, ownerVars, writers>>

(* Mutant of LegacyFault: the groups are inhibited, not revoked. *)
LegacyFaultInhibitsOnly ==
  /\ globalInhibit' = (globalInhibit \/ configured)
  /\ LegacyEnterFault
  /\ UNCHANGED <<configVars, axisReady, groupVars, evidence, events, ownerVars,
                 componentReady, writers>>

(* fault() *)
LegacyFault ==
  /\ globalInhibit' = (globalInhibit \/ configured)
  /\ Revoke(Groups)
  /\ LegacyEnterFault
  /\ UNCHANGED <<configVars, axisReady, evidence, events, ownerVars,
                 componentReady, writers>>

(* arm(): never in a domain with groups. *)
LegacyArm ==
  /\ ~globalInhibit /\ ~configured
  /\ \A c \in Components : componentReady[c]
  /\ legacyEpoch < MaxLegacyEpoch
  /\ legacyState' = "Armed" /\ legacyEpoch' = legacyEpoch + 1
  /\ UNCHANGED <<configVars, axisReady, groupVars, evidence, events,
                 globalInhibit, ownerVars, componentReady, writers>>

(* run() *)
LegacyRun ==
  /\ legacyState = "Armed"
  /\ legacyState' = "Running"
  /\ UNCHANGED <<configVars, axisReady, groupVars, evidence, events,
                 globalInhibit, ownerVars, legacyEpoch, componentReady, writers>>

(* halt() of the whole vehicle. *)
LegacyHalt ==
  /\ legacyEpoch < MaxLegacyEpoch
  /\ legacyState' = "Stopped" /\ legacyEpoch' = legacyEpoch + 1
  /\ StopSessions(ConfiguredGroups, Live)
  /\ UNCHANGED <<configVars, axisReady, evidence, events, globalInhibit,
                 ownerVars, componentReady, writers>>

-----------------------------------------------------------------------------
Configuration ==
  \/ \E p \in Policies : Configure(p)
  \/ \E m \in WriterModes : RegisterWriter(m)

Device ==
  \/ \E a \in Axes : UnprepareAxis(a)
  \/ \E a \in Axes, r \in BOOLEAN, c \in ReportCategories : ReportAxis(a, r, c)
  \/ \E b \in ReportedBackends, r \in BOOLEAN : ReportBackend(b, r)
  \/ \E a \in WarnedAxes, on \in BOOLEAN : Warning(a, on)
  \/ \E c \in Conditions, s \in Sources, left \in 0..MaxValidity : Condition(c, s, left)

Operator ==
  \/ \E r \in Reports : RaiseEvent(r)
  \/ \E e \in events : Acknowledge(e)
  \/ \E g \in Groups : Arm(g) \/ Run(g) \/ Halt(g) \/ Invalidate(g)
  \/ GlobalStop
  \/ ResetGlobalStop

Owner ==
  \/ RequireOwnerLease
  \/ \E left \in 0..MaxLease : RenewOwner(left)
  \/ GloballyInhibited

Legacy ==
  \/ \E c \in Components, r \in BOOLEAN : LegacyReport(c, r)
  \/ LegacyFault \/ LegacyArm \/ LegacyRun \/ LegacyHalt

Next == Configuration \/ Device \/ Operator \/ Owner \/ Legacy \/ Poll \/ Tick

Spec == Init /\ [][Next]_vars

(* The controller manager's write() asks permits() in every cycle, on a       *)
(* thread nothing in the domain blocks; nobody else is obliged to call.      *)
FairSpec == Spec /\ WF_vars(Poll)

-----------------------------------------------------------------------------
(* Safety.                                                                  *)

(* While the domain is inhibited -- global stop, unacknowledged global event, *)
(* lapsed owner, lost legacy readiness -- no group has a session, whatever    *)
(* calls arrive in whatever order (domain.cpp:267-289, 234-246).             *)
InhibitHolds ==
  globalInhibit \/ ownerExpired => \A g \in Groups : state[g] \notin Live

(* An outstanding stop keeps the group of every axis it came from in Fault,   *)
(* from the event to its acknowledgement, through halts, invalidations,       *)
(* repeated reports and recovered feedback (domain.cpp:78-90, 218-233).      *)
StopHolds ==
  configured =>
    \A e \in events :
      /\ e.severity = "GroupStop" =>
           \A a \in SourceAxes(e) : state[AxisGroup[a]] = "Fault"
      /\ e.severity = "GlobalStop" => \A g \in Groups : state[g] = "Fault"

(* A group with a session has feedback from all of its axes: each of the      *)
(* ways an axis stops being ready also ends the session (domain.cpp:125-170). *)
LiveIsReady == \A g \in Groups : state[g] \in Live => Ready(g)

(* The gate of the whole vehicle and those of the groups are never open       *)
(* together: "Group methods never grant permission through the legacy         *)
(* permits(epoch) gate" (domain.hpp:17, domain.cpp:24-60, 349-359).          *)
LegacyClosed == configured => legacyState \notin Live

(* A live session that something restricts now. *)
Hindered(g) == g \in Restricted \/ ~OwnerFresh

(* A lapse of evidence or of the owner's lease is never forgiven: when the    *)
(* hindrance of a live session goes away, so has the session -- except when   *)
(* the group it depends on has just become ready (domain.cpp:171-180,         *)
(* 291-297).                                                                 *)
NoLapseForgiven ==
  [][\A g \in Groups :
       /\ state[g] \in Live /\ Hindered(g)
       /\ ~Hindered(g)'
       /\ \A a \in Axes : axisReady'[a] => axisReady[a]
       => epoch'[g] > epoch[g]]_vars

(* A session something restricts does not go on: once evidence or the lease   *)
(* has lapsed, the write loop's next question ends it, unless the hindrance   *)
(* goes first (domain.cpp:114-124, 253-261, 282-289).                        *)
LapseCommitted ==
  \A g \in Groups :
    (state[g] \in Live /\ Hindered(g)) ~> ~(state[g] \in Live /\ Hindered(g))

-----------------------------------------------------------------------------
(* Safety, stated through chains of associations instead of the closure that  *)
(* scope() computes.                                                         *)

(* A chain of dependences leads from a group that e stops to g, and no link   *)
(* of it is attested.                                                        *)
Exposed(g, hit, e) ==
  \E n \in 1..Cardinality(Groups) : \E p \in [1..n -> Groups] :
    /\ p[1] \in hit /\ p[n] = g
    /\ \A i \in 1..(n - 1) : \E r \in associations :
         /\ r.source = p[i] /\ r.dependent = p[i + 1]
         /\ evidence[r.condition][r.attester] = 0
         /\ r.category \in {AnyCategory, e.category} \/ p[i] # e.group

(* g must not move: an outstanding stop or a group that is not ready reaches  *)
(* it.                                                                       *)
Endangered(g) ==
  \/ \E e \in events :
       \/ e.severity = "GlobalStop"
       \/ /\ e.severity = "GroupStop"
          /\ Exposed(g, {AxisGroup[a] : a \in SourceAxes(e)}, e)
  \/ \E h \in Groups \ {g} :
       /\ \E a \in Axes : AxisGroup[a] = h /\ ~axisReady[a]
       /\ Exposed(g, {h}, [category |-> "unavailable", group |-> h])

(* A group loses its session to a fault only for a cause that reaches it:     *)
(* faults of groups it does not depend on, directly or through others, leave  *)
(* it running (domain.cpp:78-124).                                           *)
RevokedForCause ==
  [][\A g \in Groups : state[g] \in Live /\ state'[g] = "Fault" =>
       \/ globalInhibit'
       \/ \E a \in Axes : AxisGroup[a] = g /\ ~axisReady'[a]
       \/ Endangered(g) \/ Endangered(g)']_vars

(* Whatever a query leaves live may move: no inhibition, no lapsed lease, and    *)
(* no chain of unattested dependences from a stop or from a group that is not  *)
(* ready reaches it.  Poll leaves the states Queried, also when that is what they    *)
(* are already, so this is about every query in every reachable state          *)
(* (domain.cpp:78-124, 253-261).                                             *)
QueryCommits ==
  \A g \in Groups : Queried[g] \in Live =>
    /\ ~globalInhibit
    /\ ~(ownerRequired /\ leaseLeft = 0)
    /\ ~Endangered(g)

(* A group leaves Fault only by being armed, while nothing endangers it, or   *)
(* with the whole configuration: good feedback, fresh evidence, a reset or an *)
(* acknowledgement alone never do it (domain.cpp:218-246, 274-280).          *)
RecoveryIsExplicit ==
  [][\A g \in Groups : state[g] = "Fault" /\ state'[g] # "Fault" =>
       \/ state'[g] = "Armed" /\ ~globalInhibit /\ ~Endangered(g)
       \/ state'[g] = "Stopped" /\ events = {} /\ \A a \in Axes : ~axisReady'[a]]_vars

-----------------------------------------------------------------------------
(* What the domain promises its writers.                                    *)

Phase(g) == CASE state[g] = "Running" -> "open"
              [] state[g] = "Armed" -> "armed"
              [] OTHER -> "closed"

Gate == INSTANCE SessionGate WITH phase <- [g \in Groups |-> Phase(g)]

(* Through every interleaving of reports, stops, lapses, halts and            *)
(* reconfigurations, each group goes through sessions that are armed, opened  *)
(* at most once and closed for good, each under an epoch of its own           *)
(* (domain.hpp:11-17, domain.cpp:52-58, 68-72, 234-252, 317-321).            *)
GivesSessions == Gate!GateSpec

=============================================================================
