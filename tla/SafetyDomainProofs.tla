------------------------- MODULE SafetyDomainProofs -------------------------
(***************************************************************************)
(* Proofs about SafetyDomain for every set of groups, axes, backends,       *)
(* conditions and association tables: the type invariant, the safety        *)
(* invariants, that the domain implements SessionGate, and that the closure *)
(* scope() computes is what chains of unattested dependences lead to.       *)
(***************************************************************************)
EXTENDS SafetyDomain, FiniteSetTheorems, TLAPS

(* A session exists only in a configured domain. *)
LiveIsConfigured == \A g \in Groups : state[g] \in Live => configured

(* The domain's own events carry the axis or the backend their id names. *)
EventShape ==
  \A e \in events :
    /\ \A a \in Axes : e.id = <<"readiness", a>> => e.axis = a /\ e.severity = "GroupStop"
    /\ \A b \in Backends : e.id = <<"backend", b>> =>
         e.axis = None /\ e.group = None /\ e.backend = b /\ e.severity = "GroupStop"
    /\ \A a \in Axes : e.id = <<"warning", a>> => e.severity = "Warn"

(* A lapsed lease is latched as an inhibition until both are reset. *)
ExpiredInhibits == ownerExpired => globalInhibit

(* The inductive invariant. *)
DomainInv ==
  /\ TypeOK
  /\ LiveIsConfigured
  /\ ExpiredInhibits
  /\ EventShape
  /\ InhibitHolds
  /\ StopHolds
  /\ LiveIsReady
  /\ LegacyClosed

-----------------------------------------------------------------------------
(* Restrictions.                                                            *)

(* A group an event stops by itself is in the event's scope. *)
LEMMA SeedInScope ==
  \A e : Seed(e) \subseteq Scope(e)
BY DEF Seed, Scope

(* Every outstanding stop restricts the groups of the axes it came from, and  *)
(* a global stop all of them.                                                *)
StopsRestrict ==
  \A e \in events :
    /\ e.severity = "GroupStop" => \A a \in SourceAxes(e) : AxisGroup[a] \in Restricted
    /\ e.severity = "GlobalStop" => Groups \subseteq Restricted

(* They do so in every state, whatever the associations and the evidence. *)
LEMMA StopsAlwaysRestrict == StopsRestrict
<1>1. ASSUME NEW e \in events
      PROVE  Scope(e) \subseteq Restricted
  BY DEF Restricted
<1>2. ASSUME NEW e \in events, e.severity = "GroupStop", NEW a \in SourceAxes(e)
      PROVE  AxisGroup[a] \in Restricted
  <2>1. a \in Axes /\ AxisGroup[a] \in Groups /\ a # None
    BY DomainAssumption DEF DomainAssumption, SourceAxes
  <2>2. AxisGroup[a] \in Seed(e)
    BY <1>2, <2>1 DEF Seed, SourceAxes
  <2>3. QED
    BY <1>1, <2>2, SeedInScope
<1>3. ASSUME NEW e \in events, e.severity = "GlobalStop"
      PROVE  Groups \subseteq Restricted
  <2>1. Groups \subseteq Seed(e)
    BY <1>3 DEF Seed
  <2>2. QED
    BY <1>1, <2>1, SeedInScope
<1>4. QED
  BY <1>2, <1>3 DEF StopsRestrict

LEMMA StopsRestrictNext == StopsRestrict'
BY StopsAlwaysRestrict, PTL

(* What every call of propagate() leaves behind. *)
LEMMA Propagated ==
  ASSUME TypeOK, configured' = configured,
         NEW STATE S, NEW STATE inhibit, inhibit \in BOOLEAN, Propagate(S, inhibit)
  PROVE  /\ state' \in [Groups -> States] /\ epoch' \in [Groups -> Nat]
         /\ ownerExpired' \in BOOLEAN /\ globalInhibit' \in BOOLEAN
         /\ inhibit => globalInhibit'
         /\ ownerExpired' => globalInhibit' \/ ownerExpired
         /\ \A g \in Groups :
              \/ state'[g] = state[g] /\ epoch'[g] = epoch[g]
              \/ /\ configured /\ state'[g] = "Fault"
                 /\ epoch'[g] = IF state[g] = "Fault" THEN epoch[g] ELSE epoch[g] + 1
         /\ configured => \A g \in Groups : g \in Restricted' => state'[g] = "Fault"
         /\ configured => \A g \in Groups : g \in S => state'[g] = "Fault"
         /\ \/ (globalInhibit' = inhibit /\ ownerExpired' = ownerExpired)
            \/ configured => \A g \in Groups : state'[g] = "Fault"
<1>1. PICK stopped \in {IF LeaseLapsed THEN Groups ELSE S \cup Restricted'} : Revoke(stopped)
  BY DEF Propagate
<1>2. ownerExpired' = (ownerExpired \/ LeaseLapsed) /\ globalInhibit' = (inhibit \/ LeaseLapsed)
  BY DEF Propagate
<1>3. LeaseLapsed \in BOOLEAN
  BY DEF LeaseLapsed
<1>4. /\ state' = [g \in Groups |-> IF g \in stopped \cap ConfiguredGroups THEN "Fault" ELSE state[g]]
      /\ epoch' = [g \in Groups |-> IF g \in stopped \cap ConfiguredGroups /\ state[g] # "Fault"
                                      THEN epoch[g] + 1 ELSE epoch[g]]
  BY <1>1 DEF Revoke, RevokedState, RevokedEpoch
<1>5. state' \in [Groups -> States] /\ epoch' \in [Groups -> Nat]
  BY <1>4 DEF TypeOK, States
<1>6. \A g \in Groups :
        \/ state'[g] = state[g] /\ epoch'[g] = epoch[g]
        \/ /\ configured /\ state'[g] = "Fault"
           /\ epoch'[g] = IF state[g] = "Fault" THEN epoch[g] ELSE epoch[g] + 1
  BY <1>4 DEF ConfiguredGroups
<1>7. configured => \A g \in Groups : g \in stopped => state'[g] = "Fault"
  BY <1>4 DEF ConfiguredGroups
<1>8. /\ configured => \A g \in Groups : g \in Restricted' => state'[g] = "Fault"
      /\ configured => \A g \in Groups : g \in S => state'[g] = "Fault"
  BY <1>1, <1>7
<1>9. \/ (globalInhibit' = inhibit /\ ownerExpired' = ownerExpired)
      \/ configured => \A g \in Groups : state'[g] = "Fault"
  <2>1. CASE LeaseLapsed
    BY <1>1, <1>7, <2>1
  <2>2. CASE ~LeaseLapsed
    BY <1>2, <2>2 DEF TypeOK
  <2>3. QED
    BY <2>1, <2>2
<1>10. /\ ownerExpired' \in BOOLEAN /\ globalInhibit' \in BOOLEAN
       /\ inhibit => globalInhibit'
       /\ ownerExpired' => globalInhibit' \/ ownerExpired
  BY <1>2, <1>3 DEF TypeOK
<1>11. QED
  BY <1>5, <1>6, <1>8, <1>9, <1>10

-----------------------------------------------------------------------------
(* Steps that end in propagate().                                           *)

(* The safety invariants survive a call that ends in propagate(), provided    *)
(* the groups it took readiness from were revoked or become restricted.      *)
LEMMA PropagateKeeps ==
  ASSUME DomainInv, TypeOK', EventShape', configured' = configured,
         NEW STATE S, NEW STATE inhibit, inhibit \in BOOLEAN, Propagate(S, inhibit),
         globalInhibit => inhibit,
         configured /\ inhibit /\ ~globalInhibit => Groups \subseteq Restricted',
         \A g \in Groups : Ready(g) /\ ~Ready(g)' => g \in S \cup Restricted' \/ state[g] \notin Live,
         legacyState' \in Live => legacyState \in Live
  PROVE  DomainInv'
<1> USE DEF Live
<1>1. /\ state' \in [Groups -> States]
      /\ \A g \in Groups : state'[g] = state[g] \/ (configured /\ state'[g] = "Fault")
      /\ configured => \A g \in Groups : g \in Restricted' => state'[g] = "Fault"
      /\ configured => \A g \in Groups : g \in S => state'[g] = "Fault"
      /\ \/ (globalInhibit' = inhibit /\ ownerExpired' = ownerExpired)
         \/ configured => \A g \in Groups : state'[g] = "Fault"
  BY Propagated DEF DomainInv
<1>2. \A g \in Groups : state'[g] \in Live => state'[g] = state[g]
  BY <1>1
<1>3. LiveIsConfigured'
  BY <1>2 DEF DomainInv, LiveIsConfigured
<1>4. InhibitHolds'
  BY <1>1, <1>2, <1>3 DEF DomainInv, InhibitHolds, LiveIsConfigured, TypeOK
<1>5. StopHolds'
  <2>1. SUFFICES ASSUME configured'
                 PROVE  \A e \in events' :
                          /\ e.severity = "GroupStop" =>
                               \A a \in SourceAxes(e) : state'[AxisGroup[a]] = "Fault"
                          /\ e.severity = "GlobalStop" => \A g \in Groups : state'[g] = "Fault"
    BY DEF StopHolds, SourceAxes
  <2>2. \A e \in events' : \A a \in SourceAxes(e) : AxisGroup[a] \in Groups
    BY DomainAssumption DEF DomainAssumption, SourceAxes
  <2>3. \A e \in events' :
          /\ e.severity = "GroupStop" =>
               \A a \in SourceAxes(e) : AxisGroup[a] \in Restricted'
          /\ e.severity = "GlobalStop" => Groups \subseteq Restricted'
    BY StopsRestrictNext DEF StopsRestrict, SourceAxes
  <2>4. QED
    BY <1>1, <2>1, <2>2, <2>3
<1>6. LiveIsReady'
  BY <1>1, <1>2 DEF DomainInv, LiveIsReady, LiveIsConfigured
<1>7. LegacyClosed'
  BY DEF DomainInv, LegacyClosed
<1>8. ExpiredInhibits'
  BY Propagated DEF DomainInv, ExpiredInhibits
<1>9. QED
  BY <1>3, <1>4, <1>5, <1>6, <1>7, <1>8 DEF DomainInv

(* A call that ends in propagate() and leaves the rest alone keeps the types. *)
LEMMA PropagateTypes ==
  ASSUME TypeOK, UNCHANGED <<configVars, leaseVars, componentReady, writers>>,
         NEW STATE S, NEW STATE inhibit, inhibit \in BOOLEAN, Propagate(S, inhibit),
         axisReady' \in [Axes -> BOOLEAN],
         evidence' \in [Conditions -> [Sources -> 0..MaxValidity]],
         events' \in SUBSET Event,
         legacyState' \in States, legacyEpoch' \in Nat
  PROVE  TypeOK'
<1>1. configured' = configured
  BY DEF configVars
<1>2. /\ state' \in [Groups -> States] /\ epoch' \in [Groups -> Nat]
      /\ ownerExpired' \in BOOLEAN /\ globalInhibit' \in BOOLEAN
  BY <1>1, Propagated
<1>3. QED
  BY <1>2 DEF TypeOK, configVars, leaseVars

LEMMA UnprepareAxisKeeps ==
  ASSUME DomainInv, NEW a \in Axes, UnprepareAxis(a)
  PROVE  DomainInv'
<1> DEFINE S == {g \in {AxisGroup[a]} : state[g] \in Live}
<1>1. Propagate(S, globalInhibit) /\ globalInhibit \in BOOLEAN
  BY DEF UnprepareAxis, DomainInv, TypeOK
<1>2. UNCHANGED <<configVars, leaseVars, evidence, events, legacyVars, writers>>
  BY DEF UnprepareAxis
<1>3. axisReady' = [axisReady EXCEPT ![a] = FALSE] /\ axisReady \in [Axes -> BOOLEAN]
  BY DEF UnprepareAxis, DomainInv, TypeOK
<1>4. TypeOK'
  BY <1>1, <1>2, <1>3, PropagateTypes DEF DomainInv, TypeOK, legacyVars
<1>5. EventShape'
  BY <1>2 DEF DomainInv, EventShape
<1>6. \A g \in Groups : Ready(g) /\ ~Ready(g)' => g \in S \/ state[g] \notin Live
  BY <1>3 DEF Ready
<1>7. QED
  BY <1>1, <1>2, <1>4, <1>5, <1>6, PropagateKeeps DEF configVars, legacyVars

(* Taking readiness from axes whose events are outstanding: their groups are  *)
(* restricted.                                                               *)
LEMMA ReadinessRestricts ==
  ASSUME NEW e \in events', e.severity = "GroupStop",
         NEW a \in Axes, e.axis = a \/ (e.axis = None /\ e.group = None /\ e.backend = AxisBackend[a])
  PROVE  AxisGroup[a] \in Restricted'
<1>1. a \in SourceAxes(e)
  BY DEF SourceAxes
<1>2. QED
  BY <1>1, StopsRestrictNext DEF StopsRestrict, SourceAxes

(* emplace() leaves an event with the id, and only adds. *)
LEMMA Emplaced ==
  ASSUME NEW STATE e
  PROVE  /\ events \subseteq Emplace(e) /\ Emplace(e) \subseteq events \cup {e}
         /\ \E x \in Emplace(e) : x.id = e.id
BY DEF Emplace

LEMMA ReportAxisKeeps ==
  ASSUME DomainInv, NEW a \in Axes, NEW ready \in BOOLEAN,
         NEW category \in ReportCategories, ReportAxis(a, ready, category)
  PROVE  DomainInv'
<1> DEFINE e == ReadinessEvent(a, category)
<1>1. Propagate({}, globalInhibit) /\ globalInhibit \in BOOLEAN
  BY DEF ReportAxis, DomainInv, TypeOK
<1>2. UNCHANGED <<configVars, leaseVars, evidence, legacyVars, writers>>
  BY DEF ReportAxis
<1>3. axisReady' = [axisReady EXCEPT ![a] = ready] /\ axisReady \in [Axes -> BOOLEAN]
  BY DEF ReportAxis, DomainInv, TypeOK
<1>4. events' = IF ready THEN events ELSE Emplace(e)
  BY DEF ReportAxis
<1>5. events \subseteq events' /\ events' \subseteq events \cup {e}
  BY <1>4, Emplaced
<1>6. e \in Event
  BY DomainAssumption DEF DomainAssumption, ReadinessEvent, Event, EventIds, Severities
<1>7. TypeOK'
  <2>1. events' \in SUBSET Event
    BY <1>5, <1>6 DEF DomainInv, TypeOK
  <2>2. QED
    BY <1>1, <1>2, <1>3, <2>1, PropagateTypes DEF DomainInv, TypeOK, legacyVars
<1>8. EventShape'
  <2>1. /\ \A b \in Axes : e.id = <<"readiness", b>> => e.axis = b /\ e.severity = "GroupStop"
        /\ \A b \in Backends : e.id # <<"backend", b>>
        /\ \A b \in Axes : e.id # <<"warning", b>>
    BY DEF ReadinessEvent
  <2>2. QED
    BY <1>5, <2>1 DEF DomainInv, EventShape
<1>9. \A g \in Groups : Ready(g) /\ ~Ready(g)' => g \in Restricted'
  <2>1. SUFFICES ASSUME ~ready
                 PROVE  AxisGroup[a] \in Restricted'
    BY <1>3 DEF Ready
  <2>2. PICK x \in events' : x.id = e.id
    BY <1>4, <2>1, Emplaced
  <2>3. x.axis = a /\ x.severity = "GroupStop"
    BY <1>8, <2>2 DEF EventShape, ReadinessEvent
  <2>4. QED
    BY <2>2, <2>3, ReadinessRestricts
<1>10. QED
  BY <1>1, <1>2, <1>7, <1>8, <1>9, PropagateKeeps DEF configVars, legacyVars

LEMMA ReportBackendKeeps ==
  ASSUME DomainInv, NEW b \in Backends, NEW ready \in BOOLEAN, ReportBackend(b, ready)
  PROVE  DomainInv'
<1> DEFINE e == BackendEvent(b)
<1>1. Propagate({}, globalInhibit) /\ globalInhibit \in BOOLEAN
  BY DEF ReportBackend, DomainInv, TypeOK
<1>2. UNCHANGED <<configVars, leaseVars, evidence, legacyVars, writers>>
  BY DEF ReportBackend
<1>3. /\ axisReady' = [a \in Axes |-> axisReady[a] /\ (ready \/ AxisBackend[a] # b)]
      /\ axisReady \in [Axes -> BOOLEAN]
  BY DEF ReportBackend, DomainInv, TypeOK
<1>4. events' = IF ready THEN events ELSE Emplace(e)
  BY DEF ReportBackend
<1>5. events \subseteq events' /\ events' \subseteq events \cup {e}
  BY <1>4, Emplaced
<1>6. e \in Event
  BY DomainAssumption DEF DomainAssumption, BackendEvent, Event, EventIds, Severities
<1>7. TypeOK'
  <2>1. events' \in SUBSET Event
    BY <1>5, <1>6 DEF DomainInv, TypeOK
  <2>2. axisReady' \in [Axes -> BOOLEAN]
    BY <1>3
  <2>3. QED
    BY <1>1, <1>2, <2>1, <2>2, PropagateTypes DEF DomainInv, TypeOK, legacyVars
<1>8. EventShape'
  <2>1. /\ \A a \in Axes : e.id # <<"readiness", a>>
        /\ \A c \in Backends : e.id = <<"backend", c>> =>
             e.axis = None /\ e.group = None /\ e.backend = c /\ e.severity = "GroupStop"
        /\ \A a \in Axes : e.id # <<"warning", a>>
    BY DEF BackendEvent
  <2>2. QED
    BY <1>5, <2>1 DEF DomainInv, EventShape
<1>9. \A g \in Groups : Ready(g) /\ ~Ready(g)' => g \in Restricted'
  <2>1. SUFFICES ASSUME ~ready, NEW a \in Axes, AxisBackend[a] = b
                 PROVE  AxisGroup[a] \in Restricted'
    BY <1>3 DEF Ready
  <2>2. PICK x \in events' : x.id = e.id
    BY <1>4, <2>1, Emplaced
  <2>3. x.axis = None /\ x.group = None /\ x.backend = b /\ x.severity = "GroupStop"
    BY <1>8, <2>2 DEF EventShape, BackendEvent
  <2>4. QED
    BY <2>1, <2>2, <2>3, ReadinessRestricts
<1>10. QED
  BY <1>1, <1>2, <1>7, <1>8, <1>9, PropagateKeeps DEF configVars, legacyVars

LEMMA ConditionKeeps ==
  ASSUME DomainInv, NEW c \in Conditions, NEW s \in Sources,
         NEW left \in 0..MaxValidity, Condition(c, s, left)
  PROVE  DomainInv'
<1>1. Propagate(Restricted, globalInhibit) /\ globalInhibit \in BOOLEAN
  BY DEF Condition, DomainInv, TypeOK
<1>2. UNCHANGED <<configVars, leaseVars, axisReady, events, legacyVars, writers>>
  BY DEF Condition
<1>3. evidence' \in [Conditions -> [Sources -> 0..MaxValidity]]
  <2>1. [t \in Sources |-> IF t = s THEN left ELSE 0] \in [Sources -> 0..MaxValidity]
    BY DomainAssumption DEF DomainAssumption
  <2>2. QED
    BY <2>1 DEF Condition, DomainInv, TypeOK
<1>4. TypeOK'
  BY <1>1, <1>2, <1>3, PropagateTypes DEF DomainInv, TypeOK, legacyVars
<1>5. EventShape'
  BY <1>2 DEF DomainInv, EventShape
<1>6. \A g \in Groups : Ready(g)' = Ready(g)
  BY <1>2 DEF Ready
<1>7. QED
  BY <1>1, <1>2, <1>4, <1>5, <1>6, PropagateKeeps DEF configVars, legacyVars

LEMMA AcknowledgeKeeps ==
  ASSUME DomainInv, NEW e \in events, Acknowledge(e)
  PROVE  DomainInv'
<1>1. Propagate(Restricted, globalInhibit) /\ globalInhibit \in BOOLEAN
  BY DEF Acknowledge, DomainInv, TypeOK
<1>2. UNCHANGED <<configVars, leaseVars, axisReady, evidence, legacyVars, writers>>
  BY DEF Acknowledge
<1>3. events' \subseteq events
  BY DEF Acknowledge
<1>4. TypeOK'
  <2>1. events' \in SUBSET Event
    BY <1>3 DEF DomainInv, TypeOK
  <2>2. QED
    BY <1>1, <1>2, <2>1, PropagateTypes DEF DomainInv, TypeOK, legacyVars
<1>5. EventShape'
  BY <1>3 DEF DomainInv, EventShape
<1>6. \A g \in Groups : Ready(g)' = Ready(g)
  BY <1>2 DEF Ready
<1>7. QED
  BY <1>1, <1>2, <1>4, <1>5, <1>6, PropagateKeeps DEF configVars, legacyVars

(* A query runs propagate() and does nothing else. *)
LEMMA PollPropagates ==
  ASSUME Poll
  PROVE  Propagate({}, globalInhibit) /\ Revoke(Overdue)
<1>1. UNCHANGED <<associations, axisReady, evidence, events>>
  BY DEF Poll, configVars
<1>2. \A e : Scope(e)' = Scope(e)
  BY <1>1 DEF Scope, Seed, Spreads, ConditionSatisfied
<1>3. Restricted' = Restricted
  BY <1>1, <1>2 DEF Restricted, Ready, Unavailable
<1>4. Revoke(Overdue)
  BY DEF Poll, Queried, Revoke
<1> QED
  BY <1>3, <1>4 DEF Poll, Propagate, Overdue

LEMMA PollKeeps ==
  ASSUME DomainInv, Poll
  PROVE  DomainInv'
<1>1. Propagate({}, globalInhibit) /\ globalInhibit \in BOOLEAN
  BY PollPropagates DEF DomainInv, TypeOK
<1>2. UNCHANGED <<configVars, leaseVars, axisReady, evidence, events, legacyVars, writers>>
  BY DEF Poll
<1>3. TypeOK'
  BY <1>1, <1>2, PropagateTypes DEF DomainInv, TypeOK, legacyVars
<1>4. EventShape'
  BY <1>2 DEF DomainInv, EventShape
<1>5. \A g \in Groups : Ready(g)' = Ready(g)
  BY <1>2 DEF Ready
<1>6. QED
  BY <1>1, <1>2, <1>3, <1>4, <1>5, PropagateKeeps DEF configVars, legacyVars

LEMMA RaiseEventKeeps ==
  ASSUME DomainInv, NEW r \in Reports, RaiseEvent(r)
  PROVE  DomainInv'
<1> DEFINE e == Completed(r)
           global == e \notin events /\ e.severity = "GlobalStop"
<1>1. Propagate({}, globalInhibit \/ global) /\ globalInhibit \in BOOLEAN /\ global \in BOOLEAN
  BY DEF RaiseEvent, DomainInv, TypeOK
<1>2. /\ UNCHANGED <<configVars, leaseVars, axisReady, evidence, componentReady, writers>>
      /\ events' = events \cup {e}
      /\ legacyState' \in {"Fault", legacyState}
      /\ legacyEpoch' \in {legacyEpoch, legacyEpoch + 1}
  BY DEF RaiseEvent
<1>3. e \in Event
  <2>1. r \in Report
    BY DomainAssumption DEF DomainAssumption
  <2>2. QED
    BY <2>1, DomainAssumption DEF DomainAssumption, Report, Completed, Event, EventIds
<1>4. TypeOK'
  <2>1. (globalInhibit \/ global) \in BOOLEAN
    BY <1>1
  <2>2. /\ events' \in SUBSET Event
        /\ axisReady' \in [Axes -> BOOLEAN]
        /\ evidence' \in [Conditions -> [Sources -> 0..MaxValidity]]
        /\ legacyState' \in States /\ legacyEpoch' \in Nat
    BY <1>2, <1>3 DEF DomainInv, TypeOK, States
  <2>3. TypeOK
    BY DEF DomainInv
  <2>4. QED
    BY <1>1, <1>2, <2>1, <2>2, <2>3, PropagateTypes
<1>5. EventShape'
  <2>1. /\ \A a \in Axes : e.id # <<"readiness", a>>
        /\ \A b \in Backends : e.id # <<"backend", b>>
        /\ \A a \in Axes : e.id # <<"warning", a>>
    BY DEF Completed
  <2>2. QED
    BY <1>2, <2>1 DEF DomainInv, EventShape
<1>6. \A g \in Groups : Ready(g)' = Ready(g)
  BY <1>2 DEF Ready
<1>7. global => Groups \subseteq Restricted'
  BY <1>2, StopsRestrictNext DEF StopsRestrict
<1>8. QED
  <2>1. legacyState' \in Live => legacyState \in Live
    BY <1>2 DEF Live
  <2>2. (globalInhibit \/ global) \in BOOLEAN /\ configured' = configured
    BY <1>1, <1>2 DEF configVars
  <2>3. QED
    BY <1>1, <1>4, <1>5, <1>6, <1>7, <2>1, <2>2, PropagateKeeps

-----------------------------------------------------------------------------
(* The other steps.                                                         *)

(* What a step that neither reports, attests nor raises anything must respect *)
(* to keep the safety invariants.                                            *)
LEMMA SessionsKeep ==
  ASSUME DomainInv, TypeOK', UNCHANGED <<configured, axisReady>>,
         events' = events \/ (EventShape' /\ \A e \in events' \ events : e.severity = "Warn"),
         \A g \in Groups : state'[g] \in Live =>
           state[g] \in Live \/ (configured /\ ~globalInhibit /\ ~globalInhibit' /\ Ready(g)),
         configured => \A g \in Groups : state[g] = "Fault" /\ state'[g] # "Fault" => g \notin Restricted,
         globalInhibit' /\ ~globalInhibit => \A g \in Groups : state'[g] \notin Live,
         ownerExpired' => globalInhibit',
         legacyState' \in Live => legacyState \in Live \/ ~configured
  PROVE  DomainInv'
<1>1. LiveIsConfigured'
  BY DEF DomainInv, LiveIsConfigured
<1>2. InhibitHolds'
  BY DEF DomainInv, InhibitHolds
<1>3. EventShape'
  BY DEF DomainInv, EventShape
<1>4. StopHolds'
  <2>1. SUFFICES ASSUME configured', NEW e \in events'
                 PROVE  /\ e.severity = "GroupStop" =>
                             \A a \in SourceAxes(e) : state'[AxisGroup[a]] = "Fault"
                        /\ e.severity = "GlobalStop" => \A g \in Groups : state'[g] = "Fault"
    BY DEF StopHolds, SourceAxes
  <2>2. CASE e \in events
    <3>1. /\ e.severity = "GroupStop" =>
               \A a \in SourceAxes(e) : state[AxisGroup[a]] = "Fault" /\ AxisGroup[a] \in Restricted
          /\ e.severity = "GlobalStop" =>
               \A g \in Groups : state[g] = "Fault" /\ g \in Restricted
      BY <2>1, <2>2, StopsAlwaysRestrict DEF StopsRestrict, DomainInv, StopHolds
    <3>2. \A a \in SourceAxes(e) : AxisGroup[a] \in Groups
      BY DomainAssumption DEF DomainAssumption, SourceAxes
    <3>3. QED
      BY <2>1, <3>1, <3>2
  <2>3. CASE e \notin events
    BY <2>1, <2>3
  <2>4. QED
    BY <2>2, <2>3
<1>5. LiveIsReady'
  BY DEF DomainInv, LiveIsReady, Ready
<1>6. LegacyClosed'
  BY DEF DomainInv, LegacyClosed
<1>7. QED
  BY <1>1, <1>2, <1>3, <1>4, <1>5, <1>6 DEF DomainInv, ExpiredInhibits

(* revoke() only closes, under a new epoch unless the group is in Fault.      *)
LEMMA Revoked ==
  ASSUME TypeOK, NEW STATE S, Revoke(S)
  PROVE  /\ state' \in [Groups -> States] /\ epoch' \in [Groups -> Nat]
         /\ \A g \in Groups :
              \/ state'[g] = state[g] /\ epoch'[g] = epoch[g]
              \/ /\ configured /\ state'[g] = "Fault"
                 /\ epoch'[g] = IF state[g] = "Fault" THEN epoch[g] ELSE epoch[g] + 1
         /\ configured => \A g \in Groups : g \in S => state'[g] = "Fault"
BY DEF Revoke, RevokedState, RevokedEpoch, TypeOK, States, ConfiguredGroups

LEMMA ConfigureKeeps ==
  ASSUME DomainInv, NEW policy \in Policies, Configure(policy)
  PROVE  DomainInv'
<1>1. TypeOK'
  <2>1. policy \in SUBSET Association
    BY DomainAssumption DEF DomainAssumption
  <2>2. [c \in Conditions |-> [s \in Sources |-> 0]] \in [Conditions -> [Sources -> 0..MaxValidity]]
    BY DomainAssumption DEF DomainAssumption
  <2>3. QED
    BY <2>1, <2>2 DEF Configure, DomainInv, TypeOK, States, ownerVars, legacyVars
<1>2. events' = {} /\ \A g \in Groups : state'[g] = "Stopped"
  BY DEF Configure
<1>3. LegacyClosed' /\ ExpiredInhibits'
  BY DEF Configure, DomainInv, LegacyClosed, ExpiredInhibits, Live, ownerVars, legacyVars
<1>4. QED
  BY <1>1, <1>2, <1>3
     DEF DomainInv, LiveIsConfigured, EventShape, InhibitHolds, StopHolds, LiveIsReady, Live

LEMMA RegisterWriterKeeps ==
  ASSUME DomainInv, NEW mode \in WriterModes, RegisterWriter(mode)
  PROVE  DomainInv'
<1>1. TypeOK'
  BY DomainAssumption DEF DomainAssumption, RegisterWriter, DomainInv, TypeOK,
     configVars, groupVars, ownerVars, legacyVars
<1>2. QED
  BY <1>1, SessionsKeep DEF RegisterWriter, DomainInv, ExpiredInhibits,
     configVars, groupVars, ownerVars, legacyVars

LEMMA WarningKeeps ==
  ASSUME DomainInv, NEW a \in WarnedAxes, NEW active \in BOOLEAN, Warning(a, active)
  PROVE  DomainInv'
<1> DEFINE e == WarningEvent(a)
<1>1. events' \subseteq events \cup {e}
  BY Emplaced DEF Warning
<1>2. e \in Event /\ e.severity = "Warn"
  BY DomainAssumption DEF DomainAssumption, WarningEvent, Event, EventIds, Severities
<1>3. UNCHANGED <<configVars, axisReady, groupVars, evidence, globalInhibit,
                  ownerVars, legacyVars, writers>>
  BY DEF Warning
<1>4. TypeOK'
  BY <1>1, <1>2, <1>3 DEF DomainInv, TypeOK, configVars, groupVars, ownerVars, legacyVars
<1>5. EventShape'
  <2>1. /\ \A b \in Axes : e.id # <<"readiness", b>>
        /\ \A b \in Backends : e.id # <<"backend", b>>
    BY DEF WarningEvent
  <2>2. QED
    BY <1>1, <1>2, <2>1 DEF DomainInv, EventShape
<1>6. \A x \in events' \ events : x.severity = "Warn"
  BY <1>1, <1>2
<1>7. ownerExpired' => globalInhibit'
  BY <1>3 DEF DomainInv, ExpiredInhibits, ownerVars
<1>8. QED
  BY <1>3, <1>4, <1>5, <1>6, <1>7, SessionsKeep DEF configVars, groupVars, legacyVars

(* A group that is armed or run is hindered by nothing. *)
LEMMA ArmKeeps ==
  ASSUME DomainInv, NEW g \in Groups, Arm(g)
  PROVE  DomainInv'
<1>1. PICK stopped \in {Restricted} :
        /\ state' = [RevokedState(stopped) EXCEPT ![g] = "Armed"]
        /\ epoch' = [RevokedEpoch(stopped) EXCEPT
                       ![g] = IF state[g] = "Armed" THEN epoch[g] ELSE epoch[g] + 1]
  BY DEF Arm
<1>2. configured /\ ~globalInhibit /\ Ready(g) /\ g \notin Restricted
  BY DEF Arm, Unhindered
<1>3. UNCHANGED <<configVars, axisReady, evidence, events, globalInhibit,
                  ownerVars, legacyVars, writers>>
  BY DEF Arm
<1>4. TypeOK'
  BY <1>1, <1>3 DEF RevokedState, RevokedEpoch, DomainInv, TypeOK, States,
     configVars, ownerVars, legacyVars
<1>5. \A h \in Groups : h # g => state'[h] \in {state[h], "Fault"}
  BY <1>1 DEF RevokedState, DomainInv, TypeOK
<1>6. ownerExpired' => globalInhibit'
  BY <1>3 DEF DomainInv, ExpiredInhibits, ownerVars
<1>7. QED
  BY <1>2, <1>3, <1>4, <1>5, <1>6, SessionsKeep DEF Live, configVars, legacyVars

LEMMA RunKeeps ==
  ASSUME DomainInv, NEW g \in Groups, Run(g)
  PROVE  DomainInv'
<1>1. PICK stopped \in {Restricted} :
        /\ state' = [RevokedState(stopped) EXCEPT ![g] = "Running"]
        /\ epoch' = RevokedEpoch(stopped)
  BY DEF Run
<1>2. configured /\ ~globalInhibit /\ Ready(g) /\ g \notin Restricted
  BY DEF Run, Unhindered
<1>3. UNCHANGED <<configVars, axisReady, evidence, events, globalInhibit,
                  ownerVars, legacyVars, writers>>
  BY DEF Run
<1>4. TypeOK'
  BY <1>1, <1>3 DEF RevokedState, RevokedEpoch, DomainInv, TypeOK, States,
     configVars, ownerVars, legacyVars
<1>5. \A h \in Groups : h # g => state'[h] \in {state[h], "Fault"}
  BY <1>1 DEF RevokedState, DomainInv, TypeOK
<1>6. ownerExpired' => globalInhibit'
  BY <1>3 DEF DomainInv, ExpiredInhibits, ownerVars
<1>7. QED
  BY <1>2, <1>3, <1>4, <1>5, <1>6, SessionsKeep DEF Live, configVars, legacyVars

(* Halting leaves Fault alone and starts nothing. *)
LEMMA SessionsStopped ==
  ASSUME TypeOK, NEW S \in SUBSET Groups, StopSessions(S, Live)
  PROVE  /\ state' \in [Groups -> States] /\ epoch' \in [Groups -> Nat]
         /\ \A g \in Groups :
              \/ state'[g] = state[g] /\ epoch'[g] = epoch[g]
              \/ state[g] \in Live /\ state'[g] = "Stopped" /\ epoch'[g] = epoch[g] + 1
BY DEF StopSessions, TypeOK, States

LEMMA HaltKeeps ==
  ASSUME DomainInv, NEW g \in Groups, Halt(g)
  PROVE  DomainInv'
<1>1. /\ state' \in [Groups -> States] /\ epoch' \in [Groups -> Nat]
      /\ \A h \in Groups : state'[h] = state[h] \/ (state[h] \in Live /\ state'[h] = "Stopped")
  BY SessionsStopped DEF Halt, DomainInv
<1>2. UNCHANGED <<configVars, axisReady, evidence, events, globalInhibit,
                  ownerVars, legacyVars, writers>>
  BY DEF Halt
<1>3. TypeOK'
  BY <1>1, <1>2 DEF DomainInv, TypeOK, configVars, ownerVars, legacyVars
<1>4. ownerExpired' => globalInhibit'
  BY <1>2 DEF DomainInv, ExpiredInhibits, ownerVars
<1>5. QED
  BY <1>1, <1>2, <1>3, <1>4, SessionsKeep DEF Live, DomainInv, InhibitHolds, configVars, legacyVars

LEMMA InvalidateKeeps ==
  ASSUME DomainInv, NEW g \in Groups, Invalidate(g)
  PROVE  DomainInv'
<1>1. \A h \in Groups : state'[h] = state[h] \/ (state[h] # "Fault" /\ state'[h] = "Stopped")
  BY DEF Invalidate, DomainInv, TypeOK
<1>2. UNCHANGED <<configVars, axisReady, evidence, events, globalInhibit,
                  ownerVars, legacyVars, writers>>
  BY DEF Invalidate
<1>3. TypeOK'
  BY <1>2 DEF Invalidate, DomainInv, TypeOK, States, configVars, ownerVars, legacyVars
<1>4. ownerExpired' => globalInhibit'
  BY <1>2 DEF DomainInv, ExpiredInhibits, ownerVars
<1>5. QED
  BY <1>1, <1>2, <1>3, <1>4, SessionsKeep DEF Live, DomainInv, InhibitHolds, configVars, legacyVars

LEMMA GlobalStopKeeps ==
  ASSUME DomainInv, GlobalStop
  PROVE  DomainInv'
<1>1. /\ state' \in [Groups -> States] /\ epoch' \in [Groups -> Nat]
      /\ \A g \in Groups : state'[g] = state[g] \/ state'[g] = "Fault"
      /\ configured => \A g \in Groups : state'[g] = "Fault"
  BY Revoked DEF GlobalStop, DomainInv
<1>2. /\ UNCHANGED <<configVars, axisReady, evidence, events, ownerVars, componentReady, writers>>
      /\ globalInhibit' = TRUE /\ legacyState' = "Fault"
      /\ legacyEpoch' \in {legacyEpoch, legacyEpoch + 1}
  BY DEF GlobalStop, LegacyEnterFault
<1>3. TypeOK'
  BY <1>1, <1>2 DEF DomainInv, TypeOK, States, configVars, ownerVars
<1>4. \A g \in Groups : state'[g] \notin Live
  BY <1>1 DEF DomainInv, LiveIsConfigured, Live
<1>5. QED
  BY <1>1, <1>2, <1>3, <1>4, SessionsKeep DEF Live, configVars

LEMMA ResetGlobalStopKeeps ==
  ASSUME DomainInv, ResetGlobalStop
  PROVE  DomainInv'
<1>1. TypeOK'
  BY DEF ResetGlobalStop, DomainInv, TypeOK, configVars, groupVars, leaseVars, legacyVars
<1>2. QED
  BY <1>1, SessionsKeep DEF ResetGlobalStop, configVars, groupVars, leaseVars, legacyVars

LEMMA RequireOwnerLeaseKeeps ==
  ASSUME DomainInv, RequireOwnerLease
  PROVE  DomainInv'
<1>1. TypeOK'
  BY DEF RequireOwnerLease, DomainInv, TypeOK, configVars, groupVars, legacyVars
<1>2. QED
  BY <1>1, SessionsKeep
     DEF RequireOwnerLease, DomainInv, ExpiredInhibits, configVars, groupVars, legacyVars

(* What a question about the owner's lease leaves behind. *)
LEMMA OwnerExpired ==
  ASSUME DomainInv, ExpireOwner,
         UNCHANGED <<configVars, axisReady, evidence, events, ownerRequired, legacyVars, writers>>,
         leased' \in BOOLEAN, leaseLeft' \in 0..MaxLease
  PROVE  DomainInv'
<1>1. LeaseLapsed \in BOOLEAN
  BY DEF LeaseLapsed
<1>2. ownerExpired' = (ownerExpired \/ LeaseLapsed) /\ globalInhibit' = (globalInhibit \/ LeaseLapsed)
  BY DEF ExpireOwner
<1>3. ownerExpired' \in BOOLEAN /\ globalInhibit' \in BOOLEAN
  BY <1>1, <1>2 DEF DomainInv, TypeOK
<1>4. /\ state' \in [Groups -> States] /\ epoch' \in [Groups -> Nat]
      /\ \A g \in Groups : state'[g] = state[g] \/ state'[g] = "Fault"
      /\ configured /\ LeaseLapsed => \A g \in Groups : state'[g] = "Fault"
  <2>1. Revoke(IF LeaseLapsed THEN Groups ELSE {})
    BY DEF ExpireOwner
  <2>2. QED
    BY <2>1, Revoked DEF DomainInv
<1>5. TypeOK'
  BY <1>3, <1>4 DEF DomainInv, TypeOK, configVars, legacyVars
<1>6. globalInhibit' /\ ~globalInhibit => \A g \in Groups : state'[g] \notin Live
  BY <1>2, <1>4 DEF DomainInv, LiveIsConfigured, Live
<1>7. ownerExpired' => globalInhibit'
  BY <1>2 DEF DomainInv, ExpiredInhibits
<1>8. QED
  BY <1>4, <1>5, <1>6, <1>7, SessionsKeep DEF Live, configVars, legacyVars

LEMMA RenewOwnerKeeps ==
  ASSUME DomainInv, NEW left \in 0..MaxLease, RenewOwner(left)
  PROVE  DomainInv'
<1>1. ExpireOwner /\ UNCHANGED <<configVars, axisReady, evidence, events, ownerRequired, legacyVars, writers>>
  BY DEF RenewOwner
<1>2. leased' \in BOOLEAN /\ leaseLeft' \in 0..MaxLease
  BY DEF RenewOwner, DomainInv, TypeOK
<1>3. QED
  BY <1>1, <1>2, OwnerExpired

LEMMA GloballyInhibitedKeeps ==
  ASSUME DomainInv, GloballyInhibited
  PROVE  DomainInv'
<1>1. ExpireOwner /\ UNCHANGED <<configVars, axisReady, evidence, events, ownerRequired, legacyVars, writers>>
  BY DEF GloballyInhibited, leaseVars
<1>2. leased' \in BOOLEAN /\ leaseLeft' \in 0..MaxLease
  BY DEF GloballyInhibited, leaseVars, DomainInv, TypeOK
<1>3. QED
  BY <1>1, <1>2, OwnerExpired

LEMMA TickKeeps ==
  ASSUME DomainInv, Tick
  PROVE  DomainInv'
<1>1. leaseLeft' \in 0..MaxLease
  BY DomainAssumption DEF DomainAssumption, Tick, DomainInv, TypeOK
<1>2. evidence' \in [Conditions -> [Sources -> 0..MaxValidity]]
  <2>1. \A c \in Conditions, s \in Sources :
          (IF evidence[c][s] > 0 THEN evidence[c][s] - 1 ELSE 0) \in 0..MaxValidity
    BY DomainAssumption DEF DomainAssumption, DomainInv, TypeOK
  <2>2. \A c \in Conditions :
          [s \in Sources |-> IF evidence[c][s] > 0 THEN evidence[c][s] - 1 ELSE 0]
            \in [Sources -> 0..MaxValidity]
    BY <2>1
  <2>3. QED
    BY <2>2 DEF Tick
<1>3. TypeOK'
  BY <1>1, <1>2 DEF Tick, DomainInv, TypeOK, configVars, groupVars, legacyVars
<1>4. QED
  BY <1>3, SessionsKeep DEF Tick, DomainInv, ExpiredInhibits, configVars, groupVars, legacyVars

LEMMA LegacyReportKeeps ==
  ASSUME DomainInv, NEW c \in Components, NEW ready \in BOOLEAN, LegacyReport(c, ready)
  PROVE  DomainInv'
<1> DEFINE stops == ~ready /\ \E g \in ConfiguredGroups : state[g] \in Live
<1>1. stops \in BOOLEAN
  OBVIOUS
<1>2. /\ UNCHANGED <<configVars, axisReady, evidence, events, ownerVars, writers>>
      /\ componentReady' = [componentReady EXCEPT ![c] = ready]
      /\ globalInhibit' = (globalInhibit \/ stops)
      /\ legacyState' \in {legacyState, "Fault"}
      /\ legacyEpoch' \in {legacyEpoch, legacyEpoch + 1}
      /\ Revoke(IF stops THEN Groups ELSE {})
  BY DEF LegacyReport
<1>3. /\ state' \in [Groups -> States] /\ epoch' \in [Groups -> Nat]
      /\ \A g \in Groups : state'[g] = state[g] \/ state'[g] = "Fault"
      /\ configured /\ stops => \A g \in Groups : state'[g] = "Fault"
  BY <1>2, Revoked DEF DomainInv
<1>4. TypeOK'
  <2>1. globalInhibit' \in BOOLEAN
    BY <1>1, <1>2 DEF DomainInv, TypeOK
  <2>2. legacyState' \in States /\ legacyEpoch' \in Nat /\ componentReady' \in [Components -> BOOLEAN]
    BY <1>2 DEF DomainInv, TypeOK, States
  <2>3. QED
    BY <1>2, <1>3, <2>1, <2>2 DEF DomainInv, TypeOK, configVars, ownerVars
<1>5. globalInhibit' /\ ~globalInhibit => \A g \in Groups : state'[g] \notin Live
  BY <1>2, <1>3 DEF DomainInv, LiveIsConfigured, Live, ConfiguredGroups
<1>6. ownerExpired' => globalInhibit'
  BY <1>2 DEF DomainInv, ExpiredInhibits, ownerVars
<1>7. legacyState' \in Live => legacyState \in Live
  BY <1>2 DEF Live
<1>8. \A g \in Groups : state'[g] \in Live => state[g] \in Live
  BY <1>3 DEF Live
<1>9. UNCHANGED <<configured, axisReady, events>>
  BY <1>2 DEF configVars
<1>10. QED
  BY <1>3, <1>4, <1>5, <1>6, <1>7, <1>8, <1>9, SessionsKeep

LEMMA LegacyFaultKeeps ==
  ASSUME DomainInv, LegacyFault
  PROVE  DomainInv'
<1>1. /\ state' \in [Groups -> States] /\ epoch' \in [Groups -> Nat]
      /\ \A g \in Groups : state'[g] = state[g] \/ state'[g] = "Fault"
      /\ configured => \A g \in Groups : state'[g] = "Fault"
  BY Revoked DEF LegacyFault, DomainInv
<1>2. /\ UNCHANGED <<configVars, axisReady, evidence, events, ownerVars, componentReady, writers>>
      /\ globalInhibit' = (globalInhibit \/ configured) /\ legacyState' = "Fault"
      /\ legacyEpoch' \in {legacyEpoch, legacyEpoch + 1}
  BY DEF LegacyFault, LegacyEnterFault
<1>3. TypeOK'
  <2>1. globalInhibit' \in BOOLEAN
    BY <1>2 DEF DomainInv, TypeOK
  <2>2. QED
    BY <1>1, <1>2, <2>1 DEF DomainInv, TypeOK, States, configVars, ownerVars
<1>4. \A g \in Groups : state'[g] \notin Live
  BY <1>1 DEF DomainInv, LiveIsConfigured, Live
<1>5. ownerExpired' => globalInhibit'
  BY <1>2 DEF DomainInv, ExpiredInhibits, ownerVars
<1>6. QED
  BY <1>1, <1>2, <1>3, <1>4, <1>5, SessionsKeep DEF Live, configVars

LEMMA LegacyArmKeeps ==
  ASSUME DomainInv, LegacyArm
  PROVE  DomainInv'
<1>1. TypeOK'
  BY DEF LegacyArm, DomainInv, TypeOK, States, configVars, groupVars, ownerVars
<1>2. QED
  BY <1>1, SessionsKeep
     DEF LegacyArm, DomainInv, ExpiredInhibits, configVars, groupVars, ownerVars

LEMMA LegacyRunKeeps ==
  ASSUME DomainInv, LegacyRun
  PROVE  DomainInv'
<1>1. TypeOK'
  BY DEF LegacyRun, DomainInv, TypeOK, States, configVars, groupVars, ownerVars
<1>2. QED
  BY <1>1, SessionsKeep
     DEF LegacyRun, DomainInv, ExpiredInhibits, Live, configVars, groupVars, ownerVars

LEMMA LegacyHaltKeeps ==
  ASSUME DomainInv, LegacyHalt
  PROVE  DomainInv'
<1>1. ConfiguredGroups \in SUBSET Groups
  BY DEF ConfiguredGroups
<1>2. /\ state' \in [Groups -> States] /\ epoch' \in [Groups -> Nat]
      /\ \A h \in Groups : state'[h] = state[h] \/ (state[h] \in Live /\ state'[h] = "Stopped")
  BY <1>1, SessionsStopped DEF LegacyHalt, DomainInv
<1>3. UNCHANGED <<configVars, axisReady, evidence, events, globalInhibit,
                  ownerVars, componentReady, writers>>
  BY DEF LegacyHalt
<1>4. TypeOK'
  BY <1>2, <1>3 DEF LegacyHalt, DomainInv, TypeOK, States, configVars, ownerVars
<1>5. legacyState' = "Stopped" /\ (ownerExpired' => globalInhibit')
  BY <1>3 DEF LegacyHalt, DomainInv, ExpiredInhibits, ownerVars
<1>6. QED
  BY <1>2, <1>3, <1>4, <1>5, SessionsKeep DEF Live, DomainInv, InhibitHolds, configVars

-----------------------------------------------------------------------------
(* The invariant of the specification.                                      *)

LEMMA InvInit == Init => DomainInv
<1>1. Init => TypeOK
  <2>1. [c \in Conditions |-> [s \in Sources |-> 0]] \in [Conditions -> [Sources -> 0..MaxValidity]]
    BY DomainAssumption DEF DomainAssumption
  <2>2. 0 \in 0..MaxLease
    BY DomainAssumption DEF DomainAssumption
  <2>3. SUFFICES ASSUME Init
                 PROVE  TypeOK
    OBVIOUS
  <2>4. /\ axisReady \in [Axes -> BOOLEAN] /\ componentReady \in [Components -> BOOLEAN]
        /\ state \in [Groups -> States] /\ epoch \in [Groups -> Nat]
    BY <2>3 DEF Init, States
  <2>5. /\ associations \in SUBSET Association /\ events \in SUBSET Event
        /\ evidence \in [Conditions -> [Sources -> 0..MaxValidity]]
        /\ leaseLeft \in 0..MaxLease
    BY <2>1, <2>2, <2>3 DEF Init
  <2>6. /\ configured \in BOOLEAN /\ globalInhibit \in BOOLEAN
        /\ ownerRequired \in BOOLEAN /\ leased \in BOOLEAN /\ ownerExpired \in BOOLEAN
        /\ legacyState \in States /\ legacyEpoch \in Nat
        /\ writers \in {"none", "grouped", "legacy"}
    BY <2>3 DEF Init, States
  <2>7. QED
    BY <2>4, <2>5, <2>6 DEF TypeOK
<1>2. QED
  BY <1>1 DEF Init, DomainInv, LiveIsConfigured, ExpiredInhibits, EventShape, InhibitHolds,
              StopHolds, LiveIsReady, LegacyClosed, Live

LEMMA InvNext == DomainInv /\ [Next]_vars => DomainInv'
<1> SUFFICES ASSUME DomainInv, [Next]_vars
             PROVE  DomainInv'
  OBVIOUS
<1>1. CASE Configuration
  BY <1>1, ConfigureKeeps, RegisterWriterKeeps DEF Configuration
<1>2. CASE Device
  BY <1>2, UnprepareAxisKeeps, ReportAxisKeeps, ReportBackendKeeps, WarningKeeps, ConditionKeeps,
     DomainAssumption DEF Device, DomainAssumption
<1>3. CASE Operator
  BY <1>3, RaiseEventKeeps, AcknowledgeKeeps, ArmKeeps, RunKeeps, HaltKeeps, InvalidateKeeps,
     GlobalStopKeeps, ResetGlobalStopKeeps DEF Operator
<1>4. CASE Owner
  BY <1>4, RequireOwnerLeaseKeeps, RenewOwnerKeeps, GloballyInhibitedKeeps DEF Owner
<1>5. CASE Legacy
  BY <1>5, LegacyReportKeeps, LegacyFaultKeeps, LegacyArmKeeps, LegacyRunKeeps, LegacyHaltKeeps
     DEF Legacy
<1>6. CASE Poll
  BY <1>6, PollKeeps
<1>7. CASE Tick
  BY <1>7, TickKeeps
<1>8. CASE UNCHANGED vars
  <2>1. TypeOK' /\ EventShape'
    BY <1>8 DEF vars, DomainInv, TypeOK, EventShape
  <2>2. QED
    BY <1>8, <2>1, SessionsKeep DEF vars, DomainInv, ExpiredInhibits
<1>9. QED
  BY <1>1, <1>2, <1>3, <1>4, <1>5, <1>6, <1>7, <1>8 DEF Next

(* The inductive invariant holds in every behaviour. *)
THEOREM Invariance == Spec => []DomainInv
BY InvInit, InvNext, PTL DEF Spec

(* The variables keep their types. *)
THEOREM TypeCorrect == Spec => []TypeOK
<1>1. DomainInv => TypeOK
  BY DEF DomainInv
<1>2. QED
  BY <1>1, Invariance, PTL

(* No group has a session while the domain is inhibited. *)
THEOREM InhibitionHolds == Spec => []InhibitHolds
<1>1. DomainInv => InhibitHolds
  BY DEF DomainInv
<1>2. QED
  BY <1>1, Invariance, PTL

(* Every outstanding stop keeps its groups in Fault until it is acknowledged. *)
THEOREM StopsHold == Spec => []StopHolds
<1>1. DomainInv => StopHolds
  BY DEF DomainInv
<1>2. QED
  BY <1>1, Invariance, PTL

(* A group with a session has feedback from all of its axes. *)
THEOREM SessionsAreReady == Spec => []LiveIsReady
<1>1. DomainInv => LiveIsReady
  BY DEF DomainInv
<1>2. QED
  BY <1>1, Invariance, PTL

(* The gate of the whole vehicle is closed once groups are configured. *)
THEOREM LegacyGateClosed == Spec => []LegacyClosed
<1>1. DomainInv => LegacyClosed
  BY DEF DomainInv
<1>2. QED
  BY <1>1, Invariance, PTL

-----------------------------------------------------------------------------
(* The domain implements SessionGate.                                       *)

(* What one step may do to the session of one group. *)
SessionStep(g) ==
  \/ state'[g] = state[g] /\ epoch'[g] = epoch[g]
  \/ /\ state'[g] \in {"Stopped", "Fault"} /\ epoch'[g] >= epoch[g]
     /\ state[g] \in Live => epoch'[g] > epoch[g]
  \/ /\ state[g] \notin Live /\ state'[g] = "Armed" /\ epoch'[g] > epoch[g]
     /\ Unhindered(g)
  \/ state[g] = "Armed" /\ state'[g] = "Running" /\ epoch'[g] = epoch[g]

LEMMA PropagateSteps ==
  ASSUME TypeOK, configured' = configured,
         NEW STATE S, NEW STATE inhibit, inhibit \in BOOLEAN, Propagate(S, inhibit)
  PROVE  \A g \in Groups : SessionStep(g)
<1>1. \A g \in Groups : epoch[g] \in Nat
  BY DEF TypeOK
<1>2. \A g \in Groups :
        \/ state'[g] = state[g] /\ epoch'[g] = epoch[g]
        \/ /\ configured /\ state'[g] = "Fault"
           /\ epoch'[g] = IF state[g] = "Fault" THEN epoch[g] ELSE epoch[g] + 1
  BY Propagated
<1>3. QED
  BY <1>1, <1>2 DEF SessionStep, Live

LEMMA RevokeSteps ==
  ASSUME TypeOK, NEW STATE S, Revoke(S)
  PROVE  \A g \in Groups : SessionStep(g)
<1>1. \A g \in Groups : epoch[g] \in Nat
  BY DEF TypeOK
<1>2. \A g \in Groups :
        \/ state'[g] = state[g] /\ epoch'[g] = epoch[g]
        \/ /\ configured /\ state'[g] = "Fault"
           /\ epoch'[g] = IF state[g] = "Fault" THEN epoch[g] ELSE epoch[g] + 1
  BY Revoked
<1>3. QED
  BY <1>1, <1>2 DEF SessionStep, Live

LEMMA StopSteps ==
  ASSUME TypeOK, NEW S \in SUBSET Groups, StopSessions(S, Live)
  PROVE  \A g \in Groups : SessionStep(g)
<1>1. \A g \in Groups : epoch[g] \in Nat
  BY DEF TypeOK
<1>2. QED
  BY <1>1, SessionsStopped DEF SessionStep

LEMMA DeviceSteps ==
  ASSUME TypeOK, Device
  PROVE  \A g \in Groups : SessionStep(g)
<1>1. globalInhibit \in BOOLEAN
  BY DEF TypeOK
<1>2. ASSUME NEW a \in Axes, UnprepareAxis(a)
      PROVE  \A g \in Groups : SessionStep(g)
  BY <1>1, <1>2, PropagateSteps DEF UnprepareAxis, configVars
<1>3. ASSUME NEW a \in Axes, NEW r \in BOOLEAN, NEW c \in ReportCategories, ReportAxis(a, r, c)
      PROVE  \A g \in Groups : SessionStep(g)
  BY <1>1, <1>3, PropagateSteps DEF ReportAxis, configVars
<1>4. ASSUME NEW b \in ReportedBackends, NEW r \in BOOLEAN, ReportBackend(b, r)
      PROVE  \A g \in Groups : SessionStep(g)
  BY <1>1, <1>4, PropagateSteps DEF ReportBackend, configVars
<1>5. ASSUME NEW a \in WarnedAxes, NEW on \in BOOLEAN, Warning(a, on)
      PROVE  \A g \in Groups : SessionStep(g)
  BY <1>5 DEF Warning, groupVars, SessionStep
<1>6. ASSUME NEW c \in Conditions, NEW s \in Sources, NEW left \in 0..MaxValidity,
             Condition(c, s, left)
      PROVE  \A g \in Groups : SessionStep(g)
  BY <1>1, <1>6, PropagateSteps DEF Condition, configVars
<1>7. QED
  BY <1>2, <1>3, <1>4, <1>5, <1>6 DEF Device

LEMMA OperatorSteps ==
  ASSUME TypeOK, Operator
  PROVE  \A g \in Groups : SessionStep(g)
<1>1. \A g \in Groups : epoch[g] \in Nat
  BY DEF TypeOK
<1>2. globalInhibit \in BOOLEAN
  BY DEF TypeOK
<1>3. ASSUME NEW r \in Reports, RaiseEvent(r)
      PROVE  \A g \in Groups : SessionStep(g)
  <2> DEFINE global == Completed(r) \notin events /\ Completed(r).severity = "GlobalStop"
  <2>1. Propagate({}, globalInhibit \/ global) /\ configured' = configured
    BY <1>3 DEF RaiseEvent, configVars
  <2>2. (globalInhibit \/ global) \in BOOLEAN
    BY <1>2
  <2>3. QED
    BY <2>1, <2>2, PropagateSteps
<1>4. ASSUME NEW e \in events, Acknowledge(e)
      PROVE  \A g \in Groups : SessionStep(g)
  BY <1>2, <1>4, PropagateSteps DEF Acknowledge, configVars
<1>5. ASSUME NEW h \in Groups, Arm(h)
      PROVE  \A g \in Groups : SessionStep(g)
  <2>1. PICK stopped \in {Restricted} :
          /\ state' = [RevokedState(stopped) EXCEPT ![h] = "Armed"]
          /\ epoch' = [RevokedEpoch(stopped) EXCEPT
                         ![h] = IF state[h] = "Armed" THEN epoch[h] ELSE epoch[h] + 1]
    BY <1>5 DEF Arm
  <2>2. state[h] # "Running" /\ Unhindered(h)
    BY <1>5 DEF Arm
  <2>3. SessionStep(h)
    BY <1>1, <2>1, <2>2 DEF RevokedState, RevokedEpoch, SessionStep, Live
  <2>4. \A g \in Groups : g # h => SessionStep(g)
    BY <1>1, <2>1 DEF RevokedState, RevokedEpoch, SessionStep, Live
  <2>5. QED
    BY <2>3, <2>4
<1>6. ASSUME NEW h \in Groups, Run(h)
      PROVE  \A g \in Groups : SessionStep(g)
  <2>1. PICK stopped \in {Restricted} :
          /\ state' = [RevokedState(stopped) EXCEPT ![h] = "Running"]
          /\ epoch' = RevokedEpoch(stopped)
    BY <1>6 DEF Run
  <2>2. state[h] = "Armed" /\ h \notin stopped
    BY <1>6, <2>1 DEF Run, Unhindered
  <2>3. SessionStep(h)
    BY <1>1, <2>1, <2>2 DEF RevokedState, RevokedEpoch, SessionStep, Live
  <2>4. \A g \in Groups : g # h => SessionStep(g)
    BY <1>1, <2>1 DEF RevokedState, RevokedEpoch, SessionStep, Live
  <2>5. QED
    BY <2>3, <2>4
<1>7. ASSUME NEW h \in Groups, Halt(h)
      PROVE  \A g \in Groups : SessionStep(g)
  BY <1>7, StopSteps DEF Halt
<1>8. ASSUME NEW h \in Groups, Invalidate(h)
      PROVE  \A g \in Groups : SessionStep(g)
  BY <1>1, <1>8 DEF Invalidate, SessionStep, Live, TypeOK
<1>9. ASSUME GlobalStop
      PROVE  \A g \in Groups : SessionStep(g)
  BY <1>9, RevokeSteps DEF GlobalStop
<1>10. ASSUME ResetGlobalStop
       PROVE  \A g \in Groups : SessionStep(g)
  BY <1>10 DEF ResetGlobalStop, groupVars, SessionStep
<1>11. QED
  BY <1>3, <1>4, <1>5, <1>6, <1>7, <1>8, <1>9, <1>10 DEF Operator

LEMMA OwnerSteps ==
  ASSUME TypeOK, Owner
  PROVE  \A g \in Groups : SessionStep(g)
<1>1. ASSUME RequireOwnerLease
      PROVE  \A g \in Groups : SessionStep(g)
  BY <1>1 DEF RequireOwnerLease, groupVars, SessionStep
<1>2. ASSUME ExpireOwner
      PROVE  \A g \in Groups : SessionStep(g)
  BY <1>2, RevokeSteps DEF ExpireOwner
<1>3. QED
  BY <1>1, <1>2 DEF Owner, RenewOwner, GloballyInhibited

LEMMA LegacySteps ==
  ASSUME TypeOK, Legacy
  PROVE  \A g \in Groups : SessionStep(g)
<1>1. ASSUME NEW c \in Components, NEW r \in BOOLEAN, LegacyReport(c, r)
      PROVE  \A g \in Groups : SessionStep(g)
  <2> DEFINE S == IF ~r /\ \E g \in ConfiguredGroups : state[g] \in Live THEN Groups ELSE {}
  <2>1. Revoke(S)
    BY <1>1 DEF LegacyReport
  <2>2. QED
    BY <2>1, RevokeSteps
<1>2. ASSUME LegacyFault
      PROVE  \A g \in Groups : SessionStep(g)
  BY <1>2, RevokeSteps DEF LegacyFault
<1>3. ASSUME LegacyArm \/ LegacyRun
      PROVE  \A g \in Groups : SessionStep(g)
  BY <1>3 DEF LegacyArm, LegacyRun, groupVars, SessionStep
<1>4. ASSUME LegacyHalt
      PROVE  \A g \in Groups : SessionStep(g)
  <2>1. ConfiguredGroups \in SUBSET Groups
    BY DEF ConfiguredGroups
  <2>2. QED
    BY <1>4, <2>1, StopSteps DEF LegacyHalt
<1>5. QED
  BY <1>1, <1>2, <1>3, <1>4 DEF Legacy

(* Every step of the domain is a step of each group's session. *)
LEMMA StepsOfSessions ==
  ASSUME TypeOK, [Next]_vars
  PROVE  \A g \in Groups : SessionStep(g)
<1>1. \A g \in Groups : epoch[g] \in Nat
  BY DEF TypeOK
<1>2. ASSUME Configuration
      PROVE  \A g \in Groups : SessionStep(g)
  <2>1. ASSUME NEW p \in Policies, Configure(p)
        PROVE  \A g \in Groups : SessionStep(g)
    BY <1>1, <2>1 DEF Configure, SessionStep
  <2>2. ASSUME NEW m \in WriterModes, RegisterWriter(m)
        PROVE  \A g \in Groups : SessionStep(g)
    BY <2>2 DEF RegisterWriter, groupVars, SessionStep
  <2>3. QED
    BY <1>2, <2>1, <2>2 DEF Configuration
<1>3. ASSUME Poll
      PROVE  \A g \in Groups : SessionStep(g)
  <2>1. globalInhibit \in BOOLEAN
    BY DEF TypeOK
  <2>2. QED
    BY <1>3, <2>1, PollPropagates, PropagateSteps DEF Poll, configVars
<1>4. ASSUME Tick \/ UNCHANGED vars
      PROVE  \A g \in Groups : SessionStep(g)
  BY <1>4 DEF Tick, groupVars, vars, SessionStep
<1>5. QED
  BY <1>2, <1>3, <1>4, DeviceSteps, OperatorSteps, OwnerSteps, LegacySteps DEF Next

(* The domain implements the gate it promises its writers: its initial state  *)
(* is the gate's, and every step of it is a step of the gate or changes       *)
(* nothing the gate shows.                                                   *)
THEOREM DomainGivesSessions == Spec => GivesSessions
<1>1. Init => Gate!GateInit
  BY DEF Init, Gate!GateInit, Phase
<1>2. DomainInv /\ DomainInv' /\ [Next]_vars => [Gate!GateNext]_(Gate!gateVars)
  <2>1. SUFFICES ASSUME TypeOK, TypeOK', [Next]_vars
                 PROVE  Gate!GateNext
    BY DEF DomainInv
  <2>2. [g \in Groups |-> Phase(g)]' = [g \in Groups |-> Phase(g)']
    OBVIOUS
  <2>3. /\ \A g \in Groups : Phase(g) \in Gate!Phases /\ Phase(g)' \in Gate!Phases
        /\ epoch' \in [Groups -> Nat]
        /\ \A g \in Groups : epoch[g] \in Nat /\ epoch'[g] \in Nat
    BY <2>1 DEF TypeOK, Phase, Gate!Phases
  <2>4. ASSUME NEW g \in Groups
        PROVE  Gate!Start(g) \/ Gate!Open(g) \/ Gate!Close(g) \/ Gate!Stay(g)
    <3>1. SessionStep(g)
      BY <2>1, StepsOfSessions
    <3>2. state[g] \in States /\ state'[g] \in States
      BY <2>1 DEF TypeOK
    <3>3. QED
      BY <2>3, <3>1, <3>2
         DEF SessionStep, Live, States, Phase, Gate!Start, Gate!Open, Gate!Close, Gate!Stay
  <2>5. QED
    BY <2>2, <2>3, <2>4 DEF Gate!GateNext
<1>3. QED
  BY <1>1, <1>2, Invariance, PTL DEF Spec, GivesSessions, Gate!GateSpec

(* A writer that has lost the permission it remembers an epoch for never gets *)
(* it back under that epoch.                                                 *)
THEOREM LostForGood == Spec => Gate!SpentForGood
BY DomainGivesSessions, Gate!GateSpends, PTL DEF GivesSessions

-----------------------------------------------------------------------------
(* Lapses are not forgiven.                                                 *)

(* A session under a required lease began with the lease. *)
LiveIsLeased ==
  /\ leaseLeft > 0 => leased
  /\ ownerRequired => \A g \in Groups : state[g] \in Live => leased

(* The scope of a stop only grows while attestations are lost. *)
LEMMA ScopeGrows ==
  ASSUME associations' = associations,
         \A r \in associations : ConditionSatisfied(r)' => ConditionSatisfied(r),
         NEW e
  PROVE  Scope(e) \subseteq Scope(e)'
<1>1. Seed(e)' = Seed(e)
  BY DEF Seed
<1>2. \A r \in associations : Spreads(r, e) => Spreads(r, e)'
  BY DEF Spreads
<1>3. QED
  BY <1>1, <1>2 DEF Scope

(* What neither stops a group nor is a stop restricts nothing. *)
LEMMA NoStopNoScope ==
  \A e : e.severity \notin {"GroupStop", "GlobalStop"} => Scope(e) = {}
<1>1. SUFFICES ASSUME NEW e, e.severity \notin {"GroupStop", "GlobalStop"}
               PROVE  Scope(e) = {}
  OBVIOUS
<1>2. Seed(e) = {}
  BY <1>1 DEF Seed
<1>3. {} \in SUBSET Groups /\ \A g \in Groups : {} \in SUBSET (Groups \ {g})
  OBVIOUS
<1>4. QED
  BY <1>2, <1>3 DEF Scope

(* Restrictions only grow while stops stay, readiness and attestations fall. *)
LEMMA RestrictedGrows ==
  ASSUME associations' = associations,
         \A r \in associations : ConditionSatisfied(r)' => ConditionSatisfied(r),
         \A e \in events : e \in events' \/ e.severity \notin {"GroupStop", "GlobalStop"},
         \A g \in Groups : Ready(g)' => Ready(g)
  PROVE  Restricted \subseteq Restricted'
<1>1. \A e \in events : Scope(e) \subseteq UNION {Scope(x)' : x \in events'}
  BY ScopeGrows, NoStopNoScope
<1>2. \A g \in Groups : ~Ready(g) => ~Ready(g)' /\ Scope(Unavailable(g)) \subseteq Scope(Unavailable(g))'
  <2>1. \A g : Unavailable(g)' = Unavailable(g)
    BY DEF Unavailable
  <2>2. QED
    BY <2>1, ScopeGrows
<1>3. QED
  BY <1>1, <1>2 DEF Restricted

(* Only the owner's calls and time touch the lease. *)
LEMMA LeaseSteps ==
  ASSUME [Next]_vars
  PROVE  \/ UNCHANGED leaseVars
         \/ RequireOwnerLease
         \/ \E left \in 0..MaxLease : RenewOwner(left)
         \/ Tick
<1>1. Configuration => UNCHANGED leaseVars
  BY DEF Configuration, Configure, RegisterWriter, ownerVars, leaseVars
<1>2. Device => UNCHANGED leaseVars
  BY DEF Device, UnprepareAxis, ReportAxis, ReportBackend, Warning, Condition, ownerVars, leaseVars
<1>3. Operator => UNCHANGED leaseVars
  BY DEF Operator, RaiseEvent, Acknowledge, Arm, Run, Halt, Invalidate, GlobalStop,
         ResetGlobalStop, ownerVars, leaseVars
<1>4. Legacy => UNCHANGED leaseVars
  BY DEF Legacy, LegacyReport, LegacyFault, LegacyArm, LegacyRun, LegacyHalt, ownerVars, leaseVars
<1>5. Poll \/ GloballyInhibited \/ UNCHANGED vars => UNCHANGED leaseVars
  BY DEF Poll, GloballyInhibited, vars, leaseVars
<1>6. QED
  BY <1>1, <1>2, <1>3, <1>4, <1>5 DEF Next, Owner

LEMMA LeasedInit == Init => LiveIsLeased
BY DEF Init, LiveIsLeased, Live

LEMMA LeasedNext == DomainInv /\ LiveIsLeased /\ [Next]_vars => LiveIsLeased'
<1> SUFFICES ASSUME DomainInv, LiveIsLeased, [Next]_vars
             PROVE  LiveIsLeased'
  OBVIOUS
<1>1. leaseLeft \in Nat /\ leased \in BOOLEAN /\ ownerRequired \in BOOLEAN
  BY DomainAssumption DEF DomainAssumption, DomainInv, TypeOK
<1>2. \A g \in Groups : SessionStep(g)
  BY StepsOfSessions DEF DomainInv
<1>3. CASE UNCHANGED leaseVars
  <2>1. \A g \in Groups : state'[g] \in Live => state[g] \in Live \/ OwnerFresh
    BY <1>2 DEF SessionStep, Live, Unhindered
  <2>2. OwnerFresh /\ ownerRequired => leased
    BY <1>1 DEF OwnerFresh, LiveIsLeased
  <2>3. QED
    BY <1>3, <2>1, <2>2 DEF LiveIsLeased, leaseVars
<1>4. CASE RequireOwnerLease
  BY <1>4 DEF RequireOwnerLease, LiveIsLeased, groupVars
<1>5. ASSUME NEW left \in 0..MaxLease, RenewOwner(left)
      PROVE  LiveIsLeased'
  <2>1. \A g \in Groups : state'[g] \in Live => state[g] \in Live
    <3>1. ExpireOwner
      BY <1>5 DEF RenewOwner
    <3>2. QED
      BY <3>1, Revoked DEF ExpireOwner, DomainInv, Live
  <2>2. /\ leased' = (leased \/ left > 0) /\ ownerRequired' = ownerRequired
        /\ leaseLeft' = IF left > leaseLeft THEN left ELSE leaseLeft
    BY <1>5 DEF RenewOwner
  <2>3. left \in Nat
    BY DomainAssumption DEF DomainAssumption
  <2>4. QED
    BY <1>1, <2>1, <2>2, <2>3 DEF LiveIsLeased
<1>6. CASE Tick
  BY <1>1, <1>6 DEF Tick, LiveIsLeased, groupVars
<1>7. QED
  BY <1>3, <1>4, <1>5, <1>6, LeaseSteps

(* A hindrance stays while stops stay, and readiness, attestations and the    *)
(* lease only fall.                                                          *)
LEMMA HindranceStays ==
  ASSUME associations' = associations,
         \A r \in associations : ConditionSatisfied(r)' => ConditionSatisfied(r),
         \A e \in events : e \in events' \/ e.severity \notin {"GroupStop", "GlobalStop"},
         \A a \in Axes : axisReady'[a] => axisReady[a],
         OwnerFresh' => OwnerFresh,
         NEW g \in Groups, Hindered(g)
  PROVE  Hindered(g)'
<1>1. \A h \in Groups : Ready(h)' => Ready(h)
  BY DEF Ready
<1>2. Restricted \subseteq Restricted'
  BY <1>1, RestrictedGrows
<1>3. QED
  BY <1>2 DEF Hindered

(* A session that propagate() stops had an epoch that is spent. *)
LEMMA PropagateSpends ==
  ASSUME DomainInv, configured' = configured, Propagate(Restricted, globalInhibit),
         UNCHANGED leaseVars,
         NEW g \in Groups, state[g] \in Live, Hindered(g), ~Hindered(g)'
  PROVE  epoch'[g] > epoch[g]
<1>1. globalInhibit \in BOOLEAN /\ epoch[g] \in Nat /\ configured
  BY DEF DomainInv, TypeOK, LiveIsConfigured
<1>2. OwnerFresh' = OwnerFresh
  BY DEF OwnerFresh, leaseVars
<1>3. g \in Restricted
  BY <1>2 DEF Hindered
<1>4. /\ \A h \in Groups :
           \/ state'[h] = state[h] /\ epoch'[h] = epoch[h]
           \/ /\ configured /\ state'[h] = "Fault"
              /\ epoch'[h] = IF state[h] = "Fault" THEN epoch[h] ELSE epoch[h] + 1
      /\ configured => \A h \in Groups : h \in Restricted => state'[h] = "Fault"
  BY <1>1, Propagated DEF DomainInv
<1>5. QED
  BY <1>1, <1>3, <1>4 DEF Live

LEMMA DeviceForgivesNothing ==
  ASSUME DomainInv, Device, NEW g \in Groups, state[g] \in Live, Hindered(g), ~Hindered(g)',
         \A a \in Axes : axisReady'[a] => axisReady[a]
  PROVE  epoch'[g] > epoch[g]
<1>1. ASSUME NEW a \in Axes, UnprepareAxis(a)
      PROVE  FALSE
  BY <1>1, HindranceStays DEF UnprepareAxis, configVars, leaseVars, ConditionSatisfied, OwnerFresh
<1>2. ASSUME NEW a \in Axes, NEW r \in BOOLEAN, NEW c \in ReportCategories, ReportAxis(a, r, c)
      PROVE  FALSE
  <2>1. events \subseteq events'
    BY <1>2, Emplaced DEF ReportAxis
  <2>2. QED
    BY <1>2, <2>1, HindranceStays DEF ReportAxis, configVars, leaseVars, ConditionSatisfied, OwnerFresh
<1>3. ASSUME NEW b \in ReportedBackends, NEW r \in BOOLEAN, ReportBackend(b, r)
      PROVE  FALSE
  <2>1. events \subseteq events'
    BY <1>3, Emplaced DEF ReportBackend
  <2>2. QED
    BY <1>3, <2>1, HindranceStays
       DEF ReportBackend, configVars, leaseVars, ConditionSatisfied, OwnerFresh
<1>4. ASSUME NEW a \in WarnedAxes, NEW on \in BOOLEAN, Warning(a, on)
      PROVE  FALSE
  <2>1. \A e \in events : e.id = <<"warning", a>> => e.severity \notin {"GroupStop", "GlobalStop"}
    BY DomainAssumption DEF DomainAssumption, DomainInv, EventShape
  <2>2. \A e \in events : e \in events' \/ e.severity \notin {"GroupStop", "GlobalStop"}
    BY <1>4, <2>1, Emplaced DEF Warning
  <2>3. QED
    BY <1>4, <2>2, HindranceStays DEF Warning, configVars, ownerVars, ConditionSatisfied, OwnerFresh
<1>5. ASSUME NEW c \in Conditions, NEW s \in Sources, NEW left \in 0..MaxValidity,
             Condition(c, s, left)
      PROVE  epoch'[g] > epoch[g]
  BY <1>5, PropagateSpends DEF Condition, configVars
<1>6. QED
  BY <1>1, <1>2, <1>3, <1>4, <1>5 DEF Device

LEMMA OperatorForgivesNothing ==
  ASSUME DomainInv, Operator, NEW g \in Groups, state[g] \in Live, Hindered(g), ~Hindered(g)',
         \A a \in Axes : axisReady'[a] => axisReady[a]
  PROVE  epoch'[g] > epoch[g]
<1>1. ASSUME NEW r \in Reports, RaiseEvent(r)
      PROVE  FALSE
  BY <1>1, HindranceStays DEF RaiseEvent, configVars, leaseVars, ConditionSatisfied, OwnerFresh
<1>2. ASSUME NEW e \in events, Acknowledge(e)
      PROVE  epoch'[g] > epoch[g]
  BY <1>2, PropagateSpends DEF Acknowledge, configVars
<1>3. ASSUME NEW h \in Groups, Arm(h) \/ Run(h) \/ Halt(h) \/ Invalidate(h)
      PROVE  FALSE
  BY <1>3, HindranceStays
     DEF Arm, Run, Halt, Invalidate, configVars, ownerVars, ConditionSatisfied, OwnerFresh
<1>4. ASSUME GlobalStop \/ ResetGlobalStop
      PROVE  FALSE
  BY <1>4, HindranceStays
     DEF GlobalStop, ResetGlobalStop, configVars, ownerVars, leaseVars, ConditionSatisfied, OwnerFresh
<1>5. QED
  BY <1>1, <1>2, <1>3, <1>4 DEF Operator

(* renewOwner() finds the lapse of a live session before it renews the lease. *)
LEMMA RenewalForgivesNothing ==
  ASSUME DomainInv, LiveIsLeased, NEW left \in 0..MaxLease, RenewOwner(left),
         NEW g \in Groups, state[g] \in Live, Hindered(g), ~Hindered(g)'
  PROVE  epoch'[g] > epoch[g]
<1>1. CASE OwnerFresh
  <2>1. OwnerFresh /\ g \in Restricted
    BY <1>1 DEF Hindered
  <2>2. UNCHANGED <<configVars, axisReady, evidence, events>>
    BY DEF RenewOwner
  <2>3. Restricted \subseteq Restricted'
    BY <2>2, RestrictedGrows DEF configVars, ConditionSatisfied, Ready
  <2>4. QED
    BY <2>1, <2>3 DEF Hindered
<1>2. CASE ~OwnerFresh
  <2>1. ownerRequired /\ leased /\ ~ownerExpired
    BY <1>2 DEF OwnerFresh, LiveIsLeased, DomainInv, InhibitHolds
  <2>2. Revoke(Groups)
    BY <1>2, <2>1 DEF RenewOwner, ExpireOwner, LeaseLapsed
  <2>3. epoch[g] \in Nat /\ configured
    BY DEF DomainInv, TypeOK, LiveIsConfigured
  <2>4. QED
    BY <2>2, <2>3, Revoked DEF DomainInv, Live
<1>3. QED
  BY <1>1, <1>2

(* Nothing forgives a lapse, except an axis that becomes ready in the step. *)
LEMMA StepForgivesNothing ==
  ASSUME DomainInv, LiveIsLeased, [Next]_vars,
         NEW g \in Groups, state[g] \in Live, Hindered(g), ~Hindered(g)',
         \A a \in Axes : axisReady'[a] => axisReady[a]
  PROVE  epoch'[g] > epoch[g]
<1>1. ASSUME NEW p \in Policies, Configure(p)
      PROVE  FALSE
  BY <1>1 DEF Configure
<1>2. ASSUME NEW m \in WriterModes, RegisterWriter(m)
      PROVE  FALSE
  BY <1>2, HindranceStays DEF RegisterWriter, configVars, ownerVars, ConditionSatisfied, OwnerFresh
<1>3. ASSUME RequireOwnerLease
      PROVE  FALSE
  BY <1>3 DEF RequireOwnerLease
<1>4. ASSUME GloballyInhibited \/ Poll
      PROVE  FALSE
  BY <1>4, HindranceStays
     DEF GloballyInhibited, Poll, configVars, leaseVars, ConditionSatisfied, OwnerFresh
<1>5. ASSUME Legacy
      PROVE  FALSE
  BY <1>5, HindranceStays
     DEF Legacy, LegacyReport, LegacyFault, LegacyArm, LegacyRun, LegacyHalt, configVars,
         ownerVars, ConditionSatisfied, OwnerFresh
<1>6. ASSUME Tick
      PROVE  FALSE
  <2>1. \A r \in associations : ConditionSatisfied(r)' => ConditionSatisfied(r)
    <3>1. \A r \in associations :
            /\ r.condition \in Conditions /\ r.attester \in Sources
            /\ evidence[r.condition][r.attester] \in Nat
      BY DomainAssumption DEF DomainAssumption, DomainInv, TypeOK, Association
    <3>2. QED
      BY <1>6, <3>1 DEF Tick, ConditionSatisfied
  <2>2. OwnerFresh' => OwnerFresh
    <3>1. leaseLeft \in Nat
      BY DomainAssumption DEF DomainAssumption, DomainInv, TypeOK
    <3>2. QED
      BY <1>6, <3>1 DEF Tick, OwnerFresh
  <2>3. QED
    BY <1>6, <2>1, <2>2, HindranceStays DEF Tick, configVars
<1>7. ASSUME UNCHANGED vars
      PROVE  FALSE
  BY <1>7, HindranceStays DEF vars, ConditionSatisfied, OwnerFresh
<1>8. QED
  BY <1>1, <1>2, <1>3, <1>4, <1>5, <1>6, <1>7, DeviceForgivesNothing, OperatorForgivesNothing,
     RenewalForgivesNothing DEF Next, Configuration, Owner

(* A session that was hindered is over once the hindrance is gone. *)
THEOREM LapsesNotForgiven == Spec => NoLapseForgiven
<1>1. DomainInv /\ LiveIsLeased /\ [Next]_vars =>
        [\A g \in Groups :
           /\ state[g] \in Live /\ Hindered(g)
           /\ ~Hindered(g)'
           /\ \A a \in Axes : axisReady'[a] => axisReady[a]
           => epoch'[g] > epoch[g]]_vars
  BY StepForgivesNothing
<1>2. Spec => []LiveIsLeased
  BY LeasedInit, LeasedNext, Invariance, PTL DEF Spec
<1>3. QED
  BY <1>1, <1>2, Invariance, PTL DEF Spec, NoLapseForgiven

-----------------------------------------------------------------------------
(* Scopes and chains of associations.                                       *)

(* A set of numbers that is not empty has a least one. *)
LEMMA LeastNumber ==
  ASSUME NEW S, S \subseteq Nat, NEW n \in S
  PROVE  \E m \in S : \A k \in S : m <= k
<1> DEFINE T == {0..k : k \in S}
<1>1. T \subseteq FiniteSubsetsOf(Nat) /\ T # {}
  <2>1. \A k \in S : IsFiniteSet(0..k) /\ 0..k \subseteq Nat
    BY FS_Interval
  <2> QED
    BY <2>1 DEF FiniteSubsetsOf
<1>2. PICK x \in T : \A y \in T : ~(<<y, x>> \in StrictSubsetOrdering(Nat))
  BY <1>1, FS_StrictSubsetOrderingWellFounded, WFMin
<1>3. PICK m \in S : x = 0..m
  OBVIOUS
<1>4. ASSUME NEW k \in S PROVE m <= k
  <2>1. 0..k \in T /\ 0..k \subseteq Nat /\ 0..m \subseteq Nat
    OBVIOUS
  <2>2. ~(0..k \subseteq 0..m /\ 0..k # 0..m)
    BY <1>2, <1>3, <2>1 DEF StrictSubsetOrdering
  <2>3. k < m => 0..k \subseteq 0..m /\ m \in 0..m /\ m \notin 0..k
    OBVIOUS
  <2>4. ~(k < m)
    BY <2>2, <2>3
  <2> QED
    BY <2>4
<1> QED
  BY <1>4

(* An event that stops s spreads to d along one association. *)
Link(s, d, e) ==
  \E r \in associations :
    /\ r.source = s /\ r.dependent = d
    /\ evidence[r.condition][r.attester] = 0
    /\ r.category \in {AnyCategory, e.category} \/ s # e.group

(* The groups p[1], ..., p[n] lead from one of hit to g. *)
Chain(p, n, hit, g, e) ==
  /\ p \in [1..n -> Groups] /\ p[1] \in hit /\ p[n] = g
  /\ \A i \in 1..(n - 1) : Link(p[i], p[i + 1], e)

(* Exposed says that there is a chain no longer than the groups are many. *)
LEMMA ExposedByChain ==
  ASSUME NEW g, NEW hit, NEW e
  PROVE  Exposed(g, hit, e) <=> \E n \in 1..Cardinality(Groups) : \E p : Chain(p, n, hit, g, e)
<1>1. ASSUME NEW n, NEW p
      PROVE  Chain(p, n, hit, g, e) <=>
               /\ p \in [1..n -> Groups] /\ p[1] \in hit /\ p[n] = g
               /\ \A i \in 1..(n - 1) : \E r \in associations :
                    /\ r.source = p[i] /\ r.dependent = p[i + 1]
                    /\ evidence[r.condition][r.attester] = 0
                    /\ r.category \in {AnyCategory, e.category} \/ p[i] # e.group
  BY DEF Chain, Link
<1>2. ASSUME Exposed(g, hit, e)
      PROVE  \E n \in 1..Cardinality(Groups) : \E p : Chain(p, n, hit, g, e)
  <2>1. PICK n \in 1..Cardinality(Groups) : \E p \in [1..n -> Groups] :
          /\ p[1] \in hit /\ p[n] = g
          /\ \A i \in 1..(n - 1) : \E r \in associations :
               /\ r.source = p[i] /\ r.dependent = p[i + 1]
               /\ evidence[r.condition][r.attester] = 0
               /\ r.category \in {AnyCategory, e.category} \/ p[i] # e.group
    BY <1>2 DEF Exposed
  <2>2. PICK p \in [1..n -> Groups] :
          /\ p[1] \in hit /\ p[n] = g
          /\ \A i \in 1..(n - 1) : \E r \in associations :
               /\ r.source = p[i] /\ r.dependent = p[i + 1]
               /\ evidence[r.condition][r.attester] = 0
               /\ r.category \in {AnyCategory, e.category} \/ p[i] # e.group
    BY <2>1
  <2> QED
    BY <1>1, <2>2
<1>3. ASSUME NEW n \in 1..Cardinality(Groups), NEW p, Chain(p, n, hit, g, e)
      PROVE  Exposed(g, hit, e)
  BY <1>1, <1>3 DEF Exposed
<1> QED
  BY <1>2, <1>3

(* The associations an event spreads along. *)
LEMMA LinksSpread ==
  ASSUME TypeOK, NEW s, NEW d, NEW e
  PROVE  Link(s, d, e) <=>
           \E r \in associations : r.source = s /\ r.dependent = d /\ Spreads(r, e)
<1>1. ASSUME NEW r \in associations
      PROVE  r.source \in Groups /\ r.dependent \in Groups
             /\ (ConditionSatisfied(r) <=> evidence[r.condition][r.attester] # 0)
  <2>1. r.condition \in Conditions /\ r.attester \in Sources /\ r.source \in Groups /\ r.dependent \in Groups
    BY DEF TypeOK, Association
  <2>2. evidence[r.condition][r.attester] \in 0..MaxValidity /\ MaxValidity \in Nat
    BY <2>1, DomainAssumption DEF TypeOK, DomainAssumption
  <2> QED
    BY <2>1, <2>2 DEF ConditionSatisfied
<1> QED
  BY <1>1 DEF Link, Spreads

(* Whatever a chain leads to is in the scope. *)
LEMMA ChainInScope ==
  ASSUME TypeOK, NEW e, NEW hit, hit \subseteq Seed(e), NEW g \in Groups,
         NEW n \in Nat, n >= 1, NEW p, Chain(p, n, hit, g, e)
  PROVE  g \in Scope(e)
<1>1. SUFFICES ASSUME NEW S \in SUBSET (Groups \ {g}), Seed(e) \subseteq S,
                      \A r \in {q \in associations : Spreads(q, e)} : r.source \in S => r.dependent \in S
               PROVE  FALSE
  BY DEF Scope
<1> DEFINE T == {i \in 1..n : p[i] \notin S}
<1>2. n \in T /\ T \subseteq Nat
  BY DEF Chain
<1>3. PICK m \in T : \A k \in T : m <= k
  BY <1>2, LeastNumber
<1>4. m # 1
  BY <1>1 DEF Chain
<1>5. m - 1 \in 1..(n - 1) /\ m - 1 \notin T
  BY <1>3, <1>4
<1>6. p[m - 1] \in S /\ Link(p[m - 1], p[(m - 1) + 1], e) /\ (m - 1) + 1 = m
  BY <1>5 DEF Chain
<1>7. Link(p[m - 1], p[m], e)
  BY <1>6
<1>8. p[m] \in S
  BY <1>1, <1>6, <1>7, LinksSpread
<1> QED
  BY <1>8

(* One chain goes on along a link. *)
LEMMA ChainGrows ==
  ASSUME NEW e, NEW hit, NEW g, NEW h \in Groups, NEW n \in Nat, n >= 1, NEW p,
         Chain(p, n, hit, g, e), Link(g, h, e)
  PROVE  \E q : Chain(q, n + 1, hit, h, e)
<1> DEFINE q == [i \in 1..(n + 1) |-> IF i = n + 1 THEN h ELSE p[i]]
<1>1. q \in [1..(n + 1) -> Groups] /\ q[1] \in hit /\ q[n + 1] = h
  BY DEF Chain
<1>2. ASSUME NEW i \in 1..n
      PROVE  Link(q[i], q[i + 1], e)
  <2>1. CASE i = n
    <3>1. q[i] = g /\ q[i + 1] = h
      BY <2>1 DEF Chain
    <3> QED
      BY <3>1
  <2>2. CASE i # n
    <3>1. q[i] = p[i] /\ q[i + 1] = p[i + 1] /\ i \in 1..(n - 1)
      BY <2>2
    <3> QED
      BY <3>1 DEF Chain
  <2> QED
    BY <2>1, <2>2
<1>3. (n + 1) - 1 = n
  OBVIOUS
<1> HIDE DEF q
<1> QED
  BY <1>1, <1>2, <1>3 DEF Chain

(* A chain that comes to one group twice can be cut short. *)
LEMMA ChainCut ==
  ASSUME NEW e, NEW hit, NEW g, NEW n \in Nat, n >= 1, NEW p, Chain(p, n, hit, g, e),
         NEW i \in 1..n, NEW j \in 1..n, i < j, p[i] = p[j]
  PROVE  \E m \in Nat : 1 <= m /\ m < n /\ \E q : Chain(q, m, hit, g, e)
<1> DEFINE d == j - i
           m == n - d
           q == [k \in 1..m |-> IF k <= i THEN p[k] ELSE p[k + d]]
<1>1. d \in Nat /\ d >= 1 /\ m \in Nat /\ i <= m /\ m < n /\ 1 <= m /\ m + d = n /\ i + d = j
  OBVIOUS
<1> HIDE DEF d, m
<1>2. \A k \in 1..m : k + d \in 1..n /\ k \in 1..n
  BY <1>1
<1>3. q \in [1..m -> Groups] /\ q[1] \in hit
  BY <1>1, <1>2 DEF Chain
<1>4. q[m] = g
  <2>1. CASE m = i
    <3>1. j = n
      BY <1>1, <2>1
    <3> QED
      BY <1>1, <2>1, <3>1 DEF Chain
  <2>2. CASE m # i
    BY <1>1, <2>2 DEF Chain
  <2> QED
    BY <2>1, <2>2
<1>5. ASSUME NEW k \in 1..(m - 1)
      PROVE  Link(q[k], q[k + 1], e)
  <2>0. k \in 1..m /\ k + 1 \in 1..m
    BY <1>1
  <2>1. CASE k < i
    <3>1. q[k] = p[k] /\ q[k + 1] = p[k + 1] /\ k \in 1..(n - 1)
      BY <1>1, <2>0, <2>1
    <3> QED
      BY <3>1 DEF Chain
  <2>2. CASE k = i
    <3>1. q[k] = p[j] /\ q[k + 1] = p[j + 1] /\ j \in 1..(n - 1)
      <4>1. q[k] = p[i] /\ q[k + 1] = p[(k + 1) + d] /\ (k + 1) + d = j + 1
        BY <1>1, <2>0, <2>2
      <4>2. j \in 1..(n - 1)
        BY <1>1, <2>2
      <4> QED
        BY <4>1, <4>2
    <3> QED
      BY <3>1 DEF Chain
  <2>3. CASE k > i
    <3>1. q[k] = p[k + d] /\ q[k + 1] = p[(k + 1) + d] /\ (k + 1) + d = (k + d) + 1
          /\ k + d \in 1..(n - 1)
      BY <1>1, <2>0, <2>3
    <3> QED
      BY <3>1 DEF Chain
  <2> QED
    BY <2>1, <2>2, <2>3
<1> HIDE DEF q
<1>6. Chain(q, m, hit, g, e)
  BY <1>3, <1>4, <1>5 DEF Chain
<1> QED
  BY <1>1, <1>6

(* Whatever is in the scope is at the end of a chain, and then of one that is  *)
(* no longer than the groups are many.                                      *)
LEMMA ScopeByChain ==
  ASSUME TypeOK, NEW e, NEW g \in Scope(e), NEW hit, Seed(e) \subseteq hit, hit \subseteq Groups
  PROVE  Exposed(g, hit, e)
<1> DEFINE Lengths(h) == {n \in Nat : 1 <= n /\ \E p : Chain(p, n, hit, h, e)}
           R == {h \in Groups : Lengths(h) # {}}
<1>1. ASSUME NEW h \in hit
      PROVE  h \in R
  <2> DEFINE p == [i \in 1..1 |-> h]
  <2>1. Chain(p, 1, hit, h, e)
    BY DEF Chain
  <2> QED
    BY <2>1
<1>2. ASSUME NEW r \in associations, Spreads(r, e), r.source \in R
      PROVE  r.dependent \in R
  <2>1. r.dependent \in Groups
    BY DEF TypeOK, Association
  <2>2. Link(r.source, r.dependent, e)
    BY <1>2, LinksSpread
  <2>6. PICK n \in Nat : 1 <= n /\ \E p : Chain(p, n, hit, r.source, e)
    BY <1>2
  <2>3. PICK p : Chain(p, n, hit, r.source, e)
    BY <2>6
  <2>4. \E q : Chain(q, n + 1, hit, r.dependent, e)
    BY <2>1, <2>2, <2>6, <2>3, ChainGrows
  <2>5. n + 1 \in Lengths(r.dependent)
    BY <2>6, <2>4
  <2> QED
    BY <2>1, <2>5
<1>3. g \in R
  <2>1. SUFFICES ASSUME g \notin R
                 PROVE  FALSE
    OBVIOUS
  <2>2. R \in SUBSET (Groups \ {g}) /\ Seed(e) \subseteq R
    BY <2>1, <1>1
  <2> HIDE DEF R
  <2> QED
    BY <1>2, <2>2 DEF Scope
<1>4. Lengths(g) # {} /\ Lengths(g) \subseteq Nat
  BY <1>3
<1>5. PICK n \in Lengths(g) : \A k \in Lengths(g) : n <= k
  BY <1>4, LeastNumber
<1>6. PICK p : Chain(p, n, hit, g, e)
  BY <1>5
<1>7. p \in Injection(1..n, Groups)
  <2>1. SUFFICES ASSUME NEW i \in 1..n, NEW j \in 1..n, i < j, p[i] = p[j]
                 PROVE  FALSE
    <3>1. \A i, j \in 1..n : i # j => i < j \/ j < i
      BY <1>5
    <3> QED
      BY <1>6, <3>1 DEF Injection, IsInjective, Chain
  <2>2. PICK m \in Nat : 1 <= m /\ m < n /\ \E q : Chain(q, m, hit, g, e)
    BY <1>5, <1>6, <2>1, ChainCut
  <2>3. m \in Lengths(g)
    BY <2>2
  <2> QED
    BY <1>5, <2>2, <2>3
<1>8. n <= Cardinality(Groups)
  <2>1. Cardinality(1..n) <= Cardinality(Groups)
    BY <1>7, GroupsAssumption, FS_Injection DEF GroupsAssumption
  <2>2. Cardinality(1..n) = n
    BY <1>5, FS_Interval
  <2> QED
    BY <2>1, <2>2
<1>9. n \in 1..Cardinality(Groups)
  BY <1>5, <1>8, GroupsAssumption, FS_CardinalityType DEF GroupsAssumption
<1> QED
  BY <1>6, <1>9, ExposedByChain

-----------------------------------------------------------------------------
(* An event about an axis names the group of the axis. *)
EventOwners == \A e \in events : e.axis # None => e.group = AxisGroup[e.axis]

(* The events of a step are old ones and one that is made out for its axis. *)
LEMMA OwnersKept ==
  ASSUME EventOwners, NEW e, e.axis # None => e.group = AxisGroup[e.axis],
         events' \subseteq events \cup {e}
  PROVE  EventOwners'
BY DEF EventOwners

LEMMA OwnersNext == EventOwners /\ [Next]_vars => EventOwners'
<1> SUFFICES ASSUME EventOwners, [Next]_vars
             PROVE  EventOwners'
  OBVIOUS
<1>1. ASSUME events' \subseteq events
      PROVE  EventOwners'
  BY <1>1 DEF EventOwners
<1>2. Configuration \/ Owner \/ Legacy \/ Poll \/ Tick \/ UNCHANGED vars => events' \subseteq events
  BY DEF Configuration, Configure, RegisterWriter, Owner, RequireOwnerLease, RenewOwner,
         GloballyInhibited, Legacy, LegacyReport, LegacyFault, LegacyArm, LegacyRun, LegacyHalt,
         Poll, Tick, vars
<1>3. CASE Device
  <2>1. ASSUME NEW a \in Axes, NEW r \in BOOLEAN, NEW c \in ReportCategories, ReportAxis(a, r, c)
        PROVE  EventOwners'
    <3>1. events' \subseteq events \cup {ReadinessEvent(a, c)}
      BY <2>1, Emplaced DEF ReportAxis
    <3>2. ReadinessEvent(a, c).axis # None => ReadinessEvent(a, c).group = AxisGroup[ReadinessEvent(a, c).axis]
      BY DEF ReadinessEvent
    <3> QED
      BY <3>1, <3>2, OwnersKept
  <2>2. ASSUME NEW b \in ReportedBackends, NEW r \in BOOLEAN, ReportBackend(b, r)
        PROVE  EventOwners'
    <3>1. events' \subseteq events \cup {BackendEvent(b)}
      BY <2>2, Emplaced DEF ReportBackend
    <3>2. BackendEvent(b).axis # None => BackendEvent(b).group = AxisGroup[BackendEvent(b).axis]
      BY DEF BackendEvent
    <3> QED
      BY <3>1, <3>2, OwnersKept
  <2>3. ASSUME NEW a \in WarnedAxes, NEW on \in BOOLEAN, Warning(a, on)
        PROVE  EventOwners'
    <3>1. events' \subseteq events \cup {WarningEvent(a)}
      BY <2>3, Emplaced DEF Warning
    <3>2. WarningEvent(a).axis # None => WarningEvent(a).group = AxisGroup[WarningEvent(a).axis]
      BY DEF WarningEvent
    <3> QED
      BY <3>1, <3>2, OwnersKept
  <2>4. ASSUME NEW a \in Axes, UnprepareAxis(a)
        PROVE  events' \subseteq events
    BY <2>4 DEF UnprepareAxis
  <2>5. ASSUME NEW c \in Conditions, NEW s \in Sources, NEW left \in 0..MaxValidity,
               Condition(c, s, left)
        PROVE  events' \subseteq events
    BY <2>5 DEF Condition
  <2> QED
    BY <1>1, <1>3, <2>1, <2>2, <2>3, <2>4, <2>5 DEF Device
<1>4. CASE Operator
  <2>1. ASSUME NEW r \in Reports, RaiseEvent(r)
        PROVE  EventOwners'
    <3>1. events' \subseteq events \cup {Completed(r)}
      BY <2>1 DEF RaiseEvent
    <3>2. Completed(r).axis # None => Completed(r).group = AxisGroup[Completed(r).axis]
      BY DEF Completed
    <3> QED
      BY <3>1, <3>2, OwnersKept
  <2>2. ASSUME NEW e \in events, Acknowledge(e)
        PROVE  events' \subseteq events
    BY <2>2 DEF Acknowledge
  <2>3. (\E g \in Groups : Arm(g) \/ Run(g) \/ Halt(g) \/ Invalidate(g)) \/ GlobalStop \/ ResetGlobalStop
          => events' \subseteq events
    BY DEF Arm, Run, Halt, Invalidate, GlobalStop, ResetGlobalStop
  <2> QED
    BY <1>1, <1>4, <2>1, <2>2, <2>3 DEF Operator
<1> QED
  BY <1>1, <1>2, <1>3, <1>4 DEF Next

(* The groups of the axes a stop came from are those it stops by itself. *)
LEMMA SeedOfAxes ==
  ASSUME TypeOK, EventOwners, NEW e \in events, e.severity = "GroupStop"
  PROVE  Seed(e) = {AxisGroup[a] : a \in SourceAxes(e)}
<1>1. /\ e.axis \in Axes \cup {None} /\ e.group \in Groups \cup {None}
      /\ e.axis # None => e.group = AxisGroup[e.axis]
  BY DEF TypeOK, Event, EventOwners
<1>2. /\ None \notin Groups /\ None \notin Axes
      /\ \A a \in Axes : AxisGroup[a] \in Groups
  BY DomainAssumption DEF DomainAssumption
<1>3. CASE e.axis # None
  BY <1>1, <1>2, <1>3 DEF Seed, SourceAxes
<1>4. CASE e.axis = None /\ e.group # None
  BY <1>1, <1>2, <1>4, GroupsAssumption DEF Seed, SourceAxes, GroupsAssumption
<1>5. CASE e.axis = None /\ e.group = None
  BY <1>1, <1>2, <1>5 DEF Seed, SourceAxes
<1> QED
  BY <1>3, <1>4, <1>5

(* The scope of a stop is what chains of unattested dependences lead to. *)
LEMMA ScopeIsExposed ==
  ASSUME TypeOK, NEW e, NEW g \in Groups
  PROVE  g \in Scope(e) <=> Exposed(g, Seed(e), e)
<1>1. Seed(e) \subseteq Groups
  BY DEF Seed
<1>2. ASSUME Exposed(g, Seed(e), e)
      PROVE  g \in Scope(e)
  <2>1. PICK n \in 1..Cardinality(Groups) : \E p : Chain(p, n, Seed(e), g, e)
    BY <1>2, ExposedByChain
  <2>2. PICK p : Chain(p, n, Seed(e), g, e)
    BY <2>1
  <2>3. n \in Nat /\ n >= 1
    OBVIOUS
  <2> QED
    BY <2>2, <2>3, ChainInScope
<1> QED
  BY <1>1, <1>2, ScopeByChain

(* The same chains whatever else the event says. *)
LEMMA ExposedByFields ==
  ASSUME NEW g, NEW hit, NEW e, NEW x, e.group = x.group, e.category = x.category
  PROVE  Exposed(g, hit, e) <=> Exposed(g, hit, x)
BY DEF Exposed

(* What restrictions() computes, said without computing it. *)
RestrictedByChains == \A g \in Groups : Endangered(g) <=> g \in Restricted

LEMMA ChainsRestrict == TypeOK /\ EventOwners => RestrictedByChains
<1> SUFFICES ASSUME TypeOK, EventOwners, NEW g \in Groups
             PROVE  Endangered(g) <=> g \in Restricted
  BY DEF RestrictedByChains
<1>1. ASSUME NEW e \in events
      PROVE  g \in Scope(e) <=>
               \/ e.severity = "GlobalStop"
               \/ e.severity = "GroupStop" /\ Exposed(g, {AxisGroup[a] : a \in SourceAxes(e)}, e)
  <2>1. CASE e.severity = "GlobalStop"
    <3>1. g \in Seed(e)
      BY <2>1 DEF Seed
    <3> QED
      BY <2>1, <3>1, SeedInScope
  <2>2. CASE e.severity = "GroupStop"
    BY <2>2, SeedOfAxes, ScopeIsExposed
  <2>3. CASE e.severity \notin {"GroupStop", "GlobalStop"}
    BY <2>3, NoStopNoScope
  <2> QED
    BY <2>1, <2>2, <2>3
<1>2. ASSUME NEW h \in Groups
      PROVE  g \in Scope(Unavailable(h)) <=> Exposed(g, {h}, [category |-> "unavailable", group |-> h])
  <2>1. Seed(Unavailable(h)) = {h}
    BY DomainAssumption DEF DomainAssumption, Seed, Unavailable
  <2>2. /\ Unavailable(h).group = [category |-> "unavailable", group |-> h].group
        /\ Unavailable(h).category = [category |-> "unavailable", group |-> h].category
    BY DEF Unavailable
  <2>3. Exposed(g, {h}, Unavailable(h)) <=> Exposed(g, {h}, [category |-> "unavailable", group |-> h])
    BY <2>2, ExposedByFields
  <2> QED
    BY <2>1, <2>3, ScopeIsExposed
<1>3. ASSUME NEW h \in Groups
      PROVE  ~Ready(h) <=> \E a \in Axes : AxisGroup[a] = h /\ ~axisReady[a]
  BY DEF Ready
<1>4. g \in Restricted <=>
        \/ \E e \in events : g \in Scope(e)
        \/ \E h \in Groups : ~Ready(h) /\ g # h /\ g \in Scope(Unavailable(h))
  BY DEF Restricted
<1>5. Endangered(g) <=>
        \/ \E e \in events :
             \/ e.severity = "GlobalStop"
             \/ e.severity = "GroupStop" /\ Exposed(g, {AxisGroup[a] : a \in SourceAxes(e)}, e)
        \/ \E h \in Groups :
             /\ g # h
             /\ \E a \in Axes : AxisGroup[a] = h /\ ~axisReady[a]
             /\ Exposed(g, {h}, [category |-> "unavailable", group |-> h])
  BY DEF Endangered
<1> QED
  BY <1>1, <1>2, <1>3, <1>4, <1>5

(* The same after the step. *)
LEMMA ChainsRestrictNext == (TypeOK /\ EventOwners => RestrictedByChains)'
BY ChainsRestrict, PTL

-----------------------------------------------------------------------------
(* Why sessions end, and how faults do.                                     *)

(* A session propagate() ends was stopped by the call, by a restriction, or    *)
(* together with all others.                                                *)
LEMMA PropagateCause ==
  ASSUME NEW STATE S, NEW STATE inhibit, Propagate(S, inhibit),
         NEW g \in Groups, state[g] # "Fault", state'[g] = "Fault"
  PROVE  globalInhibit' \/ g \in S \/ g \in Restricted'
<1>1. CASE LeaseLapsed
  BY <1>1 DEF Propagate
<1>2. CASE ~LeaseLapsed
  <2>1. Revoke(S \cup Restricted')
    BY <1>2 DEF Propagate
  <2> QED
    BY <2>1 DEF Revoke, RevokedState
<1> QED
  BY <1>1, <1>2

(* A fault ends a session because the domain is inhibited, because an axis of  *)
(* the group is not ready, or because something restricts the group.        *)
Caused(g) ==
  \/ globalInhibit'
  \/ \E a \in Axes : AxisGroup[a] = g /\ ~axisReady'[a]
  \/ g \in Restricted \/ g \in Restricted'

LEMMA DeviceCause ==
  ASSUME TypeOK, Device, NEW g \in Groups, state[g] \in Live, state'[g] = "Fault"
  PROVE  Caused(g)
<1>0. state[g] # "Fault"
  BY DEF Live
<1>1. ASSUME NEW a \in Axes, UnprepareAxis(a)
      PROVE  Caused(g)
  <2>1. globalInhibit' \/ g \in {h \in {AxisGroup[a]} : state[h] \in Live} \/ g \in Restricted'
    BY <1>0, <1>1, PropagateCause DEF UnprepareAxis
  <2>2. ~axisReady'[a]
    BY <1>1 DEF UnprepareAxis, TypeOK
  <2> QED
    BY <2>1, <2>2 DEF Caused
<1>2. ASSUME NEW a \in Axes, NEW r \in BOOLEAN, NEW c \in ReportCategories, ReportAxis(a, r, c)
      PROVE  Caused(g)
  BY <1>0, <1>2, PropagateCause DEF ReportAxis, Caused
<1>3. ASSUME NEW b \in ReportedBackends, NEW r \in BOOLEAN, ReportBackend(b, r)
      PROVE  Caused(g)
  BY <1>0, <1>3, PropagateCause DEF ReportBackend, Caused
<1>4. ASSUME NEW a \in WarnedAxes, NEW on \in BOOLEAN, Warning(a, on)
      PROVE  FALSE
  BY <1>0, <1>4 DEF Warning, groupVars
<1>5. ASSUME NEW c \in Conditions, NEW s \in Sources, NEW left \in 0..MaxValidity,
             Condition(c, s, left)
      PROVE  Caused(g)
  BY <1>0, <1>5, PropagateCause DEF Condition, Caused
<1> QED
  BY <1>1, <1>2, <1>3, <1>4, <1>5 DEF Device

LEMMA OperatorCause ==
  ASSUME TypeOK, Operator, NEW g \in Groups, state[g] \in Live, state'[g] = "Fault"
  PROVE  Caused(g)
<1>0. state[g] # "Fault"
  BY DEF Live
<1>1. ASSUME NEW r \in Reports, RaiseEvent(r)
      PROVE  Caused(g)
  <2> DEFINE global == Completed(r) \notin events /\ Completed(r).severity = "GlobalStop"
  <2>1. Propagate({}, globalInhibit \/ global)
    BY <1>1 DEF RaiseEvent
  <2> QED
    BY <1>0, <2>1, PropagateCause DEF Caused
<1>2. ASSUME NEW e \in events, Acknowledge(e)
      PROVE  Caused(g)
  BY <1>0, <1>2, PropagateCause DEF Acknowledge, Caused
<1>3. ASSUME NEW h \in Groups, Arm(h)
      PROVE  Caused(g)
  <2>1. PICK stopped \in {Restricted} : state' = [RevokedState(stopped) EXCEPT ![h] = "Armed"]
    BY <1>3 DEF Arm
  <2> QED
    BY <1>0, <2>1 DEF RevokedState, Caused
<1>4. ASSUME NEW h \in Groups, Run(h)
      PROVE  Caused(g)
  <2>1. PICK stopped \in {Restricted} : state' = [RevokedState(stopped) EXCEPT ![h] = "Running"]
    BY <1>4 DEF Run
  <2> QED
    BY <1>0, <2>1 DEF RevokedState, Caused
<1>5. ASSUME NEW h \in Groups, Halt(h) \/ Invalidate(h)
      PROVE  FALSE
  BY <1>0, <1>5 DEF Halt, Invalidate, StopSessions, TypeOK
<1>6. ASSUME GlobalStop
      PROVE  Caused(g)
  BY <1>6 DEF GlobalStop, Caused
<1>7. ASSUME ResetGlobalStop
      PROVE  FALSE
  BY <1>0, <1>7 DEF ResetGlobalStop, groupVars
<1> QED
  BY <1>1, <1>2, <1>3, <1>4, <1>5, <1>6, <1>7 DEF Operator

(* What asks for the owner's lease ends sessions only by inhibiting all. *)
LEMMA OwnerCause ==
  ASSUME TypeOK, Owner, NEW g \in Groups, state[g] \in Live, state'[g] = "Fault"
  PROVE  Caused(g)
<1>0. state[g] # "Fault"
  BY DEF Live
<1>1. ASSUME ExpireOwner
      PROVE  Caused(g)
  <2>1. CASE LeaseLapsed
    BY <1>1, <2>1 DEF ExpireOwner, Caused
  <2>2. CASE ~LeaseLapsed
    BY <1>0, <1>1, <2>2 DEF ExpireOwner, Revoke, RevokedState
  <2> QED
    BY <2>1, <2>2
<1>2. ASSUME RequireOwnerLease
      PROVE  FALSE
  BY <1>0, <1>2 DEF RequireOwnerLease, groupVars
<1> QED
  BY <1>1, <1>2 DEF Owner, RenewOwner, GloballyInhibited

LEMMA LegacyCause ==
  ASSUME TypeOK, LiveIsConfigured, Legacy, NEW g \in Groups, state[g] \in Live, state'[g] = "Fault"
  PROVE  Caused(g)
<1>0. state[g] # "Fault" /\ configured
  BY DEF Live, LiveIsConfigured
<1>1. ASSUME NEW c \in Components, NEW r \in BOOLEAN, LegacyReport(c, r)
      PROVE  Caused(g)
  <2>1. g \in ConfiguredGroups
    BY <1>0 DEF ConfiguredGroups
  <2>2. CASE r
    BY <1>0, <1>1, <2>2 DEF LegacyReport, Revoke, RevokedState
  <2>3. CASE ~r
    BY <1>1, <2>1, <2>3 DEF LegacyReport, Caused
  <2> QED
    BY <2>2, <2>3
<1>2. ASSUME LegacyFault
      PROVE  Caused(g)
  BY <1>0, <1>2 DEF LegacyFault, Caused
<1>3. ASSUME LegacyArm \/ LegacyRun
      PROVE  FALSE
  BY <1>0, <1>3 DEF LegacyArm, LegacyRun, groupVars
<1>4. ASSUME LegacyHalt
      PROVE  FALSE
  BY <1>0, <1>4 DEF LegacyHalt, StopSessions
<1> QED
  BY <1>1, <1>2, <1>3, <1>4 DEF Legacy

LEMMA StepCause ==
  ASSUME TypeOK, LiveIsConfigured, [Next]_vars,
         NEW g \in Groups, state[g] \in Live, state'[g] = "Fault"
  PROVE  Caused(g)
<1>0. state[g] # "Fault"
  BY DEF Live
<1>1. ASSUME Configuration
      PROVE  FALSE
  <2>1. ASSUME NEW p \in Policies, Configure(p)
        PROVE  FALSE
    BY <2>1 DEF Configure
  <2>2. ASSUME NEW m \in WriterModes, RegisterWriter(m)
        PROVE  FALSE
    BY <1>0, <2>2 DEF RegisterWriter, groupVars
  <2> QED
    BY <1>1, <2>1, <2>2 DEF Configuration
<1>2. ASSUME Poll
      PROVE  Caused(g)
  BY <1>0, <1>2, PollPropagates, PropagateCause DEF Poll, Caused
<1>3. ASSUME Tick \/ UNCHANGED vars
      PROVE  FALSE
  BY <1>0, <1>3 DEF Tick, vars, groupVars
<1> QED
  BY <1>1, <1>2, <1>3, DeviceCause, OperatorCause, OwnerCause, LegacyCause DEF Next

(* The inductive invariant with what an event says of its owner. *)
LEMMA OwnersInvariant == Spec => []EventOwners
<1>1. Init => EventOwners
  BY DEF Init, EventOwners
<1> QED
  BY <1>1, OwnersNext, PTL DEF Spec

(* A group loses its session to a fault only for a cause that reaches it. *)
THEOREM FaultsHaveCauses == Spec => RevokedForCause
<1> DEFINE P == DomainInv /\ EventOwners
<1>1. P /\ P' /\ [Next]_vars =>
        [\A g \in Groups : state[g] \in Live /\ state'[g] = "Fault" =>
           \/ globalInhibit'
           \/ \E a \in Axes : AxisGroup[a] = g /\ ~axisReady'[a]
           \/ Endangered(g) \/ Endangered(g)']_vars
  <2>1. SUFFICES ASSUME P, P', [Next]_vars,
                        NEW g \in Groups, state[g] \in Live, state'[g] = "Fault"
                 PROVE  \/ globalInhibit'
                        \/ \E a \in Axes : AxisGroup[a] = g /\ ~axisReady'[a]
                        \/ Endangered(g) \/ Endangered(g)'
    OBVIOUS
  <2>2. RestrictedByChains /\ RestrictedByChains'
    BY <2>1, ChainsRestrict, ChainsRestrictNext DEF DomainInv
  <2>3. Caused(g)
    BY <2>1, StepCause DEF DomainInv
  <2> QED
    BY <2>2, <2>3 DEF RestrictedByChains, Caused
<1>2. Spec => []P
  BY Invariance, OwnersInvariant, PTL
<1> QED
  BY <1>1, <1>2, PTL DEF Spec, RevokedForCause

(* Whatever any query, in any state, leaves live may move. *)
THEOREM QueriesCommit == Spec => []QueryCommits
<1> DEFINE P == DomainInv /\ EventOwners /\ LiveIsLeased
<1>1. P => QueryCommits
  <2>1. SUFFICES ASSUME P, NEW g \in Groups, Queried[g] \in Live
                 PROVE  ~globalInhibit /\ ~(ownerRequired /\ leaseLeft = 0) /\ ~Endangered(g)
    BY DEF QueryCommits
  <2>2. state[g] \in Live /\ (configured => g \notin Overdue)
    BY <2>1 DEF Queried, RevokedState, ConfiguredGroups, Live
  <2>3. configured /\ ~globalInhibit /\ g \notin Overdue
    BY <2>1, <2>2 DEF DomainInv, LiveIsConfigured, InhibitHolds
  <2>4. ~LeaseLapsed /\ g \notin Restricted
    BY <2>3 DEF Overdue
  <2>5. ~Endangered(g)
    BY <2>1, <2>4, ChainsRestrict DEF DomainInv, RestrictedByChains
  <2>6. ~(ownerRequired /\ leaseLeft = 0)
    <3>1. SUFFICES ASSUME ownerRequired, leaseLeft = 0
                   PROVE  FALSE
      OBVIOUS
    <3>2. leased /\ ~ownerExpired /\ ~OwnerFresh
      BY <2>1, <2>2, <3>1 DEF DomainInv, LiveIsLeased, InhibitHolds, OwnerFresh
    <3> QED
      BY <2>4, <3>1, <3>2 DEF LeaseLapsed
  <2> QED
    BY <2>3, <2>5, <2>6
<1>2. Spec => []P
  <2>1. Spec => []LiveIsLeased
    BY LeasedInit, LeasedNext, Invariance, PTL DEF Spec
  <2> QED
    BY <2>1, Invariance, OwnersInvariant, PTL
<1> QED
  BY <1>1, <1>2, PTL

(* No call takes a group out of Fault but arm(), where nothing restricts it,   *)
(* and configure().                                                         *)
LEMMA FaultStays ==
  ASSUME TypeOK, [Next]_vars, NEW g \in Groups, state[g] = "Fault", state'[g] # "Fault"
  PROVE  \/ Arm(g)
         \/ \E p \in Policies : Configure(p)
<1>1. \A S, i : ~Propagate(S, i)
  BY DEF Propagate, Revoke, RevokedState
<1>2. \A S : ~Revoke(S)
  BY DEF Revoke, RevokedState
<1>3. \A S : ~StopSessions(S, Live)
  BY DEF StopSessions, Live
<1>4. state' # state
  OBVIOUS
<1>5. ~Device
  BY <1>1, <1>4 DEF Device, UnprepareAxis, ReportAxis, ReportBackend, Warning, Condition, configVars, groupVars
<1>6. ~Owner /\ ~Poll /\ ~Tick /\ ~UNCHANGED vars
  BY <1>1, <1>2, <1>4, PollPropagates DEF Owner, RequireOwnerLease, RenewOwner, GloballyInhibited, ExpireOwner,
     Tick, configVars, groupVars, vars
<1>7. ~Legacy
  BY <1>2, <1>3, <1>4 DEF Legacy, LegacyReport, LegacyFault, LegacyArm, LegacyRun, LegacyHalt, groupVars
<1>8. ASSUME Operator
      PROVE  Arm(g)
  <2>1. ASSUME NEW h \in Groups, Arm(h), h # g
        PROVE  FALSE
    BY <2>1 DEF Arm, RevokedState
  <2>2. ASSUME NEW h \in Groups, Run(h)
        PROVE  FALSE
    BY <2>2 DEF Run, RevokedState
  <2>3. ASSUME NEW h \in Groups, Halt(h) \/ Invalidate(h)
        PROVE  FALSE
    BY <1>3, <2>3 DEF Halt, Invalidate, TypeOK
  <2>4. ASSUME NEW r \in Reports, RaiseEvent(r)
        PROVE  FALSE
    BY <1>1, <2>4 DEF RaiseEvent, configVars
  <2>5. ASSUME NEW e \in events, Acknowledge(e)
        PROVE  FALSE
    BY <1>1, <2>5 DEF Acknowledge, configVars
  <2>6. ~GlobalStop /\ ~ResetGlobalStop
    BY <1>2, <1>4 DEF GlobalStop, ResetGlobalStop, groupVars
  <2> QED
    BY <1>8, <2>1, <2>2, <2>3, <2>4, <2>5, <2>6 DEF Operator
<1>9. ASSUME Configuration
      PROVE  \E p \in Policies : Configure(p)
  BY <1>4, <1>9 DEF Configuration, RegisterWriter, groupVars
<1> QED
  BY <1>5, <1>6, <1>7, <1>8, <1>9 DEF Next

(* A group leaves Fault only by being armed, while nothing endangers it, or    *)
(* with the whole configuration.                                            *)
THEOREM FaultsAreRecovered == Spec => RecoveryIsExplicit
<1> DEFINE P == TypeOK /\ EventOwners
<1>1. P /\ [Next]_vars =>
        [\A g \in Groups : state[g] = "Fault" /\ state'[g] # "Fault" =>
           \/ state'[g] = "Armed" /\ ~globalInhibit /\ ~Endangered(g)
           \/ state'[g] = "Stopped" /\ events = {} /\ \A a \in Axes : ~axisReady'[a]]_vars
  <2>1. SUFFICES ASSUME P, [Next]_vars,
                        NEW g \in Groups, state[g] = "Fault", state'[g] # "Fault"
                 PROVE  \/ state'[g] = "Armed" /\ ~globalInhibit /\ ~Endangered(g)
                        \/ state'[g] = "Stopped" /\ events = {} /\ \A a \in Axes : ~axisReady'[a]
    OBVIOUS
  <2>2. ASSUME Arm(g)
        PROVE  state'[g] = "Armed" /\ ~globalInhibit /\ ~Endangered(g)
    <3>1. RestrictedByChains
      BY <2>1, ChainsRestrict
    <3> QED
      BY <2>2, <3>1 DEF Arm, Unhindered, RevokedState, RestrictedByChains
  <2>3. ASSUME NEW p \in Policies, Configure(p)
        PROVE  state'[g] = "Stopped" /\ events = {} /\ \A a \in Axes : ~axisReady'[a]
    BY <2>3 DEF Configure
  <2> QED
    BY <2>1, <2>2, <2>3, FaultStays
<1>2. Spec => []P
  BY TypeCorrect, OwnersInvariant, PTL
<1> QED
  BY <1>1, <1>2, PTL DEF Spec, RecoveryIsExplicit

=============================================================================
