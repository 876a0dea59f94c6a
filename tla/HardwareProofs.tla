--------------------------- MODULE HardwareProofs ---------------------------
(***************************************************************************)
(* A component in front of the gate moves its axes only by commands of the   *)
(* session they move in, for every domain and any number of joints.          *)
(***************************************************************************)
EXTENDS HardwareSession, SafetyDomainProofs

(* HwTypeOK in parts.  A loop that is interrupted to take its axes out of      *)
(* service goes on where it was.                                             *)
DeviceTypes == active \in BOOLEAN /\ faulty \in [Owned -> {"no", "set", "reported"}]

PreparedTypes == prepared \in [Owned -> BOOLEAN] /\ preparedEpoch \in [Owned -> Nat]

PreparingTypes ==
  preparing \in [OwnedGroups ->
    [step : {"idle", "asked", "ticketed", "checked", "store", "flag"},
     ticket : Nat, joint : 1..Len(Joints)]]

SessionTypes ==
  /\ lost \in [Owned -> BOOLEAN] /\ claimed \in [Owned -> BOOLEAN]
  /\ moving \in [Owned -> BOOLEAN]
  /\ sessionEpoch \in [Owned -> Nat] /\ command \in [Owned -> Nat]

LoopTypes ==
  /\ cm \in CmSteps /\ at \in 1..Len(Joints) /\ seenEpoch \in Nat
  /\ seen \in {"", "unprepared", "offline", "ready"} \cup Switches \cup BetweenSteps
  /\ cm = "unprepare" => seen \in BetweenSteps

(* A session is none of the future; a command was written in the session its   *)
(* joint has or after it, and not in the future.                             *)
CommandsInOrder ==
  \A j \in Owned :
    /\ sessionEpoch[j] <= epoch[AxisGroup[j]]
    /\ command[j] # 0 => sessionEpoch[j] <= command[j] /\ command[j] <= epoch[AxisGroup[j]]

(* Once its session was found open, a joint has no command or one of it.       *)
Admitted == cm = "apply" => command[J] \in {0, sessionEpoch[J]}

HwInv ==
  /\ DeviceTypes /\ PreparedTypes /\ PreparingTypes /\ SessionTypes /\ LoopTypes
  /\ CommandsInOrder

(* What a step of the domain does to its epochs: they never go back.         *)
Advancing == TypeOK /\ TypeOK' /\ \A g \in Groups : epoch[g] <= epoch'[g]

USE DEF deviceVars, preparedVars, sessionVars, cmVars

-----------------------------------------------------------------------------
(* The component's axes are axes of the domain.                              *)
LEMMA Places ==
  /\ Len(Joints) \in Nat \ {0}
  /\ \A i \in 1..Len(Joints) : Joints[i] \in Owned /\ AxisGroup[Joints[i]] \in OwnedGroups
  /\ \A j \in Owned : j \in Axes /\ AxisGroup[j] \in OwnedGroups
  /\ OwnedGroups \subseteq Groups
<1>1. Joints \in Seq(Axes) /\ Len(Joints) \in Nat \ {0}
  BY JointsAssumption DEF JointsAssumption
<1>2. \A i \in 1..Len(Joints) : Joints[i] \in Axes
  BY <1>1
<1>3. \A j \in Axes : AxisGroup[j] \in Groups
  BY DomainAssumption DEF DomainAssumption
<1> QED
  BY <1>1, <1>2, <1>3 DEF Owned, OwnedGroups

(* The joint that the loop has reached.                                      *)
LEMMA Reached ==
  ASSUME HwInv
  PROVE  /\ J \in Owned /\ J \in Axes /\ G \in Groups
         /\ Len(Joints) \in Nat \ {0} /\ 1 \in 1..Len(Joints)
         /\ at # Len(Joints) => at + 1 \in 1..Len(Joints)
<1>1. at \in 1..Len(Joints) /\ Len(Joints) \in Nat \ {0}
  BY Places DEF HwInv, LoopTypes
<1>2. J \in Owned /\ G \in OwnedGroups
  BY <1>1, Places DEF J, G
<1>3. 1 \in 1..Len(Joints) /\ (at # Len(Joints) => at + 1 \in 1..Len(Joints))
  BY <1>1
<1> QED
  BY <1>1, <1>2, <1>3, Places

(* Epochs are numbers, and a joint's group's does not go back.               *)
LEMMA Numbers ==
  ASSUME Advancing
  PROVE  /\ \A g \in Groups : epoch[g] \in Nat /\ epoch'[g] \in Nat /\ epoch[g] <= epoch'[g]
         /\ \A j \in Owned :
              /\ epoch[AxisGroup[j]] \in Nat /\ epoch'[AxisGroup[j]] \in Nat
              /\ epoch[AxisGroup[j]] <= epoch'[AxisGroup[j]]
<1>1. \A g \in Groups : epoch[g] \in Nat /\ epoch'[g] \in Nat /\ epoch[g] <= epoch'[g]
  BY DEF Advancing, TypeOK
<1>2. \A j \in Owned : AxisGroup[j] \in Groups
  BY Places
<1> QED
  BY <1>1, <1>2

(* The loop goes on.                                                         *)
LEMMA NextJointTypes ==
  ASSUME HwInv, NEW step \in CmSteps \ {"unprepare"}, NEW next \in CmSteps \ {"unprepare"},
         NextJoint(step, next)
  PROVE  LoopTypes'
  BY Reached DEF HwInv, LoopTypes, NextJoint

(* A preparation goes on to the next joint.                                  *)
LEMMA AfterJointTypes ==
  ASSUME HwInv, NEW g \in OwnedGroups
  PROVE  AfterJoint(g) \in [OwnedGroups ->
           [step : {"idle", "asked", "ticketed", "checked", "store", "flag"},
            ticket : Nat, joint : 1..Len(Joints)]]
<1>1. preparing[g].joint \in 1..Len(Joints) /\ Len(Joints) \in Nat \ {0}
  BY Places DEF HwInv, PreparingTypes
<1>2. /\ 1 \in 1..Len(Joints)
      /\ preparing[g].joint # Len(Joints) => preparing[g].joint + 1 \in 1..Len(Joints)
  BY <1>1
<1> QED
  BY <1>2 DEF HwInv, PreparingTypes, AfterJoint, Idle

(* A command is written, dropped or left, and no session begins.             *)
LEMMA OrderKept ==
  ASSUME HwInv, Advancing, UNCHANGED sessionEpoch,
         \A j \in Owned : command'[j] \in {0, command[j], epoch[AxisGroup[j]]}
  PROVE  CommandsInOrder'
<1> SUFFICES ASSUME NEW j \in Owned
             PROVE  /\ sessionEpoch[j] <= epoch'[AxisGroup[j]]
                    /\ command'[j] # 0 =>
                         /\ sessionEpoch[j] <= command'[j]
                         /\ command'[j] <= epoch'[AxisGroup[j]]
  BY DEF CommandsInOrder
<1>1. /\ epoch[AxisGroup[j]] \in Nat /\ epoch'[AxisGroup[j]] \in Nat
      /\ epoch[AxisGroup[j]] <= epoch'[AxisGroup[j]]
  BY Numbers
<1>2. /\ sessionEpoch[j] \in Nat /\ command[j] \in Nat
      /\ sessionEpoch[j] <= epoch[AxisGroup[j]]
      /\ command[j] # 0 => sessionEpoch[j] <= command[j] /\ command[j] <= epoch[AxisGroup[j]]
  BY DEF HwInv, SessionTypes, CommandsInOrder
<1> QED
  BY <1>1, <1>2

(* Nothing is prepared, claimed or commanded at first.                      *)
LEMMA HwInitInv == HwInit => HwInv /\ DomainInv
<1> SUFFICES ASSUME HwInit PROVE HwInv /\ DomainInv
  OBVIOUS
<1>1. DeviceTypes /\ PreparedTypes /\ SessionTypes
  BY DEF HwInit, DeviceTypes, PreparedTypes, SessionTypes
<1>2. PreparingTypes /\ LoopTypes
  <2>1. 1 \in 1..Len(Joints)
    BY Places
  <2> QED
    BY <2>1 DEF HwInit, PreparingTypes, LoopTypes, CmSteps, BetweenSteps, Idle
<1>3. CommandsInOrder
  <2>1. \A j \in Owned : sessionEpoch[j] = 0 /\ command[j] = 0 /\ epoch[AxisGroup[j]] = 1
    BY Places DEF HwInit
  <2> QED
    BY <2>1 DEF CommandsInOrder
<1>4. TypeOK
  <2>1. [c \in Conditions |-> [s \in Sources |-> 0]] \in [Conditions -> [Sources -> 0..MaxValidity]]
    BY DomainAssumption DEF DomainAssumption
  <2>2. evidence \in [Conditions -> [Sources -> 0..MaxValidity]]
    BY <2>1 DEF HwInit
  <2>3. /\ associations \in SUBSET Association /\ events \in SUBSET Event
        /\ leaseLeft \in 0..MaxLease
    <3>1. associations \subseteq Association
      BY DomainAssumption DEF DomainAssumption, HwInit
    <3>2. MaxLease \in 0..MaxLease
      BY DomainAssumption DEF DomainAssumption
    <3> QED
      BY <3>1, <3>2 DEF HwInit
  <2>4. /\ axisReady \in [Axes -> BOOLEAN] /\ componentReady \in [Components -> BOOLEAN]
        /\ state \in [Groups -> States] /\ epoch \in [Groups -> Nat]
    BY DEF HwInit, States
  <2>5. /\ configured \in BOOLEAN /\ globalInhibit \in BOOLEAN
        /\ ownerRequired \in BOOLEAN /\ leased \in BOOLEAN /\ ownerExpired \in BOOLEAN
        /\ legacyState \in States /\ legacyEpoch \in Nat
        /\ writers \in {"none", "grouped", "legacy"}
    BY DEF HwInit, States
  <2> QED
    BY <2>2, <2>3, <2>4, <2>5 DEF TypeOK
<1>5. DomainInv
  BY <1>4 DEF HwInit, DomainInv, LiveIsConfigured, ExpiredInhibits, EventShape, InhibitHolds,
              StopHolds, LiveIsReady, LegacyClosed, Live
<1> QED
  BY <1>1, <1>2, <1>3, <1>5 DEF HwInv

(* What the invariant is for.                                                *)
LEMMA HwImplied == HwInv => HwTypeOK
  BY DEF HwInv, HwTypeOK, DeviceTypes, PreparedTypes, PreparingTypes, SessionTypes, LoopTypes

(* Every step of the component leaves the domain alone or is a call of it.   *)
LEMMA HwCalls ==
  ASSUME HwInv, HwNext
  PROVE  Next \/ UNCHANGED vars
<1>1. J \in Axes
  BY Places DEF HwInv, LoopTypes, J
<1>2. ASSUME NEW a \in Axes, NEW r \in BOOLEAN, ReportAxis(a, r, "feedback") PROVE Next
  BY <1>2, JointsAssumption DEF JointsAssumption, Next, Device
<1>3. ASSUME NEW a \in Axes, UnprepareAxis(a) PROVE Next
  BY <1>3 DEF Next, Device
<1>4. ASSUME Poll \/ GloballyInhibited PROVE Next
  BY <1>4 DEF Next, Owner
<1>5. CASE Loop
  <2>1. (seen = "ready") \in BOOLEAN
    OBVIOUS
  <2>2. CASE ReportJoint
    BY <1>1, <1>2, <1>3, <2>1, <2>2 DEF ReportJoint
  <2>3. CASE CheckJoint \/ ClaimJoint \/ WriteJoint
    <3>1. Poll \/ UNCHANGED vars
      BY <2>3 DEF CheckJoint, ClaimJoint, WriteJoint
    <3> QED
      BY <1>4, <3>1
  <2>4. CASE AskGroup \/ JudgePreparation
    <3>1. Poll \/ GloballyInhibited \/ UNCHANGED vars
      BY <2>4 DEF AskGroup, JudgePreparation
    <3> QED
      BY <1>4, <3>1
  <2>5. CASE Sample \/ ApplyCommand \/ ComparePreparation \/ DropPreparation
    BY <2>5 DEF Sample, ApplyCommand, ComparePreparation, DropPreparation
  <2>6. ASSUME NEW writes \in BOOLEAN, NEW switch \in Switches \cup {""},
               UpdateControllers(writes, switch)
        PROVE  UNCHANGED vars
    BY <2>6 DEF UpdateControllers
  <2> QED
    BY <1>5, <2>2, <2>3, <2>4, <2>5, <2>6 DEF Loop
<1>6. CASE Activate \/ Deactivate
  BY <1>6 DEF Activate, Deactivate
<1>7. CASE UnprepareJoint
  BY <1>1, <1>3, <1>7 DEF UnprepareJoint
<1>8. ASSUME NEW g \in OwnedGroups, Preparation(g) PROVE Next \/ UNCHANGED vars
  <2>1. CASE BeginPrepare(g) \/ TakeTicket(g)
    BY <1>4, <2>1 DEF BeginPrepare, TakeTicket
  <2>2. CASE Recheck(g) \/ RecheckInhibition(g)
    <3>1. Poll \/ GloballyInhibited \/ UNCHANGED vars
      BY <2>2 DEF Recheck, RecheckInhibition
    <3> QED
      BY <1>4, <3>1
  <2>3. CASE StoreTicket(g) \/ MarkPrepared(g)
    BY <2>3 DEF StoreTicket, MarkPrepared
  <2> QED
    BY <1>8, <2>1, <2>2, <2>3 DEF Preparation
<1>9. CASE AxisFaults
  <2>1. PICK j \in Owned : AxisFails(j) \/ FailureReported(j) \/ AxisRecovers(j)
    BY <1>9 DEF AxisFaults
  <2>2. j \in Axes
    BY Places
  <2> QED
    BY <1>2, <2>1, <2>2 DEF AxisFails, FailureReported, AxisRecovers
<1>10. CASE Guard
  BY <1>10 DEF Guard, Next, Operator
<1> QED
  BY <1>5, <1>6, <1>7, <1>8, <1>9, <1>10 DEF HwNext

(* So the domain keeps its invariant, and no group's epoch goes back.        *)
LEMMA DomainGoesOn ==
  ASSUME DomainInv, Next \/ UNCHANGED vars
  PROVE  DomainInv' /\ Advancing
<1>1. DomainInv' /\ TypeOK /\ TypeOK'
  BY InvNext DEF DomainInv
<1>2. \A g \in Groups : SessionStep(g)
  BY <1>1, StepsOfSessions
<1>3. \A g \in Groups : epoch[g] \in Nat /\ epoch'[g] \in Nat
  BY <1>1 DEF TypeOK
<1> QED
  BY <1>1, <1>2, <1>3 DEF Advancing, SessionStep

-----------------------------------------------------------------------------

(* One lemma an action: the loop reads its joints and reports them, ...     *)
LEMMA HwSample ==
  ASSUME HwInv, Advancing, Sample
  PROVE  HwInv'
<1>1. LoopTypes'
  BY Places, JointsAssumption
  DEF JointsAssumption, HwInv, LoopTypes, CmSteps, BetweenSteps, Advancing, TypeOK, J, G, Sample
<1>2. CommandsInOrder'
  BY OrderKept DEF Sample
<1>3. (DeviceTypes /\ PreparedTypes /\ PreparingTypes /\ SessionTypes)'
  BY DEF HwInv, DeviceTypes, PreparedTypes, PreparingTypes, SessionTypes, Sample
<1> QED
  BY <1>1, <1>2, <1>3 DEF HwInv

(* ... one after another.                                                   *)
LEMMA HwReportJoint ==
  ASSUME HwInv, Advancing, ReportJoint
  PROVE  HwInv'
<1>1. LoopTypes'
  BY NextJointTypes DEF CmSteps, ReportJoint
<1>2. CommandsInOrder'
  BY OrderKept DEF ReportJoint
<1>3. (DeviceTypes /\ PreparedTypes /\ PreparingTypes /\ SessionTypes)'
  BY DEF HwInv, DeviceTypes, PreparedTypes, PreparingTypes, SessionTypes, NextJoint, ReportJoint
<1> QED
  BY <1>1, <1>2, <1>3 DEF HwInv

(* A switch of controllers: its first loop ...                              *)
LEMMA HwCheckJoint ==
  ASSUME HwInv, Advancing, CheckJoint
  PROVE  HwInv'
<1>1. LoopTypes'
  BY Reached DEF HwInv, LoopTypes, CmSteps, BetweenSteps, CheckJoint
<1>2. CommandsInOrder'
  BY OrderKept DEF CheckJoint
<1>3. (DeviceTypes /\ PreparedTypes /\ PreparingTypes /\ SessionTypes)'
  BY DEF HwInv, DeviceTypes, PreparedTypes, PreparingTypes, SessionTypes, CheckJoint
<1> QED
  BY <1>1, <1>2, <1>3 DEF HwInv

(* ... and its second, in which a session begins and older commands go.     *)
LEMMA HwClaimJoint ==
  ASSUME HwInv, Advancing, ClaimJoint
  PROVE  HwInv'
<1>1. SessionTypes'
  <2>1. J \in Owned /\ epoch'[G] \in Nat
    BY Reached, Numbers
  <2>2. lost' \in [Owned -> BOOLEAN] /\ claimed' \in [Owned -> BOOLEAN]
    <3>1. CASE seen \in {"start", "restart"}
      <4>1. lost' = [lost EXCEPT ![J] = FALSE] /\ claimed' = [claimed EXCEPT ![J] = TRUE]
        BY <3>1 DEF ClaimJoint
      <4> QED
        BY <2>1, <4>1 DEF HwInv, SessionTypes
    <3>2. CASE seen \notin {"start", "restart"}
      <4>1. lost' = [lost EXCEPT ![J] = TRUE] /\ claimed' = [claimed EXCEPT ![J] = FALSE]
        <5>1. /\ lost' = [lost EXCEPT ![J] = ~(seen \in {"start", "restart"})]
              /\ claimed' = [claimed EXCEPT ![J] = (seen \in {"start", "restart"})]
          BY DEF ClaimJoint
        <5>2. (seen \in {"start", "restart"}) = FALSE
          BY <3>2
        <5> QED
          BY <5>1, <5>2
      <4> QED
        BY <2>1, <4>1 DEF HwInv, SessionTypes
    <3> QED
      BY <3>1, <3>2
  <2>3. command' \in [Owned -> Nat] /\ sessionEpoch' \in [Owned -> Nat]
    BY <2>1 DEF HwInv, SessionTypes, ClaimJoint
  <2>4. moving' \in [Owned -> BOOLEAN]
    BY <2>1 DEF HwInv, SessionTypes, ClaimJoint
  <2> QED
    BY <2>2, <2>3, <2>4 DEF SessionTypes
<1>2. LoopTypes'
  BY Reached DEF HwInv, LoopTypes, CmSteps, BetweenSteps, ClaimJoint
<1>3. CommandsInOrder'
  <2>1. /\ \A j \in Owned : j # J =>
             sessionEpoch'[j] = sessionEpoch[j] /\ command'[j] = command[j]
        /\ command'[J] = 0 /\ sessionEpoch'[J] \in {sessionEpoch[J], epoch'[G]}
    BY Reached DEF HwInv, SessionTypes, ClaimJoint
  <2> SUFFICES ASSUME NEW j \in Owned
               PROVE  /\ sessionEpoch'[j] <= epoch'[AxisGroup[j]]
                      /\ command'[j] # 0 =>
                           /\ sessionEpoch'[j] <= command'[j]
                           /\ command'[j] <= epoch'[AxisGroup[j]]
    BY DEF CommandsInOrder
  <2>2. /\ epoch[AxisGroup[j]] \in Nat /\ epoch'[AxisGroup[j]] \in Nat
        /\ epoch[AxisGroup[j]] <= epoch'[AxisGroup[j]]
    BY Numbers
  <2>3. /\ sessionEpoch[j] \in Nat /\ command[j] \in Nat
        /\ sessionEpoch[j] <= epoch[AxisGroup[j]]
        /\ command[j] # 0 => sessionEpoch[j] <= command[j] /\ command[j] <= epoch[AxisGroup[j]]
    BY DEF HwInv, SessionTypes, CommandsInOrder
  <2> QED
    BY <2>1, <2>2, <2>3 DEF G
<1>4. (DeviceTypes /\ PreparedTypes /\ PreparingTypes)'
  BY DEF HwInv, DeviceTypes, PreparedTypes, PreparingTypes, ClaimJoint
<1> QED
  BY <1>1, <1>2, <1>3, <1>4 DEF HwInv

(* write(): a joint without permission is stopped; ...                      *)
LEMMA HwWriteJoint ==
  ASSUME HwInv, Advancing, WriteJoint
  PROVE  HwInv'
<1>1. SessionTypes'
  <2>1. J \in Owned
    BY Reached
  <2>2. CASE Granted(J)
    BY <2>1, <2>2 DEF HwInv, SessionTypes, WriteJoint
  <2>3. CASE ~Granted(J)
    <3>1. moving' = [moving EXCEPT ![J] = FALSE] /\ command' = [command EXCEPT ![J] = 0]
      BY <2>3 DEF WriteJoint
    <3>2. UNCHANGED <<sessionEpoch, lost, claimed>>
      BY <2>3 DEF WriteJoint
    <3> QED
      BY <2>1, <3>1, <3>2 DEF HwInv, SessionTypes
  <2> QED
    BY <2>2, <2>3
<1>2. LoopTypes'
  BY Reached DEF HwInv, LoopTypes, CmSteps, WriteJoint
<1>3. CommandsInOrder'
  BY OrderKept DEF HwInv, SessionTypes, WriteJoint
<1>4. (DeviceTypes /\ PreparedTypes /\ PreparingTypes)'
  BY DEF HwInv, DeviceTypes, PreparedTypes, PreparingTypes, WriteJoint
<1> QED
  BY <1>1, <1>2, <1>3, <1>4 DEF HwInv

(* ... with permission its command is applied.                              *)
LEMMA HwApplyCommand ==
  ASSUME HwInv, Advancing, ApplyCommand
  PROVE  HwInv'
<1>1. SessionTypes'
  <2>1. J \in Owned /\ (command[J] # 0) \in BOOLEAN
    BY Reached
  <2>2. lost' = [lost EXCEPT ![J] = FALSE] /\ UNCHANGED <<sessionEpoch, claimed, command>>
    BY DEF ApplyCommand
  <2>3. moving' \in [Owned -> BOOLEAN]
    <3>1. moving' = moving \/ moving' = [moving EXCEPT ![J] = (command[J] # 0)]
      BY DEF ApplyCommand
    <3>2. moving \in [Owned -> BOOLEAN]
      BY DEF HwInv, SessionTypes
    <3> QED
      BY <2>1, <3>1, <3>2
  <2>4. lost' \in [Owned -> BOOLEAN]
    BY <2>1, <2>2 DEF HwInv, SessionTypes
  <2> QED
    BY <2>2, <2>3, <2>4 DEF HwInv, SessionTypes
<1>2. LoopTypes'
  BY NextJointTypes DEF CmSteps, ApplyCommand
<1>3. CommandsInOrder'
  BY OrderKept DEF ApplyCommand
<1>4. (DeviceTypes /\ PreparedTypes /\ PreparingTypes)'
  BY DEF HwInv, DeviceTypes, PreparedTypes, PreparingTypes, NextJoint, ApplyCommand
<1> QED
  BY <1>1, <1>2, <1>3, <1>4 DEF HwInv

(* The group is asked for again after a denied write.                       *)
LEMMA HwAskGroup ==
  ASSUME HwInv, Advancing, AskGroup
  PROVE  HwInv'
<1>1. LoopTypes'
  BY NextJointTypes, Reached, Numbers DEF HwInv, LoopTypes, CmSteps, AskGroup
<1>2. CommandsInOrder'
  BY OrderKept DEF AskGroup
<1>3. (DeviceTypes /\ PreparedTypes /\ PreparingTypes /\ SessionTypes)'
  BY DEF HwInv, DeviceTypes, PreparedTypes, PreparingTypes, SessionTypes, NextJoint, AskGroup
<1> QED
  BY <1>1, <1>2, <1>3 DEF HwInv

(* A preparation is looked at, ...                                          *)
LEMMA HwJudgePreparation ==
  ASSUME HwInv, Advancing, JudgePreparation
  PROVE  HwInv'
<1>1. LoopTypes'
  BY NextJointTypes, Reached, Numbers DEF HwInv, LoopTypes, CmSteps, JudgePreparation
<1>2. CommandsInOrder'
  BY OrderKept DEF JudgePreparation
<1>3. (DeviceTypes /\ PreparedTypes /\ PreparingTypes /\ SessionTypes)'
  BY DEF HwInv, DeviceTypes, PreparedTypes, PreparingTypes, SessionTypes, NextJoint,
         JudgePreparation
<1> QED
  BY <1>1, <1>2, <1>3 DEF HwInv

(* ... compared with the epoch, ...                                         *)
LEMMA HwComparePreparation ==
  ASSUME HwInv, Advancing, ComparePreparation
  PROVE  HwInv'
<1>1. LoopTypes'
  BY NextJointTypes, Reached, Numbers DEF HwInv, LoopTypes, CmSteps, ComparePreparation
<1>2. CommandsInOrder'
  BY OrderKept DEF ComparePreparation
<1>3. (DeviceTypes /\ PreparedTypes /\ PreparingTypes /\ SessionTypes)'
  BY DEF HwInv, DeviceTypes, PreparedTypes, PreparingTypes, SessionTypes, NextJoint,
         ComparePreparation
<1> QED
  BY <1>1, <1>2, <1>3 DEF HwInv

(* ... and withdrawn together with what was commanded.                      *)
LEMMA HwDropPreparation ==
  ASSUME HwInv, Advancing, DropPreparation
  PROVE  HwInv'
<1>1. PreparedTypes'
  BY Places DEF HwInv, PreparedTypes, PreparingTypes, LoopTypes, NextJoint, DropPreparation
<1>2. SessionTypes'
  BY Places
  DEF HwInv, LoopTypes, SessionTypes, Advancing, TypeOK, J, G, NextJoint, DropPreparation
<1>3. LoopTypes'
  BY NextJointTypes DEF CmSteps, DropPreparation
<1>4. CommandsInOrder'
  BY OrderKept DEF DropPreparation
<1>5. (DeviceTypes /\ PreparingTypes)'
  BY DEF HwInv, DeviceTypes, PreparingTypes, NextJoint, DropPreparation
<1> QED
  BY <1>1, <1>2, <1>3, <1>4, <1>5 DEF HwInv

(* on_activate() begins without commands.                                   *)
LEMMA HwActivate ==
  ASSUME HwInv, Advancing, Activate
  PROVE  HwInv'
<1>1. DeviceTypes'
  BY DEF HwInv, DeviceTypes, Between, Activate
<1>2. SessionTypes'
  BY Places DEF HwInv, LoopTypes, SessionTypes, Advancing, TypeOK, J, G, Between, Activate
<1>3. CommandsInOrder'
  BY OrderKept DEF Activate
<1>4. (PreparedTypes /\ PreparingTypes /\ LoopTypes)'
  BY DEF HwInv, PreparedTypes, PreparingTypes, LoopTypes, Between, Activate
<1> QED
  BY <1>1, <1>2, <1>3, <1>4 DEF HwInv

(* on_deactivate(): the flag, ...                                           *)
LEMMA HwDeactivate ==
  ASSUME HwInv, Advancing, Deactivate
  PROVE  HwInv'
<1>1. DeviceTypes'
  BY DEF HwInv, DeviceTypes, Between, Deactivate
<1>2. LoopTypes'
  BY Places, JointsAssumption
  DEF JointsAssumption, HwInv, LoopTypes, CmSteps, BetweenSteps, Advancing, TypeOK, J, G,
      Between, Deactivate
<1>3. CommandsInOrder'
  BY OrderKept DEF Deactivate
<1>4. (PreparedTypes /\ PreparingTypes /\ SessionTypes)'
  BY DEF HwInv, PreparedTypes, PreparingTypes, SessionTypes, Between, Deactivate
<1> QED
  BY <1>1, <1>2, <1>3, <1>4 DEF HwInv

(* ... then one joint after another.                                        *)
LEMMA HwUnprepareJoint ==
  ASSUME HwInv, Advancing, UnprepareJoint
  PROVE  HwInv'
<1>1. PreparedTypes'
  BY Places DEF HwInv, PreparedTypes, PreparingTypes, LoopTypes, UnprepareJoint
<1>2. SessionTypes'
  BY Places DEF HwInv, LoopTypes, SessionTypes, Advancing, TypeOK, J, G, UnprepareJoint
<1>3. LoopTypes'
  BY Reached DEF HwInv, LoopTypes, CmSteps, BetweenSteps, UnprepareJoint
<1>4. CommandsInOrder'
  BY OrderKept DEF HwInv, SessionTypes, UnprepareJoint
<1>5. (DeviceTypes /\ PreparingTypes)'
  BY DEF HwInv, DeviceTypes, PreparingTypes, UnprepareJoint
<1> QED
  BY <1>1, <1>2, <1>3, <1>4, <1>5 DEF HwInv

(* Controllers write commands in the present epoch, or a switch begins.     *)
LEMMA HwUpdateControllers ==
  ASSUME HwInv, Advancing, NEW writes \in BOOLEAN, NEW switch \in Switches \cup {""},
         UpdateControllers(writes, switch)
  PROVE  HwInv'
<1>1. SessionTypes'
  BY Places DEF HwInv, LoopTypes, SessionTypes, Advancing, TypeOK, J, G, UpdateControllers
<1>2. LoopTypes'
  BY Places, JointsAssumption
  DEF JointsAssumption, HwInv, LoopTypes, CmSteps, BetweenSteps, Advancing, TypeOK, J, G,
      UpdateControllers
<1>3. CommandsInOrder'
  BY OrderKept DEF HwInv, SessionTypes, UpdateControllers
<1>4. (DeviceTypes /\ PreparedTypes /\ PreparingTypes)'
  BY DEF HwInv, DeviceTypes, PreparedTypes, PreparingTypes, UpdateControllers
<1> QED
  BY <1>1, <1>2, <1>3, <1>4 DEF HwInv

(* The prepare service: it begins, ...                                      *)
LEMMA HwBeginPrepare ==
  ASSUME HwInv, Advancing, NEW g \in OwnedGroups, BeginPrepare(g)
  PROVE  HwInv'
<1>1. PreparingTypes'
  BY Places, JointsAssumption
  DEF JointsAssumption, HwInv, PreparingTypes, Advancing, TypeOK, PrepareMoves, BeginPrepare
<1>2. CommandsInOrder'
  BY OrderKept DEF BeginPrepare
<1>3. (DeviceTypes /\ PreparedTypes /\ SessionTypes /\ LoopTypes)'
  BY DEF HwInv, DeviceTypes, PreparedTypes, SessionTypes, LoopTypes, PrepareMoves, BeginPrepare
<1> QED
  BY <1>1, <1>2, <1>3 DEF HwInv

(* ... takes the epoch, ...                                                 *)
LEMMA HwTakeTicket ==
  ASSUME HwInv, Advancing, NEW g \in OwnedGroups, TakeTicket(g)
  PROVE  HwInv'
<1>1. PreparingTypes'
  BY Places, Numbers DEF HwInv, PreparingTypes, TakeTicket
<1>2. CommandsInOrder'
  BY OrderKept DEF TakeTicket
<1>3. (DeviceTypes /\ PreparedTypes /\ SessionTypes /\ LoopTypes)'
  BY DEF HwInv, DeviceTypes, PreparedTypes, SessionTypes, LoopTypes, TakeTicket
<1> QED
  BY <1>1, <1>2, <1>3 DEF HwInv

(* ... checks it again, ...                                                 *)
LEMMA HwRecheck ==
  ASSUME HwInv, Advancing, NEW g \in OwnedGroups, Recheck(g)
  PROVE  HwInv'
<1>1. PreparingTypes'
  BY Places, Numbers DEF HwInv, PreparingTypes, PrepareMoves, Recheck
<1>2. CommandsInOrder'
  BY OrderKept DEF Recheck
<1>3. (DeviceTypes /\ PreparedTypes /\ SessionTypes /\ LoopTypes)'
  BY DEF HwInv, DeviceTypes, PreparedTypes, SessionTypes, LoopTypes, PrepareMoves, Recheck
<1> QED
  BY <1>1, <1>2, <1>3 DEF HwInv

(* ... is refused where all is inhibited, ...                               *)
LEMMA HwRecheckInhibition ==
  ASSUME HwInv, Advancing, NEW g \in OwnedGroups, RecheckInhibition(g)
  PROVE  HwInv'
<1>1. PreparingTypes'
  BY Places, Numbers DEF HwInv, PreparingTypes, PrepareMoves, RecheckInhibition
<1>2. CommandsInOrder'
  BY OrderKept DEF RecheckInhibition
<1>3. (DeviceTypes /\ PreparedTypes /\ SessionTypes /\ LoopTypes)'
  BY DEF HwInv, DeviceTypes, PreparedTypes, SessionTypes, LoopTypes, PrepareMoves,
         RecheckInhibition
<1> QED
  BY <1>1, <1>2, <1>3 DEF HwInv

(* ... and stores it, one joint after another, ...                          *)
LEMMA HwStoreTicket ==
  ASSUME HwInv, Advancing, NEW g \in OwnedGroups, StoreTicket(g)
  PROVE  HwInv'
<1>1. PreparedTypes'
  BY Places
  DEF HwInv, PreparedTypes, PreparingTypes, LoopTypes, PrepareMoves, AfterJoint, Idle,
      StoreTicket
<1>2. PreparingTypes'
  <2>1. Idle \in [step : {"idle", "asked", "ticketed", "checked", "store", "flag"},
                  ticket : Nat, joint : 1..Len(Joints)]
    BY Places DEF Idle
  <2>2. CASE preparing' = AfterJoint(g)
    BY <2>2, AfterJointTypes DEF PreparingTypes
  <2>3. CASE preparing' = [preparing EXCEPT ![g] = Idle]
    BY <2>1, <2>3 DEF HwInv, PreparingTypes
  <2>4. CASE PrepareMoves(g, "flag")
    BY <2>4 DEF HwInv, PreparingTypes, PrepareMoves
  <2> QED
    BY <2>2, <2>3, <2>4 DEF StoreTicket
<1>3. CommandsInOrder'
  BY OrderKept DEF StoreTicket
<1>4. (DeviceTypes /\ SessionTypes /\ LoopTypes)'
  BY DEF HwInv, DeviceTypes, SessionTypes, LoopTypes, PrepareMoves, AfterJoint, Idle,
         StoreTicket
<1> QED
  BY <1>1, <1>2, <1>3, <1>4 DEF HwInv

(* ... before it marks the joint.                                           *)
LEMMA HwMarkPrepared ==
  ASSUME HwInv, Advancing, NEW g \in OwnedGroups, MarkPrepared(g)
  PROVE  HwInv'
<1>1. PreparedTypes'
  BY Places DEF HwInv, PreparedTypes, PreparingTypes, LoopTypes, AfterJoint, Idle, MarkPrepared
<1>2. PreparingTypes'
  BY AfterJointTypes DEF HwInv, PreparingTypes, MarkPrepared
<1>3. CommandsInOrder'
  BY OrderKept DEF MarkPrepared
<1>4. (DeviceTypes /\ SessionTypes /\ LoopTypes)'
  BY DEF HwInv, DeviceTypes, SessionTypes, LoopTypes, AfterJoint, Idle, MarkPrepared
<1> QED
  BY <1>1, <1>2, <1>3, <1>4 DEF HwInv

(* The fault service of an axis.                                            *)
LEMMA HwAxisFaults ==
  ASSUME HwInv, Advancing, AxisFaults
  PROVE  HwInv'
<1>1. DeviceTypes'
  BY DEF HwInv, DeviceTypes, AxisFails, FailureReported, AxisRecovers, AxisFaults
<1>2. CommandsInOrder'
  BY OrderKept DEF AxisFaults, AxisFails, FailureReported, AxisRecovers
<1>3. (PreparedTypes /\ PreparingTypes /\ SessionTypes /\ LoopTypes)'
  BY DEF HwInv, PreparedTypes, PreparingTypes, SessionTypes, LoopTypes, AxisFails,
         FailureReported, AxisRecovers, AxisFaults
<1> QED
  BY <1>1, <1>2, <1>3 DEF HwInv

(* The guard's services.                                                    *)
LEMMA HwGuard ==
  ASSUME HwInv, Advancing, Guard
  PROVE  HwInv'
<1>1. CommandsInOrder'
  BY OrderKept DEF Guard, hwVars
<1>2. (DeviceTypes /\ PreparedTypes /\ PreparingTypes /\ SessionTypes /\ LoopTypes)'
  BY DEF HwInv, DeviceTypes, PreparedTypes, PreparingTypes, SessionTypes, LoopTypes, Guard,
         hwVars
<1> QED
  BY <1>1, <1>2 DEF HwInv

(* Every step keeps the invariant, and that of the domain with it.          *)
LEMMA HwStep ==
  ASSUME HwInv, DomainInv, [HwNext]_allVars
  PROVE  HwInv' /\ DomainInv' /\ Advancing
<1>1. Next \/ UNCHANGED vars
  BY HwCalls DEF allVars
<1>2. DomainInv' /\ Advancing
  BY <1>1, DomainGoesOn
<1>3. CASE Loop
  <2>1. ASSUME NEW writes \in BOOLEAN, NEW switch \in Switches \cup {""},
               UpdateControllers(writes, switch)
        PROVE  HwInv'
    BY <1>2, <2>1, HwUpdateControllers
  <2>2. CASE Sample \/ ReportJoint \/ CheckJoint \/ ClaimJoint
    BY <1>2, <2>2, HwSample, HwReportJoint, HwCheckJoint, HwClaimJoint
  <2>3. CASE WriteJoint \/ ApplyCommand \/ AskGroup \/ JudgePreparation \/ ComparePreparation
             \/ DropPreparation
    BY <1>2, <2>3, HwWriteJoint, HwApplyCommand, HwAskGroup, HwJudgePreparation,
       HwComparePreparation, HwDropPreparation
  <2>4. CASE \E writes \in BOOLEAN, switch \in Switches \cup {""} :
               UpdateControllers(writes, switch)
    BY <1>2, <2>1, <2>4
  <2> QED
    BY <1>3, <2>2, <2>3, <2>4 DEF Loop
<1>4. CASE Activate \/ Deactivate \/ UnprepareJoint
  BY <1>2, <1>4, HwActivate, HwDeactivate, HwUnprepareJoint
<1>5. ASSUME NEW g \in OwnedGroups, Preparation(g) PROVE HwInv'
  BY <1>2, <1>5, HwBeginPrepare, HwTakeTicket, HwRecheck, HwRecheckInhibition,
     HwStoreTicket, HwMarkPrepared DEF Preparation
<1>6. CASE AxisFaults \/ Guard
  BY <1>2, <1>6, HwAxisFaults, HwGuard
<1>7. CASE UNCHANGED allVars
  <2>1. UNCHANGED hwVars /\ UNCHANGED epoch
    BY <1>7 DEF allVars, vars
  <2>2. (DeviceTypes /\ PreparedTypes /\ PreparingTypes)'
    BY <2>1 DEF hwVars, HwInv, DeviceTypes, PreparedTypes, PreparingTypes
  <2>3. (SessionTypes /\ LoopTypes /\ CommandsInOrder)'
    BY <2>1 DEF hwVars, HwInv, SessionTypes, LoopTypes, CommandsInOrder
  <2> QED
    BY <1>2, <2>2, <2>3 DEF HwInv
<1> QED
  BY <1>2, <1>3, <1>4, <1>5, <1>6, <1>7 DEF HwNext

-----------------------------------------------------------------------------
(* The component and the domain keep their invariants together.              *)
THEOREM HwInvariance == HwSpec => [](HwInv /\ DomainInv)
<1>1. HwInv /\ DomainInv /\ [HwNext]_allVars => (HwInv /\ DomainInv)'
  BY HwStep
<1> QED
  BY <1>1, HwInitInv, PTL DEF HwSpec

(* The component keeps its types.                                            *)
THEOREM HwTypeCorrect == HwSpec => []HwTypeOK
BY HwInvariance, HwImplied, PTL

(* Whatever the component does, on whichever of its threads, the domain only    *)
(* takes steps of its own; so what is proved of the domain's sessions holds    *)
(* behind the component as well: no session while it is inhibited, none over   *)
(* an outstanding stop or without feedback (mock_system.cpp:210-330).          *)
THEOREM DomainBehindComponent ==
  HwSpec => [][Next]_vars /\ [](InhibitHolds /\ StopHolds /\ LiveIsReady)
<1>1. HwInv /\ [HwNext]_allVars => [Next]_vars
  BY HwCalls DEF allVars
<1>2. DomainInv => InhibitHolds /\ StopHolds /\ LiveIsReady
  BY DEF DomainInv
<1> QED
  BY <1>1, <1>2, HwInvariance, PTL DEF HwSpec

(* permits() finds the session of the joint open, and whatever command the      *)
(* joint has by then was written in it: it is not older than the session,      *)
(* because the claim has dropped older ones, and not younger than the epoch.  *)
LEMMA AskedInSession ==
  ASSUME HwInv, Advancing, WriteJoint, cm' = "apply"
  PROVE  InSession(J)' /\ command'[J] \in {0, sessionEpoch[J]} /\ J' = J
<1>1. Granted(J) /\ UNCHANGED <<at, command, sessionEpoch>>
  BY DEF WriteJoint
<1>2. J \in Owned /\ J' = J
  BY <1>1, Reached DEF J
<1>3. state'[AxisGroup[J]] = "Running" /\ epoch'[AxisGroup[J]] = sessionEpoch[J]
  BY <1>1 DEF Granted, Permits
<1>4. /\ sessionEpoch[J] \in Nat /\ command[J] \in Nat
      /\ command[J] # 0 => sessionEpoch[J] <= command[J] /\ command[J] <= epoch[AxisGroup[J]]
  BY <1>2 DEF HwInv, SessionTypes, CommandsInOrder
<1>5. /\ epoch[AxisGroup[J]] \in Nat /\ epoch'[AxisGroup[J]] \in Nat
      /\ epoch[AxisGroup[J]] <= epoch'[AxisGroup[J]]
  BY <1>2, Numbers
<1>6. command[J] \in {0, sessionEpoch[J]}
  BY <1>3, <1>4, <1>5
<1> QED
  BY <1>1, <1>2, <1>3, <1>6 DEF InSession

(* Between permits() and the command nobody touches the loop's joint.        *)
LEMMA AdmittedStep ==
  ASSUME HwInv, Advancing, Admitted, [HwNext]_allVars
  PROVE  Admitted'
<1> SUFFICES ASSUME cm' = "apply"
             PROVE  (command[J] \in {0, sessionEpoch[J]})'
  BY DEF Admitted
<1>1. CASE WriteJoint
  <2>1. sessionEpoch'[J] = sessionEpoch[J]
    BY <1>1 DEF WriteJoint
  <2> QED
    BY <1>1, <2>1, AskedInSession
<1>2. ASSUME Loop PROVE WriteJoint
  BY <1>2 DEF Loop, Sample, ReportJoint, UpdateControllers, CheckJoint, ClaimJoint, ApplyCommand,
              AskGroup, JudgePreparation, ComparePreparation, DropPreparation, NextJoint
<1>3. ~Activate /\ ~Deactivate /\ ~UnprepareJoint
  BY DEF Activate, Deactivate, UnprepareJoint, Between, BetweenSteps, HwInv, LoopTypes
<1>4. ASSUME UNCHANGED <<cm, at, command, sessionEpoch>> PROVE Admitted'
  BY <1>4 DEF Admitted, J
<1>5. ASSUME NEW g \in OwnedGroups, Preparation(g) PROVE Admitted'
  BY <1>4, <1>5 DEF Preparation, BeginPrepare, TakeTicket, Recheck, RecheckInhibition, StoreTicket,
                    MarkPrepared
<1>6. ASSUME AxisFaults \/ Guard PROVE Admitted'
  BY <1>4, <1>6 DEF AxisFaults, AxisFails, FailureReported, AxisRecovers, Guard, hwVars
<1>7. ASSUME UNCHANGED allVars PROVE Admitted'
  BY <1>4, <1>7 DEF allVars, hwVars
<1> QED
  BY <1>1, <1>2, <1>3, <1>5, <1>6, <1>7 DEF HwNext, Admitted

(* An axis is set in motion by the application of a command of its session.   *)
LEMMA MovesOnlyInSession ==
  ASSUME HwInv, Admitted, HwNext, NEW j \in Owned, moving'[j], ~moving[j]
  PROVE  cm = "apply" /\ command[j] = sessionEpoch[j]
<1>0. J \in Owned /\ moving \in [Owned -> BOOLEAN]
  BY Reached DEF HwInv, SessionTypes
<1>1. CASE ApplyCommand
  <2>1. claimed[J]
    BY <1>1 DEF ApplyCommand
  <2>2. cm = "apply" /\ moving' = [moving EXCEPT ![J] = command[J] # 0]
    BY <1>1, <2>1 DEF ApplyCommand
  <2>3. j = J /\ command[j] # 0
    BY <1>0, <2>2
  <2> QED
    BY <2>2, <2>3 DEF Admitted
<1>2. CASE WriteJoint
  <2>1. moving' = moving \/ moving' = [moving EXCEPT ![J] = FALSE]
    BY <1>2 DEF WriteJoint
  <2> QED
    BY <1>0, <2>1
<1>3. CASE ClaimJoint
  <2>1. moving' = [moving EXCEPT ![J] = @ /\ seen = "start"]
    BY <1>3 DEF ClaimJoint
  <2> QED
    BY <1>0, <2>1
<1>4. ASSUME ~ApplyCommand, ~WriteJoint, ~ClaimJoint PROVE UNCHANGED moving
  <2>1. CASE Loop
    BY <1>4, <2>1 DEF Loop, Sample, ReportJoint, UpdateControllers, CheckJoint, AskGroup,
                      JudgePreparation, ComparePreparation, DropPreparation
  <2>2. CASE Activate \/ Deactivate \/ UnprepareJoint
    BY <2>2 DEF Activate, Deactivate, UnprepareJoint
  <2>3. ASSUME NEW g \in OwnedGroups, Preparation(g) PROVE UNCHANGED moving
    BY <2>3 DEF Preparation, BeginPrepare, TakeTicket, Recheck, RecheckInhibition, StoreTicket,
                MarkPrepared
  <2>4. CASE AxisFaults \/ Guard
    BY <2>4 DEF AxisFaults, AxisFails, FailureReported, AxisRecovers, Guard, hwVars
  <2> QED
    BY <2>1, <2>2, <2>3, <2>4 DEF HwNext
<1> QED
  BY <1>1, <1>2, <1>3, <1>4

(* The write loop leaves a joint at "write" only by asking for its session.   *)
LEMMA AsksByWriting ==
  ASSUME HwInv, [HwNext]_allVars, cm = "write", cm' \in {"apply", "ask"}
  PROVE  WriteJoint
<1>1. cm' # cm
  OBVIOUS
<1>2. ASSUME Loop PROVE WriteJoint
  BY <1>2 DEF Loop, Sample, ReportJoint, UpdateControllers, CheckJoint, ClaimJoint, ApplyCommand,
              AskGroup, JudgePreparation, ComparePreparation, DropPreparation
<1>3. ~Activate /\ ~Deactivate /\ ~UnprepareJoint
  BY <1>1 DEF Activate, Deactivate, UnprepareJoint
<1>4. ~AxisFaults /\ ~Guard /\ ~UNCHANGED allVars
  BY <1>1 DEF AxisFaults, AxisFails, FailureReported, AxisRecovers, Guard, hwVars, allVars
<1>5. ASSUME NEW g \in OwnedGroups PROVE ~Preparation(g)
  BY <1>1 DEF Preparation, BeginPrepare, TakeTicket, Recheck, RecheckInhibition, StoreTicket,
              MarkPrepared
<1> QED
  BY <1>2, <1>3, <1>4, <1>5 DEF HwNext

(* An axis is set in motion only by a command of the session it was claimed    *)
(* in, right after permits() found that session open, and a joint whose        *)
(* session permits() finds over is stopped and its command dropped: for any    *)
(* joints and groups, with every halt, fault or arming between claim, command, *)
(* question and application (mock_system.cpp:210-230, 242-269).               *)
THEOREM MotionNeedsSession == HwSpec => MovesInSession
<1> DEFINE P == HwInv /\ DomainInv /\ Admitted
<1>1. ASSUME P, [HwNext]_allVars
      PROVE  [\A j \in Owned :
                /\ moving'[j] /\ ~moving[j] => cm = "apply" /\ command[j] = sessionEpoch[j]
                /\ cm = "write" /\ cm' = "apply" /\ J = j => InSession(j)'
                /\ cm = "write" /\ cm' = "ask" /\ J = j => ~moving'[j] /\ command'[j] = 0]_allVars
  <2>1. Advancing
    BY <1>1, HwStep
  <2>2. SUFFICES ASSUME HwNext, NEW j \in Owned
                 PROVE  /\ moving'[j] /\ ~moving[j] => cm = "apply" /\ command[j] = sessionEpoch[j]
                        /\ cm = "write" /\ cm' = "apply" /\ J = j => InSession(j)'
                        /\ cm = "write" /\ cm' = "ask" /\ J = j => ~moving'[j] /\ command'[j] = 0
    BY <1>1
  <2>3. moving'[j] /\ ~moving[j] => cm = "apply" /\ command[j] = sessionEpoch[j]
    BY <1>1, <2>2, MovesOnlyInSession
  <2>4. ASSUME cm = "write", cm' = "apply", J = j PROVE InSession(j)'
    <3>1. WriteJoint
      BY <1>1, <2>4, AsksByWriting
    <3>2. InSession(J)' /\ J' = J
      BY <1>1, <2>1, <2>4, <3>1, AskedInSession
    <3> QED
      BY <2>4, <3>2 DEF InSession
  <2>5. ASSUME cm = "write", cm' = "ask", J = j PROVE ~moving'[j] /\ command'[j] = 0
    <3>1. WriteJoint
      BY <1>1, <2>5, AsksByWriting
    <3>2. moving' = [moving EXCEPT ![J] = FALSE] /\ command' = [command EXCEPT ![J] = 0]
      BY <2>5, <3>1 DEF WriteJoint
    <3> QED
      BY <1>1, <2>5, <3>2 DEF HwInv, SessionTypes
  <2> QED
    BY <2>3, <2>4, <2>5
<1>2. P /\ [HwNext]_allVars => P'
  BY HwStep, AdmittedStep
<1>3. HwInit => P
  BY HwInitInv DEF HwInit, Admitted
<1> QED
  BY <1>1, <1>2, <1>3, PTL DEF HwSpec, MovesInSession
=============================================================================
