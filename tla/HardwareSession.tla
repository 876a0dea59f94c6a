--------------------------- MODULE HardwareSession ---------------------------
(***************************************************************************)
(* A hardware component in front of the permission gate:                    *)
(* robot_hardware/src/mock_system.cpp with robot_safety/axis_session.hpp,   *)
(* composed with the gate itself (SafetyDomain).                            *)
(*                                                                          *)
(* Three kinds of threads meet here.  The controller manager runs read(),   *)
(* the controllers, perform_command_mode_switch() and write() in a loop and *)
(* owns the sessions and the commands; the operations executor prepares a   *)
(* group; the guard's services arm, run, halt and stop.  Every call into    *)
(* the domain is atomic and nothing else is, so a thread has a step for     *)
(* each call and the others run between them.                               *)
(***************************************************************************)
EXTENDS SafetyDomain, Sequences

CONSTANTS
  Joints,     \* the component's axes, in the order its loops take them
  Switches,   \* the kinds of controller switch that happen
  FaultyAxes  \* axes that may stop answering

ASSUME JointsAssumption ==
  /\ Joints \in Seq(Axes) /\ Len(Joints) > 0
  /\ Switches \subseteq {"start", "stop", "restart"}
  /\ FaultyAxes \subseteq Axes
  /\ "feedback" \in ReportCategories

VARIABLES
  active,         \* active_
  faulty,         \* axis_faults_: the axis does not answer, and the service that
                  \* set the flag has told the domain
  prepared,       \* sessions_[j].prepared
  preparedEpoch,  \* sessions_[j].prepared_epoch
  sessionEpoch,   \* sessions_[j].epoch
  lost,           \* sessions_[j].permission_lost
  claimed,        \* claimed_[j]
  command,        \* commands_[j]: the epoch it was written in; 0 for NaN
  moving,         \* physical_[j][1] is not zero
  cm,             \* where the controller manager is
  at,             \* the joint its loop has reached
  seen,           \* what it remembers: the flags it sampled, or the switch it does
  seenEpoch,      \* and the epoch preparationRevoked() was told
  preparing       \* where the preparation of a group is: step, ticket and joint

deviceVars  == <<active, faulty>>
preparedVars == <<prepared, preparedEpoch>>
sessionVars == <<sessionEpoch, lost, claimed, command, moving>>
cmVars      == <<cm, at, seen, seenEpoch>>
hwVars == <<active, faulty, prepared, preparedEpoch, sessionEpoch, lost, claimed,
            command, moving, cm, at, seen, seenEpoch, preparing>>
allVars == <<vars, hwVars>>

Owned == {Joints[i] : i \in 1..Len(Joints)}
OwnedGroups == {AxisGroup[j] : j \in Owned}
J == Joints[at]        \* the joint the loop has reached
G == AxisGroup[J]      \* and its group

CmSteps == {"read", "report", "update", "check", "claim", "write", "apply", "ask",
            "judge", "compare", "drop", "unprepare"}
BetweenSteps == {"read", "update", "write"}   \* between two calls of the loop
Offline(j) == faulty[j] # "no"
Idle == [step |-> "idle", ticket |-> 0, joint |-> 1]

HwTypeOK ==
  /\ active \in BOOLEAN
  /\ faulty \in [Owned -> {"no", "set", "reported"}] /\ prepared \in [Owned -> BOOLEAN]
  /\ lost \in [Owned -> BOOLEAN] /\ claimed \in [Owned -> BOOLEAN]
  /\ moving \in [Owned -> BOOLEAN]
  /\ preparedEpoch \in [Owned -> Nat] /\ sessionEpoch \in [Owned -> Nat]
  /\ command \in [Owned -> Nat]
  /\ cm \in CmSteps /\ at \in 1..Len(Joints)
  /\ seen \in {"", "unprepared", "offline", "ready"} \cup Switches \cup BetweenSteps
  /\ seenEpoch \in Nat
  /\ preparing \in [OwnedGroups ->
       [step : {"idle", "asked", "ticketed", "checked", "store", "flag"},
        ticket : Nat, joint : 1..Len(Joints)]]

(* The component is loaded into a configured domain, inactive; the owner's     *)
(* heartbeats arrive, so its lease is fresh.                                 *)
HwInit ==
  /\ configured = TRUE
  /\ associations \in Policies
  /\ axisReady = [a \in Axes |-> FALSE]
  /\ state = [g \in Groups |-> "Stopped"]
  /\ epoch = [g \in Groups |-> 1]
  /\ evidence = [c \in Conditions |-> [s \in Sources |-> 0]]
  /\ events = {}
  /\ globalInhibit = FALSE
  /\ ownerRequired = TRUE /\ leased = TRUE /\ leaseLeft = MaxLease /\ ownerExpired = FALSE
  /\ legacyState = "Stopped" /\ legacyEpoch = 0
  /\ componentReady = [c \in Components |-> FALSE]
  /\ writers = "grouped"
  /\ active = FALSE
  /\ faulty = [j \in Owned |-> "no"]
  /\ prepared = [j \in Owned |-> FALSE]
  /\ preparedEpoch = [j \in Owned |-> 0]
  /\ sessionEpoch = [j \in Owned |-> 0]
  /\ lost = [j \in Owned |-> TRUE]
  /\ claimed = [j \in Owned |-> FALSE]
  /\ command = [j \in Owned |-> 0]
  /\ moving = [j \in Owned |-> FALSE]
  /\ cm = "read" /\ at = 1 /\ seen = "" /\ seenEpoch = 0
  /\ preparing = [g \in OwnedGroups |-> Idle]

-----------------------------------------------------------------------------
(* The controller manager.                                                  *)

(* The loop goes on to the next joint, or to `next` after the last one. *)
NextJoint(step, next) ==
  /\ cm' = IF at = Len(Joints) THEN next ELSE step
  /\ at' = IF at = Len(Joints) THEN 1 ELSE at + 1
  /\ seen' = "" /\ seenEpoch' = 0

(* read(), first half: sample the flags of the joint. *)
Sample ==
  /\ cm = "read"
  /\ seen' = IF ~prepared[J] THEN "unprepared"
             ELSE IF active /\ ~Offline(J) THEN "ready" ELSE "offline"
  /\ cm' = "report"
  /\ UNCHANGED <<vars, at, seenEpoch, deviceVars, preparedVars, sessionVars, preparing>>

(* Mutant of ReportJoint: a joint that is not prepared is not reported. *)
ReportPreparedOnly ==
  /\ cm = "report"
  /\ IF seen = "unprepared" THEN UNCHANGED vars ELSE ReportAxis(J, seen = "ready", "feedback")
  /\ NextJoint("read", "update")
  /\ UNCHANGED <<deviceVars, preparedVars, sessionVars, preparing>>

(* read(), second half: tell the domain. *)
ReportJoint ==
  /\ cm = "report"
  /\ IF seen = "unprepared" THEN UnprepareAxis(J) ELSE ReportAxis(J, seen = "ready", "feedback")
  /\ NextJoint("read", "update")
  /\ UNCHANGED <<deviceVars, preparedVars, sessionVars, preparing>>

(* The controllers run and write a command to every joint, or to none.  After   *)
(* them perform_command_mode_switch() may be called, for controllers that      *)
(* start, stop or both on all joints of the component.                       *)
UpdateControllers(writes, switch) ==
  /\ cm = "update"
  /\ command' = IF writes THEN [j \in Owned |-> epoch[AxisGroup[j]]] ELSE command
  /\ cm' = IF switch \in Switches THEN "check" ELSE "write"
  /\ seen' = switch
  /\ UNCHANGED <<vars, at, seenEpoch, deviceVars, preparedVars, sessionEpoch, lost,
                 claimed, moving, preparing>>

(* Its first loop: whoever starts is prepared and armed, or nothing changes. *)
CheckJoint ==
  /\ cm = "check"
  /\ IF seen \in {"start", "restart"} /\ prepared[J] THEN Poll ELSE UNCHANGED vars
  /\ IF seen \in {"start", "restart"} /\ ~(prepared[J] /\ state'[G] = "Armed")
       THEN cm' = "write" /\ at' = 1 /\ seen' = ""
       ELSE /\ cm' = IF at = Len(Joints) THEN "claim" ELSE "check"
            /\ at' = IF at = Len(Joints) THEN 1 ELSE at + 1
            /\ UNCHANGED seen
  /\ UNCHANGED <<seenEpoch, deviceVars, preparedVars, sessionVars, preparing>>

(* Its second loop: the session takes the epoch the group has by then. *)
ClaimJoint ==
  LET starting == seen \in {"start", "restart"}
  IN
  /\ cm = "claim"
  /\ claimed' = [claimed EXCEPT ![J] = starting]
  /\ command' = [command EXCEPT ![J] = 0]
  /\ lost' = [lost EXCEPT ![J] = ~starting]
  /\ moving' = [moving EXCEPT ![J] = @ /\ seen = "start"]
  /\ IF starting
       THEN Poll /\ sessionEpoch' = [sessionEpoch EXCEPT ![J] = epoch'[G]]
       ELSE UNCHANGED <<vars, sessionEpoch>>
  /\ cm' = IF at = Len(Joints) THEN "write" ELSE "claim"
  /\ at' = IF at = Len(Joints) THEN 1 ELSE at + 1
  /\ seen' = IF at = Len(Joints) THEN "" ELSE seen
  /\ UNCHANGED <<seenEpoch, deviceVars, preparedVars, preparing>>

(* Mutant of Granted: whoever has claimed the joint in any session may move it. *)
GrantedToAnySession(j) ==
  /\ active
  /\ \E g \in {AxisGroup[j]} : Permits(g)'

(* Mutant of Granted: a permission once given is not asked for again. *)
GrantedOnce(j) ==
  /\ active
  /\ lost[j] => \E g \in {AxisGroup[j]} : Permits(g)' /\ epoch'[g] = sessionEpoch[j]

(* permits(), asked by the write loop for the session of the joint. *)
Granted(j) ==
  /\ active
  /\ \E g \in {AxisGroup[j]} : Permits(g)' /\ epoch'[g] = sessionEpoch[j]

(* write() asks for the session of the joint; without permission the joint is  *)
(* stopped and its command dropped.                                          *)
WriteJoint ==
  /\ cm = "write"
  /\ IF active THEN Poll ELSE UNCHANGED vars
  /\ IF Granted(J)
       THEN cm' = "apply" /\ UNCHANGED <<command, moving>>
       ELSE /\ cm' = "ask"
            /\ moving' = [moving EXCEPT ![J] = FALSE]
            /\ command' = [command EXCEPT ![J] = 0]
  /\ UNCHANGED <<at, seen, seenEpoch, deviceVars, preparedVars, sessionEpoch, lost,
                 claimed, preparing>>

(* With permission the command of a claimed joint is applied.  The domain's     *)
(* lock is free again by then: the session may have ended since it was asked   *)
(* for.                                                                      *)
ApplyCommand ==
  /\ cm = "apply"
  /\ lost' = [lost EXCEPT ![J] = FALSE]
  /\ moving' = IF claimed[J] THEN [moving EXCEPT ![J] = command[J] # 0] ELSE moving
  /\ NextJoint("write", "read")
  /\ UNCHANGED <<vars, deviceVars, preparedVars, sessionEpoch, claimed, command, preparing>>

(* Mutant of AskGroup: any live session keeps the preparation. *)
AskStateOnly ==
  /\ cm = "ask"
  /\ Poll
  /\ IF state'[G] \in Live
       THEN NextJoint("write", "read")
       ELSE /\ cm' = IF lost[J] THEN "judge" ELSE "drop"
            /\ seenEpoch' = epoch'[G]
            /\ UNCHANGED <<at, seen>>
  /\ UNCHANGED <<deviceVars, preparedVars, sessionVars, preparing>>

(* preparationRevoked() after a denied write asks for the group again: the     *)
(* session may have begun in the meantime.                                   *)
AskGroup ==
  /\ cm = "ask"
  /\ Poll
  /\ IF state'[G] = "Armed" \/ (state'[G] = "Running" /\ epoch'[G] = sessionEpoch[J])
       THEN NextJoint("write", "read")
       ELSE /\ cm' = IF lost[J] THEN "judge" ELSE "drop"
            /\ seenEpoch' = epoch'[G]
            /\ UNCHANGED <<at, seen>>
  /\ UNCHANGED <<deviceVars, preparedVars, sessionVars, preparing>>

(* A joint without a session keeps a preparation unless all is inhibited or ... *)
JudgePreparation ==
  /\ cm = "judge"
  /\ IF prepared[J] THEN GloballyInhibited ELSE UNCHANGED vars
  /\ IF prepared[J]
       THEN cm' = (IF globalInhibit' THEN "drop" ELSE "compare") /\ UNCHANGED <<at, seen, seenEpoch>>
       ELSE NextJoint("write", "read")
  /\ UNCHANGED <<deviceVars, preparedVars, sessionVars, preparing>>

(* Mutant of ComparePreparation: the epoch of the preparation is not looked at. *)
CompareNothing ==
  /\ cm = "compare"
  /\ NextJoint("write", "read")
  /\ UNCHANGED <<vars, deviceVars, preparedVars, sessionVars, preparing>>

(* ... it was made for another epoch than the group had when it was asked for. *)
ComparePreparation ==
  /\ cm = "compare"
  /\ IF preparedEpoch[J] # seenEpoch
       THEN cm' = "drop" /\ UNCHANGED <<at, seen, seenEpoch>>
       ELSE NextJoint("write", "read")
  /\ UNCHANGED <<vars, deviceVars, preparedVars, sessionVars, preparing>>

DropPreparation ==
  /\ cm = "drop"
  /\ lost' = [lost EXCEPT ![J] = TRUE]
  /\ prepared' = [prepared EXCEPT ![J] = FALSE]
  /\ claimed' = [claimed EXCEPT ![J] = FALSE]
  /\ NextJoint("write", "read")
  /\ UNCHANGED <<vars, deviceVars, preparedEpoch, sessionEpoch, command, moving, preparing>>

(* Lifecycle transitions come between two calls of the loop. *)
Between == at = 1 /\ cm \in BetweenSteps

(* on_activate() *)
Activate ==
  /\ Between /\ ~active
  /\ active' = TRUE
  /\ lost' = [j \in Owned |-> TRUE]
  /\ UNCHANGED <<vars, faulty, preparedVars, sessionEpoch, claimed, command, moving,
                 cmVars, preparing>>

(* on_deactivate(), on_error(): the flag first, then one joint after another. *)
Deactivate ==
  /\ Between /\ active
  /\ active' = FALSE
  /\ cm' = "unprepare" /\ seen' = cm
  /\ UNCHANGED <<vars, at, seenEpoch, faulty, preparedVars, sessionVars, preparing>>

UnprepareJoint ==
  /\ cm = "unprepare"
  /\ prepared' = [prepared EXCEPT ![J] = FALSE]
  /\ UnprepareAxis(J)
  /\ command' = IF at = Len(Joints) THEN [j \in Owned |-> 0] ELSE command
  /\ cm' = IF at = Len(Joints) THEN seen ELSE cm
  /\ at' = IF at = Len(Joints) THEN 1 ELSE at + 1
  /\ seen' = IF at = Len(Joints) THEN "" ELSE seen
  /\ UNCHANGED <<seenEpoch, deviceVars, preparedEpoch, sessionEpoch, lost, claimed,
                 moving, preparing>>

Loop ==
  \/ Sample \/ ReportJoint
  \/ \E writes \in BOOLEAN, switch \in Switches \cup {""} : UpdateControllers(writes, switch)
  \/ CheckJoint \/ ClaimJoint
  \/ WriteJoint \/ ApplyCommand \/ AskGroup \/ JudgePreparation \/ ComparePreparation \/ DropPreparation

-----------------------------------------------------------------------------
(* The prepare service of a group.                                          *)

PrepareMoves(g, step) == preparing' = [preparing EXCEPT ![g].step = step]

(* A live group is not prepared. *)
BeginPrepare(g) ==
  /\ preparing[g].step = "idle"
  /\ active
  /\ Poll
  /\ state'[g] \notin Live
  /\ PrepareMoves(g, "asked")
  /\ UNCHANGED <<deviceVars, preparedVars, sessionVars, cmVars>>

(* The ticket is the epoch before the slow part. *)
TakeTicket(g) ==
  /\ preparing[g].step = "asked"
  /\ Poll
  /\ preparing' = [preparing EXCEPT ![g].step = "ticketed", ![g].ticket = epoch'[g]]
  /\ UNCHANGED <<deviceVars, preparedVars, sessionVars, cmVars>>

(* After it, a ticket that is out of date cancels the preparation. *)
Recheck(g) ==
  /\ preparing[g].step = "ticketed"
  /\ IF active THEN Poll ELSE UNCHANGED vars
  /\ PrepareMoves(g, IF active /\ epoch'[g] = preparing[g].ticket THEN "checked" ELSE "idle")
  /\ UNCHANGED <<deviceVars, preparedVars, sessionVars, cmVars>>

RecheckInhibition(g) ==
  /\ preparing[g].step = "checked"
  /\ GloballyInhibited
  /\ PrepareMoves(g, IF globalInhibit' THEN "idle" ELSE "store")
  /\ UNCHANGED <<deviceVars, preparedVars, sessionVars, cmVars>>

(* Mutant of AfterJoint: the loop goes one joint too far. *)
AfterJointPastTheEnd(g) ==
  IF preparing[g].joint > Len(Joints)
    THEN [preparing EXCEPT ![g] = Idle]
    ELSE [preparing EXCEPT ![g].step = "store", ![g].joint = @ + 1]

(* Then the joints are marked, one store after another; a joint that is       *)
(* offline fails the rest.                                                   *)
AfterJoint(g) ==
  IF preparing[g].joint = Len(Joints)
    THEN [preparing EXCEPT ![g] = Idle]
    ELSE [preparing EXCEPT ![g].step = "store", ![g].joint = @ + 1]

StoreTicket(g) ==
  LET j == Joints[preparing[g].joint]
  IN
  /\ preparing[g].step = "store"
  /\ IF AxisGroup[j] # g
       THEN preparing' = AfterJoint(g) /\ UNCHANGED preparedEpoch
       ELSE IF Offline(j)
       THEN /\ preparing' = [preparing EXCEPT ![g] = Idle]
            /\ UNCHANGED preparedEpoch
       ELSE /\ PrepareMoves(g, "flag")
            /\ preparedEpoch' = [preparedEpoch EXCEPT ![j] = preparing[g].ticket]
  /\ UNCHANGED <<vars, deviceVars, prepared, sessionVars, cmVars>>

MarkPrepared(g) ==
  /\ preparing[g].step = "flag"
  /\ prepared' = [prepared EXCEPT ![Joints[preparing[g].joint]] = TRUE]
  /\ preparing' = AfterJoint(g)
  /\ UNCHANGED <<vars, deviceVars, preparedEpoch, sessionVars, cmVars>>

Preparation(g) ==
  \/ BeginPrepare(g) \/ TakeTicket(g) \/ Recheck(g) \/ RecheckInhibition(g)
  \/ StoreTicket(g) \/ MarkPrepared(g)

-----------------------------------------------------------------------------
(* The device and the guard's services.                                     *)

(* The fault service of an axis sets the flag, then reports; or it clears it. *)
AxisFails(j) ==
  /\ faulty[j] # "set"
  /\ faulty' = [faulty EXCEPT ![j] = "set"]
  /\ UNCHANGED <<vars, active, preparedVars, sessionVars, cmVars, preparing>>

FailureReported(j) ==
  /\ faulty[j] = "set"
  /\ faulty' = [faulty EXCEPT ![j] = "reported"]
  /\ ReportAxis(j, FALSE, "feedback")
  /\ UNCHANGED <<active, preparedVars, sessionVars, cmVars, preparing>>

AxisRecovers(j) ==
  /\ faulty[j] # "set"
  /\ faulty' = [faulty EXCEPT ![j] = "no"]
  /\ UNCHANGED <<vars, active, preparedVars, sessionVars, cmVars, preparing>>

(* /arm, /run, /halt, /acknowledge, /global_stop and /reset_global_stop. *)
Guard ==
  /\ \/ \E g \in Groups : Arm(g) \/ Run(g) \/ Invalidate(g)
     \/ \E e \in events : Acknowledge(e)
     \/ GlobalStop
     \/ ResetGlobalStop
  /\ UNCHANGED hwVars

AxisFaults == \E j \in Owned \cap FaultyAxes : 
  AxisFails(j) \/ FailureReported(j) \/ AxisRecovers(j)

HwNext ==
  \/ Loop
  \/ Activate \/ Deactivate \/ UnprepareJoint
  \/ \E g \in OwnedGroups : Preparation(g)
  \/ AxisFaults
  \/ Guard

(* The controller manager's real-time loop takes its turn again and again, and *)
(* a lifecycle transition that has begun ends.                               *)
HwSpec ==
  HwInit /\ [][HwNext]_allVars /\ SF_allVars(Loop) /\ WF_allVars(UnprepareJoint)

-----------------------------------------------------------------------------
(* The session the joint was claimed in is open. *)
InSession(j) == state[AxisGroup[j]] = "Running" /\ epoch[AxisGroup[j]] = sessionEpoch[j]

(* An axis is set in motion only by a command that was written in the session  *)
(* it was claimed in, and only in the step after the write loop has found that *)
(* session open: never by a command left over from before the last halt, fault *)
(* or controller switch.  A halt that comes between the question and the       *)
(* command is too late for that cycle; in the next one the loop finds the       *)
(* session over and stops the joint (mock_system.cpp:210-230, 242-269).        *)
MovesInSession ==
  [][\A j \in Owned :
       /\ moving'[j] /\ ~moving[j] => cm = "apply" /\ command[j] = sessionEpoch[j]
       /\ cm = "write" /\ cm' = "apply" /\ J = j => InSession(j)'
       /\ cm = "write" /\ cm' = "ask" /\ J = j => ~moving'[j] /\ command'[j] = 0]_allVars

(* A motion whose session has ended is stopped by the write loop, whichever    *)
(* thread ended the session, whatever the loop was about to do and whatever    *)
(* was armed and run since (mock_system.cpp:245-250).                        *)
StopsAfterSession == \A j \in Owned : (moving[j] /\ ~InSession(j)) ~> ~moving[j]

(* A group does not keep a session with a joint that is not prepared: when the *)
(* write loop withdraws a preparation, read() tells the domain, whatever was   *)
(* armed and run in between (mock_system.cpp:231-250).                       *)
Unprepared(j) == state[AxisGroup[j]] \in Live /\ ~prepared[j]

UnpreparedEnds == \A j \in Owned : Unprepared(j) ~> ~Unprepared(j)

(* The joints of a group are claimed one after another, and the session may    *)
(* change in between.  A joint left with an older session does not stay so     *)
(* while its group runs without it (axis_session.hpp:18-24).                 *)
LeftBehind(j) ==
  state[AxisGroup[j]] = "Running" /\ ~lost[j] /\ sessionEpoch[j] # epoch[AxisGroup[j]]

NobodyLeftBehind == \A j \in Owned : LeftBehind(j) ~> ~LeftBehind(j)

(* A preparation made before the group's present epoch, which nobody is         *)
(* renewing, does not stay marked on a group without a session                *)
(* (axis_session.hpp:22-23).                                                 *)
Stale(j) ==
  /\ prepared[j] /\ preparedEpoch[j] # epoch[AxisGroup[j]]
  /\ preparing[AxisGroup[j]].step = "idle"
  /\ state[AxisGroup[j]] \notin Live

StaleIsDropped == \A j \in Owned : Stale(j) ~> ~Stale(j)

(* "The old session, a halt and the global stop still revoke the preparation"   *)
(* (docs/36:12): whatever moves was prepared in the epoch its session was      *)
(* armed in or right before it.                                              *)
MovesPrepared ==
  [][\A j \in Owned : moving'[j] /\ ~moving[j] =>
       preparedEpoch[j] + 1 >= sessionEpoch[j]]_allVars

=============================================================================
