--------------------------- MODULE ArmGoalExecutor ---------------------------
(***************************************************************************)
(* arm_goal_executor: an action server that takes one goal at a time, plans  *)
(* with MoveIt and has the joint trajectory controller (JTC) execute the     *)
(* plan.  Its worker thread, the callbacks that keep its picture of the      *)
(* system, the JTC and the coordinator's group operations run beside one     *)
(* another; requests to different services overtake one another.            *)
(***************************************************************************)
EXTENDS Naturals

CONSTANTS
  MaxGoals,   \* bound: goals accepted
  MaxOps      \* bound: operations on the group `arm'

ASSUME ArmAssumption == {MaxGoals, MaxOps} \subseteq Nat

VARIABLES
  op, moving,        \* the record operations["arm"]; the group runs and the JTC is active
  known,             \* token_ and arm_running_ of the last state message
  fresh,             \* state, joints and controllers have been heard of lately
  goal, status,      \* number of the current goal, the state of its handle
  busy, stopping,    \* busy_, stopping_
  stage, ticket,     \* the worker: where execute() is, its copy of the token
  success,           \* what finish() is given
  requests, reply,   \* send_goal calls under way, the answer to the current one
  trajectory, outcome,       \* what the JTC executes, the result of the current goal's
  cancelAll, cancel, \* cancel calls: of everything; of the current trajectory
  halt, helpless     \* a group halt under way; one was needed and could not be had

picture == <<known, fresh>>
server  == <<goal, status, busy, stopping>>
worker  == <<stage, ticket, success>>
calls   == <<requests, reply, outcome, cancelAll, cancel, halt, helpless>>
armVars == <<op, moving, picture, server, worker, calls, trajectory>>

Nothing == 0                   \* no goal
ArmStages == {"idle", "validating", "waiting", "permitted", "planning", "planned", "accepting",
           "executing", "stopping", "finishing", "leaving"}
Statuses == {"none", "executing", "canceling", "succeeded", "aborted", "canceled"}
Answers == {"none", "sent", "yes", "no"}

ArmInit ==
  /\ op = 0 /\ moving = FALSE /\ known = [op |-> 0, running |-> FALSE] /\ fresh = FALSE
  /\ goal = 0 /\ status = "none" /\ busy = FALSE /\ stopping = FALSE
  /\ stage = "idle" /\ ticket = 0 /\ success = FALSE
  /\ requests = {} /\ reply = "none" /\ trajectory = Nothing /\ outcome = "none"
  /\ cancelAll = FALSE /\ cancel = "none" /\ halt = FALSE /\ helpless = FALSE

-----------------------------------------------------------------------------
(* The surroundings: group operations, state messages, the JTC, clients.     *)

(* A start.  A call that is still on its way by then would find the JTC of a   *)
(* later session: calls are taken within the seconds a restart needs.        *)
Resume ==
  /\ ~moving /\ op < MaxOps /\ requests = {}
  /\ op' = op + 1 /\ moving' = TRUE
  /\ UNCHANGED <<picture, server, worker, calls, trajectory>>

(* What the JTC executes is the current goal's.                              *)
Current == trajectory # Nothing /\ trajectory = goal

Stops ==
  /\ moving' = FALSE /\ trajectory' = Nothing
  /\ outcome' = IF Current THEN "no" ELSE outcome

(* The record of the operation changes: a start completes, a halt begins.      *)
ResumeRecorded ==
  /\ moving /\ op < MaxOps
  /\ op' = op + 1
  /\ UNCHANGED <<moving, picture, server, worker, calls, trajectory>>

(* A halt by somebody else deactivates the JTC, which aborts.                *)
Halted ==
  /\ moving
  /\ Stops
  /\ UNCHANGED <<op, picture, server, worker, requests, reply, cancelAll, cancel, halt, helpless>>

(* The halt the executor has asked for; the coordinator may refuse it.        *)
HaltTaken ==
  /\ halt
  /\ halt' = FALSE
  /\ \/ Stops /\ UNCHANGED helpless
     \/ helpless' = TRUE /\ UNCHANGED <<moving, trajectory, outcome>>
  /\ UNCHANGED <<op, picture, server, worker, requests, reply, cancelAll, cancel>>

Learns ==
  /\ known' = [op |-> op, running |-> moving]
  /\ fresh' \in BOOLEAN
  /\ <<known, fresh>>' # <<known, fresh>>
  /\ UNCHANGED <<op, moving, server, worker, calls, trajectory>>

FallsSilent ==
  /\ fresh /\ fresh' = FALSE
  /\ UNCHANGED <<op, moving, known, server, worker, calls, trajectory>>

(* The JTC takes a goal, in place of the one it has, or turns it down.        *)
Taken ==
  \E r \in requests, yes \in BOOLEAN :
    /\ yes => moving
    /\ requests' = requests \ {r}
    /\ reply' = IF r # goal THEN reply ELSE IF yes THEN "yes" ELSE "no"
    /\ trajectory' = IF yes THEN r ELSE trajectory
    /\ outcome' = IF yes /\ Current THEN "no" ELSE outcome
    /\ UNCHANGED <<op, moving, picture, server, worker, cancelAll, cancel, halt, helpless>>

(* The trajectory ends, at its target or not.                                *)
Arrives ==
  /\ trajectory # Nothing
  /\ trajectory' = Nothing
  /\ IF Current THEN outcome' \in {"yes", "no"} ELSE UNCHANGED outcome
  /\ UNCHANGED <<op, moving, picture, server, worker, requests, reply, cancelAll, cancel, halt,
                 helpless>>

CancelTaken ==
  /\ \/ /\ cancelAll /\ cancelAll' = FALSE
        /\ trajectory' = Nothing
        /\ UNCHANGED <<cancel, outcome>>
     \/ /\ cancel = "sent" /\ UNCHANGED cancelAll
        /\ IF Current
           THEN trajectory' = Nothing /\ cancel' = "yes" /\ outcome' = "no"
           ELSE cancel' = "no" /\ UNCHANGED <<trajectory, outcome>>
  /\ UNCHANGED <<op, moving, picture, server, worker, requests, reply, halt, helpless>>

-----------------------------------------------------------------------------
(* The action server.                                                        *)

FreeFor == ~stopping /\ ~busy

(* A goal is accepted and gets a worker.                                     *)
Accepts ==
  /\ FreeFor /\ goal < MaxGoals
  /\ busy' = TRUE /\ goal' = goal + 1 /\ status' = "executing"
  /\ stage' = "validating" /\ success' = FALSE
  /\ reply' = "none" /\ outcome' = "none" /\ cancel' = "none"
  /\ UNCHANGED <<op, moving, picture, stopping, ticket, requests, cancelAll, halt, helpless,
                 trajectory>>

CancelGoal ==
  /\ status = "executing"
  /\ status' = "canceling"
  /\ UNCHANGED <<op, moving, picture, goal, busy, stopping, worker, calls, trajectory>>

Close ==
  /\ ~stopping
  /\ stopping' = TRUE
  /\ UNCHANGED <<op, moving, picture, goal, status, busy, worker, calls, trajectory>>

-----------------------------------------------------------------------------
(* execute(), in the worker's thread.                                        *)

ReadyNow == known.running /\ fresh

Interrupted == stopping \/ status = "canceling" \/ ~ReadyNow \/ known.op # ticket

Surroundings == <<op, moving, picture, server, trajectory>>

(* finish() is called next, with this code.                                  *)
Finishes(well) == stage' = "finishing" /\ success' = well

GoesOn(from, to) == stage = from /\ stage' = to /\ UNCHANGED success

(* emergency_halt: not while closing, nor when the service cannot be reached. *)
EmergencyHalt ==
  \/ ~stopping /\ halt' = TRUE /\ UNCHANGED helpless
  \/ UNCHANGED halt /\ helpless' = TRUE

Validates ==
  /\ GoesOn("validating", "waiting") \/ (stage = "validating" /\ Finishes(FALSE))
  /\ UNCHANGED <<Surroundings, ticket, calls>>

Waits ==
  /\ \/ ReadyNow /\ status # "canceling" /\ GoesOn("waiting", "permitted")
     \/ stage = "waiting" /\ (~ReadyNow \/ status = "canceling") /\ Finishes(FALSE)
  /\ UNCHANGED <<Surroundings, ticket, calls>>

CopiesToken ==
  /\ GoesOn("permitted", "planning")
  /\ ticket' = known.op
  /\ UNCHANGED <<Surroundings, calls>>

(* The plan fails, the JTC is missing, or the arm is there already.          *)
Plans ==
  /\ \/ ~Interrupted /\ GoesOn("planning", "planned")
     \/ stage = "planning" /\ Finishes(FALSE)
     \/ stage = "planning" /\ ~Interrupted /\ Finishes(TRUE)
  /\ UNCHANGED <<Surroundings, ticket, calls>>

Sends ==
  /\ GoesOn("planned", "accepting")
  /\ requests' = requests \cup {goal}
  /\ UNCHANGED <<Surroundings, ticket, reply, outcome, cancelAll, cancel, halt, helpless>>

(* Mutant of GivesUp: the halt is left out.                                  *)
GivesUpSoftly ==
  /\ stage = "accepting" /\ reply = "none"
  /\ cancelAll' = TRUE /\ Finishes(FALSE)
  /\ UNCHANGED <<Surroundings, ticket, requests, reply, outcome, cancel, halt, helpless>>

(* Interrupted, or three seconds without an answer: any moment without one.  *)
GivesUp ==
  /\ stage = "accepting" /\ reply = "none"
  /\ cancelAll' = TRUE /\ EmergencyHalt /\ Finishes(FALSE)
  /\ UNCHANGED <<Surroundings, ticket, requests, reply, outcome, cancel>>

Answered ==
  /\ \/ reply = "yes" /\ GoesOn("accepting", "executing")
     \/ stage = "accepting" /\ reply = "no" /\ Finishes(FALSE)
  /\ UNCHANGED <<Surroundings, ticket, calls>>

(* The result is there, or the worker is interrupted or out of time.         *)
Awaits ==
  /\ stage = "executing"
  /\ \/ outcome # "none" /\ Finishes(outcome = "yes") /\ UNCHANGED cancel
     \/ outcome = "none" /\ stage' = "stopping" /\ cancel' = "sent" /\ UNCHANGED success
  /\ UNCHANGED <<Surroundings, ticket, requests, reply, outcome, cancelAll, halt, helpless>>

(* The cancel call and then the result are waited for, two seconds each.     *)
Cancels ==
  /\ stage = "stopping" /\ Finishes(FALSE)
  /\ \/ cancel = "yes" /\ outcome # "none" /\ UNCHANGED <<halt, helpless>>
     \/ EmergencyHalt
  /\ UNCHANGED <<Surroundings, ticket, requests, reply, outcome, cancelAll, cancel>>

(* An exception.  A trajectory that was accepted is cancelled and the group       *)
(* halted, unless the node is closing or these calls throw as well.  Before the *)
(* answer only the calls that give up can throw; nobody repeats them (line 201). *)
Throws ==
  /\ Finishes(FALSE)
  /\ \/ /\ stage \in {"validating", "waiting", "planning", "planned"}
        /\ UNCHANGED <<cancelAll, cancel, halt, helpless>>
     \/ /\ stage = "accepting" /\ reply = "none"
        /\ cancelAll' \in {cancelAll, TRUE} /\ helpless' = TRUE
        /\ UNCHANGED <<cancel, halt>>
     \/ /\ stage \in {"executing", "stopping"} /\ ~stopping
        /\ cancel' = "sent" /\ EmergencyHalt
        /\ UNCHANGED cancelAll
     \/ /\ stage \in {"executing", "stopping"} /\ helpless' = TRUE
        /\ UNCHANGED <<cancelAll, cancel, halt>>
  /\ UNCHANGED <<Surroundings, ticket, requests, reply, outcome>>

Finish ==
  /\ GoesOn("finishing", "leaving")
  /\ status' = IF status = "canceling" THEN "canceled"
               ELSE IF success THEN "succeeded" ELSE "aborted"
  /\ UNCHANGED <<op, moving, picture, goal, busy, stopping, ticket, calls, trajectory>>

(* Mutant of Leaves: only a goal that was not canceled frees the server.     *)
LeavesHalfway ==
  /\ GoesOn("leaving", "idle")
  /\ busy' = (status = "canceled")
  /\ UNCHANGED <<op, moving, picture, goal, status, stopping, ticket, calls, trajectory>>

(* The destructor of Release.                                                *)
Leaves ==
  /\ GoesOn("leaving", "idle")
  /\ busy' = FALSE
  /\ UNCHANGED <<op, moving, picture, goal, status, stopping, ticket, calls, trajectory>>

Works ==
  \/ Validates \/ Waits \/ CopiesToken \/ Plans \/ Sends \/ GivesUp \/ Answered \/ Awaits
  \/ Cancels \/ Throws \/ Finish \/ Leaves

ArmNext ==
  \/ Resume \/ ResumeRecorded \/ Halted \/ HaltTaken \/ Learns \/ FallsSilent
  \/ Taken \/ Arrives \/ CancelTaken \/ Accepts \/ CancelGoal \/ Close \/ Works

(* The thread runs; all its waits have deadlines.                            *)
ArmFairness == WF_armVars(Works)

ArmSpec == ArmInit /\ [][ArmNext]_armVars /\ ArmFairness

-----------------------------------------------------------------------------
(* The variables have their types; the flag is set while a worker is at work,   *)
(* and what it leaves behind is an answer.                                   *)
ArmTypeOK ==
  /\ op \in 0..MaxOps /\ known \in [op : 0..MaxOps, running : BOOLEAN] /\ goal \in 0..MaxGoals
  /\ {moving, fresh, busy, stopping, success, cancelAll, halt, helpless} \subseteq BOOLEAN
  /\ status \in Statuses /\ stage \in ArmStages /\ ticket \in 0..MaxOps
  /\ requests \subseteq 1..MaxGoals /\ trajectory \in 0..MaxGoals
  /\ {reply, outcome, cancel} \subseteq Answers
  /\ busy <=> stage # "idle"
  /\ stage \in {"idle", "leaving"} <=> status \notin {"executing", "canceling"}

(* The worker that had a trajectory sent is still looking after it.          *)
LookedAfter == Current /\ stage \in {"accepting", "executing", "stopping"}

(* No trajectory is left running on its own.  If the JTC executes one whose    *)
(* worker has given up, a call that stops it is under way: a late acceptance   *)
(* that cancelling all goals came too early for is caught by the group halt    *)
(* (arm_goal_executor.cpp:201), unless the halt could not be had: refused,     *)
(* without a service, while closing, or because the calls themselves threw.    *)
Attended ==
  trajectory # Nothing => LookedAfter \/ halt \/ helpless

(* Every goal taken is answered and the server is free for the next one       *)
(* (arm_goal_executor.cpp:144), whichever way execute() is left.              *)
GoalAnswered == busy ~> ~busy /\ status \in {"succeeded", "aborted", "canceled"}
=============================================================================
