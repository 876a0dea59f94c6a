----------------------------- MODULE ServicesProofs --------------------------
(***************************************************************************)
(* The arm goal executor, the servo gate and the host bridge keep their       *)
(* promises for any number of goals, operations, calls and clients.          *)
(***************************************************************************)
EXTENDS MCServices, TLAPS

-----------------------------------------------------------------------------
(* The arm goal executor.                                                    *)

(* The worker has not sent the trajectory of its goal.                       *)
Unsent == stage \in {"validating", "waiting", "permitted", "planning", "planned"}

(* Nothing has been heard of the current goal's trajectory and the JTC does    *)
(* not have it.                                                              *)
Untouched == reply = "none" /\ outcome = "none" /\ trajectory # goal

(* Goals are numbered as they come.                                          *)
GoalsInOrder ==
  /\ requests \subseteq 1..goal /\ trajectory \in 0..goal
  /\ stage # "idle" => goal > 0

(* A goal is requested once, and answered after that.                        *)
RequestedOnce ==
  /\ Unsent => goal \notin requests /\ Untouched
  /\ goal \in requests => Untouched
  /\ outcome # "none" \/ reply = "no" => ~Current

(* A request that its worker no longer waits for finds a JTC that is down, or  *)
(* one that is about to be halted.                                           *)
OrphansMet ==
  \A r \in requests :
    (r = goal /\ stage = "accepting") \/ halt \/ helpless \/ ~moving

(* ArmTypeOK in three parts.                                                 *)
ArmKinds ==
  /\ {moving, fresh, busy, stopping, success, cancelAll, halt, helpless} \subseteq BOOLEAN
  /\ status \in Statuses /\ stage \in ArmStages
  /\ {reply, outcome, cancel} \subseteq Answers

ArmNumbers ==
  /\ op \in 0..MaxOps /\ known \in [op : 0..MaxOps, running : BOOLEAN]
  /\ goal \in 0..MaxGoals /\ ticket \in 0..MaxOps
  /\ requests \subseteq 1..MaxGoals /\ trajectory \in 0..MaxGoals

ArmPhases ==
  /\ busy <=> stage # "idle"
  /\ stage \in {"idle", "leaving"} <=> status \notin {"executing", "canceling"}

ArmInv ==
  /\ ArmKinds /\ ArmNumbers /\ ArmPhases
  /\ GoalsInOrder /\ RequestedOnce /\ OrphansMet /\ Attended

USE DEF picture, server, worker, calls, Surroundings, Nothing

(* What the invariant is for.                                                *)
LEMMA ArmImplied == ArmInv => ArmTypeOK /\ Attended
  BY DEF ArmInv, ArmTypeOK, ArmKinds, ArmNumbers, ArmPhases

(* Nothing is under way at first.                                           *)
LEMMA ArmInitInv == ArmInit => ArmInv
<1>1. ArmInit => ArmKinds /\ ArmPhases
  BY DEF ArmInit, ArmKinds, ArmPhases, Statuses, ArmStages, Answers
<1>2. ArmInit => ArmNumbers
  BY ArmAssumption DEF ArmAssumption, ArmInit, ArmNumbers
<1>3. ArmInit => GoalsInOrder /\ RequestedOnce /\ OrphansMet /\ Attended
  BY DEF ArmInit, GoalsInOrder, RequestedOnce, OrphansMet, Attended, Unsent
<1> QED
  BY <1>1, <1>2, <1>3 DEF ArmInv

(* The surroundings: a start waits until no request is on its way, so it wakes no*)
(* orphan; a halt takes the trajectory away.                                 *)
LEMMA ArmResume ==
  ASSUME ArmInv, Resume
  PROVE  ArmInv'
<1>1. (ArmKinds /\ ArmNumbers /\ ArmPhases)'
  BY ArmAssumption DEF ArmAssumption, ArmInv, ArmKinds, ArmNumbers, ArmPhases, Current, Resume
<1>2. (GoalsInOrder /\ RequestedOnce /\ OrphansMet /\ Attended)'
  BY DEF ArmInv, GoalsInOrder, RequestedOnce, OrphansMet, Attended, Unsent, Untouched,
         LookedAfter, Current, Resume
<1> QED
  BY <1>1, <1>2 DEF ArmInv

(* The operation is recorded: the arm moves, or is about to halt.           *)
LEMMA ArmResumeRecorded ==
  ASSUME ArmInv, ResumeRecorded
  PROVE  ArmInv'
<1>1. (ArmKinds /\ ArmNumbers /\ ArmPhases)'
  BY ArmAssumption
  DEF ArmAssumption, ArmInv, ArmKinds, ArmNumbers, ArmPhases, Current, ResumeRecorded
<1>2. (GoalsInOrder /\ RequestedOnce /\ OrphansMet /\ Attended)'
  BY DEF ArmInv, GoalsInOrder, RequestedOnce, OrphansMet, Attended, Unsent, Untouched,
         LookedAfter, Current, ResumeRecorded
<1> QED
  BY <1>1, <1>2 DEF ArmInv

(* A halt by somebody else: whatever the JTC had is aborted.                *)
LEMMA ArmHalted ==
  ASSUME ArmInv, Halted
  PROVE  ArmInv'
<1>1. (ArmKinds /\ ArmNumbers /\ ArmPhases)'
  <2>1. ArmKinds'
    BY DEF ArmInv, ArmKinds, Answers, Stops, Halted
  <2>2. ArmNumbers'
    BY ArmAssumption DEF ArmAssumption, ArmInv, ArmNumbers, Stops, Halted
  <2>3. ArmPhases'
    BY DEF ArmInv, ArmPhases, Halted
  <2> QED
    BY <2>1, <2>2, <2>3
<1>2. (GoalsInOrder /\ RequestedOnce /\ OrphansMet /\ Attended)'
  BY DEF ArmInv, ArmNumbers, GoalsInOrder, RequestedOnce, OrphansMet, Attended, Unsent,
         Untouched, Current, Stops, Halted
<1> QED
  BY <1>1, <1>2 DEF ArmInv

(* A halt that could not be had leaves its mark.                             *)
LEMMA ArmHaltTaken ==
  ASSUME ArmInv, HaltTaken
  PROVE  ArmInv'
<1>1. (ArmKinds /\ ArmNumbers /\ ArmPhases)'
  <2>1. ArmKinds'
    BY DEF ArmInv, ArmKinds, Answers, Stops, HaltTaken
  <2>2. ArmNumbers'
    BY ArmAssumption DEF ArmAssumption, ArmInv, ArmNumbers, Stops, HaltTaken
  <2>3. ArmPhases'
    BY DEF ArmInv, ArmPhases, HaltTaken
  <2> QED
    BY <2>1, <2>2, <2>3
<1>2. (GoalsInOrder /\ RequestedOnce /\ OrphansMet /\ Attended)'
  BY DEF ArmInv, ArmNumbers, GoalsInOrder, RequestedOnce, OrphansMet, Attended, Unsent,
         Untouched, Current, Stops, HaltTaken
<1> QED
  BY <1>1, <1>2 DEF ArmInv

(* The executor hears of the group's state.                                 *)
LEMMA ArmLearns ==
  ASSUME ArmInv, Learns
  PROVE  ArmInv'
<1>0. moving \in BOOLEAN
  BY DEF ArmInv, ArmKinds
<1>1. (ArmKinds /\ ArmNumbers /\ ArmPhases)'
  <2>1. ArmKinds'
    BY DEF ArmInv, ArmKinds, Current, Learns
  <2>2. ArmNumbers'
    BY <1>0 DEF ArmInv, ArmNumbers, Learns
  <2>3. ArmPhases'
    BY DEF ArmInv, ArmPhases, Learns
  <2> QED
    BY <2>1, <2>2, <2>3
<1>2. (GoalsInOrder /\ RequestedOnce /\ OrphansMet /\ Attended)'
  BY DEF ArmInv, GoalsInOrder, RequestedOnce, OrphansMet, Attended, Unsent, Untouched,
         LookedAfter, Current, Learns
<1> QED
  BY <1>1, <1>2 DEF ArmInv

(* It hears of it no longer.                                                *)
LEMMA ArmFallsSilent ==
  ASSUME ArmInv, FallsSilent
  PROVE  ArmInv'
<1>1. (ArmKinds /\ ArmNumbers /\ ArmPhases)'
  BY DEF ArmInv, ArmKinds, ArmNumbers, ArmPhases, FallsSilent
<1>2. (GoalsInOrder /\ RequestedOnce /\ OrphansMet /\ Attended)'
  BY DEF ArmInv, GoalsInOrder, RequestedOnce, OrphansMet, Attended, Unsent, Untouched,
         LookedAfter, Current, FallsSilent
<1> QED
  BY <1>1, <1>2 DEF ArmInv

(* An orphan that is taken runs on, and is still met by the halt under way.  *)
LEMMA ArmTaken ==
  ASSUME ArmInv, Taken
  PROVE  ArmInv'
<1>1. (ArmKinds /\ ArmNumbers /\ ArmPhases)'
  BY DEF ArmInv, ArmKinds, ArmNumbers, ArmPhases, Answers, Taken
<1>2. (GoalsInOrder /\ RequestedOnce /\ OrphansMet /\ Attended)'
  BY DEF ArmInv, GoalsInOrder, RequestedOnce, OrphansMet, Attended, Unsent, Untouched,
         LookedAfter, Current, Taken
<1> QED
  BY <1>1, <1>2 DEF ArmInv

(* The trajectory ends.                                                     *)
LEMMA ArmArrives ==
  ASSUME ArmInv, Arrives
  PROVE  ArmInv'
<1>1. (ArmKinds /\ ArmNumbers /\ ArmPhases)'
  BY ArmAssumption DEF ArmAssumption, ArmInv, ArmKinds, ArmNumbers, ArmPhases, Answers, Arrives
<1>2. (GoalsInOrder /\ RequestedOnce /\ OrphansMet /\ Attended)'
  BY DEF ArmInv, ArmNumbers, GoalsInOrder, RequestedOnce, OrphansMet, Attended, Unsent,
         Untouched, Current, Arrives
<1> QED
  BY <1>1, <1>2 DEF ArmInv

(* A cancel request reaches the JTC.                                        *)
LEMMA ArmCancelTaken ==
  ASSUME ArmInv, CancelTaken
  PROVE  ArmInv'
<1>1. (ArmKinds /\ ArmNumbers /\ ArmPhases)'
  <2>1. ArmKinds'
    BY DEF ArmInv, ArmKinds, Answers, CancelTaken
  <2>2. ArmNumbers'
    BY ArmAssumption DEF ArmAssumption, ArmInv, ArmNumbers, CancelTaken
  <2>3. ArmPhases'
    BY DEF ArmInv, ArmPhases, CancelTaken
  <2> QED
    BY <2>1, <2>2, <2>3
<1>2. (GoalsInOrder /\ RequestedOnce /\ OrphansMet /\ Attended)'
  BY DEF ArmInv, ArmNumbers, GoalsInOrder, RequestedOnce, OrphansMet, Attended, Unsent,
         Untouched, LookedAfter, Current, CancelTaken
<1> QED
  BY <1>1, <1>2 DEF ArmInv

(* The worker of a new goal has nothing to do with what the JTC still does.  *)
LEMMA ArmAccepts ==
  ASSUME ArmInv, Accepts
  PROVE  ArmInv'
<1>1. (ArmKinds /\ ArmNumbers /\ ArmPhases)'
  <2>1. ArmKinds'
    BY DEF ArmInv, ArmKinds, Statuses, ArmStages, Answers, Current, Accepts
  <2>2. ArmNumbers'
    BY ArmAssumption DEF ArmAssumption, ArmInv, ArmNumbers, Accepts
  <2>3. ArmPhases'
    BY DEF ArmInv, ArmPhases, Accepts
  <2> QED
    BY <2>1, <2>2, <2>3
<1>2. (GoalsInOrder /\ RequestedOnce /\ OrphansMet /\ Attended)'
  BY DEF ArmInv, ArmPhases, ArmNumbers, GoalsInOrder, RequestedOnce, OrphansMet, Attended,
         Untouched, LookedAfter, FreeFor, Accepts
<1> QED
  BY <1>1, <1>2 DEF ArmInv

(* The client cancels.                                                      *)
LEMMA ArmCancelGoal ==
  ASSUME ArmInv, CancelGoal
  PROVE  ArmInv'
<1>1. (ArmKinds /\ ArmNumbers /\ ArmPhases)'
  <2>1. ArmKinds'
    BY DEF ArmInv, ArmKinds, Statuses, Current, CancelGoal
  <2>2. ArmNumbers'
    BY DEF ArmInv, ArmNumbers, CancelGoal
  <2>3. ArmPhases'
    BY DEF ArmInv, ArmPhases, CancelGoal
  <2> QED
    BY <2>1, <2>2, <2>3
<1>2. (GoalsInOrder /\ RequestedOnce /\ OrphansMet /\ Attended)'
  BY DEF ArmInv, GoalsInOrder, RequestedOnce, OrphansMet, Attended, Unsent, Untouched,
         LookedAfter, Current, CancelGoal
<1> QED
  BY <1>1, <1>2 DEF ArmInv

(* The node closes.                                                         *)
LEMMA ArmClose ==
  ASSUME ArmInv, Close
  PROVE  ArmInv'
<1>1. (ArmKinds /\ ArmNumbers /\ ArmPhases)'
  <2>1. ArmKinds'
    BY DEF ArmInv, ArmKinds, Current, Close
  <2>2. ArmNumbers'
    BY DEF ArmInv, ArmNumbers, Close
  <2>3. ArmPhases'
    BY DEF ArmInv, ArmPhases, Close
  <2> QED
    BY <2>1, <2>2, <2>3
<1>2. (GoalsInOrder /\ RequestedOnce /\ OrphansMet /\ Attended)'
  BY DEF ArmInv, GoalsInOrder, RequestedOnce, OrphansMet, Attended, Unsent, Untouched,
         LookedAfter, Current, Close
<1> QED
  BY <1>1, <1>2 DEF ArmInv

(* The worker.  It leaves its trajectory behind only with a halt asked for, or*)
(* with the mark that none was to be had.                                    *)
LEMMA ArmValidates ==
  ASSUME ArmInv, Validates
  PROVE  ArmInv'
<1>1. (ArmKinds /\ ArmNumbers /\ ArmPhases)'
  BY DEF ArmInv, ArmKinds, ArmNumbers, ArmPhases, ArmStages, GoesOn, Finishes, Validates
<1>2. (GoalsInOrder /\ RequestedOnce /\ OrphansMet /\ Attended)'
  BY DEF ArmInv, GoalsInOrder, RequestedOnce, OrphansMet, Attended, Unsent, Untouched,
         LookedAfter, GoesOn, Validates
<1> QED
  BY <1>1, <1>2 DEF ArmInv

(* The worker waits for permission, ...                                     *)
LEMMA ArmWaits ==
  ASSUME ArmInv, Waits
  PROVE  ArmInv'
<1>1. (ArmKinds /\ ArmNumbers /\ ArmPhases)'
  BY DEF ArmInv, ArmKinds, ArmNumbers, ArmPhases, ArmStages, GoesOn, Finishes, Waits
<1>2. (GoalsInOrder /\ RequestedOnce /\ OrphansMet /\ Attended)'
  BY DEF ArmInv, GoalsInOrder, RequestedOnce, OrphansMet, Attended, Unsent, Untouched,
         LookedAfter, GoesOn, Waits
<1> QED
  BY <1>1, <1>2 DEF ArmInv

(* ... remembers the session it has got it in, ...                          *)
LEMMA ArmCopiesToken ==
  ASSUME ArmInv, CopiesToken
  PROVE  ArmInv'
<1>1. (ArmKinds /\ ArmNumbers /\ ArmPhases)'
  BY DEF ArmInv, ArmKinds, ArmNumbers, ArmPhases, ArmStages, GoesOn, CopiesToken
<1>2. (GoalsInOrder /\ RequestedOnce /\ OrphansMet /\ Attended)'
  BY DEF ArmInv, GoalsInOrder, RequestedOnce, OrphansMet, Attended, Unsent, Untouched,
         LookedAfter, GoesOn, CopiesToken
<1> QED
  BY <1>1, <1>2 DEF ArmInv

(* ... plans, ...                                                           *)
LEMMA ArmPlans ==
  ASSUME ArmInv, Plans
  PROVE  ArmInv'
<1>1. (ArmKinds /\ ArmNumbers /\ ArmPhases)'
  BY DEF ArmInv, ArmKinds, ArmNumbers, ArmPhases, ArmStages, GoesOn, Finishes, Plans
<1>2. (GoalsInOrder /\ RequestedOnce /\ OrphansMet /\ Attended)'
  BY DEF ArmInv, GoalsInOrder, RequestedOnce, OrphansMet, Attended, Unsent, Untouched,
         LookedAfter, GoesOn, Plans
<1> QED
  BY <1>1, <1>2 DEF ArmInv

(* The request is the only one of its goal, and its worker waits for it.     *)
LEMMA ArmSends ==
  ASSUME ArmInv, Sends
  PROVE  ArmInv'
<1>1. (ArmKinds /\ ArmNumbers /\ ArmPhases)'
  BY DEF ArmInv, ArmKinds, ArmNumbers, ArmPhases, ArmStages, GoalsInOrder, GoesOn, Sends
<1>2. (GoalsInOrder /\ RequestedOnce /\ OrphansMet /\ Attended)'
  BY DEF ArmInv, ArmNumbers, GoalsInOrder, RequestedOnce, OrphansMet, Attended, Unsent,
         Untouched, LookedAfter, GoesOn, Sends
<1> QED
  BY <1>1, <1>2 DEF ArmInv

(* ... gives up on an answer, and halts the group then, ...                 *)
LEMMA ArmGivesUp ==
  ASSUME ArmInv, GivesUp
  PROVE  ArmInv'
<1>1. (ArmKinds /\ ArmNumbers /\ ArmPhases)'
  BY DEF ArmInv, ArmKinds, ArmNumbers, ArmPhases, ArmStages, EmergencyHalt, Finishes, GivesUp
<1>2. (GoalsInOrder /\ RequestedOnce /\ OrphansMet /\ Attended)'
  BY DEF ArmInv, GoalsInOrder, RequestedOnce, OrphansMet, Attended, Unsent, Untouched, Current,
         EmergencyHalt, Finishes, GivesUp
<1> QED
  BY <1>1, <1>2 DEF ArmInv

(* ... or hears it, ...                                                     *)
LEMMA ArmAnswered ==
  ASSUME ArmInv, Answered
  PROVE  ArmInv'
<1>1. (ArmKinds /\ ArmNumbers /\ ArmPhases)'
  BY DEF ArmInv, ArmKinds, ArmNumbers, ArmPhases, ArmStages, GoesOn, Finishes, Answered
<1>2. (GoalsInOrder /\ RequestedOnce /\ OrphansMet /\ Attended)'
  BY DEF ArmInv, GoalsInOrder, RequestedOnce, OrphansMet, Attended, Unsent, Untouched,
         LookedAfter, Current, GoesOn, Finishes, Answered
<1> QED
  BY <1>1, <1>2 DEF ArmInv

(* ... waits for the result, ...                                            *)
LEMMA ArmAwaits ==
  ASSUME ArmInv, Awaits
  PROVE  ArmInv'
<1>1. (ArmKinds /\ ArmNumbers /\ ArmPhases)'
  BY DEF ArmInv, ArmKinds, ArmNumbers, ArmPhases, ArmStages, Answers, Finishes, Awaits
<1>2. (GoalsInOrder /\ RequestedOnce /\ OrphansMet /\ Attended)'
  BY DEF ArmInv, GoalsInOrder, RequestedOnce, OrphansMet, Attended, Unsent, Untouched,
         LookedAfter, Current, Finishes, Awaits
<1> QED
  BY <1>1, <1>2 DEF ArmInv

(* ... or cancels the trajectory, and waits for that.                       *)
LEMMA ArmCancels ==
  ASSUME ArmInv, Cancels
  PROVE  ArmInv'
<1>1. (ArmKinds /\ ArmNumbers /\ ArmPhases)'
  BY DEF ArmInv, ArmKinds, ArmNumbers, ArmPhases, ArmStages, EmergencyHalt, Finishes, Cancels
<1>2. (GoalsInOrder /\ RequestedOnce /\ OrphansMet /\ Attended)'
  BY DEF ArmInv, GoalsInOrder, RequestedOnce, OrphansMet, Attended, Unsent, Untouched,
         LookedAfter, Current, EmergencyHalt, Finishes, Cancels
<1> QED
  BY <1>1, <1>2 DEF ArmInv

(* An exception ends the goal.                                              *)
LEMMA ArmThrows ==
  ASSUME ArmInv, Throws
  PROVE  ArmInv'
<1>1. (ArmKinds /\ ArmNumbers /\ ArmPhases)'
  BY DEF ArmInv, ArmKinds, ArmNumbers, ArmPhases, ArmStages, Answers, EmergencyHalt, Finishes,
         Throws
<1>2. (GoalsInOrder /\ RequestedOnce /\ OrphansMet /\ Attended)'
  BY DEF ArmInv, GoalsInOrder, RequestedOnce, OrphansMet, Attended, Unsent, Untouched,
         LookedAfter, Current, EmergencyHalt, Finishes, Throws
<1> QED
  BY <1>1, <1>2 DEF ArmInv

(* The goal is answered.                                                    *)
LEMMA ArmFinish ==
  ASSUME ArmInv, Finish
  PROVE  ArmInv'
<1>1. (ArmKinds /\ ArmNumbers /\ ArmPhases)'
  BY DEF ArmInv, ArmKinds, ArmNumbers, ArmPhases, ArmStages, Statuses, GoesOn, Finish
<1>2. (GoalsInOrder /\ RequestedOnce /\ OrphansMet /\ Attended)'
  BY DEF ArmInv, GoalsInOrder, RequestedOnce, OrphansMet, Attended, Unsent, Untouched,
         LookedAfter, Current, GoesOn, Finish
<1> QED
  BY <1>1, <1>2 DEF ArmInv

(* The worker is gone.                                                      *)
LEMMA ArmLeaves ==
  ASSUME ArmInv, Leaves
  PROVE  ArmInv'
<1>1. (ArmKinds /\ ArmNumbers /\ ArmPhases)'
  BY DEF ArmInv, ArmKinds, ArmNumbers, ArmPhases, ArmStages, GoesOn, Leaves
<1>2. (GoalsInOrder /\ RequestedOnce /\ OrphansMet /\ Attended)'
  BY DEF ArmInv, GoalsInOrder, RequestedOnce, OrphansMet, Attended, Unsent, Untouched,
         LookedAfter, Current, GoesOn, Leaves
<1> QED
  BY <1>1, <1>2 DEF ArmInv

(* Every step keeps the invariant.                                           *)
LEMMA ArmStep == ArmInv /\ [ArmNext]_armVars => ArmInv'
<1> SUFFICES ASSUME ArmInv, [ArmNext]_armVars PROVE ArmInv'
  OBVIOUS
<1>1. CASE Works
  BY <1>1, ArmValidates, ArmWaits, ArmCopiesToken, ArmPlans, ArmSends, ArmGivesUp, ArmAnswered,
     ArmAwaits, ArmCancels, ArmThrows, ArmFinish, ArmLeaves
  DEF Works
<1>2. CASE ArmNext /\ ~Works
  BY <1>2, ArmResume, ArmResumeRecorded, ArmHalted, ArmHaltTaken, ArmLearns, ArmFallsSilent,
     ArmTaken, ArmArrives, ArmCancelTaken, ArmAccepts, ArmCancelGoal, ArmClose
  DEF ArmNext
<1>3. CASE UNCHANGED armVars
  BY <1>3
  DEF armVars, ArmInv, ArmKinds, ArmNumbers, ArmPhases, GoalsInOrder, RequestedOnce, OrphansMet,
      Attended, Unsent, Untouched, LookedAfter, Current
<1> QED
  BY <1>1, <1>2, <1>3

-----------------------------------------------------------------------------
(* The servo gate.                                                           *)

(* A command that nobody gave before the session the node knows.             *)
Recent(c) == c # 0 => c >= believed

(* What is in Servo, and what it makes of it, is recent.                      *)
Clean == Recent(feed) /\ Recent(result) /\ (serving => Recent(holds))

(* What the node knows is what it was told, and it asks for nothing else.     *)
TokensInOrder ==
  /\ believed <= report /\ report <= arm
  /\ \A i \in Slots : asked[i] # NoCall => asked[i].token <= believed

(* Servo has been stopped for this session: a stop for it is done, or a start  *)
(* is asked for.                                                             *)
Emptied(i) ==
  /\ asked[i] # NoCall /\ Matches(i)
  /\ asked[i].kind = "stop" => asked[i].at = "done"

(* ServoTypeOK in three parts.                                               *)
ServoKinds == {ready, pending, stateFresh, inputFresh, serving} \subseteq BOOLEAN

ServoTokens == {arm, report, believed, twist, feed, holds, result, moved} \subseteq Token

(* The calls to Servo.                                                      *)
Calls ==
  [kind : {"stop", "start"}, token : Token, at : {"asked", "done", "refused"}]

CallsTyped == asked \in [Slots -> {NoCall} \cup Calls]

(* A ready node has fed Servo nothing of an older session, ...              *)
CleanWhenReady == ready => Clean /\ Recent(twist)

(* ... nor has one whose Servo has been stopped.                            *)
CleanWhenEmptied == \A i \in Slots : Emptied(i) => Clean

ServoInv ==
  /\ ServoKinds /\ ServoTokens /\ CallsTyped
  /\ TokensInOrder /\ Fenced /\ CleanWhenReady /\ CleanWhenEmptied

USE DEF gateVars, moveVars

(* A slot without a call holds none.                                         *)
LEMMA NoCallIsNone == NoCall \notin Calls
  BY DEF NoCall, Calls

(* What the invariant is for.                                                *)
LEMMA ServoImplied == ServoInv => ServoTypeOK /\ Fenced
  BY DEF ServoInv, ServoTypeOK, ServoKinds, ServoTokens, CallsTyped, Calls

(* Nothing is fed to Servo at first.                                        *)
LEMMA ServoInitInv == ServoInit => ServoInv
<1>1. ServoInit => ServoKinds /\ ServoTokens /\ CallsTyped
  <2>1. ServoInit => ServoKinds /\ CallsTyped
    BY DEF ServoInit, ServoKinds, CallsTyped
  <2>2. ServoInit => ServoTokens
    BY ServoAssumption DEF ServoAssumption, ServoInit, ServoTokens, Token
  <2> QED
    BY <2>1, <2>2
<1>2. ServoInit => TokensInOrder /\ Fenced
  BY DEF ServoInit, TokensInOrder, Fenced
<1>3. ServoInit => CleanWhenReady /\ CleanWhenEmptied
  BY DEF ServoInit, CleanWhenReady, CleanWhenEmptied, Emptied
<1> QED
  BY <1>1, <1>2, <1>3 DEF ServoInv

(* Around the node: the numbers of sessions only grow, and Servo computes from*)
(* what it was given.                                                        *)
LEMMA GateArmChanges ==
  ASSUME ServoInv, ArmChanges
  PROVE  ServoInv'
<1>1. (ServoKinds /\ ServoTokens /\ CallsTyped)'
  BY ServoAssumption
  DEF ServoAssumption, ServoInv, ServoKinds, ServoTokens, Token, CallsTyped, ArmChanges
<1>2. (TokensInOrder /\ Fenced)'
  BY DEF ServoInv, ServoTokens, Token, TokensInOrder, Fenced, ArmChanges
<1>3. (CleanWhenReady /\ CleanWhenEmptied)'
  BY DEF ServoInv, CleanWhenReady, CleanWhenEmptied, Clean, Recent, Emptied, Matches, ArmChanges
<1> QED
  BY <1>1, <1>2, <1>3 DEF ServoInv

(* The node's session is reported.                                          *)
LEMMA GateReports ==
  ASSUME ServoInv, Reports
  PROVE  ServoInv'
<1>1. (ServoKinds /\ ServoTokens /\ CallsTyped)'
  BY DEF ServoInv, ServoKinds, ServoTokens, CallsTyped, Reports
<1>2. (TokensInOrder /\ Fenced)'
  BY DEF ServoInv, ServoTokens, Token, TokensInOrder, Fenced, Reports
<1>3. (CleanWhenReady /\ CleanWhenEmptied)'
  BY DEF ServoInv, CleanWhenReady, CleanWhenEmptied, Clean, Recent, Emptied, Matches, Reports
<1> QED
  BY <1>1, <1>2, <1>3 DEF ServoInv

(* The operator commands in the session the arm has.                        *)
LEMMA GateOperatorCommands ==
  ASSUME ServoInv, OperatorCommands
  PROVE  ServoInv'
<1>1. (ServoKinds /\ ServoTokens /\ CallsTyped)'
  BY DEF ServoInv, ServoKinds, ServoTokens, CallsTyped, OperatorCommands
<1>2. (TokensInOrder /\ Fenced)'
  BY DEF ServoInv, TokensInOrder, Fenced, OperatorCommands
<1>3. (CleanWhenReady /\ CleanWhenEmptied)'
  BY DEF ServoInv, ServoTokens, Token, TokensInOrder, CleanWhenReady, CleanWhenEmptied, Clean,
         Recent, Emptied, Matches, OperatorCommands
<1> QED
  BY <1>1, <1>2, <1>3 DEF ServoInv

(* Servo takes a command, ...                                               *)
LEMMA GateServoTakes ==
  ASSUME ServoInv, ServoTakes
  PROVE  ServoInv'
<1>1. (ServoKinds /\ ServoTokens /\ CallsTyped)'
  BY ServoAssumption
  DEF ServoAssumption, ServoInv, ServoKinds, ServoTokens, Token, CallsTyped, ServoTakes
<1>2. (TokensInOrder /\ Fenced)'
  BY DEF ServoInv, TokensInOrder, Fenced, ServoTakes
<1>3. (CleanWhenReady /\ CleanWhenEmptied)'
  BY DEF ServoInv, CleanWhenReady, CleanWhenEmptied, Clean, Recent, Emptied, Matches, ServoTakes
<1> QED
  BY <1>1, <1>2, <1>3 DEF ServoInv

(* ... and computes from it.                                                *)
LEMMA GateServoComputes ==
  ASSUME ServoInv, ServoComputes
  PROVE  ServoInv'
<1>1. (ServoKinds /\ ServoTokens /\ CallsTyped)'
  <2>1. ServoKinds'
    BY DEF ServoInv, ServoKinds, ServoComputes
  <2>2. ServoTokens'
    BY DEF ServoInv, ServoTokens, ServoComputes
  <2>3. CallsTyped'
    BY DEF ServoInv, CallsTyped, ServoComputes
  <2> QED
    BY <2>1, <2>2, <2>3
<1>2. (TokensInOrder /\ Fenced)'
  BY DEF ServoInv, TokensInOrder, Fenced, ServoComputes
<1>3. (CleanWhenReady /\ CleanWhenEmptied)'
  BY DEF ServoInv, CleanWhenReady, CleanWhenEmptied, Clean, Recent, Emptied, Matches,
         ServoComputes
<1> QED
  BY <1>1, <1>2, <1>3 DEF ServoInv

(* An age exceeds its limit.                                                *)
LEMMA GateTimePasses ==
  ASSUME ServoInv, TimePasses
  PROVE  ServoInv'
<1>1. (ServoKinds /\ ServoTokens /\ CallsTyped)'
  <2>1. ServoKinds'
    BY DEF ServoInv, ServoKinds, TimePasses
  <2>2. ServoTokens'
    BY DEF ServoInv, ServoTokens, TimePasses
  <2>3. CallsTyped'
    BY DEF ServoInv, CallsTyped, TimePasses
  <2> QED
    BY <2>1, <2>2, <2>3
<1>2. (TokensInOrder /\ Fenced)'
  BY DEF ServoInv, TokensInOrder, Fenced, TimePasses
<1>3. (CleanWhenReady /\ CleanWhenEmptied)'
  BY DEF ServoInv, CleanWhenReady, CleanWhenEmptied, Clean, Recent, Emptied, Matches, TimePasses
<1> QED
  BY <1>1, <1>2, <1>3 DEF ServoInv

(* A new session: no call was made for it yet, the gate is closed and the arm*)
(* is held.                                                                  *)
LEMMA GateHearsState ==
  ASSUME ServoInv, HearsState
  PROVE  ServoInv'
<1>1. (ServoKinds /\ ServoTokens /\ CallsTyped)'
  <2>1. ServoKinds'
    BY DEF ServoInv, ServoKinds, TryStart, HearsState
  <2>2. ServoTokens'
    BY ServoAssumption DEF ServoAssumption, ServoInv, ServoTokens, Token, TryStart, HearsState
  <2>3. CallsTyped'
    BY DEF ServoInv, CallsTyped, Calls, ServoTokens, TryStart, Ask, HearsState
  <2> QED
    BY <2>1, <2>2, <2>3
<1>2. (TokensInOrder /\ Fenced)'
  <2>1. TokensInOrder'
    BY DEF ServoInv, ServoTokens, Token, CallsTyped, Calls, TokensInOrder, TryStart, Ask,
           HearsState
  <2>2. Fenced'
    BY DEF ServoInv, Fenced, HearsState
  <2> QED
    BY <2>1, <2>2
<1>3. (CleanWhenReady /\ CleanWhenEmptied)'
  BY DEF ServoInv, ServoTokens, Token, CallsTyped, TokensInOrder, CleanWhenReady,
         CleanWhenEmptied, Clean, Recent, Emptied, Matches, TryStart, Ask, HearsState
<1> QED
  BY <1>1, <1>2, <1>3 DEF ServoInv

(* A command goes to Servo.                                                 *)
LEMMA GateTwist ==
  ASSUME ServoInv, Twist
  PROVE  ServoInv'
<1>1. (ServoKinds /\ ServoTokens /\ CallsTyped)'
  <2>1. ServoKinds'
    BY DEF ServoInv, ServoKinds, Twist
  <2>2. ServoTokens'
    BY ServoAssumption DEF ServoAssumption, ServoInv, ServoTokens, Token, Twist
  <2>3. CallsTyped'
    BY DEF ServoInv, CallsTyped, Twist
  <2> QED
    BY <2>1, <2>2, <2>3
<1>2. (TokensInOrder /\ Fenced)'
  <2>1. TokensInOrder'
    BY DEF ServoInv, TokensInOrder, Twist
  <2>2. Fenced'
    BY DEF ServoInv, Fenced, Twist
  <2> QED
    BY <2>1, <2>2
<1>3. (CleanWhenReady /\ CleanWhenEmptied)'
  BY DEF ServoInv, CleanWhenReady, CleanWhenEmptied, Clean, Recent, Emptied, Matches, Twist
<1> QED
  BY <1>1, <1>2, <1>3 DEF ServoInv

(* What Servo has computed goes on to the arm.                              *)
LEMMA GateCommand ==
  ASSUME ServoInv, Command
  PROVE  ServoInv'
<1>1. (ServoKinds /\ ServoTokens /\ CallsTyped)'
  <2>1. ServoKinds'
    BY DEF ServoInv, ServoKinds, Command
  <2>2. ServoTokens'
    BY ServoAssumption DEF ServoAssumption, ServoInv, ServoTokens, Token, Command
  <2>3. CallsTyped'
    BY DEF ServoInv, CallsTyped, Command
  <2> QED
    BY <2>1, <2>2, <2>3
<1>2. (TokensInOrder /\ Fenced)'
  <2>1. TokensInOrder'
    BY DEF ServoInv, TokensInOrder, Command
  <2>2. Fenced'
    BY DEF ServoInv, Fenced, Clean, CleanWhenReady, Recent, Attentive, Command
  <2> QED
    BY <2>1, <2>2
<1>3. (CleanWhenReady /\ CleanWhenEmptied)'
  BY DEF ServoInv, CleanWhenReady, CleanWhenEmptied, Clean, Recent, Emptied, Matches, Command
<1> QED
  BY <1>1, <1>2, <1>3 DEF ServoInv

(* The watchdog tries again, or holds the arm still.                        *)
LEMMA GateWatches ==
  ASSUME ServoInv, Watches
  PROVE  ServoInv'
<1>1. (ServoKinds /\ ServoTokens /\ CallsTyped)'
  <2>1. ServoKinds'
    BY DEF ServoInv, ServoKinds, TryStart, Watches
  <2>2. ServoTokens'
    BY ServoAssumption DEF ServoAssumption, ServoInv, ServoTokens, Token, Watches
  <2>3. CallsTyped'
    BY DEF ServoInv, CallsTyped, Calls, ServoTokens, TryStart, Ask, Watches
  <2> QED
    BY <2>1, <2>2, <2>3
<1>2. (TokensInOrder /\ Fenced)'
  <2>1. TokensInOrder'
    BY DEF ServoInv, ServoTokens, Token, CallsTyped, TokensInOrder, TryStart, Ask, Watches
  <2>2. Fenced'
    BY DEF ServoInv, Fenced, Watches
  <2> QED
    BY <2>1, <2>2
<1>3. (CleanWhenReady /\ CleanWhenEmptied)'
  BY DEF ServoInv, CallsTyped, CleanWhenReady, CleanWhenEmptied, Clean, Recent, Emptied,
         Matches, TryStart, Ask, Watches
<1> QED
  BY <1>1, <1>2, <1>3 DEF ServoInv

(* A stop that is done leaves Servo empty; so does a start, of what it held. *)
LEMMA GateServoServes ==
  ASSUME ServoInv, NEW n \in Slots, ServoServes(n)
  PROVE  ServoInv'
<1>1. (ServoKinds /\ ServoTokens /\ CallsTyped)'
  <2>1. ServoKinds'
    BY DEF ServoInv, ServoKinds, ServoServes
  <2>2. ServoTokens'
    BY ServoAssumption DEF ServoAssumption, ServoInv, ServoTokens, Token, ServoServes
  <2>3. CallsTyped'
    BY DEF ServoInv, CallsTyped, Calls, ServoServes
  <2> QED
    BY <2>1, <2>2, <2>3
<1>2. (TokensInOrder /\ Fenced)'
  BY DEF ServoInv, CallsTyped, Calls, TokensInOrder, Fenced, ServoServes
<1>3. (CleanWhenReady /\ CleanWhenEmptied)'
  BY DEF ServoInv, CallsTyped, Calls, CleanWhenReady, CleanWhenEmptied, Clean, Recent, Emptied,
         Matches, ServoServes
<1> QED
  BY <1>1, <1>2, <1>3 DEF ServoInv

(* The reply to a stop.                                                     *)
LEMMA GateStopReplied ==
  ASSUME ServoInv, NEW n \in Slots, StopReplied(n)
  PROVE  ServoInv'
<1>1. (ServoKinds /\ ServoTokens /\ CallsTyped)'
  <2>1. ServoKinds'
    BY DEF ServoInv, ServoKinds, StopReplied
  <2>2. ServoTokens'
    BY DEF ServoInv, ServoTokens, StopReplied
  <2>3. CallsTyped'
    BY DEF ServoInv, CallsTyped, Calls, Replied, Forgets, Ask, StopReplied
  <2> QED
    BY <2>1, <2>2, <2>3
<1>2. (TokensInOrder /\ Fenced)'
  BY DEF ServoInv, CallsTyped, TokensInOrder, Fenced, Replied, Forgets, Ask, StopReplied
<1>3. (CleanWhenReady /\ CleanWhenEmptied)'
  BY DEF ServoInv, CallsTyped, CleanWhenReady, CleanWhenEmptied, Clean, Recent, Emptied,
         Matches, Replied, Forgets, StopReplied
<1> QED
  BY <1>1, <1>2, <1>3 DEF ServoInv

(* The gate opens for the session the start was for, after its stop.         *)
LEMMA GateStartReplied ==
  ASSUME ServoInv, NEW n \in Slots, StartReplied(n)
  PROVE  ServoInv'
<1>1. (ServoKinds /\ ServoTokens /\ CallsTyped)'
  <2>1. ServoKinds'
    BY DEF ServoInv, ServoKinds, StartReplied
  <2>2. ServoTokens'
    BY ServoAssumption DEF ServoAssumption, ServoInv, ServoTokens, Token, StartReplied
  <2>3. CallsTyped'
    BY DEF ServoInv, CallsTyped, Forgets, StartReplied
  <2> QED
    BY <2>1, <2>2, <2>3
<1>2. (TokensInOrder /\ Fenced)'
  BY DEF ServoInv, TokensInOrder, Fenced, Forgets, StartReplied
<1>3. (CleanWhenReady /\ CleanWhenEmptied)'
  BY DEF ServoInv, CleanWhenReady, CleanWhenEmptied, Clean, Recent, Emptied, Matches, Replied,
         Forgets, StartReplied
<1> QED
  BY <1>1, <1>2, <1>3 DEF ServoInv

(* Every step keeps the invariant.                                           *)
LEMMA ServoStep == ServoInv /\ [ServoNext]_servoVars => ServoInv'
<1> SUFFICES ASSUME ServoInv, [ServoNext]_servoVars PROVE ServoInv'
  OBVIOUS
<1>1. CASE ServoNext
  BY <1>1, GateArmChanges, GateReports, GateOperatorCommands, GateServoTakes, GateServoComputes,
     GateTimePasses, GateHearsState, GateTwist, GateCommand, GateWatches, GateServoServes,
     GateStopReplied, GateStartReplied
  DEF ServoNext
<1>2. CASE UNCHANGED servoVars
  BY <1>2
  DEF servoVars, ServoInv, ServoKinds, ServoTokens, CallsTyped, TokensInOrder, Fenced,
      CleanWhenReady, CleanWhenEmptied, Clean, Recent, Emptied, Matches
<1> QED
  BY <1>1, <1>2

-----------------------------------------------------------------------------
(* The host bridge.                                                          *)

BridgeStages == {"rest", "checked", "alarm", "toggle", "compute", "note"} \cup ControlModes

Publications == [topic : Topics, moving : BOOLEAN]

TaskTypeOK == task \in [Threads -> [at : BridgeStages, plan : Seq(Publications)]]

(* A publication that thread t has still to do.                              *)
Planned(t, topic, moves) ==
  \E k \in 1..Len(task[t].plan) : task[t].plan[k] = Publication(topic, moves)

(* Some thread is going to stop the topic.                                   *)
WillStop(topic) == \E t \in Threads : Planned(t, topic, FALSE)

(* A client's input has been obeyed and its time is about to be noted.         *)
Noting == \E c \in Clients : task[c].at = "note"

(* Only an input that is going to be noted moves anything.                   *)
MovesNoted ==
  \A t \in Threads, topic \in Topics :
    Planned(t, topic, TRUE) => t \in Clients /\ task[t].at = "note"

(* A topic that moves is about to be stopped, or an input is or will be noted  *)
(* and the watchdog has not fired since without its being recorded.          *)
Guarded ==
  /\ Handling => ~fired \/ overtaken
  /\ \A topic \in Topics :
       commanded[topic] => WillStop(topic) \/ Noting \/ (noted /\ (~fired \/ overtaken))

BridgeInv == BridgeTypeOK /\ TaskTypeOK /\ MovesNoted /\ Guarded

(* There are two modes.                                                      *)
LEMMA OppositeMode == \A mode \in ControlModes : Opposite(mode) \in ControlModes
  BY DEF Opposite, ControlModes

(* publish_zero() moves nothing and stops every topic.                       *)
LEMMA ZeroPlan ==
  /\ Zero \in Seq(Publications)
  /\ \A k \in 1..Len(Zero) : ~Zero[k].moving
  /\ \A topic \in Topics : \E k \in 1..Len(Zero) : Zero[k] = Publication(topic, FALSE)
<1>1. /\ Len(Zero) = 2 /\ Zero[1] = Publication("body", FALSE)
      /\ Zero[2] = Publication("gripper", FALSE)
  BY DEF Zero
<1>2. Zero \in Seq(Publications)
  BY DEF Zero, Publications, Publication, Topics
<1> QED
  BY <1>1, <1>2 DEF Publication, Topics

(* An input tells each topic at most once.                                   *)
LEMMA OutputsPlan ==
  ASSUME BridgeTypeOK, NEW moves \in BOOLEAN
  PROVE  Outputs(moves) \in Seq(Publications)
<1> DEFINE first == <<Publication("body", moves)>>
           second == IF control = "vehicle" THEN << >>
                      ELSE <<Publication("gripper", moves /\ noted)>>
<1>1. first \in Seq(Publications)
  BY DEF Publications, Publication, Topics
<1>2. second \in Seq(Publications)
  <2>1. (moves /\ noted) \in BOOLEAN
    OBVIOUS
  <2>2. Publication("gripper", moves /\ noted) \in Publications
    BY DEF Publications, Publication, Topics
  <2> QED
    BY <2>2
<1>3. Outputs(moves) = first \o second
  BY DEF Outputs
<1> HIDE DEF first, second
<1> QED
  BY <1>1, <1>2, <1>3

(* A thread that has nothing left to publish takes up something new: what other*)
(* threads are going to stop stays planned.                                  *)
LEMMA Replanned ==
  ASSUME TaskTypeOK, MovesNoted, NEW t \in Threads, NEW place \in BridgeStages,
         NEW plan \in Seq(Publications), task[t].plan = << >>,
         task' = [task EXCEPT ![t] = Task(place, plan)],
         (place = "note" /\ t \in Clients) \/ \A k \in 1..Len(plan) : ~plan[k].moving
  PROVE  /\ TaskTypeOK' /\ MovesNoted'
         /\ task'[t] = Task(place, plan) /\ \A u \in Threads \ {t} : task'[u] = task[u]
         /\ \A topic \in Topics : WillStop(topic) => WillStop(topic)'
<1>1. /\ task'[t] = Task(place, plan) /\ \A u \in Threads \ {t} : task'[u] = task[u]
      /\ task'[t].at = place /\ task'[t].plan = plan
  BY DEF TaskTypeOK, Task
<1>2. TaskTypeOK'
  BY DEF TaskTypeOK, Task
<1>3. MovesNoted'
  <2>1. SUFFICES ASSUME NEW u \in Threads, NEW topic \in Topics, Planned(u, topic, TRUE)'
                 PROVE  u \in Clients /\ task'[u].at = "note"
    BY DEF MovesNoted
  <2>2. CASE u = t
    BY <1>1, <2>1, <2>2 DEF Planned, Publication
  <2>3. CASE u # t
    BY <1>1, <2>1, <2>3 DEF Planned, MovesNoted
  <2> QED
    BY <2>2, <2>3
<1>4. \A topic \in Topics : WillStop(topic) => WillStop(topic)'
  <2>1. \A topic : ~Planned(t, topic, FALSE)
    BY DEF Planned
  <2> QED
    BY <1>1, <2>1 DEF WillStop, Planned
<1> QED
  BY <1>1, <1>2, <1>3, <1>4

(* Only the stage changes.                                                   *)
LEMMA GoesAt ==
  ASSUME TaskTypeOK, NEW t \in Threads, NEW place, task' = [task EXCEPT ![t].at = place],
         task[t].plan = << >>
  PROVE  task' = [task EXCEPT ![t] = Task(place, << >>)]
<1>1. [task[t] EXCEPT !.at = place] = Task(place, << >>)
  BY DEF TaskTypeOK, Task
<1> QED
  BY <1>1

(* After publish_zero() every topic is going to be stopped.                  *)
LEMMA ZeroedStep ==
  ASSUME TaskTypeOK, MovesNoted, NEW t \in Threads, NEW place \in BridgeStages,
         task[t].plan = << >>, task' = [task EXCEPT ![t] = Task(place, Zero)]
  PROVE  /\ TaskTypeOK' /\ MovesNoted'
         /\ task'[t].at = place /\ \A u \in Threads \ {t} : task'[u] = task[u]
         /\ \A topic \in Topics : WillStop(topic)'
<1>1. /\ TaskTypeOK' /\ MovesNoted'
      /\ task'[t] = Task(place, Zero) /\ \A u \in Threads \ {t} : task'[u] = task[u]
  BY Replanned, ZeroPlan
<1>2. task'[t].plan = Zero /\ task'[t].at = place
  BY <1>1 DEF Task
<1>3. \A topic \in Topics : Planned(t, topic, FALSE)'
  BY <1>2, ZeroPlan DEF Planned
<1> QED
  BY <1>1, <1>2, <1>3 DEF WillStop

(* A new stage and no publication.                                           *)
LEMMA PlainStep ==
  ASSUME TaskTypeOK, MovesNoted, NEW t \in Threads, NEW place \in BridgeStages,
         task[t].plan = << >>, task' = [task EXCEPT ![t].at = place]
  PROVE  /\ TaskTypeOK' /\ MovesNoted'
         /\ task'[t].at = place /\ \A u \in Threads \ {t} : task'[u] = task[u]
         /\ \A topic \in Topics : WillStop(topic) => WillStop(topic)'
<1>1. << >> \in Seq(Publications) /\ \A k \in 1..Len(<< >>) : ~(<< >>)[k].moving
  OBVIOUS
<1>2. task' = [task EXCEPT ![t] = Task(place, << >>)]
  BY GoesAt
<1>3. /\ TaskTypeOK' /\ MovesNoted'
      /\ task'[t] = Task(place, << >>) /\ \A u \in Threads \ {t} : task'[u] = task[u]
      /\ \A topic \in Topics : WillStop(topic) => WillStop(topic)'
  BY <1>1, <1>2, Replanned
<1> QED
  BY <1>3 DEF Task

(* Nothing is commanded at first.                                           *)
LEMMA BridgeInitInv == BridgeInit => BridgeInv
<1> SUFFICES ASSUME BridgeInit PROVE BridgeInv
  OBVIOUS
<1>1. BridgeTypeOK /\ TaskTypeOK
  <2>1. << >> \in Seq(Publications)
    OBVIOUS
  <2> QED
    BY <2>1 DEF BridgeInit, BridgeTypeOK, ControlModes, TaskTypeOK, Resting, Task, BridgeStages
<1>2. MovesNoted
  BY DEF BridgeInit, MovesNoted, Planned, Resting, Task
<1>3. Guarded
  BY DEF BridgeInit, Guarded
<1> QED
  BY <1>1, <1>2, <1>3 DEF BridgeInv

(* When all threads rest nothing is planned and nothing is noted any more.   *)
LEMMA BridgeImplied == BridgeInv => BridgeTypeOK /\ WatchdogGuards
<1> SUFFICES ASSUME BridgeInv, \A t \in Threads : task[t] = Resting, ~Still
             PROVE  (noted /\ ~fired) \/ overtaken
  BY DEF BridgeInv, WatchdogGuards
<1>1. PICK topic \in Topics : commanded[topic]
  BY DEF Still
<1>2. ~WillStop(topic)
  <2>1. \A t \in Threads : 1..Len(task[t].plan) = {}
    BY DEF Resting, Task
  <2> QED
    BY <2>1 DEF WillStop, Planned
<1>3. ~Noting
  BY DEF Noting, Resting, Task, Threads
<1> QED
  BY <1>1, <1>2, <1>3 DEF BridgeInv, Guarded

(* A publication that moves a topic is one of an input that will be noted; one*)
(* that stops it is no longer needed for that topic.                         *)
LEMMA BridgeSendsNext ==
  ASSUME BridgeInv, NEW t \in Threads, SendsNext(t)
  PROVE  BridgeInv'
<1> DEFINE plan == task[t].plan
<1>1. plan \in Seq(Publications) /\ plan # << >> /\ task[t].at \in BridgeStages
  BY DEF BridgeInv, TaskTypeOK, SendsNext
<1>2. /\ Head(plan) = plan[1] /\ Head(plan) \in Publications /\ Tail(plan) \in Seq(Publications)
      /\ Len(plan) \in Nat \ {0} /\ Len(Tail(plan)) = Len(plan) - 1
      /\ \A k \in 1..Len(Tail(plan)) : Tail(plan)[k] = plan[k + 1]
  BY <1>1
<1>3. /\ task'[t].at = task[t].at /\ task'[t].plan = Tail(plan)
      /\ \A u \in Threads \ {t} : task'[u] = task[u]
  BY DEF SendsNext, BridgeInv, TaskTypeOK
<1>4. TaskTypeOK'
  BY <1>2 DEF SendsNext, BridgeInv, TaskTypeOK
<1>5. BridgeTypeOK'
  BY <1>2 DEF SendsNext, BridgeInv, BridgeTypeOK, Publications
<1>6. \A u \in Threads : \A topic, moves :
        Planned(u, topic, moves)' => Planned(u, topic, moves)
  <2>1. SUFFICES ASSUME NEW topic, NEW moves, Planned(t, topic, moves)'
                 PROVE  Planned(t, topic, moves)
    BY <1>3 DEF Planned
  <2>2. PICK k \in 1..Len(Tail(plan)) : Tail(plan)[k] = Publication(topic, moves)
    BY <1>3, <2>1 DEF Planned
  <2>3. k + 1 \in 1..Len(plan) /\ plan[k + 1] = Publication(topic, moves)
    BY <2>2
  <2> QED
    BY <2>3 DEF Planned
<1>7. \A u \in Threads : task'[u].at = task[u].at
  BY <1>3
<1>8. MovesNoted'
  BY <1>6, <1>7 DEF BridgeInv, MovesNoted
<1>9. Guarded'
  <2>1. (Handling' <=> Handling) /\ (Noting' <=> Noting)
    BY <1>7 DEF Handling, Noting, Threads
  <2>2. SUFFICES ASSUME NEW topic \in Topics, commanded'[topic]
                 PROVE  WillStop(topic)' \/ Noting \/ (noted /\ (~fired \/ overtaken))
    BY <2>1 DEF SendsNext, BridgeInv, Guarded
  <2>3. CASE Head(plan).topic = topic
    <3>1. Head(plan) = Publication(topic, TRUE)
      BY <1>2, <2>2, <2>3 DEF SendsNext, BridgeInv, BridgeTypeOK, Publications, Publication
    <3>2. 1 \in 1..Len(plan)
      BY <1>2
    <3>3. Planned(t, topic, TRUE)
      BY <1>2, <3>1, <3>2 DEF Planned
    <3> QED
      BY <3>3 DEF BridgeInv, MovesNoted, Noting
  <2>4. CASE Head(plan).topic # topic
    <3>1. commanded[topic]
      BY <2>2, <2>4 DEF SendsNext, BridgeInv
    <3>2. ASSUME WillStop(topic) PROVE WillStop(topic)'
      <4>1. PICK u \in Threads : Planned(u, topic, FALSE)
        BY <3>2 DEF WillStop
      <4>2. CASE u = t
        <5>1. PICK k \in 1..Len(plan) : plan[k] = Publication(topic, FALSE)
          BY <4>1, <4>2 DEF Planned
        <5>2. k # 1
          BY <2>4, <5>1 DEF Publication
        <5>3. k - 1 \in 1..Len(Tail(plan)) /\ (k - 1) + 1 = k
          BY <5>2
        <5>4. Tail(plan)[k - 1] = Publication(topic, FALSE)
          BY <1>2, <5>1, <5>3
        <5> QED
          BY <1>3, <5>3, <5>4 DEF WillStop, Planned
      <4>3. CASE u # t
        BY <1>3, <4>1, <4>3 DEF WillStop, Planned
      <4> QED
        BY <4>2, <4>3
    <3> QED
      BY <3>1, <3>2 DEF BridgeInv, Guarded
  <2> QED
    BY <2>3, <2>4
<1> QED
  BY <1>4, <1>5, <1>8, <1>9 DEF BridgeInv

(* Whoever stops everything keeps the invariant, whether the watchdog has fired*)
(* or not.                                                                   *)
LEMMA Zeroing ==
  ASSUME BridgeInv, NEW t \in Threads, NEW place \in BridgeStages, task[t].plan = << >>,
         ZeroesTo(t, place), Handling' => ~fired' \/ overtaken'
  PROVE  TaskTypeOK' /\ MovesNoted' /\ Guarded' /\ (DOMAIN task = Threads)'
<1>1. TaskTypeOK' /\ MovesNoted' /\ \A topic \in Topics : WillStop(topic)'
  BY ZeroedStep DEF BridgeInv, ZeroesTo
<1> QED
  BY <1>1 DEF Guarded, TaskTypeOK

(* The same for a thread that rests before and after.                        *)
LEMMA ZeroingRest ==
  ASSUME BridgeInv, NEW t \in Threads, task[t] = Resting, Zeroes(t),
         ~fired' \/ UNCHANGED <<fired, overtaken>> \/ overtaken' = Handling
  PROVE  TaskTypeOK' /\ MovesNoted' /\ Guarded' /\ (DOMAIN task = Threads)'
<1>1. task[t].plan = << >> /\ task[t].at = "rest" /\ "rest" \in BridgeStages
  BY DEF Resting, Task, BridgeStages
<1>2. \A u \in Threads : task'[u].at = task[u].at
  BY <1>1 DEF BridgeInv, Zeroes, ZeroesTo, Task
<1>3. Handling' <=> Handling
  BY <1>2 DEF Handling, Threads
<1> QED
  BY <1>1, <1>3, Zeroing DEF BridgeInv, Guarded, Zeroes

(* The emergency key: everything is going to be stopped.                    *)
LEMMA BridgeStopKey ==
  ASSUME BridgeInv, NEW c \in Clients, StopKey(c)
  PROVE  BridgeInv'
<1>1. c \in Threads /\ task[c].plan = << >> /\ "rest" \in BridgeStages
  BY DEF Threads, StopKey, Due, Task, BridgeStages
<1>2. TaskTypeOK' /\ MovesNoted' /\ Guarded' /\ (DOMAIN task = Threads)'
  BY <1>1, Zeroing DEF StopKey, Zeroes
<1> QED
  BY <1>2 DEF StopKey, BridgeInv, BridgeTypeOK

(* A change of the mode: everything is going to be stopped.                 *)
LEMMA BridgeToggles ==
  ASSUME BridgeInv, NEW c \in Clients, Toggles(c)
  PROVE  BridgeInv'
<1>1. /\ c \in Threads /\ task[c].plan = << >> /\ task[c].at = "toggle"
      /\ control' \in BridgeStages /\ control' \in ControlModes
  BY DEF Threads, Toggles, Due, Task, BridgeStages
<1>2. ~fired' \/ overtaken'
  BY <1>1 DEF BridgeInv, Guarded, Handling, Toggles
<1>3. TaskTypeOK' /\ MovesNoted' /\ Guarded' /\ (DOMAIN task = Threads)'
  BY <1>1, <1>2, Zeroing DEF Toggles
<1> QED
  BY <1>3 DEF Toggles, BridgeInv, BridgeTypeOK

(* An emergency message, ...                                                *)
LEMMA BridgeEmergencyStop ==
  ASSUME BridgeInv, NEW c \in Clients, EmergencyStop(c)
  PROVE  BridgeInv'
<1>1. TaskTypeOK' /\ MovesNoted' /\ Guarded' /\ (DOMAIN task = Threads)'
  BY ZeroingRest DEF EmergencyStop, Threads
<1> QED
  BY <1>1 DEF EmergencyStop, BridgeInv, BridgeTypeOK

(* The mode is set.                                                         *)
LEMMA BridgeSetMode ==
  ASSUME BridgeInv, NEW c \in Clients, SetMode(c)
  PROVE  BridgeInv'
<1>1. TaskTypeOK' /\ MovesNoted' /\ Guarded' /\ (DOMAIN task = Threads)'
  BY ZeroingRest DEF SetMode, Threads
<1> QED
  BY <1>1 DEF SetMode, BridgeInv, BridgeTypeOK

(* A client leaves: everything is going to be stopped.                      *)
LEMMA BridgeClientLeaves ==
  ASSUME BridgeInv, NEW c \in Clients, ClientLeaves(c)
  PROVE  BridgeInv'
<1>1. TaskTypeOK' /\ MovesNoted' /\ Guarded' /\ (DOMAIN task = Threads)'
  BY ZeroingRest DEF ClientLeaves, Threads
<1> QED
  BY <1>1 DEF ClientLeaves, BridgeInv, BridgeTypeOK

(* The input is forgotten.                                                  *)
LEMMA BridgeResetsInput ==
  ASSUME BridgeInv, NEW t \in Threads, ResetsInput(t)
  PROVE  BridgeInv'
<1>1. TaskTypeOK' /\ MovesNoted' /\ Guarded' /\ (DOMAIN task = Threads)'
  BY ZeroingRest DEF ResetsInput
<1> QED
  BY <1>1 DEF ResetsInput, BridgeInv, BridgeTypeOK

(* If it fires while an input is handled that is recorded.                   *)
LEMMA BridgeFires ==
  ASSUME BridgeInv, Fires
  PROVE  BridgeInv'
<1>1. TaskTypeOK' /\ MovesNoted' /\ Guarded' /\ (DOMAIN task = Threads)'
  BY ZeroingRest DEF Fires, Threads
<1>2. Handling \in BOOLEAN
  BY DEF Handling
<1> QED
  BY <1>1, <1>2 DEF Fires, BridgeInv, BridgeTypeOK

(* ... and the one that ends it.                                            *)
LEMMA BridgeClearEmergency ==
  ASSUME BridgeInv, NEW c \in Clients, ClearEmergency(c)
  PROVE  BridgeInv'
<1>1. BridgeTypeOK'
  BY DEF ClearEmergency, BridgeInv, BridgeTypeOK
<1>2. TaskTypeOK' /\ MovesNoted' /\ Guarded'
  BY DEF ClearEmergency, BridgeInv, TaskTypeOK, MovesNoted, Planned, Guarded, Handling,
         WillStop, Noting
<1> QED
  BY <1>1, <1>2 DEF BridgeInv

(* An input is looked at; one that is ignored stops everything.             *)
LEMMA BridgeTakesInput ==
  ASSUME BridgeInv, NEW c \in Clients, TakesInput(c)
  PROVE  BridgeInv'
<1>1. c \in Threads /\ task[c] = Resting /\ task[c].plan = << >> /\ task[c].at = "rest"
  BY DEF Threads, TakesInput, Resting, Task
<1>2. CASE emergency
  <2>1. TaskTypeOK' /\ MovesNoted' /\ Guarded' /\ (DOMAIN task = Threads)'
    BY <1>1, <1>2, ZeroingRest DEF TakesInput, Ignored
  <2> QED
    BY <2>1 DEF TakesInput, BridgeInv, BridgeTypeOK
<1>3. CASE ~emergency
  <2>1. /\ TaskTypeOK' /\ MovesNoted'
        /\ task'[c].at = "checked" /\ \A u \in Threads \ {c} : task'[u] = task[u]
        /\ \A topic \in Topics : WillStop(topic) => WillStop(topic)'
    BY <1>1, <1>3, PlainStep DEF TakesInput, BridgeInv, BridgeStages
  <2>2. (Handling' => Handling) /\ (Noting => Noting')
    BY <1>1, <2>1 DEF Handling, Noting, Threads
  <2>3. Guarded'
    BY <2>1, <2>2 DEF TakesInput, BridgeInv, Guarded
  <2>4. BridgeTypeOK'
    BY <2>1 DEF TakesInput, BridgeInv, BridgeTypeOK, TaskTypeOK
  <2> QED
    BY <2>1, <2>3, <2>4 DEF BridgeInv
<1> QED
  BY <1>2, <1>3

(* The record is deleted, but the watchdog is armed again.                   *)
LEMMA BridgeAcceptsInput ==
  ASSUME BridgeInv, NEW c \in Clients, AcceptsInput(c)
  PROVE  BridgeInv'
<1>1. c \in Threads /\ task[c].plan = << >> /\ task[c].at = "checked"
  BY DEF Threads, AcceptsInput, Due, Task
<1>2. PICK place \in {"alarm", "toggle", "compute"} : task' = [task EXCEPT ![c].at = place]
  BY DEF AcceptsInput
<1>3. place \in BridgeStages
  BY DEF BridgeStages
<1>4. /\ TaskTypeOK' /\ MovesNoted'
      /\ task'[c].at = place /\ \A u \in Threads \ {c} : task'[u] = task[u]
      /\ \A topic \in Topics : WillStop(topic) => WillStop(topic)'
  BY <1>1, <1>2, <1>3, PlainStep DEF BridgeInv
<1>5. Noting => Noting'
  BY <1>1, <1>4 DEF Noting, Threads
<1>6. \A topic \in Topics : commanded'[topic] => WillStop(topic)' \/ Noting' \/ noted'
  BY <1>4, <1>5 DEF AcceptsInput, BridgeInv, Guarded
<1>7. Guarded'
  BY <1>6 DEF AcceptsInput, ArmsWatchdog, Guarded
<1>8. BridgeTypeOK'
  BY DEF AcceptsInput, ArmsWatchdog, BridgeInv, BridgeTypeOK
<1> QED
  BY <1>4, <1>7, <1>8 DEF BridgeInv

(* The service has answered.                                                *)
LEMMA BridgeSwitched ==
  ASSUME BridgeInv, NEW c \in Clients, Switched(c)
  PROVE  BridgeInv'
<1>1. PICK mode \in ControlModes : Due(c, mode) /\ control' \in {control, Opposite(mode)}
  BY DEF Switched
<1>2. /\ c \in Threads /\ task[c].plan = << >> /\ task[c].at \in ControlModes
      /\ "compute" \in BridgeStages
  BY <1>1 DEF Threads, Due, Task, BridgeStages
<1>3. /\ TaskTypeOK' /\ MovesNoted'
      /\ task'[c].at = "compute" /\ \A u \in Threads \ {c} : task'[u] = task[u]
      /\ \A topic \in Topics : WillStop(topic) => WillStop(topic)'
  BY <1>2, PlainStep DEF Switched, BridgeInv
<1>4. Handling /\ (Noting => Noting')
  BY <1>2, <1>3 DEF Handling, Noting, Threads, ControlModes
<1>5. Guarded'
  BY <1>3, <1>4 DEF Switched, BridgeInv, Guarded
<1>6. control' \in ControlModes
  BY <1>1, OppositeMode DEF BridgeInv, BridgeTypeOK
<1>7. BridgeTypeOK'
  BY <1>6 DEF Switched, BridgeInv, BridgeTypeOK
<1> QED
  BY <1>3, <1>5, <1>7 DEF BridgeInv

(* The commands for an input are computed.                                  *)
LEMMA BridgeGivesCommands ==
  ASSUME BridgeInv, NEW c \in Clients, GivesCommands(c)
  PROVE  BridgeInv'
<1>1. /\ c \in Threads /\ task[c].plan = << >> /\ task[c].at = "compute"
      /\ "note" \in BridgeStages
  BY DEF Threads, GivesCommands, Due, Task, BridgeStages
<1>2. PICK moves \in BOOLEAN : task' = [task EXCEPT ![c] = Task("note", Outputs(moves))]
  BY DEF GivesCommands
<1>3. Outputs(moves) \in Seq(Publications)
  BY OutputsPlan DEF BridgeInv
<1>4. /\ TaskTypeOK' /\ MovesNoted' /\ task'[c] = Task("note", Outputs(moves))
      /\ \A topic \in Topics : WillStop(topic) => WillStop(topic)'
  BY <1>1, <1>2, <1>3, Replanned DEF BridgeInv
<1>5. Handling /\ Noting'
  BY <1>1, <1>4 DEF Handling, Noting, Task
<1>6. Guarded'
  BY <1>5 DEF GivesCommands, BridgeInv, Guarded
<1>7. BridgeTypeOK'
  BY DEF GivesCommands, BridgeInv, BridgeTypeOK
<1> QED
  BY <1>4, <1>6, <1>7 DEF BridgeInv

(* From now on the watchdog looks after what the input moved.                *)
LEMMA BridgeNotesTime ==
  ASSUME BridgeInv, NEW c \in Clients, NotesTime(c)
  PROVE  BridgeInv'
<1>1. /\ c \in Threads /\ task[c].plan = << >> /\ task[c].at = "note"
      /\ "rest" \in BridgeStages /\ << >> \in Seq(Publications)
      /\ \A k \in 1..Len(<< >>) : ~(<< >>)[k].moving
  BY DEF Threads, NotesTime, Due, Task, BridgeStages
<1>2. /\ TaskTypeOK' /\ MovesNoted'
  BY <1>1, Replanned DEF BridgeInv, NotesTime, Resting
<1>3. noted' /\ (~fired' \/ overtaken')
  BY <1>1 DEF NotesTime, BridgeInv, Guarded, Handling
<1>4. Guarded'
  BY <1>3 DEF Guarded
<1>5. BridgeTypeOK'
  BY DEF NotesTime, BridgeInv, BridgeTypeOK
<1> QED
  BY <1>2, <1>4, <1>5 DEF BridgeInv

(* Every step keeps the invariant.                                           *)
LEMMA BridgeStep == BridgeInv /\ [BridgeNext]_bridgeVars => BridgeInv'
<1> SUFFICES ASSUME BridgeInv, [BridgeNext]_bridgeVars PROVE BridgeInv'
  OBVIOUS
<1>1. CASE BridgeNext
  <2>1. "executor" \in Threads /\ Clients \subseteq Threads
    BY DEF Threads
  <2> QED
    BY <1>1, <2>1, BridgeFires, BridgeResetsInput, BridgeSendsNext, BridgeAcceptsInput,
       BridgeStopKey, BridgeToggles, BridgeSwitched, BridgeGivesCommands, BridgeNotesTime,
       BridgeTakesInput, BridgeEmergencyStop, BridgeClearEmergency, BridgeSetMode,
       BridgeClientLeaves
    DEF BridgeNext, Proceeds
<1>2. CASE UNCHANGED bridgeVars
  BY <1>2
  DEF bridgeVars, BridgeInv, BridgeTypeOK, TaskTypeOK, MovesNoted, Planned, Guarded, Handling,
      WillStop, Noting
<1> QED
  BY <1>1, <1>2

-----------------------------------------------------------------------------
(* What the nodes promise.                                                   *)

(* No trajectory is left running on its own (arm_goal_executor.cpp:199), for *)
(* any number of goals and operations.                                       *)
THEOREM ArmAttended == ArmSpec => [](ArmTypeOK /\ Attended)
<1> QED
  BY ArmInitInv, ArmStep, ArmImplied, PTL DEF ArmSpec

(* Nothing the operator wanted before the session the node knows moves the arm*)
(* (servo_gate.py), whatever replies are still to come, for any number of calls.*)
THEOREM ServoFenced == ServoSpec => [](ServoTypeOK /\ Fenced)
<1> QED
  BY ServoInitInv, ServoStep, ServoImplied, PTL DEF ServoSpec

(* A command that moves something and that all threads have left behind is one*)
(* the watchdog is going to stop (bridge_core.py), for any number of clients.*)
THEOREM BridgeGuarded == BridgeSpec => [](BridgeTypeOK /\ WatchdogGuards)
<1> QED
  BY BridgeInitInv, BridgeStep, BridgeImplied, PTL DEF BridgeSpec

(* The nodes side by side keep their types: each of them moves on its own, or*)
(* none does.                                                                *)
THEOREM ServicesKeepTypes == Spec => []ServicesTypeOK
<1> DEFINE AllInv == ArmInv /\ ServoInv /\ BridgeInv
<1>1. Init => AllInv
  BY ArmInitInv, ServoInitInv, BridgeInitInv DEF Init
<1>2. AllInv /\ [Next]_vars => AllInv'
  <2>1. [Next]_vars => [ArmNext]_armVars /\ [ServoNext]_servoVars /\ [BridgeNext]_bridgeVars
    BY DEF Next, vars
  <2> QED
    BY <2>1, ArmStep, ServoStep, BridgeStep
<1>3. AllInv => ServicesTypeOK
  BY ArmImplied, ServoImplied, BridgeImplied DEF ServicesTypeOK
<1> QED
  BY <1>1, <1>2, <1>3, PTL DEF Spec
=============================================================================
