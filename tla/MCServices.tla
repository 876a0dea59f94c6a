----------------------------- MODULE MCServices -----------------------------
(***************************************************************************)
(* Three nodes that serve requests and wait for others meanwhile.  They share   *)
(* no state: the node a behaviour is about is chosen at its start.           *)
(***************************************************************************)
EXTENDS ArmGoalExecutor, ServoGate, HostBridge

VARIABLE subject

Services == {"arm", "gate", "bridge"}

Init ==
  /\ subject \in Services
  /\ ArmInit /\ ServoInit /\ BridgeInit

Next ==
  \/ /\ subject = "arm" /\ ArmNext
     /\ UNCHANGED <<subject, servoVars, bridgeVars>>
  \/ /\ subject = "gate" /\ ServoNext
     /\ UNCHANGED <<subject, armVars, bridgeVars>>
  \/ /\ subject = "bridge" /\ BridgeNext
     /\ UNCHANGED <<subject, armVars, servoVars>>

vars == <<subject, armVars, servoVars, bridgeVars>>

Fairness ==
  /\ WF_armVars(subject = "arm" /\ Works)
  /\ \A t \in Threads : WF_bridgeVars(subject = "bridge" /\ Proceeds(t))
  /\ WF_bridgeVars(subject = "bridge" /\ \E c \in Clients : TakesInput(c))

Spec == Init /\ [][Next]_vars /\ Fairness

(* Operations of the arm are only compared, with what was heard of last.      *)
ArmView ==
  <<op = known.op, ticket = known.op, moving, known.running, fresh, server, stage, success,
    calls, trajectory>>

(* The nodes that do not move need no looking at.                            *)
ServicesView ==
  CASE subject = "arm" -> <<subject, ArmView>>
    [] subject = "gate" -> <<subject, servoVars>>
    [] subject = "bridge" -> <<subject, bridgeVars>>

(* Each of them keeps its types.                                           *)
ServicesTypeOK ==
  /\ subject = "arm" => ArmTypeOK
  /\ subject = "gate" => ServoTypeOK
  /\ subject = "bridge" => BridgeTypeOK
=============================================================================
