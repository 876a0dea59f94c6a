-------------------------- MODULE MCHardwareSession --------------------------
(* One component in front of one group, for TLC. *)
EXTENDS HardwareSession

AllCategories == {"feedback", "feedback_warning", "transport", "unavailable"}

OneJoint == <<"left">>
TwoJoints == <<"left", "right">>
TrackGroup == [a \in Axes |-> "base"]
TrackBackend == [a \in Axes |-> "private"]

NoPolicies == {{}}

(* Epochs only grow and are only compared for equality, so one that is not      *)
(* the present epoch never becomes it again: of each epoch it matters whether  *)
(* it is the present one and, at the steps that compare it with the epoch a    *)
(* call returned earlier, whether it is that one.                            *)
Current(e) == e = epoch["base"]
Judged(e) == cm \in {"judge", "compare"} /\ e = seenEpoch

UpToEpochs ==
  LET p == preparing["base"]
  IN
  <<axisReady, state, events, globalInhibit, ownerExpired, active, faulty, prepared,
    lost, claimed, moving, cm, at, seen, Judged(epoch["base"]),
    p.step, p.joint, p.step # "idle" /\ Current(p.ticket), Judged(p.ticket),
    [j \in Owned |->
       LET used == prepared[j] \/ (p.step = "flag" /\ Joints[p.joint] = j)
       IN <<Current(sessionEpoch[j]), command[j] = 0, Current(command[j]),
            command[j] = sessionEpoch[j],
            used /\ Current(preparedEpoch[j]), used /\ Judged(preparedEpoch[j])>>]>>

=============================================================================
