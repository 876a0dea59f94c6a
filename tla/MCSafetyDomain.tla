--------------------------- MODULE MCSafetyDomain ---------------------------
(* Instances of SafetyDomain for TLC.                                         *)
EXTENDS SafetyDomain

AllCategories == {"feedback", "feedback_warning", "transport", "unavailable",
                  "invalid_running_output", "emergency"}

(* Three of the four groups: the flippers relate to the base as the arm does. *)
VehicleGroups == {"arm", "base", "gripper"}
VehicleAxes == {"shoulder", "wheel", "finger"}
VehicleBackends == {"canopen", "private"}
VehicleAxisGroup ==
  [a \in VehicleAxes |->
     CASE a = "shoulder" -> "arm" [] a = "wheel" -> "base" [] a = "finger" -> "gripper"]
VehicleAxisBackend ==
  [a \in VehicleAxes |-> IF a = "finger" THEN "private" ELSE "canopen"]

Rule(source, category, dependent, condition) ==
  [source |-> source, category |-> category, dependent |-> dependent,
   condition |-> condition, attester |-> "pose"]

VehiclePolicies ==
  {{Rule("arm", "*", "base", "arm_secured"),
    Rule("gripper", "feedback", "arm", "payload_retained")}}

Raised(id, axis, group, category, severity) ==
  [id |-> id, axis |-> axis, group |-> group, backend |-> "",
   category |-> category, severity |-> severity]

VehicleReports == {Raised("e1", "finger", "", "invalid_running_output", "GroupStop")}

(* Two of the groups, for the runs about the owner and the legacy gate. *)
PairGroups == {"arm", "base"}
PairAxes == {"shoulder", "wheel"}
PairAxisGroup == [a \in PairAxes |-> IF a = "shoulder" THEN "arm" ELSE "base"]
PairAxisBackend == [a \in PairAxes |-> "canopen"]
PairPolicies == {{Rule("arm", "*", "base", "arm_secured")}}
EitherPolicy == PairPolicies \cup {{}}

(* One id for two different events: the second is refused. *)
PairReports ==
  {Raised("e1", "", "arm", "emergency", "GroupStop"),
   Raised("e1", "", "", "emergency", "GlobalStop")}

(* Epochs only ever grow, and no step depends on their values. *)
WithoutEpochs ==
  <<configured, associations, axisReady, state, evidence, events, globalInhibit,
    ownerVars, legacyState, componentReady, writers>>

=============================================================================
