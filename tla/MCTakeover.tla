------------------------------ MODULE MCTakeover ------------------------------
EXTENDS MCGroupCoordinator

VARIABLE met  \* history: the groups whose live session this coordinator has found

(* The status a new coordinator reads shows it the sessions that are live. *)
Meets == At("owner", {"owner_status"}) /\ OwnerReads

TakeoverSpec ==
  /\ Init /\ met = {}
  /\ [][/\ Next
        /\ met' = IF crashes' # crashes THEN {}
                  ELSE IF Meets THEN met \cup Previous ELSE met]_<<vars, met>>

WithMet == <<WithoutGenerations, met>>

(* A coordinator that has found a live session of an earlier one does not take    *)
(* over before it has released that group's controllers (docs/31, line 17: "new   *)
(* coordinator takes over old Armed/Running sessions: first stops globally and     *)
(* releases the old controllers").                                               *)
TakenOverIsReleased ==
  [][~ownerChecked /\ ownerChecked' => met \cap active = {}]_<<vars, met>>
=============================================================================
