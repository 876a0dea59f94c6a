------------------------------- MODULE MCParts -------------------------------
(***************************************************************************)
(* Parts that share no state, checked in one run: which of them moves is      *)
(* chosen at the start, the others stay as they are.  Every behaviour of the  *)
(* run is a behaviour of one part, and every part has all of its own.        *)
(***************************************************************************)
EXTENDS BaseInput, Freshness, MCCanopenMotion, MCMaintenanceJournal, FlipperManager

VARIABLE subject

Parts == {"base", "feedback", "canopen", "journal", "flipper"}

Init ==
  /\ subject \in Parts
  /\ BaseInit /\ FreshInit /\ CanInit /\ JournalInit /\ FlipperInit

Next ==
  \/ /\ subject = "base" /\ BaseNext
     /\ UNCHANGED <<subject, freshVars, canVars, journalVars, flipperVars>>
  \/ /\ subject = "feedback" /\ FreshNext
     /\ UNCHANGED <<subject, baseVars, canVars, journalVars, flipperVars>>
  \/ /\ subject = "canopen" /\ CanNext
     /\ UNCHANGED <<subject, baseVars, freshVars, journalVars, flipperVars>>
  \/ /\ subject = "journal" /\ JournalNext
     /\ UNCHANGED <<subject, baseVars, freshVars, canVars, flipperVars>>
  \/ /\ subject = "flipper" /\ FlipperNext
     /\ UNCHANGED <<subject, baseVars, freshVars, canVars, journalVars>>

vars == <<subject, baseVars, freshVars, canVars, journalVars, flipperVars>>

Spec == Init /\ [][Next]_vars

(* Of a message to a retired subscription only counts that it is there, an     *)
(* age nothing accepts is as good as none, and silence counts while a         *)
(* velocity is somewhere on its way.                                         *)
Outline(mail) == IF mail # None /\ Retired(mail) = mail THEN "retired" ELSE mail
Outdated(age) == IF Expired(age) THEN Old ELSE age
Carries(mail) == mail # None /\ mail.live /\ mail.from # 0
AllStill == {target, ramp, held} = {0} /\ ~Carries(inbox) /\ ~Carries(wire)

BaseView ==
  <<groupVars, token, heard, Outdated(stateAge), target, Outdated(targetAge), ramp,
    active, IF receipt = Expiry THEN Old ELSE receipt, held, speed,
    news, Outline(inbox), Outline(wire), IF AllStill THEN 0 ELSE silence>>

(* Of the flippers: the age of a command counts while a velocity is on its     *)
(* way or the node may send one, and the joints left of a switch while their  *)
(* modes change; the last lifecycle heard counts in the hybrid backend only.  *)
Carried == buffered \/ (parcel # Empty /\ parcel.moves)
Jogging == HardwareMode(profile) = "csv" /\ jogged

JogView ==
  <<IF Jogging THEN <<wanted, filtered>> ELSE <<>>,
    IF Carried \/ Jogging THEN jogAge ELSE 0,
    buffered, IF buffered THEN bufferAge ELSE 0>>

TurnView ==
  IF At("start") \/ At("enable") \/ At("resume") THEN [turn EXCEPT !.left = {}] ELSE turn

FlipperView ==
  <<hybrid, profile, measured, informed, healthy, IF hybrid THEN lifecycle ELSE "Unknown",
    JogView, TurnView, IF hybrid THEN notice ELSE notice = "none", parcel, driveVars, running>>

(* The parts that do not move need no looking at.                            *)
PartsView ==
  CASE subject = "base" -> <<subject, BaseView>>
    [] subject = "feedback" -> <<subject, freshVars>>
    [] subject = "canopen" -> <<subject, EffectiveView>>
    [] subject = "journal" -> <<subject, journalVars>>
    [] subject = "flipper" -> <<subject, FlipperView>>

(* Each of them keeps its types.                                           *)
PartsTypeOK ==
  /\ subject = "base" => BaseTypeOK
  /\ subject = "feedback" => FreshTypeOK
  /\ subject = "canopen" => CanTypeOK
  /\ subject = "journal" => JournalTypeOK
  /\ subject = "flipper" => FlipperTypeOK
=============================================================================
