----------------------------- MODULE SessionGate -----------------------------
(***************************************************************************)
(* What robot_safety::Domain promises to whoever writes to the hardware     *)
(* (src/robot_safety/include/robot_safety/domain.hpp): each motion group    *)
(* has sessions, one at a time, and every session has an epoch of its own.  *)
(* A session is armed, may open once, and is closed for good; closing the   *)
(* session of one group may be joined by anything in the others, because    *)
(* one stop closes several groups in one step.                              *)
(***************************************************************************)
EXTENDS Naturals, TLAPS

CONSTANT Groups

VARIABLES
  phase,   \* "closed", "armed" or "open"
  epoch    \* names the session that is or was last open

gateVars == <<phase, epoch>>

Phases == {"closed", "armed", "open"}

GateTypeOK == phase \in [Groups -> Phases] /\ epoch \in [Groups -> Nat]

GateInit ==
  /\ phase = [g \in Groups |-> "closed"]
  /\ epoch = [g \in Groups |-> 0]

(* A session starts under an epoch no earlier session of the group had. *)
Start(g) ==
  /\ phase[g] = "closed" /\ phase'[g] = "armed"
  /\ epoch'[g] > epoch[g]

(* It opens under the epoch it was armed with. *)
Open(g) ==
  /\ phase[g] = "armed" /\ phase'[g] = "open"
  /\ epoch'[g] = epoch[g]

(* It closes, and its epoch is spent. *)
Close(g) ==
  /\ phase'[g] = "closed"
  /\ epoch'[g] >= epoch[g]
  /\ phase[g] # "closed" => epoch'[g] > epoch[g]

Stay(g) == phase'[g] = phase[g] /\ epoch'[g] = epoch[g]

GateNext ==
  /\ phase' \in [Groups -> Phases] /\ epoch' \in [Groups -> Nat]
  /\ \A g \in Groups : Start(g) \/ Open(g) \/ Close(g) \/ Stay(g)

GateSpec == GateInit /\ [][GateNext]_gateVars

(* A writer that remembers epoch n of g has lost its permission. *)
Spent(g, n) == epoch[g] > n \/ (epoch[g] = n /\ phase[g] = "closed")

(* Permission once lost is lost for good: no later call makes an epoch valid *)
(* again that was closed, so a command kept from an old session can never    *)
(* move anything (domain.hpp:11-17).                                         *)
SpentForGood == \A g \in Groups, n \in Nat : [](Spent(g, n) => []Spent(g, n))

-----------------------------------------------------------------------------
(* The gate's variables keep their types. *)
THEOREM GateTypeCorrect == GateSpec => []GateTypeOK
<1>1. GateInit => GateTypeOK
  BY DEF GateInit, GateTypeOK, Phases
<1>2. GateTypeOK /\ [GateNext]_gateVars => GateTypeOK'
  BY DEF GateTypeOK, GateNext, gateVars
<1>3. QED
  BY <1>1, <1>2, PTL DEF GateSpec

(* The gate keeps the promise of SpentForGood: an epoch that is spent is      *)
(* passed by every later one, and a closed group only starts under a later    *)
(* one.                                                                      *)
THEOREM GateSpends == GateSpec => SpentForGood
<1>1. SUFFICES ASSUME NEW g \in Groups, NEW n \in Nat
               PROVE  GateSpec => [](Spent(g, n) => []Spent(g, n))
  BY DEF SpentForGood
<1>2. GateTypeOK /\ [GateNext]_gateVars /\ Spent(g, n) => Spent(g, n)'
  <2>1. SUFFICES ASSUME GateTypeOK, [GateNext]_gateVars, Spent(g, n)
                 PROVE  Spent(g, n)'
    OBVIOUS
  <2>2. CASE UNCHANGED gateVars
    BY <2>1, <2>2 DEF gateVars, Spent
  <2>3. CASE GateNext
    <3>1. epoch[g] \in Nat /\ epoch'[g] \in Nat
      BY <2>1, <2>3 DEF GateTypeOK, GateNext
    <3>2. Start(g) \/ Open(g) \/ Close(g) \/ Stay(g)
      BY <2>3 DEF GateNext
    <3>3. QED
      BY <2>1, <3>1, <3>2 DEF Spent, Start, Open, Close, Stay
  <2>4. QED
    BY <2>1, <2>2, <2>3
<1>3. QED
  BY <1>2, GateTypeCorrect, PTL DEF GateSpec

=============================================================================
