--------------------------- MODULE MCCanopenMotion ---------------------------
(***************************************************************************)
(* Instances of CanopenMotion.  The view leaves out what no step and no       *)
(* property of that run tells apart: what an axis without power is asked and  *)
(* told, an intent that the next frame replaces, a controlword that a drive   *)
(* which is on need not have to stay on, and the history variable.           *)
(***************************************************************************)
EXTENDS CanopenMotion

OfPowered(f) == [a \in Powered |-> f[a]]

EffectiveView ==
  <<mode, call, marked, up, starts, looping, requested, latch, feedback, handling, fault, lost,
    seen, epoch, OfPowered(unread), OfPowered(prevHalt), OfPowered(locked),
    [a \in Powered |-> IF unread[a] THEN "replaced" ELSE current[a]],
    [a \in Powered |-> seen[a] = "on" \/ out[a] # "off"]>>
=============================================================================
