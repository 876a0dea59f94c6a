------------------------- MODULE MCMaintenanceJournal -------------------------
(***************************************************************************)
(* Instances of MaintenanceJournal: a drive with a home offset, one limit    *)
(* and the enable flag; setting an offset, setting a limit.                 *)
(***************************************************************************)
EXTENDS MaintenanceJournal

MCObjects == {"home", "limit", "enable"}
MCValues  == {0, 1}
MCRestoreOrder == <<"home", "limit", "enable">>
MCFactory == [o \in MCObjects |-> 0]

Set(o, v) == [on |-> o, to |-> v]
SetOffset == <<Set("home", 1)>>
Limit     == <<Set("enable", 0), Set("limit", 1), Set("enable", 1)>>
MCRequests == [updates : {SetOffset, Limit}, save : BOOLEAN]

OneGroup  == [j \in Joints |-> "arm"]
TwoGroups == [j \in Joints |-> IF j = "yaw" THEN "arm" ELSE "flippers"]
=============================================================================
