-------------------------- MODULE MCGroupCoordinator --------------------------
EXTENDS GroupCoordinator

(* What the monitor is checked with: motion, or a journal that needs attention. *)
MonitorWorkloads == {{"enable", "resume", "profile"}, {"init", "maintain", "restore"}}

WithoutGenerations ==
  <<state, requested, ownerChecked, op, todo, held, errors,
    [g \in Groups |-> <<op["monitor"] = "monitor" /\ observed[g][1] = generation[g], observed[g][2]>>], seen,
    robotVars, journalVars, pending, crashes, asked>>
=============================================================================
