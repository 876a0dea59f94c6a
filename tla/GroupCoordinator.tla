--------------------------- MODULE GroupCoordinator ---------------------------
(***************************************************************************)
(* The process that runs the robot's groups: GroupCoordinator (groups.py)   *)
(* over its remote-call Adapter (node.py), against the guard, the hardware  *)
(* component and the controller manager of another process.                 *)
(*                                                                          *)
(* An operation is a list of steps that a thread works through: remote      *)
(* calls, reads and assignments.  A call may be refused, and a mutating one  *)
(* may time out: then it takes effect later, whatever has happened since.   *)
(* Of the guard's sessions only the phase matters here: it is that of        *)
(* SessionGate, which the guard implements.  All groups use one component.   *)
(* Of a maintenance transaction counts whether it leaves the journal dirty;    *)
(* MaintenanceJournal has what it does to the drive.                          *)
(***************************************************************************)
EXTENDS Naturals, Sequences, FiniteSets, SequencesExt

CONSTANTS
  Groups,      \* the motion groups
  Workers,     \* executor threads that serve operations
  Workloads,   \* the sets of operations that are asked for together
  Monitored,   \* whether the monitor's timer runs
  Unreliable,  \* the calls and reads that may fail or time out
  Maintained,  \* groups with axes that can be maintained
  MaxPending,  \* bound: calls that have timed out and are still outstanding
  MaxCrashes,  \* bound: restarts of the coordinator's process
  MaxOrphans   \* bound: calls of an earlier process still outstanding

(* The actions operation() knows. *)
Actions == {"init", "enable", "resume", "halt", "recover", "recover_resource", "shutdown",
            "profile", "maintain", "restore"}

ASSUME CoordinatorAssumption ==
  /\ IsFiniteSet(Groups) /\ {"all", "none"} \cap Groups = {} /\ Maintained \subseteq Groups
  /\ IsFiniteSet(Workers) /\ Workers \cap {"monitor", "owner"} = {}
  /\ Workloads \subseteq SUBSET Actions
  /\ Monitored \in BOOLEAN /\ MaxPending \in Nat /\ MaxCrashes \in Nat /\ MaxOrphans \in Nat

VARIABLES
  state,         \* states[g]
  generation,    \* generations[g]
  requested,     \* requested
  ownerChecked,  \* owner_checked
  op,            \* what a thread is doing: "" for nothing
  todo,          \* the steps it has left
  held,          \* the group locks it holds
  errors,        \* whether its _stop has met an error
  observed,      \* the monitor: generations and states before it looked
  seen,          \* and what it saw of the guard and of the controllers
  phase,         \* the guard's session of a group
  active,        \* whether the group's controllers are active
  component,     \* lifecycle state of the hardware component
  locked,        \* groups for which the guard has a maintenance event
  journal,       \* the group whose axis the journal names, "none" without one
  dirty,         \* policy.dirty
  pending,       \* calls that have timed out and not yet taken effect
  crashes,
  asked          \* the workload of this behaviour

ownerVars   == <<state, generation, requested, ownerChecked>>
threadVars  == <<op, todo, held, errors>>
monitorVars == <<observed, seen>>
robotVars   == <<phase, active, component, locked>>
journalVars == <<journal, dirty>>
rest        == <<pending, crashes, journalVars, asked>>
vars == <<ownerVars, threadVars, monitorVars, robotVars, rest>>

Threads == Workers \cup {"monitor", "owner"}
States == {"Stopped", "Initialized", "Armed", "Running", "Halted", "Fault"}
Live == {"Armed", "Running"}

Lifecycle == {"unconfigured", "inactive", "active"}
Mutations == {"halt", "release", "release_lingering", "initialize", "prepare", "acknowledge",
              "arm", "start", "run", "owner_lost", "release_owned", "disable", "write",
              "maintenance_lock", "maintenance_clear"} \cup Lifecycle
Reads == {"list", "lingering", "verify", "ready", "status", "resources", "owner_status",
          "owner_list"}

Nothing == [phase |-> [g \in Groups |-> "closed"], active |-> {}]
Unobserved == [g \in Groups |-> <<0, "Stopped">>]

CoordTypeOK ==
  /\ state \in [Groups -> States] /\ generation \in [Groups -> Nat]
  /\ requested \subseteq Groups /\ ownerChecked \in BOOLEAN
  /\ op \in [Threads -> asked \cup {"", "monitor", "converge", "owner"}]
  /\ held \in [Threads -> SUBSET Groups] /\ errors \in [Threads -> BOOLEAN]
  /\ \A t, u \in Threads : t # u => held[t] \cap held[u] = {}
  /\ phase \in [Groups -> {"closed", "armed", "open"}]
  /\ active \subseteq Groups /\ component \in Lifecycle /\ locked \subseteq Groups
  /\ journal \in Groups \cup {"none"} /\ dirty \in BOOLEAN
  /\ \A p \in pending : p.do \in Mutations
  /\ crashes \in 0..MaxCrashes /\ asked \in Workloads

-----------------------------------------------------------------------------
(* The steps of the operations.                                             *)

Step(do, g) == [do |-> do, on |-> g, with |-> {}]
Steps(names, g) == [i \in 1..Len(names) |-> Step(names[i], g)]

Stop(g)        == Steps(<<"bump", "halt", "list", "halted">>, g)
InitGroup(g)   == Steps(<<"may_init", "to_inactive", "initialize", "verify", "initialized">>, g)
Prepare(g)     == Steps(<<"may_prepare", "lingering", "to_active", "prepare", "ready">>, g)
Acknowledge(g) == Steps(<<"may_acknowledge", "maintenance_clear", "acknowledge">>, g)
Arm(g)         == Steps(<<"settled", "arm", "armed">>, g)
Start(g)       == Steps(<<"start", "run", "running">>, g)
Maintain(g)    == Steps(<<"disable", "verify", "fit", "transact", "write", "close", "maintained">>, g)
Enable(g)      == Prepare(g) \o Acknowledge(g) \o Arm(g)

(* A phase of an operation is done for one group after the other: steps[g] are *)
(* those for g.                                                              *)
Each(steps) == LET order == SetToSeq(DOMAIN steps)
               IN  FlattenSeq([i \in 1..Len(order) |-> steps[order[i]]])

(* The steps of a list that are not in a set. *)
Without(steps, dropped) ==
  FlattenSeq([i \in 1..Len(steps) |-> IF steps[i] \in dropped THEN << >> ELSE <<steps[i]>>])

WithoutGroup(steps, g)   == Without(steps, {s \in ToSet(steps) : s.on = g})
WithoutName(steps, name) == Without(steps, {s \in ToSet(steps) : s.do = name})

(* Mutant of Frees: the component is torn down when any of its groups stops. *)
FreesAny(gs) == gs \cap Groups # {}

(* No group outside gs uses the component. *)
Frees(gs) == Groups \subseteq gs

Maintenance == {"maintain", "restore"}

(* The phases: one block, or one step, for each of the groups. *)
Stops(gs)        == Each([g \in gs |-> Stop(g)])
Inits(gs)        == Each([g \in gs |-> InitGroup(g)])
Prepares(gs)     == Each([g \in gs |-> Prepare(g)])
Acknowledges(gs) == Each([g \in gs |-> Acknowledge(g)])
Arms(gs)         == Each([g \in gs |-> Arm(g)])
Starts(gs)       == Each([g \in gs |-> Start(g)])
Ones(name, gs)   == Each([g \in gs |-> Steps(<<name>>, g)])

Enables(gs) == Prepares(gs) \o Acknowledges(gs) \o Arms(gs)
Rearms(gs)  == Inits(gs) \o Enables(gs)
Resumes(gs) == Ones("if_halted", gs) \o Ones("unless_armed", gs)
                 \o Ones("arm_unless_armed", gs) \o Starts(gs)

Shuts(gs) ==
  Each([g \in gs |-> Stop(g) \o Steps(<<"stopped">>, g)])
    \o IF Frees(gs) THEN Steps(<<"to_unconfigured">>, "all") ELSE <<>>

(* A group that was running is started again with the other profile. *)
Restart(g)   == Steps(<<"switched">>, g) \o InitGroup(g) \o Enable(g) \o Start(g)
Switch(g)    == Stop(g) \o IF state[g] = "Running" THEN Restart(g) ELSE <<>>

Program(action, gs) ==
  CASE action = "init"    -> Inits(gs)
    [] action = "enable"  -> Enables(gs)
    [] action = "resume"  -> Resumes(gs)
    [] action = "halt"    -> Stops(gs)
    [] action = "recover" -> Stops(gs) \o Rearms(gs)
    [] action = "recover_resource" -> Stops(gs) \o Ones("rebuild", gs) \o Rearms(gs)
    [] action = "shutdown" -> Shuts(gs)
    [] action = "profile"  -> Each([g \in gs |-> Switch(g)])
    [] action \in Maintenance -> Each([g \in gs |-> Stop(g) \o Maintain(g)])

Allowed(action) ==
  CASE action = "init"   -> {"Stopped", "Fault", "Halted", "Initialized"}
    [] action = "enable" -> {"Initialized", "Halted"}
    [] action = "resume" -> {"Armed", "Halted"}
    [] OTHER -> States

Scopes(action) ==
  CASE action = "recover_resource" -> {Groups}
    [] action = "profile"  -> {{g} : g \in Groups}
    [] action = "maintain" -> {{g} : g \in Maintained}
    [] action = "restore"  -> {{g} : g \in Maintained \cap {journal}}
    [] OTHER -> SUBSET Groups \ {{}}

-----------------------------------------------------------------------------
(* Working through the steps.                                               *)

At(t, names) == todo[t] # <<>> /\ Head(todo[t]).do \in names
GroupOf(t)   == Head(todo[t]).on
StepsLeft(t) == {todo[t][i].do : i \in 1..Len(todo[t])}

(* The step is done; `steps` come before the rest. *)
Continue(t, steps) ==
  /\ todo' = [todo EXCEPT ![t] = steps \o Tail(@)]
  /\ UNCHANGED <<op, held>>

(* Whatever the stop meets, the group becomes Fault. *)
StopToFault(g) == Stop(g) \o Steps(<<"fault">>, g)

ConvergeSteps == Each([g \in Groups |-> StopToFault(g)])

(* An exception.  _apply stops the group and goes on with the others, a        *)
(* profile switch stops its group once that is to be started again; a          *)
(* transaction, once begun, rolls back and is concluded; the monitor's leads   *)
(* to converge(), which stops every group and takes no lock; elsewhere it ends *)
(* the operation.                                                            *)
Raise(t) ==
  /\ errors' = [errors EXCEPT ![t] = FALSE]
  /\ todo' = [todo EXCEPT ![t] =
       CASE op[t] = "monitor" -> ConvergeSteps
         [] \/ op[t] \in {"shutdown", "owner"}
            \/ op[t] = "profile" /\ (At(t, {"halted"}) \/ "switched" \in StepsLeft(t)) -> <<>>
         [] op[t] \in Maintenance ->
              Steps(IF At(t, {"transact"}) THEN <<"maintained">>
                    ELSE IF At(t, {"write"}) THEN <<"roll_back", "maintained">> ELSE <<>>, GroupOf(t))
         [] OTHER -> StopToFault(GroupOf(t))
                       \o WithoutGroup(Tail(@), GroupOf(t))]
  /\ op' = [op EXCEPT ![t] = IF @ = "monitor" THEN "converge" ELSE @]
  /\ held' = [held EXCEPT ![t] = IF op[t] = "monitor" THEN {} ELSE @]

(* _stop remembers the failure of a call and goes on. *)
Fail(t) ==
  IF At(t, {"halt", "list", "release"})
    THEN errors' = [errors EXCEPT ![t] = TRUE] /\ Continue(t, <<>>)
    ELSE Raise(t)

-----------------------------------------------------------------------------
(* The other process.                                                       *)

(* Whether a call can succeed.  Strict switches activate controllers of an     *)
(* armed group that are inactive, and release active ones.                   *)
Possible(c) ==
  CASE c.do = "arm"     -> phase[c.on] # "open" /\ c.on \notin locked /\ component = "active"
    [] c.do = "run"     -> phase[c.on] = "armed" /\ c.on \notin locked
    [] c.do = "maintenance_clear" -> c.on \in locked => component = "active"
    [] c.do = "start"   -> phase[c.on] = "armed" /\ c.on \notin active
    [] c.do = "prepare" -> phase[c.on] = "closed" /\ component = "active"
    [] c.do \in {"release", "release_lingering"} -> c.on \in active
    [] c.do = "release_owned" -> c.with \subseteq active
    [] OTHER -> TRUE

(* A component that leaves its active state ends the sessions of its groups.    *)
(* The stop of owner_lost lasts until somebody resets it, be it at once.       *)
ClosesAll(c) ==
  c.do = "owner_lost" \/ (c.do \in Lifecycle /\ c.do # component /\ component = "active")

Effect(c) ==
  /\ phase' = IF ClosesAll(c) THEN [g \in Groups |-> "closed"]
              ELSE CASE c.do \in {"halt", "maintenance_lock"} -> [phase EXCEPT ![c.on] = "closed"]
                     [] c.do = "arm"  -> [phase EXCEPT ![c.on] = "armed"]
                     [] c.do = "run"  -> [phase EXCEPT ![c.on] = "open"]
                     [] OTHER -> phase
  /\ active' = CASE c.do = "start" -> active \cup {c.on}
                 [] c.do \in {"release", "release_lingering"} -> active \ {c.on}
                 [] c.do = "release_owned" -> active \ c.with
                 [] OTHER -> active
  /\ component' = IF c.do \in Lifecycle THEN c.do ELSE component
  /\ locked' = CASE c.do = "maintenance_lock"  -> locked \cup {c.on}
                 [] c.do = "maintenance_clear" -> locked \ {c.on}
                 [] OTHER -> locked

(* A fault, a lapse or another client ends a session; a controller fails. *)
SessionEnds(g) ==
  /\ phase[g] # "closed"
  /\ phase' = [phase EXCEPT ![g] = "closed"]
  /\ UNCHANGED <<ownerVars, threadVars, monitorVars, active, component, locked, rest>>

ControllersStop(g) ==
  /\ g \in active
  /\ active' = active \ {g}
  /\ UNCHANGED <<ownerVars, threadVars, monitorVars, phase, component, locked, rest>>

-----------------------------------------------------------------------------
(* Remote calls.                                                            *)

Answered(t) ==
  /\ At(t, Mutations)
  /\ Possible(Head(todo[t]))
  /\ Effect(Head(todo[t]))
  /\ Continue(t, <<>>)
  /\ UNCHANGED <<ownerVars, errors, monitorVars, rest>>

(* The service is unavailable, or answers that it could not. *)
Refused(t) ==
  /\ At(t, Mutations)
  /\ Head(todo[t]).do \in Unreliable \/ ~Possible(Head(todo[t]))
  /\ Fail(t)
  /\ UNCHANGED <<ownerVars, monitorVars, robotVars, rest>>

(* The scope a thread has begun: one group, or none. *)
Scope(t) ==
  IF \/ op[t] = "owner" \/ (op[t] = "shutdown" /\ Cardinality(held[t]) > 1)
     \/ op[t] = "monitor" /\ At(t, {"maintenance_lock"})
    THEN "all" ELSE GroupOf(t)

Call(t, mine) == [do |-> Head(todo[t]).do, on |-> GroupOf(t), with |-> Head(todo[t]).with,
                  scope |-> Scope(t), own |-> mine]

(* No answer within the deadline: the outcome is unknown, the future is kept. *)
TimesOut(t) ==
  /\ At(t, Mutations \cap Unreliable)
  /\ Cardinality(pending) < MaxPending
  /\ pending' = pending \cup {Call(t, TRUE)}
  /\ Fail(t)
  /\ UNCHANGED <<ownerVars, monitorVars, robotVars, crashes, journalVars, asked>>

(* The call takes effect, or fails, when nobody waits for it any more. *)
TakesEffect(c) ==
  /\ pending' = pending \ {c}
  /\ IF Possible(c) THEN Effect(c) ELSE UNCHANGED robotVars
  /\ UNCHANGED <<ownerVars, threadVars, monitorVars, crashes, journalVars, asked>>

(* Mutant of Settled: only the calls made for no particular group are fenced. *)
SettledGlobally(g) == ~\E c \in pending : c.own /\ c.scope = "all" /\ g \in Groups

(* ensure_settled() *)
Settled(g) == ~\E c \in pending : c.own /\ c.scope \in {g, "all"}
ResourceSettled == ~\E c \in pending : c.own /\ (c.do \in Lifecycle \/ c.scope = "all")

-----------------------------------------------------------------------------
(* Reads and assignments of the operations.                                 *)

ReadFails(t) ==
  /\ At(t, Reads \cap Unreliable)
  /\ Fail(t)
  /\ UNCHANGED <<ownerVars, monitorVars, robotVars, rest>>

(* What the read returns decides which steps come next. *)
ReadsRobot(t) ==
  /\ At(t, {"list", "lingering", "verify", "ready"})
  /\ Continue(t, IF GroupOf(t) \notin active \/ At(t, {"verify", "ready"}) THEN <<>>
                  ELSE Steps(IF At(t, {"list"}) THEN <<"release">> ELSE <<"release_lingering">>,
                             GroupOf(t)))
  /\ UNCHANGED <<ownerVars, errors, monitorVars, robotVars, rest>>

(* Mutant of Resolved: a lock is cleared on demand. *)
ResolvedOnDemand(g) == TRUE

(* No axis of the group is in dirty_axes. *)
Resolved(g) == ~(dirty /\ journal = g)

(* Refusals inside a phase, and phases that a group in another state skips. *)
Checks(t) ==
  LET g == GroupOf(t)
      steps ==
        CASE At(t, {"if_halted"}) -> IF state[g] = "Halted" THEN InitGroup(g) \o Prepare(g) ELSE <<>>
          [] At(t, {"unless_armed"}) -> IF state[g] # "Armed" THEN Acknowledge(g) ELSE <<>>
          [] At(t, {"arm_unless_armed"}) -> IF state[g] # "Armed" THEN Arm(g) ELSE <<>>
          [] At(t, {"rebuild"}) -> Steps(<<"to_unconfigured", "to_inactive", "rebuilt">>, g)
          [] OTHER -> <<>>
      refused ==
        \/ At(t, {"may_init"}) /\ state[g] \in Live
        \/ At(t, {"may_prepare"}) /\ (~Settled(g) \/ state[g] \notin {"Initialized", "Halted"})
        \/ At(t, {"may_acknowledge"}) /\ ~Resolved(g)
        \/ At(t, {"fit"}) /\ op[t] = "maintain" /\ ~Resolved(g)
        \/ At(t, {"settled"}) /\ ~Settled(g)
  IN
  /\ At(t, {"if_halted", "unless_armed", "arm_unless_armed", "rebuild", "switched",
            "may_init", "may_prepare", "may_acknowledge", "fit", "settled"})
  /\ IF refused THEN Raise(t) ELSE Continue(t, steps) /\ UNCHANGED errors
  /\ UNCHANGED <<ownerVars, monitorVars, robotVars, rest>>

(* transition(), and the configuration in _init: under the component's lock. *)
Transition(t) ==
  LET path ==
        CASE At(t, {"to_inactive"}) /\ component = "unconfigured" -> <<"inactive">>
          [] At(t, {"to_active"}) /\ component = "unconfigured" -> <<"inactive", "active">>
          [] At(t, {"to_active"}) /\ component = "inactive" -> <<"active">>
          [] At(t, {"to_unconfigured"}) /\ component # "unconfigured" -> <<"unconfigured">>
          [] OTHER -> <<>>
  IN
  /\ At(t, {"to_inactive", "to_active", "to_unconfigured"})
  /\ \A u \in Threads \ {t} : ~At(u, Lifecycle)
  /\ \/ /\ ~ResourceSettled \/ "hardware_state" \in Unreliable
        /\ Raise(t)
     \/ /\ ResourceSettled
        /\ Continue(t, Steps(path, GroupOf(t))) /\ UNCHANGED errors
  /\ UNCHANGED <<ownerVars, monitorVars, robotVars, rest>>

(* The group is rebuilt once for all of an operation's groups. *)
Rebuilt(t) ==
  /\ At(t, {"rebuilt"})
  /\ todo' = [todo EXCEPT ![t] = WithoutName(Tail(@), "rebuild")]
  /\ UNCHANGED <<ownerVars, op, held, errors, monitorVars, robotVars, rest>>

StateAfter(do) ==
  CASE do = "initialized" -> "Initialized" [] do = "armed" -> "Armed"
    [] do = "running" -> "Running" [] do = "stopped" -> "Stopped" [] OTHER -> "Fault"

(* Assignments of a group's state; _arm begins a generation. *)
Assigns(t) ==
  LET g == GroupOf(t)
  IN
  /\ At(t, {"initialized", "armed", "running", "stopped", "fault"})
  /\ state' = [state EXCEPT ![g] = StateAfter(Head(todo[t]).do)]
  /\ generation' = [generation EXCEPT ![g] = IF At(t, {"armed"}) THEN @ + 1 ELSE @]
  /\ Continue(t, <<>>)
  /\ UNCHANGED <<requested, ownerChecked, errors, monitorVars, robotVars, rest>>

(* Mutant of StateAfterStop: what went wrong is only reported. *)
HaltedAnyway(failed) == IF failed THEN "Halted" ELSE "Halted"

StateAfterStop(failed) == IF failed THEN "Fault" ELSE "Halted"

(* _stop begins a generation before it halts ... *)
Bumps(t) ==
  /\ At(t, {"bump"})
  /\ generation' = [generation EXCEPT ![GroupOf(t)] = @ + 1]
  /\ errors' = [errors EXCEPT ![t] = FALSE]
  /\ Continue(t, <<>>)
  /\ UNCHANGED <<state, requested, ownerChecked, monitorVars, robotVars, rest>>

(* ... and raises after it if it has met an error, which is swallowed where    *)
(* the group becomes Fault anyway.                                           *)
Halted(t) ==
  LET swallowed == Len(todo[t]) > 1 /\ todo[t][2].do = "fault"
  IN
  /\ At(t, {"halted"})
  /\ state' = [state EXCEPT ![GroupOf(t)] = StateAfterStop(errors[t])]
  /\ IF errors[t] /\ ~swallowed THEN Raise(t)
       ELSE Continue(t, <<>>) /\ errors' = [errors EXCEPT ![t] = FALSE]
  /\ UNCHANGED <<generation, requested, ownerChecked, monitorVars, robotVars, rest>>

(* The journal is recorded as dirty, unless the last outcome is unknown or the   *)
(* objects cannot be read; a restore only needs the journal to be its own.     *)
(* One step, as if one group at a time were maintained: MaintenanceJournal     *)
(* has the look at the flag and the record apart.                            *)
Records(t) ==
  LET g == GroupOf(t)
  IN
  /\ At(t, {"transact"})
  /\ \/ /\ op[t] = "maintain" \/ journal # g
        /\ Raise(t) /\ UNCHANGED journalVars
     \/ /\ IF op[t] = "maintain" THEN ~dirty ELSE journal = g
        /\ journal' = g /\ dirty' = TRUE
        /\ Continue(t, <<>>) /\ UNCHANGED errors
  /\ UNCHANGED <<ownerVars, monitorVars, robotVars, pending, crashes, asked>>

(* It is closed after the last write.  A rollback closes it or leaves the        *)
(* outcome unknown; a restore that has failed leaves it so always.           *)
Closes(t) ==
  /\ At(t, {"close", "roll_back"})
  /\ dirty' \in CASE At(t, {"close"}) -> {FALSE}
                  [] op[t] = "restore" -> {TRUE}
                  [] OTHER -> BOOLEAN
  /\ Continue(t, <<>>)
  /\ UNCHANGED <<ownerVars, errors, monitorVars, robotVars, pending, crashes, journal, asked>>

(* What maintain() does at last, whatever has happened in the transaction.       *)
Concludes(t) ==
  LET g == GroupOf(t)
  IN
  /\ At(t, {"maintained"})
  /\ state' = [state EXCEPT ![g] = IF Resolved(g) THEN "Initialized" ELSE "Fault"]
  /\ Continue(t, IF Resolved(g) THEN <<>> ELSE Steps(<<"maintenance_lock">>, g))
  /\ UNCHANGED <<generation, requested, ownerChecked, errors, monitorVars, robotVars, rest>>

-----------------------------------------------------------------------------
(* Operations begin and end.                                                *)

(* Mutant of Unlocked: one free group is enough. *)
AnyUnlocked(gs) == \E g \in gs : \A t \in Threads : g \notin held[t]

Unlocked(gs) == \A g \in gs : \A t \in Threads : g \notin held[t]

(* operation(): once the owner is known, with all locks or none. *)
Begin(t, action, gs) ==
  /\ op[t] = "" /\ ownerChecked
  /\ Unlocked(gs)
  /\ \A g \in gs : state[g] \in Allowed(action)
  /\ requested' = requested \cup gs
  /\ op' = [op EXCEPT ![t] = action]
  /\ held' = [held EXCEPT ![t] = gs]
  /\ todo' = [todo EXCEPT ![t] = Program(action, gs)]
  /\ UNCHANGED <<state, generation, ownerChecked, errors, monitorVars, robotVars, rest>>

(* The locks are released; what the monitor saw is forgotten. *)
Ends(t) ==
  /\ op[t] # "" /\ todo[t] = <<>>
  /\ op' = [op EXCEPT ![t] = ""]
  /\ held' = [held EXCEPT ![t] = {}]
  /\ observed' = IF op[t] \in {"monitor", "converge"} THEN Unobserved ELSE observed
  /\ seen' = IF op[t] \in {"monitor", "converge"} THEN Nothing ELSE seen
  /\ UNCHANGED <<ownerVars, todo, errors, robotVars, rest>>

-----------------------------------------------------------------------------
(* check_owner(): a new coordinator meets sessions of an earlier one.        *)

OwnerBegins ==
  /\ ~ownerChecked /\ op["owner"] = ""
  /\ op' = [op EXCEPT !["owner"] = "owner"]
  /\ todo' = [todo EXCEPT !["owner"] = Steps(<<"owner_status">>, "all")]
  /\ UNCHANGED <<ownerVars, held, errors, monitorVars, robotVars, rest>>

(* Mutant of Previous: an earlier session counts only while it is armed. *)
PreviousArmed == {g \in Groups : phase[g] = "armed"}

Previous == {g \in Groups : phase[g] # "closed"}

OwnerReads ==
  LET on(do, gs) == [do |-> do, on |-> "all", with |-> gs]
  IN
  /\ At("owner", {"owner_status", "owner_list"})
  /\ Continue("owner",
       IF At("owner", {"owner_list"})
         THEN IF active = {} THEN <<>> ELSE <<on("release_owned", active)>>
         ELSE (IF Previous = {} THEN <<>> ELSE <<on("owner_lost", {}), on("owner_list", {})>>)
                \o <<on("taken_over", Previous)>>)
  /\ UNCHANGED <<ownerVars, errors, monitorVars, robotVars, rest>>

TakesOver ==
  LET previous == Head(todo["owner"]).with
  IN
  /\ At("owner", {"taken_over"})
  /\ state' = [g \in Groups |-> IF g \in previous THEN "Fault" ELSE state[g]]
  /\ generation' = [g \in Groups |-> IF g \in previous THEN generation[g] + 1 ELSE generation[g]]
  /\ requested' = requested \cup previous
  /\ ownerChecked' = TRUE
  /\ Continue("owner", <<>>)
  /\ UNCHANGED <<errors, monitorVars, robotVars, rest>>

(* The coordinator's process is restarted.  A call a thread is in may have       *)
(* been sent; the new process knows nothing of it nor of the pending ones.   *)
Crash ==
  /\ crashes < MaxCrashes
  /\ crashes' = crashes + 1
  /\ \E sent \in SUBSET {t \in Threads : At(t, Mutations \cap Unreliable)} :
       pending' = {[c EXCEPT !.own = FALSE] : c \in pending} \cup {Call(t, FALSE) : t \in sent}
  /\ Cardinality(pending') <= MaxOrphans
  /\ state' = [g \in Groups |-> "Stopped"] /\ generation' = [g \in Groups |-> 0]
  /\ requested' = {} /\ ownerChecked' = FALSE
  /\ op' = [t \in Threads |-> ""] /\ todo' = [t \in Threads |-> <<>>]
  /\ held' = [t \in Threads |-> {}] /\ errors' = [t \in Threads |-> FALSE]
  /\ observed' = Unobserved /\ seen' = Nothing
  /\ UNCHANGED <<robotVars, journalVars, asked>>

-----------------------------------------------------------------------------
(* monitor()                                                                *)

(* Mutant of Rounds: the locks come after what can fail. *)
LocksLast == <<"status", "lock_dirty", "resources">>

(* The monitor locks first and looks then. *)
Rounds == <<"lock_dirty", "status", "resources">>

MonitorBegins ==
  /\ Monitored /\ op["monitor"] = "" /\ ownerChecked
  /\ op' = [op EXCEPT !["monitor"] = "monitor"]
  /\ observed' = [g \in Groups |-> <<generation[g], state[g]>>]
  /\ todo' = [todo EXCEPT !["monitor"] = Steps(Rounds, "all")]
  /\ UNCHANGED <<ownerVars, held, errors, seen, robotVars, rest>>

(* Whatever group the journal names, the guard is told at every turn. *)
LocksDirty ==
  /\ At("monitor", {"lock_dirty"})
  /\ Continue("monitor", IF dirty THEN Steps(<<"maintenance_lock">>, journal) ELSE <<>>)
  /\ UNCHANGED <<ownerVars, errors, monitorVars, robotVars, rest>>

ReadsStatus ==
  /\ At("monitor", {"status"})
  /\ seen' = [seen EXCEPT !.phase = phase]
  /\ Continue("monitor", <<>>)
  /\ UNCHANGED <<ownerVars, errors, observed, robotVars, rest>>

ReadsResources ==
  /\ At("monitor", {"resources"})
  /\ seen' = [seen EXCEPT !.active = active]
  /\ Continue("monitor", Ones("suspect", requested))
  /\ UNCHANGED <<ownerVars, errors, observed, robotVars, rest>>

(* Mutant of Matches: armed groups are not looked at. *)
MatchesRunning(s, p, running) == s = "Running" => p = "open" /\ running

(* What a group in state s should look like. *)
Matches(s, p, running) ==
  /\ s = "Armed" => p = "armed"
  /\ s = "Running" => p = "open" /\ running

Suspects ==
  LET g == GroupOf("monitor")
      fine == Matches(state[g], seen.phase[g], g \in seen.active)
  IN
  /\ At("monitor", {"suspect"})
  /\ Continue("monitor", IF fine THEN <<>> ELSE Steps(<<"confirm">>, g))
  /\ UNCHANGED <<ownerVars, errors, monitorVars, robotVars, rest>>

(* Mutant of SameSession: what it saw is taken for the present session. *)
AnySession(g) == TRUE

(* Nothing has begun since the monitor looked. *)
SameSession(g) == observed[g] = <<generation[g], state[g]>>

(* It stops the group unless an operation is at work on it, or the session it  *)
(* looked at is over.                                                        *)
Confirms ==
  LET g == GroupOf("monitor")
      stops == Unlocked({g}) /\ SameSession(g)
  IN
  /\ At("monitor", {"confirm"})
  /\ todo' = [todo EXCEPT !["monitor"] =
       (IF stops THEN Stop(g) \o Steps(<<"condemned">>, g) ELSE <<>>) \o Tail(@)]
  /\ held' = [held EXCEPT !["monitor"] = IF stops THEN {g} ELSE {}]
  /\ UNCHANGED <<ownerVars, op, errors, monitorVars, robotVars, rest>>

(* The group becomes Fault and its lock is released. *)
Condemns ==
  /\ At("monitor", {"condemned"})
  /\ state' = [state EXCEPT ![GroupOf("monitor")] = "Fault"]
  /\ todo' = [todo EXCEPT !["monitor"] = Tail(@)]
  /\ held' = [held EXCEPT !["monitor"] = {}]
  /\ UNCHANGED <<generation, requested, ownerChecked, op, errors, monitorVars, robotVars, rest>>

-----------------------------------------------------------------------------
Init ==
  /\ state = [g \in Groups |-> "Stopped"] /\ generation = [g \in Groups |-> 0]
  /\ requested = {} /\ ownerChecked = FALSE
  /\ op = [t \in Threads |-> ""] /\ todo = [t \in Threads |-> <<>>]
  /\ held = [t \in Threads |-> {}] /\ errors = [t \in Threads |-> FALSE]
  /\ observed = Unobserved /\ seen = Nothing
  /\ phase = [g \in Groups |-> "closed"] /\ active = {} /\ component = "unconfigured"
  /\ asked \in Workloads
  /\ \/ journal = "none" /\ dirty = FALSE
     \/ journal \in Maintained /\ dirty = TRUE /\ "restore" \in asked
  /\ locked = {} /\ pending = {} /\ crashes = 0

Works(t) ==
  \/ Answered(t) \/ Refused(t) \/ TimesOut(t)
  \/ ReadFails(t) \/ ReadsRobot(t) \/ Checks(t) \/ Transition(t)
  \/ Rebuilt(t) \/ Assigns(t) \/ Bumps(t) \/ Halted(t)
  \/ Records(t) \/ Closes(t) \/ Concludes(t) \/ Ends(t)

Monitors == MonitorBegins \/ LocksDirty \/ ReadsStatus \/ ReadsResources \/ Suspects \/ Confirms \/ Condemns
Owns     == OwnerBegins \/ OwnerReads \/ TakesOver

Next ==
  \/ \E t \in Workers, action \in asked : \E gs \in Scopes(action) : Begin(t, action, gs)
  \/ \E t \in Threads : Works(t)
  \/ Monitors \/ Owns \/ Crash
  \/ \E c \in pending : TakesEffect(c)
  \/ \E g \in Groups : SessionEnds(g) \/ ControllersStop(g)

Spec == Init /\ [][Next]_vars

(* The executor has threads for all of them: a step that can be taken is, and  *)
(* the monitor's timer fires.                                                *)
FairSpec ==
  Spec /\ WF_vars(Monitors) /\ WF_vars(Owns) /\ \A t \in Threads : WF_vars(Works(t))

-----------------------------------------------------------------------------
(* Somebody is working on the group: its state is about to change. *)
AtWork(g) ==
  \/ op["owner"] # ""
  \/ \E t \in Threads :
       g \in held[t] \/ (op[t] = "converge" /\ \E i \in 1..Len(todo[t]) : todo[t][i].on = g)

(* A group that may move is one the coordinator knows to be Running: only      *)
(* then does its monitor look after it.  Through refusals, late calls and a    *)
(* new coordinator's takeover; where a halt may fail it does not hold.       *)
Watched == \A g \in Groups :
  ownerChecked /\ phase[g] = "open" /\ ~AtWork(g) => state[g] = "Running"

(* A call that timed out in an earlier operation does not change the session   *)
(* or the controllers of a group that has been armed since (ensure_settled).   *)
LateCallsSpareSessions ==
  [][\A g \in Groups : \A c \in pending :
       c.own /\ TakesEffect(c) /\ state[g] \in Live /\ ~AtWork(g) =>
         phase'[g] = phase[g] /\ (g \in active' <=> g \in active)]_vars

(* The component is never taken from its active state while a group of it may  *)
(* move: not by another group's shutdown, by a rebuild or by a late call.      *)
TeardownSparesSessions ==
  [][component = "active" /\ component' # "active" => \A g \in Groups : phase[g] # "open"]_vars

(* The monitor stops a group only if what it saw is wrong is still wrong when   *)
(* it takes the lock: an old observation never ends a newer session            *)
(* (test_groups.py: monitor discards old observations).                      *)
MonitorJust ==
  [][\A g \in Groups : held'["monitor"] = {g} /\ held["monitor"] = {} =>
       ~Matches(state[g], phase[g], g \in active)]_vars

(* Halted means that the guard has closed the session and no controller of the *)
(* group is active, whatever failed or came late on the way there.           *)
HaltedIsQuiet == \A g \in Groups :
  state[g] = "Halted" /\ ~AtWork(g) => phase[g] # "open" /\ g \notin active

(* A group that the coordinator holds to be armed or running although its       *)
(* session has ended does not stay so: the monitor, or an operation, sees it.   *)
Mismatch(g) == state[g] \in Live /\ phase[g] = "closed"
MismatchResolved == \A g \in Groups : Mismatch(g) ~> ~Mismatch(g)

(* A group with an unresolved journal never moves, whatever comes late          *)
(* (groups.py:177-181).                                                      *)
UnresolvedStaysClosed == \A g \in Groups : dirty /\ journal = g => phase[g] # "open"

(* Once a coordinator knows its owner, the guard is told of an unresolved        *)
(* journal before long: by the operation that left it or, when that process    *)
(* has died, by the next one's monitor, even if that can read nothing more.     *)
(* Before, while check_owner() cannot read the guard's status, nobody tells the *)
(* guard, and no operation begins (groups.py:45, 100, 367-369, 372-376).  The   *)
(* locking call itself is taken to succeed.                                  *)
Forgotten(g) == ownerChecked /\ dirty /\ journal = g /\ g \notin locked
UnresolvedIsLocked == \A g \in Groups : Forgotten(g) ~> ~Forgotten(g)

=============================================================================
