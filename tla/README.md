# Verification of the robot's motion permission

This directory holds TLA+ modules for the robot of this repository: the ROS 2 software that
decides whether a motor may move and brings commands to it, and the CANopen master and the
flipper manager of the ROS 1 archive. The reference is the source; every definition that models
code is listed in `PROJECT.json` under `map` with the lines it stands for.

## 1. The system

The robot has four motion groups (arm, flippers, base, gripper) on two hardware components
(CANopen bus, private CAN). Software of several processes wants to move them, and the question
every writer asks is one method: `Domain::permits(group, epoch)`.

| component | state | operations | interacts with |
|---|---|---|---|
| permission gate, `robot_safety/src/domain.cpp` | state and epoch per group, readiness per axis, outstanding events, expiring conditions, owner lease, inhibit flag; a legacy whole-vehicle state and epoch | configure, report axis/backend, unprepare, condition, event, acknowledge, arm, run, halt, invalidate, global stop and reset, renew lease, permission queries, the legacy calls | called by all threads of the process, one mutex |
| guard services, `robot_safety/src/runtime.cpp` | none of its own | `/robot_runtime/groups/<g>/{arm,run,halt,acknowledge,...}`, `global_stop`, `owner_heartbeat` | turns ROS calls into calls of the gate, several executor threads |
| device session, `axis_session.hpp`, `mock_system.cpp` | per joint: prepared flag and epoch, session epoch, claim, command | read, write, controller switch, prepare, activate, deactivate | real-time loop against executor threads, through atomics and the gate |
| coordinator, `robot_hardware_runtime/groups.py`, `node.py` | state and generation per group, locks, pending late calls | init, enable, resume, halt, recover, shutdown, profiles, monitor, converge | remote calls with timeouts to guard, hardware and controller manager |
| maintenance journal, `policy.py` | a file on disk, dirty axes | transaction, restore | SDO writes to drives, crash between any two |
| base command: `base_cmd_node`, velocity controllers | token and age of the last state message, target, profile; subscription epoch, cached command | hear a state, receive, profile, expire; activate, retire, update | state messages of the coordinator, messages to retired subscriptions |
| `servo_gate` | session, ready and pending flags, ages | hear a state, stop and start Servo, pass commands, watchdog | operator, MoveIt Servo (asynchronous calls), the arm's controller |
| arm goal executor | one goal, busy flag, its picture of the robot | accept, plan, send, await, cancel, time out, emergency halt, close | action clients, MoveIt, trajectory controller, group halt service |
| host bridge core | mode, emergency, watchdog flag, time of the last input | input, emergency stop and clear, mode change, reset, watchdog | a thread per network client, the watchdog's, the ROS executor's |
| feedback freshness, `freshness.hpp` | health, newest frame, stable window | observe | its caller gives the times; in this repository only tests call it |
| CANopen master, `reference/ros1/Eyou_Canopen_Master` | system mode, fault latch; per axis protocol state, intent, command, feedback | init, enable, release, halt, recover, shutdown; frames, heartbeats; read, write | services and the 500 Hz loop under one mutex, the CAN event thread beside them |
| flipper manager, `reference/ros1/flipper_control` | profile, jog command with its stamp, what feedback and lifecycle say; the controller's buffer | feedback, jog, timer, linkage, profile switches | lifecycle and mode services of the drives, controller manager, velocity controller |
| gripper node, flipper reference, legacy coordinator; the other ROS 1 nodes | | | section 8 |
| video manager, cameras, sensors, calibration, GUIs, generators | | | no motion; see section 8 |

What is hard here: restrictions are committed lazily, so time passing changes nothing until
somebody asks; three kinds of threads share flags without a lock; the coordinator's calls may time
out and take effect later; sessions end and begin while commands for them are under way.
`PROJECT.json` lists these hazards at their lines, with the property for each or the reason there
is none yet.

What makes the components correct:

* gate: a permission lost is lost for good; stops reach whatever depends on the stopped group and
  nothing else; they end only by explicit operations, never because time or good feedback passed;
* device session: a joint moves only by commands of its present session, stops when the session
  ends, and leftovers of old sessions are withdrawn;
* coordinator: it never arms what a late call may still change, never stops a session for what an
  older one did, takes over an unattended robot safely;
* journal: after a crash at any point restore finds what has to be undone;
* inputs: nothing from before a stop or a restart moves anything after it, and an operator who
  falls silent stops the robot, whichever replies and timers are still to come;
* arm goals: each is answered, and no trajectory goes on that nobody looks after;
* CANopen master: no target of an earlier arming reaches a drive, none moves while a fault is known;
* flipper manager: a controller never runs on joints in another mode, however a switch ends, and a jog
  that is not renewed comes to rest.

## 2. Modules

| module | what it is |
|---|---|
| `SessionGate` | the abstract specification: what the gate promises a writer. Each group goes closed, armed, open, closed; a new session has a new epoch. With `GateTypeCorrect` and `GateSpends`. |
| `SafetyDomain` | `robot_safety::Domain`, one action per public method |
| `SafetyDomainProofs` | its inductive invariant and theorems |
| `MCSafetyDomain` | instances |
| `HardwareSession` | one hardware component, composed with `SafetyDomain` (it EXTENDS it and calls its actions) |
| `HardwareProofs` | the inductive invariant of the component and its theorems |
| `MCHardwareSession` | instances, the view |
| `GroupCoordinator` | the coordinator's process, its threads and remote calls, against the guard as `SessionGate` describes it, the controllers and one hardware component |
| `CoordinatorProofs` | the inductive invariant of the coordinator and its theorems |
| `CoordinatorWatched` | what it takes besides for `Watched`, and for `TeardownSparesSessions` |
| `MCGroupCoordinator`, `MCTakeover` | the view, and the two workloads of the monitor's run; the sessions a new coordinator has found live |
| `MaintenanceJournal` | maintenance of the drives' persistent objects, with the journal file and crashes |
| `JournalProofs` | its inductive invariant and theorems |
| `MCMaintenanceJournal` | a drive of three objects, two requests, one or two groups |
| `BaseInput` | the way of a velocity from the operator to the tracks, beside the coordinator's restarts |
| `ServoGate` | the gate between operator, MoveIt Servo and the arm |
| `ArmGoalExecutor` | the arm's action server |
| `HostBridge` | the threads of the host bridge |
| `Freshness` | `robot_safety::Freshness` |
| `CanopenMotion`, `MCCanopenMotion` | the CANopen master of the ROS 1 archive and its view |
| `FlipperManager` | the flipper manager of the ROS 1 archive with its reference generator and velocity controller |
| `MCParts` | five parts that share no state (base input, freshness, CANopen, journal, flippers), one of them per behaviour |
| `MCServices` | three nodes that serve requests and share no state (arm goals, Servo gate, bridge), one of them per behaviour, with fairness |
| `PartsProofs` | invariants and theorems of the CANopen master, freshness, base input and flippers, and the types of all parts |
| `ServicesProofs` | invariants and theorems of the three services |

### SafetyDomain

All methods take `mutex_` first, so one call is one step. Variables carry the names of the
members. What is abstracted:

* *time*: a deadline is kept as the time left until it (`leaseLeft`, `evidence`), `Tick` counts
  them down. One call reads the clock once; the code reads it several times within one lock, which
  differs only when a deadline passes inside a call.
* *scope()*, a work list in the code, is the least fixed point it computes, stated as the groups
  that are in every closed superset of the seed. The checks of the closure do not use it again:
  `RevokedForCause`, `QueryCommits` and `RecoveryIsExplicit` are stated by chains of associations
  (`Exposed`, `Endangered`), and `ChainsRestrict` proves that the two agree.
* event fields that only carry text (reason, code, recovery) are left out; the id, axis, group,
  backend, category and severity decide and are kept.
* the `events()`, `diagnostics()`, `group()` and `permits()` queries all commit what is due and
  are the action `Poll`. The states it leaves behind are `Queried`, defined in every state, so that `QueryCommits` can
  speak of a query that changes nothing as well.
* `requireOwnerLease` and the first configuration happen before services exist
  (`runtime.cpp:29`), so `RequireOwnerLease` asks that no group is live.

`restrictions()` and `expireOwner()` are not actions: they run inside the calls, in the order of
the code (`Propagate`, `ExpireOwner`).

### HardwareSession

Three kinds of threads: the controller manager's loop (`cm`: read each joint, let controllers
run, maybe switch, write each joint), the prepare service (`preparing`), and the guard's services
and fault injection. Every call into the gate is one step of `SafetyDomain`; between two calls, and
between two stores to atomics, the other threads run. `write()` asks `permits()` in one step (`WriteJoint`) and applies
the command in another (`ApplyCommand`): the domain's mutex is free in between, and the session may end there.
`preparationRevoked()` alone is up to four
steps (ask for the group; load `prepared` and ask whether all is inhibited; compare epochs; drop).
A command is remembered as the epoch it was written in, its value does not matter. A step reads the
gate after the call has committed what was due, hence the primes (`state'`, `Permits(g)'`).

### GroupCoordinator

Every public operation of `GroupCoordinator` is a list of steps (`Program`), built
from `_init`, `_prepare`, `_acknowledge`, `_arm`, `_stop` and the phases of `_apply` (`Inits`, `Prepares`, ... do
one step for each group, `Each`; `WithoutGroup` leaves out a group that has failed). A thread
(`todo[t]`) takes one step at a time: a remote call, a read whose answer decides which steps come
next, a check, or an assignment of `states[g]` or `generations[g]`. The threads are the executor's
workers, the monitor and the first caller of `check_owner()`. What an exception does to the rest of
the list is `Raise`: `_apply` stops the group, marks it Fault and goes on with the others; `maintain`
concludes a transaction it has begun (`roll_back`, `maintained`) and otherwise just ends; the
monitor's goes to `converge()`, which takes no locks.

* A mutating call (`Adapter.call` with `mutation=True`) is answered, refused, or times out; then it
  is in `pending` and takes effect, or fails, at any later time (`TakesEffect`). `ensure_settled` is
  `Settled` and `ResourceSettled`. `Unreliable` names the calls and reads of an instance that may
  fail although nothing stands against them; a call the guard cannot grant is refused anyway. A call
  whose answer is lost after it took effect is one that times out and takes effect at once.
* Of the guard only the phase of a group's session is kept, as in `SessionGate`; a session may end
  at any time (`SessionEnds`: fault, lapse, another client), and a controller may fail. After
  `owner_lost` the guard is inhibited until it is reset; somebody may do that at once, so the
  inhibition itself is not a variable.
* All groups use one component (`transition`, `recover_resource`, `shutdown`); with several, each
  would have a part like it and a lock of its own. The component's lock is held while a lifecycle
  call is under way (`Transition`).
* `operation()` takes its locks without waiting. It is one step here: a partial selection that is
  given up again is not modelled. A request whose group states do not allow it does nothing.
* `Crash` forgets everything the process holds in memory, the pending calls included: they remain
  outstanding but are no longer its own (`own`).
* `maintain` stops the group, disables and verifies the axis and begins the transaction, whose writes are one
  call here that is good, is rolled back, or has an outcome nobody knows (`Records`, `Closes`); object by object it is
  in `MaintenanceJournal`. At last the group is Initialized or, while the journal is dirty, Fault and locked
  in the guard (`Concludes`, `locked`). A process starts over whatever journal the last one left (`Init`). The
  monitor repeats the lock at each turn before it reads anything (`Rounds`), and only `_acknowledge` clears it.
* Left out: controller names and profiles (a profile switch is stop, init, enable, start), `topology_generation`, operation records, published diagnostics.

### MaintenanceJournal

A thread that holds a group's lock goes through `transaction()` or `restore()` (`policy.py`); `job[g].at`
is the stage it is in, with the locals of the Python frame beside it. Each transfer to the drive, each
record of the journal and the look at `self.dirty` is a step, and each may fail. `ram` is what a drive
works with, `stored` what it has saved; `file` and `dirty` are the journal and the flag in memory.
Two history variables say what the properties are about: `whole`, the configurations of a joint that
a transaction was completed for, and `unsure`, the joints whose last save or rollback has an outcome
nobody knows.

* A transfer that fails has reached the drive or never will. One that arrives late is the former: the
  server of a joint's SDO services handles requests in order, so it is over before the next
  transfer is answered; the order is an assumption on the external driver.
* `record()` writes a temporary file and renames it: the file changes at once, or not at all.
* Conversions of radians to counts, the checks of `verify()` other than the lock, and the reason of
  a failure are left out. Values are few, an object list is short; nothing in the code depends on either.
* `PowerCycle` excludes the joint that is being maintained: see the hazards.
* `restore()` reads the file once more after `maintain()` has compared its joint; this is one step.

### BaseInput

Three processes: the coordinator (`phase`: which of the group's operations is under way, `session`),
`base_cmd_node`, whose executor has one thread, and `SessionDiffDriveController`. A command is the
number of the session it was given in. `State` is what a state message says, and what the node
keeps as its token: the record of the last operation, which every operation and its end changes.
Time has ticks of 100 ms, so that 300 ms are `Expiry` with one tick more for each hop. Messages may be
lost and replaced; what is not lost arrives within its tick, except a callback that an executor
has taken and that waits while its subscription is retired. The operator's node and the
coordinator are the surroundings. Velocities lose their sizes: the profile and the limiter either have
arrived at what they were given or still carry what they had.

### ServoGate

The node's callbacks are the actions, one at a time. `asked` holds the calls between node and Servo,
each with the token that the closure of its callback has captured; a reply may come at any later time,
also after newer calls. Servo obeys or refuses. Two assumptions are about Servo and
DDS: it starts without a held command (`incoming_command_timeout: 0.1`, `servo_ros2.yaml`, is shorter
than the two service calls), and when it obeys a stop, no command is under way to it or from it. The node
compares the times of commands with `activated`; a command under way when `ready` is set is older and is
dropped at that moment. `retry_at` may always have passed. The second subscription a second `started()`
makes is left out: every callback asks for token and `ready` again.

### ArmGoalExecutor

`stage` is where `execute()` is: before each wait, each look at the shared picture, and each request.
`requests` are calls on their way to the trajectory controller; its answer, its results and the
coordinator's operations interleave. `known` and `fresh` are what the state callbacks have left. An
emergency halt that is not asked for, because the node is closing or the service is missing, is
remembered in `helpless`. Assumed: a call is taken within the seconds that a restart of the
group takes. Plans, targets and the reasons for a failure are choices. `Throws` is every exception; one of the calls
that give up an unanswered request (`arm_goal_executor.cpp:201`) is repeated by nobody and counts as `helpless` too.

### HostBridge

One job per thread. `state_lock` is held for single blocks, so each block, each publication and each
wait for a service is a step. `commanded` is per topic whether what was published last moves anything;
`body` stands for tracks, flippers and Servo, which every input tells together. Recording a command and
publishing it is one step. Keys, edges and the lateness of inputs are choices. Old sequence
numbers change nothing and are left out, named targets and the snapshot too.

### Freshness

`observe()` with its three outcomes, `Alarm`, `Late`, `Timely`, and the clock that runs backwards. Two
history variables say since when observations have been calm and which frame came before.

### CanopenMotion

`loop_mtx` serialises the services and the control loop, so a service excludes a turn of the loop;
the CAN event thread runs beside both (`handling`). A frame is a step up to the first unlock of its axis,
then `PublishSnapshot`, then the alarm that sets the latch. `feedback`, `intent`, `commands` are
`SharedState`, `call` the point at which a service has given way. History variables: `starts` counts
`Start()`, `since` remembers in which arming a buffer was last aligned, `released` a release since
the last shutdown.

* `global_fault` and `all_axes_halted` are always set together and are `latch`.
* The CiA 402 state machine of a drive is `seen`: off, on, fault. What a frame reports may be anything
  the drive can do, in `Reported`.
* The watchdog on intents counts 20 frames without a new sequence number; here any frame without one
  may be the twentieth. The guard frames of the alignment are a choice in `Readies`.
* `PublishSnapshot()` copies under the axis's lock and stores afterwards; it is one step here. Between
  callbacks that is exact, there is one event thread. A service that disables axes publishes too
  (`axis_logic.cpp:231`), and could store a copy taken before a callback over what that callback has told;
  until the axis's next frame `SharedState` would not know a fault or a lost heartbeat. Not modelled.
* The wrap of `arm_epoch` after 2^32 armings is beyond the bound.
* Left out: boot and its SDO retries, limits, mode and zero services, the IP executor, the ROS
  nodes around the master.

### FlipperManager

The node spins one thread, so a profile switch, which waits for one service after the other, keeps
every other callback out: while `turn` is not idle, only its calls, the controller, the drives and time
go on. `turn` has the stage and the locals of the two functions, `PerformColdSwitch` and
`PerformColdSwitchCanopen`; the second goes the way of the first from Running, but takes no notice of how
the halt ends. Each call may fail with or without its effect; what `fail()` leaves behind is what
the calls before it have done. `switch_state_`, `detail_` and `switching_` outside a switch are read by
nobody in the node.

* A velocity is told by whether it moves anything; positions, and with them trajectories, are left out.
  The low-pass filter follows at once or later, and is cut off by a time-out.
* Mode and lifecycle services stand for what `canopen_aux_services.cpp` and the coordinators do: a mode
  changes in Standby only. Operators use the lifecycle services at any time, and drives fail; nobody
  else sets modes.
* Controllers are switched strictly, so a controller that is stopped already cannot be stopped again.
* The configuration requires feedback and takes velocities as arrays (`flipper_control.yaml`).

## 3. Runs

| run | instance | checks |
|---|---|---|
| `domain_stops` | arm, base, gripper; CANopen and private CAN; both associations (arm to base for every category, gripper to arm for one), two conditions; one raised event, backend reports | `StopHolds`, `LiveIsReady`, `NoLapseForgiven`, `RevokedForCause`, `QueryCommits`, `RecoveryIsExplicit` |
| `domain_pair` | arm and base with either policy, one legacy component, both writer modes, one id with two contents, warnings, lease of 2 ticks, evidence of 1 | `InhibitHolds`, `GivesSessions` (refinement), `LapseCommitted` |
| `ends` | one joint; all switches, faults | `HwTypeOK`, `StopsAfterSession`, `UnpreparedEnds`, `StaleIsDropped`, `NobodyLeftBehind` |
| `pair` | two joints of one group | `MovesInSession` |
| `stale` | as `ends`, epochs to 5 | `MovesPrepared`, violated: see section 6 |
| `coord_monitor` | one group, one worker beside the monitor, one restart; halt, release, both status reads and maintenance fail | `HaltedIsQuiet`, `MonitorJust`, `MismatchResolved`, `UnresolvedIsLocked` |
| `coord_pair` | two groups on the component, one of them maintained, two workers; run and the transition to unconfigured fail or come late, one restart | `CoordTypeOK`, `Watched`, `UnresolvedStaysClosed`, `LateCallsSpareSessions`, `TeardownSparesSessions` |
| `coord_owner` | one group, one restart; releasing the controllers fails | `TakenOverIsReleased`, violated: see section 6 |
| `journal_shared` | two joints in two groups; the requests of `parts`, journal | `UnsureIsJournalled`, violated: see section 6 |
| `parts`, base | two sessions, 300 ms of two ticks, messages lost, repeated, retired | `NothingCarriedOver`, `SilenceStops` |
| `parts`, feedback | warning, stop and stable window of 2, 3 and 2, times to 8 | `TrustIsEarned` |
| `parts`, canopen | a powered position axis, another that fails; one start | `RunsLatched`, `AlignedInArming`, `FaultStopsAll` |
| `parts`, journal | two joints of one group; three objects; offsets and limits, saved or not | `WholeOrInterlocked` |
| `parts`, flipper | two joints, either backend, operators beside the switch | `OwnMode`, `JogsSubside` |
| `parts` | whichever part moves | `PartsTypeOK` |
| `services`, arm | two goals, operations without bound, calls and replies in any order, closing | `Attended`, `GoalAnswered` |
| `services`, gate | two sessions of the arm with another state between them, two calls at a time | `Fenced` |
| `services`, bridge | two clients, watchdog and executor | `WatchdogGuards`, `EmergencyStops` |
| `services` | whichever node moves | `ServicesTypeOK` |
| `canopen_restart` | one axis, two starts | `MotionIsReleased`, violated: see section 6 |

**Bounds and views.** Epochs only grow and are only compared for equality. In the runs of the
gate with `VIEW WithoutEpochs` no step depends on an epoch at all, so leaving them out of the state
TLC remembers is exact; `MaxEpoch = 1000` is then never reached. The view `UpToEpochs` keeps of each
remembered epoch whether it is the present one and whether it is the one a comparison under way
uses, which is all any step of the module asks: two states with one view have steps to states with
one view.
Three groups are needed for a chain of associations; the flippers relate to the base as the arm
does. A lease of two ticks makes a lease that is running out, one that is renewed in time and one
that has lapsed; evidence needs only be valid or not. Two joints are enough for joints of a group
that are claimed at different times; the liveness properties are about one joint each and are
checked with one.

The coordinator's instances choose which calls are unreliable: with all of them the graph is beyond
TLC, and each question needs few. One group suffices for the monitor, which handles groups one after
another; two groups and two workers for everything about sharing. `MaxPending = 1`: one late call at a
time; `MaxCrashes = 1`; `MaxOrphans = 0` in all runs, because with a call of the dead process still
outstanding `Watched` fails (nothing of the fence survives a restart, recorded as a hazard).
`coord_pair` leaves the monitor out (`Monitored = FALSE`): its reads would succeed and change nothing
but `held`, at twenty times the states. Generations only grow and are compared with an earlier value
by the monitor alone; the view `WithoutGenerations` keeps that comparison, so it is exact.
`coord_monitor` has two workloads, chosen at the start (`Workloads`): enabling, resuming and switching profiles with no
journal, and initialising, maintaining and restoring, with or without a dirty one. Together they are what liveness can be checked of; `coord_pair` mixes
enabling, resuming, shutdown, recovery of the resource and maintenance; `recover` of a group is the recovery of
the resource without the rebuild, and `halt` the first of its phases. There one group is maintained: with two the journal itself goes wrong (`journal_shared`).

The journal needs no bounds but its values: two joints, because a journal for one must not be taken
for the other's; a request of one object and one of three (switch the limits off, change one, switch
them on), so that a failure falls before, between and after writes; the limits are two objects in the
code and one here, nothing tells them apart. All failures and crashes may happen any number of times.

`parts` and `services` are one run each because parts that share no state can be explored side by side: the
first state chooses the one that moves (`Parts`, `Services`), the others stay initial. The states add up and do
not multiply, and every behaviour of a part is there. `PartsTypeOK` and `ServicesTypeOK` are the type invariant
of whichever moves. `services` has the nodes with liveness, apart because liveness costs TLC much for
every state it knows; the base, CANopen, journal and flipper parts would add a million. The view keeps of the
one that moves:

* base: of a retired message that it is there, of an age beyond its limit that it is, and `silence` only while
  a command is anywhere on its way. Two sessions, because a command must not get from one into the next;
* arm: whether the operation is the one last heard of and whether the ticket is, since operations are compared
  with nothing else: `MaxOps = 1000` is never reached. Two goals: a late answer for the first meets the second;
* canopen: `EffectiveView` leaves out what the next frame replaces before anybody reads it. The axis that
  fails is not the one that moves: a fault must stop the others. One start, because with
  a second both action properties fail by what `canopen_restart` shows. A velocity axis passes targets under
  a stronger condition than a position axis; the proofs cover both;
* flipper: a jog's age while the node or the controller may still use it, the filter while the profile is one of
  velocities, the joints left to switch while they are switched. One tick of time-out for node and controller
  each: a command is fresh, about to lapse or lapsed. Two joints, so that a switch can stop between them;
* feedback, gate, bridge and journal: everything. The gate sees states 1 and 3 with the arm under servo, so a record between
  two sessions, and has two calls, a stale reply beside a new stop. In the bridge time may
  pass at any moment, which is more than the timers allow.

`CHECK_DEADLOCK FALSE` where the epoch bound may stop everything; with the view it is not reached.

**Fairness.** `FairSpec` of the gate assumes weak fairness of `Poll` only: the controller manager
asks `permits()` in each cycle. `HwSpec` assumes strong fairness of the loop (strong, because a
lifecycle transition may disable it and the model allows endless activation and deactivation, which
the code's manager does not do) and that a deactivation that has begun ends. No service is assumed
to be called by anybody. `FairSpec` of the coordinator assumes weak fairness of the monitor's timer and
of each thread that has a step to take: the executor has eight threads and every call ends by its
deadline. No operation is assumed to be requested and no late call to arrive.
The worker of the arm executor is a thread whose waits all have deadlines: weak fairness of its steps.
So are the threads of the bridge and their waits for services; and clients that say nothing else go
on sending inputs, as the operator's console does all the time (`EmergencyStops` says what becomes of the
robot if they are all there is).

## 4. What the properties say

The statement of each property is in the comment above it. The ones that cost thought:

* `NoLapseForgiven`. `Condition` and `RenewOwner` run `expireOwner()`/`propagate()` before they take
  the new value, otherwise a gap in the evidence disappears with its end. The property leaves out
  steps in which an axis becomes ready: `reportAxis` refreshes readiness first, and does forgive
  a lapse nobody asked about in that order (recorded as a hazard).
* `RevokedForCause` and `QueryCommits` bound `scope()` from above and from below. `QueryCommits` is an invariant and not
  an action property: it asks in each state what a query would leave behind. An action property would exempt the query
  that changes nothing, and that is what a `scope()` which misses a group does.
* `MovesInSession`: `permits()` may let a write through and the session end before the command is applied, so what is
  set in motion need not be in a running session any more. The property says what the code does guarantee: each write is let through
  only in the running session of its joint or else stops the joint and drops its command, and what is set in motion then
  is a command of that session. `StopsAfterSession` has the rest: whatever moves outside its session, also by that
  window, is stopped by the next look of the loop.
* `GivesSessions` says through all calls what `permits` promises, and `LostForGood` follows.
* `NobodyLeftBehind`: the joints of a group are claimed one by one and the session may change in
  between; a joint that holds an old session ends the group's new one.
* `Watched`: the coordinator's monitor only looks after groups it holds to be Armed or Running, so a
  guard that is open for a group with another state is watched by nobody. It needs `_stop` before
  every exit from an operation and the takeover to notice running sessions too. It holds as
  long as halts succeed and the monitor does not raise; `converge()` under an operation in flight can
  leave a group Fault with its guard open (recorded as a hazard).
* `LateCallsSpareSessions` is what the fence is for. It is about sessions the coordinator has
  finished opening: a late call may still end one that is being prepared.
* `UnresolvedStaysClosed`: `maintain` does not ask for the fence, so a late `arm` may reach a group under maintenance;
  that none of its late calls ends in motion takes the stop before, the fence before arming and the
  journal's veto in `_acknowledge` together. `UnresolvedIsLocked` is what remains of the promise of docs/31, line
  69, if the process dies before `maintenance_lock`: once a coordinator knows its owner, its monitor locks, and a monitor that
  looked before it locked would never do so while its reads fail. It says nothing of the time before: `monitor()` begins
  with `check_owner()` (`groups.py:372`), and while the status cannot be read there, the lock is not sent; no operation
  begins either. Nor of a guard that refuses the locking call itself, which is repeated at each turn.
* `MonitorJust` compares the present with what the monitor read before two remote calls.
* `WholeOrInterlocked` relates the drive, twice, to what was ever asked for as a whole, through
  any number of failures and crashes: a transaction that wrote some of its objects, or saved some it
  then took back, must leave the joint locked. `UnsureIsJournalled` asks that the lock survives a
  restart and names the right joint, which the code does not do for two groups (run `journal_shared`); `BeforeIsWhole`
  that a restore of a restore is still good, which is proved for one group at a time and checked by no run.
* `NothingCarriedOver` allows a command of the present session only after `base_cmd_node` has heard of the
  session; before, the old command may still go on to the tracks, see section 6. `SilenceStops` adds the two
  time-outs, of the node and of the controller, that a silence has to run through.
* `Fenced` compares what moves the arm with the session the gate believes in, with replies to earlier stops
  and starts outstanding. The gate's own check is on the token of a reply; that commands from before the stop do
  not come through besides needs Servo stopped in between.
* `Attended`: a request whose acceptance is late arrives after everything has been cancelled; the group halt
  is what catches it. `GoalAnswered` is the one about every exit of `execute()`.
* `WatchdogGuards` speaks of the moments in which all threads rest; it excludes an input in whose middle the
  watchdog fired (`overtaken`), see section 6. `EmergencyStops` has a client publish what it computed before the
  emergency began; that the next ignored input stops everything again is needed for it.
* `OwnMode` holds because a switch stops the old controller before the first joint changes, starts the new one
  after the last, and a retry begins with a strict stop of what runs no more: after some failures the node
  cannot switch again (section 6). `JogsSubside` has three places in which a velocity waits, the node's command, the
  message and the controller's buffer; a switch may keep the node from its timer for any time.
* `TrustIsEarned` is about the gap that the frame which ends it hides.
* `AlignedInArming` relates a target to the arming in which the buffer it comes from met the measurement:
  loop, event thread, re-arming after a halt and clearing of the latch are between the two. `FaultStopsAll` is
  about the other axes. `RunsLatched` lets the latch be cleared over a new fault (the recovery does that), but
  never while running.
* `StaleIsDropped` asks that nobody is renewing the preparation: preparing again and again
  against halts can keep a stale one for ever.

## 5. What is proved

`SafetyDomainProofs` proves for every value of the constants that satisfies `DomainAssumption`
(axes have a group and a backend, the empty string names nothing, policies are made of
associations, bounds are naturals) and `GroupsAssumption` (finitely many groups, each with an axis, which
`configure` refuses otherwise, `domain.cpp:33-41`; only the chains below need it):

* `Invariance`: `Spec => []DomainInv`. `DomainInv` has the type invariant; that a live session needs
  a configuration (`LiveIsConfigured`); that an expired owner has inhibited everything
  (`ExpiredInhibits`); the shape of stored events (`EventShape`: an event with an axis carries that
  axis's group and backend, which `Completed` filled in); and the safety invariants themselves.
  None of `InhibitHolds`, `StopHolds`, `LiveIsReady` is inductive alone: `StopHolds` needs
  `EventShape` for the scope of an event to contain the groups of its axes, `InhibitHolds` needs
  `ExpiredInhibits`, `LiveIsReady` needs that a readiness event stops its group at once, which is
  `Propagate` applied to the event just stored.
* `TypeCorrect`, `InhibitionHolds`, `StopsHold`, `SessionsAreReady` follow, and `LegacyGateClosed`. `TypeOK` and the
  last are in no run any more, the proof says more than an instance.
* `LapsesNotForgiven`: the action property, with one more invariant, `LiveIsLeased`: a domain that
  requires an owner has no session before the first lease.
* `DomainGivesSessions`: `Spec` implements `SessionGate` under the mapping `Phase`; each step starts,
  opens, closes or leaves the session of every group. `LostForGood` is `GateSpends` through it.
* `FaultsHaveCauses`, `QueriesCommit` and `FaultsAreRecovered`: the three properties that are stated by chains. They
  rest on `ChainsRestrict`: a group is in `Restricted`, the closure, exactly when a chain of unattested dependences of at most
  as many groups as there are leads to it. What a chain leads to is in every closed set, by the first group of
  the chain that would be outside (`ChainInScope`). What is in the closure is at the end of some chain, since these
  ends are closed; the shortest such chain meets no group twice, or it could be cut (`ChainCut`), so it is an injection into
  the groups and no longer than they are many (`ScopeByChain`). `EventOwners`, one more invariant, has the groups of
  an event's axes be those it stops by itself. On top of it, `StepCause` says why a step ends a session,
  and `FaultStays` which step may end a fault.

`JournalProofs` proves about every behaviour in which at most one group is maintained at a time
(`[]OneAtATime`; without it `journal_shared` refutes the conclusions), for any joints, groups, objects,
values, requests and order of restoring that names each object once (`JournalAssumption`):

* `JournalInvariance`: `JournalInv`. It adds to the properties that the flag is the one on disk, that
  from the first record to the last the journal is dirty, names the joint at work and holds what the
  thread holds (`OpenIsJournalled`), and what the drive holds at each stage (`Progresses`). For the
  writes that is `Leads(c, left, goal)`: writing what is left leads to the goal. `LeadsOn` and
  `LeadsDone` carry it from write to write, `UndoLeads` and `RestoreLeads` start it.
* `JournalTyped`, `WholeUnlessInterlocked` and `RestoresWhole` follow; the first states `JournalTypeOK`,
  which `parts` checks as a conjunct of `PartsTypeOK`.

`PartsProofs` proves of the parts of `parts`, each for all its behaviours:

* `FreshTypeCorrect` and `FreshTrust` for any thresholds with `0 < Warn < Stop`. `FreshInv`
  adds to `TrustIsEarned` the order of the times (`FreshOrder`): without `restless <= stableSince` the
  window that has run says nothing about what happened since.
* `NothingIsCarriedOver` and `SilenceIsBounded` from `BaseInvariance`, for any number of sessions and any
  expiry. `NothingCarriedOver` speaks of a node whose token is the state of now; that is not
  inductive, because the session may change while the node knows the old one. `SinceToken` follows the token
  while it is older: target, ramp and a live message in the queue stem from no session before it.
  `SilenceStops` bounds the sum of two time-outs; `SilenceBounded` has each leg of the way (queue, node,
  wire, controller) contribute its own.
* `FlippersInOwnMode` and `JogsAreBounded` from `FlipperInvariance`, for any joints and time-outs.
  `SwitchesAlone` says that from the first mode change of a cold switch to the start no controller runs, and
  that the joints which are done are in the new mode; `JogBounded` gives the velocity the age of the leg it is on.
* `PartsKeepTypes`: `PartsTypeOK`, under the `[]OneAtATime` of `JournalTyped`. The run `parts` has one group, so it is
  within that assumption.

Of the CANopen master it proves, for any axes, modes and bounds:

* `CanTypeCorrect`, and `RunningIsLatched` from `CanInv`. `RunsLatched` is not inductive: a fault an axis knows
  could still be unknown to `SharedState`. `Published` says that it is not, unless the callback that is going to
  tell it, and then to set the latch, is under way; `RunsGuarded` lets such a callback stand for the
  latch.
* `FaultStops` and `Alignment`, of every behaviour in which the communication is started once
  (`[]OneStart`). The restriction is not for convenience: with a second start both are false, by the behaviour of
  `canopen_restart`. `StartsQuietly` says that intents and protocol ask for no motion until a
  release; `AllFollow` orders the armings: a command's is at most that of its buffer, that at most
  the one told, that at most the axis's own, and an axis that has left its lock has one everywhere.

`ServicesProofs` proves, for any number of goals, calls and clients:

* `ArmAttended`. `Attended` is lost by a request whose worker has left while the JTC has not answered yet: were it
  accepted later, nobody would look after it. `OrphansMet` says that such a request finds a JTC that is down, a halt
  under way, or a halt that could not be had.
* `ServoFenced`. `Fenced` is about what moves; `CleanWhenReady` and `CleanWhenEmptied` say it of what was fed to
  Servo, what it holds and what it has computed, from the moment a stop for the session the node knows is
  answered (`Emptied`), which is where the fence is erected. `TokensInOrder` makes the tokens of outstanding
  calls old ones: an answer to one of them matches nothing.
* `BridgeGuarded`. `WatchdogGuards` speaks of the moments at which all threads rest. `Guarded` is the same
  between them: a topic that moves is about to be stopped by some thread, or a thread has still to note the time, or it is
  noted and the watchdog has not fired since. `MovesNoted`: whoever is going to move something notes afterwards.
* `ServicesKeepTypes`: `ServicesTypeOK` of all three.

`HardwareProofs` composes the component with `SafetyDomainProofs`, for any joints, groups and number of threads that
prepare:

* `HwInvariance`: `HwInv` and `DomainInv` hold together; `HwTypeCorrect` follows.
* `DomainBehindComponent`: every step of the component is a step of the domain or leaves it as it is. So the
  component, which calls the gate under its lock once per joint and cycle, can not bring it to a state the domain alone would
  not reach.
* `MotionNeedsSession`: the action property `MovesInSession`. `CommandsInOrder` makes it provable: a command is of its
  joint's session or later, and not of the future, so that with a permission for the joint's epoch, and epochs
  that never go back (`Advancing`), command, session and gate have one epoch between them when the write is let through.
  `Admitted` keeps what is left of that until the command is applied: the gate may have gone on, command and session may not.

In `SafetyDomainProofs` the proofs go action by action; `Propagate`, `Revoke` and `StopSessions` have lemmas of their own
because almost every action ends in one of them.

`CoordinatorProofs` proves, for any groups and workers (finitely many), whatever is asked, fails or comes late:

* `CoordTypeCorrect`: `CoordTypeOK`, with the locks: no two threads hold one group. No assumption is needed.
* `SafetyHolds`: the inductive invariant `Safety`, and from it `HaltedStaysQuiet` and `UnresolvedHolds`.

A program is a list of steps that is built from blocks, has steps put before it as answers come in, and loses steps when
one raises. So the first half of the module says which facts about lists survive all of that: that steps are of a
kind (`Uses`, `Lacks`, `Has`), that what belongs together stands together (`Chained`: `_stop` halts, lists, releases and
notes without anything between), and that there is "no this before that" for a group (`Precedes`). `ProgramSound`
says them of every operation. The second half is the invariant. Neither of the two properties is inductive, because an
operation that is under way holds beliefs about a group, and a late call may take effect in the middle:

* `Rules` is what a thread that holds a group's lock knows of it, or has still to look at before it matters: no late call
  that could raise the group is outstanding, or `ensure_settled` comes before anything that raises it (`RuleN`);
  its journal is resolved, or `_acknowledge` asks before it arms (`RuleJ`); it is stopped, or a stop comes before the
  transaction (`RuleT`); within a stop that has met no error the session is over (`RuleS`).
* `Safes` is what holds of a group that nobody holds: an unresolved journal keeps it still and not Armed; an Armed group has no
  late call that could raise it, unless somebody has given up on it and will stop it (`Bad`); a Halted one is
  quiet, unless somebody is at it. `Still` is more than "not open": with a session armed no late `run` is outstanding.
* `Calls` has at most one outstanding call per group that could raise it: that is what the fence is for.

`Safety` and what follows assume `NoOrphans`: no process is restarted, or none while one of its calls is outstanding
(`MaxOrphans = 0`, as in all runs). It is not for convenience: the new process does not know such a call, its fence does not
wait for it, and a late `arm` or `run` of the old one can undo a halt (recorded as a hazard, `node.py:90`).

The lists' lengths have no bound, so some lemmas need an induction. Where it is one over a set of numbers it can be
done: `Induction` says that a set which has 0 and the successors of its members has all naturals; it follows from the
well-foundedness of finite sets under inclusion, and is cited with the set of lengths for which the claim holds.

`CoordinatorWatched` goes on from there:

* `WatchedHolds`: `Spec /\ []NoConverge => []Watched`, for any groups, workers, workloads, maintained groups, refusals and
  late calls, restarts included, if halts do not fail and no call outlives its process.
* `WatchedAlone`: `Spec => []Watched` for the same instances without the monitor's timer, which include `coord_pair`'s.

`Safety` says when a group must be still; `Watched` says that everything else is known, and does not follow from it. A
group starts to move by a call whose answer is still to be entered, and goes on to move under an operation
that has only just entered another state for it. `Tended` adds, as a conjunction:

* `StartsLast`: once a start has begun, only starts follow in a thread's list. So between a group's first motion and its
  "Running" nothing comes that enters another state for it.
* `Minds`: of a group a thread holds, either it does not move, or nothing on the thread's list that lands it in another
  state than Running (`Landing`) comes before its stop (`RuleF`); and within a stop the session is over once the
  halt was answered (`RuleH`, where a halt that fails would be let through).
* `Kept`: a group whose state is not Running does not move, or a thread is about to enter Running for it, or to stop it
  and enter Fault (`Coming`).
* `TakenOver`: until the takeover is done no other thread does anything, its list has one of five shapes, and from the
  reset of the guard on nothing moves. It is why `Watched` speaks of `ownerChecked`.

`Unfaulted` is added for the monitor, whose list outside `converge()` never enters a Fault without a stop. The three
hypotheses are needed: a late `run` of a dead process opens a group the new one counts as Stopped; a halt that fails
leaves the session open in a group that is entered as Fault; and `converge()` halts without the locks
(`groups.py:297`), so that an enable in flight may arm and run after it, with the Fault entered last.

`TeardownSpares`: `Spec /\ []NoConverge => TeardownSparesSessions` under the same two assumptions, and `TeardownAlone`
without the second hypothesis where the monitor's timer does not run. The invariant is `Lifted`, next to `Safety` and
`Tended`. The component counts as `Up` if it is active and no late call that takes it down is outstanding.

* `Whole` and `RuleDown`: a worker that still has a step that takes the component down (`Tearing`) holds all groups, and
  each of them is down, neither armed nor able to move, or is halted before that step (`Sane`).
* `RuleUp`: a worker that raises a group it holds knows that the component is up and takes it down no more, or brings it
  up before (`Lifts`), or, in a resume of a Halted group, decides first whether it must (`Asks`).
* `Lane`: a worker that is at a transition is the only one, no late transition is outstanding (`ResourceSettled`), and
  it does not go to inactive from active. `Lone` says that a list has a transition only at its head.
* While the component is not `Up`, no group is armed or moves.

The last is what the property needs, and it needs the others: a late `inactive` is outstanding under groups that a
resume would arm, unless every way to arming leads through `transition()` and its fence.

Only model-checked: the liveness properties, which are out of the prover's reach; of the coordinator
`LateCallsSpareSessions` and `MonitorJust`. All invariants of the runs that must hold are proved.

## 6. Divergences

`docs/36_ROS2迁移剩余事项清单.md:12` says of the common check after a denied write that an old
session, a halt and the global stop still revoke the preparation. The code
(`axis_session.hpp:17-24`) looks at the group once per write cycle, and an armed group keeps its
preparation whatever epoch that was made for. A halt followed by an arm between two cycles
therefore leaves a preparation from before the halt in force (run `stale`). The coordinator
prepares again before it arms, so it needs another caller, or `converge()`, which halts without the
coordinator's locks while an enable is in flight. What moves then still moves by commands of
its own session (`MovesInSession` holds): it is the preparation that is old, not the command.

`docs/31_分组隔离与局部恢复实施验收.md:17` says that a new coordinator stops the old sessions globally
and releases the old controllers. `check_owner()` (`groups.py:45-56`) releases them only if it finds a
live session. If `owner_reset()` succeeds and the release fails, `owner_checked` stays False and it is
tried again, but by then the sessions are over: the second attempt skips the release and the
coordinator serves operations with the controllers still active. Run `coord_owner` shows just this way:
`MCTakeover` remembers in `met` the groups whose live session the new coordinator has found, and
`TakenOverIsReleased` asks that they are released when it takes over. The guard is
closed, so nothing moves, and the next stop of the group, or `_prepare` before it is armed again,
releases them; until then they are active in a group that counts as Stopped.

`docs/31_分组隔离与局部恢复实施验收.md:69` says that an uncertain save or rollback leaves a journal and a
lock. The journal is one file for all groups, and a transaction holds only its own group's lock
(`groups.py:356`). It looks at `self.dirty` (`policy.py:106`), then reads the drive's objects over the
bus, then records. Two groups that are maintained at once can both find the flag clear; the second
record replaces the first, and an uncertain outcome of the first joint is journalled by nobody (run
`journal_shared`, where the process dies after the second record; a save or rollback that fails does it too). The arm and the flippers both have CANopen axes (`group_policy_v1.yaml:6-15`) and the
node's executor has eight threads.

`Eyou_Canopen_Master/docs/2026-03-25_现行安全行为规范.md:42` says that after a fault, halt or shutdown motion takes a
new release. `RequestShutdown()` (`operational_coordinator.cpp:365-401`) leaves the intents and commands in
`SharedState` to the loop, which withdraws them in its next turn. Services and loop take
`loop_mtx` in any order; a shutdown and an init with no turn between them let the new drivers, which count
`arm_epoch` from 0 again, read `Run` and a valid command of the earlier session (run `canopen_restart`).

Two more, which no run checks:

* `Eyou_Canopen_Master/docs/2026-03-25_现行安全行为规范.md:76-80` (section 3.5) says "协议层只有在以下条件同时满足时，才允许透传非冻结目标"
  (targets pass only while all of these hold): `cmd_valid`, an `arm_epoch` that matches, and the lock left. A velocity axis
  is held to that. A position axis asks for the first two only to leave its lock; afterwards it passes targets whatever
  they say (`cia402_protocol.cpp:111-145`). Halts and new armings lock it again, an invalid command does not.
* `flipper_control/README.md:218` says "`ready=false`、`switching=true` 或底层生命周期不满足时，运动命令会被拒绝" (motion commands are
  refused while switching). `OnJogCommand` would refuse them, but the node has one thread (`ros::spin()`,
  `flipper_manager_node.cpp:1419`), which the switch occupies: jog messages that arrive meanwhile wait in the queue of ten
  and are taken after the switch as if new.

What no sentence of the repository contradicts, but a reader should know:

* In `Standby` with a latched fault `~recover` answers ok, "already Standby", and resets nothing; a shutdown and an
  init are needed.
* A halt and a restart of the base within 300 ms let the profile of the earlier session reach the new controller
  until `base_cmd_node` hears of the restart. `docs/31_分组隔离与局部恢复实施验收.md:16` is about the controllers, which do
  forget.
* In one session of the arm, after more than 0.3 s without a state, a second chain of stop and start calls may overlap the
  first: `ready` may then be set by the first while the second stops Servo. If the second start is refused, Servo stays
  off while the gate is ready. A call that is never answered leaves `pending` set until the session changes or a
  silence.
* The bridge's watchdog may fire after an input was checked and before its time is noted; that input's commands
  are then published with the watchdog already spent, and stop only with the next input or with the
  receivers' own time-outs.
* When a cold switch of the flippers has stopped the old controller and fails later, the profile is still the old
  one: a request for it is answered "already active", one for another begins with the strict stop of a controller
  that does not run, which the controller manager refuses.
* The canopen backend ends every cold switch with enable and resume, also one that began in Standby
  (`flipper_manager_node.cpp:1010-1018`); the sequence recommended in section 7.4 of document 21 resumes only what
  ran before.
* The position a new flipper controller is given to hold is the last one heard before the switch began, the node
  having heard nothing since.
* A refused change of the bridge's mode sets the opposite of the mode that was asked for, not the mode before:
  with two clients, or a key and a button at once, these differ.

## 7. Plan

In this order, each with its own MC module:

1. done: `SessionGate`, `SafetyDomain`, its proofs, `HardwareSession`.
2. done: `GroupCoordinator` against the phases of `SessionGate`, with `maintain`. Next: several
   components, the composition with `SafetyDomain`'s inhibition, `converge` against operations in a
   run of its own.
3. done: `MaintenanceJournal` and its proofs. Next: a drive that loses power within a transaction.
4. done: `BaseInput`, `ServoGate`, `ArmGoalExecutor`, `HostBridge`, `Freshness`, `CanopenMotion`, each a part of
   `MCParts` or `MCServices`, with proofs. Next: the gripper node and the flipper reference as further inputs, the
   velocity watchdog of `TimedVelocityController`.
5. The legacy coordinator (whole-vehicle operations with a rollback), the video manager's leases.
6. Of the ROS 1 archive: done `CanopenMotion`, `FlipperManager`. The hybrid coordinator and the CAN driver call
   classes whose source is not in the repository and stay out.
7. Proofs: done for every safety invariant of a run that must hold. Next: `LateCallsSpareSessions`
   from `Safety`, `Tended` and `Lifted`, `MonitorJust` from what the monitor knows of its last look.

## 8. Not modelled

Parsing of policies, formats and SDO tables (their results are constants); the text of diagnostics;
`observePeriod`, a statistic; the ungrouped mode of `mock_system.cpp` beyond the legacy gate it
calls; the component-wide fault service (all axis faults at once), `on_configure` and cleanup; the
external plant of the simulation; drivers in empty submodules (CANopen, private CAN, cameras);
video, calibration, thermal camera, CO2 sensor, joystick mapping, GUIs; of the ROS 1 archive under
`reference/` everything but the CANopen master and the flipper manager: the CAN driver and the hybrid coordinator, whose mode machine
(`can_driver::OperationalCoordinator`) is not part of the repository, and the TCP bridge, most of whose lines are a
vendored JSON library; of master and manager what section 2 leaves out. `PROJECT.json` gives the reason component by component.
