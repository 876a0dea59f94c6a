---------------------------- MODULE CanopenMotion ----------------------------
(***************************************************************************)
(* The CANopen master of the ROS 1 archive: from the services of the node to  *)
(* what a drive is told to do.  Two threads matter.  The control loop and the *)
(* services exclude one another by loop_mtx; the event loop of the bus        *)
(* handles frames, heartbeats and emergencies beside them.  They meet in      *)
(* SharedState, of which each access is atomic and no two are; only what a    *)
(* frame reads of it at its start is one step here.                          *)
(*                                                                          *)
(* A drive is `off' in every state in which the protocol does not pass a      *)
(* target, `on' in OperationEnabled.  Positions are left out: a target is     *)
(* told by where the controller's buffer was aligned with the measurement.    *)
(***************************************************************************)
EXTENDS Naturals

CONSTANTS
  Axes,
  Velocity,      \* axes in CSV or CST mode, the others follow positions
  Powered,       \* bound: axes whose drive is ever enabled
  Failing,       \* bound: axes whose drive or heartbeat ever fails
  MaxStarts,     \* bound: times the communication is started
  MaxEpoch       \* bound: arm_epoch

ASSUME CanopenAssumption ==
  /\ Velocity \subseteq Axes /\ Powered \subseteq Axes /\ Failing \subseteq Axes
  /\ MaxStarts \in Nat /\ MaxEpoch \in Nat

VARIABLES
  mode,          \* mode_
  call,          \* how far the service under way is
  marked,        \* ResetAllFaults: axes in a fault state, axes only latched
  up, starts,    \* running_, how often started
  released,      \* RequestRelease() has succeeded since the last start
  loop,          \* what the control loop does next
  latch,         \* global_fault_ and all_axes_halted_by_fault_
  resync,        \* command_sync_sequence_ has moved on since the last read()
  intent,        \* intents_, the same for all axes
  feedback,      \* feedback_
  commands,      \* commands_
  halted,        \* prev_all_axes_halted_by_fault_
  buffer,        \* CanopenRobotHwRos: arm_epoch_cache_, cmd_ready_, where aligned
  unread, current,  \* AxisLogic: a sequence not seen, current_intent_
  fault, lost,   \* feedback_cache_.is_fault, .heartbeat_lost
  seen, prevHalt, locked, epoch,   \* CiA402Protocol
  out,           \* what the drive was told last
  handling       \* the callback of the event loop under way

supervisor == <<mode, call, marked, up, starts, released>>
looping    == <<loop, halted, buffer>>
requested  == <<resync, intent, commands>>
protocol   == <<seen, prevHalt, locked, epoch, out>>
logic      == <<unread, current, fault, lost>>
canVars    == <<supervisor, looping, requested, latch, feedback, protocol, logic, handling>>

Idle == [axis |-> "none", step |-> "idle", alarm |-> FALSE]
Nobody == [faulty |-> {}, latched |-> {}]
NoCommand == [valid |-> FALSE, epoch |-> 0, since |-> <<0, 0>>]
Modes == {"Configured", "Standby", "Armed", "Running", "Faulted", "Recovering", "ShuttingDown"}
Calls == {"none", "started", "checked", "hook", "resetting", "waiting", "recovered", "stopping"}

AllAxes(v) == [a \in Axes |-> v]

CanInit ==
  /\ mode = "Configured" /\ call = "none" /\ marked = Nobody
  /\ up = FALSE /\ starts = 0 /\ released = FALSE
  /\ loop = "update" /\ latch = FALSE /\ resync = FALSE /\ intent = "Disable"
  /\ feedback = AllAxes([fault |-> FALSE, lost |-> FALSE, epoch |-> 0, starts |-> 0])
  /\ commands = AllAxes(NoCommand) /\ halted = FALSE
  /\ buffer = AllAxes([epoch |-> 0, ready |-> FALSE, since |-> <<0, 0>>])
  /\ unread = AllAxes(FALSE) /\ current = AllAxes("Disable")
  /\ fault = AllAxes(FALSE) /\ lost = AllAxes(FALSE)
  /\ seen = AllAxes("off") /\ prevHalt = AllAxes(FALSE) /\ locked = AllAxes(TRUE)
  /\ epoch = AllAxes(0) /\ out = AllAxes("off")
  /\ handling = Idle

-----------------------------------------------------------------------------
(* The event loop: one callback at a time, and in each the axis' own picture   *)
(* first, then SharedState.                                                  *)

(* Mutant of Effective: the latch of the other axes is not asked for.        *)
EffectiveAlone(asked) == asked

(* A latched fault holds what would run.                                     *)
Effective(asked) == IF latch /\ asked = "Run" THEN "Halt" ELSE asked

Asked(a) == IF unread[a] THEN intent ELSE current[a]

(* After 20 frames without a new sequence the intent counts as withdrawn; of   *)
(* the count it is kept that the frame brings no new one.                    *)
Wanted(a) ==
  {Effective(Asked(a))} \cup (IF unread[a] THEN {} ELSE {"Disable"})

(* Mutant of CommandReady: the arming of the command is not compared.       *)
CommandReadyAnyhow(a) == commands[a].valid

CommandReady(a) ==
  commands[a].valid /\ commands[a].epoch # 0 /\ commands[a].epoch = epoch[a]

(* StepPositionLock: a velocity needs a current command; a position once, to   *)
(* release the lock, when it is near enough.                                 *)
Passes(a) ==
  IF a \in Velocity
  THEN {CommandReady(a)}
  ELSE {~locked[a]} \cup (IF CommandReady(a) THEN {TRUE} ELSE {})

(* Process(): the first frame in OperationEnabled and the end of a halt begin  *)
(* an arming and lock; a target passes only in a frame after it.             *)
First(a, state) == state = "on" /\ seen[a] # "on"
Rearms(a, state, want) ==
  state = "on" /\ ~First(a, state) /\ want = "Run" /\ prevHalt[a]
Steps(a, state, want) ==
  state = "on" /\ ~First(a, state) /\ want = "Run" /\ ~prevHalt[a]

Told(a, state, want, passes) ==
  IF Steps(a, state, want) /\ passes THEN "follow"
  ELSE IF First(a, state) \/ (state # "fault" /\ want # "Disable") THEN "hold"
  ELSE "off"

Process(a, state, want, passes) ==
  /\ epoch' = [epoch EXCEPT ![a] = IF First(a, state) \/ Rearms(a, state, want) THEN @ + 1 ELSE @]
  /\ locked' = [locked EXCEPT ![a] = ~(Steps(a, state, want) /\ passes)]
  /\ prevHalt' = [prevHalt EXCEPT ![a] = state = "on" /\ want = "Halt"]
  /\ seen' = [seen EXCEPT ![a] = state]
  /\ out' = [out EXCEPT ![a] = Told(a, state, want, passes)]

(* Drives are enabled by a controlword only.                                 *)
Reported(a) ==
  {"off"} \cup (IF a \in Failing THEN {"fault"} ELSE {})
          \cup (IF a \in Powered /\ (seen[a] = "on" \/ out[a] # "off") THEN {"on"} ELSE {})

(* OnRpdoWrite and ProcessRpdo up to its first unlock.                       *)
Frame(a, state, want, passes) ==
  /\ up /\ handling = Idle
  /\ Process(a, state, want, passes)
  /\ epoch'[a] <= MaxEpoch
  /\ current' = [current EXCEPT ![a] = Asked(a)] /\ unread' = [unread EXCEPT ![a] = FALSE]
  /\ fault' = [fault EXCEPT ![a] = @ \/ state = "fault"]
  /\ handling' = [axis |-> a, step |-> "publish", alarm |-> fault'[a]]
  /\ UNCHANGED <<supervisor, looping, requested, latch, feedback, lost>>

Frames ==
  \E a \in Axes : \E state \in Reported(a), want \in Wanted(a), passes \in Passes(a) :
    Frame(a, state, want, passes)

Heartbeat(a, missed) ==
  /\ up /\ handling = Idle
  /\ lost' = [lost EXCEPT ![a] = missed]
  /\ IF missed
     THEN fault' = [fault EXCEPT ![a] = TRUE] /\ current' = [current EXCEPT ![a] = "Disable"]
     ELSE UNCHANGED <<fault, current>>
  /\ handling' = [axis |-> a, step |-> "publish", alarm |-> missed]
  /\ UNCHANGED <<supervisor, looping, requested, latch, feedback, protocol, unread>>

Emergency(a) ==
  /\ up /\ handling = Idle
  /\ handling' = [axis |-> a, step |-> "publish", alarm |-> FALSE]
  /\ UNCHANGED <<supervisor, looping, requested, latch, feedback, protocol, logic>>

Picture(a) == [fault |-> fault[a], lost |-> lost[a], epoch |-> epoch[a], starts |-> starts]

Publish ==
  /\ handling.step = "publish"
  /\ feedback' = [feedback EXCEPT ![handling.axis] = Picture(handling.axis)]
  /\ handling' = IF handling.alarm THEN [handling EXCEPT !.step = "latch"] ELSE Idle
  /\ UNCHANGED <<supervisor, looping, requested, latch, protocol, logic>>

Alarms ==
  /\ handling.step = "latch"
  /\ latch' = TRUE /\ handling' = Idle
  /\ UNCHANGED <<supervisor, looping, requested, feedback, protocol, logic>>

-----------------------------------------------------------------------------
(* The control loop.                                                         *)

Unhealthy(a) == feedback[a].fault \/ feedback[a].lost

(* Mutant of IntentOf: armed axes are enabled instead of halted.             *)
IntentOfArmed(m) ==
  CASE m = "Running" -> "Run"
    [] m \in {"Faulted", "Recovering"} -> "Halt"
    [] m = "Armed" -> "Enable"
    [] OTHER -> "Disable"

(* UpdateFromFeedback and ComputeIntents.                                    *)
IntentOf(m) ==
  CASE m = "Running" -> "Run"
    [] m \in {"Armed", "Faulted", "Recovering"} -> "Halt"
    [] OTHER -> "Disable"

Updates ==
  /\ loop = "update" /\ call = "none"
  /\ LET fails == mode \in {"Armed", "Running"} /\ \E a \in Axes : Unhealthy(a)
     IN  /\ mode' = IF fails THEN "Faulted" ELSE mode
         /\ latch' = (latch \/ fails)
  /\ intent' = IntentOf(mode') /\ unread' = AllAxes(TRUE)
  /\ loop' = "read"
  /\ UNCHANGED <<call, marked, up, starts, released, halted, buffer, resync, commands, feedback,
                 protocol, current, fault, lost, handling>>

(* Mutant of Realigns: a new arming does not void the buffer.                *)
RealignsNot(a) == resync \/ (latch /\ ~halted)

(* read(): a resync, a new arming or a new fault voids the buffer.           *)
Realigns(a) ==
  LET e == feedback[a].epoch IN
  \/ resync \/ (e # 0 /\ e # buffer[a].epoch)
  \/ latch /\ ~halted

(* The guard runs for some reads, and then the position must be near.  Without *)
(* an arming the flag decides nothing.                                       *)
Readies(a) ==
  IF latch \/ Realigns(a) \/ feedback[a].epoch = 0 THEN {FALSE} ELSE {buffer[a].ready, TRUE}

Reads ==
  /\ loop = "read"
  /\ \E ready \in [Axes -> BOOLEAN] :
       /\ \A a \in Axes : ready[a] \in Readies(a)
       /\ buffer' = [a \in Axes |->
            [epoch |-> feedback[a].epoch, ready |-> ready[a],
             since |-> IF Realigns(a) THEN <<feedback[a].starts, feedback[a].epoch>>
                       ELSE buffer[a].since]]
  /\ resync' = FALSE /\ halted' = latch
  /\ loop' = "write"
  /\ UNCHANGED <<supervisor, latch, intent, feedback, commands, protocol, logic, handling>>

(* write(), after the controllers have written into the buffer.              *)
Writes ==
  /\ loop = "write"
  /\ commands' = [a \in Axes |->
       IF buffer[a].ready /\ ~halted /\ buffer[a].epoch # 0
       THEN [valid |-> TRUE, epoch |-> buffer[a].epoch, since |-> buffer[a].since]
       ELSE NoCommand]
  /\ loop' = "update"
  /\ UNCHANGED <<supervisor, halted, buffer, resync, intent, latch, feedback, protocol, logic,
                 handling>>

-----------------------------------------------------------------------------
(* The services, which keep the loop waiting.                                *)

Serves == loop = "update" /\ call = "none"

(* Mutant of Healthy: only the latch is looked at.                           *)
HealthyByLatch == ~latch

Healthy == ~latch /\ \A a \in Axes : ~Unhealthy(a)

Shifts(from, to) == mode \in from /\ mode' = to

Rest == <<looping, requested, latch, feedback, protocol, logic, handling>>

Enable ==
  /\ Serves /\ up /\ Healthy /\ Shifts({"Standby"}, "Armed")
  /\ UNCHANGED <<call, marked, up, starts, released, Rest>>

Disable ==
  /\ Serves /\ up /\ Shifts({"Standby", "Armed", "Running"}, "Standby")
  /\ UNCHANGED <<call, marked, up, starts, released, Rest>>

Release ==
  /\ Serves /\ up /\ Healthy /\ Shifts({"Armed"}, "Running")
  /\ released' = TRUE
  /\ UNCHANGED <<call, marked, up, starts, Rest>>

Halt ==
  /\ Serves /\ Shifts({"Running"}, "Armed")
  /\ UNCHANGED <<call, marked, up, starts, released, Rest>>

(* RequestInit: Start() makes new drivers.  What SharedState holds stays.     *)
Start ==
  /\ Serves /\ mode = "Configured" /\ starts < MaxStarts
  /\ call' = "started" /\ up' = TRUE /\ starts' = starts + 1
  /\ unread' = AllAxes(TRUE) /\ current' = AllAxes("Disable")
  /\ fault' = AllAxes(FALSE) /\ lost' = AllAxes(FALSE)
  /\ seen' = AllAxes("off") /\ prevHalt' = AllAxes(FALSE) /\ locked' = AllAxes(TRUE)
  /\ epoch' = AllAxes(0) /\ out' = AllAxes("off")
  /\ UNCHANGED <<mode, marked, released, looping, requested, latch, feedback, handling>>

Checks ==
  /\ call = "started"
  /\ \/ /\ latch \/ \E a \in Axes : feedback[a].fault
        /\ call' = "none" /\ mode' = "Faulted" /\ latch' = TRUE
     \/ /\ ~latch /\ \A a \in Axes : ~feedback[a].fault
        /\ \E a \in Axes : feedback[a].lost
        /\ call' = "none" /\ mode' = "Standby" /\ latch' = FALSE
     \/ /\ Healthy
        /\ call' = "checked" /\ UNCHANGED <<mode, latch>>
  /\ UNCHANGED <<marked, up, starts, released, looping, requested, feedback, protocol, logic,
                 handling>>

(* The latch is cleared and the commands of before are void.                 *)
Clears == latch' = FALSE /\ resync' = TRUE

Arms ==
  /\ call = "checked" /\ call' = "hook" /\ mode' = "Armed"
  /\ Clears
  /\ UNCHANGED <<marked, up, starts, released, looping, intent, commands, feedback, protocol,
                 logic, handling>>

(* The soft limits are written once the nodes have booted.                   *)
Initialised ==
  /\ call = "hook" /\ call' = "none"
  /\ UNCHANGED <<mode, marked, up, starts, released, Rest>>

(* ResetAllFaults.  Axes in a fault state are disabled and reset; a fault that *)
(* is only latched is forgotten at once.                                     *)
Faulty == {a \in Axes : seen[a] = "fault"}
Latched == {a \in Axes \ Faulty : feedback[a].fault}

Republished(s) == [a \in Axes |-> IF a \in s THEN Picture(a) ELSE feedback[a]]
On(s, f, v) == [a \in Axes |-> IF a \in s THEN v ELSE f[a]]

Recover ==
  /\ Serves /\ up /\ Shifts({"Faulted"}, "Recovering")
  /\ IF Faulty = {}
     THEN /\ call' = "waiting" /\ fault' = On(Latched, fault, FALSE)
          /\ UNCHANGED <<marked, current, feedback>>
     ELSE /\ call' = "resetting" /\ marked' = [faulty |-> Faulty, latched |-> Latched]
          /\ current' = On(Faulty, current, "Disable") /\ feedback' = Republished(Faulty)
          /\ UNCHANGED fault
  /\ UNCHANGED <<up, starts, released, looping, requested, latch, protocol, unread, lost,
                 handling>>

Resets ==
  /\ call = "resetting" /\ marked' = Nobody
  /\ IF \A a \in marked.faulty : seen[a] # "fault"
     THEN /\ call' = "waiting" /\ fault' = On(marked.faulty \cup marked.latched, fault, FALSE)
          /\ UNCHANGED mode
     ELSE call' = "none" /\ mode' = "Faulted" /\ UNCHANGED fault
  /\ UNCHANGED <<up, starts, released, looping, requested, latch, feedback, protocol, unread,
                 current, lost, handling>>

(* Every axis must have been seen healthy, within two seconds.               *)
AwaitsHealth ==
  /\ call = "waiting"
  /\ IF \A a \in Axes : ~Unhealthy(a)
     THEN call' = "recovered" /\ UNCHANGED mode
     ELSE call' = "none" /\ mode' = "Faulted"
  /\ UNCHANGED <<marked, up, starts, released, Rest>>

Recovered ==
  /\ call = "recovered" /\ call' = "none" /\ mode' = "Standby"
  /\ Clears
  /\ UNCHANGED <<marked, up, starts, released, looping, intent, commands, feedback, protocol,
                 logic, handling>>

(* RequestShutdown, asked for or because the hook has failed.                *)
Shutdown ==
  /\ Serves \/ call = "hook"
  /\ call' = "stopping" /\ mode' = "ShuttingDown"
  /\ IF up
     THEN current' = AllAxes("Disable") /\ feedback' = Republished(Axes)
     ELSE UNCHANGED <<current, feedback>>
  /\ UNCHANGED <<marked, up, starts, released, looping, requested, latch, protocol, unread, fault,
                 lost, handling>>

(* In time or not, the communication stops: the event loop is joined.        *)
Disconnects ==
  /\ call = "stopping" /\ handling = Idle
  /\ call' = "none" /\ mode' = "Configured" /\ up' = FALSE /\ released' = FALSE
  /\ out' = AllAxes("off")
  /\ Clears \/ (up /\ UNCHANGED <<latch, resync>>)
  /\ UNCHANGED <<marked, starts, looping, intent, commands, feedback, seen, prevHalt, locked,
                 epoch, logic, handling>>

-----------------------------------------------------------------------------

CanNext ==
  \/ Frames
  \/ \E a \in Axes : Emergency(a)
  \/ \E a \in Failing, missed \in BOOLEAN : Heartbeat(a, missed)
  \/ Publish \/ Alarms
  \/ Updates \/ Reads \/ Writes
  \/ Enable \/ Disable \/ Release \/ Halt
  \/ Start \/ Checks \/ Arms \/ Initialised
  \/ Recover \/ Resets \/ AwaitsHealth \/ Recovered
  \/ Shutdown \/ Disconnects

CanSpec == CanInit /\ [][CanNext]_canVars

-----------------------------------------------------------------------------

CanTypeOK ==
  /\ mode \in Modes /\ call \in Calls /\ {up, released, latch, resync, halted} \subseteq BOOLEAN
  /\ starts \in 0..MaxStarts /\ marked \in [faulty : SUBSET Axes, latched : SUBSET Axes]
  /\ loop \in {"update", "read", "write"} /\ intent \in {"Disable", "Halt", "Run"}
  /\ feedback \in [Axes -> [fault : BOOLEAN, lost : BOOLEAN, epoch : 0..MaxEpoch,
                            starts : 0..MaxStarts]]
  /\ {unread, fault, lost, prevHalt, locked} \subseteq [Axes -> BOOLEAN]
  /\ current \in [Axes -> {"Disable", "Halt", "Run"}]
  /\ seen \in [Axes -> {"off", "on", "fault"}] /\ epoch \in [Axes -> 0..MaxEpoch]
  /\ out \in [Axes -> {"off", "hold", "follow"}]

(* A frame of a is handled that passes a target on to the drive.             *)
Moves(a) ==
  /\ out'[a] = "follow" /\ handling'.axis = a
  /\ \E state \in Reported(a), want \in Wanted(a), passes \in Passes(a) :
       Frame(a, state, want, passes)

(* A target the controller gave is passed to the drive only if its buffer was  *)
(* aligned with the measurement in this very arming of the axis, however      *)
(* halts, faults and losses of frames interleave with the loop               *)
(* (canopen_robot_hw_ros.cpp read(), cia402_protocol.cpp CommandReady).       *)
AlignedInArming ==
  [][\A a \in Axes : Moves(a) /\ commands[a].valid =>
       commands[a].since = <<starts, epoch[a]>>]_canVars

(* While any axis is known to be faulty, none moves: neither the race of the   *)
(* recovery with a new fault nor a service that clears the latch lets one.    *)
FaultStopsAll ==
  [][\A a \in Axes : Moves(a) => \A b \in Axes : ~Unhealthy(b)]_canVars

(* The system never runs with a fault that is not latched: the latch may be    *)
(* cleared over a new fault, but then nothing runs until it is set again.     *)
RunsLatched ==
  mode = "Running" /\ handling = Idle => latch \/ \A a \in Axes : ~Unhealthy(a)

(* docs, safety contract 3.1: after a shutdown, motion takes a new release.    *)
MotionIsReleased == \A a \in Axes : out[a] = "follow" => released
=============================================================================
