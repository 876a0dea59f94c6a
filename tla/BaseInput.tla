------------------------------ MODULE BaseInput ------------------------------
(***************************************************************************)
(* The way of a velocity command to the tracks: the operator's Twist, the    *)
(* node base_cmd_node that smooths it, and SessionDiffDriveController in the  *)
(* controller manager.  The coordinator starts and stops sessions beside     *)
(* them and tells base_cmd_node by state messages only.                      *)
(*                                                                          *)
(* A command is remembered as the number of the session it was given in;    *)
(* 0 is the zero velocity.  Time is counted in ticks of 100 ms.  A message    *)
(* under way remembers whether the subscription it was sent to is `live':    *)
(* session_ and Input::epoch are compared for nothing else.                  *)
(***************************************************************************)
EXTENDS Naturals

CONSTANTS
  Expiry,       \* ticks: 300 ms, of state messages, of inputs and of the controller
  MaxSessions   \* bound: sessions of the base group

ASSUME BaseAssumption == Expiry \in Nat \ {0, 1} /\ MaxSessions \in Nat \ {0}

VARIABLES
  session,     \* sessions of the base group begun so far
  phase,       \* how far the coordinator's operation on the group is
  news,        \* the state message that is under way
  token, heard, stateAge,    \* base_cmd_node: token_, running_, age of state_at_
  target, targetAge, ramp,   \* target velocity, age of received_, current velocity
  inbox,       \* a command on its way to base_cmd_node
  wire,        \* a velocity on its way to the controller
  active, receipt,           \* the controller: Input::active, age of Input::receipt
  held, speed, \* received_velocity_msg_ptr_, what previous_commands_ has the tracks do
  silence      \* ticks since the operator's last command

groupVars == <<session, phase>>
nodeVars  == <<token, heard, stateAge, target, targetAge, ramp>>
wheelVars == <<active, receipt, held, speed>>
baseVars  == <<groupVars, nodeVars, wheelVars, news, inbox, wire, silence>>

None == [none |-> TRUE]
Never == Expiry + 2            \* the age of what has not been received
Old == Expiry + 1              \* an age that nothing accepts any more
LongAgo == 2 * Expiry
Commands == 0..MaxSessions
BaseStages == {"halted", "resume", "run", "resumed", "halt"}
Running(st) == st \in {"run", "resumed", "halt"}    \* states["base"]

(* What a state message says of the group: whether it is running, and the     *)
(* record operations["base"], which every operation and its end changes.     *)
State == [session |-> session, phase |-> phase]

BaseInit ==
  /\ session = 0 /\ phase = "halted" /\ news = None /\ inbox = None /\ wire = None
  /\ token = None /\ heard = FALSE /\ stateAge = Never
  /\ target = 0 /\ targetAge = Never /\ ramp = 0
  /\ active = FALSE /\ receipt = Never /\ held = 0 /\ speed = 0
  /\ silence = LongAgo

-----------------------------------------------------------------------------
(* The coordinator.                                                          *)

BeginResume ==
  /\ phase = "halted" /\ ~active /\ session < MaxSessions
  /\ phase' = "resume"
  /\ UNCHANGED <<session, nodeVars, wheelVars, news, inbox, wire, silence>>

(* The guard opens and the group is Running after its controllers started.    *)
Run ==
  /\ phase = "resume" /\ active
  /\ phase' = "run" /\ session' = session + 1
  /\ UNCHANGED <<nodeVars, wheelVars, news, inbox, wire, silence>>

(* A resume completes, a halt begins, or the group counts as Halted, after a   *)
(* failed resume too: that is once the guard is closed, whether or not the    *)
(* controllers were released.                                                *)
Advances ==
  /\ \/ phase = "run" /\ phase' = "resumed"
     \/ phase = "resumed" /\ phase' = "halt"
     \/ phase \in {"resume", "halt"} /\ phase' = "halted"
  /\ UNCHANGED <<session, nodeVars, wheelVars, news, inbox, wire, silence>>

(* The monitor's timer publishes the state; a message not yet taken is        *)
(* replaced.                                                                 *)
Publishes ==
  /\ news' = State
  /\ UNCHANGED <<groupVars, nodeVars, wheelVars, inbox, wire, silence>>

-----------------------------------------------------------------------------
(* base_cmd_node, a single-threaded executor.                                *)

Expired(age) == age > Expiry

Reset ==
  /\ target' = 0 /\ ramp' = 0 /\ targetAge' = Never

(* What the node publishes reaches the subscription the controller has now.  *)
Emits(velocity) ==
  IF active THEN wire' = [from |-> velocity, live |-> TRUE] ELSE UNCHANGED wire

Retired(mail) == IF mail = None THEN None ELSE [mail EXCEPT !.live = FALSE]

(* Mutant of NewSession: only a change of the running flag starts a session.  *)
NewSessionByFlag(t) ==
  token = None \/ Expired(stateAge) \/ Running(t.phase) # Running(token.phase)

NewSession(t) == t # token \/ Expired(stateAge)

(* state(): a new operation, or news after too long a silence.               *)
Hears ==
  /\ news # None
  /\ news' = None
  /\ IF NewSession(news)
     THEN Reset /\ Emits(0) /\ inbox' = Retired(inbox)
     ELSE UNCHANGED <<target, targetAge, ramp, wire, inbox>>
  /\ token' = news /\ heard' = Running(news.phase) /\ stateAge' = 0
  /\ UNCHANGED <<groupVars, wheelVars, silence>>

(* A message it cannot parse.                                                *)
HearsNonsense ==
  /\ news # None
  /\ news' = None /\ heard' = FALSE /\ Reset /\ Emits(0)
  /\ UNCHANGED <<groupVars, wheelVars, token, stateAge, inbox, silence>>

(* The operator publishes; base_cmd_node is subscribed while its token says    *)
(* that the group runs.                                                      *)
Commanded ==
  /\ token # None /\ Running(token.phase)
  /\ inbox' = [from |-> session, live |-> TRUE]
  /\ silence' = 0
  /\ UNCHANGED <<groupVars, nodeVars, wheelVars, news, wire>>

Listens(m) == heard /\ m.live /\ ~Expired(stateAge)

(* The subscription's callback: a command, or one that is not finite.        *)
Receives ==
  /\ inbox # None
  /\ inbox' = None
  /\ \/ Listens(inbox) /\ target' = inbox.from /\ targetAge' = 0 /\ UNCHANGED <<ramp, wire>>
     \/ Listens(inbox) /\ Reset /\ Emits(0)
     \/ ~Listens(inbox) /\ UNCHANGED <<target, targetAge, ramp, wire>>
  /\ UNCHANGED <<groupVars, wheelVars, token, heard, stateAge, news, silence>>

(* Mutant of Drives: the age of the command is not looked at.                *)
DrivesOn == heard /\ ~Expired(stateAge) /\ targetAge # Never

Drives == heard /\ ~Expired(stateAge) /\ ~Expired(targetAge)

(* step(): the profile moves from the velocity it has towards the target; on  *)
(* the way it still carries the older command.  A late timer, or a generator  *)
(* that fails, stops the tracks instead.                                     *)
Profiles ==
  /\ \/ /\ Drives
        /\ ramp' \in {target} \cup ({ramp} \ {0})
        /\ Emits(ramp')
        /\ UNCHANGED <<target, targetAge>>
     \/ Reset /\ Emits(0)
  /\ UNCHANGED <<groupVars, wheelVars, token, heard, stateAge, news, inbox, silence>>

-----------------------------------------------------------------------------
(* SessionDiffDriveController.                                               *)

(* on_activate: the cached command and the limiter's history are cleared, a   *)
(* subscription with an epoch of its own is made.                            *)
Activate ==
  /\ phase = "resume" /\ ~active
  /\ active' = TRUE /\ receipt' = Never /\ held' = 0 /\ speed' = 0
  /\ wire' = Retired(wire)
  /\ UNCHANGED <<groupVars, nodeVars, news, inbox, silence>>

(* on_deactivate, when a halt releases the controllers or a resume finds them *)
(* lingering: retire().  A callback that the executor has taken already may   *)
(* still be waiting for the lock.                                            *)
Deactivate ==
  /\ active /\ phase \in {"halt", "halted"}
  /\ active' = FALSE /\ receipt' = Never /\ held' = 0
  /\ wire' = Retired(wire)
  /\ UNCHANGED <<groupVars, nodeVars, speed, news, inbox, silence>>

Admits(m) == active /\ m.live

(* The callback of ~/cmd_vel_unstamped, under Input::mutex.                   *)
Delivered ==
  /\ wire # None
  /\ wire' = None
  /\ IF Admits(wire) THEN held' = wire.from /\ receipt' = 0 ELSE UNCHANGED <<held, receipt>>
  /\ UNCHANGED <<groupVars, nodeVars, active, speed, news, inbox, silence>>

(* update(): an old receipt, or none, makes the cached command zero.         *)
Kept(age) == IF age >= Expiry THEN 0 ELSE held

(* update(): towards the cached command the limiter still carries the earlier *)
(* speed for a while.                                                        *)
Update(age) ==
  IF active
  THEN held' = Kept(age) /\ speed' \in {Kept(age)} \cup ({speed} \ {0})
  ELSE UNCHANGED <<held, speed>>

-----------------------------------------------------------------------------
(* Messages may be lost.  What is not lost arrives within the tick, but for a *)
(* callback of a retired subscription, which may hang about.                 *)

Lost ==
  /\ \/ news # None /\ news' = None /\ UNCHANGED <<inbox, wire>>
     \/ inbox # None /\ inbox' = None /\ UNCHANGED <<news, wire>>
     \/ wire # None /\ wire' = None /\ UNCHANGED <<news, inbox>>
  /\ UNCHANGED <<groupVars, nodeVars, wheelVars, silence>>

Older(age) == IF age \in {Old, Never} THEN age ELSE age + 1

(* Time passes; the control loop runs in every tick.                         *)
Tick ==
  /\ news = None /\ Retired(inbox) = inbox /\ Retired(wire) = wire
  /\ stateAge' = Older(stateAge) /\ targetAge' = Older(targetAge)
  /\ receipt' = Older(receipt)
  /\ silence' = IF silence < LongAgo THEN silence + 1 ELSE LongAgo
  /\ Update(receipt')
  /\ UNCHANGED <<groupVars, token, heard, target, ramp, active, news, inbox, wire>>

BaseNext ==
  \/ BeginResume \/ Run \/ Advances \/ Publishes
  \/ Hears \/ HearsNonsense \/ Commanded \/ Receives \/ Profiles
  \/ Activate \/ Deactivate \/ Delivered \/ Lost \/ Tick

BaseSpec == BaseInit /\ [][BaseNext]_baseVars

-----------------------------------------------------------------------------

BaseTypeOK ==
  /\ session \in Commands /\ phase \in BaseStages /\ {heard, active} \subseteq BOOLEAN
  /\ {target, ramp, held, speed} \subseteq Commands
  /\ {stateAge, targetAge, receipt} \subseteq 0..Never /\ silence \in 0..LongAgo

(* No command crosses a restart that base_cmd_node has heard of: once its      *)
(* token is the state of now, neither its target nor its profile stems from    *)
(* an earlier session (base_cmd_node.cpp:55-62).  A controller that has        *)
(* received nothing since it was activated stands still, whatever callbacks   *)
(* of an earlier activation were waiting (session_diff_drive_controller.cpp:   *)
(* 46-79).                                                                   *)
NothingCarriedOver ==
  /\ token = State /\ Running(phase) => {target, ramp} \subseteq {0, session}
  /\ active /\ receipt = Never => held = 0 /\ speed = 0

(* When the operator falls silent the tracks stop: the last command drives    *)
(* them for the time-out of base_cmd_node and that of the controller, however *)
(* state messages, timers and sessions interleave (base_cmd_node.cpp:78-80,    *)
(* session_diff_drive_controller.cpp:85-88).                                 *)
SilenceStops == active /\ held # 0 => silence < 2 * Expiry
=============================================================================
