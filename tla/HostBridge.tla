------------------------------ MODULE HostBridge ------------------------------
(***************************************************************************)
(* The core of the host bridge: what the operator's messages, the watchdog    *)
(* and the robot's state messages have published as commands.  Every client   *)
(* has a thread of its own, the watchdog and the ROS executor have one each;  *)
(* `state_lock' is held for single blocks only: each block and each            *)
(* publication is a step, the wait for a service is a stage.                  *)
(*                                                                          *)
(* Of a command counts whether it moves anything; which keys are pressed, and  *)
(* which of them count as edges, is chosen where the code looks at them.       *)
(* Messages with an old sequence number change nothing and are left out.       *)
(* Time may pass at any moment, an input may always be watchdog_ms old.        *)
(***************************************************************************)
EXTENDS Naturals, Sequences

CONSTANT Clients

VARIABLES
  control,      \* control_mode
  emergency,    \* emergency_active
  fired,        \* watchdog_active
  noted,        \* last_valid_input_ms > 0
  commanded,    \* per topic: does what was published last move anything
  task,         \* what each thread is doing
  overtaken     \* the watchdog fired in the middle of the last input accepted

bridgeVars == <<control, emergency, fired, noted, commanded, task, overtaken>>

Threads == Clients \cup {"watchdog", "executor"}
ControlModes == {"vehicle", "arm"}
Opposite(mode) == CHOOSE m \in ControlModes : m # mode

(* "body" stands for tracks, flippers and Servo: every input tells all three,  *)
(* and at most those of the mode to move.                                    *)
Topics == {"body", "gripper"}
Publication(topic, moving) == [topic |-> topic, moving |-> moving]

(* A thread has publications to do and then goes on at a stage.               *)
Task(stage, plan) == [at |-> stage, plan |-> plan]
Resting == Task("rest", << >>)
Due(t, stage) == task[t] = Task(stage, << >>)

(* publish_zero() and then a stage.                                          *)
Zero == <<Publication("body", FALSE), Publication("gripper", FALSE)>>
ZeroesTo(t, stage) == task' = [task EXCEPT ![t] = Task(stage, Zero)]
Zeroes(t) == ZeroesTo(t, "rest")

BridgeInit ==
  /\ control = "vehicle" /\ emergency = FALSE /\ fired = FALSE /\ noted = FALSE
  /\ commanded = [topic \in Topics |-> FALSE] /\ task = [t \in Threads |-> Resting]
  /\ overtaken = FALSE

SendsNext(t) ==
  /\ task[t].plan # << >>
  /\ LET it == Head(task[t].plan) IN commanded' = [commanded EXCEPT ![it.topic] = it.moving]
  /\ task' = [task EXCEPT ![t].plan = Tail(@)]
  /\ UNCHANGED <<control, emergency, fired, noted, overtaken>>

-----------------------------------------------------------------------------
(* An operator's input, from the block that checks it to the one that notes    *)
(* its time.                                                                 *)

(* Mutant of Ignored: an input in an emergency is only not obeyed.             *)
IgnoredQuietly(c) == UNCHANGED task

(* While an emergency lasts every input stops everything again.               *)
Ignored(c) == Zeroes(c)

TakesInput(c) ==
  /\ task[c] = Resting
  /\ IF emergency THEN Ignored(c) ELSE task' = [task EXCEPT ![c].at = "checked"]
  /\ UNCHANGED <<control, emergency, fired, noted, commanded, overtaken>>

(* Mutant of ArmsWatchdog: an input does not arm the watchdog again.                 *)
ArmsNothing == UNCHANGED fired

(* It counts as the operator's sign of life.                                 *)
ArmsWatchdog == fired' = FALSE

(* The edges of its keys: an emergency key, a change of the mode, or neither.  *)
AcceptsInput(c) ==
  /\ Due(c, "checked") /\ ArmsWatchdog /\ overtaken' = FALSE
  /\ \E stage \in {"alarm", "toggle", "compute"} : task' = [task EXCEPT ![c].at = stage]
  /\ UNCHANGED <<control, emergency, noted, commanded>>

StopKey(c) ==
  /\ Due(c, "alarm") /\ emergency' = TRUE /\ fired' = FALSE /\ Zeroes(c)
  /\ UNCHANGED <<control, noted, commanded, overtaken>>

(* apply_mode_and_speed_edges(): the mode changes, by a key and a button at     *)
(* once twice, everything is stopped, and set_servo_mode is asked.             *)
Toggles(c) ==
  /\ Due(c, "toggle") /\ control' \in ControlModes /\ ZeroesTo(c, control')
  /\ UNCHANGED <<emergency, fired, noted, commanded, overtaken>>

(* A refusal takes back the mode that was asked for, whoever set it since.     *)
Switched(c) ==
  /\ \E mode \in ControlModes : Due(c, mode) /\ control' \in {control, Opposite(mode)}
  /\ task' = [task EXCEPT ![c].at = "compute"]
  /\ UNCHANGED <<emergency, fired, noted, commanded, overtaken>>

(* operator_input_to_outputs(): in vehicle mode the gripper is told nothing,   *)
(* and the first input after a reset does not move it.                        *)
Outputs(moving) ==
  <<Publication("body", moving)>> \o
  IF control = "vehicle" THEN << >> ELSE <<Publication("gripper", moving /\ noted)>>

GivesCommands(c) ==
  /\ Due(c, "compute")
  /\ \E moving \in BOOLEAN : task' = [task EXCEPT ![c] = Task("note", Outputs(moving))]
  /\ UNCHANGED <<control, emergency, fired, noted, commanded, overtaken>>

NotesTime(c) ==
  /\ Due(c, "note") /\ noted' = TRUE /\ task' = [task EXCEPT ![c] = Resting]
  /\ UNCHANGED <<control, emergency, fired, commanded, overtaken>>

-----------------------------------------------------------------------------
(* Other messages of a client.                                               *)

EmergencyStop(c) ==
  /\ task[c] = Resting /\ emergency' = TRUE /\ fired' = FALSE /\ Zeroes(c)
  /\ UNCHANGED <<control, noted, commanded, overtaken>>

ClearEmergency(c) ==
  /\ task[c] = Resting /\ emergency' = FALSE
  /\ UNCHANGED <<control, fired, noted, commanded, task, overtaken>>

(* set_control_mode, once set_servo_mode has agreed.                         *)
SetMode(c) ==
  /\ task[c] = Resting /\ control' \in ControlModes /\ Zeroes(c)
  /\ UNCHANGED <<emergency, fired, noted, commanded, overtaken>>

ClientLeaves(c) ==
  /\ task[c] = Resting /\ Zeroes(c)
  /\ UNCHANGED <<control, emergency, fired, noted, commanded, overtaken>>

(* reset_operator_input_session(): a client has connected, or the executor     *)
(* hears of a new state of the groups.                                       *)
ResetsInput(t) ==
  /\ task[t] = Resting /\ noted' = FALSE /\ fired' = FALSE /\ Zeroes(t)
  /\ UNCHANGED <<control, emergency, commanded, overtaken>>

(* check_watchdog(), every 50 ms.                                            *)
Handling == \E c \in Clients : task[c].at \notin {"rest", "checked"}

Fires ==
  /\ task["watchdog"] = Resting /\ noted /\ ~emergency /\ ~fired
  /\ fired' = TRUE /\ overtaken' = Handling /\ Zeroes("watchdog")
  /\ UNCHANGED <<control, emergency, noted, commanded>>

-----------------------------------------------------------------------------
Proceeds(t) ==
  \/ SendsNext(t)
  \/ /\ t \in Clients
     /\ \/ AcceptsInput(t) \/ StopKey(t) \/ Toggles(t) \/ Switched(t)
        \/ GivesCommands(t) \/ NotesTime(t)

BridgeNext ==
  \/ Fires \/ ResetsInput("executor")
  \/ \E t \in Threads : Proceeds(t)
  \/ \E c \in Clients :
       \/ TakesInput(c) \/ EmergencyStop(c) \/ ClearEmergency(c) \/ SetMode(c)
       \/ ClientLeaves(c) \/ ResetsInput(c)

BridgeSpec == BridgeInit /\ [][BridgeNext]_bridgeVars

(* Threads run and the wait for a service ends by its deadline; clients that   *)
(* have nothing else to say send inputs.                                     *)
BridgeFair ==
  /\ \A t \in Threads : WF_bridgeVars(Proceeds(t))
  /\ WF_bridgeVars(\E c \in Clients : TakesInput(c))

BridgeFairSpec == BridgeSpec /\ BridgeFair
-----------------------------------------------------------------------------
BridgeTypeOK ==
  /\ control \in ControlModes /\ {emergency, fired, noted, overtaken} \subseteq BOOLEAN
  /\ commanded \in [Topics -> BOOLEAN] /\ DOMAIN task = Threads

Still == \A topic \in Topics : ~commanded[topic]

(* A command that moves something and that all threads have left behind is     *)
(* one the watchdog is going to stop: it is armed, unless it fired in the      *)
(* middle of that very input.                                                *)
WatchdogGuards ==
  (\A t \in Threads : task[t] = Resting) /\ ~emergency /\ ~Still =>
    (noted /\ ~fired) \/ overtaken

(* An emergency that lasts stops everything for good, also what another        *)
(* client's thread was about to publish when it began.                       *)
EmergencyStops == <>[]emergency => <>[]Still
=============================================================================
