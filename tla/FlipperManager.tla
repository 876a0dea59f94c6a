---------------------------- MODULE FlipperManager ----------------------------
(***************************************************************************)
(* The flippers of the ROS 1 archive: flipper_manager_node, which turns jog    *)
(* messages into commands and switches between position and velocity         *)
(* control, the reference generator in it, and JointGroupVelocityController   *)
(* with its time-out.  The controller manager and the lifecycle of the drives *)
(* are external; operators use the lifecycle services beside the node.       *)
(*                                                                          *)
(* The node has one thread: while a call of a switch is under way nothing     *)
(* else happens in it.  A velocity is told by whether it moves anything.      *)
(* Positions are left out, and with them trajectories, of which the node      *)
(* keeps nothing.  Feedback is required and velocities go out as arrays, as   *)
(* the configuration has it.                                                 *)
(***************************************************************************)
EXTENDS Naturals

CONSTANTS
  Flippers,      \* the joints
  JogTimeout,    \* ticks: command_timeout of the node
  FeedTimeout    \* ticks: command_timeout of the controller

ASSUME FlipperAssumption ==
  Flippers # {} /\ JogTimeout \in Nat \ {0} /\ FeedTimeout \in Nat \ {0}

VARIABLES
  hybrid,        \* backend_type_: the hybrid backend or the CANopen master
  profile,       \* active_profile_, which tells hardware mode and controller too
  measured, informed, healthy,  \* have_joint_state_, a report was heard, what it said
  lifecycle,     \* lifecycle_state_
  jogged, jogAge,     \* has_velocity_command_, age of last_velocity_command_stamp_
  wanted, filtered,   \* target_velocities_, filtered_velocities_
  turn,          \* the cold switch under way
  power,         \* lifecycle of the drives
  notice,        \* the runtime or diagnostic message under way
  jointMode,     \* mode of each drive
  running,       \* controllers that run, named by the mode they are for
  parcel,        \* a velocity on its way to the controller
  buffered, bufferAge   \* command_buffer_: a valid velocity that moves, its age

heardVars   == <<measured, informed, healthy, lifecycle>>
jogVars     == <<jogged, jogAge, wanted, filtered>>
driveVars   == <<power, jointMode>>
managerVars == <<running, buffered, bufferAge>>
outsideVars == <<driveVars, managerVars>>
flipperVars == <<hybrid, profile, heardVars, jogVars, turn, notice, parcel, outsideVars>>

FlipperModes  == {"csp", "csv"}
FlipperProfiles == {"csp_position", "csp_jog", "csv_velocity"}
HardwareMode(p) == IF p = "csv_velocity" THEN "csv" ELSE "csp"

Lifecycles == {"Configured", "Standby", "Armed", "Running", "Faulted"}
NoTurn == [at |-> "idle"]
Empty == [empty |-> TRUE]
TurnStages == {"halt", "disable", "stop", "mode", "start", "enable", "resume"}

(* As launched: velocity control, the drives in that mode, its controller runs. *)
FlipperInit ==
  /\ hybrid \in BOOLEAN /\ profile = "csv_velocity"
  /\ measured = FALSE /\ informed = FALSE /\ healthy = FALSE /\ lifecycle = "Unknown"
  /\ jogged = FALSE /\ jogAge = 0 /\ wanted = FALSE /\ filtered = FALSE
  /\ turn = NoTurn /\ notice = "none" /\ parcel = Empty
  /\ power = "Standby" /\ jointMode = [j \in Flippers |-> "csv"]
  /\ running = {"csv"} /\ buffered = FALSE /\ bufferAge = 0

-----------------------------------------------------------------------------
(* Feedback.                                                                 *)

Free == turn = NoTurn

(* RefreshReadyFlag: every callback that changes what it reads evaluates it.  *)
FlippersReady == measured /\ informed /\ healthy

MotionAllowed == FlippersReady /\ (hybrid => lifecycle = "Running")

Measures ==
  /\ Free /\ measured' = TRUE
  /\ UNCHANGED <<hybrid, profile, informed, healthy, lifecycle, jogVars, turn, notice, parcel,
                 outsideVars>>

(* The backend publishes.                                                    *)
Announces ==
  /\ notice' = power
  /\ UNCHANGED <<hybrid, profile, heardVars, jogVars, turn, parcel, outsideVars>>

(* OnRuntimeStates, OnDiagnostics: all joints are online and without a fault,  *)
(* or some are not; the latter tells no lifecycle.                           *)
Notices ==
  /\ Free /\ notice # "none"
  /\ informed' = TRUE /\ healthy' \in BOOLEAN
  /\ lifecycle' = IF hybrid THEN notice ELSE "Unknown"
  /\ notice' = "none"
  /\ UNCHANGED <<hybrid, profile, measured, jogVars, turn, parcel, outsideVars>>

-----------------------------------------------------------------------------
(* Jog commands.                                                             *)

ClearVelocityCommand == jogged' = FALSE /\ wanted' = FALSE /\ filtered' = FALSE /\ UNCHANGED jogAge

(* UpdateVelocityCommand, for a message whose joints make sense.             *)
Jogs ==
  /\ Free /\ profile \in {"csp_jog", "csv_velocity"} /\ MotionAllowed
  /\ wanted' \in BOOLEAN /\ jogged' = TRUE /\ jogAge' = 0
  /\ UNCHANGED <<hybrid, profile, heardVars, filtered, turn, notice, parcel, outsideVars>>

(* Mutant of TimedOut: a command that was taken counts for good.            *)
TimedOutNever == ~jogged

TimedOut == ~jogged \/ jogAge > JogTimeout

(* Step(): the filter starts towards the target at once and comes to rest late, *)
(* but after a time-out it is cut off.                                       *)
Filter ==
  filtered' \in IF TimedOut THEN {FALSE} ELSE {wanted} \cup ({filtered} \ {FALSE})

(* A velocity that is not delivered yet is replaced.                         *)
SendsVelocity(moves) == parcel' = [moves |-> moves]

(* OnControlTimer.                                                           *)
Controls ==
  /\ Free /\ measured
  /\ Filter
  /\ IF profile = "csv_velocity" /\ MotionAllowed
     THEN SendsVelocity(filtered') ELSE UNCHANGED parcel
  /\ UNCHANGED <<hybrid, profile, heardVars, jogged, jogAge, wanted, turn, notice, outsideVars>>

(* OnSetLinkageMode.                                                         *)
SetsLinkage ==
  /\ Free /\ ClearVelocityCommand
  /\ UNCHANGED <<hybrid, profile, heardVars, turn, notice, parcel, outsideVars>>

-----------------------------------------------------------------------------
(* Switching profiles.                                                       *)

(* PublishHoldCommand.                                                       *)
Holds(m) == IF measured /\ m = "csv" THEN SendsVelocity(FALSE) ELSE UNCHANGED parcel

InternalSwitch(p) ==
  /\ Free /\ p # profile /\ {HardwareMode(p), HardwareMode(profile)} = {"csp"}
  /\ ClearVelocityCommand /\ profile' = p /\ Holds("csp")
  /\ UNCHANGED <<hybrid, heardVars, turn, notice, outsideVars>>

Turning(stage, p, before) ==
  [at |-> stage, to |-> p, before |-> before, left |-> Flippers]

(* PerformColdSwitch begins where the lifecycle it has heard of lets it, or     *)
(* fails at once; PerformColdSwitchCanopen goes as if it had heard of Running. *)
ColdSwitch(p) ==
  LET before == IF hybrid THEN lifecycle ELSE "Running" IN
  /\ Free /\ HardwareMode(p) # HardwareMode(profile)
  /\ hybrid => informed /\ lifecycle # "Faulted"
  /\ ClearVelocityCommand
  /\ turn' =
       CASE before = "Running" -> Turning("halt", p, before)
         [] before = "Armed"   -> Turning("disable", p, before)
         [] before = "Standby" -> Turning("stop", p, before)
         [] OTHER              -> NoTurn
  /\ UNCHANGED <<hybrid, profile, heardVars, notice, parcel, outsideVars>>

At(stage) == turn # NoTurn /\ turn.at = stage
GoesTo(stage) == turn' = [turn EXCEPT !.at = stage]
Fails == turn' = NoTurn    \* switch_state_ ERROR, which nothing reads

(* A call does what it is for and says so; or it fails, with or without effect. *)
Call(effect, next) ==
  \/ effect /\ next
  \/ (effect \/ UNCHANGED outsideVars) /\ Fails

(* What the lifecycle services do; they succeed if there is nothing to do.    *)
Shift(from, to) ==
  /\ power \in from \cup {to} /\ power' = to
  /\ UNCHANGED <<jointMode, managerVars>>

StopsMotion   == Shift({"Running"}, "Armed")
DisablesPower == Shift({"Standby", "Armed", "Running"}, "Standby")
EnablesPower  == Shift({"Standby"}, "Armed")
ResumesMotion == Shift({"Armed"}, "Running")

quiet == <<hybrid, profile, heardVars, jogVars, notice, parcel>>

HaltsFirst ==
  /\ At("halt")
  /\ IF hybrid THEN Call(StopsMotion, GoesTo("disable"))
     ELSE (StopsMotion \/ UNCHANGED outsideVars) /\ GoesTo("disable")
  /\ UNCHANGED quiet

DisablesThen ==
  /\ At("disable") /\ Call(DisablesPower, GoesTo("stop"))
  /\ UNCHANGED quiet

(* Only what runs is stopped, only what does not is started: the switch is      *)
(* STRICT.  stopping() and starting() of the velocity controller empty its     *)
(* buffer.                                                                   *)
Without(m) ==
  /\ m \in running /\ running' = running \ {m}
  /\ IF m = "csv" THEN buffered' = FALSE ELSE UNCHANGED buffered
  /\ UNCHANGED <<driveVars, bufferAge>>

With(m) ==
  /\ m \notin running /\ running' = running \cup {m}
  /\ IF m = "csv" THEN buffered' = FALSE ELSE UNCHANGED buffered
  /\ UNCHANGED <<driveVars, bufferAge>>

StopsController ==
  /\ At("stop") /\ Call(Without(HardwareMode(profile)), GoesTo("mode"))
  /\ UNCHANGED quiet

(* set_mode is for Standby only (canopen_aux_services.cpp:39-45).             *)
SetsMode(j, m) ==
  /\ power = "Standby" /\ jointMode' = [jointMode EXCEPT ![j] = m]
  /\ UNCHANGED <<power, managerVars>>

NextJoint(j) ==
  IF turn.left = {j} THEN GoesTo("start") ELSE turn' = [turn EXCEPT !.left = @ \ {j}]

(* Mutant of SwitchesJoint: a joint that refuses is skipped.                 *)
SwitchesJointOrNot(j) ==
  \/ SetsMode(j, HardwareMode(turn.to)) /\ NextJoint(j)
  \/ UNCHANGED outsideVars /\ NextJoint(j)

SwitchesJoint(j) == Call(SetsMode(j, HardwareMode(turn.to)), NextJoint(j))

SwitchesModes ==
  /\ At("mode") /\ \E j \in turn.left : SwitchesJoint(j)
  /\ UNCHANGED quiet

(* After the new controller has started, and been given something to hold.    *)
Primed ==
  /\ profile' = turn.to /\ filtered' = FALSE /\ Holds(HardwareMode(turn.to))
  /\ IF turn.before \notin {"Armed", "Running"} THEN turn' = NoTurn ELSE GoesTo("enable")

(* EnsureControllerLoaded has no effect here.                                *)
StartsController ==
  /\ At("start")
  /\ \/ With(HardwareMode(turn.to)) /\ Primed
     \/ /\ With(HardwareMode(turn.to)) \/ UNCHANGED outsideVars
        /\ Fails /\ UNCHANGED <<profile, filtered, parcel>>
  /\ UNCHANGED <<hybrid, heardVars, jogged, jogAge, wanted, notice>>

EnablesThen ==
  /\ At("enable")
  /\ Call(EnablesPower, IF turn.before # "Running" THEN turn' = NoTurn
                        ELSE GoesTo("resume"))
  /\ UNCHANGED quiet

ResumesLast ==
  /\ At("resume")
  /\ \/ /\ ResumesMotion /\ turn' = NoTurn
        /\ lifecycle' = IF hybrid THEN lifecycle ELSE "Running"
     \/ (ResumesMotion \/ UNCHANGED outsideVars) /\ Fails /\ UNCHANGED lifecycle
  /\ UNCHANGED <<hybrid, profile, measured, informed, healthy, jogVars, notice, parcel>>

-----------------------------------------------------------------------------
(* JointGroupVelocityController, and what happens outside.                   *)

(* AcceptCommand; its subscription outlives stopping().                      *)
Accepted ==
  /\ parcel # Empty
  /\ buffered' = parcel.moves /\ bufferAge' = 0 /\ parcel' = Empty
  /\ UNCHANGED <<hybrid, profile, heardVars, jogVars, turn, notice, driveVars, running>>

Fresh == buffered /\ bufferAge <= FeedTimeout

(* update(): the joints are told to move.                                    *)
MovesFlippers == "csv" \in running /\ Fresh

(* Operators and faults.                                                     *)
PowerShifts ==
  /\ \/ StopsMotion \/ DisablesPower \/ EnablesPower \/ ResumesMotion
     \/ Shift({"Armed", "Running"}, "Faulted") \/ Shift({"Faulted"}, "Standby")
     \/ Shift(Lifecycles, "Configured") \/ Shift({"Configured"}, "Armed")
  /\ UNCHANGED <<hybrid, profile, heardVars, jogVars, turn, notice, parcel>>

AgesTo(age, bound) == IF age > bound THEN age ELSE age + 1

(* What has been sent to the controller arrives within the tick.             *)
FlipperTick ==
  /\ parcel = Empty
  /\ jogAge' = AgesTo(jogAge, JogTimeout + FeedTimeout)
  /\ bufferAge' = AgesTo(bufferAge, FeedTimeout)
  /\ UNCHANGED <<hybrid, profile, heardVars, jogged, wanted, filtered, turn, notice, parcel,
                 driveVars, running, buffered>>

FlipperNext ==
  \/ Measures \/ Announces \/ Notices \/ Jogs \/ Controls \/ SetsLinkage
  \/ \E p \in FlipperProfiles : InternalSwitch(p) \/ ColdSwitch(p)
  \/ HaltsFirst \/ DisablesThen \/ StopsController \/ SwitchesModes \/ StartsController
  \/ EnablesThen \/ ResumesLast
  \/ Accepted \/ PowerShifts \/ FlipperTick

FlipperSpec == FlipperInit /\ [][FlipperNext]_flipperVars

-----------------------------------------------------------------------------
FlipperTypeOK ==
  /\ {hybrid, measured, informed, healthy, jogged, wanted, filtered, buffered} \subseteq BOOLEAN
  /\ profile \in FlipperProfiles /\ lifecycle \in Lifecycles \cup {"Unknown"}
  /\ jogAge \in 0..(JogTimeout + FeedTimeout + 1) /\ bufferAge \in 0..(FeedTimeout + 1)
  /\ turn \in {NoTurn} \cup
       [at : TurnStages, to : FlipperProfiles, before : Lifecycles \cup {"Unknown"},
        left : SUBSET Flippers]
  /\ notice \in Lifecycles \cup {"none"}
  /\ parcel \in {Empty} \cup [moves : BOOLEAN]
  /\ power \in Lifecycles /\ jointMode \in [Flippers -> FlipperModes]
  /\ running \subseteq FlipperModes

(* Whichever call of a switch fails, with or without its effect, and whatever  *)
(* operators do to the drives meanwhile: a controller only ever runs while    *)
(* every joint is in its mode, so no two run at once either                   *)
(* (flipper_manager_node.cpp:852-951, 953-1022; section 4.3 of the design).   *)
OwnMode == \A m \in running : \A j \in Flippers : jointMode[j] = m

(* When the jog commands cease the velocity controller stops the joints: the    *)
(* last one the node took moves them no longer than the time-outs of the node  *)
(* and of the controller together, through switches that keep the node busy   *)
(* and reports that silence it (flipper_reference_generator.cpp:229-241,       *)
(* joint_group_velocity_controller.cpp:88-107).                              *)
JogsSubside == MovesFlippers => jogAge <= JogTimeout + FeedTimeout
=============================================================================
