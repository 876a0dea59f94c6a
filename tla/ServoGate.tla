------------------------------ MODULE ServoGate ------------------------------
(***************************************************************************)
(* The node servo_gate: between the operator's Twist and MoveIt Servo, and    *)
(* between Servo and the arm's controller.  For every session of the arm it   *)
(* stops and starts Servo again, one asynchronous call after the other, and    *)
(* lets commands pass only then.                                             *)
(*                                                                          *)
(* A session is known by the record of the arm's operations, here a number;   *)
(* in Live the arm is Running with the servo profile.  A command is the       *)
(* number of the session it was given in, 0 is the zero velocity or nothing.  *)
(* Time may pass at any moment: of an age counts whether it exceeds its limit, *)
(* and retry_at may always have passed.                                      *)
(***************************************************************************)
EXTENDS Naturals

CONSTANTS
  MaxToken,     \* bound: changes of the arm's operations
  Live,         \* those with which the arm runs under servo
  MaxCalls      \* bound: calls of Servo's services that are not over

ASSUME ServoAssumption ==
  MaxToken \in Nat /\ Live \subseteq 1..MaxToken /\ MaxCalls \in Nat \ {0}

VARIABLES
  arm,          \* the arm's operations, as the coordinator knows them
  report,       \* the state message under way
  believed,     \* the node: session
  ready, pending,            \* ready, pending is not None
  stateFresh,   \* state_at is within 0.3 s
  inputFresh,   \* last_input is within 0.1 s
  asked,        \* calls between the node and Servo, each with the token it is for
  twist,        \* the operator's command under way
  feed, serving, holds, result,  \* Servo: command under way, started, command, its result
  moved         \* what the controller was told last

gateVars == <<believed, ready, pending, stateFresh, inputFresh, asked>>
moveVars == <<feed, serving, holds, result>>
servoVars == <<arm, report, gateVars, twist, moveVars, moved>>

NoCall == [kind |-> "none"]
Ask(call, session) == [kind |-> call, token |-> session, at |-> "asked"]
Slots == 1..MaxCalls
Token == 0..MaxToken

ServoInit ==
  /\ arm = 0 /\ report = 0 /\ believed = 0 /\ ready = FALSE /\ pending = FALSE
  /\ stateFresh = FALSE /\ inputFresh = FALSE /\ asked = [i \in Slots |-> NoCall]
  /\ twist = 0 /\ feed = 0 /\ serving = FALSE /\ holds = 0 /\ result = 0 /\ moved = 0

-----------------------------------------------------------------------------
(* Around the node.                                                          *)

ArmChanges ==
  /\ arm < MaxToken /\ arm' = arm + 1
  /\ UNCHANGED <<report, gateVars, twist, moveVars, moved>>

(* The queues hold one message, a newer one replaces it.                     *)
Reports == report' = arm /\ UNCHANGED <<arm, gateVars, twist, moveVars, moved>>

OperatorCommands ==
  /\ arm > 0 /\ twist' = arm /\ UNCHANGED <<arm, report, gateVars, moveVars, moved>>

(* Servo obeys a call, or refuses it.  It starts with no command: one it held   *)
(* would be older than incoming_command_timeout.  Topics are faster than two   *)
(* services: when it is stopped no command is under way to it or from it.      *)
ServoServes(i) ==
  /\ asked[i] # NoCall /\ asked[i].at = "asked"
  /\ \/ /\ asked[i].kind = "stop" /\ feed = 0 /\ result = 0
        /\ serving' = FALSE /\ UNCHANGED holds
        /\ asked' = [asked EXCEPT ![i].at = "done"]
     \/ /\ asked[i].kind = "start" /\ serving' = TRUE /\ holds' = 0
        /\ asked' = [asked EXCEPT ![i].at = "done"]
     \/ asked' = [asked EXCEPT ![i].at = "refused"] /\ UNCHANGED <<serving, holds>>
  /\ UNCHANGED <<arm, report, believed, ready, pending, stateFresh, inputFresh, twist, feed,
                 result, moved>>

ServoTakes ==
  /\ feed # 0 /\ holds' = feed /\ feed' = 0
  /\ UNCHANGED <<arm, report, gateVars, twist, serving, result, moved>>

ServoComputes ==
  /\ serving /\ holds # 0 /\ result' = holds
  /\ UNCHANGED <<arm, report, gateVars, twist, feed, serving, holds, moved>>

(* An age exceeds its limit.                                                 *)
TimePasses ==
  /\ \/ stateFresh /\ stateFresh' = FALSE /\ UNCHANGED inputFresh
     \/ inputFresh /\ inputFresh' = FALSE /\ UNCHANGED stateFresh
  /\ UNCHANGED <<arm, report, believed, ready, pending, asked, twist, moveVars, moved>>

-----------------------------------------------------------------------------
(* The node, one callback at a time.                                         *)

(* try_start() with what the callback has set before; Servo may not be there.  *)
TryStart(session, open, waiting) ==
  \/ pending' = waiting /\ UNCHANGED asked
  \/ /\ session \in Live /\ ~open /\ ~waiting /\ pending' = TRUE
     /\ \E i \in Slots : /\ asked[i] = NoCall /\ \A j \in 1..(i - 1) : asked[j] # NoCall
                         /\ asked' = [asked EXCEPT ![i] = Ask("stop", session)]

(* state(): a new session, or one after a silence, begins from the start.     *)
HearsState ==
  /\ stateFresh' = TRUE
  /\ IF report # believed \/ ~stateFresh
     THEN /\ ready' = FALSE /\ inputFresh' = FALSE /\ believed' = report /\ moved' = 0
          /\ TryStart(report, FALSE, FALSE)
     ELSE UNCHANGED <<ready, inputFresh, believed, moved, pending, asked>>
  /\ UNCHANGED <<arm, report, twist, moveVars>>

(* Mutant of Matches: a reply counts whatever it was asked for.               *)
MatchesAny(i) == TRUE

(* The reply is to a call for the session the node knows.                     *)
Matches(i) == asked[i].token = believed

Replied(i, call) == asked[i] # NoCall /\ asked[i].kind = call /\ asked[i].at # "asked"
Forgets(i) == asked' = [asked EXCEPT ![i] = NoCall]

(* stopped(): the reply to a stop asks for the start, if Servo is there.       *)
StopReplied(i) ==
  /\ Replied(i, "stop")
  /\ \/ ~Matches(i) /\ Forgets(i) /\ UNCHANGED pending
     \/ Matches(i) /\ Forgets(i) /\ pending' = FALSE
     \/ /\ Matches(i) /\ asked[i].at = "done" /\ asked[i].token \in Live
        /\ asked' = [asked EXCEPT ![i] = Ask("start", asked[i].token)] /\ pending' = TRUE
  /\ UNCHANGED <<arm, report, believed, ready, stateFresh, inputFresh, twist, moveVars, moved>>

(* started(): ready, for commands that carry a later time: one under way is as *)
(* good as lost.                                                             *)
StartReplied(i) ==
  /\ Replied(i, "start") /\ Forgets(i)
  /\ \/ ~Matches(i) /\ UNCHANGED <<ready, pending, twist>>
     \/ Matches(i) /\ asked[i].at = "refused" /\ pending' = FALSE /\ UNCHANGED <<ready, twist>>
     \/ Matches(i) /\ asked[i].at = "done" /\ pending' = FALSE /\ ready' = TRUE /\ twist' = 0
  /\ UNCHANGED <<arm, report, believed, stateFresh, inputFresh, moveVars, moved>>

(* twist(): the command goes to Servo.                                       *)
Twist ==
  /\ twist # 0 /\ twist' = 0
  /\ IF ready /\ stateFresh THEN feed' = twist /\ inputFresh' = TRUE
     ELSE UNCHANGED <<feed, inputFresh>>
  /\ UNCHANGED <<arm, report, believed, ready, pending, stateFresh, asked, serving, holds, result,
                 moved>>

(* command(): what Servo makes of it goes to the controller while there is     *)
(* input.                                                                    *)
Attentive == ready /\ inputFresh /\ stateFresh

Command ==
  /\ result # 0 /\ result' = 0
  /\ moved' = IF Attentive THEN result ELSE moved
  /\ UNCHANGED <<arm, report, gateVars, twist, feed, serving, holds>>

(* watchdog(): every 50 ms; it tries again, or holds the arm still.            *)
Watches ==
  /\ IF stateFresh THEN TryStart(believed, ready, pending) ELSE UNCHANGED <<pending, asked>>
  /\ moved' = IF Attentive THEN moved ELSE 0
  /\ UNCHANGED <<arm, report, believed, ready, stateFresh, inputFresh, twist, moveVars>>

-----------------------------------------------------------------------------
ServoNext ==
  \/ ArmChanges \/ Reports \/ OperatorCommands \/ ServoTakes \/ ServoComputes \/ TimePasses
  \/ HearsState \/ Twist \/ Command \/ Watches
  \/ \E i \in Slots : ServoServes(i) \/ StopReplied(i) \/ StartReplied(i)

ServoSpec == ServoInit /\ [][ServoNext]_servoVars

-----------------------------------------------------------------------------
(* The variables have their types.                                           *)
ServoTypeOK ==
  /\ {arm, report, believed, twist, feed, holds, result, moved} \subseteq Token
  /\ {ready, pending, stateFresh, inputFresh, serving} \subseteq BOOLEAN
  /\ \A i \in Slots :
       \/ asked[i] = NoCall
       \/ asked[i] \in [kind : {"stop", "start"}, token : Token,
                        at : {"asked", "done", "refused"}]

(* What moves the arm was given in the session the node knows, or later:      *)
(* nothing the operator wanted before it comes through, whichever replies to    *)
(* earlier stops and starts are still to come (servo_gate.py).                *)
Fenced == moved # 0 => moved >= believed
=============================================================================
