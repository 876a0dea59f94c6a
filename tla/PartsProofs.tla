----------------------------- MODULE PartsProofs -----------------------------
(***************************************************************************)
(* The CANopen master keeps its types, does not run with a fault that is not  *)
(* latched, and as long as the communication is started once no axis moves    *)
(* while one is faulty.  Feedback freshness, the way of a velocity command to *)
(* the tracks and the profiles of the flippers keep their promises for every  *)
(* time-out, any number of sessions and joints; and each part of the run of   *)
(* these parts keeps its types.                                              *)
(***************************************************************************)
EXTENDS MCParts, JournalProofs

-----------------------------------------------------------------------------
(* The CANopen master.                                                       *)

(* The callback of the event loop is about an axis.                          *)
HandlingOK ==
  \/ handling = Idle
  \/ /\ handling \in [axis : Axes, step : {"publish", "latch"}, alarm : BOOLEAN]
     /\ handling.step = "latch" => handling.alarm

CanTypes == CanTypeOK /\ HandlingOK

(* What the axis knows, SharedState knows, unless it is about to be told; and  *)
(* what it is about to be told without an alarm is nothing new.              *)
Known(a) == (fault[a] => feedback[a].fault) /\ (lost[a] => feedback[a].lost)
Telling(a) == handling.step = "publish" /\ handling.axis = a
Published == \A a \in Axes : (Telling(a) /\ handling.alarm) \/ Known(a)

Guarded == latch \/ handling.alarm \/ \A a \in Axes : ~Unhealthy(a)

RunsGuarded == mode = "Running" => Guarded

CanInv == CanTypes /\ Published /\ RunsGuarded

(* With one start only: an axis that is asked to run is guarded too, and      *)
(* nothing asks for it when a service clears the latch.                      *)
Asking == \E a \in Axes : Asked(a) = "Run"

Unstarted ==
  /\ mode \in {"Configured", "ShuttingDown"} /\ call \in {"none", "stopping"} /\ intent # "Run"

StartsQuietly ==
  /\ starts = 0 => Unstarted /\ ~up
  /\ call \in {"started", "checked"} => intent # "Run" /\ ~Asking
  /\ mode \in {"Faulted", "Recovering"} => intent # "Run" /\ ~Asking
  /\ call \in {"resetting", "waiting", "recovered"} => mode = "Recovering"
  /\ up /\ Asking => Guarded

-----------------------------------------------------------------------------
(* The types of the master.                                                  *)

LEMMA InitTypes == CanInit => CanTypes
<1>. SUFFICES ASSUME CanInit PROVE CanTypes
  OBVIOUS
<1>1. 0 \in 0..MaxStarts /\ 0 \in 0..MaxEpoch
  BY CanopenAssumption
<1>2. feedback \in [Axes -> [fault : BOOLEAN, lost : BOOLEAN, epoch : 0..MaxEpoch,
                             starts : 0..MaxStarts]]
  BY <1>1 DEF CanInit, AllAxes
<1>3. marked \in [faulty : SUBSET Axes, latched : SUBSET Axes]
  BY DEF CanInit, Nobody
<1>. QED
  BY <1>1, <1>2, <1>3 DEF CanInit, CanTypes, CanTypeOK, HandlingOK, AllAxes, Modes, Calls

LEMMA PictureType ==
  ASSUME CanTypes, NEW a \in Axes
  PROVE  Picture(a) \in [fault : BOOLEAN, lost : BOOLEAN, epoch : 0..MaxEpoch,
                          starts : 0..MaxStarts]
  BY DEF CanTypes, CanTypeOK, Picture

LEMMA OnType ==
  ASSUME NEW S, NEW T, NEW f \in [Axes -> T], NEW v \in T
  PROVE  On(S, f, v) \in [Axes -> T]
  BY DEF On

LEMMA RepublishedType ==
  ASSUME CanTypes, NEW S
  PROVE  Republished(S) \in [Axes -> [fault : BOOLEAN, lost : BOOLEAN, epoch : 0..MaxEpoch,
                                       starts : 0..MaxStarts]]
  BY PictureType DEF Republished, CanTypes, CanTypeOK

LEMMA AskedType ==
  ASSUME CanTypes, NEW a \in Axes
  PROVE  Asked(a) \in {"Disable", "Halt", "Run"}
  BY DEF CanTypes, CanTypeOK, Asked

LEMMA FrameTypes ==
  ASSUME CanTypes, NEW a \in Axes, NEW state \in Reported(a), NEW want, NEW passes,
         Frame(a, state, want, passes)
  PROVE  CanTypes'
<1>1. state \in {"off", "on", "fault"}
  BY DEF Reported
<1>2. epoch' \in [Axes -> 0..MaxEpoch]
  <2>1. epoch'[a] <= MaxEpoch
    BY DEF Frame
  <2>2. epoch' = [epoch EXCEPT ![a] =
                    IF First(a, state) \/ Rearms(a, state, want) THEN @ + 1 ELSE @]
    BY DEF Frame, Process
  <2>3. epoch[a] \in 0..MaxEpoch /\ MaxEpoch \in Nat
    BY CanopenAssumption DEF CanTypes, CanTypeOK
  <2>4. epoch'[a] \in 0..MaxEpoch
    BY <2>1, <2>2, <2>3 DEF CanTypes, CanTypeOK
  <2>. QED
    BY <2>2, <2>4 DEF CanTypes, CanTypeOK
<1>3. out' \in [Axes -> {"off", "hold", "follow"}]
  BY DEF Frame, Process, Told, CanTypes, CanTypeOK
<1>4. {prevHalt', locked'} \subseteq [Axes -> BOOLEAN] /\ seen' \in [Axes -> {"off", "on", "fault"}]
  BY <1>1 DEF Frame, Process, CanTypes, CanTypeOK
<1>5. current' \in [Axes -> {"Disable", "Halt", "Run"}]
  BY AskedType DEF Frame, CanTypes, CanTypeOK
<1>6. fault' \in [Axes -> BOOLEAN] /\ unread' \in [Axes -> BOOLEAN]
  BY DEF Frame, CanTypes, CanTypeOK
<1>7. HandlingOK'
  BY <1>6 DEF Frame, HandlingOK
<1>. QED
  BY <1>2, <1>3, <1>4, <1>5, <1>6, <1>7
  DEF Frame, CanTypes, CanTypeOK, supervisor, looping, requested

LEMMA RecoverTypes ==
  ASSUME CanTypes, Recover
  PROVE  CanTypes'
<1>1. Faulty \in SUBSET Axes /\ Latched \in SUBSET Axes
  BY DEF Faulty, Latched
<1>2. fault \in [Axes -> BOOLEAN] /\ current \in [Axes -> {"Disable", "Halt", "Run"}]
      /\ marked \in [faulty : SUBSET Axes, latched : SUBSET Axes]
  BY DEF CanTypes, CanTypeOK
<1>3. fault' \in [Axes -> BOOLEAN]
  <2>1. On(Latched, fault, FALSE) \in [Axes -> BOOLEAN]
    BY <1>2, OnType
  <2>. QED
    BY <1>2, <2>1 DEF Recover
<1>4. current' \in [Axes -> {"Disable", "Halt", "Run"}]
  <2>1. On(Faulty, current, "Disable") \in [Axes -> {"Disable", "Halt", "Run"}]
    BY <1>2, OnType
  <2>. QED
    BY <1>2, <2>1 DEF Recover
<1>5. feedback' \in [Axes -> [fault : BOOLEAN, lost : BOOLEAN, epoch : 0..MaxEpoch,
                              starts : 0..MaxStarts]]
  <2>1. feedback' = feedback \/ feedback' = Republished(Faulty)
    BY DEF Recover
  <2>. QED
    BY <2>1, RepublishedType DEF CanTypes, CanTypeOK
<1>6. marked' \in [faulty : SUBSET Axes, latched : SUBSET Axes]
  <2>1. marked' = marked \/ marked' = [faulty |-> Faulty, latched |-> Latched]
    BY DEF Recover
  <2>. QED
    BY <1>1, <1>2, <2>1
<1>7. mode' \in Modes /\ call' \in Calls
  BY DEF Recover, Shifts, Modes, Calls
<1>. QED
  BY <1>3, <1>4, <1>5, <1>6, <1>7
  DEF Recover, CanTypes, CanTypeOK, HandlingOK, looping, requested, protocol

LEMMA ResetsTypes ==
  ASSUME CanTypes, Resets
  PROVE  CanTypes'
<1>1. fault \in [Axes -> BOOLEAN]
  BY DEF CanTypes, CanTypeOK
<1>2. On(marked.faulty \cup marked.latched, fault, FALSE) \in [Axes -> BOOLEAN]
  BY <1>1, OnType
<1>3. fault' \in [Axes -> BOOLEAN]
  BY <1>1, <1>2 DEF Resets
<1>4. marked' \in [faulty : SUBSET Axes, latched : SUBSET Axes]
  BY DEF Resets, Nobody
<1>5. mode' \in Modes /\ call' \in Calls
  BY DEF Resets, Modes, Calls, CanTypes, CanTypeOK
<1>. QED
  BY <1>3, <1>4, <1>5 DEF Resets, CanTypes, CanTypeOK, HandlingOK, looping, requested, protocol

LEMMA NextTypes == CanTypes /\ [CanNext]_canVars => CanTypes'
<1>. SUFFICES ASSUME CanTypes, [CanNext]_canVars
              PROVE  CanTypes'
  OBVIOUS
<1>. USE CanopenAssumption DEF CanTypes, CanTypeOK, HandlingOK, Modes, Calls
<1>1. CASE Frames
  BY <1>1, FrameTypes DEF Frames
<1>2. CASE \E a \in Axes : Emergency(a)
  BY <1>2 DEF Emergency, supervisor, looping, requested, protocol, logic
<1>3. CASE \E a \in Failing, missed \in BOOLEAN : Heartbeat(a, missed)
  <2>1. PICK a \in Failing, missed \in BOOLEAN : Heartbeat(a, missed)
    BY <1>3
  <2>2. fault' \in [Axes -> BOOLEAN] /\ lost' \in [Axes -> BOOLEAN]
        /\ current' \in [Axes -> {"Disable", "Halt", "Run"}] /\ HandlingOK'
    BY <2>1 DEF Heartbeat
  <2>. QED
    BY <2>1, <2>2 DEF Heartbeat, supervisor, looping, requested, protocol
<1>4. CASE Publish
  <2>1. handling.axis \in Axes
    BY <1>4 DEF Publish, Idle
  <2>2. Picture(handling.axis) \in [fault : BOOLEAN, lost : BOOLEAN, epoch : 0..MaxEpoch,
                                    starts : 0..MaxStarts]
    BY <2>1, PictureType
  <2>3. HandlingOK'
    BY <1>4 DEF Publish, Idle
  <2>. QED
    BY <1>4, <2>2, <2>3 DEF Publish, supervisor, looping, requested, protocol, logic
<1>5. CASE Alarms
  BY <1>5
  DEF Alarms, Idle, supervisor, looping, requested, protocol, logic
<1>6. CASE Updates
  BY <1>6
  DEF Updates, IntentOf, AllAxes, supervisor, looping, requested, protocol, logic
<1>7. CASE Reads
  BY <1>7
  DEF Reads, supervisor, looping, requested, protocol, logic
<1>8. CASE Writes
  BY <1>8
  DEF Writes, supervisor, looping, requested, protocol, logic
<1>9. CASE Enable
  BY <1>9
  DEF Enable, Shifts, Rest, supervisor, looping, requested, protocol, logic
<1>10. CASE Disable
  BY <1>10
  DEF Disable, Shifts, Rest, supervisor, looping, requested, protocol, logic
<1>11. CASE Release
  BY <1>11
  DEF Release, Shifts, Rest, supervisor, looping, requested, protocol, logic
<1>12. CASE Halt
  BY <1>12
  DEF Halt, Shifts, Rest, supervisor, looping, requested, protocol, logic
<1>13. CASE Start
  BY <1>13
  DEF Start, AllAxes, supervisor, looping, requested, protocol, logic
<1>14. CASE Checks
  BY <1>14
  DEF Checks, supervisor, looping, requested, protocol, logic
<1>15. CASE Arms
  BY <1>15
  DEF Arms, Clears, supervisor, looping, requested, protocol, logic
<1>16. CASE Initialised
  BY <1>16
  DEF Initialised, Rest, supervisor, looping, requested, protocol, logic
<1>17. CASE Recover
  BY <1>17, RecoverTypes
<1>18. CASE Resets
  BY <1>18, ResetsTypes
<1>19. CASE AwaitsHealth
  BY <1>19
  DEF AwaitsHealth, Rest, supervisor, looping, requested, protocol, logic
<1>20. CASE Recovered
  BY <1>20
  DEF Recovered, Clears, supervisor, looping, requested, protocol, logic
<1>21. CASE Shutdown
  BY <1>21, PictureType
  DEF Shutdown, AllAxes, Republished, supervisor, looping, requested, protocol, logic
<1>22. CASE Disconnects
  BY <1>22
  DEF Disconnects, AllAxes, Clears, supervisor, looping, requested, protocol, logic
<1>23. CASE UNCHANGED canVars
  BY <1>23 DEF canVars, supervisor, looping, requested, protocol, logic
<1>. QED
  BY <1>1, <1>2, <1>3, <1>4, <1>5, <1>6, <1>7, <1>8, <1>9, <1>10, <1>11, <1>12,
     <1>13, <1>14, <1>15, <1>16, <1>17, <1>18, <1>19, <1>20, <1>21, <1>22, <1>23 DEF CanNext

-----------------------------------------------------------------------------
(* What the master knows, and what it latches.                               *)

(* Steps that neither learn nor tell anything.                               *)
LEMMA LogicUntouched ==
  ASSUME Published, UNCHANGED <<fault, lost, feedback, handling>>
  PROVE  Published'
  BY DEF Published, Known, Telling

LEMMA RepublishedKnows ==
  ASSUME CanTypes, NEW S, NEW a \in Axes,
         Known(a), feedback' = Republished(S), UNCHANGED <<fault, lost, handling>>
  PROVE  Known(a)'
  BY DEF Known, Republished, Picture, CanTypes, CanTypeOK

LEMMA FrameKnows ==
  ASSUME CanTypes, Published, NEW a \in Axes, NEW state, NEW want, NEW passes,
         Frame(a, state, want, passes)
  PROVE  Published'
<1>1. \A b \in Axes : Known(b)
  BY DEF Published, Telling, Frame, Idle
<1>2. handling' = [axis |-> a, step |-> "publish", alarm |-> fault'[a]]
      /\ fault' = [fault EXCEPT ![a] = @ \/ state = "fault"]
      /\ UNCHANGED <<feedback, lost>>
  BY DEF Frame
<1>3. \A b \in Axes : b # a => fault'[b] = fault[b]
  BY <1>2 DEF CanTypes, CanTypeOK
<1>4. ASSUME NEW b \in Axes PROVE (Telling(b)' /\ handling'.alarm) \/ Known(b)'
  <2>1. CASE b # a
    BY <1>1, <1>2, <1>3, <2>1 DEF Known
  <2>2. CASE b = a /\ fault'[a]
    BY <1>2, <2>2 DEF Telling
  <2>3. CASE b = a /\ ~fault'[a]
    BY <1>1, <1>2, <2>3 DEF Known
  <2>. QED
    BY <2>1, <2>2, <2>3
<1>. QED
  BY <1>4 DEF Published

LEMMA HeartbeatKnows ==
  ASSUME CanTypes, Published, NEW a \in Axes, NEW missed \in BOOLEAN, Heartbeat(a, missed)
  PROVE  Published'
<1>1. \A b \in Axes : Known(b)
  BY DEF Published, Telling, Heartbeat, Idle
<1>2. handling' = [axis |-> a, step |-> "publish", alarm |-> missed]
      /\ lost' = [lost EXCEPT ![a] = missed] /\ UNCHANGED feedback
  BY DEF Heartbeat
<1>3. \A b \in Axes : b # a => fault'[b] = fault[b] /\ lost'[b] = lost[b]
  BY DEF Heartbeat, CanTypes, CanTypeOK
<1>4. ASSUME NEW b \in Axes PROVE (Telling(b)' /\ handling'.alarm) \/ Known(b)'
  <2>1. CASE b # a
    BY <1>1, <1>2, <1>3, <2>1 DEF Known
  <2>2. CASE b = a /\ missed
    BY <1>2, <2>2 DEF Telling
  <2>3. CASE b = a /\ ~missed
    <3>1. lost'[a] = FALSE
      BY <1>2, <2>3 DEF CanTypes, CanTypeOK
    <3>2. UNCHANGED fault
      BY <2>3 DEF Heartbeat
    <3>. QED
      BY <1>1, <1>2, <2>3, <3>1, <3>2 DEF Known
  <2>. QED
    BY <2>1, <2>2, <2>3
<1>. QED
  BY <1>4 DEF Published

LEMMA PublishKnows ==
  ASSUME CanTypes, Published, Publish
  PROVE  Published'
<1>1. handling.axis \in Axes /\ UNCHANGED <<fault, lost>>
  BY DEF CanTypes, HandlingOK, Publish, Idle, logic
<1>2. feedback' = [feedback EXCEPT ![handling.axis] = Picture(handling.axis)]
  BY DEF Publish
<1>3. ASSUME NEW b \in Axes PROVE Known(b)'
  <2>1. CASE b = handling.axis
    BY <1>1, <1>2, <2>1 DEF Known, Picture, CanTypes, CanTypeOK
  <2>2. CASE b # handling.axis
    BY <1>1, <1>2, <2>2 DEF Known, Published, Telling, CanTypes, CanTypeOK
  <2>. QED
    BY <2>1, <2>2
<1>. QED
  BY <1>3 DEF Published

(* An axis that forgets its fault knows less.                                *)
LEMMA Forgetting ==
  ASSUME Published, NEW S, fault \in [Axes -> BOOLEAN], fault' = On(S, fault, FALSE),
         UNCHANGED <<feedback, lost, handling>>
  PROVE  Published'
<1>1. ASSUME NEW a \in Axes, Known(a) PROVE Known(a)'
  BY <1>1 DEF Known, On
<1>. QED
  BY <1>1 DEF Published, Telling

LEMMA Republishing ==
  ASSUME CanTypes, Published, NEW S, feedback' = Republished(S),
         UNCHANGED <<fault, lost, handling>>
  PROVE  Published'
<1>1. ASSUME NEW a \in Axes, Known(a) PROVE Known(a)'
  BY <1>1, RepublishedKnows
<1>. QED
  BY <1>1 DEF Published, Telling

LEMMA NextPublished ==
  ASSUME CanTypes, Published, [CanNext]_canVars
  PROVE  Published'
<1>1. CASE Frames
  BY <1>1, FrameKnows DEF Frames
<1>2. CASE \E a \in Axes : Emergency(a)
  BY <1>2 DEF Emergency, Published, Known, Telling, Idle, logic
<1>3. CASE \E a \in Failing, missed \in BOOLEAN : Heartbeat(a, missed)
  BY <1>3, HeartbeatKnows, CanopenAssumption
<1>4. CASE Publish
  BY <1>4, PublishKnows
<1>5. CASE Alarms
  BY <1>5 DEF Alarms, Published, Known, Telling, Idle, logic
<1>6. CASE Updates
  BY <1>6, LogicUntouched DEF Updates, Rest, logic
<1>7. CASE Reads
  BY <1>7, LogicUntouched DEF Reads, Rest, logic
<1>8. CASE Writes
  BY <1>8, LogicUntouched DEF Writes, Rest, logic
<1>9. CASE Enable
  BY <1>9, LogicUntouched DEF Enable, Rest, logic
<1>10. CASE Disable
  BY <1>10, LogicUntouched DEF Disable, Rest, logic
<1>11. CASE Release
  BY <1>11, LogicUntouched DEF Release, Rest, logic
<1>12. CASE Halt
  BY <1>12, LogicUntouched DEF Halt, Rest, logic
<1>13. CASE Start
  BY <1>13 DEF Start, AllAxes, Published, Known, Telling
<1>14. CASE Checks
  BY <1>14, LogicUntouched DEF Checks, Rest, logic
<1>15. CASE Arms
  BY <1>15, LogicUntouched DEF Arms, Rest, logic
<1>16. CASE Initialised
  BY <1>16, LogicUntouched DEF Initialised, Rest, logic
<1>17. CASE Recover
  BY <1>17, Forgetting, Republishing DEF Recover, CanTypes, CanTypeOK
<1>18. CASE Resets
  BY <1>18, Forgetting, LogicUntouched DEF Resets, CanTypes, CanTypeOK
<1>19. CASE AwaitsHealth
  BY <1>19, LogicUntouched DEF AwaitsHealth, Rest, logic
<1>20. CASE Recovered
  BY <1>20, LogicUntouched DEF Recovered, Rest, logic
<1>21. CASE Shutdown
  BY <1>21, Republishing, LogicUntouched DEF Shutdown
<1>22. CASE Disconnects
  BY <1>22, LogicUntouched DEF Disconnects, Rest, logic
<1>23. CASE UNCHANGED canVars
  BY <1>23, LogicUntouched DEF canVars, logic
<1>. QED
  BY <1>1, <1>2, <1>3, <1>4, <1>5, <1>6, <1>7, <1>8, <1>9, <1>10, <1>11, <1>12,
     <1>13, <1>14, <1>15, <1>16, <1>17, <1>18, <1>19, <1>20, <1>21, <1>22, <1>23 DEF CanNext

-----------------------------------------------------------------------------
(* The master's Running is guarded.                                          *)

(* Steps that leave what Guarded is about alone.                             *)
LEMMA StillGuarded ==
  ASSUME Guarded, UNCHANGED <<latch, feedback, handling>>
  PROVE  Guarded'
  BY DEF Guarded, Unhealthy

(* The event loop tells of a fault only with an alarm.                       *)
LEMMA EventsGuarded ==
  ASSUME CanTypes, Published, Guarded,
         \/ \E a \in Axes : \E state, want, passes : Frame(a, state, want, passes)
         \/ \E a \in Axes : Emergency(a)
         \/ \E a \in Axes, missed \in BOOLEAN : Heartbeat(a, missed)
         \/ Publish \/ Alarms
  PROVE  Guarded'
<1>1. CASE \E a \in Axes : \E state, want, passes : Frame(a, state, want, passes)
  BY <1>1 DEF Frame, Guarded, Unhealthy, Idle
<1>2. CASE \E a \in Axes : Emergency(a)
  BY <1>2 DEF Emergency, Guarded, Unhealthy, Idle
<1>3. CASE \E a \in Axes, missed \in BOOLEAN : Heartbeat(a, missed)
  BY <1>3 DEF Heartbeat, Guarded, Unhealthy, Idle
<1>4. CASE Publish
  <2>1. handling.axis \in Axes /\ handling \in [axis : Axes, step : {"publish", "latch"},
                                                alarm : BOOLEAN]
    BY <1>4 DEF CanTypes, HandlingOK, Publish, Idle
  <2>2. CASE handling.alarm
    <3>1. handling'.alarm
      BY <1>4, <2>1, <2>2 DEF Publish
    <3>. QED
      BY <3>1 DEF Guarded
  <2>3. CASE latch
    BY <1>4, <2>3 DEF Publish, Guarded
  <2>4. CASE ~handling.alarm /\ \A a \in Axes : ~Unhealthy(a)
    <3>1. ~fault[handling.axis] /\ ~lost[handling.axis]
      BY <2>1, <2>4 DEF Published, Known, Unhealthy
    <3>2. feedback' = [feedback EXCEPT ![handling.axis] = Picture(handling.axis)]
      BY <1>4 DEF Publish
    <3>3. \A a \in Axes : ~Unhealthy(a)'
      BY <2>1, <2>4, <3>1, <3>2 DEF Unhealthy, Picture, CanTypes, CanTypeOK
    <3>. QED
      BY <3>3 DEF Guarded
  <2>. QED
    BY <2>2, <2>3, <2>4 DEF Guarded
<1>5. CASE Alarms
  BY <1>5 DEF Alarms, Guarded
<1>. QED
  BY <1>1, <1>2, <1>3, <1>4, <1>5

Events ==
  \/ Frames
  \/ \E a \in Axes : Emergency(a)
  \/ \E a \in Failing, missed \in BOOLEAN : Heartbeat(a, missed)
  \/ Publish \/ Alarms

LEMMA EventsKeep ==
  ASSUME CanTypes, Published, Events
  PROVE  (Guarded => Guarded') /\ UNCHANGED supervisor
<1>1. UNCHANGED supervisor
  BY DEF Events, Frames, Frame, Emergency, Heartbeat, Publish, Alarms
<1>2. ASSUME Guarded PROVE Guarded'
  BY <1>2, EventsGuarded, CanopenAssumption DEF Events, Frames
<1>. QED
  BY <1>1, <1>2

LEMMA NextGuarded ==
  ASSUME CanInv, [CanNext]_canVars
  PROVE  RunsGuarded'
<1>. SUFFICES ASSUME mode' = "Running"
              PROVE  Guarded'
  BY DEF RunsGuarded
<1>. USE DEF CanInv, RunsGuarded
<1>1. CASE Events
  BY <1>1, EventsKeep DEF supervisor
<1>2. CASE Updates
  <2>1. mode = "Running" /\ \A a \in Axes : ~Unhealthy(a)
    BY <1>2 DEF Updates
  <2>. QED
    BY <1>2, <2>1, StillGuarded DEF Updates, Guarded, Unhealthy
<1>3. CASE Release
  BY <1>3 DEF Release, Healthy, Guarded, Unhealthy, Rest
<1>4. CASE Reads \/ Writes \/ Initialised \/ UNCHANGED canVars
  BY <1>4, StillGuarded DEF Reads, Writes, Initialised, Rest, canVars, supervisor
<1>5. CASE Start \/ AwaitsHealth
  BY <1>5, StillGuarded DEF Start, AwaitsHealth, Rest, Serves
<1>6. CASE Enable \/ Disable \/ Halt \/ Arms \/ Recovered \/ Shutdown \/ Disconnects \/ Recover
  BY <1>6 DEF Enable, Disable, Halt, Arms, Recovered, Shutdown, Disconnects, Recover, Shifts
<1>7. CASE Checks \/ Resets
  BY <1>7, StillGuarded DEF Checks, Resets
<1>. QED
  BY <1>1, <1>2, <1>3, <1>4, <1>5, <1>6, <1>7 DEF CanNext, Events

THEOREM CanInvariance == CanSpec => []CanInv
<1>1. CanInit => CanInv
  BY InitTypes DEF CanInit, CanInv, Published, Known, Telling, RunsGuarded, AllAxes
<1>2. CanInv /\ [CanNext]_canVars => CanInv'
  BY NextTypes, NextPublished, NextGuarded DEF CanInv
<1>. QED
  BY <1>1, <1>2, PTL DEF CanSpec

(* The variables of the model keep their types.                              *)
THEOREM CanTypeCorrect == CanSpec => []CanTypeOK
<1>1. CanInv => CanTypeOK
  BY DEF CanInv, CanTypes
<1>. QED
  BY <1>1, CanInvariance, PTL

(* The system does not run with a published fault that is not latched: however *)
(* the services, which look at the health and clear the latch in steps of     *)
(* their own, interleave with the event loop (operational_coordinator.cpp     *)
(* CheckHealthyForMotion, RequestRecover).                                   *)
THEOREM RunningIsLatched == CanSpec => []RunsLatched
<1>1. CanInv => RunsLatched
  BY DEF CanInv, RunsGuarded, Guarded, RunsLatched, Idle
<1>. QED
  BY <1>1, CanInvariance, PTL

-----------------------------------------------------------------------------
(* While the communication has been started once at most.                    *)

OneStart == starts <= 1

(* Steps after which no axis is asked for more than before.                  *)
LEMMA StillQuiet ==
  ASSUME UNCHANGED <<intent, unread, current>>
  PROVE  Asking' <=> Asking
  BY DEF Asking, Asked

LEMMA EventsAskNoMore ==
  ASSUME CanTypes, Events, Asking'
  PROVE  Asking
<1>1. PICK b \in Axes : Asked(b)' = "Run"
  BY DEF Asking
<1>2. current \in [Axes -> {"Disable", "Halt", "Run"}] /\ unread \in [Axes -> BOOLEAN]
  BY DEF CanTypes, CanTypeOK
<1>3. ASSUME NEW a \in Axes, NEW state, NEW want, NEW passes, Frame(a, state, want, passes)
      PROVE  Asked(b) = "Run"
  <2>1. CASE b = a
    <3>1. unread'[b] = FALSE /\ current'[b] = Asked(a)
      BY <1>2, <1>3, <2>1 DEF Frame
    <3>. QED
      BY <1>1, <2>1, <3>1 DEF Asked
  <2>2. CASE b # a
    BY <1>1, <1>2, <1>3, <2>2 DEF Frame, Asked, requested
  <2>. QED
    BY <2>1, <2>2
<1>4. CASE Frames
  BY <1>3, <1>4 DEF Frames, Asking
<1>5. ASSUME NEW a \in Axes, NEW missed \in BOOLEAN, Heartbeat(a, missed)
      PROVE  Asked(b) = "Run"
  BY <1>1, <1>2, <1>5 DEF Heartbeat, Asked, requested
<1>6. CASE \E a \in Failing, missed \in BOOLEAN : Heartbeat(a, missed)
  BY <1>5, <1>6, CanopenAssumption DEF Asking
<1>7. CASE (\E a \in Axes : Emergency(a)) \/ Publish \/ Alarms
  BY <1>7, StillQuiet DEF Emergency, Publish, Alarms, requested, logic
<1>. QED
  BY <1>4, <1>6, <1>7 DEF Events

LEMMA EventsStartQuietly ==
  ASSUME CanTypes, Published, StartsQuietly, Events
  PROVE  StartsQuietly'
<1>1. UNCHANGED <<mode, call, up, starts>> /\ (Guarded => Guarded')
  BY EventsKeep DEF supervisor
<1>2. UNCHANGED intent
  BY DEF Events, Frames, Frame, Emergency, Heartbeat, Publish, Alarms, requested
<1>3. Asking' => Asking
  BY EventsAskNoMore
<1>. QED
  BY <1>1, <1>2, <1>3 DEF StartsQuietly, Unstarted

LEMMA UpdatesQuietly ==
  ASSUME CanInv, StartsQuietly, Updates
  PROVE  StartsQuietly'
<1>1. intent' = IntentOf(mode') /\ unread' = AllAxes(TRUE)
      /\ UNCHANGED <<call, up, starts>> /\ call = "none"
  BY DEF Updates
<1>2. \A a \in Axes : Asked(a)' = intent'
  BY <1>1 DEF Asked, AllAxes
<1>3. intent' = "Run" <=> mode' = "Running"
  BY <1>1 DEF IntentOf
<1>4. mode' = mode \/ (mode \in {"Armed", "Running"} /\ mode' = "Faulted")
  BY DEF Updates
<1>5. mode' = "Running" => Guarded'
  BY NextGuarded DEF CanNext, RunsGuarded
<1>. QED
  BY <1>1, <1>2, <1>3, <1>4, <1>5 DEF StartsQuietly, Unstarted, Asking

LEMMA StartQuietly ==
  ASSUME CanTypes, StartsQuietly, Start, OneStart'
  PROVE  StartsQuietly'
<1>1. starts = 0 /\ starts' = 1
  BY DEF Start, OneStart, CanTypes, CanTypeOK
<1>2. intent # "Run"
  BY <1>1 DEF StartsQuietly, Unstarted
<1>3. UNCHANGED intent /\ unread' = AllAxes(TRUE)
  BY DEF Start, requested
<1>4. ~Asking'
  BY <1>2, <1>3 DEF Asking, Asked, AllAxes
<1>. QED
  BY <1>1, <1>2, <1>3, <1>4 DEF StartsQuietly, Start

LEMMA ServicesQuietly ==
  ASSUME CanTypes, StartsQuietly,
         Enable \/ Disable \/ Release \/ Halt \/ Arms \/ Initialised \/ AwaitsHealth \/ Recovered
  PROVE  StartsQuietly'
<1>1. UNCHANGED <<intent, unread, current, up, starts, feedback, handling>>
  BY DEF Enable, Disable, Release, Halt, Arms, Initialised, AwaitsHealth, Recovered, Rest,
         requested, logic
<1>2. Asking' <=> Asking
  BY <1>1, StillQuiet
<1>3. starts # 0
  BY DEF StartsQuietly, Unstarted, Enable, Disable, Release, Halt, Arms, Initialised,
         AwaitsHealth, Recovered, Shifts
<1>4. UNCHANGED latch \/ ~Asking
  BY DEF StartsQuietly, Enable, Disable, Release, Halt, Arms, Initialised, AwaitsHealth,
         Recovered, Rest
<1>5. up /\ Asking => Guarded'
  BY <1>1, <1>4, StillGuarded DEF StartsQuietly
<1>6. mode' \in {"Faulted", "Recovering"} => mode \in {"Faulted", "Recovering"}
  BY DEF StartsQuietly, Enable, Disable, Release, Halt, Arms, Initialised, AwaitsHealth,
         Recovered, Shifts
<1>7. call' \in {"none", "hook", "recovered"} /\ (call' = "recovered" => mode' = "Recovering")
  BY DEF StartsQuietly, Enable, Disable, Release, Halt, Arms, Initialised, AwaitsHealth,
         Recovered, Serves
<1>. QED
  BY <1>1, <1>2, <1>3, <1>5, <1>6, <1>7 DEF StartsQuietly

LEMMA ChecksQuietly ==
  ASSUME CanTypes, StartsQuietly, Checks
  PROVE  StartsQuietly'
<1>1. UNCHANGED <<intent, unread, current, up, starts, feedback, handling>>
  BY DEF Checks, requested, logic
<1>2. Asking' <=> Asking
  BY <1>1, StillQuiet
<1>3. starts # 0 /\ intent # "Run" /\ ~Asking
  BY DEF Checks, StartsQuietly, Unstarted
<1>4. call' \in {"none", "checked"}
  BY DEF Checks
<1>. QED
  BY <1>1, <1>2, <1>3, <1>4 DEF StartsQuietly

LEMMA RecoverQuietly ==
  ASSUME CanTypes, StartsQuietly, Recover \/ Resets
  PROVE  StartsQuietly'
<1>1. UNCHANGED <<intent, unread, up, starts, handling>>
  BY DEF Recover, Resets, requested
<1>2. intent # "Run" /\ ~Asking
  BY DEF Recover, Resets, Shifts, StartsQuietly
<1>3. current' = current \/ current' = On(Faulty, current, "Disable")
  BY DEF Recover, Resets
<1>4. ~Asking'
  BY <1>1, <1>2, <1>3 DEF Asking, Asked, On
<1>5. starts # 0
  BY DEF Recover, Resets, Shifts, StartsQuietly, Unstarted
<1>6. call' \in {"resetting", "waiting", "none"}
      /\ (call' \in {"resetting", "waiting"} => mode' = "Recovering")
  BY DEF Recover, Resets, Shifts, StartsQuietly
<1>. QED
  BY <1>1, <1>2, <1>4, <1>5, <1>6 DEF StartsQuietly

LEMMA EndsQuietly ==
  ASSUME CanTypes, Published, StartsQuietly, Shutdown \/ Disconnects
  PROVE  StartsQuietly'
<1>1. UNCHANGED <<intent, unread, starts, handling>>
  BY DEF Shutdown, Disconnects, requested, logic
<1>2. CASE Shutdown
  <2>1. Asking' => Asking
    BY <1>1, <1>2 DEF Shutdown, Asking, Asked, AllAxes
  <2>2. ASSUME Guarded PROVE Guarded'
    <3>1. CASE latch \/ handling.alarm
      BY <1>1, <1>2, <3>1 DEF Shutdown, Guarded
    <3>2. CASE ~handling.alarm /\ \A a \in Axes : ~Unhealthy(a)
      <4>1. \A a \in Axes : ~fault[a] /\ ~lost[a]
        BY <3>2 DEF Published, Known, Unhealthy
      <4>2. feedback' = feedback \/ feedback' = Republished(Axes)
        BY <1>2 DEF Shutdown
      <4>3. \A a \in Axes : ~Unhealthy(a)'
        BY <3>2, <4>1, <4>2 DEF Unhealthy, Republished, Picture
      <4>. QED
        BY <4>3 DEF Guarded
    <3>. QED
      BY <2>2, <3>1, <3>2 DEF Guarded
  <2>. QED
    BY <1>1, <1>2, <2>1, <2>2 DEF StartsQuietly, Unstarted, Shutdown, Serves
<1>3. CASE Disconnects
  BY <1>1, <1>3 DEF StartsQuietly, Unstarted, Disconnects
<1>. QED
  BY <1>2, <1>3

LEMMA NextStartsQuietly ==
  ASSUME CanInv, StartsQuietly, OneStart', [CanNext]_canVars
  PROVE  StartsQuietly'
<1>. USE DEF CanInv
<1>1. CASE Events
  BY <1>1, EventsStartQuietly
<1>2. CASE Updates
  BY <1>2, UpdatesQuietly
<1>3. CASE Start
  BY <1>3, StartQuietly
<1>4. CASE Enable \/ Disable \/ Release \/ Halt \/ Arms \/ Initialised \/ AwaitsHealth \/ Recovered
  BY <1>4, ServicesQuietly
<1>5. CASE Checks
  BY <1>5, ChecksQuietly
<1>6. CASE Recover \/ Resets
  BY <1>6, RecoverQuietly
<1>7. CASE Shutdown \/ Disconnects
  BY <1>7, EndsQuietly
<1>8. CASE Reads \/ Writes \/ UNCHANGED canVars
  <2>1. UNCHANGED <<mode, call, up, starts, intent, unread, current, latch, feedback, handling>>
    BY <1>8 DEF Reads, Writes, canVars, supervisor, requested, logic
  <2>. QED
    BY <2>1, StillQuiet, StillGuarded DEF StartsQuietly, Unstarted
<1>. QED
  BY <1>1, <1>2, <1>3, <1>4, <1>5, <1>6, <1>7, <1>8 DEF CanNext, Events

(* A target is passed on only to an axis that is asked to run, without latch.  *)
LEMMA MovesAsked ==
  ASSUME CanTypes, NEW a \in Axes, Moves(a)
  PROVE  ~latch /\ Asking /\ handling = Idle /\ up
<1>1. PICK state \in Reported(a), want \in Wanted(a), passes \in Passes(a) :
        Frame(a, state, want, passes)
  BY DEF Moves
<1>2. out' = [out EXCEPT ![a] = Told(a, state, want, passes)] /\ out'[a] = "follow"
  BY <1>1 DEF Frame, Process, Moves
<1>3. Told(a, state, want, passes) = "follow"
  BY <1>2 DEF CanTypes, CanTypeOK
<1>4. want = "Run"
  BY <1>3 DEF Told, Steps
<1>5. Effective(Asked(a)) = "Run"
  BY <1>4 DEF Wanted
<1>. QED
  BY <1>1, <1>5 DEF Effective, Asking, Frame

(* While any axis is known to be faulty none moves, as long as the            *)
(* communication has been started once: what a recovery clears over a new     *)
(* fault nothing asks to run (operational_coordinator.cpp RequestRecover).     *)
THEOREM FaultStops == CanSpec /\ []OneStart => FaultStopsAll
<1>1. CanInit => StartsQuietly
  BY DEF CanInit, StartsQuietly, Unstarted, AllAxes
<1>2. CanInv /\ StartsQuietly /\ OneStart' /\ [CanNext]_canVars => StartsQuietly'
  BY NextStartsQuietly
<1>3. CanInv /\ StartsQuietly =>
        [\A a \in Axes : Moves(a) => \A b \in Axes : ~Unhealthy(b)]_canVars
  BY MovesAsked DEF CanInv, StartsQuietly, Guarded, Idle
<1>. QED
  BY <1>1, <1>2, <1>3, CanInvariance, PTL DEF CanSpec, FaultStopsAll

-----------------------------------------------------------------------------
(* Commands and armings, of one start.                                       *)

CommandTypes ==
  /\ commands \in [Axes -> [valid : BOOLEAN, epoch : 0..MaxEpoch, since : Nat \X Nat]]
  /\ buffer \in [Axes -> [epoch : 0..MaxEpoch, ready : BOOLEAN, since : Nat \X Nat]]

(* An arming is known later and later on its way from the drive to the command, *)
(* and an axis without lock has one everywhere.                              *)
Follows(a) ==
  /\ commands[a].epoch <= buffer[a].epoch /\ buffer[a].epoch <= feedback[a].epoch
  /\ feedback[a].epoch <= epoch[a]
  /\ starts = 0 => epoch[a] = 0
  /\ feedback[a].epoch # 0 => feedback[a].starts = starts
  /\ buffer[a].epoch # 0 => buffer[a].since = <<starts, buffer[a].epoch>>
  /\ commands[a].valid =>
       commands[a].epoch # 0 /\ commands[a].since = <<starts, commands[a].epoch>>
  /\ ~locked[a] => buffer[a].epoch = epoch[a] /\ (commands[a].valid => commands[a].epoch = epoch[a])

AllFollow == \A a \in Axes : Follows(a)

ArmInv == CanInv /\ StartsQuietly /\ CommandTypes /\ AllFollow

LEMMA NextCommandTypes ==
  ASSUME CanTypes, CommandTypes, [CanNext]_canVars
  PROVE  CommandTypes'
<1>1. CASE Reads
  <2>1. PICK ready \in [Axes -> BOOLEAN] :
          buffer' = [a \in Axes |->
            [epoch |-> feedback[a].epoch, ready |-> ready[a],
             since |-> IF Realigns(a) THEN <<feedback[a].starts, feedback[a].epoch>>
                       ELSE buffer[a].since]]
    BY <1>1 DEF Reads
  <2>2. \A a \in Axes : feedback[a].epoch \in 0..MaxEpoch /\ feedback[a].starts \in Nat
                       /\ feedback[a].epoch \in Nat
    BY CanopenAssumption DEF CanTypes, CanTypeOK
  <2>. QED
    BY <1>1, <2>1, <2>2 DEF Reads, CommandTypes
<1>2. CASE Writes
  <2>1. 0 \in 0..MaxEpoch /\ <<0, 0>> \in Nat \X Nat
    BY CanopenAssumption
  <2>2. UNCHANGED buffer
    BY <1>2 DEF Writes
  <2>3. commands' = [a \in Axes |->
          IF buffer[a].ready /\ ~halted /\ buffer[a].epoch # 0
          THEN [valid |-> TRUE, epoch |-> buffer[a].epoch, since |-> buffer[a].since]
          ELSE NoCommand]
    BY <1>2 DEF Writes
  <2>. QED
    BY <2>1, <2>2, <2>3 DEF CommandTypes, NoCommand
<1>3. CASE ~Reads /\ ~Writes
  <2>1. UNCHANGED <<commands, buffer>>
    BY <1>3 DEF CanNext, canVars, Frames, Frame, Emergency, Heartbeat, Publish, Alarms, Updates,
       Enable, Disable, Release, Halt, Start, Checks, Arms, Initialised, Recover, Resets,
       AwaitsHealth, Recovered, Shutdown, Disconnects, Rest, looping, requested
  <2>. QED
    BY <2>1 DEF CommandTypes
<1>. QED
  BY <1>1, <1>2, <1>3

LEMMA StillFollows ==
  ASSUME AllFollow, UNCHANGED <<commands, buffer, feedback, epoch, starts, locked>>
  PROVE  AllFollow'
  BY DEF AllFollow, Follows

LEMMA FrameFollows ==
  ASSUME ArmInv, NEW a \in Axes, NEW state, NEW want, NEW passes \in Passes(a),
         Frame(a, state, want, passes)
  PROVE  AllFollow'
<1>1. UNCHANGED <<commands, buffer, feedback, starts>> /\ starts # 0
  BY DEF Frame, requested, looping, supervisor, ArmInv, StartsQuietly
<1>2. epoch' = [epoch EXCEPT ![a] =
                  IF First(a, state) \/ Rearms(a, state, want) THEN @ + 1 ELSE @]
      /\ locked' = [locked EXCEPT ![a] = ~(Steps(a, state, want) /\ passes)]
  BY DEF Frame, Process
<1>3. epoch[a] \in 0..MaxEpoch /\ epoch \in [Axes -> 0..MaxEpoch] /\ locked \in [Axes -> BOOLEAN]
      /\ feedback[a].epoch \in 0..MaxEpoch /\ buffer[a].epoch \in 0..MaxEpoch
      /\ commands[a].epoch \in 0..MaxEpoch /\ MaxEpoch \in Nat
  BY CanopenAssumption DEF ArmInv, CanInv, CanTypes, CanTypeOK, CommandTypes
<1>4. Follows(a)
  BY DEF ArmInv, AllFollow
<1>5. CASE Steps(a, state, want) /\ passes
  <2>1. epoch'[a] = epoch[a] /\ ~locked'[a]
    BY <1>2, <1>3, <1>5 DEF Steps, Rearms
  <2>2. ~locked[a] \/ CommandReady(a)
    BY <1>5 DEF Passes
  <2>3. buffer[a].epoch = epoch[a] /\ (commands[a].valid => commands[a].epoch = epoch[a])
    BY <1>3, <1>4, <2>2 DEF Follows, CommandReady
  <2>4. Follows(a)'
    BY <1>1, <1>4, <2>1, <2>3 DEF Follows
  <2>5. \A b \in Axes : b # a => Follows(b)'
    BY <1>1, <1>2, <1>3 DEF Follows, ArmInv, AllFollow
  <2>. QED
    BY <2>4, <2>5 DEF AllFollow
<1>6. CASE ~(Steps(a, state, want) /\ passes)
  <2>1. locked'[a]
    BY <1>2, <1>3, <1>6
  <2>2. epoch'[a] \in {epoch[a], epoch[a] + 1}
    BY <1>2, <1>3
  <2>3. Follows(a)'
    BY <1>1, <1>3, <1>4, <2>1, <2>2 DEF Follows
  <2>4. \A b \in Axes : b # a => Follows(b)'
    BY <1>1, <1>2, <1>3 DEF Follows, ArmInv, AllFollow
  <2>. QED
    BY <2>3, <2>4 DEF AllFollow
<1>. QED
  BY <1>5, <1>6

(* SharedState is told the present arming.                                   *)
LEMMA ToldFollows ==
  ASSUME ArmInv, NEW a \in Axes, feedback'[a] = feedback[a] \/ feedback'[a] = Picture(a),
         UNCHANGED <<commands, buffer, epoch, starts, locked>>
  PROVE  Follows(a)'
<1>1. Follows(a)
  BY DEF ArmInv, AllFollow
<1>2. epoch[a] \in 0..MaxEpoch /\ feedback[a].epoch \in 0..MaxEpoch
      /\ buffer[a].epoch \in 0..MaxEpoch /\ MaxEpoch \in Nat
  BY CanopenAssumption DEF ArmInv, CanInv, CanTypes, CanTypeOK, CommandTypes
<1>3. CASE feedback'[a] = feedback[a]
  BY <1>1, <1>3 DEF Follows
<1>4. CASE feedback'[a] = Picture(a)
  <2>1. feedback'[a].epoch = epoch[a] /\ feedback'[a].starts = starts
    BY <1>4 DEF Picture
  <2>2. buffer[a].epoch <= epoch[a]
    BY <1>1, <1>2 DEF Follows
  <2>. QED
    BY <1>1, <1>2, <2>1, <2>2 DEF Follows
<1>. QED
  BY <1>3, <1>4

LEMMA ReadsFollow ==
  ASSUME ArmInv, Reads
  PROVE  AllFollow'
<1>1. PICK ready \in [Axes -> BOOLEAN] :
        buffer' = [a \in Axes |->
          [epoch |-> feedback[a].epoch, ready |-> ready[a],
           since |-> IF Realigns(a) THEN <<feedback[a].starts, feedback[a].epoch>>
                     ELSE buffer[a].since]]
  BY DEF Reads
<1>2. UNCHANGED <<commands, feedback, epoch, starts, locked>>
  BY DEF Reads, supervisor, protocol
<1>3. ASSUME NEW a \in Axes PROVE Follows(a)'
  <2>1. Follows(a)
    BY DEF ArmInv, AllFollow
  <2>2. epoch[a] \in Nat /\ feedback[a].epoch \in Nat /\ buffer[a].epoch \in Nat
        /\ commands[a].epoch \in Nat
    BY CanopenAssumption DEF ArmInv, CanInv, CanTypes, CanTypeOK, CommandTypes
  <2>3. buffer'[a].epoch = feedback[a].epoch
    BY <1>1
  <2>4. buffer'[a].epoch # 0 => buffer'[a].since = <<starts, buffer'[a].epoch>>
    <3>1. CASE Realigns(a)
      BY <1>1, <2>1, <3>1 DEF Follows
    <3>2. CASE ~Realigns(a)
      <4>1. feedback[a].epoch # 0 => feedback[a].epoch = buffer[a].epoch
        BY <3>2 DEF Realigns
      <4>2. buffer'[a].since = buffer[a].since
        BY <1>1, <3>2
      <4>. QED
        BY <2>1, <2>3, <4>1, <4>2 DEF Follows
    <3>. QED
      BY <3>1, <3>2
  <2>. QED
    BY <1>2, <2>1, <2>2, <2>3, <2>4 DEF Follows
<1>. QED
  BY <1>3 DEF AllFollow

LEMMA WritesFollow ==
  ASSUME ArmInv, Writes
  PROVE  AllFollow'
<1>1. UNCHANGED <<buffer, feedback, epoch, starts, locked>>
  BY DEF Writes, supervisor, protocol
<1>2. ASSUME NEW a \in Axes PROVE Follows(a)'
  <2>1. Follows(a)
    BY DEF ArmInv, AllFollow
  <2>2. buffer[a].epoch \in Nat
    BY CanopenAssumption DEF ArmInv, CommandTypes
  <2>3. CASE buffer[a].ready /\ ~halted /\ buffer[a].epoch # 0
    <3>1. commands'[a] = [valid |-> TRUE, epoch |-> buffer[a].epoch, since |-> buffer[a].since]
      BY <2>3 DEF Writes
    <3>. QED
      BY <1>1, <2>1, <2>2, <2>3, <3>1 DEF Follows
  <2>4. CASE ~(buffer[a].ready /\ ~halted /\ buffer[a].epoch # 0)
    <3>1. commands'[a] = NoCommand
      BY <2>4 DEF Writes
    <3>. QED
      BY <1>1, <2>1, <2>2, <3>1 DEF Follows, NoCommand
  <2>. QED
    BY <2>3, <2>4
<1>. QED
  BY <1>2 DEF AllFollow

(* A start finds nothing of an earlier one.                                  *)
LEMMA StartFollows ==
  ASSUME ArmInv, Start, OneStart'
  PROVE  AllFollow'
<1>1. starts = 0 /\ starts' = 1
  BY DEF Start, OneStart, ArmInv, CanInv, CanTypes, CanTypeOK
<1>2. UNCHANGED <<commands, buffer, feedback>> /\ epoch' = AllAxes(0) /\ locked' = AllAxes(TRUE)
  BY DEF Start, looping, requested
<1>3. ASSUME NEW a \in Axes PROVE Follows(a)'
  <2>1. Follows(a)
    BY DEF ArmInv, AllFollow
  <2>2. feedback[a].epoch \in Nat /\ buffer[a].epoch \in Nat /\ commands[a].epoch \in Nat
    BY CanopenAssumption DEF ArmInv, CanInv, CanTypes, CanTypeOK, CommandTypes
  <2>3. feedback[a].epoch = 0 /\ buffer[a].epoch = 0 /\ commands[a].epoch = 0
    BY <1>1, <2>1, <2>2 DEF Follows
  <2>4. ~commands[a].valid
    BY <2>1, <2>3 DEF Follows
  <2>. QED
    BY <1>1, <1>2, <2>3, <2>4 DEF Follows, AllAxes
<1>. QED
  BY <1>3 DEF AllFollow

LEMMA NextFollows ==
  ASSUME ArmInv, OneStart', [CanNext]_canVars
  PROVE  AllFollow'
<1>1. CASE Frames
  BY <1>1, FrameFollows DEF Frames
<1>2. CASE Reads
  BY <1>2, ReadsFollow
<1>3. CASE Writes
  BY <1>3, WritesFollow
<1>4. CASE Start
  BY <1>4, StartFollows
<1>5. CASE Publish
  <2>1. feedback' = [feedback EXCEPT ![handling.axis] = Picture(handling.axis)]
        /\ UNCHANGED <<commands, buffer, epoch, starts, locked>>
    BY <1>5 DEF Publish, looping, requested, supervisor, protocol
  <2>2. \A a \in Axes : feedback'[a] = feedback[a] \/ feedback'[a] = Picture(a)
    BY <2>1 DEF ArmInv, CanInv, CanTypes, CanTypeOK
  <2>. QED
    BY <2>1, <2>2, ToldFollows DEF AllFollow
<1>6. CASE Recover \/ Shutdown
  <2>1. /\ UNCHANGED <<commands, buffer, epoch, starts, locked>>
        /\ \/ feedback' = feedback
           \/ \E S : feedback' = Republished(S)
    BY <1>6 DEF Recover, Shutdown, looping, requested, protocol
  <2>2. \A a \in Axes : feedback'[a] = feedback[a] \/ feedback'[a] = Picture(a)
    BY <2>1 DEF Republished
  <2>. QED
    BY <2>1, <2>2, ToldFollows DEF AllFollow
<1>7. CASE \/ \E a \in Axes : Emergency(a)
           \/ \E a \in Failing, missed \in BOOLEAN : Heartbeat(a, missed)
           \/ Alarms \/ Updates \/ Enable \/ Disable \/ Release \/ Halt \/ Checks \/ Arms
           \/ Initialised \/ Resets \/ AwaitsHealth \/ Recovered \/ Disconnects
           \/ UNCHANGED canVars
  <2>1. UNCHANGED <<commands, buffer, feedback, epoch, starts, locked>>
    BY <1>7 DEF Emergency, Heartbeat, Alarms, Updates, Enable, Disable, Release, Halt, Checks,
       Arms, Initialised, Resets, AwaitsHealth, Recovered, Disconnects, canVars, Rest, looping,
       requested, supervisor, protocol
  <2>. QED
    BY <2>1, StillFollows DEF ArmInv
<1>. QED
  BY <1>1, <1>2, <1>3, <1>4, <1>5, <1>6, <1>7 DEF CanNext

(* A target is passed on only if its buffer was aligned in this arming of the  *)
(* axis, while the communication has been started once                        *)
(* (canopen_robot_hw_ros.cpp read(), cia402_protocol.cpp CommandReady).       *)
THEOREM Alignment == CanSpec /\ []OneStart => AlignedInArming
<1>1. CanInit => StartsQuietly /\ CommandTypes /\ AllFollow
  <2>. SUFFICES ASSUME CanInit PROVE StartsQuietly /\ CommandTypes /\ AllFollow
    OBVIOUS
  <2>1. StartsQuietly
    BY DEF CanInit, StartsQuietly, Unstarted, AllAxes
  <2>2. 0 \in 0..MaxEpoch /\ <<0, 0>> \in Nat \X Nat
    BY CanopenAssumption
  <2>3. CommandTypes
    BY <2>2 DEF CanInit, CommandTypes, AllAxes, NoCommand
  <2>4. ASSUME NEW a \in Axes PROVE Follows(a)
    <3>1. commands[a] = NoCommand /\ buffer[a].epoch = 0 /\ feedback[a].epoch = 0
          /\ epoch[a] = 0 /\ locked[a] = TRUE
      BY DEF CanInit, AllAxes
    <3>. QED
      BY <3>1 DEF Follows, NoCommand
  <2>. QED
    BY <2>1, <2>3, <2>4 DEF AllFollow
<1>2. /\ CanInv /\ StartsQuietly /\ CommandTypes /\ AllFollow
      /\ OneStart' /\ [CanNext]_canVars
      => StartsQuietly' /\ CommandTypes' /\ AllFollow'
  BY NextStartsQuietly, NextCommandTypes, NextFollows DEF ArmInv, CanInv
<1>3. CanInv /\ StartsQuietly /\ CommandTypes /\ AllFollow =>
        [\A a \in Axes : Moves(a) /\ commands[a].valid =>
           commands[a].since = <<starts, epoch[a]>>]_canVars
  <2>. SUFFICES ASSUME ArmInv, NEW a \in Axes, Moves(a), commands[a].valid
                PROVE  commands[a].since = <<starts, epoch[a]>>
    BY DEF ArmInv
  <2>1. PICK state \in Reported(a), want \in Wanted(a), passes \in Passes(a) :
          Frame(a, state, want, passes)
    BY DEF Moves
  <2>2. Told(a, state, want, passes) = "follow"
    BY <2>1 DEF Moves, Frame, Process, ArmInv, CanInv, CanTypes, CanTypeOK
  <2>3. passes
    BY <2>2 DEF Told
  <2>4. ~locked[a] \/ CommandReady(a)
    BY <2>3 DEF Passes
  <2>. QED
    BY <2>4 DEF ArmInv, AllFollow, Follows, CommandReady
<1>. QED
  BY <1>1, <1>2, <1>3, CanInvariance, PTL DEF CanSpec, AlignedInArming

-----------------------------------------------------------------------------
(* Feedback freshness.                                                       *)

(* Feedback that has not been seen is not trusted.                           *)
LEMMA FreshInitInv == FreshInit => FreshInv
PROOF
  <1>1. FreshInit => FreshKinds
    BY DEF FreshInit, FreshKinds, Healths
  <1>2. FreshInit => FreshTimes /\ TrustIsEarned /\ FreshOrder
    BY FreshnessAssumption
    DEF FreshnessAssumption, FreshInit, FreshTimes, TrustIsEarned, Trusted, FreshOrder
  <1> QED
    BY <1>1, <1>2 DEF FreshInv, FreshTypeOK

(* What an observation has in common with all others: the times keep their    *)
(* order.                                                                    *)
LEMMA FreshTimesStep ==
  ASSUME FreshInv, NEW t \in 0..Horizon, NEW frame \in -1..(t + 1), NEW calm \in BOOLEAN,
         t >= now, frame <= t, Remembers(frame) \/ UNCHANGED <<newest, previous>>,
         now' = t, Notes(t, calm)
  PROVE  /\ {now', restless', previous', newest'} \subseteq -1..Horizon
         /\ previous' <= newest' /\ newest' <= now' /\ restless' <= now'
         /\ calm => (restless' = restless \/ (now = -1 /\ restless' = t))
         /\ ~calm => restless' = t
  BY FreshnessAssumption
  DEF FreshnessAssumption, FreshInv, FreshTypeOK, FreshTimes, FreshOrder, Remembers, Notes

(* A reading that must not be trusted stops.                                *)
LEMMA FreshAlarm ==
  ASSUME FreshInv, NEW t \in 0..Horizon, NEW frame \in -1..(t + 1),
         NEW valid \in BOOLEAN, NEW bad \in BOOLEAN, t >= now,
         Alarm(t, frame, valid, bad)
  PROVE  FreshInv'
PROOF
  <1>1. CASE frame <= t
    <2>1. Remembers(frame) \/ UNCHANGED <<newest, previous>>
      BY DEF Alarm
    <2>2. now' = t /\ Notes(t, FALSE) /\ Stopped
      BY DEF Alarm
    <2>3. /\ {now', restless', previous', newest'} \subseteq -1..Horizon
          /\ previous' <= newest' /\ newest' <= now' /\ restless' <= now' /\ restless' = t
      BY <1>1, <2>1, <2>2, FreshTimesStep
    <2>7. FreshKinds'
      BY <2>2 DEF Stopped, FreshKinds, Healths
    <2>8. FreshTimes' /\ TrustIsEarned' /\ FreshOrder'
      BY <2>2, <2>3, FreshnessAssumption
      DEF FreshnessAssumption, FreshInv, FreshTypeOK, FreshTimes, TrustIsEarned, Trusted,
          FreshOrder,
          Stopped
    <2> QED
      BY <2>7, <2>8 DEF FreshInv, FreshTypeOK
  <1>2. CASE ~(frame <= t)
    <2>1. UNCHANGED <<newest, previous>> /\ now' = t /\ restless' = t /\ Stopped
      BY <1>2 DEF Alarm, Trustworthy, Notes
    <2>7. FreshKinds'
      BY <2>1 DEF Stopped, FreshKinds, Healths
    <2>8. FreshTimes' /\ TrustIsEarned' /\ FreshOrder'
      BY <2>1, FreshnessAssumption
      DEF FreshnessAssumption, FreshInv, FreshTypeOK, FreshTimes, TrustIsEarned, Trusted,
          FreshOrder,
          Stopped
    <2> QED
      BY <2>7, <2>8 DEF FreshInv, FreshTypeOK
  <1> QED
    BY <1>1, <1>2

(* What a reading does to the clocks that is neither a fault nor overdue.   *)
LEMMA FreshReliable ==
  ASSUME FreshInv, NEW t \in 0..Horizon, NEW frame \in -1..(t + 1),
         NEW valid \in BOOLEAN, NEW bad \in BOOLEAN, t >= now,
         Reliable(t, frame, valid, bad), NEW calm \in BOOLEAN, Notes(t, calm)
  PROVE  /\ {now', restless', previous', newest'} \subseteq -1..Horizon
         /\ previous' <= newest' /\ newest' <= now' /\ restless' <= now' /\ now' = t
         /\ newest' >= 0 /\ now' - newest' < Stop
         /\ previous' >= 0 /\ newest' - previous' >= Stop => restless' >= newest'
         /\ calm => (restless' = restless \/ (now = -1 /\ restless' = t))
         /\ ~calm => restless' = t
PROOF
  <1>1. frame \in 0..t /\ Remembers(frame) /\ now' = t /\ ~Gap(frame) /\ t - frame < Stop
    BY DEF Reliable, Trustworthy
  <1>2. /\ {now', restless', previous', newest'} \subseteq -1..Horizon
        /\ previous' <= newest' /\ newest' <= now' /\ restless' <= now'
        /\ calm => (restless' = restless \/ (now = -1 /\ restless' = t))
        /\ ~calm => restless' = t
    BY <1>1, FreshTimesStep
  <1>3. newest' >= frame /\ newest' >= 0 /\ now' - newest' < Stop
    BY <1>1, FreshnessAssumption
    DEF FreshnessAssumption, FreshInv, FreshTypeOK, FreshTimes, FreshOrder, Remembers
  <1>4. previous' >= 0 /\ newest' - previous' >= Stop => restless' >= newest'
    BY <1>1, <1>2, FreshnessAssumption
    DEF FreshnessAssumption, FreshInv, FreshTypeOK, FreshTimes, FreshOrder, TrustIsEarned,
        Remembers, Gap
  <1> QED
    BY <1>1, <1>2, <1>3, <1>4

(* A late frame.                                                            *)
LEMMA FreshLate ==
  ASSUME FreshInv, NEW t \in 0..Horizon, NEW frame \in -1..(t + 1),
         NEW valid \in BOOLEAN, NEW bad \in BOOLEAN, t >= now,
         Late(t, frame, valid, bad)
  PROVE  FreshInv'
PROOF
  <1>1. Reliable(t, frame, valid, bad) /\ Notes(t, FALSE)
    BY DEF Late
  <1>2. /\ {now', restless', previous', newest'} \subseteq -1..Horizon
        /\ previous' <= newest' /\ newest' <= now' /\ restless' <= now' /\ now' = t
        /\ newest' >= 0 /\ now' - newest' < Stop
        /\ previous' >= 0 /\ newest' - previous' >= Stop => restless' >= newest'
    BY <1>1, FreshReliable
  <1>3. /\ stableSince' = -1 /\ health' \in {"Warn", "Stop"}
        /\ latched' = TRUE \/ latched' = latched
    BY DEF Late
  <1>7. FreshKinds'
    BY <1>3 DEF FreshInv, FreshTypeOK, FreshKinds, Healths
  <1>8. FreshTimes' /\ TrustIsEarned' /\ FreshOrder'
    BY <1>2, <1>3, FreshnessAssumption
    DEF FreshnessAssumption, FreshInv, FreshTypeOK, FreshTimes, TrustIsEarned, Trusted,
          FreshOrder
  <1> QED
    BY <1>7, <1>8 DEF FreshInv, FreshTypeOK

(* A timely frame: only this one can bring trust about.                     *)
LEMMA FreshTimely ==
  ASSUME FreshInv, NEW t \in 0..Horizon, NEW frame \in -1..(t + 1),
         NEW valid \in BOOLEAN, NEW bad \in BOOLEAN, t >= now,
         Timely(t, frame, valid, bad)
  PROVE  FreshInv'
PROOF
  <1>1. Reliable(t, frame, valid, bad) /\ Notes(t, TRUE)
    BY DEF Timely
  <1>2. /\ {now', restless', previous', newest'} \subseteq -1..Horizon
        /\ previous' <= newest' /\ newest' <= now' /\ restless' <= now' /\ now' = t
        /\ newest' >= 0 /\ now' - newest' < Stop
        /\ previous' >= 0 /\ newest' - previous' >= Stop => restless' >= newest'
        /\ restless' = restless \/ (now = -1 /\ restless' = t)
    BY <1>1, FreshReliable
  <1>3. CASE health' = "Healthy" /\ UNCHANGED <<stableSince, latched>>
             /\ (health = "Healthy" \/ (health = "Unknown" /\ Stable = 0))
    <2>7. FreshKinds'
      BY <1>3 DEF FreshInv, FreshTypeOK, FreshKinds, Healths
    <2>8. FreshTimes' /\ TrustIsEarned' /\ FreshOrder'
      BY <1>2, <1>3, FreshnessAssumption
      DEF FreshnessAssumption, FreshInv, FreshTypeOK, FreshTimes, TrustIsEarned, Trusted,
          FreshOrder
    <2> QED
      BY <2>7, <2>8 DEF FreshInv, FreshTypeOK
  <1>4. CASE /\ health # "Healthy"
             /\ stableSince' = Since(t)
             /\ IF t - Since(t) >= Stable
                THEN health' = "Healthy" /\ latched' = FALSE
                ELSE health' = (IF latched THEN "Warn" ELSE "Stabilizing") /\ UNCHANGED latched
    <2>1. /\ stableSince' \in 0..Horizon /\ stableSince' <= t
          /\ restless' <= stableSince'
      BY <1>2, <1>4, FreshnessAssumption
      DEF FreshnessAssumption, FreshInv, FreshTypeOK, FreshTimes, FreshOrder, Since
    <2>2. health' = "Healthy" => t - stableSince' >= Stable
      BY <1>4
    <2>3. health' \in {"Healthy", "Warn", "Stabilizing"}
      BY <1>4
    <2>4. latched' = FALSE \/ latched' = latched
      BY <1>4
    <2>7. FreshKinds'
      <3>1. health' \in Healths
        BY <2>3 DEF Healths
      <3>2. latched' \in BOOLEAN
        BY <2>4 DEF FreshInv, FreshTypeOK, FreshKinds
      <3> QED
        BY <3>1, <3>2 DEF FreshKinds
    <2>8. FreshTimes' /\ TrustIsEarned' /\ FreshOrder'
      <3>1. FreshTimes' /\ FreshOrder'
        BY <1>2, <2>1 DEF FreshTimes, FreshOrder
      <3>2. now' - restless' >= t - stableSince'
        BY <1>2, <2>1
      <3>a. {now', restless', stableSince', t, Stable} \subseteq Int
        BY <1>2, <2>1, FreshnessAssumption DEF FreshnessAssumption
      <3>b. t - stableSince' >= Stable => now' - restless' >= Stable
        BY <3>2, <3>a
      <3>3. health' = "Healthy" => now' - restless' >= Stable
        BY <2>2, <3>b, Zenon
      <3>4. TrustIsEarned'
        BY <1>2, <3>3 DEF TrustIsEarned, Trusted
      <3> QED
        BY <3>1, <3>4
    <2> QED
      BY <2>7, <2>8 DEF FreshInv, FreshTypeOK
  <1> QED
    BY <1>3, <1>4 DEF Timely

(* Every step keeps the invariant.                                          *)
LEMMA FreshStep == FreshInv /\ [FreshNext]_freshVars => FreshInv'
PROOF
  <1> SUFFICES ASSUME FreshInv, [FreshNext]_freshVars PROVE FreshInv'
    OBVIOUS
  <1>1. ASSUME NEW t \in 0..Horizon, NEW frame \in -1..(t + 1),
               NEW valid \in BOOLEAN, NEW bad \in BOOLEAN, Observe(t, frame, valid, bad)
        PROVE  FreshInv'
    BY <1>1, FreshAlarm, FreshLate, FreshTimely DEF Observe
  <1>2. CASE Backwards
    <2>7. FreshKinds'
      BY <1>2 DEF Backwards, Stopped, FreshKinds, Healths
    <2>8. FreshTimes' /\ TrustIsEarned' /\ FreshOrder'
      BY <1>2, FreshnessAssumption
      DEF FreshnessAssumption, FreshInv, FreshTypeOK, FreshTimes, TrustIsEarned, Trusted,
          FreshOrder,
          Backwards, Stopped
    <2> QED
      BY <2>7, <2>8 DEF FreshInv, FreshTypeOK
  <1>3. CASE UNCHANGED freshVars
    BY <1>3
    DEF freshVars, FreshInv, FreshTypeOK, FreshKinds, FreshTimes, TrustIsEarned, Trusted,
                FreshOrder
  <1> QED
    BY <1>1, <1>2, <1>3 DEF FreshNext

(* The types hold in every behaviour of a feedback channel.                  *)
THEOREM FreshTypeCorrect == FreshSpec => []FreshTypeOK
PROOF
  <1>1. FreshInv => FreshTypeOK
    BY DEF FreshInv
  <1> QED
    BY <1>1, FreshInitInv, FreshStep, PTL DEF FreshSpec

(* Whatever frames come and whenever they are looked at, trust is earned by a  *)
(* stable window, is lost with the deadline, and a silence shows             *)
(* (freshness.hpp:22-46).                                                    *)
THEOREM FreshTrust == FreshSpec => []TrustIsEarned
PROOF
  <1>1. FreshInv => TrustIsEarned
    BY DEF FreshInv
  <1> QED
    BY <1>1, FreshInitInv, FreshStep, PTL DEF FreshSpec

-----------------------------------------------------------------------------
(* The way of a velocity command to the tracks.                              *)

(* What is under way.                                                        *)
Mail == [from : Commands, live : BOOLEAN]
News == [session : Commands, phase : BaseStages]

(* BaseTypeOK leaves out messages and tokens.                                *)
MailTypeOK ==
  /\ news \in {None} \cup News /\ token \in {None} \cup News
  /\ inbox \in {None} \cup Mail /\ wire \in {None} \cup Mail

(* The node is subscribed to commands while its token says that the group runs. *)
Subscribed == token # None /\ Running(token.phase)

(* Sessions are numbered as they begin.                                      *)
SessionsInOrder ==
  /\ phase = "resume" => session < MaxSessions
  /\ news # None => news.session <= session
  /\ token # None => token.session <= session
  /\ heard => Subscribed

(* What the node has or may still take up was given since its token was news.  *)
SinceToken ==
  Subscribed =>
    /\ {target, ramp} \subseteq {0} \cup (token.session)..session
    /\ inbox # None /\ inbox.live => inbox.from \in (token.session)..session

(* On each leg of the way the silence is no longer than the leg's ages allow.  *)
SilenceBounded ==
  /\ inbox # None /\ inbox.live => silence = 0
  /\ targetAge <= Expiry => silence <= targetAge
  /\ wire # None /\ wire.live /\ wire.from # 0 => silence <= Expiry
  /\ active /\ held # 0 => receipt < Expiry /\ silence <= Expiry + receipt

(* The second part of NothingCarriedOver, as it is.                          *)
StillWithoutReceipt == active /\ receipt = Never => held = 0 /\ speed = 0

(* BaseTypeOK in three parts.                                                *)
BaseKinds == phase \in BaseStages /\ {heard, active} \subseteq BOOLEAN

BaseOrigins == {session, target, ramp, held, speed} \subseteq Commands

BaseAges == {stateAge, targetAge, receipt} \subseteq 0..Never /\ silence \in 0..LongAgo

(* What every step of the way preserves.  NothingCarriedOver speaks of a node  *)
(* whose token is the state of now; SinceToken follows it while the token is   *)
(* older.  SilenceStops bounds the sum of the time-outs; SilenceBounded has    *)
(* each leg of the way contribute its own.                                   *)
BaseInv ==
  /\ BaseKinds /\ BaseOrigins /\ BaseAges /\ MailTypeOK
  /\ SessionsInOrder /\ SinceToken /\ SilenceBounded /\ StillWithoutReceipt

USE DEF groupVars, nodeVars, wheelVars

(* None is no message.                                                       *)
LEMMA NoMail == None \notin Mail /\ None \notin News
  BY DEF None, Mail, News

(* A subscription is retired: what is under way is no longer live.            *)
LEMMA RetiredMail ==
  ASSUME NEW mail \in {None} \cup Mail
  PROVE  /\ Retired(mail) \in {None} \cup Mail
         /\ Retired(mail) # None => ~Retired(mail).live
         /\ Retired(mail) = mail /\ mail # None => ~mail.live
<1>1. CASE mail = None
  BY <1>1 DEF Retired
<1>2. CASE mail \in Mail
  <2>1. Retired(mail) = [mail EXCEPT !.live = FALSE]
    BY <1>2, NoMail DEF Retired
  <2> QED
    BY <1>2, <2>1 DEF Mail
<1> QED
  BY <1>1, <1>2

(* What is sent is a message.                                                *)
LEMMA NewMail ==
  ASSUME NEW c \in Commands
  PROVE  [from |-> c, live |-> TRUE] \in Mail
  BY DEF Mail

(* What the node sends is in the mail.                                      *)
LEMMA EmitsMail ==
  ASSUME MailTypeOK, NEW c \in Commands, Emits(c)
  PROVE  wire' \in {None} \cup Mail
  BY NewMail DEF MailTypeOK, Emits

(* Zero velocity is a command, of no session.                                *)
LEMMA ZeroIsOrigin == 0 \in Commands
  BY BaseAssumption DEF BaseAssumption, Commands

(* A stage tells whether the group runs.                                     *)
LEMMA RunningIsFlag == \A st : Running(st) \in BOOLEAN
  BY DEF Running

(* A base that has not begun keeps it.                                       *)
LEMMA BaseInitInv == BaseInit => BaseInv
<1>1. BaseInit => BaseKinds
  BY DEF BaseInit, BaseKinds, BaseStages
<1>5. BaseInit => BaseOrigins
  BY BaseAssumption DEF BaseAssumption, BaseInit, BaseOrigins, Commands
<1>2. BaseInit => BaseAges
  BY BaseAssumption DEF BaseAssumption, BaseInit, BaseAges, Never, LongAgo
<1>3. BaseInit => MailTypeOK /\ SessionsInOrder /\ SinceToken /\ StillWithoutReceipt
  BY BaseAssumption
  DEF BaseAssumption, BaseInit, MailTypeOK, SessionsInOrder, SinceToken, StillWithoutReceipt,
      Subscribed
<1>4. BaseInit => SilenceBounded
  BY BaseAssumption DEF BaseAssumption, BaseInit, SilenceBounded, Never
<1> QED
  BY <1>1, <1>2, <1>3, <1>4, <1>5 DEF BaseInv

(* What the invariant is for.                                                *)
LEMMA BaseImplied == BaseInv => BaseTypeOK /\ NothingCarriedOver /\ SilenceStops
<1> SUFFICES ASSUME BaseInv PROVE BaseTypeOK /\ NothingCarriedOver /\ SilenceStops
  OBVIOUS
<1>1. BaseTypeOK
  BY DEF BaseInv, BaseTypeOK, BaseKinds, BaseOrigins, BaseAges
<1>2. NothingCarriedOver
  <2>1. ASSUME token = State, Running(phase) PROVE {target, ramp} \subseteq {0, session}
    <3>1. token # None
      BY <2>1 DEF State, None
    <3>2. token.session = session /\ token.phase = phase /\ session \in Nat
      BY <2>1 DEF State, BaseInv, BaseOrigins, Commands
    <3> QED
      BY <2>1, <3>1, <3>2 DEF BaseInv, SinceToken, Subscribed
  <2> QED
    BY <2>1 DEF NothingCarriedOver, BaseInv, StillWithoutReceipt
<1>3. SilenceStops
  BY BaseAssumption
  DEF BaseAssumption, SilenceStops, BaseInv, SilenceBounded, BaseAges, Never, LongAgo
<1> QED
  BY <1>1, <1>2, <1>3

(* The coordinator: its sessions are numbered one after another, and an operation *)
(* that ends leaves the numbers alone.                                        *)
LEMMA BaseBeginResume ==
  ASSUME BaseInv, BeginResume
  PROVE  BaseInv'
<1>1. BaseKinds'
  BY RunningIsFlag DEF BaseInv, BaseKinds, BaseStages, BeginResume
<1>2. SessionsInOrder'
  BY NoMail, RunningIsFlag, BaseAssumption
  DEF BaseAssumption, State, BaseInv, BaseKinds, BaseOrigins, MailTypeOK, News, Commands,
      SessionsInOrder, Subscribed, BeginResume
<1>3. /\ BaseOrigins' /\ BaseAges' /\ MailTypeOK'
      /\ SinceToken' /\ SilenceBounded' /\ StillWithoutReceipt'
  BY DEF BaseInv, BaseOrigins, BaseAges, MailTypeOK, SinceToken, SilenceBounded,
         StillWithoutReceipt, Subscribed, BeginResume
<1> QED
  BY <1>1, <1>2, <1>3 DEF BaseInv

(* The group is Running: a session that nothing has been sent in yet.       *)
LEMMA BaseRun ==
  ASSUME BaseInv, Run
  PROVE  BaseInv'
<1>1. BaseKinds'
  BY RunningIsFlag DEF BaseInv, BaseKinds, BaseStages, Run
<1>2. BaseOrigins'
  BY NoMail, BaseAssumption
  DEF BaseAssumption, BaseInv, BaseOrigins, SessionsInOrder, MailTypeOK, Mail, Commands, Run
<1>3. SessionsInOrder'
  BY NoMail, RunningIsFlag, BaseAssumption
  DEF BaseAssumption, State, BaseInv, BaseKinds, BaseOrigins, MailTypeOK, News, Commands,
      SessionsInOrder, Subscribed, Run
<1>4. SinceToken'
  BY NoMail, RetiredMail
  DEF BaseInv, BaseOrigins, MailTypeOK, News, Mail, Commands, SessionsInOrder, SinceToken,
      Subscribed, Run
<1>5. (BaseAges /\ MailTypeOK /\ SilenceBounded /\ StillWithoutReceipt)'
  BY DEF BaseInv, BaseAges, MailTypeOK, SilenceBounded, StillWithoutReceipt, Run
<1> QED
  BY <1>1, <1>2, <1>3, <1>4, <1>5 DEF BaseInv

(* A resume or a halt goes on.                                              *)
LEMMA BaseAdvances ==
  ASSUME BaseInv, Advances
  PROVE  BaseInv'
<1>1. BaseKinds'
  BY RunningIsFlag DEF BaseInv, BaseKinds, BaseStages, Advances
<1>2. SessionsInOrder'
  BY NoMail, RunningIsFlag, BaseAssumption
  DEF BaseAssumption, State, BaseInv, BaseKinds, BaseOrigins, MailTypeOK, News, Commands,
      SessionsInOrder, Subscribed, Advances
<1>3. /\ BaseOrigins' /\ BaseAges' /\ MailTypeOK'
      /\ SinceToken' /\ SilenceBounded' /\ StillWithoutReceipt'
  BY DEF BaseInv, BaseOrigins, BaseAges, MailTypeOK, SinceToken, SilenceBounded,
         StillWithoutReceipt, Subscribed, Advances
<1> QED
  BY <1>1, <1>2, <1>3 DEF BaseInv

(* A state message tells no session that has not begun.                       *)
LEMMA BasePublishes ==
  ASSUME BaseInv, Publishes
  PROVE  BaseInv'
<1>1. MailTypeOK'
  BY NewMail, RetiredMail, EmitsMail, ZeroIsOrigin
  DEF BaseInv, BaseKinds, BaseOrigins, MailTypeOK, News, State, Publishes
<1>2. SessionsInOrder'
  BY NoMail, RunningIsFlag, BaseAssumption
  DEF BaseAssumption, State, BaseInv, BaseKinds, BaseOrigins, MailTypeOK, News, Commands,
      SessionsInOrder, Subscribed, State, Publishes
<1>3. (BaseKinds /\ BaseOrigins /\ BaseAges /\ SinceToken /\ SilenceBounded /\ StillWithoutReceipt)'
  BY DEF BaseInv, BaseKinds, BaseOrigins, BaseAges, SinceToken, SilenceBounded,
         StillWithoutReceipt, Subscribed, State, Publishes
<1> QED
  BY <1>1, <1>2, <1>3 DEF BaseInv

(* base_cmd_node.  With a new token it drops what it has; without one the group has *)
(* not left the operation it knows of.                                        *)
LEMMA BaseHears ==
  ASSUME BaseInv, Hears
  PROVE  BaseInv'
<1>1. BaseKinds'
  BY RunningIsFlag DEF BaseInv, BaseKinds, BaseStages, NewSession, Expired, Reset, Emits, Hears
<1>2. BaseOrigins'
  BY NoMail, BaseAssumption
  DEF BaseAssumption, BaseInv, BaseOrigins, SessionsInOrder, MailTypeOK, Mail, Commands,
      NewSession, Expired, Reset, Emits, Hears
<1>3. BaseAges'
  BY BaseAssumption
  DEF BaseAssumption, BaseInv, BaseAges, Never, LongAgo, NewSession, Expired, Reset, Emits,
      Hears
<1>4. MailTypeOK'
  BY NewMail, RetiredMail, EmitsMail, ZeroIsOrigin, <1>2
  DEF BaseInv, BaseKinds, BaseOrigins, MailTypeOK, News, NewSession, Expired, Reset, Hears
<1>5. SessionsInOrder'
  BY NoMail, RunningIsFlag, BaseAssumption
  DEF BaseAssumption, State, BaseInv, BaseKinds, BaseOrigins, MailTypeOK, News, Commands,
      SessionsInOrder, Subscribed, NewSession, Expired, Reset, Emits, Hears
<1>6. SinceToken'
  BY NoMail, RetiredMail
  DEF BaseInv, BaseOrigins, MailTypeOK, News, Mail, Commands, SessionsInOrder, SinceToken,
      Subscribed, NewSession, Expired, Reset, Emits, Hears
<1>7. SilenceBounded'
  BY NoMail, RetiredMail, BaseAssumption
  DEF BaseAssumption, BaseInv, BaseOrigins, BaseAges, MailTypeOK, Mail, Commands, Never,
      LongAgo, SilenceBounded, NewSession, Expired, Reset, Emits, Hears
<1>8. (StillWithoutReceipt)'
  BY DEF BaseInv, StillWithoutReceipt, NewSession, Expired, Reset, Emits, Hears
<1> QED
  BY <1>1, <1>2, <1>3, <1>4, <1>5, <1>6, <1>7, <1>8 DEF BaseInv

(* A message that cannot be parsed: the node forgets and stops.             *)
LEMMA BaseHearsNonsense ==
  ASSUME BaseInv, HearsNonsense
  PROVE  BaseInv'
<1>1. BaseKinds'
  BY RunningIsFlag DEF BaseInv, BaseKinds, BaseStages, Reset, Emits, HearsNonsense
<1>2. BaseOrigins'
  BY NoMail, BaseAssumption
  DEF BaseAssumption, BaseInv, BaseOrigins, SessionsInOrder, MailTypeOK, Mail, Commands, Reset,
      Emits, HearsNonsense
<1>3. BaseAges'
  BY BaseAssumption
  DEF BaseAssumption, BaseInv, BaseAges, Never, LongAgo, Reset, Emits, HearsNonsense
<1>4. MailTypeOK'
  BY NewMail, RetiredMail, EmitsMail, ZeroIsOrigin, <1>2
  DEF BaseInv, BaseKinds, BaseOrigins, MailTypeOK, News, Reset, HearsNonsense
<1>5. SessionsInOrder'
  BY NoMail, RunningIsFlag, BaseAssumption
  DEF BaseAssumption, State, BaseInv, BaseKinds, BaseOrigins, MailTypeOK, News, Commands,
      SessionsInOrder, Subscribed, Reset, Emits, HearsNonsense
<1>6. SinceToken'
  BY NoMail, RetiredMail
  DEF BaseInv, BaseOrigins, MailTypeOK, News, Mail, Commands, SessionsInOrder, SinceToken,
      Subscribed, Reset, Emits, HearsNonsense
<1>7. SilenceBounded'
  BY NoMail, RetiredMail, BaseAssumption
  DEF BaseAssumption, BaseInv, BaseOrigins, BaseAges, MailTypeOK, Mail, Commands, Never,
      LongAgo, SilenceBounded, Reset, Emits, HearsNonsense
<1>8. (StillWithoutReceipt)'
  BY DEF BaseInv, StillWithoutReceipt, Reset, Emits, HearsNonsense
<1> QED
  BY <1>1, <1>2, <1>3, <1>4, <1>5, <1>6, <1>7, <1>8 DEF BaseInv

(* A command enters: silence starts anew, and its session is the one that runs. *)
LEMMA BaseCommanded ==
  ASSUME BaseInv, Commanded
  PROVE  BaseInv'
<1>1. BaseAges'
  BY BaseAssumption DEF BaseAssumption, BaseInv, BaseAges, Never, LongAgo, Commanded
<1>2. MailTypeOK'
  BY NewMail, RetiredMail, EmitsMail, ZeroIsOrigin
  DEF BaseInv, BaseKinds, BaseOrigins, MailTypeOK, News, Commanded
<1>3. SinceToken'
  BY NoMail, RetiredMail
  DEF BaseInv, BaseOrigins, MailTypeOK, News, Mail, Commands, SessionsInOrder, SinceToken,
      Subscribed, Commanded
<1>4. SilenceBounded'
  BY NoMail, RetiredMail, BaseAssumption
  DEF BaseAssumption, BaseInv, BaseOrigins, BaseAges, MailTypeOK, Mail, Commands, Never,
      LongAgo, SilenceBounded, Commanded
<1>5. (BaseKinds /\ BaseOrigins /\ SessionsInOrder /\ StillWithoutReceipt)'
  BY DEF BaseInv, BaseKinds, BaseOrigins, SessionsInOrder, StillWithoutReceipt, Subscribed,
         Commanded
<1> QED
  BY <1>1, <1>2, <1>3, <1>4, <1>5 DEF BaseInv

(* On its way through the node the command takes the age of its silence along. *)
LEMMA BaseReceives ==
  ASSUME BaseInv, Receives
  PROVE  BaseInv'
<1>1. BaseOrigins'
  BY NoMail, BaseAssumption
  DEF BaseAssumption, BaseInv, BaseOrigins, SessionsInOrder, MailTypeOK, Mail, Commands,
      Listens, Expired, Reset, Emits, Receives
<1>2. BaseAges'
  BY BaseAssumption
  DEF BaseAssumption, BaseInv, BaseAges, Never, LongAgo, Listens, Expired, Reset, Emits,
      Receives
<1>3. MailTypeOK'
  BY NewMail, RetiredMail, EmitsMail, ZeroIsOrigin, <1>1
  DEF BaseInv, BaseKinds, BaseOrigins, MailTypeOK, News, Listens, Expired, Reset, Receives
<1>4. SinceToken'
  BY NoMail, RetiredMail
  DEF BaseInv, BaseOrigins, MailTypeOK, News, Mail, Commands, SessionsInOrder, SinceToken,
      Subscribed, Listens, Expired, Reset, Emits, Receives
<1>5. SilenceBounded'
  BY NoMail, RetiredMail, BaseAssumption
  DEF BaseAssumption, BaseInv, BaseOrigins, BaseAges, MailTypeOK, Mail, Commands, Never,
      LongAgo, SilenceBounded, Listens, Expired, Reset, Emits, Receives
<1>6. (BaseKinds /\ SessionsInOrder /\ StillWithoutReceipt)'
  BY DEF BaseInv, BaseKinds, SessionsInOrder, StillWithoutReceipt, Subscribed, Listens, Expired,
         Reset, Emits, Receives
<1> QED
  BY <1>1, <1>2, <1>3, <1>4, <1>5, <1>6 DEF BaseInv

(* step(): the ramp moves, or the tracks stop.                              *)
LEMMA BaseProfiles ==
  ASSUME BaseInv, Profiles
  PROVE  BaseInv'
<1>1. BaseOrigins'
  BY NoMail, BaseAssumption
  DEF BaseAssumption, BaseInv, BaseOrigins, SessionsInOrder, MailTypeOK, Mail, Commands, Drives,
      Expired, Reset, Emits, Profiles
<1>2. BaseAges'
  BY BaseAssumption
  DEF BaseAssumption, BaseInv, BaseAges, Never, LongAgo, Drives, Expired, Reset, Emits, Profiles
<1>3. MailTypeOK'
  BY NewMail, RetiredMail, EmitsMail, ZeroIsOrigin, <1>1
  DEF BaseInv, BaseKinds, BaseOrigins, MailTypeOK, News, Drives, Expired, Reset, Profiles
<1>4. SinceToken'
  BY NoMail, RetiredMail
  DEF BaseInv, BaseOrigins, MailTypeOK, News, Mail, Commands, SessionsInOrder, SinceToken,
      Subscribed, Drives, Expired, Reset, Emits, Profiles
<1>5. SilenceBounded'
  BY NoMail, RetiredMail, BaseAssumption
  DEF BaseAssumption, BaseInv, BaseOrigins, BaseAges, MailTypeOK, Mail, Commands, Never,
      LongAgo, SilenceBounded, Drives, Expired, Reset, Emits, Profiles
<1>6. (BaseKinds /\ SessionsInOrder /\ StillWithoutReceipt)'
  BY DEF BaseInv, BaseKinds, SessionsInOrder, StillWithoutReceipt, Subscribed, Drives, Expired,
         Reset, Emits, Profiles
<1> QED
  BY <1>1, <1>2, <1>3, <1>4, <1>5, <1>6 DEF BaseInv

(* The controller: what its subscription of before still delivers is not admitted. *)
LEMMA BaseActivate ==
  ASSUME BaseInv, Activate
  PROVE  BaseInv'
<1>1. BaseKinds'
  BY RunningIsFlag DEF BaseInv, BaseKinds, BaseStages, Activate
<1>2. BaseOrigins'
  BY NoMail, BaseAssumption
  DEF BaseAssumption, BaseInv, BaseOrigins, SessionsInOrder, MailTypeOK, Mail, Commands,
      Activate
<1>3. BaseAges'
  BY BaseAssumption DEF BaseAssumption, BaseInv, BaseAges, Never, LongAgo, Activate
<1>4. MailTypeOK'
  BY NewMail, RetiredMail, EmitsMail, ZeroIsOrigin, <1>2
  DEF BaseInv, BaseKinds, BaseOrigins, MailTypeOK, News, Activate
<1>5. SilenceBounded'
  BY NoMail, RetiredMail, BaseAssumption
  DEF BaseAssumption, BaseInv, BaseOrigins, BaseAges, MailTypeOK, Mail, Commands, Never,
      LongAgo, SilenceBounded, Activate
<1>6. StillWithoutReceipt'
  BY BaseAssumption
  DEF BaseAssumption, BaseInv, BaseOrigins, BaseAges, Never, Commands, StillWithoutReceipt,
      Activate
<1>7. (SessionsInOrder /\ SinceToken)'
  BY DEF BaseInv, SessionsInOrder, SinceToken, Subscribed, Activate
<1> QED
  BY <1>1, <1>2, <1>3, <1>4, <1>5, <1>6, <1>7 DEF BaseInv

(* on_deactivate: what is on its way is retired with the controller.        *)
LEMMA BaseDeactivate ==
  ASSUME BaseInv, Deactivate
  PROVE  BaseInv'
<1>1. BaseKinds'
  BY RunningIsFlag DEF BaseInv, BaseKinds, BaseStages, Deactivate
<1>2. BaseOrigins'
  BY NoMail, BaseAssumption
  DEF BaseAssumption, BaseInv, BaseOrigins, SessionsInOrder, MailTypeOK, Mail, Commands,
      Deactivate
<1>3. BaseAges'
  BY BaseAssumption DEF BaseAssumption, BaseInv, BaseAges, Never, LongAgo, Deactivate
<1>4. MailTypeOK'
  BY NewMail, RetiredMail, EmitsMail, ZeroIsOrigin, <1>2
  DEF BaseInv, BaseKinds, BaseOrigins, MailTypeOK, News, Deactivate
<1>5. SilenceBounded'
  BY NoMail, RetiredMail, BaseAssumption
  DEF BaseAssumption, BaseInv, BaseOrigins, BaseAges, MailTypeOK, Mail, Commands, Never,
      LongAgo, SilenceBounded, Deactivate
<1>6. StillWithoutReceipt'
  BY BaseAssumption
  DEF BaseAssumption, BaseInv, BaseOrigins, BaseAges, Never, Commands, StillWithoutReceipt,
      Deactivate
<1>7. (SessionsInOrder /\ SinceToken)'
  BY DEF BaseInv, SessionsInOrder, SinceToken, Subscribed, Deactivate
<1> QED
  BY <1>1, <1>2, <1>3, <1>4, <1>5, <1>6, <1>7 DEF BaseInv

(* The callback of the velocity's subscription.                             *)
LEMMA BaseDelivered ==
  ASSUME BaseInv, Delivered
  PROVE  BaseInv'
<1>1. BaseOrigins'
  BY NoMail, BaseAssumption
  DEF BaseAssumption, BaseInv, BaseOrigins, SessionsInOrder, MailTypeOK, Mail, Commands, Admits,
      Delivered
<1>2. BaseAges'
  BY BaseAssumption DEF BaseAssumption, BaseInv, BaseAges, Never, LongAgo, Admits, Delivered
<1>3. MailTypeOK'
  BY NewMail, RetiredMail, EmitsMail, ZeroIsOrigin, <1>1
  DEF BaseInv, BaseKinds, BaseOrigins, MailTypeOK, News, Admits, Delivered
<1>4. SilenceBounded'
  BY NoMail, RetiredMail, BaseAssumption
  DEF BaseAssumption, BaseInv, BaseOrigins, BaseAges, MailTypeOK, Mail, Commands, Never,
      LongAgo, SilenceBounded, Admits, Delivered
<1>5. StillWithoutReceipt'
  BY BaseAssumption
  DEF BaseAssumption, BaseInv, BaseOrigins, BaseAges, Never, Commands, StillWithoutReceipt,
      Admits, Delivered
<1>6. (BaseKinds /\ SessionsInOrder /\ SinceToken)'
  BY DEF BaseInv, BaseKinds, SessionsInOrder, SinceToken, Subscribed, Admits, Delivered
<1> QED
  BY <1>1, <1>2, <1>3, <1>4, <1>5, <1>6 DEF BaseInv

(* Messages are lost, and time passes on every leg alike.                     *)
LEMMA BaseLost ==
  ASSUME BaseInv, Lost
  PROVE  BaseInv'
<1>1. MailTypeOK'
  BY NewMail, RetiredMail, EmitsMail, ZeroIsOrigin
  DEF BaseInv, BaseKinds, BaseOrigins, MailTypeOK, News, Lost
<1>2. SessionsInOrder'
  BY NoMail, RunningIsFlag, BaseAssumption
  DEF BaseAssumption, State, BaseInv, BaseKinds, BaseOrigins, MailTypeOK, News, Commands,
      SessionsInOrder, Subscribed, Lost
<1>3. SinceToken'
  BY NoMail, RetiredMail
  DEF BaseInv, BaseOrigins, MailTypeOK, News, Mail, Commands, SessionsInOrder, SinceToken,
      Subscribed, Lost
<1>4. SilenceBounded'
  BY NoMail, RetiredMail, BaseAssumption
  DEF BaseAssumption, BaseInv, BaseOrigins, BaseAges, MailTypeOK, Mail, Commands, Never,
      LongAgo, SilenceBounded, Lost
<1>5. (BaseKinds /\ BaseOrigins /\ BaseAges /\ StillWithoutReceipt)'
  BY DEF BaseInv, BaseKinds, BaseOrigins, BaseAges, StillWithoutReceipt, Lost
<1> QED
  BY <1>1, <1>2, <1>3, <1>4, <1>5 DEF BaseInv

(* Time passes.                                                             *)
LEMMA BaseTick ==
  ASSUME BaseInv, Tick
  PROVE  BaseInv'
<1>1. BaseOrigins'
  BY NoMail, BaseAssumption
  DEF BaseAssumption, BaseInv, BaseOrigins, SessionsInOrder, MailTypeOK, Mail, Commands, Older,
      Old, Update, Kept, Tick
<1>2. BaseAges'
  BY BaseAssumption
  DEF BaseAssumption, BaseInv, BaseAges, Never, LongAgo, Older, Old, Update, Kept, Tick
<1>3. SilenceBounded'
  BY NoMail, RetiredMail, BaseAssumption
  DEF BaseAssumption, BaseInv, BaseOrigins, BaseAges, MailTypeOK, Mail, Commands, Never,
      LongAgo, SilenceBounded, Older, Old, Update, Kept, Tick
<1>4. StillWithoutReceipt'
  BY BaseAssumption
  DEF BaseAssumption, BaseInv, BaseOrigins, BaseAges, Never, Commands, StillWithoutReceipt,
      Older, Old, Update, Kept, Tick
<1>5. (BaseKinds /\ MailTypeOK /\ SessionsInOrder /\ SinceToken)'
  BY DEF BaseInv, BaseKinds, MailTypeOK, SessionsInOrder, SinceToken, Subscribed, Older, Old,
         Update, Kept, Tick
<1> QED
  BY <1>1, <1>2, <1>3, <1>4, <1>5 DEF BaseInv

(* Whatever happens, the way keeps its invariant.                            *)
LEMMA BaseStep == BaseInv /\ [BaseNext]_baseVars => BaseInv'
<1> SUFFICES ASSUME BaseInv, [BaseNext]_baseVars PROVE BaseInv'
  OBVIOUS
<1>1. CASE BeginResume
  BY <1>1, BaseBeginResume
<1>2. CASE Run
  BY <1>2, BaseRun
<1>3. CASE Advances
  BY <1>3, BaseAdvances
<1>4. CASE Publishes
  BY <1>4, BasePublishes
<1>5. CASE Hears
  BY <1>5, BaseHears
<1>6. CASE HearsNonsense
  BY <1>6, BaseHearsNonsense
<1>7. CASE Commanded
  BY <1>7, BaseCommanded
<1>8. CASE Receives
  BY <1>8, BaseReceives
<1>9. CASE Profiles
  BY <1>9, BaseProfiles
<1>10. CASE Activate
  BY <1>10, BaseActivate
<1>11. CASE Deactivate
  BY <1>11, BaseDeactivate
<1>12. CASE Delivered
  BY <1>12, BaseDelivered
<1>13. CASE Lost
  BY <1>13, BaseLost
<1>14. CASE Tick
  BY <1>14, BaseTick
<1>15. CASE UNCHANGED baseVars
  <2>1. (BaseKinds /\ BaseOrigins /\ BaseAges /\ MailTypeOK /\ StillWithoutReceipt)'
    BY <1>15
    DEF BaseInv, BaseKinds, BaseOrigins, BaseAges, MailTypeOK, StillWithoutReceipt, baseVars
  <2>2. (SessionsInOrder /\ SinceToken /\ SilenceBounded)'
    BY <1>15 DEF BaseInv, SessionsInOrder, SinceToken, SilenceBounded, Subscribed, baseVars
  <2> QED
    BY <2>1, <2>2 DEF BaseInv
<1> QED
  BY <1>1, <1>2, <1>3, <1>4, <1>5, <1>6, <1>7, <1>8, <1>9, <1>10, <1>11, <1>12, <1>13, <1>14,
     <1>15
  DEF BaseNext

(* The way of a velocity command keeps its invariant.                        *)
THEOREM BaseInvariance == BaseSpec => []BaseInv
BY BaseInitInv, BaseStep, PTL DEF BaseSpec

(* No command crosses a restart that base_cmd_node has heard of, and an         *)
(* activated controller that has received nothing stands still: for every      *)
(* time-out and any number of sessions (base_cmd_node.cpp:55-62,               *)
(* session_diff_drive_controller.cpp:46-79).                                 *)
THEOREM NothingIsCarriedOver == BaseSpec => []NothingCarriedOver
BY BaseInvariance, BaseImplied, PTL

(* When the operator falls silent the tracks stop within both time-outs,       *)
(* whatever is lost, late or restarted meanwhile (base_cmd_node.cpp:78-80,      *)
(* session_diff_drive_controller.cpp:85-88).                                 *)
THEOREM SilenceIsBounded == BaseSpec => []SilenceStops
BY BaseInvariance, BaseImplied, PTL

-----------------------------------------------------------------------------
(* The flippers.                                                             *)

(* While the joints change their modes no controller runs, and those that are *)
(* done are in the new one.                                                  *)
SwitchesAlone ==
  /\ At("halt") \/ At("disable") \/ At("stop") => turn.left = Flippers
  /\ At("mode") =>
       running = {} /\ \A j \in Flippers \ turn.left : jointMode[j] = HardwareMode(turn.to)
  /\ At("start") =>
       running = {} /\ \A j \in Flippers : jointMode[j] = HardwareMode(turn.to)

(* The stages of a cold switch.                                              *)
Turns ==
  [at : TurnStages, to : FlipperProfiles, before : Lifecycles \cup {"Unknown"},
   left : SUBSET Flippers]

(* A velocity that moves is, on its way and in the buffer, no older than its   *)
(* command's time-out and its own age.                                       *)
JogBounded ==
  /\ parcel # Empty /\ parcel.moves => jogAge <= JogTimeout
  /\ buffered /\ bufferAge <= FeedTimeout => jogAge <= JogTimeout + bufferAge

(* FlipperTypeOK in three parts.                                             *)
FlipperFlags ==
  {hybrid, measured, informed, healthy, jogged, wanted, filtered, buffered} \subseteq BOOLEAN

FlipperKinds ==
  /\ profile \in FlipperProfiles /\ lifecycle \in Lifecycles \cup {"Unknown"}
  /\ turn \in {NoTurn} \cup Turns
  /\ notice \in Lifecycles \cup {"none"}
  /\ parcel \in {Empty} \cup [moves : BOOLEAN]
  /\ power \in Lifecycles /\ jointMode \in [Flippers -> FlipperModes]
  /\ running \subseteq FlipperModes

JogAges == jogAge \in 0..(JogTimeout + FeedTimeout + 1) /\ bufferAge \in 0..(FeedTimeout + 1)

(* What every step of the flippers preserves.  OwnMode rests on the order of a  *)
(* cold switch, JogsSubside on the age of each velocity under way.           *)
FlipperInv == FlipperFlags /\ FlipperKinds /\ JogAges /\ SwitchesAlone /\ OwnMode /\ JogBounded

USE DEF heardVars, jogVars, driveVars, managerVars, outsideVars, quiet

(* No switch, and nothing under way, are no records of one.                  *)
LEMMA TurnIsOne == NoTurn \notin Turns
  BY DEF NoTurn, Turns, TurnStages

(* A velocity on its way is not the empty parcel.                           *)
LEMMA ParcelIsOne == Empty \notin [moves : BOOLEAN]
  BY DEF Empty

(* A hold command carries no velocity.                                       *)
LEMMA HoldsStill ==
  ASSUME FlipperKinds, NEW m, Holds(m)
  PROVE  parcel' \in {Empty} \cup [moves : BOOLEAN]
<1>1. [moves |-> FALSE] \in [moves : BOOLEAN]
  OBVIOUS
<1>2. parcel' = [moves |-> FALSE] \/ parcel' = parcel
  BY DEF Holds, SendsVelocity
<1> QED
  BY <1>1, <1>2 DEF FlipperKinds

(* The flippers as launched keep it.                                         *)
LEMMA FlipperInitInv == FlipperInit => FlipperInv
<1>1. FlipperInit => FlipperFlags /\ FlipperKinds
  BY DEF FlipperInit, FlipperFlags, FlipperKinds, FlipperProfiles, Lifecycles, FlipperModes
<1>2. FlipperInit => JogAges
  BY FlipperAssumption DEF FlipperAssumption, FlipperInit, JogAges
<1>3. FlipperInit => SwitchesAlone /\ OwnMode /\ JogBounded
  BY DEF FlipperInit, SwitchesAlone, At, OwnMode, JogBounded
<1> QED
  BY <1>1, <1>2, <1>3 DEF FlipperInv

(* What the invariant is for.                                                *)
LEMMA FlipperImplied == FlipperInv => FlipperTypeOK /\ OwnMode /\ JogsSubside
<1>1. FlipperInv => FlipperTypeOK
  BY DEF FlipperInv, FlipperTypeOK, FlipperFlags, FlipperKinds, Turns, JogAges
<1>2. FlipperInv => JogsSubside
  BY FlipperAssumption
  DEF FlipperAssumption, FlipperInv, JogAges, JogBounded, JogsSubside, MovesFlippers, Fresh
<1> QED
  BY <1>1, <1>2 DEF FlipperInv

(* What the node hears changes nothing that moves.                            *)
LEMMA FlipMeasures ==
  ASSUME FlipperInv, Measures
  PROVE  FlipperInv'
<1>1. FlipperFlags'
  BY DEF FlipperInv, FlipperFlags, FlipperKinds, Measures
<1>2. (FlipperKinds /\ JogAges /\ SwitchesAlone /\ OwnMode /\ JogBounded)'
  BY DEF FlipperInv, FlipperKinds, JogAges, SwitchesAlone, OwnMode, JogBounded, At, Measures
<1> QED
  BY <1>1, <1>2 DEF FlipperInv

(* The backend publishes.                                                   *)
LEMMA FlipAnnounces ==
  ASSUME FlipperInv, Announces
  PROVE  FlipperInv'
<1>1. FlipperKinds'
  BY TurnIsOne
  DEF FlipperInv, FlipperFlags, FlipperKinds, Turns, TurnStages, Lifecycles, FlipperProfiles,
      FlipperModes, At, Announces
<1>2. (FlipperFlags /\ JogAges /\ SwitchesAlone /\ OwnMode /\ JogBounded)'
  BY DEF FlipperInv, FlipperFlags, JogAges, SwitchesAlone, OwnMode, JogBounded, At, Announces
<1> QED
  BY <1>1, <1>2 DEF FlipperInv

(* The manager hears what the backend has published.                        *)
LEMMA FlipNotices ==
  ASSUME FlipperInv, Notices
  PROVE  FlipperInv'
<1>1. FlipperFlags'
  BY DEF FlipperInv, FlipperFlags, FlipperKinds, Notices
<1>2. FlipperKinds'
  BY TurnIsOne
  DEF FlipperInv, FlipperFlags, FlipperKinds, Turns, TurnStages, Lifecycles, FlipperProfiles,
      FlipperModes, At, Notices
<1>3. (JogAges /\ SwitchesAlone /\ OwnMode /\ JogBounded)'
  BY DEF FlipperInv, JogAges, SwitchesAlone, OwnMode, JogBounded, At, Notices
<1> QED
  BY <1>1, <1>2, <1>3 DEF FlipperInv

(* A jog command starts the clock; the filter only carries on what has not timed out. *)
LEMMA FlipJogs ==
  ASSUME FlipperInv, Jogs
  PROVE  FlipperInv'
<1>1. FlipperFlags'
  BY DEF FlipperInv, FlipperFlags, FlipperKinds, Jogs
<1>2. JogAges'
  BY FlipperAssumption DEF FlipperAssumption, FlipperInv, JogAges, Jogs
<1>3. JogBounded'
  BY FlipperAssumption, ParcelIsOne
  DEF FlipperAssumption, FlipperInv, FlipperFlags, FlipperKinds, JogAges, JogBounded, Jogs
<1>4. (FlipperKinds /\ SwitchesAlone /\ OwnMode)'
  BY DEF FlipperInv, FlipperKinds, SwitchesAlone, OwnMode, At, Jogs
<1> QED
  BY <1>1, <1>2, <1>3, <1>4 DEF FlipperInv

(* OnControlTimer.                                                          *)
LEMMA FlipControls ==
  ASSUME FlipperInv, Controls
  PROVE  FlipperInv'
<1>1. FlipperFlags'
  BY DEF FlipperInv, FlipperFlags, FlipperKinds, Filter, TimedOut, SendsVelocity, Controls
<1>2. FlipperKinds'
  <2>1. filtered' \in BOOLEAN
    BY <1>1 DEF FlipperFlags
  <2>2. parcel' \in {Empty} \cup [moves : BOOLEAN]
    BY <2>1 DEF FlipperInv, FlipperKinds, SendsVelocity, Controls
  <2> QED
    BY <2>2 DEF FlipperInv, FlipperKinds, Controls
<1>3. JogBounded'
  <2>1. filtered' => jogAge <= JogTimeout
    <3>1. TimedOut => filtered' = FALSE
      BY DEF Filter, Controls
    <3>2. ~TimedOut => jogAge <= JogTimeout
      BY FlipperAssumption DEF FlipperAssumption, FlipperInv, JogAges, TimedOut
    <3> QED
      BY <3>1, <3>2
  <2>2. parcel' = parcel \/ parcel' = [moves |-> filtered']
    BY DEF SendsVelocity, Controls
  <2>3. parcel' # Empty /\ parcel'.moves => jogAge <= JogTimeout
    BY <2>1, <2>2 DEF FlipperInv, JogBounded
  <2> QED
    BY <2>3 DEF FlipperInv, JogBounded, Controls
<1>4. (JogAges /\ SwitchesAlone /\ OwnMode)'
  BY DEF FlipperInv, JogAges, SwitchesAlone, OwnMode, At, Filter, TimedOut, SendsVelocity,
         Controls
<1> QED
  BY <1>1, <1>2, <1>3, <1>4 DEF FlipperInv

(* OnSetLinkageMode.                                                        *)
LEMMA FlipSetsLinkage ==
  ASSUME FlipperInv, SetsLinkage
  PROVE  FlipperInv'
<1>1. FlipperFlags'
  BY DEF FlipperInv, FlipperFlags, FlipperKinds, ClearVelocityCommand, SetsLinkage
<1>2. (FlipperKinds /\ JogAges /\ SwitchesAlone /\ OwnMode /\ JogBounded)'
  BY DEF FlipperInv, FlipperKinds, JogAges, SwitchesAlone, OwnMode, JogBounded, At,
         ClearVelocityCommand, SetsLinkage
<1> QED
  BY <1>1, <1>2 DEF FlipperInv

(* A profile of the same mode is switched to at once, another one in stages.  *)
LEMMA FlipInternalSwitch ==
  ASSUME FlipperInv, NEW p \in FlipperProfiles, InternalSwitch(p)
  PROVE  FlipperInv'
<1>1. FlipperFlags'
  BY DEF FlipperInv, FlipperFlags, FlipperKinds, ClearVelocityCommand, HardwareMode, Holds,
         SendsVelocity, InternalSwitch
<1>2. FlipperKinds'
  BY TurnIsOne
  DEF FlipperInv, FlipperFlags, FlipperKinds, Turns, TurnStages, Lifecycles, FlipperProfiles,
      FlipperModes, At, ClearVelocityCommand, HardwareMode, Holds, SendsVelocity, InternalSwitch
<1>3. JogBounded'
  BY FlipperAssumption, ParcelIsOne
  DEF FlipperAssumption, FlipperInv, FlipperFlags, FlipperKinds, JogAges, JogBounded,
      ClearVelocityCommand, HardwareMode, Holds, SendsVelocity, InternalSwitch
<1>4. (JogAges /\ SwitchesAlone /\ OwnMode)'
  BY DEF FlipperInv, JogAges, SwitchesAlone, OwnMode, At, ClearVelocityCommand, HardwareMode,
         Holds, SendsVelocity, InternalSwitch
<1> QED
  BY <1>1, <1>2, <1>3, <1>4 DEF FlipperInv

(* A cold switch begins, or fails at once.                                  *)
LEMMA FlipColdSwitch ==
  ASSUME FlipperInv, NEW p \in FlipperProfiles, ColdSwitch(p)
  PROVE  FlipperInv'
<1>1. FlipperFlags'
  BY DEF FlipperInv, FlipperFlags, FlipperKinds, ClearVelocityCommand, Turning, HardwareMode,
         ColdSwitch
<1>2. FlipperKinds'
  BY TurnIsOne
  DEF FlipperInv, FlipperFlags, FlipperKinds, Turns, TurnStages, Lifecycles, FlipperProfiles,
      FlipperModes, At, ClearVelocityCommand, Turning, HardwareMode, ColdSwitch
<1>3. SwitchesAlone'
  BY TurnIsOne
  DEF FlipperInv, FlipperKinds, SwitchesAlone, OwnMode, Turns, TurnStages, At,
      ClearVelocityCommand, Turning, HardwareMode, ColdSwitch
<1>4. (JogAges /\ OwnMode /\ JogBounded)'
  BY DEF FlipperInv, JogAges, OwnMode, JogBounded, ClearVelocityCommand, Turning, HardwareMode,
         ColdSwitch
<1> QED
  BY <1>1, <1>2, <1>3, <1>4 DEF FlipperInv

(* The switch: the controller of the old mode has stopped before the first joint *)
(* changes its mode, and that of the new one starts after the last.           *)
LEMMA FlipHaltsFirst ==
  ASSUME FlipperInv, HaltsFirst
  PROVE  FlipperInv'
<1>1. FlipperKinds'
  BY TurnIsOne
  DEF FlipperInv, FlipperFlags, FlipperKinds, Turns, TurnStages, Lifecycles, FlipperProfiles,
      FlipperModes, At, Call, Fails, GoesTo, Shift, StopsMotion, HaltsFirst
<1>2. SwitchesAlone'
  BY TurnIsOne
  DEF FlipperInv, FlipperKinds, SwitchesAlone, OwnMode, Turns, TurnStages, At, Call, Fails,
      GoesTo, Shift, StopsMotion, HaltsFirst
<1>3. (FlipperFlags /\ JogAges /\ OwnMode /\ JogBounded)'
  BY DEF FlipperInv, FlipperFlags, JogAges, OwnMode, JogBounded, Call, Fails, GoesTo, Shift,
         StopsMotion, HaltsFirst
<1> QED
  BY <1>1, <1>2, <1>3 DEF FlipperInv

(* A cold switch: the drives are disabled.                                  *)
LEMMA FlipDisablesThen ==
  ASSUME FlipperInv, DisablesThen
  PROVE  FlipperInv'
<1>1. FlipperKinds'
  BY TurnIsOne
  DEF FlipperInv, FlipperFlags, FlipperKinds, Turns, TurnStages, Lifecycles, FlipperProfiles,
      FlipperModes, At, Call, Fails, GoesTo, Shift, DisablesPower, DisablesThen
<1>2. SwitchesAlone'
  BY TurnIsOne
  DEF FlipperInv, FlipperKinds, SwitchesAlone, OwnMode, Turns, TurnStages, At, Call, Fails,
      GoesTo, Shift, DisablesPower, DisablesThen
<1>3. (FlipperFlags /\ JogAges /\ OwnMode /\ JogBounded)'
  BY DEF FlipperInv, FlipperFlags, JogAges, OwnMode, JogBounded, Call, Fails, GoesTo, Shift,
         DisablesPower, DisablesThen
<1> QED
  BY <1>1, <1>2, <1>3 DEF FlipperInv

(* A cold switch: the controller of the old mode stops.                     *)
LEMMA FlipStopsController ==
  ASSUME FlipperInv, StopsController
  PROVE  FlipperInv'
<1>1. FlipperFlags'
  BY DEF FlipperInv, FlipperFlags, FlipperKinds, Call, Fails, GoesTo, Shift, Without,
         HardwareMode, StopsController
<1>2. FlipperKinds'
  BY TurnIsOne
  DEF FlipperInv, FlipperFlags, FlipperKinds, Turns, TurnStages, Lifecycles, FlipperProfiles,
      FlipperModes, At, Call, Fails, GoesTo, Shift, Without, HardwareMode, StopsController
<1>3. SwitchesAlone'
  <2>1. \A m, n \in running : m = n
    BY FlipperAssumption DEF FlipperAssumption, FlipperInv, OwnMode
  <2>2. CASE Without(HardwareMode(profile)) /\ GoesTo("mode")
    <3>1. running' = {}
      BY <2>1, <2>2 DEF Without
    <3>2. turn'.at = "mode" /\ turn'.left = Flippers
      BY <2>2, TurnIsOne
      DEF GoesTo, FlipperInv, FlipperKinds, SwitchesAlone, StopsController, At, Turns
    <3> QED
      BY <3>1, <3>2 DEF SwitchesAlone, At
  <2>3. CASE Fails
    BY <2>3 DEF Fails, SwitchesAlone, At
  <2> QED
    BY <2>2, <2>3 DEF StopsController, Call
<1>4. OwnMode'
  BY FlipperAssumption
  DEF FlipperAssumption, FlipperInv, FlipperKinds, SwitchesAlone, OwnMode, At, Call, Fails,
      GoesTo, Shift, Without, HardwareMode, StopsController
<1>5. JogBounded'
  BY FlipperAssumption, ParcelIsOne
  DEF FlipperAssumption, FlipperInv, FlipperFlags, FlipperKinds, JogAges, JogBounded, Call,
      Fails, GoesTo, Shift, Without, HardwareMode, StopsController
<1>6. (JogAges)'
  BY DEF FlipperInv, JogAges, Call, Fails, GoesTo, Shift, Without, HardwareMode, StopsController
<1> QED
  BY <1>1, <1>2, <1>3, <1>4, <1>5, <1>6 DEF FlipperInv

(* The joints done are those that have left `left`.                           *)
LEMMA FlipSwitchesModes ==
  ASSUME FlipperInv, SwitchesModes
  PROVE  FlipperInv'
<1>1. FlipperKinds'
  BY TurnIsOne
  DEF FlipperInv, FlipperFlags, FlipperKinds, Turns, TurnStages, Lifecycles, FlipperProfiles,
      FlipperModes, At, Call, Fails, GoesTo, Shift, SwitchesJoint, SetsMode, NextJoint,
      HardwareMode, SwitchesModes
<1>2. SwitchesAlone'
  BY TurnIsOne
  DEF FlipperInv, FlipperKinds, SwitchesAlone, OwnMode, Turns, TurnStages, At, Call, Fails,
      GoesTo, Shift, SwitchesJoint, SetsMode, NextJoint, HardwareMode, SwitchesModes
<1>3. OwnMode'
  BY FlipperAssumption
  DEF FlipperAssumption, FlipperInv, FlipperKinds, SwitchesAlone, OwnMode, At, Call, Fails,
      GoesTo, Shift, SwitchesJoint, SetsMode, NextJoint, HardwareMode, SwitchesModes
<1>4. (FlipperFlags /\ JogAges /\ JogBounded)'
  BY DEF FlipperInv, FlipperFlags, JogAges, JogBounded, Call, Fails, GoesTo, Shift,
         SwitchesJoint, SetsMode, NextJoint, HardwareMode, SwitchesModes
<1> QED
  BY <1>1, <1>2, <1>3, <1>4 DEF FlipperInv

(* A cold switch: all joints being in the new mode, its controller starts.  *)
LEMMA FlipStartsController ==
  ASSUME FlipperInv, StartsController
  PROVE  FlipperInv'
<1>1. FlipperFlags'
  BY DEF FlipperInv, FlipperFlags, FlipperKinds, Fails, GoesTo, With, Primed, Holds,
         SendsVelocity, HardwareMode, StartsController
<1>2. FlipperKinds'
  <2>1. turn' \in {NoTurn} \cup Turns
    BY TurnIsOne
    DEF FlipperInv, FlipperKinds, Turns, TurnStages, At, Fails, GoesTo, With, Primed, Holds,
        SendsVelocity, HardwareMode, StartsController
  <2>2. power' \in Lifecycles /\ jointMode' \in [Flippers -> FlipperModes]
    BY DEF FlipperInv, FlipperKinds, Lifecycles, Fails, GoesTo, With, Primed, Holds,
           SendsVelocity, HardwareMode, StartsController
  <2>3. running' \subseteq FlipperModes /\ profile' \in FlipperProfiles
    BY TurnIsOne
    DEF FlipperInv, FlipperKinds, Turns, FlipperProfiles, FlipperModes, At, Fails, GoesTo, With,
        Primed, Holds, SendsVelocity, HardwareMode, StartsController
  <2>4. parcel' \in {Empty} \cup [moves : BOOLEAN]
    BY HoldsStill DEF FlipperInv, FlipperKinds, Primed, StartsController
  <2>5. lifecycle' \in Lifecycles \cup {"Unknown"} /\ notice' \in Lifecycles \cup {"none"}
    BY DEF FlipperInv, FlipperKinds, Lifecycles, Fails, GoesTo, With, Primed, Holds,
           SendsVelocity, HardwareMode, StartsController
  <2> QED
    BY <2>1, <2>2, <2>3, <2>4, <2>5 DEF FlipperKinds
<1>3. SwitchesAlone'
  BY TurnIsOne
  DEF FlipperInv, FlipperKinds, SwitchesAlone, OwnMode, Turns, TurnStages, At, Fails, GoesTo,
      With, Primed, Holds, SendsVelocity, HardwareMode, StartsController
<1>4. OwnMode'
  BY FlipperAssumption
  DEF FlipperAssumption, FlipperInv, FlipperKinds, SwitchesAlone, OwnMode, At, Fails, GoesTo,
      With, Primed, Holds, SendsVelocity, HardwareMode, StartsController
<1>5. JogBounded'
  BY FlipperAssumption, ParcelIsOne
  DEF FlipperAssumption, FlipperInv, FlipperFlags, FlipperKinds, JogAges, JogBounded, Fails,
      GoesTo, With, Primed, Holds, SendsVelocity, HardwareMode, StartsController
<1>6. (JogAges)'
  BY DEF FlipperInv, JogAges, Fails, GoesTo, With, Primed, Holds, SendsVelocity, HardwareMode,
         StartsController
<1> QED
  BY <1>1, <1>2, <1>3, <1>4, <1>5, <1>6 DEF FlipperInv

(* A cold switch: the drives are enabled.                                   *)
LEMMA FlipEnablesThen ==
  ASSUME FlipperInv, EnablesThen
  PROVE  FlipperInv'
<1>1. FlipperKinds'
  BY TurnIsOne
  DEF FlipperInv, FlipperFlags, FlipperKinds, Turns, TurnStages, Lifecycles, FlipperProfiles,
      FlipperModes, At, Call, Fails, GoesTo, Shift, EnablesPower, EnablesThen
<1>2. SwitchesAlone'
  BY TurnIsOne
  DEF FlipperInv, FlipperKinds, SwitchesAlone, OwnMode, Turns, TurnStages, At, Call, Fails,
      GoesTo, Shift, EnablesPower, EnablesThen
<1>3. (FlipperFlags /\ JogAges /\ OwnMode /\ JogBounded)'
  BY DEF FlipperInv, FlipperFlags, JogAges, OwnMode, JogBounded, Call, Fails, GoesTo, Shift,
         EnablesPower, EnablesThen
<1> QED
  BY <1>1, <1>2, <1>3 DEF FlipperInv

(* A cold switch: motion resumes, and the profile is the new one.           *)
LEMMA FlipResumesLast ==
  ASSUME FlipperInv, ResumesLast
  PROVE  FlipperInv'
<1>1. FlipperKinds'
  <2>1. turn' \in {NoTurn} \cup Turns
    BY TurnIsOne
    DEF FlipperInv, FlipperKinds, Turns, TurnStages, At, Fails, Shift, ResumesMotion,
        ResumesLast
  <2>2. power' \in Lifecycles /\ jointMode' \in [Flippers -> FlipperModes]
    BY DEF FlipperInv, FlipperKinds, Lifecycles, Fails, Shift, ResumesMotion, ResumesLast
  <2>3. running' \subseteq FlipperModes /\ profile' \in FlipperProfiles
    BY TurnIsOne
    DEF FlipperInv, FlipperKinds, Turns, FlipperProfiles, FlipperModes, At, Fails, Shift,
        ResumesMotion, ResumesLast
  <2>4. parcel' \in {Empty} \cup [moves : BOOLEAN]
    BY DEF FlipperInv, FlipperKinds, Fails, Shift, ResumesMotion, ResumesLast
  <2>5. lifecycle' \in Lifecycles \cup {"Unknown"} /\ notice' \in Lifecycles \cup {"none"}
    BY DEF FlipperInv, FlipperKinds, Lifecycles, Fails, Shift, ResumesMotion, ResumesLast
  <2> QED
    BY <2>1, <2>2, <2>3, <2>4, <2>5 DEF FlipperKinds
<1>2. SwitchesAlone'
  BY TurnIsOne
  DEF FlipperInv, FlipperKinds, SwitchesAlone, OwnMode, Turns, TurnStages, At, Fails, Shift,
      ResumesMotion, ResumesLast
<1>3. (FlipperFlags /\ JogAges /\ OwnMode /\ JogBounded)'
  BY DEF FlipperInv, FlipperFlags, JogAges, OwnMode, JogBounded, Fails, Shift, ResumesMotion,
         ResumesLast
<1> QED
  BY <1>1, <1>2, <1>3 DEF FlipperInv

(* A velocity buffered takes over the age of its command.                     *)
LEMMA FlipAccepted ==
  ASSUME FlipperInv, Accepted
  PROVE  FlipperInv'
<1>1. FlipperFlags'
  BY DEF FlipperInv, FlipperFlags, FlipperKinds, Accepted
<1>2. FlipperKinds'
  BY TurnIsOne
  DEF FlipperInv, FlipperFlags, FlipperKinds, Turns, TurnStages, Lifecycles, FlipperProfiles,
      FlipperModes, At, Accepted
<1>3. JogAges'
  BY FlipperAssumption DEF FlipperAssumption, FlipperInv, JogAges, Accepted
<1>4. JogBounded'
  BY FlipperAssumption, ParcelIsOne
  DEF FlipperAssumption, FlipperInv, FlipperFlags, FlipperKinds, JogAges, JogBounded, Accepted
<1>5. (SwitchesAlone /\ OwnMode)'
  BY DEF FlipperInv, SwitchesAlone, OwnMode, At, Accepted
<1> QED
  BY <1>1, <1>2, <1>3, <1>4, <1>5 DEF FlipperInv

(* Operators shift the power, never the modes.                                *)
LEMMA FlipPowerShifts ==
  ASSUME FlipperInv, PowerShifts
  PROVE  FlipperInv'
<1>1. FlipperKinds'
  <2>1. turn' \in {NoTurn} \cup Turns
    BY TurnIsOne
    DEF FlipperInv, FlipperKinds, Turns, TurnStages, At, Shift, StopsMotion, DisablesPower,
        EnablesPower, ResumesMotion, PowerShifts
  <2>2. power' \in Lifecycles /\ jointMode' \in [Flippers -> FlipperModes]
    BY DEF FlipperInv, FlipperKinds, Lifecycles, Shift, StopsMotion, DisablesPower,
           EnablesPower, ResumesMotion, PowerShifts
  <2>3. running' \subseteq FlipperModes /\ profile' \in FlipperProfiles
    BY TurnIsOne
    DEF FlipperInv, FlipperKinds, Turns, FlipperProfiles, FlipperModes, At, Shift, StopsMotion,
        DisablesPower, EnablesPower, ResumesMotion, PowerShifts
  <2>4. parcel' \in {Empty} \cup [moves : BOOLEAN]
    BY DEF FlipperInv, FlipperKinds, Shift, StopsMotion, DisablesPower, EnablesPower,
           ResumesMotion, PowerShifts
  <2>5. lifecycle' \in Lifecycles \cup {"Unknown"} /\ notice' \in Lifecycles \cup {"none"}
    BY DEF FlipperInv, FlipperKinds, Lifecycles, Shift, StopsMotion, DisablesPower,
           EnablesPower, ResumesMotion, PowerShifts
  <2> QED
    BY <2>1, <2>2, <2>3, <2>4, <2>5 DEF FlipperKinds
<1>2. (FlipperFlags /\ JogAges /\ SwitchesAlone /\ OwnMode /\ JogBounded)'
  BY DEF FlipperInv, FlipperFlags, JogAges, SwitchesAlone, OwnMode, JogBounded, At, Shift,
         StopsMotion, DisablesPower, EnablesPower, ResumesMotion, PowerShifts
<1> QED
  BY <1>1, <1>2 DEF FlipperInv

(* The command and the buffer grow old together.                              *)
LEMMA FlipFlipperTick ==
  ASSUME FlipperInv, FlipperTick
  PROVE  FlipperInv'
<1>1. JogAges'
  BY FlipperAssumption DEF FlipperAssumption, FlipperInv, JogAges, AgesTo, FlipperTick
<1>2. JogBounded'
  BY FlipperAssumption, ParcelIsOne
  DEF FlipperAssumption, FlipperInv, FlipperFlags, FlipperKinds, JogAges, JogBounded, AgesTo,
      FlipperTick
<1>3. (FlipperFlags /\ FlipperKinds /\ SwitchesAlone /\ OwnMode)'
  BY DEF FlipperInv, FlipperFlags, FlipperKinds, SwitchesAlone, OwnMode, At, AgesTo, FlipperTick
<1> QED
  BY <1>1, <1>2, <1>3 DEF FlipperInv

(* Whatever happens, the flippers keep their invariant.                      *)
LEMMA FlipperStep == FlipperInv /\ [FlipperNext]_flipperVars => FlipperInv'
<1> SUFFICES ASSUME FlipperInv, [FlipperNext]_flipperVars PROVE FlipperInv'
  OBVIOUS
<1>1. CASE Measures
  BY <1>1, FlipMeasures
<1>2. CASE Announces
  BY <1>2, FlipAnnounces
<1>3. CASE Notices
  BY <1>3, FlipNotices
<1>4. CASE Jogs
  BY <1>4, FlipJogs
<1>5. CASE Controls
  BY <1>5, FlipControls
<1>6. CASE SetsLinkage
  BY <1>6, FlipSetsLinkage
<1>7. ASSUME NEW p \in FlipperProfiles, InternalSwitch(p) PROVE FlipperInv'
  BY <1>7, FlipInternalSwitch
<1>8. ASSUME NEW p \in FlipperProfiles, ColdSwitch(p) PROVE FlipperInv'
  BY <1>8, FlipColdSwitch
<1>9. CASE HaltsFirst
  BY <1>9, FlipHaltsFirst
<1>10. CASE DisablesThen
  BY <1>10, FlipDisablesThen
<1>11. CASE StopsController
  BY <1>11, FlipStopsController
<1>12. CASE SwitchesModes
  BY <1>12, FlipSwitchesModes
<1>13. CASE StartsController
  BY <1>13, FlipStartsController
<1>14. CASE EnablesThen
  BY <1>14, FlipEnablesThen
<1>15. CASE ResumesLast
  BY <1>15, FlipResumesLast
<1>16. CASE Accepted
  BY <1>16, FlipAccepted
<1>17. CASE PowerShifts
  BY <1>17, FlipPowerShifts
<1>18. CASE FlipperTick
  BY <1>18, FlipFlipperTick
<1>19. CASE UNCHANGED flipperVars
  <2>1. (FlipperFlags /\ FlipperKinds /\ JogAges)'
    BY <1>19 DEF FlipperInv, FlipperFlags, FlipperKinds, JogAges, flipperVars
  <2>2. (SwitchesAlone /\ OwnMode /\ JogBounded)'
    BY <1>19 DEF FlipperInv, SwitchesAlone, OwnMode, JogBounded, At, flipperVars
  <2> QED
    BY <2>1, <2>2 DEF FlipperInv
<1> QED
  BY <1>1, <1>2, <1>3, <1>4, <1>5, <1>6, <1>7, <1>8, <1>9, <1>10, <1>11, <1>12, <1>13, <1>14,
     <1>15, <1>16, <1>17, <1>18, <1>19
  DEF FlipperNext

(* The flippers keep their invariant.                                        *)
THEOREM FlipperInvariance == FlipperSpec => []FlipperInv
BY FlipperInitInv, FlipperStep, PTL DEF FlipperSpec

(* A flipper controller only ever runs while every joint is in its mode, for    *)
(* any number of joints and whichever call of a switch fails                  *)
(* (flipper_manager_node.cpp:852-951, 953-1022).                             *)
THEOREM FlippersInOwnMode == FlipperSpec => []OwnMode
BY FlipperInvariance, FlipperImplied, PTL

(* The last jog command moves the flippers no longer than the two time-outs     *)
(* together, for any time-outs (flipper_reference_generator.cpp:229-241,       *)
(* joint_group_velocity_controller.cpp:88-107).                              *)
THEOREM JogsAreBounded == FlipperSpec => []JogsSubside
BY FlipperInvariance, FlipperImplied, PTL

-----------------------------------------------------------------------------
(* Each part keeps its types in the run that checks all of them: a behaviour   *)
(* of it is one of every part.                                               *)
THEOREM PartsKeepTypes == Spec /\ []OneAtATime => []PartsTypeOK
<1>1. Init => BaseInit /\ FreshInit /\ CanInit /\ JournalInit /\ FlipperInit
  BY DEF Init
<1>2. [Next]_vars => [BaseNext]_baseVars
  BY DEF Next, vars
<1>3. [Next]_vars => [FreshNext]_freshVars
  BY DEF Next, vars
<1>4. [Next]_vars => [CanNext]_canVars
  BY DEF Next, vars
<1>5. [Next]_vars => [JournalNext]_journalVars
  BY DEF Next, vars
<1>6. [Next]_vars => [FlipperNext]_flipperVars
  BY DEF Next, vars
<1>7. Spec => BaseSpec /\ FreshSpec /\ CanSpec /\ JournalSpec /\ FlipperSpec
  BY <1>1, <1>2, <1>3, <1>4, <1>5, <1>6, PTL
  DEF Spec, BaseSpec, FreshSpec, CanSpec, JournalSpec, FlipperSpec
<1>8. BaseTypeOK /\ FreshTypeOK /\ CanTypeOK /\ JournalTypeOK /\ FlipperTypeOK => PartsTypeOK
  BY DEF PartsTypeOK
<1> QED
  BY <1>7, <1>8, BaseInvariance, BaseImplied, FreshTypeCorrect, CanTypeCorrect, JournalTyped,
     FlipperInvariance, FlipperImplied, PTL
=============================================================================
