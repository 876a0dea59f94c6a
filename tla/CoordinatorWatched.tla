-------------------------- MODULE CoordinatorWatched --------------------------
(***************************************************************************)
(* What the coordinator's watch rests on: a group that may move is one whose *)
(* state is Running, or a thread is about to make it so or to stop it.        *)
(* Watched is not inductive: a group moves under "Running" only because what  *)
(* a thread still has to do says so.  Tended adds to Safety the rules for     *)
(* lists that this needs: nothing that lands a group in another state comes   *)
(* before its stop (Lands), once a start has begun only starts follow         *)
(* (StartsLast), and until the takeover is done nothing else happens.         *)
(*                                                                          *)
(* Lifted, in the second half, is the same for the component that all groups  *)
(* use: who takes it down holds all of them and has stopped them, who raises   *)
(* a group brings it up before, and there is one transition at a time.        *)
(***************************************************************************)
EXTENDS CoordinatorProofs

-----------------------------------------------------------------------------
(* The rules that make a group that may move a known one.                   *)

(* The steps before which a group must not move: assignments of a state     *)
(* that is not Running, what leads to one, and a transaction's              *)
Landing == {"initialized", "armed", "stopped", "maintained", "fault", "condemned", "if_halted",
            "arm_unless_armed", "transact", "write"}
(* They come after a stop,                                                  *)
Lands(s, g) == Precedes(s, g, {"halted"}, Landing)
(* and once a start has begun only starts follow.                           *)
StartsLast(s) == \A i, j \in 1..Len(s) : i < j /\ s[i].do \in Starters => s[j].do \in StartNames

(* Within a stop the session is over, whatever it has met;                  *)
RuleH(t, g) == todo[t] # << >> /\ todo[t][1].on = g /\ todo[t][1].do \in Reached => Still(g)
(* a group that a thread is not about to stop does not move.                *)
RuleF(t, g) == Still(g) \/ Lands(todo[t], g)
Minds(t, g) == RuleH(t, g) /\ RuleF(t, g)

(* A group whose state is not Running does not move, or its state is about  *)
(* to change.                                                               *)
Kept(g) == ownerChecked /\ state[g] # "Running" => Still(g) \/ \E t \in Threads : Coming(t, g)

(* The steps of a takeover                                                  *)
Taking(s) ==
  /\ Len(s) <= 3
  /\ Len(s) = 1 => s[1].do \in {"owner_status", "taken_over"}
  /\ Len(s) = 2 => s[1].do \in {"owner_list", "release_owned"} /\ s[2].do = "taken_over"
  /\ Len(s) = 3 => s[1].do = "owner_lost" /\ s[2].do = "owner_list" /\ s[3].do = "taken_over"
(* Nothing else happens before it, and nothing moves once it has stopped all. *)
TakenOver ==
  /\ Taking(todo["owner"])
  /\ ownerChecked => todo["owner"] = << >>
  /\ ~ownerChecked => \A t \in Threads : t # "owner" => op[t] = ""
  /\ todo["owner"] # << >> =>
       todo["owner"][1].do \in {"owner_status", "owner_lost"} \/ \A g \in Groups : Still(g)

Tended ==
  /\ \A t \in Threads : StartsLast(todo[t])
  /\ \A t \in Threads : \A g \in held[t] : Minds(t, g)
  /\ \A g \in Groups : Kept(g)
  /\ TakenOver
NoConverge == op["monitor"] # "converge"

-----------------------------------------------------------------------------
(* Which lists keep the rules.                                              *)

(* A list without those steps keeps the rule, ...                           *)
LEMMA TameLands ==
  ASSUME NEW s, Lacks(s, Landing)
  PROVE  \A g : Lands(s, g)
  BY TamePrecedes DEF Lands

(* ... and so does the empty list,                                          *)
LEMMA NothingLands == (\A g : Lands(<< >>, g)) /\ StartsLast(<< >>)
<1> DEFINE s == << >>
<1>1. Len(s) = 0
  OBVIOUS
<1> HIDE DEF s
<1>2. (\A g : Lands(s, g)) /\ StartsLast(s)
  BY <1>1 DEF Lands, Precedes, StartsLast
<1> QED
  BY <1>2 DEF s

(* a list after another that stops its groups,                              *)
LEMMA LandsAfter ==
  ASSUME NEW gs, NEW a \in Seq(Plans), NEW b \in Seq(Plans), On(b, gs), \A g : Lands(a, g),
         \A g \in gs : Has(a, g, {"halted"})
  PROVE  \A g : Lands(a \o b, g)
<1> SUFFICES ASSUME NEW g
             PROVE  Lands(a \o b, g)
  OBVIOUS
<1>1. g \notin gs => Precedes(b, g, {"halted"}, Landing)
  BY Idle DEF On
<1>2. Precedes(a, g, {"halted"}, Landing)
  BY DEF Lands
<1> QED
  BY <1>1, <1>2, JoinedPrecedes DEF Lands

(* and a phase of lists that keep it.                                       *)
LEMMA EachLands ==
  ASSUME NEW D, IsFiniteSet(D), NEW steps \in [D -> Seq(Plans)], \A h \in D : \A g : Lands(steps[h], g)
  PROVE  \A g : Lands(Each(steps), g)
  BY EachPrecedes DEF Lands

(* A stop of one group, and of all.                                         *)
LEMMA StopLands ==
  ASSUME NEW g \in Groups
  PROVE  (\A h : Lands(Stop(g), h)) /\ Has(Stop(g), g, {"halted"}) /\ Lacks(Stop(g), Landing)
<1>1. StopNames \cap Landing = {}
  BY DEF StopNames, Landing
<1> QED
  BY <1>1, StopSound, StopHalts, UsesLacks, TameLands

(* The stops of a phase                                                     *)
LEMMA StopsLand ==
  ASSUME NEW gs \in SUBSET Groups
  PROVE  /\ \A g : Lands(Stops(gs), g)
         /\ \A g \in gs : Has(Stops(gs), g, {"halted"})
<1> DEFINE steps == [g \in gs |-> Stop(g)]
<1>1. \A h \in gs : Sound(steps[h], {h}) /\ Has(steps[h], h, {"halted"})
  BY StopSound, StopHalts
<1>2. DOMAIN steps = gs /\ steps = [h \in gs |-> steps[h]]
  OBVIOUS
<1>3. Stops(gs) = Each(steps)
  BY DEF Stops
<1> HIDE DEF steps
<1>4. IsFiniteSet(gs) /\ steps \in [gs -> Seq(Plans)]
  BY <1>1, <1>2, SoundEach
<1>5. \A g \in gs : Has(Each(steps), g, {"halted"})
  BY <1>1, <1>4, EachReaches
<1>6. StopNames \cap Landing = {}
  BY DEF StopNames, Landing
<1>7. Uses(Stops(gs), StopNames)
  BY Phase
<1> QED
  BY <1>3, <1>5, <1>6, <1>7, UsesLacks, TameLands

(* Every operation that may begin with a group that moves stops it first.   *)
LEMMA ProgramLands ==
  ASSUME NEW action \in Actions, action \notin {"init", "enable", "resume"}, NEW gs \in Scopes(action)
  PROVE  \A g : Lands(Program(action, gs), g)
<1> DEFINE s == Program(action, gs)
<1>1. gs \in SUBSET Groups /\ (action = "profile" => \E g \in Groups : gs = {g})
  BY ScopesOfGroups
<1>2. Stops(gs) \in Seq(Plans) /\ (\A g : Lands(Stops(gs), g)) /\ \A g \in gs : Has(Stops(gs), g,
      {"halted"})
  BY <1>1, StopsSound, StopsLand
<1>3. Sound(Rearms(gs), gs) /\ Rearms(gs) \in Seq(Plans) /\ On(Rearms(gs), gs)
  BY <1>1, RearmsSound DEF Sound
<1>4. CASE action = "halt"
  BY <1>2, <1>4 DEF Program, Maintenance
<1>5. CASE action = "recover"
  <2>1. s = Stops(gs) \o Rearms(gs)
    BY <1>5 DEF Program, Maintenance
  <2> HIDE DEF s
  <2> QED
    BY <1>2, <1>3, <2>1, LandsAfter DEF s
<1>6. CASE action = "recover_resource"
  <2> DEFINE one == Ones("rebuild", gs)
             b == one \o Rearms(gs)
  <2>1. s = Stops(gs) \o b
    <3>1. s = (Stops(gs) \o one) \o Rearms(gs)
      BY <1>6 DEF Program, Maintenance
    <3>2. one \in Seq(Plans)
      <4>1. "rebuild" \in Names /\ "rebuild" \notin Followers /\ "rebuild" \notin Starters
        BY DEF Names, Checked, Followers, Starters
      <4> QED
        BY <1>1, <4>1, OnePhase DEF Sound
    <3> HIDE DEF s, one
    <3> QED
      BY <1>2, <1>3, <3>1, <3>2
  <2>2. Sound(one, gs)
    <3>1. "rebuild" \in Names /\ "rebuild" \notin Followers /\ "rebuild" \notin Starters
      BY DEF Names, Checked, Followers, Starters
    <3> QED
      BY <1>1, <3>1, OnePhase
  <2>3. b \in Seq(Plans) /\ On(b, gs)
    BY <1>3, <2>2, SoundJoin DEF Sound
  <2> HIDE DEF s, b
  <2> QED
    BY <1>2, <2>1, <2>3, LandsAfter DEF s
<1>7. CASE action = "shutdown"
  <2> DEFINE steps == [g \in gs |-> Stop(g) \o Steps(<<"stopped">>, g)]
             down == IF Frees(gs) THEN Steps(<<"to_unconfigured">>, "all") ELSE << >>
  <2>1. s = Each(steps) \o down
    BY <1>7 DEF Program, Maintenance, Shuts
  <2>2. ASSUME NEW h \in gs
        PROVE  LET a == Stop(h) \o Steps(<<"stopped">>, h)
               IN  Sound(a, {h}) /\ \A g : Lands(a, g)
    <3> DEFINE one == Steps(<<"stopped">>, h)
    <3>1. "stopped" \in Names /\ "stopped" \notin Followers /\ "stopped" \notin Starters
      BY DEF Names, Assigned, Followers, Starters
    <3>2. Sound(one, {h}) /\ one \in Seq(Plans) /\ On(one, {h})
      BY <1>1, <3>1, OneStep DEF Sound
    <3> HIDE DEF one
    <3>3. h \in Groups
      BY <1>1
    <3>4. Sound(Stop(h), {h}) /\ Stop(h) \in Seq(Plans) /\ (\A g : Lands(Stop(h), g))
          /\ \A g \in {h} : Has(Stop(h), g, {"halted"})
      BY <3>3, StopSound, StopLands
    <3>5. \A g : Lands(Stop(h) \o one, g)
      BY <3>2, <3>4, LandsAfter
    <3> QED
      BY <3>2, <3>4, <3>5, SoundJoin DEF one
  <2>3. (\A h \in gs : Sound(steps[h], {h}) /\ \A g : Lands(steps[h], g))
        /\ DOMAIN steps = gs /\ steps = [h \in gs |-> steps[h]]
    BY <2>2
  <2>4. down \in Seq(Plans) /\ Lacks(down, Landing)
    <3>1. CASE Frees(gs)
      <4>1. "to_unconfigured" \in Names /\ "to_unconfigured" \notin Starters
            /\ "to_unconfigured" \notin Landing
        BY DEF Names, Others, Starters, Landing
      <4>2. down \in Seq(Plans) /\ Uses(down, {"to_unconfigured"})
        BY <3>1, <4>1, OneStep
      <4> QED
        BY <4>1, <4>2 DEF Uses, Lacks
    <3>2. CASE ~Frees(gs)
      BY <3>2 DEF Lacks
    <3> QED
      BY <3>1, <3>2
  <2> HIDE DEF s, steps, down
  <2>5. IsFiniteSet(gs) /\ steps \in [gs -> Seq(Plans)] /\ Each(steps) \in Seq(Plans)
    BY <1>1, <2>3, SoundEach DEF Sound
  <2>6. \A g : Lands(Each(steps), g)
    BY <2>3, <2>5, EachLands
  <2>7. \A g : Lands(down, g)
    BY <2>4, TameLands
  <2> QED
    BY <2>1, <2>4, <2>5, <2>6, <2>7, JoinedPrecedes DEF Lands, s
<1>8. CASE action = "profile"
  <2>1. PICK k \in Groups : gs = {k}
    BY <1>1, <1>8
  <2> DEFINE steps == [h \in {k} |-> Switch(h)]
             more == IF state[k] = "Running" THEN Restart(k) ELSE << >>
  <2>2. s = Each(steps)
    BY <1>8, <2>1 DEF Program, Maintenance
  <2>3. DOMAIN steps = {k} /\ steps[k] = Stop(k) \o more
    BY DEF Switch
  <2>4. more \in Seq(Plans) /\ On(more, {k})
    <3>1. Restart(k) \in Seq(Plans) /\ On(Restart(k), {k})
      BY RestartSound DEF Sound
    <3> QED
      BY <3>1 DEF On
  <2>5. Stop(k) \in Seq(Plans) /\ (\A g : Lands(Stop(k), g)) /\ \A g \in {k} : Has(Stop(k), g,
        {"halted"})
    BY StopSound, StopLands
  <2> HIDE DEF steps, more, s
  <2>6. Stop(k) \o more \in Seq(Plans)
    BY <2>4, <2>5
  <2>7. s = Stop(k) \o more
    BY <2>2, <2>3, <2>6, EachOne
  <2> QED
    BY <2>4, <2>5, <2>7, LandsAfter DEF s
<1>9. CASE action \in Maintenance
  <2> DEFINE steps == [g \in gs |-> Stop(g) \o Maintain(g)]
  <2>1. s = Each(steps)
    BY <1>9 DEF Program, Maintenance
  <2>2. ASSUME NEW h \in gs
        PROVE  Sound(Stop(h) \o Maintain(h), {h}) /\ \A g : Lands(Stop(h) \o Maintain(h), g)
    <3>1. h \in Groups
      BY <1>1
    <3>2. Maintain(h) \in Seq(Plans) /\ On(Maintain(h), {h}) /\ Sound(Stop(h) \o Maintain(h), {h})
      BY <3>1, MaintainBlock, MaintainSound
    <3>3. Stop(h) \in Seq(Plans) /\ (\A g : Lands(Stop(h), g)) /\ \A g \in {h} : Has(Stop(h), g,
          {"halted"})
      BY <3>1, StopSound, StopLands
    <3> QED
      BY <3>2, <3>3, LandsAfter
  <2>3. (\A h \in gs : Sound(steps[h], {h}) /\ \A g : Lands(steps[h], g))
        /\ DOMAIN steps = gs /\ steps = [h \in gs |-> steps[h]]
    BY <2>2
  <2> HIDE DEF s, steps
  <2>4. IsFiniteSet(gs) /\ steps \in [gs -> Seq(Plans)]
    BY <1>1, <2>3, SoundEach
  <2> QED
    BY <2>1, <2>3, <2>4, EachLands DEF s
<1> QED
  BY <1>4, <1>5, <1>6, <1>7, <1>8, <1>9 DEF Actions, Maintenance

(* A list without a start keeps the other rule, ...                         *)
LEMMA UnstartedLast ==
  ASSUME NEW s, Lacks(s, Starters)
  PROVE  StartsLast(s)
  BY DEF StartsLast, Lacks

(* ... so does one of starts only,                                          *)
LEMMA StartsOnlyLast ==
  ASSUME NEW s, Uses(s, StartNames)
  PROVE  StartsLast(s)
  BY DEF StartsLast, Uses

(* a list that keeps it after one without a start,                          *)
LEMMA LastJoin ==
  ASSUME NEW a \in Seq(Plans), NEW b \in Seq(Plans), Lacks(a, Starters), StartsLast(b)
  PROVE  StartsLast(a \o b)
<1> DEFINE c == a \o b
<1>1. /\ Len(a) \in Nat /\ Len(b) \in Nat
      /\ \A i \in 1..Len(a) : c[i] = a[i]
      /\ \A i \in 1..Len(b) : c[Len(a) + i] = b[i]
      /\ \A k \in 1..Len(c) : k \in 1..Len(a) \/ \E i \in 1..Len(b) : k = Len(a) + i
  BY JoinedPlans
<1> HIDE DEF c
<1>2. SUFFICES ASSUME NEW i \in 1..Len(c), NEW j \in 1..Len(c), i < j, c[i].do \in Starters
               PROVE  c[j].do \in StartNames
  BY DEF StartsLast, c
<1>3. i \notin 1..Len(a)
  BY <1>1, <1>2 DEF Lacks
<1>4. PICK k \in 1..Len(b) : i = Len(a) + k
  BY <1>1, <1>3
<1>5. PICK l \in 1..Len(b) : j = Len(a) + l
  <2>1. j > Len(a)
    BY <1>1, <1>2, <1>4
  <2>2. j \notin 1..Len(a)
    BY <1>1, <2>1
  <2> QED
    BY <1>1, <2>2
<1>6. k < l
  BY <1>1, <1>2, <1>4, <1>5
<1>7. c[i] = b[k] /\ c[j] = b[l]
  BY <1>1, <1>4, <1>5
<1> QED
  BY <1>2, <1>6, <1>7 DEF StartsLast

(* what is left of a list that keeps it, with others before it,             *)
LEMMA LastRest ==
  ASSUME NEW s \in Seq(Plans), s # << >>, StartsLast(s)
  PROVE  StartsLast(Tail(s)) /\ (s[1].do \in Starters => Uses(Tail(s), StartNames))
<1> DEFINE r == Tail(s)
<1>1. /\ 1 \in 1..Len(s) /\ Len(s) \in Nat /\ Len(r) = Len(s) - 1
      /\ \A i \in 1..Len(r) : i + 1 \in 1..Len(s) /\ r[i] = s[i + 1]
  BY Rest
<1> HIDE DEF r
<1>2. ASSUME NEW i \in 1..Len(r), NEW j \in 1..Len(r), i < j, r[i].do \in Starters
      PROVE  r[j].do \in StartNames
  <2>1. i + 1 < j + 1 /\ i + 1 \in 1..Len(s) /\ j + 1 \in 1..Len(s) /\ s[i + 1].do \in Starters
    BY <1>1, <1>2
  <2> QED
    BY <2>1, <1>1 DEF StartsLast
<1>3. ASSUME s[1].do \in Starters, NEW j \in 1..Len(r)
      PROVE  r[j].do \in StartNames
  <2>1. 1 < j + 1 /\ j + 1 \in 1..Len(s)
    BY <1>1
  <2> QED
    BY <2>1, <1>1, <1>3 DEF StartsLast
<1> QED
  BY <1>2, <1>3 DEF StartsLast, Uses, r

(* (the same, at once)                                                      *)
LEMMA LastAfter ==
  ASSUME NEW s \in Seq(Plans), s # << >>, StartsLast(s), NEW steps \in Seq(Plans), Lacks(steps, Starters)
  PROVE  StartsLast(steps \o Tail(s))
<1>1. StartsLast(Tail(s)) /\ Tail(s) \in Seq(Plans)
  BY LastRest, Rest
<1> QED
  BY <1>1, LastJoin

(* and what is left of it when some steps are dropped.                      *)
LEMMA LastWithout ==
  ASSUME NEW s \in Seq(Plans), StartsLast(s), NEW D
  PROVE  StartsLast(Without(s, D))
<1> DEFINE w == Without(s, D)
<1>1. PICK place \in [1..Len(w) -> 1..Len(s)] :
        /\ \A i \in 1..Len(w) : w[i] = s[place[i]] /\ s[place[i]] \notin D
        /\ \A i, j \in 1..Len(w) : i < j => place[i] < place[j]
  BY WithoutEmbeds
<1> HIDE DEF w
<1>2. SUFFICES ASSUME NEW i \in 1..Len(w), NEW j \in 1..Len(w), i < j, w[i].do \in Starters
               PROVE  w[j].do \in StartNames
  BY DEF StartsLast, w
<1>3. place[i] < place[j] /\ place[i] \in 1..Len(s) /\ place[j] \in 1..Len(s)
      /\ s[place[i]].do \in Starters
  BY <1>1, <1>2
<1>4. s[place[j]].do \in StartNames
  BY <1>3 DEF StartsLast
<1> QED
  BY <1>1, <1>4

(* Every operation starts its groups at last.                               *)
LEMMA ProgramLast ==
  ASSUME NEW action \in Actions, NEW gs \in Scopes(action)
  PROVE  StartsLast(Program(action, gs))
<1>1. gs \in SUBSET Groups /\ Script(Program(action, gs), action, gs)
      /\ (action = "profile" => \E g \in Groups : gs = {g})
  BY ProgramSound
<1>2. CASE action \notin Arming
  <2>1. Lacks(Program(action, gs), Starters)
    BY <1>1, <1>2 DEF Script, Lacks, Rising, Starters
  <2> QED
    BY <2>1, UnstartedLast
<1> DEFINE E == SafeNames \cup ArmNames \cup StopNames
<1>3. E \cap Starters = {} /\ {"rebuild"} \cap Starters = {} /\ StopNames \subseteq E
      /\ SafeNames \cup ArmNames \subseteq E
  BY DEF SafeNames, InitNames, PrepareNames, AcknowledgeNames, ArmNames, StopNames, Starters
<1>4. /\ Enables(gs) \in Seq(Plans) /\ Uses(Enables(gs), SafeNames \cup ArmNames)
      /\ Rearms(gs) \in Seq(Plans) /\ Uses(Rearms(gs), SafeNames \cup ArmNames)
      /\ Stops(gs) \in Seq(Plans) /\ Uses(Stops(gs), StopNames)
  BY <1>1, EnablesSound, RearmsSound, Phase DEF Sound
<1>5. Lacks(Enables(gs), Starters) /\ Lacks(Rearms(gs), Starters) /\ Lacks(Stops(gs), Starters)
  BY <1>3, <1>4, UsesLacks DEF Uses, Lacks
<1> HIDE DEF E
<1>6. CASE action = "enable"
  BY <1>5, <1>6, UnstartedLast DEF Program, Maintenance
<1>7. CASE action = "recover"
  <2>1. Program(action, gs) = Stops(gs) \o Rearms(gs)
    BY <1>7 DEF Program, Maintenance
  <2> QED
    BY <1>4, <1>5, <2>1, UnstartedLast, LastJoin
<1>8. CASE action = "recover_resource"
  <2> DEFINE one == Ones("rebuild", gs)
             a == Stops(gs) \o one
  <2>1. "rebuild" \in Names /\ "rebuild" \notin Followers /\ "rebuild" \notin Starters
    BY DEF Names, Checked, Followers, Starters
  <2>2. one \in Seq(Plans) /\ Uses(one, {"rebuild"})
    BY <1>1, <2>1, OnePhase DEF Sound
  <2>3. Program(action, gs) = a \o Rearms(gs)
    BY <1>8 DEF Program, Maintenance
  <2> HIDE DEF one
  <2>4. a \in Seq(Plans) /\ Lacks(a, Starters)
    <3>1. Lacks(one, Starters)
      BY <1>3, <2>2, UsesLacks
    <3> QED
      BY <3>1, <1>4, <1>5, <2>2, LacksJoin
  <2> HIDE DEF a
  <2> QED
    BY <1>4, <1>5, <2>3, <2>4, UnstartedLast, LastJoin
<1>9. CASE action = "resume"
  <2> DEFINE first == Ones("if_halted", gs)
             second == Ones("unless_armed", gs)
             third == Ones("arm_unless_armed", gs)
             two == first \o second
             before == two \o third
             last == Starts(gs)
  <2>1. {"if_halted", "unless_armed", "arm_unless_armed"} \subseteq Names \ (Followers \cup Starters)
    BY DEF Names, Checked, Followers, Starters
  <2>2. /\ first \in Seq(Plans) /\ Uses(first, {"if_halted"})
        /\ second \in Seq(Plans) /\ Uses(second, {"unless_armed"})
        /\ third \in Seq(Plans) /\ Uses(third, {"arm_unless_armed"})
        /\ last \in Seq(Plans) /\ Uses(last, StartNames)
    BY <1>1, <2>1, OnePhase, Phase DEF Sound
  <2>3. Lacks(first, Starters) /\ Lacks(second, Starters) /\ Lacks(third, Starters)
    BY <2>2 DEF Uses, Lacks, Starters
  <2>4. Program(action, gs) = before \o last
    BY <1>9 DEF Program, Resumes, Maintenance
  <2> HIDE DEF first, second, third, last
  <2>5. two \in Seq(Plans) /\ Lacks(two, Starters)
    BY <2>2, <2>3, LacksJoin
  <2> HIDE DEF two
  <2>6. before \in Seq(Plans) /\ Lacks(before, Starters)
    BY <2>2, <2>3, <2>5, LacksJoin
  <2> HIDE DEF before
  <2> QED
    BY <2>2, <2>4, <2>6, StartsOnlyLast, LastJoin
<1>10. CASE action = "profile"
  <2>1. PICK k \in Groups : gs = {k}
    BY <1>1, <1>10
  <2> DEFINE steps == [h \in {k} |-> Switch(h)]
             more == IF state[k] = "Running" THEN Restart(k) ELSE << >>
  <2>2. Program(action, gs) = Each(steps)
    BY <1>10, <2>1 DEF Program, Maintenance
  <2>3. DOMAIN steps = {k} /\ steps[k] = Stop(k) \o more
    BY DEF Switch
  <2>4. Stop(k) \in Seq(Plans) /\ Lacks(Stop(k), Starters)
    <3>1. StopNames \cap Starters = {}
      BY DEF StopNames, Starters
    <3> QED
      BY <3>1, StopSound, UsesLacks
  <2>5. more \in Seq(Plans) /\ StartsLast(more)
    <3>1. Restart(k) \in Seq(Plans) /\ StartsLast(Restart(k))
      <4> DEFINE one == Steps(<<"switched">>, k)
                 a == one \o InitGroup(k)
                 p == Prepare(k) \o Acknowledge(k)
                 e == p \o Arm(k)
                 b == a \o e
      <4>1. Restart(k) = b \o Start(k)
        BY DEF Restart, Enable
      <4>2. "switched" \in Names /\ "switched" \notin Starters
        BY DEF Names, Checked, Starters
      <4>3. /\ one \in Seq(Plans) /\ Uses(one, {"switched"})
            /\ InitGroup(k) \in Seq(Plans) /\ Uses(InitGroup(k), InitNames)
            /\ Prepare(k) \in Seq(Plans) /\ Uses(Prepare(k), PrepareNames)
            /\ Acknowledge(k) \in Seq(Plans) /\ Uses(Acknowledge(k), AcknowledgeNames)
            /\ Arm(k) \in Seq(Plans) /\ Uses(Arm(k), ArmNames)
            /\ Start(k) \in Seq(Plans) /\ Uses(Start(k), StartNames)
        BY <4>2, OneStep, InitGroupBlock, PrepareBlock, AcknowledgeBlock, ArmBlock, StartBlock
           DEF InitNames, PrepareNames, AcknowledgeNames, ArmNames, StartNames
      <4>4. /\ {"switched"} \cap Starters = {} /\ InitNames \cap Starters = {}
            /\ PrepareNames \cap Starters = {} /\ AcknowledgeNames \cap Starters = {}
            /\ ArmNames \cap Starters = {}
        BY DEF InitNames, PrepareNames, AcknowledgeNames, ArmNames, Starters
      <4> HIDE DEF one
      <4>5. /\ Lacks(one, Starters) /\ Lacks(InitGroup(k), Starters) /\ Lacks(Prepare(k), Starters)
            /\ Lacks(Acknowledge(k), Starters) /\ Lacks(Arm(k), Starters)
        BY <4>3, <4>4, UsesLacks
      <4>6. a \in Seq(Plans) /\ Lacks(a, Starters)
        BY <4>3, <4>5, LacksJoin
      <4>7. p \in Seq(Plans) /\ Lacks(p, Starters)
        BY <4>3, <4>5, LacksJoin
      <4> HIDE DEF a, p
      <4>8. e \in Seq(Plans) /\ Lacks(e, Starters)
        BY <4>3, <4>5, <4>7, LacksJoin
      <4> HIDE DEF e
      <4>9. b \in Seq(Plans) /\ Lacks(b, Starters)
        BY <4>6, <4>8, LacksJoin
      <4> HIDE DEF b
      <4> QED
        BY <4>1, <4>3, <4>9, StartsOnlyLast, LastJoin, JoinedPlans
    <3> QED
      BY <3>1, NothingLands
  <2> HIDE DEF steps, more
  <2>6. Stop(k) \o more \in Seq(Plans) /\ StartsLast(Stop(k) \o more)
    BY <2>4, <2>5, LastJoin, JoinedPlans
  <2> QED
    BY <2>2, <2>3, <2>6, EachOne
<1> QED
  BY <1>2, <1>6, <1>7, <1>8, <1>9, <1>10 DEF Arming

(* What follows an exception keeps both rules: the group is stopped first.  *)
LEMMA AfterLands ==
  ASSUME Threading, NEW t \in Threads, todo[t] # << >>, t # "owner", op[t] \notin Dropping,
         t = "monitor" => op[t] = "converge", StartsLast(todo[t])
  PROVE  LET h == todo[t][1].on
         IN  /\ StartsLast(After(t)) /\ Lands(After(t), h)
             /\ \A g : g # h /\ Lands(todo[t], g) => Lands(After(t), g)
             /\ After(t) # << >> /\ After(t)[1].do = "bump" /\ h \in Groups
<1> DEFINE s == todo[t]
           h == s[1].on
           r == Tail(s)
           w == WithoutGroup(r, h)
           f == StopToFault(h)
<1>1. s \in Seq(Plans) /\ h \in Groups /\ f \in Seq(Plans) /\ w \in Seq(Plans) /\ r \in Seq(Plans)
      /\ After(t) = f \o w
  BY HeadFacts, AfterSuits DEF After
<1>2. f = Stop(h) \o Steps(<<"fault">>, h) /\ Uses(f, FaultNames) /\ On(f, {h})
  BY <1>1, StopToFaultSound DEF StopToFault, Sound
<1>3. w = Without(r, {x \in ToSet(r) : x.on = h})
  BY DEF WithoutGroup
<1>4. StartsLast(w)
  <2>1. StartsLast(r)
    BY <1>1, LastRest
  <2> QED
    BY <2>1, <1>1, <1>3, LastWithout
<1>5. FaultNames \cap Starters = {}
  BY DEF FaultNames, StopNames, Starters
<1>6. Has(f, h, {"halted"}) /\ Lands(f, h)
  <2>1. "fault" \in Names /\ "fault" \notin Starters
    BY DEF Names, Assigned, Starters
  <2>2. Steps(<<"fault">>, h) \in Seq(Plans)
    BY <1>1, <2>1, OneStep
  <2>3. Stop(h) \in Seq(Plans) /\ Lands(Stop(h), h) /\ Has(Stop(h), h, {"halted"})
    BY <1>1, StopLands, StopSound
  <2> QED
    BY <1>2, <2>2, <2>3, JoinedPrecedes, JoinedAll DEF Lands
<1>7. \A g : g # h => Lands(f, g)
  BY <1>2, Idle DEF On, Lands
<1>8. \A g, first, then : g # h /\ Precedes(r, g, first, then) => Precedes(w, g, first, then)
  BY <1>1, RestWithout
<1>9. After(t) # << >> /\ After(t)[1].do = "bump"
  BY <1>1, AfterBegins DEF After
<1>10. ASSUME NEW g, g # h, Lands(s, g)
       PROVE  Lands(After(t), g)
  <2>1. Precedes(r, g, {"halted"}, Landing)
    BY <1>1, <1>10, RestPrecedes DEF Lands
  <2>2. Precedes(w, g, {"halted"}, Landing)
    BY <2>1, <1>8, <1>10
  <2>3. Precedes(f, g, {"halted"}, Landing)
    BY <1>7, <1>10 DEF Lands
  <2> QED
    BY <1>1, <2>2, <2>3, JoinedPrecedes DEF Lands
<1> HIDE DEF f, w, r
<1>11. StartsLast(f \o w)
  BY <1>1, <1>2, <1>4, <1>5, UsesLacks, LastJoin
<1>12. Lands(f \o w, h)
  BY <1>1, <1>6, JoinedPrecedes DEF Lands
<1> QED
  BY <1>1, <1>9, <1>10, <1>11, <1>12

-----------------------------------------------------------------------------
(* A thread that goes on is about to do what it was, and minds the groups.  *)

(* What a thread that goes on is about to do it still is, ...               *)
LEMMA ContinuingComes ==
  ASSUME Threading, NEW t \in Threads, todo[t] # << >>, NEW steps \in Seq(Plans), Continue(t, steps),
         On(steps, {todo[t][1].on}), Lacks(steps, {"switched"}),
         todo[t][1].do \in FaultNames \cup {"switched"} => Uses(steps, StopNames),
         NEW g, ~(todo[t][1].on = g /\ todo[t][1].do \in {"fault", "running"})
  PROVE  (Bad(t, g) => Bad(t, g)') /\ (Coming(t, g) => Coming(t, g)')
<1> DEFINE s == todo[t]
           a == steps \o Tail(s)
<1>1. s \in Seq(Plans) /\ Tail(s) \in Seq(Plans)
  BY HeadFacts
<1>2. op'[t] = op[t] /\ todo'[t] = a /\ held'[t] = held[t] /\ a \in Seq(Plans)
  BY <1>1, JoinedPlans DEF Continue, Threading
<1>3. s = todo[t] /\ s # << >> /\ a = steps \o Tail(s)
  OBVIOUS
<1> HIDE DEF s, a
<1>4. Has(s, g, {"fault"}) => Has(a, g, {"fault"})
  BY <1>1, <1>3, TailHas
<1>5. Has(s, g, {"running"}) => Has(a, g, {"running"})
  BY <1>1, <1>3, TailHas
<1>6. Only(s, g, FaultNames) => Only(a, g, FaultNames)
  <2>1. SUFFICES ASSUME Only(s, g, FaultNames)
                 PROVE  Only(a, g, FaultNames)
    OBVIOUS
  <2>2. Only(Tail(s), g, FaultNames) /\ (s[1].on = g => s[1].do \in FaultNames)
    BY <2>1, <1>1, <1>3, RestAll
  <2>3. Only(steps, g, FaultNames)
    <3>1. CASE s[1].on = g
      <4>1. Uses(steps, StopNames)
        BY <3>1, <2>2, <1>3
      <4> QED
        BY <4>1 DEF Uses, Only, FaultNames
    <3>2. CASE s[1].on # g
      BY <3>2, <1>3 DEF On, Only
    <3> QED
      BY <3>1, <3>2
  <2> QED
    BY <2>2, <2>3, <1>1, <1>3, JoinedAll
<1>7. Lacks(s, {"switched"}) => Lacks(a, {"switched"})
  <2>1. SUFFICES ASSUME Lacks(s, {"switched"})
                 PROVE  Lacks(a, {"switched"})
    OBVIOUS
  <2>2. Lacks(Tail(s), {"switched"})
    BY <2>1, <1>1, <1>3, RestAll
  <2> QED
    BY <2>2, <1>1, <1>3, JoinedAll
<1>8. Bad(t, g) => Bad(t, g)'
  BY <1>2, <1>3, <1>4, <1>6 DEF Bad
<1>9. Begun(t, g) => Begun(t, g)'
  BY <1>2, <1>3, <1>5, <1>7 DEF Begun
<1>10. Converging(t, g) => Converging(t, g)'
  BY <1>2, <1>3, <1>4 DEF Converging
<1> QED
  BY <1>8, <1>9, <1>10 DEF Coming

(* ... and one that gives up.                                               *)
LEMMA RaisingComes ==
  ASSUME Safety, NEW t \in Threads, todo[t] # << >>, Raise(t),
         NEW g \in Groups, ~(todo[t][1].on = g /\ todo[t][1].do \in FaultNames)
  PROVE  (Bad(t, g) => Bad(t, g)') /\ (Coming(t, g) => Coming(t, g)')
<1> DEFINE s == todo[t]
<1>1. Threading /\ s \in Seq(Plans) /\ op \in [Threads -> Ops] /\ held \in [Threads -> SUBSET Groups]
      /\ todo \in [Threads -> Seq(Plans)] /\ s # << >> /\ 1 \in 1..Len(s)
  BY HeadFacts DEF Safety, Typing, Threaded, Threading
<1>2. CASE op[t] = "monitor"
  <2>1. t = "monitor" /\ t \notin Workers
    BY <1>2, Raised, <1>1, Apiece
  <2> QED
    BY <2>1, <1>2 DEF Coming, Bad, Begun, Converging
<1>3. CASE op[t] # "monitor"
  <2>1. /\ op'[t] = op[t] /\ held'[t] = held[t]
        /\ \/ Cancels(t)
           \/ t \in Workers /\ op[t] \in Maintenance
           \/ /\ t # "owner" /\ op[t] \notin Dropping /\ ~Cancels(t)
              /\ t = "monitor" => op[t] = "converge"
              /\ todo'[t] = After(t)
    BY <1>1, <1>3, Raised
  <2>2. ~(Bad(t, g) /\ s[1].on = g)
    BY <1>1 DEF Bad, Only
  <2>3. t \in Workers /\ op[t] = "profile" /\ g \in held[t] => s[1].on = g /\ held[t] = {g}
        /\ On(s, {g})
    <3>1. SUFFICES ASSUME t \in Workers, op[t] = "profile", g \in held[t]
                   PROVE  s[1].on = g /\ held[t] = {g} /\ On(s, {g})
      OBVIOUS
    <3>2. held[t] = {g}
      BY <3>1 DEF Safety, Rules, Rule, RuleP
    <3>3. Script(s, "profile", held[t])
      BY <3>1, <1>1 DEF Threading, Fits, Suits
    <3> QED
      BY <3>2, <3>3, <1>1 DEF Script, On
  <2>4. CASE Cancels(t)
    <3>1. CASE op[t] \in {"shutdown", "owner"}
      <4>1. op[t] \in Dropping \/ t \notin Workers
        BY <3>1, <1>1 DEF Dropping, Threading, Fits, Role, Actions
      <4> QED
        BY <3>1, <4>1 DEF Coming, Bad, Begun, Converging, Arming, Dropping
    <3>2. CASE op[t] = "profile" /\ At(t, {"halted"})
      <4>1. SUFFICES ASSUME Coming(t, g)
                     PROVE  FALSE
        BY DEF Coming
      <4>2. t \in Workers /\ g \in held[t]
        BY <4>1, <3>2 DEF Coming, Bad, Begun, Converging
      <4>3. s[1].on = g /\ s[1].do = "halted"
        BY <4>2, <3>2, <2>3, <1>1, HeadFacts DEF At
      <4> QED
        BY <4>3 DEF FaultNames, StopNames
    <3>3. CASE op[t] = "profile" /\ "switched" \in StepsLeft(t)
      <4>1. PICK k \in 1..Len(s) : s[k].do = "switched"
        BY <3>3 DEF StepsLeft
      <4>2. SUFFICES ASSUME Coming(t, g)
                     PROVE  FALSE
        BY DEF Coming
      <4>3. t \in Workers /\ g \in held[t]
        BY <4>2, <3>3 DEF Coming, Bad, Begun, Converging
      <4>4. s[k].on = g
        BY <4>1, <4>3, <3>3, <2>3 DEF On
      <4>5. ~Bad(t, g)
        BY <4>1, <4>4 DEF Bad, Only, FaultNames, StopNames
      <4>6. ~Begun(t, g)
        BY <4>1, <3>3 DEF Begun, Lacks
      <4> QED
        BY <4>2, <4>5, <4>6, <3>3 DEF Coming, Converging
    <3> QED
      BY <2>4, <3>1, <3>2, <3>3 DEF Cancels
  <2>5. CASE t \in Workers /\ op[t] \in Maintenance
    <3>1. op[t] \in Dropping /\ op[t] \notin Arming /\ op[t] # "converge"
      BY <2>5 DEF Dropping, Arming, Maintenance
    <3> QED
      BY <3>1 DEF Coming, Bad, Begun, Converging
  <2>6. CASE /\ t # "owner" /\ op[t] \notin Dropping /\ ~Cancels(t)
             /\ t = "monitor" => op[t] = "converge"
             /\ todo'[t] = After(t)
    <3> DEFINE a == After(t)
               h == s[1].on
    <3>1. /\ Only(a, h, FaultNames) /\ Has(a, h, {"fault"})
          /\ \A i, names : i # h /\ Has(s, i, names) => Has(a, i, names)
          /\ \A i, names : i # h /\ Only(s, i, names) => Only(a, i, names)
          /\ Lacks(s, {"switched"}) => Lacks(a, {"switched"})
      BY <1>1, <2>6, AfterFaults
    <3>2. s = todo[t] /\ a = todo'[t]
      BY <2>6
    <3> HIDE DEF s, a, h
    <3>3. CASE g = h
      <4>1. t \in Workers /\ g \in held[t] => Bad(t, g)'
        BY <2>1, <2>6, <3>1, <3>2, <3>3 DEF Bad
      <4>2. Converging(t, g) => Converging(t, g)'
        BY <2>1, <3>1, <3>2, <3>3 DEF Converging
      <4> QED
        BY <4>1, <4>2 DEF Coming, Bad, Begun
    <3>4. CASE g # h
      <4>1. Bad(t, g) => Bad(t, g)'
        BY <2>1, <3>1, <3>2, <3>4 DEF Bad
      <4>2. Begun(t, g) => Begun(t, g)'
        BY <2>1, <3>1, <3>2, <3>4 DEF Begun
      <4>3. Converging(t, g) => Converging(t, g)'
        BY <2>1, <3>1, <3>2, <3>4 DEF Converging
      <4> QED
        BY <4>1, <4>2, <4>3 DEF Coming
    <3> QED
      BY <3>3, <3>4
  <2> QED
    BY <2>1, <2>4, <2>5, <2>6
<1> QED
  BY <1>2, <1>3

(* A list for one group keeps the rule for the others.                      *)
LEMMA ElsewhereLands ==
  ASSUME NEW s, NEW h, On(s, {h})
  PROVE  \A g : g # h => Lands(s, g)
  BY Idle DEF On, Lands

(* At a step before which its group must not move it does not.              *)
LEMMA LandsStill ==
  ASSUME Safety, Tended, NEW t \in Threads, todo[t] # << >>, NEW g \in held[t], todo[t][1].on = g,
         todo[t][1].do \in Landing \cup Reached
  PROVE  Still(g)
<1>1. Minds(t, g)
  BY DEF Tended
<1>2. CASE todo[t][1].do \in Reached
  BY <1>1, <1>2 DEF Minds, RuleH
<1>3. CASE todo[t][1].do \in Landing
  <2>1. todo[t] \in Seq(Plans)
    BY HeadFacts DEF Safety, Typing, Threaded
  <2>2. ~Lands(todo[t], g)
    BY <1>3, <2>1, RestPrecedes DEF Lands
  <2> QED
    BY <1>1, <2>2 DEF Minds, RuleF
<1> QED
  BY <1>2, <1>3

(* A group that has stopped, or for which thread t is at work, or that the   *)
(* step leaves as it is                                                     *)
Tends(t, g) ==
  \/ Still(g)'
  \/ g \in held[t] /\ Coming(t, g)'
  \/ /\ Still(g) => Still(g)'
     /\ state[g]' # "Running" => state[g] # "Running" /\ (Coming(t, g) => Coming(t, g)')

(* A step of one thread keeps the rules if its own lists keep them.         *)
LEMMA Tending ==
  ASSUME Safety, Tended, NEW t \in Threads, Alone(t),
         ownerChecked' = ownerChecked \/ \A g \in Groups : Still(g)', TakenOver',
         StartsLast(todo'[t]), \A g \in held'[t] : Minds(t, g)', \A g \in Groups : Tends(t, g)
  PROVE  Tended'
<1>1. \A u \in Threads : StartsLast(todo'[u])
  BY DEF Alone, Tended
<1>2. ASSUME NEW u \in Threads, NEW g \in held'[u]
      PROVE  Minds(u, g)'
  <2>1. CASE u = t
    BY <1>2, <2>1
  <2>2. CASE u # t
    <3>1. held'[u] = held[u] /\ todo'[u] = todo[u] /\ g \in held[u]
      BY <1>2, <2>2 DEF Alone
    <3>2. g \in Groups /\ g \notin held[t]
      BY <3>1, <2>2 DEF Safety, Typing, Threaded, Threading, Disjoint
    <3>3. (Still(g) => Still(g)') /\ Minds(u, g)
      BY <3>1, <3>2 DEF Tends, Tended
    <3> QED
      BY <3>1, <3>3 DEF Minds, RuleH, RuleF
  <2> QED
    BY <2>1, <2>2
<1>3. ASSUME NEW g \in Groups
      PROVE  Kept(g)'
  <2>1. SUFFICES ASSUME ~Still(g)', ownerChecked', state[g]' # "Running"
                 PROVE  \E u \in Threads : Coming(u, g)'
    BY DEF Kept
  <2>2. CASE g \in held[t] /\ Coming(t, g)'
    BY <2>2
  <2>3. CASE ~Still(g) /\ state[g] # "Running" /\ (Coming(t, g) => Coming(t, g)')
    <3>1. ownerChecked /\ Kept(g)
      BY <2>1 DEF Tended
    <3>2. PICK u \in Threads : Coming(u, g)
      BY <2>3, <3>1 DEF Kept
    <3> QED
      BY <2>3, <3>2, OthersKeep
  <2> QED
    BY <2>1, <2>2, <2>3 DEF Tends
<1> QED
  BY <1>1, <1>2, <1>3 DEF Tended

(* Nothing is left of a takeover.                                           *)
LEMMA NothingTaken == Taking(<< >>)
<1>1. ASSUME NEW s, Len(s) = 0
      PROVE  Taking(s)
  <2>1. Len(s) <= 3 /\ Len(s) # 1 /\ Len(s) # 2 /\ Len(s) # 3
    BY <1>1
  <2> QED
    BY <2>1 DEF Taking
<1>2. Len(<< >>) = 0
  OBVIOUS
<1> QED
  BY <1>1, <1>2

(* The takeover is over while others work.                                  *)
LEMMA TakenKept ==
  ASSUME TakenOver, NEW t \in Threads, t # "owner", Alone(t), ownerChecked \/ op[t] # "",
         ownerChecked' = ownerChecked
  PROVE  TakenOver'
<1>1. ownerChecked /\ todo["owner"] = << >> /\ ownerChecked' /\ todo'["owner"] = << >>
  BY DEF TakenOver, Alone, Threads
<1> QED
  BY <1>1, NothingTaken DEF TakenOver

(* A thread that goes on minds the groups it holds.                         *)
LEMMA MindsOn ==
  ASSUME Safety, Tended, NEW t \in Threads, todo[t] # << >>, NEW steps \in Seq(Plans),
         Continue(t, steps), On(steps, {todo[t][1].on}),
         todo[t][1].do \notin {"halt", "list", "release"} => Fresh(steps), NEW g \in held[t],
         Still(g) => Still(g)', Lands(steps, g), ~(todo[t][1].on = g /\ todo[t][1].do = "halt")
  PROVE  Minds(t, g)'
<1> DEFINE s == todo[t]
           a == steps \o Tail(s)
<1>1. s \in Seq(Plans) /\ Tail(s) \in Seq(Plans) /\ Chained(s) /\ todo'[t] = a
  BY HeadFacts DEF Continue, Safety, Typing, Threaded, Threading
<1>2. Minds(t, g)
  BY DEF Tended
<1>3. SUFFICES ASSUME ~Still(g)'
               PROVE  Minds(t, g)'
  BY DEF Minds, RuleH, RuleF
<1>4. ~Still(g) /\ Lands(s, g) /\ ~(s[1].on = g /\ s[1].do \in Reached)
  BY <1>2, <1>3 DEF Minds, RuleH, RuleF
<1>5. Lands(a, g)
  BY <1>1, <1>4, InsertPrecedes DEF Lands, Reached
<1>6. ASSUME a # << >>, a[1].on = g
      PROVE  a[1].do \notin Reached
  <2>1. CASE s[1].do \notin {"halt", "list", "release"}
    BY <1>1, <1>6, <2>1, CalmNext
  <2>2. CASE s[1].do \in {"halt", "list", "release"}
    <3>1. s[1].on # g
      BY <1>4, <2>2 DEF Reached
    <3>2. CASE steps = << >>
      <4>1. a = Tail(s) /\ Tail(s) # << >> /\ Len(Tail(s)) > 0
        BY <1>1, <1>6, <3>2
      <4>2. Leads(s[1], Tail(s)[1])
        BY <1>1, <4>1, RestChain
      <4> QED
        BY <1>6, <3>1, <4>1, <4>2 DEF Leads, Reached, Followers
    <3>3. CASE steps # << >>
      <4>1. a[1] = steps[1] /\ 1 \in 1..Len(steps)
        BY <1>1, <3>3
      <4> QED
        BY <1>6, <3>1, <4>1 DEF On
    <3> QED
      BY <3>2, <3>3
  <2> QED
    BY <2>1, <2>2
<1> HIDE DEF a, s
<1> QED
  BY <1>1, <1>5, <1>6 DEF Minds, RuleH, RuleF

(* A thread with nothing left has nothing to mind, ...                      *)
LEMMA NothingMinds ==
  ASSUME NEW t, todo'[t] = << >>, NEW g
  PROVE  Minds(t, g)' /\ StartsLast(todo'[t])
<1>1. Lands(todo'[t], g) /\ StartsLast(todo'[t])
  BY NothingLands
<1> QED
  BY <1>1 DEF Minds, RuleH, RuleF

(* ... nor has the takeover.                                                *)
LEMMA OwnerMinds ==
  ASSUME Typing'
  PROVE  StartsLast(todo'["owner"]) /\ \A g \in held'["owner"] : Minds("owner", g)'
<1>1. Takes(todo'["owner"]) /\ held'["owner"] \subseteq Groups
  BY DEF Typing, Threaded, Threading, Fits, Suits, Threads
<1> DEFINE s == todo'["owner"]
<1>2. Lacks(s, Starters)
  <2>1. OwnerNames \cap Starters = {}
    BY DEF OwnerNames, Starters
  <2> QED
    BY <1>1, <2>1, UsesLacks DEF Takes
<1>3. ASSUME NEW g \in held'["owner"]
      PROVE  Minds("owner", g)'
  <2>1. g # "all" /\ s \in Seq(Plans) /\ On(s, {"all"})
    BY <1>1, Apiece DEF Takes
  <2> HIDE DEF s
  <2>2. Lands(s, g)
    BY <2>1, ElsewhereLands
  <2>3. s # << >> => s[1].on = "all"
    BY <2>1 DEF On
  <2> QED
    BY <2>1, <2>2, <2>3 DEF Minds, RuleH, RuleF, s
<1> QED
  BY <1>2, <1>3, UnstartedLast

(* One that gives up minds the groups it holds.                             *)
LEMMA MindsRaise ==
  ASSUME Safety, Tended, NEW t \in Threads, todo[t] # << >>, Raise(t), op[t] # "monitor"
  PROVE  /\ StartsLast(todo'[t])
         /\ \A g \in held[t] :
              (Still(g) => Still(g)') \/ (g = todo[t][1].on /\ Bad(t, g)') => Minds(t, g)'
<1> DEFINE s == todo[t]
           h == s[1].on
<1>1. Threading /\ s \in Seq(Plans) /\ todo \in [Threads -> Seq(Plans)] /\ held[t] \in SUBSET Groups
      /\ StartsLast(s)
  BY HeadFacts DEF Safety, Typing, Threaded, Threading, Tended
<1>2. \/ Cancels(t) /\ todo' = [todo EXCEPT ![t] = << >>]
      \/ t \in Workers /\ op[t] \in Maintenance /\ todo' = [todo EXCEPT ![t] = Undoes(t)]
      \/ /\ t # "owner" /\ op[t] \notin Dropping
         /\ t = "monitor" => op[t] = "converge"
         /\ todo' = [todo EXCEPT ![t] = After(t)]
  BY <1>1, Raised
<1>3. CASE todo' = [todo EXCEPT ![t] = << >>]
  BY <1>1, <1>3, NothingMinds
<1>4. CASE t \in Workers /\ op[t] \in Maintenance /\ todo' = [todo EXCEPT ![t] = Undoes(t)]
  <2> DEFINE a == Undoes(t)
  <2>1. h \in Groups
    <3>1. op[t] # "shutdown"
      BY <1>4 DEF Maintenance
    <3> QED
      BY <1>1, <1>4, <3>1, HeadFacts
  <2>2. a = Steps(<<"maintained">>, h) \/ a = Steps(<<"roll_back", "maintained">>, h) \/ a = << >>
    BY DEF Undoes
  <2>3. a # << >> => s[1].do \in Landing
    BY DEF Undoes, Landing
  <2>4. (a # << >> => a[1].do \notin Reached) /\ On(a, {h}) /\ Lacks(a, Starters)
    <3>1. a # << >> => a[1].do \notin Reached
      BY <2>1, <2>2, Undone
    <3>2. /\ On(Steps(<<"maintained">>, h), {h}) /\ Lacks(Steps(<<"maintained">>, h), Starters)
          /\ On(Steps(<<"roll_back", "maintained">>, h), {h})
          /\ Lacks(Steps(<<"roll_back", "maintained">>, h), Starters)
      <4> DEFINE one == <<"maintained">>
                 two == <<"roll_back", "maintained">>
      <4>1. one \in Seq(Names) /\ two \in Seq(Names)
        BY DEF Names, Assigned
      <4>2. (\A i \in 1..Len(one) : one[i] \notin Starters) /\ \A i \in 1..Len(two) : two[i] \notin Starters
        BY DEF Starters
      <4>3. h \in Groups \cup {"all"}
        BY <2>1
      <4> HIDE DEF one, two, h
      <4>4. On(Steps(one, h), {h}) /\ Lacks(Steps(one, h), Starters)
        BY <4>1, <4>2, <4>3, StepsSet
      <4>5. On(Steps(two, h), {h}) /\ Lacks(Steps(two, h), Starters)
        BY <4>1, <4>2, <4>3, StepsSet
      <4> QED
        BY <4>4, <4>5 DEF one, two
    <3>3. On(<< >>, {h}) /\ Lacks(<< >>, Starters)
      BY DEF On, Lacks
    <3> QED
      BY <2>2, <3>1, <3>2, <3>3
  <2>5. todo'[t] = a
    BY <1>1, <1>4
  <2> HIDE DEF a
  <2>6. ASSUME NEW g \in held[t], (Still(g) => Still(g)') \/ (g = h /\ Bad(t, g)')
        PROVE  Minds(t, g)'
    <3>0. Still(g) => Still(g)'
      <4>1. op'[t] = op[t]
        <5>1. op[t] # "monitor"
          BY <1>4 DEF Maintenance
        <5>2. op' = [op EXCEPT ![t] = op[t]] /\ op \in [Threads -> Ops]
          BY <1>1, <5>1, Raised DEF Threading
        <5> QED
          BY <5>2
      <4> QED
        BY <1>4, <2>6, <4>1 DEF Bad, Dropping
    <3>1. CASE a = << >>
      BY <2>5, <3>1, NothingMinds
    <3>2. CASE a # << >> /\ g = h
      <4>1. Still(g)
        BY <1>1, <2>3, <3>2, LandsStill
      <4> QED
        BY <3>0, <4>1 DEF Minds, RuleH, RuleF
    <3>3. CASE a # << >> /\ g # h
      <4>1. Lands(a, g)
        BY <2>4, <3>3, ElsewhereLands
      <4> QED
        BY <2>4, <2>5, <3>3, <4>1 DEF Minds, RuleH, RuleF
    <3> QED
      BY <3>1, <3>2, <3>3
  <2> QED
    BY <2>4, <2>5, <2>6, UnstartedLast
<1>5. CASE /\ t # "owner" /\ op[t] \notin Dropping
           /\ t = "monitor" => op[t] = "converge"
           /\ todo' = [todo EXCEPT ![t] = After(t)]
  <2> DEFINE a == After(t)
  <2>1. /\ StartsLast(a) /\ Lands(a, h)
        /\ \A g : g # h /\ Lands(s, g) => Lands(a, g)
        /\ a # << >> /\ a[1].do = "bump"
    BY <1>1, <1>5, AfterLands
  <2>2. todo'[t] = a
    BY <1>1, <1>5
  <2> HIDE DEF a
  <2>3. ASSUME NEW g \in held[t], (Still(g) => Still(g)') \/ (g = h /\ Bad(t, g)')
        PROVE  Minds(t, g)'
    <3>1. RuleH(t, g)'
      BY <2>1, <2>2 DEF RuleH, Reached
    <3>2. RuleF(t, g)
      BY DEF Tended, Minds
    <3>3. RuleF(t, g)'
      BY <2>1, <2>2, <2>3, <3>2 DEF RuleF
    <3> QED
      BY <3>1, <3>3 DEF Minds
  <2> QED
    BY <2>1, <2>2, <2>3
<1> QED
  BY <1>2, <1>3, <1>4, <1>5

(* A failure that is raised keeps the rules.                                *)
LEMMA RaiseTends ==
  ASSUME Safety, Typing', Tended, NoConverge', NEW t \in Threads, todo[t] # << >>, Raise(t),
         ownerChecked' = ownerChecked,
         \A g \in Groups :
           \/ /\ Still(g) => Still(g)'
              /\ Still(g)' \/ (state[g]' = state[g] /\ ~(todo[t][1].on = g /\ todo[t][1].do \in FaultNames))
           \/ g = todo[t][1].on /\ g \in held[t] /\ Bad(t, g)'
  PROVE  Tended'
<1>1. Threading /\ op \in [Threads -> Ops] /\ held \in [Threads -> SUBSET Groups]
      /\ todo \in [Threads -> Seq(Plans)] /\ errors \in [Threads -> BOOLEAN] /\ op[t] # ""
  BY HeadFacts DEF Safety, Typing, Threaded, Threading
<1>2. op[t] # "monitor"
  <2>1. SUFFICES ASSUME op[t] = "monitor"
                 PROVE  FALSE
    OBVIOUS
  <2>2. t = "monitor" /\ op' = [op EXCEPT ![t] = "converge"]
    BY <1>1, <2>1, Raised
  <2> QED
    BY <1>1, <2>2 DEF NoConverge
<1>3. op'[t] = op[t] /\ held'[t] = held[t] /\ Alone(t)
  <2>1. op' = [op EXCEPT ![t] = op[t]] /\ held' = [held EXCEPT ![t] = held[t]]
    BY <1>1, <1>2, Raised
  <2>2. \A u \in Threads : u # t => todo'[u] = todo[u] /\ errors'[u] = errors[u]
    BY <1>1 DEF Raise
  <2> QED
    BY <1>1, <2>1, <2>2 DEF Alone
<1>4. StartsLast(todo'[t]) /\ \A g \in held'[t] : Minds(t, g)'
  <2>1. \A g \in held[t] : g \in Groups
    BY <1>1
  <2> QED
    BY <1>2, <1>3, <2>1, MindsRaise
<1>5. \A g \in Groups : Tends(t, g)
  BY RaisingComes DEF Tends, Coming
<1>6. TakenOver'
  <2>1. CASE t # "owner"
    BY <1>1, <1>3, <2>1, TakenKept DEF Tended
  <2>2. CASE t = "owner"
    <3>1. op[t] = "owner"
      BY <1>1, <2>2, HeadFacts DEF Role
    <3>2. todo'["owner"] = << >>
      <4>1. todo' = [todo EXCEPT ![t] = << >>]
        BY <1>1, <1>2, <2>2, Raised, Apiece
      <4> QED
        BY <1>1, <2>2, <4>1
    <3>3. ~ownerChecked' => \A u \in Threads : u # "owner" => op'[u] = ""
      BY <1>3, <2>2 DEF Tended, TakenOver, Alone
    <3> QED
      BY <3>2, <3>3, NothingTaken DEF TakenOver
  <2> QED
    BY <2>1, <2>2
<1> QED
  BY <1>3, <1>4, <1>5, <1>6, Tending

(* So does going on, with the step's effect.                                *)
LEMMA ContinueTends ==
  ASSUME Safety, Typing', Tended, NEW t \in Threads, t # "owner", todo[t] # << >>, Alone(t),
         NEW steps \in Seq(Plans), Continue(t, steps), On(steps, {todo[t][1].on}),
         Lacks(steps, {"switched"}), Lacks(steps, Starters),
         todo[t][1].do \in FaultNames \cup {"switched"} => Uses(steps, StopNames),
         todo[t][1].do \notin {"halt", "list", "release"} => Fresh(steps),
         ownerChecked' = ownerChecked,
         \A g \in Groups :
           \/ Still(g)'
           \/ g \in held[t] /\ todo[t][1].do \in Starters /\ Coming(t, g)' /\ steps = << >>
           \/ /\ Still(g) => Still(g)'
              /\ Lands(steps, g)
              /\ ~(todo[t][1].on = g /\ todo[t][1].do = "halt")
              /\ state[g]' # "Running" =>
                   state[g] # "Running" /\ ~(todo[t][1].on = g /\ todo[t][1].do \in {"fault", "running"})
  PROVE  Tended'
<1> DEFINE s == todo[t]
<1>1. Threading /\ s \in Seq(Plans) /\ Tail(s) \in Seq(Plans) /\ Chained(s) /\ op[t] # ""
      /\ todo'[t] = steps \o Tail(s) /\ held'[t] = held[t] /\ held[t] \subseteq Groups
  BY HeadFacts DEF Continue, Safety, Typing, Threaded, Threading
<1>2. TakenOver'
  BY <1>1, TakenKept DEF Tended
<1>3. StartsLast(todo'[t])
  BY <1>1, LastAfter DEF Tended
<1>4. ASSUME NEW g \in held'[t]
      PROVE  Minds(t, g)'
  <2>1. g \in held[t] /\ g \in Groups
    BY <1>1, <1>4
  <2>2. CASE Still(g)'
    BY <2>2 DEF Minds, RuleH, RuleF
  <2>3. CASE s[1].do \in Starters /\ steps = << >>
    <3>1. todo'[t] = Tail(s)
      BY <1>1, <2>3, JoinEmpty
    <3>2. Uses(Tail(s), StartNames)
      BY <1>1, <2>3, LastRest DEF Tended
    <3>3. Lands(Tail(s), g) /\ Lacks(Tail(s), Reached)
      <4>1. StartNames \cap Landing = {} /\ StartNames \cap Reached = {}
        BY DEF StartNames, Landing, Reached
      <4> QED
        BY <3>2, <4>1, UsesLacks, TameLands
    <3>4. Tail(s) # << >> => Tail(s)[1].do \notin Reached
      BY <1>1, <3>3, RestAll
    <3> QED
      BY <3>1, <3>3, <3>4 DEF Minds, RuleH, RuleF
  <2>4. CASE /\ Still(g) => Still(g)'
             /\ Lands(steps, g)
             /\ ~(todo[t][1].on = g /\ todo[t][1].do = "halt")
    BY <2>1, <2>4, MindsOn
  <2> QED
    BY <2>1, <2>2, <2>3, <2>4
<1>5. ASSUME NEW g \in Groups
      PROVE  Tends(t, g)
  <2>1. CASE /\ Still(g) => Still(g)'
             /\ state[g]' # "Running" =>
                  state[g] # "Running" /\ ~(s[1].on = g /\ s[1].do \in {"fault", "running"})
    <3>1. state[g]' # "Running" => (Coming(t, g) => Coming(t, g)')
      BY <1>1, <2>1, ContinuingComes
    <3> QED
      BY <2>1, <3>1 DEF Tends
  <2> QED
    BY <2>1 DEF Tends
<1> QED
  BY <1>2, <1>3, <1>4, <1>5, Tending

-----------------------------------------------------------------------------
(* The steps of the robot, the environment and the monitor keep the rules.  *)

(* A late call leaves every group alone, or stops it.                       *)
LEMMA LateSpares ==
  ASSUME Safety, Typing', NEW c \in pending, TakesEffect(c)
  PROVE  /\ Calls' /\ UNCHANGED <<ownerVars, threadVars, journalVars>>
         /\ \A g \in Groups : Spares(g) /\ state[g]' = state[g]
<1>1. RobotTypes /\ Proper(c) /\ Calls
  BY DEF Safety, Typing, PendingTypes
<1>2. pending' \subseteq pending /\ pending' = pending \ {c} /\ Calls'
  BY <1>1, CallsFewer DEF TakesEffect
<1>3. UNCHANGED <<ownerVars, threadVars, journalVars>>
  BY DEF TakesEffect
<1>4. \A g \in Groups : state[g]' = state[g] /\ (Resolved(g) => Resolved(g)')
  BY <1>3 DEF ownerVars, threadVars, journalVars, Resolved
<1>5. ASSUME NEW g \in Groups
      PROVE  Spares(g)
  <2>1. CASE ~Possible(c)
    <3>1. UNCHANGED robotVars
      BY <2>1 DEF TakesEffect
    <3> QED
      BY <3>1, <1>2, <1>4, Sparing DEF robotVars
  <2>2. CASE Possible(c) /\ (c.do \notin Critical \/ c.on # g)
    <3>1. Effect(c)
      BY <2>2 DEF TakesEffect
    <3> QED
      BY <3>1, <2>2, <1>1, <1>2, <1>4, EffectLeaves, Sparing
  <2>3. CASE Possible(c) /\ c.do \in Critical /\ c.on = g
    <3>1. Effect(c) /\ ~ClosesAll(c)
      BY <2>3 DEF TakesEffect, ClosesAll, Critical, Lifecycle
    <3>2. NoCalls(g)' /\ NoRise(g)'
      <4>1. \A d \in pending' : d.on = g => d.do \notin Critical
        BY <1>1, <1>2, <2>3 DEF Calls
      <4> QED
        BY <4>1 DEF NoCalls, NoRise, Critical, Starters
    <3>3. CASE c.do = "arm"
      <4>1. phase' = [phase EXCEPT ![g] = "armed"] /\ active' = active
        BY <3>1, <3>3, <2>3 DEF Effect
      <4>2. phase'[g] = "armed"
        BY <4>1, <1>1 DEF RobotTypes
      <4>3. Still(g)'
        BY <3>2, <4>2 DEF Still
      <4> QED
        BY <1>4, <3>2, <4>1, <4>3 DEF Spares, Quiet
    <3>4. CASE c.do \in Starters
      <4>1. phase[g] = "armed"
        BY <2>3, <3>4 DEF Possible, Starters
      <4>2. ~Still(g)
        BY <4>1, <2>3, <3>4 DEF Still, NoRise
      <4> QED
        BY <1>4, <3>2, <4>2 DEF Spares, Quiet
    <3> QED
      BY <2>3, <3>3, <3>4 DEF Critical, Starters
  <2> QED
    BY <2>1, <2>2, <2>3
<1> QED
  BY <1>2, <1>3, <1>4, <1>5

(* So does the end of a session or of a controller.                         *)
LEMMA RobotSpares ==
  ASSUME Safety, NEW g \in Groups, SessionEnds(g) \/ ControllersStop(g)
  PROVE  /\ Calls' /\ UNCHANGED <<ownerVars, threadVars, journalVars>>
         /\ \A h \in Groups : Spares(h) /\ state[h]' = state[h]
<1>1. RobotTypes /\ Calls
  BY DEF Safety, Typing
<1>2. UNCHANGED <<ownerVars, threadVars, journalVars, pending>>
  BY DEF SessionEnds, ControllersStop, rest
<1>3. Calls'
  BY <1>1, <1>2, CallsFewer
<1>4. \A h \in Groups : state[h]' = state[h] /\ (Resolved(h) => Resolved(h)')
  BY <1>2 DEF ownerVars, threadVars, journalVars, Resolved
<1>5. ASSUME NEW h \in Groups
      PROVE  (phase'[h] = phase[h] \/ phase'[h] = "closed") /\ (h \in active' => h \in active)
  BY <1>1 DEF SessionEnds, ControllersStop, RobotTypes
<1>6. \A h \in Groups : Spares(h)
  BY <1>2, <1>4, <1>5, Sparing
<1> QED
  BY <1>2, <1>3, <1>4, <1>6

(* What no thread does keeps the rules if no group begins to move.          *)
LEMMA TendsRobot ==
  ASSUME Safety, Typing', Tended, UNCHANGED <<ownerVars, threadVars>>,
         \A g \in Groups : Still(g) => Still(g)'
  PROVE  Tended'
<1>1. Alone("owner") /\ ownerChecked' = ownerChecked /\ state' = state /\ op' = op /\ todo' = todo
      /\ "owner" \in Threads /\ "owner" \notin Workers
  BY Apiece DEF Alone, ownerVars, threadVars, Threads
<1>2. TakenOver'
  BY <1>1 DEF Tended, TakenOver
<1>3. \A g \in Groups : Tends("owner", g)
  BY <1>1 DEF Tends, Coming, Bad, Begun, Converging
<1> QED
  BY <1>1, <1>2, <1>3, OwnerMinds, Tending

(* Every step keeps the rules: a late call, ...                             *)
LEMMA TendsTakesEffect ==
  ASSUME Safety, Typing', Tended, NEW c \in pending, TakesEffect(c)
  PROVE  Tended'
<1>1. UNCHANGED <<ownerVars, threadVars>> /\ \A g \in Groups : Spares(g)
  BY LateSpares
<1> QED
  BY <1>1, TendsRobot DEF Spares

(* ... a session or a controller that ends, or nothing at all, ...          *)
LEMMA TendsEnvironment ==
  ASSUME Safety, Typing', Tended,
         (\E g \in Groups : SessionEnds(g) \/ ControllersStop(g)) \/ UNCHANGED vars
  PROVE  Tended'
<1>1. CASE \E g \in Groups : SessionEnds(g) \/ ControllersStop(g)
  <2>1. UNCHANGED <<ownerVars, threadVars>> /\ \A g \in Groups : Spares(g)
    BY <1>1, RobotSpares
  <2> QED
    BY <2>1, TendsRobot DEF Spares
<1>2. CASE UNCHANGED vars
  <2>1. UNCHANGED <<ownerVars, threadVars>> /\ phase' = phase /\ pending' = pending
    BY <1>2 DEF vars, robotVars, rest
  <2>2. \A g \in Groups : Still(g) => Still(g)'
    BY <2>1 DEF Still, NoRise
  <2> QED
    BY <2>1, <2>2, TendsRobot
<1> QED
  BY <1>1, <1>2

(* ... a crash, ...                                                         *)
LEMMA TendsCrash ==
  ASSUME Crash
  PROVE  Tended'
<1>1. /\ ownerChecked' = FALSE /\ op' = [t \in Threads |-> ""] /\ todo' = [t \in Threads |-> << >>]
      /\ held' = [t \in Threads |-> {}] /\ "owner" \in Threads
  BY DEF Crash, Threads
<1>2. (\A t \in Threads : StartsLast(todo'[t])) /\ Taking(todo'["owner"]) /\ todo'["owner"] = << >>
  BY <1>1, NothingLands, NothingTaken
<1> QED
  BY <1>1, <1>2 DEF Tended, Kept, TakenOver

(* ... the monitor's beginning ...                                          *)
LEMMA TendsMonitorBegins ==
  ASSUME Safety, Typing', Tended, MonitorBegins
  PROVE  Tended'
<1>1. Threading /\ "monitor" \in Threads /\ "monitor" # "owner"
  BY DEF Safety, Typing, Threaded, Threads
<1> DEFINE s == Steps(Rounds, "all")
<1>2. /\ Alone("monitor") /\ ownerChecked /\ ownerChecked' = ownerChecked /\ op["monitor"] = ""
      /\ held' = held /\ todo'["monitor"] = s /\ UNCHANGED <<ownerVars, robotVars, rest>>
  BY <1>1 DEF MonitorBegins, Threading, Alone, ownerVars
<1>3. Rounds \in Seq(Names) /\ \A i \in 1..Len(Rounds) : Rounds[i] \notin Starters
  BY DEF Names, Others, Reads, Rounds, Starters
<1>4. Lacks(s, Starters) /\ On(s, {"all"})
  BY <1>3, StepsSet
<1> HIDE DEF s
<1>5. ASSUME NEW g \in held'["monitor"]
      PROVE  Minds("monitor", g)'
  <2>1. g \in Groups /\ g # "all"
    BY <1>1, <1>2, <1>5, Apiece DEF Threading
  <2>2. Lands(s, g)
    BY <1>4, <2>1, ElsewhereLands
  <2>3. s \in Seq(Plans)
    BY <1>1, <1>2 DEF Typing, Threaded, Threading
  <2>4. s # << >> => s[1].on = "all"
    BY <1>4, <2>3 DEF On
  <2> QED
    BY <1>2, <2>1, <2>2, <2>4 DEF Minds, RuleH, RuleF
<1>6. \A g \in Groups : Tends("monitor", g)
  <2>1. ~\E g : Coming("monitor", g)
    BY <1>2, Apiece DEF Coming, Bad, Begun, Converging
  <2>2. state' = state /\ \A g \in Groups : Still(g) => Still(g)'
    BY <1>2 DEF ownerVars, robotVars, rest, Still, NoRise
  <2> QED
    BY <2>1, <2>2 DEF Tends
<1>7. TakenOver'
  BY <1>1, <1>2, TakenKept DEF Tended
<1> QED
  BY <1>1, <1>2, <1>4, <1>5, <1>6, <1>7, UnstartedLast, Tending

(* ... and its decision, ...                                                *)
LEMMA TendsConfirms ==
  ASSUME Safety, Typing', Tended, Confirms
  PROVE  Tended'
<1>1. /\ todo["monitor"] # << >> /\ todo["monitor"][1].do = "confirm"
      /\ GroupOf("monitor") = todo["monitor"][1].on
      /\ op["monitor"] = "monitor" /\ "monitor" \in Threads /\ todo["monitor"] \in Seq(Plans)
      /\ Tail(todo["monitor"]) \in Seq(Plans) /\ Threading
      /\ todo["monitor"][1].on \in Groups
  <2>1. At("monitor", {"confirm"}) /\ {"confirm"} \cap FaultNames = {} /\ "confirm" \notin RoundNames
    BY DEF Confirms, FaultNames, StopNames, RoundNames
  <2>2. Threaded
    BY DEF Safety, Typing
  <2>3. /\ todo["monitor"] # << >> /\ todo["monitor"][1].do = "confirm"
        /\ GroupOf("monitor") = todo["monitor"][1].on
        /\ op["monitor"] = "monitor" /\ "monitor" \in Threads /\ todo["monitor"] \in Seq(Plans)
        /\ Guarded(todo["monitor"], held["monitor"]) /\ Tail(todo["monitor"]) \in Seq(Plans) /\ Threading
    BY <2>1, <2>2, AtLook
  <2>4. todo["monitor"][1].on \in Groups /\ 1 \in 1..Len(todo["monitor"])
    BY <2>1, <2>3, HeadFacts
  <2> QED
    BY <2>3, <2>4
<1> DEFINE g == todo["monitor"][1].on
           r == Tail(todo["monitor"])
           one == Steps(<<"condemned">>, g)
           stop == Stop(g) \o one
<1>2. /\ UNCHANGED <<ownerVars, op, errors, robotVars, rest>>
      /\ \/ todo'["monitor"] = stop \o r /\ held'["monitor"] = {g}
         \/ todo'["monitor"] = << >> \o r /\ held'["monitor"] = {}
      /\ Alone("monitor")
  BY <1>1 DEF Confirms, Threading, Alone
<1>3. one \in Seq(Plans) /\ Lacks(one, Starters)
  <2>1. "condemned" \in Names /\ "condemned" \notin Starters
    BY DEF Names, Others, Starters
  <2>2. one \in Seq(Plans) /\ Uses(one, {"condemned"})
    BY <1>1, <2>1, OneStep
  <2> QED
    BY <2>1, <2>2 DEF Uses, Lacks
<1>4. /\ Stop(g) \in Seq(Plans) /\ Lacks(Stop(g), Starters) /\ Lands(Stop(g), g)
      /\ Has(Stop(g), g, {"halted"})
  <2>1. StopNames \cap Starters = {}
    BY DEF StopNames, Starters
  <2> QED
    BY <1>1, <2>1, StopSound, StopLands, UsesLacks
<1> HIDE DEF one
<1>5. stop \in Seq(Plans) /\ Lacks(stop, Starters) /\ Lands(stop, g) /\ Has(stop, g, {"halted"})
  BY <1>3, <1>4, LacksJoin, JoinedPrecedes, JoinedAll, JoinedPlans DEF Lands
<1>6. Lands(stop \o r, g) /\ StartsLast(stop \o r) /\ StartsLast(r) /\ << >> \o r = r
  <2>1. StartsLast(r)
    BY <1>1, LastRest DEF Tended
  <2>2. Lands(stop \o r, g)
    BY <1>1, <1>5, JoinedPrecedes DEF Lands
  <2> QED
    BY <1>1, <1>5, <2>1, <2>2, LastJoin, JoinEmpty
<1>7. (stop \o r)[1].do = "bump"
  <2>1. Len(Stop(g)) = 4 /\ Stop(g)[1].do = "bump"
    <3>1. Len(Stop(g)) = 4 /\ \A i \in 1..4 : Stop(g)[i].do = <<"bump", "halt", "list", "halted">>[i]
      BY <1>1, StopBlock
    <3> QED
      BY <3>1
  <2>2. stop[1] = Stop(g)[1] /\ 1 \in 1..Len(stop)
    BY <1>3, <1>4, <2>1, JoinedPlans
  <2> HIDE DEF stop, r
  <2>3. (stop \o r)[1] = stop[1]
    BY <1>1, <1>5, <2>2, JoinedPlans DEF r
  <2> QED
    BY <2>1, <2>2, <2>3
<1> HIDE DEF stop, r
<1>8. \A h \in held'["monitor"] : Minds("monitor", h)'
  BY <1>2, <1>6, <1>7 DEF Minds, RuleH, RuleF, Reached
<1>9. \A h \in Groups : Tends("monitor", h)
  <2>1. ~\E h : Coming("monitor", h)
    BY <1>1, Apiece DEF Coming, Bad, Begun, Converging
  <2>2. ~\E h : Coming("monitor", h)'
    BY <1>1, <1>2, Apiece DEF Coming, Bad, Begun, Converging
  <2>3. state' = state /\ \A h \in Groups : Still(h) => Still(h)'
    BY <1>2 DEF ownerVars, robotVars, rest, Still, NoRise
  <2> QED
    BY <2>1, <2>3 DEF Tends
<1>10. TakenOver' /\ ownerChecked' = ownerChecked
  <2>1. ownerChecked' = ownerChecked /\ "monitor" # "owner"
    BY <1>2 DEF ownerVars
  <2> QED
    BY <1>1, <1>2, <2>1, TakenKept DEF Tended
<1>11. StartsLast(todo'["monitor"])
  BY <1>2, <1>6
<1> QED
  BY <1>1, <1>2, <1>8, <1>9, <1>10, <1>11, Tending

(* ... the end of its stop, ...                                             *)
LEMMA TendsCondemns ==
  ASSUME Safety, Typing', Tended, Condemns
  PROVE  Tended'
<1>1. /\ todo["monitor"] # << >> /\ todo["monitor"][1].do = "condemned"
      /\ GroupOf("monitor") = todo["monitor"][1].on
      /\ op["monitor"] = "monitor" /\ "monitor" \in Threads /\ todo["monitor"] \in Seq(Plans)
      /\ Guarded(todo["monitor"], held["monitor"]) /\ 1 \in 1..Len(todo["monitor"])
      /\ Tail(todo["monitor"]) \in Seq(Plans) /\ Threading
      /\ todo["monitor"][1].on \in Groups
  <2>1. At("monitor", {"condemned"}) /\ {"condemned"} \cap FaultNames = {} /\ "condemned" \notin RoundNames
    BY DEF Condemns, FaultNames, StopNames, RoundNames
  <2>2. Threaded
    BY DEF Safety, Typing
  <2>3. /\ todo["monitor"] # << >> /\ todo["monitor"][1].do = "condemned"
        /\ GroupOf("monitor") = todo["monitor"][1].on
        /\ op["monitor"] = "monitor" /\ "monitor" \in Threads /\ todo["monitor"] \in Seq(Plans)
        /\ Guarded(todo["monitor"], held["monitor"]) /\ Tail(todo["monitor"]) \in Seq(Plans) /\ Threading
    BY <2>1, <2>2, AtLook
  <2>4. todo["monitor"][1].on \in Groups /\ 1 \in 1..Len(todo["monitor"])
    BY <2>1, <2>3, HeadFacts
  <2> QED
    BY <2>3, <2>4
<1> DEFINE g == todo["monitor"][1].on
<1>2. held["monitor"] = {g}
  BY <1>1 DEF Guarded, Stopping
<1>3. Still(g)
  BY <1>1, <1>2, LandsStill DEF Landing
<1>4. /\ UNCHANGED <<op, robotVars, rest>> /\ ownerChecked' = ownerChecked
      /\ state' = [state EXCEPT ![g] = "Fault"]
      /\ held'["monitor"] = {} /\ todo'["monitor"] = Tail(todo["monitor"])
      /\ Alone("monitor")
  BY <1>1 DEF Condemns, Threading, Alone
<1>5. \A h \in Groups : Still(h) => Still(h)'
  BY <1>4 DEF robotVars, rest, Still, NoRise
<1>6. \A h \in Groups : Tends("monitor", h)
  <2>1. \A h \in Groups : h # g => state'[h] = state[h]
    BY <1>4 DEF Safety, Typing, OwnerTypes
  <2>2. ~\E h : Coming("monitor", h)
    BY <1>1, Apiece DEF Coming, Bad, Begun, Converging
  <2> QED
    BY <1>3, <1>5, <2>1, <2>2 DEF Tends
<1>7. TakenOver'
  <2>1. "monitor" # "owner"
    OBVIOUS
  <2> QED
    BY <1>1, <1>4, <2>1, TakenKept DEF Tended
<1>8. StartsLast(todo'["monitor"])
  BY <1>1, <1>4, LastRest DEF Tended
<1>9. \A h \in held'["monitor"] : Minds("monitor", h)'
  BY <1>4
<1> QED
  BY <1>1, <1>4, <1>6, <1>7, <1>8, <1>9, Tending

-----------------------------------------------------------------------------
(* So do those that begin and end an operation, ...                         *)

(* A thread with nothing left is about to do nothing.                       *)
LEMMA NothingComes ==
  ASSUME NEW t, todo[t] = << >>
  PROVE  ~\E g : Coming(t, g)
<1> DEFINE a == todo[t]
<1>1. Len(a) = 0
  OBVIOUS
<1> HIDE DEF a
<1>2. \A g, names : ~Has(a, g, names)
  BY <1>1 DEF Has
<1> QED
  BY <1>2 DEF Coming, Bad, Begun, Converging, a

(* ... its looks, ...                                                       *)
LEMMA TendsLooks ==
  ASSUME Safety, Typing', Tended, LocksDirty \/ ReadsStatus \/ ReadsResources \/ Suspects
  PROVE  Tended'
<1>1. Threaded /\ Threading /\ (dirty => journal \in Groups) /\ requested \in SUBSET Groups
  BY DEF Safety, Typing, Threaded, JournalTypes, OwnerTypes
<1>2. PICK s : Continue("monitor", s) /\ Suits("monitor", "monitor", held["monitor"], s)
           /\ Lacks(s, Stopping) /\ Lacks(s, {"fault"})
  BY <1>1, LookingOn
<1>3. UNCHANGED <<ownerVars, errors, robotVars, pending>>
  BY DEF LocksDirty, ReadsStatus, ReadsResources, Suspects, rest
<1> DEFINE Here == {"lock_dirty", "status", "resources", "suspect"}
<1>4. At("monitor", Here) /\ Here \cap FaultNames = {} /\ Here \cap Landing = {}
  BY DEF LocksDirty, ReadsStatus, ReadsResources, Suspects, At, FaultNames, StopNames, Landing
<1> HIDE DEF Here
<1> DEFINE r == Tail(todo["monitor"])
<1>5. /\ todo["monitor"] # << >> /\ op["monitor"] = "monitor" /\ Guarded(todo["monitor"], held["monitor"])
      /\ todo["monitor"] \in Seq(Plans) /\ r \in Seq(Plans)
      /\ todo["monitor"][1].do \notin StopNames /\ "monitor" \in Threads
  BY <1>1, <1>4, AtLook
<1>6. /\ Alone("monitor") /\ todo'["monitor"] = s \o r /\ held'["monitor"] = held["monitor"]
      /\ op'["monitor"] = "monitor" /\ held["monitor"] \subseteq Groups
  BY <1>1, <1>2, <1>3, <1>5 DEF Continue, Alone, Threading
<1>7. s \in Seq(Plans) /\ Uses(s, MonitorNames) /\ Lacks(r, Stopping)
  <2>1. Watch(s, "monitor")
    BY <1>2, Apiece DEF Suits
  <2> QED
    BY <1>5, <2>1, GuardedLacks DEF Watch
<1>8. Lacks(s, Landing) /\ Lacks(s, Starters)
  <2>1. MonitorNames \cap Landing \subseteq Stopping \cup {"fault"} /\ MonitorNames \cap Starters = {}
    BY DEF MonitorNames, Landing, Stopping, StopNames, Starters
  <2> QED
    BY <1>2, <1>7, <2>1 DEF Uses, Lacks
<1>9. StartsLast(todo'["monitor"])
  BY <1>5, <1>6, <1>7, <1>8, LastAfter DEF Tended
<1>10. ASSUME NEW g \in held'["monitor"]
       PROVE  Minds("monitor", g)'
  <2>1. Minds("monitor", g) /\ g \in Groups
    BY <1>5, <1>6, <1>10 DEF Tended
  <2>2. Still(g)' <=> Still(g)
    BY <1>3 DEF robotVars, Still, NoRise
  <2>3. Lands(todo["monitor"], g) => Lands(todo'["monitor"], g)
    <3>1. Lands(s, g)
      BY <1>8, TameLands
    <3>2. todo["monitor"][1].do # "halted"
      BY <1>5 DEF StopNames
    <3> QED
      BY <1>5, <1>6, <1>7, <3>1, <3>2, InsertPrecedes DEF Lands
  <2>4. todo'["monitor"] # << >> => todo'["monitor"][1].do \notin Reached
    <3> DEFINE a == todo'["monitor"]
    <3>1. Lacks(a, Stopping)
      BY <1>2, <1>5, <1>6, <1>7, LacksJoin
    <3>2. a \in Seq(Plans)
      BY <1>5, <1>6, <1>7, JoinedPlans
    <3> HIDE DEF a
    <3>3. a # << >> => a[1].do \notin Stopping
      BY <3>1, <3>2, RestAll
    <3> QED
      BY <3>3 DEF a, Stopping, StopNames, Reached
  <2> QED
    BY <2>1, <2>2, <2>3, <2>4 DEF Minds, RuleH, RuleF
<1>11. \A g \in Groups : Tends("monitor", g)
  <2>1. ~\E g : Coming("monitor", g)
    BY <1>5, Apiece DEF Coming, Bad, Begun, Converging
  <2>2. state' = state /\ \A g \in Groups : Still(g) => Still(g)'
    BY <1>3 DEF ownerVars, robotVars, Still, NoRise
  <2> QED
    BY <2>1, <2>2 DEF Tends
<1>12. TakenOver' /\ ownerChecked' = ownerChecked
  <2>1. ownerChecked' = ownerChecked /\ "monitor" # "owner"
    BY <1>3 DEF ownerVars
  <2> QED
    BY <1>5, <1>6, <2>1, TakenKept DEF Tended
<1> QED
  BY <1>5, <1>6, <1>9, <1>10, <1>11, <1>12, Tending

(* ... an operation's beginning ...                                         *)
LEMMA TendsBegin ==
  ASSUME Safety, Typing', Tended, NoConverge, NEW t \in Workers, NEW action \in asked,
         NEW gs \in Scopes(action), Begin(t, action, gs)
  PROVE  Tended'
<1>1. Threading /\ t \in Threads /\ t # "owner" /\ todo[t] = << >> /\ action \in Actions
      /\ gs \in SUBSET Groups /\ Workloads \subseteq SUBSET Actions
  <2>1. Threading /\ t \in Threads /\ t # "owner" /\ asked \in Workloads
    BY Apiece DEF Safety, Typing, Threaded, Threading, Threads
  <2>2. todo[t] = << >>
    BY <2>1 DEF Begin, Threading, Fits
  <2>3. action \in Actions
    BY <2>1, CoordinatorAssumption
  <2> QED
    BY <2>1, <2>2, <2>3, ScopesOfGroups, CoordinatorAssumption
<1>2. /\ Alone(t) /\ ownerChecked /\ ownerChecked' = ownerChecked
      /\ held'[t] = gs /\ todo'[t] = Program(action, gs)
      /\ UNCHANGED <<state, robotVars, rest>>
  BY <1>1 DEF Begin, Threading, Alone
<1>3. \A g \in Groups : Still(g)' <=> Still(g)
  BY <1>2 DEF robotVars, rest, Still, NoRise
<1>4. TakenOver'
  BY <1>1, <1>2, TakenKept DEF Tended
<1>5. StartsLast(todo'[t])
  BY <1>1, <1>2, ProgramLast
<1>6. ASSUME NEW g \in held'[t]
      PROVE  Minds(t, g)'
  <2>1. g \in gs /\ g \in Groups
    BY <1>1, <1>2, <1>6
  <2>2. todo'[t] # << >> => todo'[t][1].do \notin Reached
    <3> DEFINE a == Program(action, gs)
    <3>1. Fresh(a) /\ a \in Seq(Plans)
      BY <1>1, ProgramSound DEF Script
    <3> HIDE DEF a
    <3>2. a # << >> => Len(a) > 0
      BY <3>1
    <3> QED
      BY <1>2, <3>1, <3>2 DEF Fresh, Reached, Followers, a
  <2>3. CASE action \notin {"init", "enable", "resume"}
    BY <1>1, <1>2, <2>2, <2>3, ProgramLands DEF Minds, RuleH, RuleF
  <2>4. CASE action \in {"init", "enable", "resume"}
    <3>1. state[g] # "Running"
      <4>1. state[g] \in Allowed(action)
        BY <2>1 DEF Begin
      <4> QED
        BY <4>1, <2>4 DEF Allowed
    <3>2. ~\E u \in Threads : Coming(u, g)
      <4>1. \A u \in Threads : g \notin held[u]
        BY <2>1 DEF Begin, Unlocked
      <4> QED
        BY <4>1 DEF Coming, Bad, Begun, Converging, NoConverge
    <3>3. Still(g)
      BY <1>2, <2>1, <3>1, <3>2 DEF Tended, Kept
    <3> QED
      BY <1>3, <2>1, <3>3 DEF Minds, RuleH, RuleF
  <2> QED
    BY <2>3, <2>4
<1>7. \A g \in Groups : Tends(t, g)
  <2>1. ~\E g : Coming(t, g)
    BY <1>1, NothingComes
  <2> QED
    BY <1>2, <1>3, <2>1 DEF Tends
<1> QED
  BY <1>1, <1>2, <1>4, <1>5, <1>6, <1>7, Tending

(* ... and end, ...                                                         *)
LEMMA TendsEnds ==
  ASSUME Safety, Typing', Tended, NEW t \in Threads, Ends(t)
  PROVE  Tended'
<1>1. Threading
  BY DEF Safety, Typing, Threaded
<1>2. /\ Alone(t) /\ ownerChecked' = ownerChecked /\ op[t] # "" /\ op'[t] = ""
      /\ held'[t] = {} /\ todo'[t] = << >> /\ todo[t] = << >> /\ UNCHANGED <<ownerVars, robotVars, rest>>
  BY <1>1 DEF Ends, Threading, Alone, ownerVars
<1>3. TakenOver'
  <2>1. CASE t # "owner"
    BY <1>2, <2>1, TakenKept DEF Tended
  <2>2. CASE t = "owner"
    <3>1. ~ownerChecked' => \A u \in Threads : u # "owner" => op'[u] = ""
      BY <1>2, <2>2 DEF Tended, TakenOver, Alone
    <3> QED
      BY <1>2, <2>2, <3>1, NothingTaken DEF TakenOver
  <2> QED
    BY <2>1, <2>2
<1>4. \A g \in Groups : Tends(t, g)
  <2>1. ~\E g : Coming(t, g)
    BY <1>2, NothingComes
  <2>2. state' = state /\ \A g \in Groups : Still(g) => Still(g)'
    BY <1>2 DEF ownerVars, robotVars, rest, Still, NoRise
  <2> QED
    BY <2>1, <2>2 DEF Tends
<1>5. StartsLast(todo'[t]) /\ \A g \in held'[t] : Minds(t, g)'
  BY <1>2, NothingMinds
<1> QED
  BY <1>2, <1>3, <1>4, <1>5, Tending

-----------------------------------------------------------------------------
(* ... those of the takeover, ...                                           *)

(* (a list without steps)                                                   *)
LEMMA NoSteps ==
  ASSUME NEW x \in Seq(Plans), Len(x) = 0
  PROVE  x = << >>
OBVIOUS

(* Where the takeover is.                                                   *)
LEMMA OwnerHead ==
  ASSUME Threading, Tended, todo["owner"] # << >>
  PROVE  LET s == todo["owner"]
         IN  /\ s \in Seq(Plans) /\ Tail(s) \in Seq(Plans) /\ s[1].do \in OwnerNames
             /\ s[1].do \in {"owner_status", "taken_over"} => Len(s) = 1
             /\ s[1].do \in {"owner_list", "release_owned"} => Len(s) = 2 /\ s[2].do = "taken_over"
             /\ s[1].do = "owner_lost" => Len(s) = 3 /\ s[2].do = "owner_list" /\ s[3].do = "taken_over"
             /\ s[1].do \notin {"owner_status", "owner_lost"} => \A g \in Groups : Still(g)
             /\ ~ownerChecked /\ op["owner"] = "owner"
             /\ \A t \in Threads : t # "owner" => op[t] = ""
<1> DEFINE s == todo["owner"]
<1>1. /\ s \in Seq(Plans) /\ Tail(s) \in Seq(Plans) /\ Len(s) \in Nat /\ Len(s) > 0
      /\ s[1].do \in OwnerNames /\ op["owner"] # "" /\ Role("owner", op["owner"])
  <2>1. "owner" \in Threads
    BY DEF Threads
  <2>2. s \in Seq(Plans) /\ Tail(s) \in Seq(Plans) /\ s[1].do \in OwnerNames /\ op["owner"] # ""
        /\ Role("owner", op["owner"])
    BY <2>1, HeadFacts
  <2> QED
    BY <2>2, Rest
<1>2. TakenOver
  BY DEF Tended
<1>3. Len(s) \in {1, 2, 3} /\ Taking(s)
  <2>1. Taking(s)
    BY <1>2 DEF TakenOver
  <2>2. Len(s) <= 3
    BY <2>1 DEF Taking
  <2>3. \A n \in Nat : n > 0 /\ n <= 3 => n \in {1, 2, 3}
    OBVIOUS
  <2> HIDE DEF s
  <2> QED
    BY <1>1, <2>1, <2>2, <2>3
<1>4. op["owner"] = "owner"
  BY <1>1 DEF Role
<1>5. ~ownerChecked /\ (\A t \in Threads : t # "owner" => op[t] = "")
      /\ (s[1].do \in {"owner_status", "owner_lost"} \/ \A g \in Groups : Still(g))
  BY <1>2 DEF TakenOver
<1> HIDE DEF s
<1>6. /\ s[1].do \in {"owner_status", "taken_over"} => Len(s) = 1
      /\ s[1].do \in {"owner_list", "release_owned"} => Len(s) = 2 /\ s[2].do = "taken_over"
      /\ s[1].do = "owner_lost" => Len(s) = 3 /\ s[2].do = "owner_list" /\ s[3].do = "taken_over"
  BY <1>3 DEF Taking
<1> QED
  BY <1>1, <1>4, <1>5, <1>6 DEF s

(* A step of the takeover keeps the rules if nothing begins to move, and    *)
(* what is left is a takeover's.                                            *)
LEMMA OwnerGoes ==
  ASSUME Safety, Typing', Tended, Alone("owner"), ~ownerChecked, Taking(todo'["owner"]),
         todo["owner"] # << >> \/ op["owner"] = "",
         todo'["owner"] = << >> \/
           (~ownerChecked' /\ (todo'["owner"][1].do = "owner_status" \/ todo'["owner"][1].do = "owner_lost"
                                 \/ \A g \in Groups : Still(g)')),
         ownerChecked' = ownerChecked \/ \A g \in Groups : Still(g)',
         \A g \in Groups : Still(g)' \/ (state[g]' = state[g] /\ (Still(g) => Still(g)'))
  PROVE  Tended'
<1>1. "owner" \in Threads /\ "owner" \notin Workers
  BY Apiece DEF Threads
<1>2. \A g \in Groups : Tends("owner", g)
  BY <1>1 DEF Tends, Coming, Bad, Begun, Converging
<1>3. \A t \in Threads : t # "owner" => op'[t] = ""
  BY DEF Tended, TakenOver, Alone
<1>4. TakenOver'
  BY <1>3 DEF TakenOver
<1> QED
  BY <1>1, <1>2, <1>4, OwnerMinds, Tending

(* The takeover keeps the rules: its beginning, ...                         *)
LEMMA TendsOwnerBegins ==
  ASSUME Safety, Typing', Tended, OwnerBegins
  PROVE  Tended'
<1>1. Threading
  BY DEF Safety, Typing, Threaded
<1>2. /\ Alone("owner") /\ ~ownerChecked /\ op["owner"] = "" /\ state' = state
      /\ ownerChecked' = ownerChecked /\ UNCHANGED <<robotVars, rest>>
  BY <1>1 DEF OwnerBegins, Alone, Threading, ownerVars
<1> DEFINE s == Steps(<<"owner_status">>, "all")
<1>3. todo'["owner"] = s
  BY <1>1 DEF OwnerBegins, Threading, Threads
<1>4. Len(s) = 1 /\ s[1].do = "owner_status"
  BY DEF Steps, Step
<1> HIDE DEF s
<1>5. Taking(s)
  <2>1. Len(s) <= 3 /\ Len(s) # 2 /\ Len(s) # 3
    BY <1>4
  <2> QED
    BY <1>4, <2>1 DEF Taking
<1>6. \A g \in Groups : Still(g) => Still(g)'
  BY <1>2 DEF robotVars, rest, Still, NoRise
<1> QED
  BY <1>2, <1>3, <1>4, <1>5, <1>6, OwnerGoes

(* (two lists of a takeover)                                                *)
LEMMA TakingLists ==
  ASSUME NEW s
  PROVE  /\ Len(s) = 1 /\ s[1].do = "taken_over" => Taking(s)
         /\ Len(s) = 2 /\ s[1].do \in {"owner_list", "release_owned"} /\ s[2].do = "taken_over" => Taking(s)
         /\ Len(s) = 3 /\ s[1].do = "owner_lost" /\ s[2].do = "owner_list" /\ s[3].do = "taken_over" =>
              Taking(s)
<1>1. Len(s) = 1 => Len(s) <= 3 /\ Len(s) # 2 /\ Len(s) # 3
  OBVIOUS
<1>2. Len(s) = 2 => Len(s) <= 3 /\ Len(s) # 1 /\ Len(s) # 3
  OBVIOUS
<1>3. Len(s) = 3 => Len(s) <= 3 /\ Len(s) # 1 /\ Len(s) # 2
  OBVIOUS
<1> QED
  BY <1>1, <1>2, <1>3 DEF Taking

(* ... its reads, ...                                                       *)
LEMMA TendsOwnerReads ==
  ASSUME Safety, Typing', Tended, OwnerReads
  PROVE  Tended'
<1> DEFINE on(do, gs) == [do |-> do, on |-> "all", with |-> gs]
           s == todo["owner"]
           r == Tail(s)
<1>1. Threading /\ "owner" \in Threads /\ RobotTypes
  BY DEF Safety, Typing, Threaded, Threads
<1>2. s # << >> /\ s[1].do \in {"owner_status", "owner_list"}
  <2>1. At("owner", {"owner_status", "owner_list"})
    BY DEF OwnerReads
  <2> QED
    BY <1>1, <2>1, AtHead
<1>3. /\ s \in Seq(Plans) /\ r \in Seq(Plans) /\ ~ownerChecked
      /\ s[1].do = "owner_status" => Len(s) = 1
      /\ s[1].do = "owner_list" => Len(s) = 2 /\ s[2].do = "taken_over" /\ \A g \in Groups : Still(g)
  BY <1>1, <1>2, OwnerHead
<1>4. /\ Alone("owner") /\ state' = state /\ ownerChecked' = ownerChecked
      /\ UNCHANGED <<robotVars, rest>>
  BY <1>1 DEF OwnerReads, Continue, Alone, Threading, ownerVars
<1>5. \A g \in Groups : Still(g)' <=> Still(g)
  BY <1>4 DEF robotVars, rest, Still, NoRise
<1>6. CASE s[1].do = "owner_status"
  <2> DEFINE taken == on("taken_over", Previous)
             lost == on("owner_lost", {})
             list == on("owner_list", {})
  <2>1. r = << >>
    <3>1. Len(r) = 0
      BY <1>2, <1>3, <1>6, Rest
    <3> QED
      BY <1>3, <3>1, NoSteps
  <2>2. todo'["owner"] = ((IF Previous = {} THEN << >> ELSE <<lost, list>>) \o <<taken>>) \o << >>
    <3>1. ~At("owner", {"owner_list"})
      BY <1>1, <1>6, AtHead
    <3> QED
      BY <1>1, <2>1, <3>1 DEF OwnerReads, Continue, Threading
  <2>3. CASE Previous = {}
    <3>1. todo'["owner"] = <<taken>>
      <4>1. (<< >> \o <<taken>>) \o << >> = <<taken>>
        OBVIOUS
      <4> QED
        BY <2>2, <2>3, <4>1
    <3>2. Taking(<<taken>>)
      <4> DEFINE x == <<taken>>
      <4>1. Len(x) = 1 /\ x[1].do = "taken_over"
        OBVIOUS
      <4> HIDE DEF x
      <4>2. Taking(x)
        BY <4>1, TakingLists
      <4> QED
        BY <4>2 DEF x
    <3>3. \A g \in Groups : Still(g)
      BY <2>3 DEF Previous, Still
    <3> HIDE DEF taken
    <3> QED
      BY <1>2, <1>3, <1>4, <1>5, <3>1, <3>2, <3>3, OwnerGoes
  <2>4. CASE Previous # {}
    <3> DEFINE x == <<lost, list, taken>>
    <3>1. todo'["owner"] = x
      <4>1. (<<lost, list>> \o <<taken>>) = <<lost, list, taken>>
        BY ThreeSteps
      <4>2. <<lost, list, taken>> \o << >> = <<lost, list, taken>>
        OBVIOUS
      <4> QED
        BY <2>2, <2>4, <4>1, <4>2
    <3>2. Len(x) = 3 /\ x[1].do = "owner_lost" /\ x[2].do = "owner_list" /\ x[3].do = "taken_over"
      OBVIOUS
    <3> HIDE DEF x
    <3>3. Taking(x)
      BY <3>2, TakingLists
    <3> QED
      BY <1>2, <1>3, <1>4, <1>5, <3>1, <3>2, <3>3, OwnerGoes
  <2> QED
    BY <2>3, <2>4
<1>7. CASE s[1].do = "owner_list"
  <2>1. PICK x : todo'["owner"] = x \o r /\ (x = << >> \/ x = <<on("release_owned", active)>>)
    <3>1. At("owner", {"owner_list"})
      BY <1>2, <1>7, Head(s) = s[1] DEF At
    <3> QED
      BY <1>1, <3>1 DEF OwnerReads, Continue, Threading
  <2>2. Len(r) = 1 /\ r[1].do = "taken_over"
    BY <1>2, <1>3, <1>7, Rest
  <2>3. Taking(x \o r)
    <3>1. CASE x = << >>
      <4>1. x \o r = r
        BY <1>3, <3>1, JoinEmpty
      <4> QED
        BY <2>2, <4>1, TakingLists
    <3>2. CASE x = <<on("release_owned", active)>>
      <4>1. x \in Seq(Plans)
        BY <1>1, <3>2, OwnerLists DEF RobotTypes
      <4>2. Len(x) = 1 /\ x[1].do = "release_owned"
        BY <3>2
      <4> DEFINE y == x \o r
      <4>3. Len(y) = 2 /\ y[1] = x[1] /\ y[2] = r[1]
        <5>1. 1 \in 1..Len(x) /\ 1 \in 1..Len(r) /\ Len(x) + 1 = 2
          BY <2>2, <4>2
        <5> HIDE DEF r
        <5>2. Len(y) = Len(x) + Len(r)
          BY <1>3, <4>1, JoinedPlans
        <5>3. y[1] = x[1] /\ y[Len(x) + 1] = r[1]
          BY <1>3, <4>1, <5>1, JoinedPlans
        <5> QED
          BY <2>2, <4>2, <5>1, <5>2, <5>3
      <4> HIDE DEF y
      <4>4. Taking(y)
        BY <2>2, <4>2, <4>3, TakingLists
      <4> QED
        BY <4>4 DEF y
    <3> QED
      BY <2>1, <3>1, <3>2
  <2> QED
    BY <1>2, <1>3, <1>4, <1>5, <1>7, <2>1, <2>3, OwnerGoes
<1> QED
  BY <1>2, <1>6, <1>7

(* ... its end, ...                                                         *)
LEMMA TendsTakesOver ==
  ASSUME Safety, Typing', Tended, TakesOver
  PROVE  Tended'
<1> DEFINE s == todo["owner"]
<1>1. Threading /\ "owner" \in Threads
  BY DEF Safety, Typing, Threaded, Threads
<1>2. s # << >> /\ s[1].do = "taken_over"
  <2>1. At("owner", {"taken_over"})
    BY DEF TakesOver
  <2> QED
    BY <1>1, <2>1, AtHead
<1>3. s \in Seq(Plans) /\ Tail(s) \in Seq(Plans) /\ ~ownerChecked /\ Len(s) = 1 /\ \A g \in Groups : Still(g)
  BY <1>1, <1>2, OwnerHead
<1>4. /\ Alone("owner") /\ UNCHANGED <<robotVars, rest>> /\ todo'["owner"] = << >> \o Tail(s)
  BY <1>1 DEF TakesOver, Continue, Alone, Threading
<1>5. todo'["owner"] = << >>
  <2>1. Len(Tail(s)) = 0
    BY <1>2, <1>3, Rest
  <2>2. Tail(s) = << >>
    BY <1>3, <2>1, NoSteps
  <2> QED
    BY <1>4, <2>2
<1>6. \A g \in Groups : Still(g)'
  BY <1>3, <1>4 DEF robotVars, rest, Still, NoRise
<1> QED
  BY <1>2, <1>3, <1>4, <1>5, <1>6, NothingTaken, OwnerGoes

(* ... and its calls.                                                       *)
LEMMA TendsOwnerAnswered ==
  ASSUME Safety, Typing', Tended, Answered("owner")
  PROVE  Tended'
<1> DEFINE s == todo["owner"]
           r == Tail(s)
           c == s[1]
<1>1. Threading /\ "owner" \in Threads /\ RobotTypes
  BY DEF Safety, Typing, Threaded, Threads
<1>2. s # << >> /\ c.do \in Mutations /\ Head(s) = c
  <2>1. At("owner", Mutations)
    BY DEF Answered
  <2> QED
    BY <1>1, <2>1, AtHead
<1>3. /\ s \in Seq(Plans) /\ r \in Seq(Plans) /\ ~ownerChecked /\ c.do \in OwnerNames
      /\ c.do = "release_owned" => Len(s) = 2 /\ s[2].do = "taken_over" /\ \A g \in Groups : Still(g)
      /\ c.do = "owner_lost" => Len(s) = 3 /\ s[2].do = "owner_list" /\ s[3].do = "taken_over"
  BY <1>1, <1>2, OwnerHead
<1>4. c.do \in {"owner_lost", "release_owned"}
  BY <1>2, <1>3 DEF OwnerNames, Mutations, Lifecycle
<1>5. /\ Alone("owner") /\ state' = state /\ ownerChecked' = ownerChecked /\ pending' = pending
      /\ Effect(c) /\ todo'["owner"] = r
  <2>1. todo'["owner"] = << >> \o r
    BY <1>1 DEF Answered, Continue, Threading
  <2> QED
    BY <1>1, <1>2, <1>3, <2>1, JoinEmpty DEF Answered, Continue, Alone, Threading, ownerVars, rest
<1>6. CASE c.do = "owner_lost"
  <2>1. \A g \in Groups : Still(g)'
    BY <1>5, <1>6 DEF Effect, ClosesAll, Still
  <2>2. Len(r) = 2 /\ r[1].do = "owner_list" /\ r[2].do = "taken_over"
    BY <1>2, <1>3, <1>6, Rest
  <2>3. Taking(r)
    BY <2>2, TakingLists
  <2> QED
    BY <1>2, <1>3, <1>5, <2>1, <2>3, OwnerGoes
<1>7. CASE c.do = "release_owned"
  <2>1. \A g \in Groups : Still(g)'
    <3>1. phase' = phase
      BY <1>5, <1>7 DEF Effect, ClosesAll, Lifecycle
    <3> QED
      BY <1>3, <1>5, <1>7, <3>1 DEF Still, NoRise
  <2>2. Len(r) = 1 /\ r[1].do = "taken_over"
    BY <1>2, <1>3, <1>7, Rest
  <2>3. Taking(r)
    BY <2>2, TakingLists
  <2> QED
    BY <1>2, <1>3, <1>5, <2>1, <2>3, OwnerGoes
<1> QED
  BY <1>4, <1>6, <1>7

-----------------------------------------------------------------------------
(* ... and those of a thread.                                               *)

(* A step of a thread that goes on, changes the robot in nothing and no     *)
(* state but that of a group that does not move, or starts, keeps the rules. *)
LEMMA TendsSteps ==
  ASSUME Safety, Typing', Tended, NEW t \in Threads, t # "owner", todo[t] # << >>,
         NEW steps \in Seq(Plans), Continue(t, steps), UNCHANGED <<robotVars, pending, ownerChecked>>,
         \A u \in Threads : u # t => errors'[u] = errors[u],
         On(steps, {todo[t][1].on}), Lacks(steps, {"switched"}), Lacks(steps, Starters),
         todo[t][1].do \in FaultNames \cup {"switched"} => Uses(steps, StopNames),
         todo[t][1].do \notin {"list", "release"} => Fresh(steps), todo[t][1].do # "halt",
         \A g \in Groups :
           \/ Still(g)
           \/ /\ Lands(steps, g)
              /\ state[g]' # "Running" =>
                   state[g] # "Running" /\ ~(todo[t][1].on = g /\ todo[t][1].do \in {"fault", "running"})
  PROVE  Tended'
<1>1. Threading
  BY DEF Safety, Typing, Threaded
<1>2. Alone(t)
  BY <1>1 DEF Alone, Continue, Threading
<1>3. \A g : Still(g)' <=> Still(g)
  BY DEF robotVars, Still, NoRise
<1>4. ~\E g : todo[t][1].on = g /\ todo[t][1].do = "halt"
  OBVIOUS
<1>5. \A g \in Groups :
           \/ Still(g)'
           \/ /\ Still(g) => Still(g)'
              /\ Lands(steps, g)
              /\ ~(todo[t][1].on = g /\ todo[t][1].do = "halt")
              /\ state[g]' # "Running" =>
                   state[g] # "Running" /\ ~(todo[t][1].on = g /\ todo[t][1].do \in {"fault", "running"})
  BY <1>3, <1>4
<1>6. todo[t][1].do \notin {"halt", "list", "release"} => Fresh(steps)
  OBVIOUS
<1> QED
  BY <1>2, <1>5, <1>6, ContinueTends

(* The same where nothing comes before the rest.                            *)
LEMMA TendsOn ==
  ASSUME Safety, Typing', Tended, NEW t \in Threads, t # "owner", todo[t] # << >>,
         Continue(t, << >>), UNCHANGED <<robotVars, pending, ownerChecked>>,
         \A u \in Threads : u # t => errors'[u] = errors[u], todo[t][1].do # "halt",
         \A g \in Groups :
           \/ Still(g)
           \/ state[g]' # "Running" =>
                state[g] # "Running" /\ ~(todo[t][1].on = g /\ todo[t][1].do \in {"fault", "running"})
  PROVE  Tended'
<1> DEFINE e == << >>
<1>1. e \in Seq(Plans) /\ Fresh(e) /\ \A g : Lands(e, g)
  BY FreshNothing, NothingLands
<1>2. On(e, {todo[t][1].on}) /\ Lacks(e, {"switched"}) /\ Lacks(e, Starters) /\ Uses(e, StopNames)
  BY DEF On, Lacks, Uses
<1>3. Continue(t, e)
  OBVIOUS
<1> HIDE DEF e
<1> QED
  BY <1>1, <1>2, <1>3, TendsSteps

(* A failure that changes nothing keeps them.                               *)
LEMMA TendsRaises ==
  ASSUME Safety, Typing', Tended, NoConverge', NEW t \in Threads, todo[t] # << >>, Raise(t),
         UNCHANGED <<state, ownerChecked, robotVars, pending>>, todo[t][1].do \notin FaultNames
  PROVE  Tended'
<1>1. \A g : Still(g)' <=> Still(g)
  BY DEF robotVars, Still, NoRise
<1> QED
  BY <1>1, RaiseTends

(* The one group of a step within a stop is held.                           *)
LEMMA StopHeld ==
  ASSUME Safety, NEW t \in Threads, NoConverge, todo[t] # << >>, todo[t][1].do \in Stopping
  PROVE  t # "owner" /\ todo[t][1].on \in held[t] /\ todo[t][1].on \in Groups
<1> DEFINE h == todo[t][1].on
<1>1. Threading /\ todo[t] \in Seq(Plans) /\ 1 \in 1..Len(todo[t]) /\ held[t] \in SUBSET Groups
  BY HeadFacts DEF Safety, Typing, Threaded
<1>2. t # "owner"
  BY <1>1, HeadFacts DEF OwnerNames, Stopping, StopNames
<1>3. CASE t \in Workers
  BY <1>1, <1>2, <1>3, HeadFacts DEF Teardown, Stopping, StopNames
<1>4. CASE t = "monitor"
  <2>1. op[t] = "monitor"
    BY <1>1, <1>4, HeadFacts DEF Role, NoConverge
  <2>2. Guarded(todo[t], held[t])
    BY <1>1, <1>4, <2>1 DEF Threading, Fits
  <2>3. held[t] = {h}
    BY <1>1, <2>2 DEF Guarded
  <2> QED
    BY <1>1, <1>2, <2>3
<1> QED
  BY <1>2, <1>3, <1>4, <1>1, Apiece

(* A call that is answered ...                                              *)
LEMMA TendsAnswered ==
  ASSUME Safety, Typing', Tended, NEW t \in Threads, Answered(t)
  PROVE  Tended'
<1> DEFINE s == todo[t]
           c == s[1]
<1>1. Threading /\ RobotTypes
  BY DEF Safety, Typing, Threaded
<1>2. At(t, Mutations) /\ s # << >> /\ c.do \in Mutations /\ Head(s) = c
  <2>1. At(t, Mutations)
    BY DEF Answered
  <2> QED
    BY <1>1, <2>1, AtHead
<1>3. Proper(c) /\ s \in Seq(Plans) /\ Chained(s) /\ Tail(s) \in Seq(Plans)
      /\ held[t] \in SUBSET Groups /\ todo \in [Threads -> Seq(Plans)]
  BY <1>1, <1>2, ProperHead, HeadFacts DEF Threading
<1>4. /\ Effect(c) /\ Continue(t, << >>) /\ UNCHANGED <<state, ownerChecked, errors, pending>>
      /\ todo'[t] = Tail(s) /\ op'[t] = op[t] /\ held'[t] = held[t] /\ Alone(t)
  <2>1. Effect(c) /\ Continue(t, << >>) /\ UNCHANGED <<state, ownerChecked, errors, pending>>
    BY <1>2 DEF Answered, ownerVars, rest
  <2>2. todo'[t] = Tail(s) /\ op'[t] = op[t] /\ held'[t] = held[t] /\ Alone(t)
    BY <1>1, <1>3, <2>1, JoinEmpty DEF Continue, Alone, Threading
  <2> QED
    BY <2>1, <2>2
<1>5. SUFFICES ASSUME t # "owner"
               PROVE  Tended'
  BY TendsOwnerAnswered
<1> HIDE DEF c
<1>6. ASSUME NEW g \in Groups, c.do \notin Critical \/ c.on # g
      PROVE  Still(g) => Still(g)'
  <2>1. phase'[g] = phase[g] \/ phase'[g] = "closed"
    BY <1>1, <1>3, <1>4, <1>6, EffectLeaves
  <2> QED
    BY <1>4, <2>1 DEF Still, NoRise
<1>7. ASSUME NEW g \in Groups, c.do \in Critical, c.on = g
      PROVE  Still(g)' \/ (g \in held[t] /\ c.do \in Starters /\ Coming(t, g)')
  <2>1. c.do \in Rising
    BY <1>7 DEF Critical, Rising
  <2>2. /\ t \in Workers /\ op[t] \in Arming /\ g \in held[t] /\ NoCalls(g)
        /\ op[t] = "profile" => Lacks(s, {"switched"})
    BY <1>2, <1>7, <2>1, RisingHead DEF c
  <2>3. CASE c.do = "arm"
    <3>1. phase' = [phase EXCEPT ![g] = "armed"]
      BY <1>4, <1>7, <2>3 DEF Effect, ClosesAll, Lifecycle
    <3>2. phase'[g] = "armed"
      BY <1>1, <3>1 DEF RobotTypes
    <3>3. NoRise(g)'
      BY <1>4, <2>2 DEF NoRise, NoCalls, Starters, Critical
    <3> QED
      BY <3>2, <3>3 DEF Still
  <2>4. CASE c.do \in Starters
    <3>1. Has(Tail(s), g, {"running"})
      BY <1>2, <1>3, <1>7, <2>4, RunningAhead DEF c
    <3>2. op[t] = "profile" => Lacks(Tail(s), {"switched"})
      BY <1>2, <1>3, <2>2, RestAll
    <3>3. Begun(t, g)'
      BY <1>4, <2>2, <3>1, <3>2 DEF Begun
    <3> QED
      BY <2>2, <2>4, <3>3 DEF Coming
  <2> QED
    BY <1>7, <2>3, <2>4 DEF Critical, Starters
<1>8. ASSUME NEW g \in Groups, c.on = g, c.do = "halt"
      PROVE  Still(g)'
  <2>1. phase'[g] = "closed"
    BY <1>1, <1>4, <1>8 DEF Effect, RobotTypes
  <2> QED
    BY <2>1 DEF Still
<1>9. c.do \notin {"fault", "running", "switched"} /\ (c.do \in FaultNames \cup {"switched"} => Uses(<< >>, StopNames))
  BY <1>2 DEF Uses, Mutations, Lifecycle
<1> DEFINE e == << >>
<1>10. /\ e \in Seq(Plans) /\ Fresh(e) /\ \A g : Lands(e, g)
       /\ On(e, {c.on}) /\ Lacks(e, {"switched"}) /\ Lacks(e, Starters) /\ Uses(e, StopNames)
  BY FreshNothing, NothingLands DEF On, Lacks, Uses
<1>11. \A g \in Groups :
           \/ Still(g)'
           \/ g \in held[t] /\ c.do \in Starters /\ Coming(t, g)' /\ e = << >>
           \/ /\ Still(g) => Still(g)'
              /\ Lands(e, g)
              /\ ~(c.on = g /\ c.do = "halt")
              /\ state[g]' # "Running" =>
                   state[g] # "Running" /\ ~(c.on = g /\ c.do \in {"fault", "running"})
  BY <1>4, <1>6, <1>7, <1>8, <1>9, <1>10
<1>12. Continue(t, e) /\ ownerChecked' = ownerChecked
  BY <1>4
<1> HIDE DEF e
<1> QED
  BY <1>2, <1>4, <1>5, <1>10, <1>11, <1>12, ContinueTends DEF c

(* ... or fails, where no halt does, ...                                    *)
LEMMA TendsFails ==
  ASSUME Safety, Typing', Tended, NoConverge', "halt" \notin Unreliable,
         NEW t \in Threads, Refused(t) \/ ReadFails(t)
  PROVE  Tended'
<1>1. Threading
  BY DEF Safety, Typing, Threaded
<1>2. Fail(t) /\ UNCHANGED <<state, ownerChecked, robotVars, pending>> /\ At(t, Mutations \cup Reads)
  <2>1. At(t, Mutations) \/ At(t, Reads \cap Unreliable)
    BY DEF Refused, ReadFails
  <2>2. At(t, Mutations \cup Reads)
    BY <2>1 DEF At
  <2> QED
    BY <2>2 DEF Refused, ReadFails, rest, ownerVars
<1>3. todo[t] # << >> /\ todo[t][1].do \in Mutations \cup Reads /\ Head(todo[t]) = todo[t][1]
  BY <1>1, <1>2, AtHead
<1>4. CASE At(t, {"halt", "list", "release"})
  <2>1. todo[t][1].do \in {"halt", "list", "release"}
    BY <1>1, <1>4, AtHead
  <2>2. todo[t][1].do # "halt"
    <3>1. SUFFICES ASSUME todo[t][1].do = "halt"
                   PROVE  FALSE
      OBVIOUS
    <3>2. Possible(Head(todo[t]))
      BY <1>3, <3>1 DEF Possible
    <3>3. ~At(t, Reads \cap Unreliable)
      BY <1>3, <3>1 DEF At, Reads
    <3> QED
      BY <1>3, <3>1, <3>2, <3>3 DEF Refused, ReadFails
  <2>3. t # "owner"
    BY <1>1, <1>3, <2>1, HeadFacts DEF OwnerNames
  <2>4. Continue(t, << >>) /\ \A u \in Threads : u # t => errors'[u] = errors[u]
    BY <1>1, <1>2, <1>4 DEF Fail, Threading
  <2>5. \A g \in Groups : Still(g) \/
          (state[g]' # "Running" =>
             state[g] # "Running" /\ ~(todo[t][1].on = g /\ todo[t][1].do \in {"fault", "running"}))
    BY <1>2, <2>1
  <2> QED
    BY <1>2, <1>3, <2>2, <2>3, <2>4, <2>5, TendsOn
<1>5. CASE ~At(t, {"halt", "list", "release"})
  <2>1. Raise(t)
    BY <1>2, <1>5 DEF Fail
  <2>2. todo[t][1].do \notin FaultNames
    BY <1>3, <1>5 DEF At, FaultNames, StopNames, Mutations, Reads, Lifecycle
  <2> QED
    BY <1>2, <1>3, <2>1, <2>2, TendsRaises
<1> QED
  BY <1>4, <1>5

(* ... or times out, ...                                                    *)
LEMMA TendsTimesOut ==
  ASSUME Safety, Typing', Tended, NoConverge', "halt" \notin Unreliable,
         NEW t \in Threads, TimesOut(t)
  PROVE  Tended'
<1> DEFINE c == Call(t, TRUE)
           s == todo[t]
<1>1. Threading
  BY DEF Safety, Typing, Threaded
<1>2. /\ Fail(t) /\ UNCHANGED <<state, ownerChecked, robotVars>> /\ At(t, Mutations)
      /\ pending' = pending \cup {c} /\ At(t, Unreliable)
  <2>1. At(t, Mutations \cap Unreliable)
    BY DEF TimesOut
  <2>2. At(t, Mutations) /\ At(t, Unreliable)
    BY <2>1 DEF At
  <2> QED
    BY <2>2 DEF TimesOut, ownerVars
<1>3. s # << >> /\ s[1].do \in Mutations /\ Head(s) = s[1] /\ GroupOf(t) = s[1].on /\ s[1].do # "halt"
  <2>1. s # << >> /\ s[1].do \in Mutations /\ Head(s) = s[1] /\ GroupOf(t) = s[1].on
    BY <1>1, <1>2, AtHead
  <2> QED
    BY <1>2, <2>1 DEF At
<1>4. c.do = s[1].do /\ c.on = s[1].on
  BY <1>3 DEF Call
<1> HIDE DEF c
<1>5. ASSUME NEW g \in Groups, c.do \notin Starters \/ c.on # g
      PROVE  Still(g)' <=> Still(g)
  BY <1>2, <1>5 DEF Still, NoRise, robotVars
<1>6. CASE At(t, {"halt", "list", "release"})
  <2>1. s[1].do = "release"
    BY <1>3, <1>6 DEF At, Mutations, Lifecycle
  <2>2. t # "owner"
    BY <1>1, <1>3, <2>1, HeadFacts DEF OwnerNames
  <2>3. Continue(t, << >>) /\ (\A u \in Threads : u # t => errors'[u] = errors[u])
    BY <1>1, <1>2, <1>6 DEF Fail, Threading
  <2>4. Alone(t)
    BY <1>1, <2>3 DEF Alone, Continue, Threading
  <2>5. \A g \in Groups : Still(g)' <=> Still(g)
    BY <1>4, <1>5, <2>1 DEF Starters
  <2> DEFINE e == << >>
  <2>6. /\ e \in Seq(Plans) /\ Fresh(e) /\ \A g : Lands(e, g)
        /\ On(e, {s[1].on}) /\ Lacks(e, {"switched"}) /\ Lacks(e, Starters) /\ Uses(e, StopNames)
    BY FreshNothing, NothingLands DEF On, Lacks, Uses
  <2>7. \A g \in Groups :
           /\ Still(g) => Still(g)'
           /\ Lands(e, g)
           /\ ~(s[1].on = g /\ s[1].do = "halt")
           /\ state[g]' # "Running" =>
                state[g] # "Running" /\ ~(s[1].on = g /\ s[1].do \in {"fault", "running"})
    BY <1>2, <2>1, <2>5, <2>6
  <2>8. Continue(t, e)
    BY <2>3
  <2> HIDE DEF e
  <2> QED
    BY <1>2, <1>3, <2>2, <2>4, <2>6, <2>7, <2>8, ContinueTends
<1>7. CASE ~At(t, {"halt", "list", "release"})
  <2>1. Raise(t)
    BY <1>2, <1>7 DEF Fail
  <2>2. s[1].do \notin FaultNames
    BY <1>3, <1>7 DEF At, FaultNames, StopNames, Mutations, Lifecycle
  <2>3. ASSUME NEW g \in Groups, c.do \in Starters, c.on = g
        PROVE  g = s[1].on /\ g \in held[t] /\ Bad(t, g)'
    <3>1. s[1].do \in Rising /\ g = s[1].on
      BY <1>4, <2>3 DEF Starters, Rising
    <3>2. t \in Workers /\ op[t] \in Arming /\ g \in held[t]
      BY <1>3, <3>1, RisingHead
    <3> QED
      BY <1>3, <2>1, <3>1, <3>2, RaisingBad
  <2>4. \A g \in Groups :
           \/ /\ Still(g) => Still(g)'
              /\ Still(g)' \/ (state[g]' = state[g] /\ ~(s[1].on = g /\ s[1].do \in FaultNames))
           \/ g = s[1].on /\ g \in held[t] /\ Bad(t, g)'
    BY <1>2, <1>5, <2>2, <2>3
  <2> QED
    BY <1>2, <1>3, <2>1, <2>4, RaiseTends
<1> QED
  BY <1>6, <1>7

(* ... a read, ...                                                          *)
LEMMA TendsReadsRobot ==
  ASSUME Safety, Typing', Tended, NEW t \in Threads, ReadsRobot(t)
  PROVE  Tended'
<1> DEFINE s == todo[t]
           h == s[1].on
           Here == {"list", "lingering", "verify", "ready"}
<1>1. Threading
  BY DEF Safety, Typing, Threaded
<1>2. s # << >> /\ s[1].do \in Here /\ GroupOf(t) = h /\ Head(s) = s[1]
  <2>1. At(t, Here)
    BY DEF ReadsRobot
  <2> HIDE DEF Here
  <2> QED
    BY <1>1, <2>1, AtHead
<1>3. UNCHANGED <<state, ownerChecked, errors, robotVars, pending>>
  BY DEF ReadsRobot, rest, ownerVars
<1>4. /\ \/ Continue(t, << >>)
         \/ Continue(t, Steps(<<"release">>, h)) /\ s[1].do = "list"
         \/ Continue(t, Steps(<<"release_lingering">>, h)) /\ s[1].do # "list"
  BY <1>2 DEF ReadsRobot, At
<1>5. t # "owner" /\ h \in Groups
  <2>1. s[1].do \notin OwnerNames \cup RoundNames \cup Teardown
    BY <1>2 DEF OwnerNames, RoundNames, Teardown
  <2>2. t \in Workers \/ t = "monitor" \/ t = "owner"
    BY Apiece
  <2> QED
    BY <1>1, <1>2, <2>1, <2>2, HeadFacts
<1>6. \A u \in Threads : u # t => errors'[u] = errors[u]
  BY <1>3
<1>7. s[1].do \notin {"fault", "running", "halt", "switched"}
  BY <1>2
<1> HIDE DEF h, s
<1>8. CASE Continue(t, << >>)
  BY <1>2, <1>3, <1>5, <1>6, <1>7, <1>8, TendsOn DEF s
<1>9. CASE Continue(t, Steps(<<"release">>, h)) /\ s[1].do = "list"
  <2> DEFINE steps == Steps(<<"release">>, h)
  <2>1. steps \in Seq(Plans) /\ On(steps, {h}) /\ Uses(steps, {"release"})
    BY <1>5, ReleaseStep
  <2>2. Continue(t, steps)
    BY <1>9
  <2> HIDE DEF steps
  <2>3. Uses(steps, StopNames) /\ Lacks(steps, {"switched"}) /\ Lacks(steps, Starters) /\ Lacks(steps, Landing)
    BY <2>1 DEF Uses, Lacks, StopNames, Starters, Landing
  <2>4. \A g : Lands(steps, g)
    BY <2>3, TameLands
  <2> QED
    BY <1>2, <1>3, <1>5, <1>6, <1>7, <1>9, <2>1, <2>2, <2>3, <2>4, TendsSteps DEF s, h
<1>10. CASE Continue(t, Steps(<<"release_lingering">>, h)) /\ s[1].do # "list"
  <2> DEFINE steps == Steps(<<"release_lingering">>, h)
  <2>1. "release_lingering" \in Names /\ "release_lingering" \notin Starters \cup Followers
    BY DEF Names, Mutations, Starters, Followers
  <2>2. Sound(steps, {h}) /\ Uses(steps, {"release_lingering"}) /\ steps \in Seq(Plans) /\ Fresh(steps)
    BY <1>5, <2>1, OneStep DEF Sound
  <2>3. Continue(t, steps)
    BY <1>10
  <2> HIDE DEF steps
  <2>4. Lacks(steps, {"switched"}) /\ Lacks(steps, Starters) /\ Lacks(steps, Landing)
    BY <2>2 DEF Uses, Lacks, Starters, Landing
  <2>5. s[1].do \notin FaultNames \cup {"switched"}
    BY <1>2, <1>10 DEF FaultNames, StopNames
  <2>6. (\A g : Lands(steps, g)) /\ On(steps, {h})
    BY <2>2, <2>4, TameLands DEF Sound
  <2> QED
    BY <1>2, <1>3, <1>5, <1>6, <1>7, <2>2, <2>3, <2>4, <2>5, <2>6, TendsSteps DEF s, h
<1> QED
  BY <1>4, <1>8, <1>9, <1>10

(* ... a check, ...                                                         *)
LEMMA TendsChecks ==
  ASSUME Safety, Typing', Tended, NoConverge', NEW t \in Threads, Checks(t)
  PROVE  Tended'
<1> DEFINE s == todo[t]
           h == s[1].on
           Here == {"if_halted", "unless_armed", "arm_unless_armed", "rebuild", "switched",
                    "may_init", "may_prepare", "may_acknowledge", "fit", "settled"}
<1>1. Threading
  BY DEF Safety, Typing, Threaded
<1>2. s # << >> /\ s[1].do \in Here /\ GroupOf(t) = h /\ Head(s) = s[1]
  <2>1. At(t, Here)
    BY DEF Checks
  <2> HIDE DEF Here
  <2> QED
    BY <1>1, <2>1, AtHead
<1>3. UNCHANGED <<state, ownerChecked, robotVars, pending>>
  BY DEF Checks, rest, ownerVars
<1>4. t \in Workers /\ h \in held[t] /\ h \in Groups /\ t # "owner"
  <2>1. s[1].do \in WorkerOnly /\ s[1].do \notin Teardown
    BY <1>2 DEF WorkerOnly, Names, Checked, MonitorNames, OwnerNames, StopNames, Teardown
  <2>2. t \in Workers
    BY <1>1, <1>2, <2>1, AtWorker
  <2> QED
    BY <1>1, <1>2, <2>1, <2>2, HeadFacts, Apiece DEF Threading
<1>5. s[1].do \notin FaultNames \cup {"halt", "list", "release", "halted", "fault", "running"}
  BY <1>2 DEF FaultNames, StopNames
<1>6. CASE Raise(t)
  BY <1>2, <1>3, <1>5, <1>6, TendsRaises
<1>7. ~Raise(t) => \A u \in Threads : u # t => errors'[u] = errors[u]
  BY DEF Checks
<1>8. CASE ~Raise(t) /\ Continue(t, << >>)
  BY <1>2, <1>3, <1>4, <1>5, <1>7, <1>8, TendsOn
<1> HIDE DEF s
<1>9. ASSUME NEW steps, Continue(t, steps), ~Raise(t), Sound(steps, {h}), s[1].do # "switched",
             Uses(steps, Plain \cup ArmNames), Lacks(steps, {"switched"}),
             s[1].do \in Landing \/ Lacks(steps, Landing)
      PROVE  Tended'
  <2>1. steps \in Seq(Plans) /\ On(steps, {h}) /\ Fresh(steps)
    BY <1>9 DEF Sound
  <2>2. Lacks(steps, Starters)
    BY <1>9 DEF Uses, Lacks, Plain, ArmNames, Starters
  <2>3. ASSUME NEW g \in Groups
        PROVE  Still(g) \/ Lands(steps, g)
    <3>1. CASE g # h
      BY <2>1, <3>1, ElsewhereLands
    <3>2. CASE g = h /\ s[1].do \in Landing
      BY <1>2, <1>4, <3>2, LandsStill DEF s
    <3>3. CASE Lacks(steps, Landing)
      BY <3>3, TameLands
    <3> QED
      BY <1>9, <3>1, <3>2, <3>3
  <2> QED
    BY <1>2, <1>3, <1>4, <1>5, <1>7, <1>9, <2>1, <2>2, <2>3, TendsSteps DEF s
<1>10. /\ Sound(InitGroup(h) \o Prepare(h), {h}) /\ Uses(InitGroup(h) \o Prepare(h), Plain)
       /\ Sound(Acknowledge(h), {h}) /\ Uses(Acknowledge(h), Plain)
       /\ Sound(Arm(h), {h}) /\ Uses(Arm(h), ArmNames)
       /\ Sound(Steps(<<"to_unconfigured", "to_inactive", "rebuilt">>, h), {h})
       /\ Uses(Steps(<<"to_unconfigured", "to_inactive", "rebuilt">>, h), Plain)
  BY <1>4, PlainBlocks, RebuildBlock
<1>11. /\ Lacks(InitGroup(h) \o Prepare(h), {"switched"}) /\ Lacks(Acknowledge(h), {"switched"})
       /\ Lacks(Arm(h), {"switched"})
       /\ Lacks(Steps(<<"to_unconfigured", "to_inactive", "rebuilt">>, h), {"switched"})
  BY <1>4, PlainLacks
<1>12. Lacks(Acknowledge(h), Landing) /\ Lacks(Steps(<<"to_unconfigured", "to_inactive", "rebuilt">>, h), Landing)
  <2> DEFINE one == <<"may_acknowledge", "maintenance_clear", "acknowledge">>
             two == <<"to_unconfigured", "to_inactive", "rebuilt">>
  <2>1. one \in Seq(Names) /\ two \in Seq(Names)
    BY DEF Names, Mutations, Checked, Assigned, Others
  <2>2. (\A i \in 1..Len(one) : one[i] \notin Landing) /\ \A i \in 1..Len(two) : two[i] \notin Landing
    BY DEF Landing
  <2>3. h \in Groups \cup {"all"}
    BY <1>4
  <2> HIDE DEF one, two, h
  <2>4. Lacks(Steps(one, h), Landing) /\ Lacks(Steps(two, h), Landing)
    BY <2>1, <2>2, <2>3, StepsSet
  <2> QED
    BY <2>4 DEF one, two, Acknowledge
<1> HIDE DEF h
<1>13. CASE ~Raise(t) /\ s[1].do = "if_halted"
  <2>1. \/ Continue(t, InitGroup(h) \o Prepare(h)) \/ Continue(t, << >>)
    BY <1>2, <1>13 DEF Checks, At, s
  <2>2. Uses(InitGroup(h) \o Prepare(h), Plain \cup ArmNames) /\ s[1].do \in Landing
    BY <1>10, <1>13 DEF Uses, Landing
  <2> QED
    BY <1>8, <1>9, <1>10, <1>11, <1>13, <2>1, <2>2
<1>14. CASE ~Raise(t) /\ s[1].do = "unless_armed"
  <2>1. \/ Continue(t, Acknowledge(h)) \/ Continue(t, << >>)
    BY <1>2, <1>14 DEF Checks, At, s
  <2>2. Uses(Acknowledge(h), Plain \cup ArmNames)
    BY <1>10 DEF Uses
  <2> QED
    BY <1>8, <1>9, <1>10, <1>11, <1>12, <1>14, <2>1, <2>2
<1>15. CASE ~Raise(t) /\ s[1].do = "arm_unless_armed"
  <2>1. \/ Continue(t, Arm(h)) \/ Continue(t, << >>)
    BY <1>2, <1>15 DEF Checks, At, s
  <2>2. Uses(Arm(h), Plain \cup ArmNames) /\ s[1].do \in Landing
    BY <1>10, <1>15 DEF Uses, Landing
  <2> QED
    BY <1>8, <1>9, <1>10, <1>11, <1>15, <2>1, <2>2
<1>16. CASE ~Raise(t) /\ s[1].do = "rebuild"
  <2> DEFINE steps == Steps(<<"to_unconfigured", "to_inactive", "rebuilt">>, h)
  <2>1. Continue(t, steps)
    BY <1>2, <1>16 DEF Checks, At, s
  <2>2. Uses(steps, Plain \cup ArmNames)
    BY <1>10 DEF Uses
  <2> HIDE DEF steps
  <2>3. Sound(steps, {h}) /\ Lacks(steps, {"switched"}) /\ Lacks(steps, Landing)
    BY <1>10, <1>11, <1>12 DEF steps
  <2> QED
    BY <1>9, <1>16, <2>1, <2>2, <2>3
<1>17. CASE ~Raise(t) /\ s[1].do \notin {"if_halted", "unless_armed", "arm_unless_armed", "rebuild"}
  <2>1. Continue(t, << >>)
    BY <1>2, <1>17 DEF Checks, At, s
  <2> QED
    BY <1>8, <1>17, <2>1
<1> QED
  BY <1>6, <1>13, <1>14, <1>15, <1>16, <1>17

(* ... a transition of the component, ...                                   *)
LEMMA TendsTransition ==
  ASSUME Safety, Typing', Tended, NoConverge', NEW t \in Threads, Transition(t)
  PROVE  Tended'
<1> DEFINE s == todo[t]
           h == s[1].on
           Here == {"to_inactive", "to_active", "to_unconfigured"}
           path ==
        CASE At(t, {"to_inactive"}) /\ component = "unconfigured" -> <<"inactive">>
          [] At(t, {"to_active"}) /\ component = "unconfigured" -> <<"inactive", "active">>
          [] At(t, {"to_active"}) /\ component = "inactive" -> <<"active">>
          [] At(t, {"to_unconfigured"}) /\ component # "unconfigured" -> <<"unconfigured">>
          [] OTHER -> <<>>
<1>1. Threading
  BY DEF Safety, Typing, Threaded
<1>2. s # << >> /\ s[1].do \in Here /\ GroupOf(t) = h /\ Head(s) = s[1]
  <2>1. At(t, Here)
    BY DEF Transition
  <2> HIDE DEF Here
  <2> QED
    BY <1>1, <2>1, AtHead
<1>3. UNCHANGED <<state, ownerChecked, robotVars, pending>>
  BY DEF Transition, rest, ownerVars
<1>4. /\ \/ path = << >> \/ path = <<"inactive">> \/ path = <<"inactive", "active">>
               \/ path = <<"active">>
         \/ path = <<"unconfigured">>
      /\ Raise(t) \/ (Continue(t, Steps(path, h)) /\ UNCHANGED errors)
  BY <1>2 DEF Transition
<1> HIDE DEF path
<1>5. s[1].do \notin FaultNames \cup {"halt", "list", "release", "switched", "fault", "running"}
  BY <1>2 DEF FaultNames, StopNames
<1>6. t # "owner" /\ h \in Groups \cup {"all"}
  <2>1. s[1] \in Plans
    BY <1>1, <1>2, HeadFacts
  <2>2. h \in Groups \cup {"all"}
    BY <2>1 DEF Plans
  <2> QED
    BY <1>1, <1>2, <2>2, HeadFacts DEF OwnerNames
<1>7. CASE Raise(t)
  BY <1>2, <1>3, <1>5, <1>7, TendsRaises
<1>8. CASE Continue(t, Steps(path, h)) /\ UNCHANGED errors
  <2> DEFINE steps == Steps(path, h)
  <2>1. Sound(steps, {h}) /\ Uses(steps, Lifecycle)
    BY <1>4, <1>6, PathSteps
  <2>2. Continue(t, steps) /\ \A u \in Threads : u # t => errors'[u] = errors[u]
    BY <1>8
  <2> HIDE DEF steps
  <2>3. Lacks(steps, {"switched"}) /\ Lacks(steps, Landing) /\ Lacks(steps, Starters)
    BY <2>1 DEF Uses, Lacks, Lifecycle, Landing, Starters
  <2>4. (\A g : Lands(steps, g)) /\ On(steps, {h}) /\ steps \in Seq(Plans) /\ Fresh(steps)
    BY <2>1, <2>3, TameLands DEF Sound
  <2> QED
    BY <1>2, <1>3, <1>5, <1>6, <2>2, <2>3, <2>4, TendsSteps
<1> QED
  BY <1>4, <1>7, <1>8

(* ... the end of a rebuild, ...                                            *)
LEMMA TendsRebuilt ==
  ASSUME Safety, Typing', Tended, NEW t \in Threads, Rebuilt(t)
  PROVE  Tended'
<1> DEFINE s == todo[t]
           r == Tail(s)
           D == {x \in ToSet(r) : x.do = "rebuild"}
           w == Without(r, D)
<1>1. Threading
  BY DEF Safety, Typing, Threaded
<1>2. s # << >> /\ s[1].do = "rebuilt" /\ s \in Seq(Plans) /\ t # "owner"
  <2>1. At(t, {"rebuilt"})
    BY DEF Rebuilt
  <2>2. s # << >> /\ s[1].do \in {"rebuilt"}
    BY <1>1, <2>1, AtHead
  <2> QED
    BY <1>1, <2>2, HeadFacts DEF OwnerNames
<1>3. UNCHANGED <<state, ownerChecked, op, held, errors, robotVars, pending>>
  BY DEF Rebuilt, rest, ownerVars
<1>4. todo'[t] = w /\ Alone(t)
  <2>1. todo' = [todo EXCEPT ![t] = w]
    BY DEF Rebuilt, WithoutName
  <2> HIDE DEF w
  <2> QED
    BY <1>1, <1>3, <2>1 DEF Alone, Threading
<1>5. \A g : Still(g)' <=> Still(g)
  BY <1>3 DEF robotVars, Still, NoRise
<1>6. Fresh(w) /\ w \in Seq(Plans) /\ r \in Seq(Plans) /\ held[t] \subseteq Groups
  <2>1. Suits(t, op[t], held[t], s) /\ held[t] \subseteq Groups
    BY <1>1, <1>2, HeadFacts
  <2> QED
    BY <1>2, <2>1, SuitsRebuilt DEF WithoutName
<1>7. \A x \in D : x.do = "rebuild"
  OBVIOUS
<1>8. StartsLast(s)
  BY DEF Tended
<1> HIDE DEF D, w, r
<1>9. ASSUME NEW g, Lands(s, g)
      PROVE  Lands(w, g)
  <2>1. Precedes(r, g, {"halted"}, Landing)
    BY <1>2, <1>9, RestPrecedes DEF r, Lands
  <2> QED
    BY <1>6, <1>7, <2>1, WithoutPrecedes DEF w, Lands
<1>10. ASSUME NEW g, NEW name, Has(s, g, {name}), name \notin {"rebuild", "rebuilt"}
      PROVE  Has(w, g, {name})
  <2>1. Has(r, g, {name})
    BY <1>2, <1>10, RestAll DEF r
  <2> QED
    BY <1>6, <1>7, <1>10, <2>1, WithoutAll DEF w
<1>11. /\ \A g, names : Only(s, g, names) => Only(w, g, names)
       /\ \A names : Lacks(s, names) => Lacks(w, names)
  BY <1>2, <1>6, RestAll, WithoutAll DEF r, w
<1>12. StartsLast(w)
  <2>1. StartsLast(r)
    BY <1>2, <1>8, LastRest DEF r
  <2> QED
    BY <1>6, <2>1, LastWithout DEF w
<1>13. w # << >> => w[1].do \notin Reached
  <2>1. w # << >> => Len(w) > 0
    BY <1>6
  <2> QED
    BY <1>6, <2>1 DEF Fresh, Followers, Reached
<1> HIDE DEF s
<1>14. ASSUME NEW g \in held'[t]
       PROVE  Minds(t, g)'
  <2>1. Minds(t, g)
    BY <1>3, <1>14 DEF Tended
  <2> QED
    BY <1>4, <1>5, <1>9, <1>13, <2>1 DEF Minds, RuleH, RuleF, s
<1>15. ASSUME NEW g
       PROVE  Coming(t, g) => Coming(t, g)'
  <2>1. Bad(t, g) => Bad(t, g)'
    BY <1>3, <1>4, <1>10, <1>11 DEF Bad, s
  <2>2. Begun(t, g) => Begun(t, g)'
    BY <1>3, <1>4, <1>10, <1>11 DEF Begun, s
  <2>3. Converging(t, g) => Converging(t, g)'
    BY <1>3, <1>4, <1>10 DEF Converging, s
  <2> QED
    BY <2>1, <2>2, <2>3 DEF Coming
<1>16. \A g \in Groups : Tends(t, g)
  BY <1>3, <1>5, <1>15 DEF Tends
<1>17. TakenOver'
  <2>1. op[t] # ""
    BY <1>1, <1>2, HeadFacts DEF s
  <2> QED
    BY <1>2, <1>3, <1>4, <2>1, TakenKept DEF Tended
<1> QED
  BY <1>3, <1>4, <1>12, <1>14, <1>16, <1>17, Tending

(* The monitor's steps are those of a stop, but for a Fault: only converge() *)
(* has one.                                                                 *)
Unfaulted == Lacks(todo["monitor"], {"fault"})

(* ... an assignment, ...                                                   *)
LEMMA TendsAssigns ==
  ASSUME Safety, Typing', Tended, Unfaulted, NEW t \in Threads, Assigns(t)
  PROVE  Tended'
<1> DEFINE s == todo[t]
           h == s[1].on
           Here == {"initialized", "armed", "running", "stopped", "fault"}
<1>1. Threading /\ state \in [Groups -> States]
  BY DEF Safety, Typing, Threaded, OwnerTypes
<1>2. s # << >> /\ s[1].do \in Here /\ GroupOf(t) = h /\ Head(s) = s[1]
  <2>1. At(t, Here)
    BY DEF Assigns
  <2> HIDE DEF Here
  <2> QED
    BY <1>1, <2>1, AtHead
<1>3. /\ state' = [state EXCEPT ![h] = StateAfter(s[1].do)] /\ Continue(t, << >>)
      /\ UNCHANGED <<ownerChecked, errors, robotVars, pending>>
  BY <1>2 DEF Assigns, rest
<1>4. s \in Seq(Plans) /\ 1 \in 1..Len(s)
  BY <1>1, <1>2, HeadFacts
<1>5. t \in Workers /\ h \in held[t] /\ t # "owner"
  <2>1. t # "owner"
    BY <1>1, <1>2, HeadFacts DEF OwnerNames
  <2>2. t # "monitor"
    BY <1>1, <1>2, <1>4, HeadFacts DEF Unfaulted, Lacks, MonitorNames, StopNames
  <2>3. t \in Workers
    BY <2>1, <2>2, Apiece
  <2> QED
    BY <1>1, <1>2, <2>1, <2>3, HeadFacts DEF Teardown
<1> HIDE DEF h, s
<1>6. ASSUME NEW g \in Groups
      PROVE  \/ Still(g)
             \/ state[g]' # "Running" =>
                  state[g] # "Running" /\ ~(h = g /\ s[1].do \in {"fault", "running"})
  <2>1. CASE g # h
    BY <1>1, <1>3, <2>1
  <2>2. CASE g = h /\ s[1].do = "running"
    BY <1>1, <1>3, <2>2 DEF StateAfter
  <2>3. CASE g = h /\ s[1].do # "running"
    <3>1. s[1].do \in Landing
      BY <1>2, <2>3 DEF Landing
    <3> QED
      BY <1>2, <1>5, <2>3, <3>1, LandsStill DEF s, h
  <2> QED
    BY <2>1, <2>2, <2>3
<1>7. s[1].do # "halt" /\ \A u \in Threads : u # t => errors'[u] = errors[u]
  BY <1>2, <1>3
<1> QED
  BY <1>2, <1>3, <1>5, <1>6, <1>7, TendsOn DEF s, h

(* ... the beginning of a stop ...                                          *)
LEMMA TendsBumps ==
  ASSUME Safety, Typing', Tended, NEW t \in Threads, Bumps(t)
  PROVE  Tended'
<1>1. Threading
  BY DEF Safety, Typing, Threaded
<1>2. todo[t] # << >> /\ todo[t][1].do = "bump"
  <2>1. At(t, {"bump"})
    BY DEF Bumps
  <2> QED
    BY <1>1, <2>1, AtHead
<1>3. t # "owner"
  BY <1>1, <1>2, HeadFacts DEF OwnerNames
<1>4. Continue(t, << >>) /\ UNCHANGED <<state, ownerChecked, robotVars, pending>>
      /\ \A u \in Threads : u # t => errors'[u] = errors[u]
  BY <1>1 DEF Bumps, Threading, rest
<1> QED
  BY <1>2, <1>3, <1>4, TendsOn

(* ... and its end, ...                                                     *)
LEMMA TendsHalted ==
  ASSUME Safety, Typing', Tended, NoConverge, NoConverge', NEW t \in Threads, Halted(t)
  PROVE  Tended'
<1> DEFINE h == todo[t][1].on
<1>1. Threading /\ state \in [Groups -> States]
  BY DEF Safety, Typing, Threaded, OwnerTypes
<1>2. todo[t] # << >> /\ todo[t][1].do = "halted" /\ GroupOf(t) = h
  <2>1. At(t, {"halted"})
    BY DEF Halted
  <2> QED
    BY <1>1, <2>1, AtHead
<1>3. t # "owner" /\ h \in held[t] /\ h \in Groups
  BY <1>2, StopHeld DEF Stopping, StopNames
<1>4. Still(h)
  BY <1>2, <1>3, LandsStill DEF Reached
<1>5. /\ Raise(t) \/ (Continue(t, << >>) /\ errors' = [errors EXCEPT ![t] = FALSE])
      /\ UNCHANGED <<ownerChecked, robotVars, pending>>
      /\ state' = [state EXCEPT ![h] = StateAfterStop(errors[t])]
  BY <1>2 DEF Halted, rest
<1>6. \A g \in Groups : g = h \/ state[g]' = state[g]
  BY <1>1, <1>5
<1>7. \A g : Still(g)' <=> Still(g)
  BY <1>5 DEF robotVars, Still, NoRise
<1>8. CASE Raise(t)
  BY <1>2, <1>4, <1>5, <1>6, <1>7, <1>8, RaiseTends
<1>9. CASE Continue(t, << >>) /\ errors' = [errors EXCEPT ![t] = FALSE]
  <2>1. \A u \in Threads : u # t => errors'[u] = errors[u]
    BY <1>1, <1>9 DEF Threading
  <2>2. \A g \in Groups :
           \/ Still(g)
           \/ state[g]' # "Running" =>
                state[g] # "Running" /\ ~(h = g /\ todo[t][1].do \in {"fault", "running"})
    BY <1>2, <1>4, <1>6
  <2> QED
    BY <1>2, <1>3, <1>5, <1>9, <2>1, <2>2, TendsOn
<1> QED
  BY <1>5, <1>8, <1>9

(* ... the journal's record ...                                             *)
LEMMA TendsRecords ==
  ASSUME Safety, Typing', Tended, NoConverge', NEW t \in Threads, Records(t)
  PROVE  Tended'
<1>1. Threading
  BY DEF Safety, Typing, Threaded
<1>2. todo[t] # << >> /\ todo[t][1].do = "transact"
  <2>1. At(t, {"transact"})
    BY DEF Records
  <2> QED
    BY <1>1, <2>1, AtHead
<1>3. t # "owner"
  BY <1>1, <1>2, HeadFacts DEF OwnerNames
<1>4. /\ UNCHANGED <<state, ownerChecked, robotVars, pending>>
      /\ Raise(t) \/ (Continue(t, << >>) /\ UNCHANGED errors)
  BY DEF Records, ownerVars
<1>5. CASE Raise(t)
  BY <1>2, <1>4, <1>5, TendsRaises DEF FaultNames, StopNames
<1>6. CASE Continue(t, << >>) /\ UNCHANGED errors
  BY <1>2, <1>3, <1>4, <1>6, TendsOn
<1> QED
  BY <1>4, <1>5, <1>6

(* ... and its end, ...                                                     *)
LEMMA TendsCloses ==
  ASSUME Safety, Typing', Tended, NEW t \in Threads, Closes(t)
  PROVE  Tended'
<1>1. Threading
  BY DEF Safety, Typing, Threaded
<1>2. todo[t] # << >> /\ todo[t][1].do \in {"close", "roll_back"}
  <2>1. At(t, {"close", "roll_back"})
    BY DEF Closes
  <2> QED
    BY <1>1, <2>1, AtHead
<1>3. t # "owner"
  BY <1>1, <1>2, HeadFacts DEF OwnerNames
<1>4. Continue(t, << >>) /\ UNCHANGED <<state, ownerChecked, errors, robotVars, pending>>
  BY DEF Closes, ownerVars
<1> QED
  BY <1>2, <1>3, <1>4, TendsOn

(* ... and that of maintenance.                                             *)
LEMMA TendsConcludes ==
  ASSUME Safety, Typing', Tended, NEW t \in Threads, Concludes(t)
  PROVE  Tended'
<1> DEFINE s == todo[t]
           h == s[1].on
           lock == Steps(<<"maintenance_lock">>, h)
<1>1. Threading /\ state \in [Groups -> States]
  BY DEF Safety, Typing, Threaded, OwnerTypes
<1>2. s # << >> /\ s[1].do = "maintained" /\ GroupOf(t) = h
  <2>1. At(t, {"maintained"})
    BY DEF Concludes
  <2> QED
    BY <1>1, <2>1, AtHead
<1>3. t \in Workers /\ t # "owner" /\ h \in held[t] /\ h \in Groups
  <2>1. s[1].do \in WorkerOnly /\ s[1].do \notin Teardown
    BY <1>2 DEF WorkerOnly, Names, Assigned, MonitorNames, OwnerNames, StopNames, Teardown
  <2>2. t \in Workers
    BY <1>1, <1>2, <2>1, AtWorker
  <2> QED
    BY <1>1, <1>2, <2>1, <2>2, HeadFacts, Apiece DEF Threading
<1>4. Still(h)
  BY <1>2, <1>3, LandsStill DEF Landing
<1>5. /\ Continue(t, << >>) \/ Continue(t, lock)
      /\ UNCHANGED <<ownerChecked, errors, robotVars, pending>>
      /\ \A g \in Groups : g = h \/ state[g]' = state[g]
  BY <1>1, <1>2 DEF Concludes, rest
<1>6. \A u \in Threads : u # t => errors'[u] = errors[u]
  BY <1>5
<1> HIDE DEF h, s, lock
<1>7. CASE Continue(t, << >>)
  <2>1. \A g \in Groups :
           \/ Still(g)
           \/ state[g]' # "Running" =>
                state[g] # "Running" /\ ~(h = g /\ s[1].do \in {"fault", "running"})
    BY <1>2, <1>4, <1>5
  <2> QED
    BY <1>2, <1>3, <1>5, <1>6, <1>7, <2>1, TendsOn DEF s, h
<1>8. CASE Continue(t, lock)
  <2>1. "maintenance_lock" \in Names /\ "maintenance_lock" \notin Starters \cup Followers
    BY DEF Names, Mutations, Starters, Followers
  <2>2. Sound(lock, {h}) /\ Uses(lock, {"maintenance_lock"}) /\ lock \in Seq(Plans) /\ Fresh(lock)
    BY <1>3, <2>1, OneStep DEF Sound, lock
  <2>3. Lacks(lock, {"switched"}) /\ Lacks(lock, Starters) /\ Lacks(lock, Landing)
    BY <2>2 DEF Uses, Lacks, Starters, Landing
  <2>4. (\A g : Lands(lock, g)) /\ On(lock, {h})
    BY <2>2, <2>3, TameLands DEF Sound
  <2>5. s[1].do \notin FaultNames \cup {"switched"}
    BY <1>2 DEF FaultNames, StopNames
  <2>6. \A g \in Groups :
           \/ Still(g)
           \/ /\ Lands(lock, g)
              /\ state[g]' # "Running" =>
                   state[g] # "Running" /\ ~(h = g /\ s[1].do \in {"fault", "running"})
    BY <1>2, <1>4, <1>5, <2>4
  <2> QED
    BY <1>2, <1>3, <1>5, <1>6, <1>8, <2>2, <2>3, <2>4, <2>5, <2>6, TendsSteps DEF s, h
<1> QED
  BY <1>5, <1>7, <1>8

-----------------------------------------------------------------------------
(* Every step of a thread; and the monitor meets no exception.              *)

(* Every step of a thread keeps the rules.                                  *)
LEMMA TendsWorks ==
  ASSUME Safety, Typing', Tended, Unfaulted, NoConverge, NoConverge', "halt" \notin Unreliable,
         NEW t \in Threads, Works(t)
  PROVE  Tended'
<1>1. CASE Answered(t)
  BY <1>1, TendsAnswered
<1>2. CASE Refused(t) \/ ReadFails(t)
  BY <1>2, TendsFails
<1>3. CASE TimesOut(t)
  BY <1>3, TendsTimesOut
<1>4. CASE ReadsRobot(t) \/ Checks(t)
  BY <1>4, TendsReadsRobot, TendsChecks
<1>5. CASE Transition(t) \/ Rebuilt(t)
  BY <1>5, TendsTransition, TendsRebuilt
<1>6. CASE Assigns(t) \/ Bumps(t)
  BY <1>6, TendsAssigns, TendsBumps
<1>7. CASE Halted(t) \/ Records(t)
  BY <1>7, TendsHalted, TendsRecords
<1>8. CASE Closes(t) \/ Concludes(t)
  BY <1>8, TendsCloses, TendsConcludes
<1>9. CASE Ends(t)
  BY <1>9, TendsEnds
<1> QED
  BY <1>1, <1>2, <1>3, <1>4, <1>5, <1>6, <1>7, <1>8, <1>9 DEF Works

(* What the monitor is at changes by no other thread.                       *)
LEMMA OtherThreads ==
  ASSUME Threading, NEW t \in Threads, t # "monitor", Works(t)
  PROVE  op'["monitor"] = op["monitor"] /\ todo'["monitor"] = todo["monitor"]
<1>1. op \in [Threads -> Ops] /\ todo \in [Threads -> Seq(Plans)] /\ "monitor" \in Threads
  BY DEF Threading, Threads
<1>2. ASSUME NEW steps, Continue(t, steps)
      PROVE  op'["monitor"] = op["monitor"] /\ todo'["monitor"] = todo["monitor"]
  BY <1>1, <1>2 DEF Continue
<1>3. ASSUME Raise(t)
      PROVE  op'["monitor"] = op["monitor"] /\ todo'["monitor"] = todo["monitor"]
  BY <1>1, <1>3 DEF Raise
<1>4. CASE Answered(t)
  BY <1>2, <1>4 DEF Answered
<1>5. CASE Refused(t) \/ TimesOut(t) \/ ReadFails(t)
  <2>1. Fail(t)
    BY <1>5 DEF Refused, TimesOut, ReadFails
  <2> QED
    BY <1>2, <1>3, <2>1 DEF Fail
<1>6. CASE ReadsRobot(t)
  BY <1>2, <1>6 DEF ReadsRobot
<1>7. CASE Checks(t)
  BY <1>2, <1>3, <1>7 DEF Checks
<1>8. CASE Transition(t)
  BY <1>2, <1>3, <1>8 DEF Transition
<1>9. CASE Rebuilt(t)
  BY <1>1, <1>9 DEF Rebuilt
<1>10. CASE Assigns(t) \/ Bumps(t) \/ Closes(t) \/ Concludes(t)
  BY <1>2, <1>10 DEF Assigns, Bumps, Closes, Concludes
<1>11. CASE Halted(t) \/ Records(t)
  BY <1>2, <1>3, <1>11 DEF Halted, Records
<1>12. CASE Ends(t)
  BY <1>1, <1>12 DEF Ends
<1> QED
  BY <1>4, <1>5, <1>6, <1>7, <1>8, <1>9, <1>10, <1>11, <1>12 DEF Works

(* The monitor works on, and meets no exception.                            *)
LEMMA MonitorGoes ==
  ASSUME Safety, NoConverge', Works("monitor")
  PROVE  \/ todo'["monitor"] = todo["monitor"]
         \/ /\ todo["monitor"] # << >>
            /\ \E steps \in Seq(Plans) : Continue("monitor", steps) /\ Lacks(steps, {"fault"})
<1> DEFINE t == "monitor"
           s == todo[t]
           h == s[1].on
<1>1. Threading /\ t \in Threads
  BY DEF Safety, Typing, Threaded, Threads
<1>2. CASE Ends(t)
  BY <1>2 DEF Ends
<1>3. CASE ~Ends(t)
  <2>1. s # << >>
    BY <1>3 DEF Works, Answered, Refused, TimesOut, ReadFails, ReadsRobot, Checks, Transition, Rebuilt,
                Assigns, Bumps, Halted, Records, Closes, Concludes, At
  <2>2. s[1].do \in MonitorNames /\ op[t] \in {"monitor", "converge"} /\ Head(s) = s[1]
    BY <1>1, <2>1, HeadFacts, Apiece DEF Role
  <2>3. ~Raise(t)
    <3>1. SUFFICES ASSUME Raise(t)
                   PROVE  FALSE
      OBVIOUS
    <3>2. op \in [Threads -> Ops]
      BY <1>1 DEF Threading
    <3>3. op'[t] = "converge"
      BY <1>1, <2>2, <3>1, <3>2 DEF Raise
    <3> QED
      BY <3>3 DEF NoConverge
  <2>4. Lacks(<< >>, {"fault"}) /\ << >> \in Seq(Plans)
    BY DEF Lacks
  <2>5. CASE Continue(t, << >>)
    BY <2>1, <2>4, <2>5
  <2>6. CASE ReadsRobot(t)
    <3>1. s[1].do = "list" /\ h \in Groups /\ GroupOf(t) = h
      <4>1. At(t, {"list", "lingering", "verify", "ready"})
        BY <2>6 DEF ReadsRobot
      <4>2. s[1].do = "list" /\ GroupOf(t) = h
        BY <2>2, <4>1 DEF At, GroupOf, MonitorNames, StopNames
      <4> QED
        BY <1>1, <2>1, <4>2, HeadFacts DEF RoundNames
    <3>2. Continue(t, << >>) \/ Continue(t, Steps(<<"release">>, h))
      BY <2>2, <2>6, <3>1 DEF ReadsRobot, At
    <3>3. Steps(<<"release">>, h) \in Seq(Plans) /\ Uses(Steps(<<"release">>, h), {"release"})
      BY <3>1, ReleaseStep
    <3>4. Lacks(Steps(<<"release">>, h), {"fault"})
      BY <3>3 DEF Uses, Lacks
    <3> QED
      BY <2>1, <2>5, <3>2, <3>3, <3>4
  <2>7. ~Checks(t) /\ ~Transition(t) /\ ~Rebuilt(t) /\ ~Records(t) /\ ~Closes(t) /\ ~Concludes(t)
    BY <2>1, <2>2 DEF At, MonitorNames, StopNames, Checks, Transition, Rebuilt, Records, Closes, Concludes
  <2>8. CASE Answered(t) \/ Refused(t) \/ TimesOut(t) \/ ReadFails(t)
    BY <2>3, <2>5, <2>8 DEF Answered, Refused, TimesOut, ReadFails, Fail
  <2>9. CASE Assigns(t) \/ Bumps(t) \/ Halted(t)
    BY <2>3, <2>5, <2>9 DEF Assigns, Bumps, Halted
  <2> QED
    BY <1>3, <2>6, <2>7, <2>8, <2>9 DEF Works
<1> QED
  BY <1>2, <1>3

(* Without converge() the monitor has no such step at any time.             *)
LEMMA UnfaultedOn ==
  ASSUME Safety, Unfaulted, todo["monitor"] # << >>, NEW steps \in Seq(Plans), Continue("monitor", steps),
         Lacks(steps, {"fault"})
  PROVE  Unfaulted'
<1> DEFINE s == todo["monitor"]
<1>1. todo \in [Threads -> Seq(Plans)] /\ "monitor" \in Threads
  BY DEF Safety, Typing, Threaded, Threading, Threads
<1>2. todo'["monitor"] = steps \o Tail(s)
  BY <1>1 DEF Continue
<1>3. s \in Seq(Plans) /\ s # << >> /\ Lacks(s, {"fault"})
  BY <1>1 DEF Unfaulted
<1> HIDE DEF s
<1>4. Tail(s) \in Seq(Plans) /\ Lacks(Tail(s), {"fault"})
  BY <1>3, Rest, RestAll
<1> QED
  BY <1>2, <1>4, LacksJoin DEF Unfaulted

(* Its own steps have none, ...                                             *)
LEMMA UnfaultedMonitors ==
  ASSUME Safety, Unfaulted, Monitors
  PROVE  Unfaulted'
<1>1. /\ Threaded /\ Threading /\ (dirty => journal \in Groups) /\ requested \in SUBSET Groups
      /\ todo \in [Threads -> Seq(Plans)] /\ "monitor" \in Threads
  BY DEF Safety, Typing, Threaded, Threading, JournalTypes, OwnerTypes, Threads
<1>2. CASE MonitorBegins
  <2> DEFINE x == Steps(Rounds, "all")
  <2>1. todo'["monitor"] = x
    BY <1>1, <1>2 DEF MonitorBegins
  <2>2. Lacks(x, {"fault"})
    <3>1. Rounds \in Seq(Names) /\ \A i \in 1..Len(Rounds) : Rounds[i] \notin {"fault"}
      <4>1. Rounds \in Seq(Names) /\ Len(Rounds) = 3 /\ Rounds[1] = "lock_dirty"
            /\ Rounds[2] = "status" /\ Rounds[3] = "resources"
        BY DEF Rounds, Names, Reads, Others
      <4>2. \A i \in 1..3 : i = 1 \/ i = 2 \/ i = 3
        OBVIOUS
      <4> QED
        BY <4>1, <4>2
    <3> QED
      BY <3>1, StepsSet
  <2> QED
    BY <2>1, <2>2 DEF Unfaulted
<1>3. CASE LocksDirty \/ ReadsStatus \/ ReadsResources \/ Suspects
  <2>1. PICK s : Continue("monitor", s) /\ Suits("monitor", "monitor", held["monitor"], s)
                 /\ Lacks(s, {"fault"})
    BY <1>1, <1>3, LookingOn
  <2>2. s \in Seq(Plans)
    BY <1>1, <2>1, SuitsBasic
  <2>3. todo["monitor"] # << >>
    BY <1>3 DEF LocksDirty, ReadsStatus, ReadsResources, Suspects, At
  <2> QED
    BY <2>1, <2>2, <2>3, UnfaultedOn
<1>4. CASE Confirms \/ Condemns
  <2> DEFINE s == todo["monitor"]
             g == GroupOf("monitor")
             stop == Stop(g) \o Steps(<<"condemned">>, g)
  <2>1. s # << >> /\ Head(s) = s[1] /\ s \in Seq(Plans) /\ g \in Groups
    <3>1. At("monitor", {"confirm", "condemned"})
      BY <1>4 DEF Confirms, Condemns, At
    <3>2. s # << >> /\ Head(s) = s[1] /\ g = s[1].on /\ s[1].do \in {"confirm", "condemned"}
      BY <1>1, <3>1, AtHead
    <3> QED
      BY <1>1, <3>2, HeadFacts DEF RoundNames
  <2>2. /\ todo'["monitor"] = (IF Confirms /\ Unlocked({g}) /\ SameSession(g) THEN stop ELSE << >>) \o Tail(s)
           \/ todo'["monitor"] = Tail(s)
    BY <1>1, <1>4 DEF Confirms, Condemns
  <2>3. stop \in Seq(Plans) /\ Lacks(stop, {"fault"})
    <3>1. Uses(Stop(g), StopNames) /\ Stop(g) \in Seq(Plans)
      BY <2>1, StopSound
    <3>2. "condemned" \in Names /\ "condemned" \notin Starters /\ "condemned" \notin Followers
          /\ g \in Groups \cup {"all"}
      BY <2>1 DEF Names, Others, Starters, Followers
    <3>3. Steps(<<"condemned">>, g) \in Seq(Plans) /\ Uses(Steps(<<"condemned">>, g), {"condemned"})
      BY <3>2, OneStep DEF Sound
    <3>4. Lacks(Stop(g), {"fault"}) /\ Lacks(Steps(<<"condemned">>, g), {"fault"})
      BY <3>1, <3>3 DEF Uses, Lacks, StopNames
    <3> QED
      BY <3>1, <3>3, <3>4, LacksJoin, JoinedPlans
  <2> HIDE DEF stop, g
  <2>4. Tail(s) \in Seq(Plans) /\ Lacks(Tail(s), {"fault"})
    BY <2>1, Rest, RestAll DEF Unfaulted
  <2>5. << >> \o Tail(s) = Tail(s)
    BY <2>4, JoinEmpty
  <2>6. Lacks(stop \o Tail(s), {"fault"})
    BY <2>3, <2>4, LacksJoin
  <2> QED
    BY <2>2, <2>4, <2>5, <2>6 DEF Unfaulted
<1> QED
  BY <1>2, <1>3, <1>4 DEF Monitors

(* ... and no step gives it one.                                            *)
LEMMA UnfaultedStep ==
  ASSUME Safety, Unfaulted, NoConverge', [Next]_vars
  PROVE  Unfaulted'
<1>1. Threading /\ todo \in [Threads -> Seq(Plans)] /\ "monitor" \in Threads
      /\ "monitor" \notin Workers
  BY Apiece DEF Safety, Typing, Threaded, Threading, Threads
<1>2. SUFFICES ASSUME todo'["monitor"] # todo["monitor"]
               PROVE  Unfaulted'
  BY DEF Unfaulted
<1>3. ASSUME NEW t \in Threads, Works(t)
      PROVE  Unfaulted'
  <2>1. t = "monitor"
    BY <1>1, <1>2, <1>3, OtherThreads
  <2> QED
    BY <1>2, <1>3, <2>1, MonitorGoes, UnfaultedOn
<1>4. CASE Crash
  <2>1. todo'["monitor"] = << >>
    BY <1>1, <1>4 DEF Crash
  <2> QED
    BY <2>1 DEF Unfaulted, Lacks
<1>5. CASE Monitors
  BY <1>5, UnfaultedMonitors
<1>6. ~\E t \in Workers, action \in asked : \E gs \in Scopes(action) : Begin(t, action, gs)
  BY <1>1, <1>2 DEF Begin
<1>7. ~Owns
  BY <1>1, <1>2 DEF Owns, OwnerBegins, OwnerReads, TakesOver, Continue
<1>8. ~(\E c \in pending : TakesEffect(c)) /\ ~\E g \in Groups : SessionEnds(g) \/ ControllersStop(g)
  BY <1>2 DEF TakesEffect, SessionEnds, ControllersStop, threadVars
<1>9. ~UNCHANGED vars
  BY <1>2 DEF vars, threadVars
<1> QED
  BY <1>3, <1>4, <1>5, <1>6, <1>7, <1>8, <1>9 DEF Next

-----------------------------------------------------------------------------
(* What holds always.                                                       *)

(* The rules hold at first, ...                                             *)
LEMMA TendedStarts ==
  ASSUME Init
  PROVE  Tended /\ Unfaulted
<1>1. /\ ownerChecked = FALSE /\ op = [t \in Threads |-> ""] /\ todo = [t \in Threads |-> << >>]
      /\ held = [t \in Threads |-> {}] /\ "owner" \in Threads /\ "monitor" \in Threads
  BY DEF Init, Threads
<1>2. (\A t \in Threads : StartsLast(todo[t])) /\ Taking(todo["owner"]) /\ todo["owner"] = << >>
  BY <1>1, NothingLands, NothingTaken
<1>3. Tended
  BY <1>1, <1>2 DEF Tended, Kept, TakenOver
<1>4. Unfaulted
  <2>1. todo["monitor"] = << >>
    BY <1>1
  <2> QED
    BY <2>1 DEF Unfaulted, Lacks
<1> QED
  BY <1>3, <1>4

(* ... and go on to hold, ...                                               *)
LEMMA TendedStep ==
  ASSUME NoOrphans, "halt" \notin Unreliable, Safety, Tended, Unfaulted, NoConverge, NoConverge',
         [Next]_vars
  PROVE  Tended'
<1>1. Typing'
  BY SafetyStep DEF Safety
<1>2. CASE UNCHANGED vars
  BY <1>1, <1>2, TendsEnvironment
<1>3. ASSUME NEW t \in Workers, NEW action \in asked, NEW gs \in Scopes(action), Begin(t, action, gs)
      PROVE  Tended'
  BY <1>1, <1>3, TendsBegin
<1>4. ASSUME NEW t \in Threads, Works(t)
      PROVE  Tended'
  BY <1>1, <1>4, TendsWorks
<1>5. CASE Monitors
  BY <1>1, <1>5, TendsMonitorBegins, TendsLooks, TendsConfirms, TendsCondemns DEF Monitors
<1>6. CASE Owns
  BY <1>1, <1>6, TendsOwnerBegins, TendsOwnerReads, TendsTakesOver DEF Owns
<1>7. CASE Crash
  BY <1>7, TendsCrash
<1>8. ASSUME NEW c \in pending, TakesEffect(c)
      PROVE  Tended'
  BY <1>1, <1>8, TendsTakesEffect
<1>9. ASSUME NEW g \in Groups, SessionEnds(g) \/ ControllersStop(g)
      PROVE  Tended'
  BY <1>1, <1>9, TendsEnvironment
<1> QED
  BY <1>2, <1>3, <1>4, <1>5, <1>6, <1>7, <1>8, <1>9 DEF Next

(* ... and what they say of a group that may move.                          *)
LEMMA TendedShows ==
  ASSUME Safety, Tended
  PROVE  Watched
<1>1. SUFFICES ASSUME NEW g \in Groups, ownerChecked, phase[g] = "open", ~AtWork(g), state[g] # "Running"
               PROVE  FALSE
  BY DEF Watched
<1>2. PICK t \in Threads : Coming(t, g)
  BY <1>1 DEF Tended, Kept, Still
<1> QED
  BY <1>1, <1>2 DEF Coming, Bad, Begun, Converging, Has, AtWork

(* While no call of a process outlives it, no halt fails and the monitor    *)
(* meets no exception that leads to converge(), which takes no lock: a      *)
(* group that may move and that no thread is working on is one the          *)
(* coordinator knows to be Running, so that its monitor looks after it.      *)
THEOREM WatchedHolds ==
  ASSUME NoOrphans, "halt" \notin Unreliable
  PROVE  Spec /\ []NoConverge => []Watched
<1>1. Init => Safety /\ Tended /\ Unfaulted
  BY SafetyStarts, TendedStarts
<1>2. Safety /\ Tended /\ Unfaulted /\ NoConverge /\ NoConverge' /\ [Next]_vars =>
        (Safety /\ Tended /\ Unfaulted)'
  BY SafetyStep, TendedStep, UnfaultedStep
<1>3. Safety /\ Tended => Watched
  BY TendedShows
<1> QED
  BY <1>1, <1>2, <1>3, PTL DEF Spec

(* Without the monitor's timer there is no monitor ...                      *)
LEMMA NoMonitor ==
  ASSUME NoOrphans, ~Monitored, Safety, op["monitor"] = "", [Next]_vars
  PROVE  op'["monitor"] = ""
<1>1. Threading /\ op \in [Threads -> Ops] /\ "monitor" \in Threads /\ "monitor" \notin Workers
      /\ todo["monitor"] = << >>
  BY Apiece DEF Safety, Typing, Threaded, Threading, Fits, Threads
<1>2. ASSUME NEW t \in Threads, Works(t)
      PROVE  op'["monitor"] = ""
  <2>1. t # "monitor"
    BY <1>1, <1>2 DEF Works, Answered, Refused, TimesOut, ReadFails, ReadsRobot, Checks, Transition,
                      Rebuilt, Assigns, Bumps, Halted, Records, Closes, Concludes, Ends, At
  <2> QED
    BY <1>1, <1>2, <2>1, OtherThreads
<1>3. ~Monitors
  BY <1>1 DEF Monitors, MonitorBegins, LocksDirty, ReadsStatus, ReadsResources, Suspects, Confirms,
              Condemns, At
<1>4. ASSUME NEW t \in Workers, NEW action \in asked, NEW gs \in Scopes(action), Begin(t, action, gs)
      PROVE  op'["monitor"] = ""
  BY <1>1, <1>4 DEF Begin
<1>5. CASE Owns
  BY <1>1, <1>5 DEF Owns, OwnerBegins, OwnerReads, TakesOver, Continue
<1>6. CASE Crash
  BY <1>1, <1>6 DEF Crash
<1>7. CASE \/ \E c \in pending : TakesEffect(c)
           \/ \E g \in Groups : SessionEnds(g) \/ ControllersStop(g)
           \/ UNCHANGED vars
  BY <1>7 DEF TakesEffect, SessionEnds, ControllersStop, vars, threadVars
<1> QED
  BY <1>2, <1>3, <1>4, <1>5, <1>6, <1>7 DEF Next

(* Where the monitor's timer does not run there is no converge() either, so  *)
(* Watched holds of all behaviours, as in the run of two groups: no          *)
(* operation, refusal, late call or takeover leaves a session open that       *)
(* nobody looks after (groups.py, check_owner and _stop).                    *)
THEOREM WatchedAlone ==
  ASSUME NoOrphans, "halt" \notin Unreliable, ~Monitored
  PROVE  Spec => []Watched
<1>1. Init => op["monitor"] = ""
  BY DEF Init, Threads
<1>2. Safety /\ op["monitor"] = "" /\ [Next]_vars => (op["monitor"] = "")'
  BY NoMonitor
<1>3. op["monitor"] = "" => NoConverge
  BY DEF NoConverge
<1>4. Spec => []Safety
  BY SafetyHolds
<1>5. Spec /\ []NoConverge => []Watched
  BY WatchedHolds
<1> QED
  BY <1>1, <1>2, <1>3, <1>4, <1>5, PTL DEF Spec
-----------------------------------------------------------------------------
(* The component is taken down by none who does not hold all groups.        *)

(* The steps that take it down, *)
Tearing == {"rebuild", "to_unconfigured", "unconfigured"}

(* the calls by which it leaves its active state, *)
Downs == {"inactive", "unconfigured"}

(* those that bring it up, *)
Lifters == {"to_active", "active"}

(* and what must not be done with a component that is down.                 *)
Lifting == Rising \cup {"running", "arm_unless_armed"}

(* It is up, and no late call takes it down.                                *)
Up == component = "active" /\ \A c \in pending : c.do \notin Downs

(* The list brings it up before it raises g, *)
Lifts(s, g) == Precedes(s, g, Lifters, Lifting)

(* or decides first whether it must.                                        *)
Asks(s, g) == Precedes(s, g, {"if_halted"}, Names \ {"if_halted"})

(* No step of A comes before one of B.                                      *)
Avoids(s, A, B) == \A i, j \in 1..Len(s) : i < j /\ s[j].do \in B => s[i].do \notin A

(* A transition is taken at once.                                           *)
Lone(s) == \A i \in 1..Len(s) : s[i].do \in Lifecycle =>
  \/ i = 1
  \/ i = 2 /\ s[1].do = "inactive" /\ s[2].do = "active" /\ s[2].on = s[1].on

(* What is taken down is so before it is brought up, and after the stops.   *)
Sane(s) == Avoids(s, Lifters \cup {"if_halted"}, Tearing) /\ Avoids(s, Tearing, {"halted"}) /\ Lone(s)

(* Who takes the component down holds all groups;                           *)
Whole(t) == Lacks(todo[t], Tearing) \/ held[t] = Groups

(* a thread that raises g knows that it is up, or brings it up before;      *)
RuleUp(t, g) ==
  \/ Up /\ Lacks(todo[t], Tearing)
  \/ Lifts(todo[t], g)
  \/ state[g] = "Halted" /\ Asks(todo[t], g)

(* The group is not armed and does not move.                                *)
Down(g) == Still(g) /\ state[g] \notin Live

(* one that takes it down has stopped g, or stops it before.                *)
RuleDown(t, g) == Lacks(todo[t], Tearing) \/ Down(g) \/ Has(todo[t], g, {"halted"})

(* One transition at a time, and none while a late one is outstanding.      *)
Lane == \A t \in Workers : At(t, Lifecycle) =>
  /\ \A u \in Workers : u # t => ~At(u, Lifecycle)
  /\ \A c \in pending : c.do \notin Lifecycle
  /\ At(t, {"inactive"}) => component # "active"

(* A worker keeps these rules ... *)
Careful(t) == Sane(todo[t]) /\ Whole(t) /\ \A g \in held[t] : RuleUp(t, g) /\ RuleDown(t, g)

(* ... and while the component is down, or about to be, no group is armed   *)
(* or moves.                                                                *)
Lifted ==
  /\ \A t \in Workers : Careful(t)
  /\ Lane
  /\ ~Up => \A g \in Groups : Down(g)

-----------------------------------------------------------------------------
(* Which lists keep the rules.                                              *)

(* A list without the ones or without the others *)
LEMMA AvoidsIdle ==
  ASSUME NEW s, NEW A, NEW B, Lacks(s, A) \/ Lacks(s, B)
  PROVE  Avoids(s, A, B)
<1> QED
  BY DEF Avoids, Lacks

(* Two lists of which the first lacks the ones, or the second the others *)
LEMMA AvoidsJoin ==
  ASSUME NEW a \in Seq(Plans), NEW b \in Seq(Plans), NEW A, NEW B, Avoids(a, A, B), Avoids(b, A, B),
         Lacks(a, A) \/ Lacks(b, B)
  PROVE  Avoids(a \o b, A, B)
<1> DEFINE s == a \o b
<1>1. /\ s \in Seq(Plans) /\ Len(a) \in Nat /\ Len(b) \in Nat /\ Len(s) = Len(a) + Len(b)
      /\ \A i \in 1..Len(a) : i \in 1..Len(s) /\ s[i] = a[i]
      /\ \A i \in 1..Len(b) : Len(a) + i \in 1..Len(s) /\ s[Len(a) + i] = b[i]
      /\ \A k \in 1..Len(s) : k \in 1..Len(a) \/ \E i \in 1..Len(b) : k = Len(a) + i
  BY JoinedPlans
<1> HIDE DEF s
<1>2. SUFFICES ASSUME NEW i \in 1..Len(s), NEW j \in 1..Len(s), i < j, s[j].do \in B
               PROVE  s[i].do \notin A
  BY DEF Avoids, s
<1>3. CASE j \in 1..Len(a)
  <2>1. i \in 1..Len(a) /\ s[i] = a[i] /\ s[j] = a[j]
    BY <1>1, <1>2, <1>3
  <2> QED
    BY <1>2, <1>3, <2>1 DEF Avoids
<1>4. ASSUME NEW k \in 1..Len(b), j = Len(a) + k
      PROVE  s[i].do \notin A
  <2>1. s[j] = b[k]
    BY <1>1, <1>4
  <2>2. CASE i \in 1..Len(a)
    <3>1. s[i] = a[i]
      BY <1>1, <2>2
    <3> QED
      BY <1>2, <2>1, <2>2, <3>1 DEF Lacks
  <2>3. ASSUME NEW m \in 1..Len(b), i = Len(a) + m
        PROVE  s[i].do \notin A
    <3>1. m < k /\ s[i] = b[m]
      BY <1>1, <1>2, <1>4, <2>3
    <3> QED
      BY <1>2, <2>1, <3>1 DEF Avoids
  <2> QED
    BY <1>1, <2>2, <2>3
<1> QED
  BY <1>1, <1>3, <1>4

(* The rest of a list, ... *)
LEMMA AvoidsRest ==
  ASSUME NEW s \in Seq(Plans), s # << >>, NEW A, NEW B, Avoids(s, A, B)
  PROVE  Avoids(Tail(s), A, B) /\ (s[1].do \in A => Lacks(Tail(s), B))
<1> DEFINE r == Tail(s)
<1>1. /\ Len(r) = Len(s) - 1 /\ Len(s) \in Nat /\ 1 \in 1..Len(s)
      /\ \A i \in 1..Len(r) : i + 1 \in 1..Len(s) /\ r[i] = s[i + 1]
  BY Rest
<1> HIDE DEF r
<1>2. ASSUME NEW i \in 1..Len(r), NEW j \in 1..Len(r), i < j, r[j].do \in B
      PROVE  r[i].do \notin A
  <2>1. i + 1 < j + 1
    BY <1>2
  <2> QED
    BY <1>1, <1>2, <2>1 DEF Avoids
<1>3. ASSUME s[1].do \in A, NEW j \in 1..Len(r)
      PROVE  r[j].do \notin B
  <2>1. 1 < j + 1
    OBVIOUS
  <2> QED
    BY <1>1, <1>3, <2>1 DEF Avoids
<1> QED
  BY <1>2, <1>3 DEF Avoids, Lacks, r

(* ... and what is left of it when some steps are dropped.                  *)
LEMMA AvoidsLess ==
  ASSUME NEW s \in Seq(Plans), NEW D, NEW A, NEW B, Avoids(s, A, B)
  PROVE  Avoids(Without(s, D), A, B)
<1> DEFINE w == Without(s, D)
<1>1. PICK place \in [1..Len(w) -> 1..Len(s)] :
        /\ \A i \in 1..Len(w) : w[i] = s[place[i]]
        /\ \A i, j \in 1..Len(w) : i < j => place[i] < place[j]
  BY WithoutEmbeds
<1> HIDE DEF w
<1>2. ASSUME NEW i \in 1..Len(w), NEW j \in 1..Len(w), i < j, w[j].do \in B
      PROVE  w[i].do \notin A
  <2>1. place[i] \in 1..Len(s) /\ place[j] \in 1..Len(s) /\ place[i] < place[j]
    BY <1>1, <1>2
  <2>2. w[i] = s[place[i]] /\ w[j] = s[place[j]]
    BY <1>1
  <2> QED
    BY <1>2, <2>1, <2>2 DEF Avoids
<1>3. Avoids(w, A, B)
  BY <1>2 DEF Avoids
<1> QED
  BY <1>3 DEF w

(* The transitions that are left after the first step of a list             *)
LEMMA LoneRest ==
  ASSUME NEW s \in Seq(Plans), s # << >>, Lone(s)
  PROVE  /\ Lone(Tail(s))
         /\ s[1].do # "inactive" => Lacks(Tail(s), Lifecycle)
         /\ \A i \in 1..Len(Tail(s)) : Tail(s)[i].do \in Lifecycle => Tail(s)[i].on = s[1].on
         /\ Tail(s) # << >> /\ Tail(s)[1].do \in Lifecycle => s[1].do = "inactive" /\ Tail(s)[1].do = "active"
<1> DEFINE r == Tail(s)
<1>1. /\ r \in Seq(Plans) /\ Len(r) = Len(s) - 1 /\ Len(s) \in Nat /\ 1 \in 1..Len(s)
      /\ \A i \in 1..Len(r) : i + 1 \in 1..Len(s) /\ r[i] = s[i + 1]
  BY Rest
<1> HIDE DEF r
<1>2. ASSUME NEW i \in 1..Len(r), r[i].do \in Lifecycle
      PROVE  i = 1 /\ s[1].do = "inactive" /\ r[i].on = s[1].on /\ r[i].do = "active"
  BY <1>1, <1>2 DEF Lone
<1>3. r # << >> => 1 \in 1..Len(r)
  BY <1>1
<1> QED
  BY <1>2, <1>3 DEF Lone, Lacks, r

(* A list without transitions is no worse for one before it.                *)
LEMMA LoneJoin ==
  ASSUME NEW a \in Seq(Plans), NEW b \in Seq(Plans), Lone(a), Lacks(b, Lifecycle)
  PROVE  Lone(a \o b)
<1> DEFINE s == a \o b
<1>1. /\ s \in Seq(Plans) /\ Len(a) \in Nat /\ Len(b) \in Nat /\ Len(s) = Len(a) + Len(b)
      /\ \A i \in 1..Len(a) : i \in 1..Len(s) /\ s[i] = a[i]
      /\ \A i \in 1..Len(b) : Len(a) + i \in 1..Len(s) /\ s[Len(a) + i] = b[i]
      /\ \A k \in 1..Len(s) : k \in 1..Len(a) \/ \E i \in 1..Len(b) : k = Len(a) + i
  BY JoinedPlans
<1> HIDE DEF s
<1>2. SUFFICES ASSUME NEW i \in 1..Len(s), s[i].do \in Lifecycle, i # 1
               PROVE  i = 2 /\ s[1].do = "inactive" /\ s[2].do = "active" /\ s[2].on = s[1].on
  BY DEF Lone, s
<1>3. i \in 1..Len(a) /\ s[i] = a[i]
  BY <1>1, <1>2 DEF Lacks
<1>4. 1 \in 1..Len(a) /\ s[1] = a[1]
  BY <1>1, <1>3
<1> QED
  BY <1>2, <1>3, <1>4 DEF Lone

(* The list may be dropped from.                                            *)
LEMMA LackingLone ==
  ASSUME NEW s, Lacks(s, Lifecycle)
  PROVE  Lone(s)
<1> QED
  BY DEF Lacks, Lone

(* A list that neither brings up nor takes down *)
LEMMA SaneTame ==
  ASSUME NEW s, Lacks(s, Tearing), Lacks(s, Lifecycle)
  PROVE  Sane(s)
<1> QED
  BY AvoidsIdle, LackingLone DEF Sane

(* A list that raises nothing *)
LEMMA Unlifted ==
  ASSUME NEW s, Lacks(s, Lifting)
  PROVE  \A g : Lifts(s, g)
<1> QED
  BY DEF Lacks, Lifts, Precedes

(* One that is for other groups *)
LEMMA LiftsElsewhere ==
  ASSUME NEW s, NEW gs, On(s, gs)
  PROVE  \A g : g \notin gs => Lifts(s, g) /\ Asks(s, g)
<1> QED
  BY DEF On, Lifts, Asks, Precedes

(* A list that keeps the rules after its first step, with others before it, *)
LEMMA SaneOn ==
  ASSUME NEW s \in Seq(Plans), s # << >>, Sane(s), NEW steps \in Seq(Plans), Lone(steps),
         steps = << >> \/ s[1].do # "inactive", Lacks(steps, {"halted"}),
         Lacks(steps, Tearing) \/ (s[1].do \in Tearing /\ Lacks(steps, Lifters \cup {"if_halted"})),
         Lacks(steps, Lifters \cup {"if_halted"}) \/ s[1].do \in Lifters \cup {"if_halted"}
  PROVE  /\ Sane(steps \o Tail(s))
         /\ Lacks(s, Tearing) => Lacks(steps \o Tail(s), Tearing)
<1> DEFINE r == Tail(s)
           raisers == Lifters \cup {"if_halted"}
<1>1. r \in Seq(Plans) /\ Lone(r) /\ (s[1].do # "inactive" => Lacks(r, Lifecycle))
  BY Rest, LoneRest DEF Sane
<1>2. /\ Avoids(r, raisers, Tearing) /\ (s[1].do \in raisers => Lacks(r, Tearing))
      /\ Avoids(r, Tearing, {"halted"}) /\ (s[1].do \in Tearing => Lacks(r, {"halted"}))
  BY AvoidsRest DEF Sane
<1>3. Lacks(s, Tearing) => Lacks(r, Tearing) /\ s[1].do \notin Tearing
  BY RestAll
<1> HIDE DEF r
<1>4. Lone(steps \o r)
  <2>1. CASE steps = << >>
    BY <1>1, <2>1, JoinEmpty
  <2>2. CASE s[1].do # "inactive"
    BY <1>1, <2>2, LoneJoin
  <2> QED
    BY <2>1, <2>2
<1>5. Avoids(steps, raisers, Tearing) /\ (Lacks(steps, raisers) \/ Lacks(r, Tearing))
  BY <1>2, AvoidsIdle
<1>6. Avoids(steps \o r, raisers, Tearing)
  BY <1>1, <1>2, <1>5, AvoidsJoin
<1>7. Avoids(steps, Tearing, {"halted"}) /\ (Lacks(steps, Tearing) \/ Lacks(r, {"halted"}))
  BY <1>2, AvoidsIdle
<1>8. Avoids(steps \o r, Tearing, {"halted"})
  BY <1>1, <1>2, <1>7, AvoidsJoin
<1>9. Lacks(s, Tearing) => Lacks(steps \o r, Tearing)
  BY <1>1, <1>3, LacksJoin
<1> QED
  BY <1>4, <1>6, <1>8, <1>9 DEF Sane, r

(* what is left of it when some steps are dropped, *)
LEMMA SaneLess ==
  ASSUME NEW s \in Seq(Plans), Sane(s), NEW D, Lacks(Without(s, D), Lifecycle)
  PROVE  Sane(Without(s, D))
<1> QED
  BY AvoidsLess, LackingLone DEF Sane

(* and what follows an exception.                                           *)
LEMMA SaneAfter ==
  ASSUME Threading, NEW t \in Workers, todo[t] # << >>, op[t] \notin Dropping, Sane(todo[t])
  PROVE  LET s == todo[t]
             h == s[1].on
             a == After(t)
         IN  /\ Sane(a) /\ Lacks(a, Lifecycle) /\ (Lacks(s, Tearing) => Lacks(a, Tearing))
             /\ Lifts(a, h) /\ Has(a, h, {"halted"})
             /\ \A g : g # h => /\ Lifts(s, g) => Lifts(a, g)
                                /\ Asks(s, g) => Asks(a, g)
                                /\ Has(s, g, {"halted"}) => Has(a, g, {"halted"})
<1> DEFINE s == todo[t]
           h == s[1].on
           r == Tail(s)
           f == StopToFault(h)
           D == {x \in ToSet(r) : x.on = h}
           w == WithoutGroup(r, h)
           raisers == Lifters \cup {"if_halted"}
<1>1. t \in Threads /\ t # "owner" /\ t # "monitor" /\ s \in Seq(Plans) /\ s # << >>
  BY Apiece, HeadFacts DEF Threads
<1>2. h \in Groups /\ f \in Seq(Plans) /\ w \in Seq(Plans) /\ After(t) = f \o w
  BY <1>1, AfterSuits DEF After
<1>3. /\ r \in Seq(Plans) /\ Lone(r)
      /\ \A i \in 1..Len(r) : r[i].do \in Lifecycle => r[i].on = h
  BY <1>1, Rest, LoneRest DEF Sane
<1>4. /\ Avoids(r, raisers, Tearing) /\ Avoids(r, Tearing, {"halted"})
      /\ Lacks(s, Tearing) => Lacks(r, Tearing)
  BY <1>1, AvoidsRest, RestAll DEF Sane
<1>5. /\ \A k \in 1..Len(w) : w[k].on # h
      /\ \A g, names : g # h /\ Has(r, g, names) => Has(w, g, names)
      /\ \A names : Lacks(r, names) => Lacks(w, names)
      /\ \A g, first, then : g # h /\ Precedes(r, g, first, then) => Precedes(w, g, first, then)
  BY <1>3, RestWithout
<1>6. \A g : g # h => /\ Lifts(s, g) => Lifts(r, g)
                      /\ Asks(s, g) => Asks(r, g)
                      /\ Has(s, g, {"halted"}) => Has(r, g, {"halted"})
  BY <1>1, RestPrecedes, RestAll DEF Lifts, Asks
<1>7. w = Without(r, D)
  BY DEF WithoutGroup
<1>8. Uses(f, FaultNames) /\ Has(f, h, {"halted"}) /\ On(f, {h})
  <2>1. Stop(h) \in Seq(Plans) /\ Has(Stop(h), h, {"halted"})
    BY <1>2, StopSound, StopHalts
  <2>2. Steps(<<"fault">>, h) \in Seq(Plans)
    BY <1>2, OneStep DEF Names, Assigned, Starters
  <2>3. f = Stop(h) \o Steps(<<"fault">>, h)
    BY DEF StopToFault
  <2> HIDE DEF h, f
  <2>4. Has(f, h, {"halted"})
    BY <2>1, <2>2, <2>3, JoinedAll
  <2> QED
    BY <1>2, <2>4, StopToFaultSound DEF Sound, f
<1> HIDE DEF s, h, f, w, D, r
<1>9. Lacks(f, Tearing) /\ Lacks(f, Lifecycle) /\ Lacks(f, raisers) /\ Lacks(f, Lifting)
  BY <1>8 DEF Uses, Lacks, FaultNames, StopNames, Tearing, Lifecycle, Lifters, Lifting, Rising
<1>10. Lacks(w, Lifecycle)
  <2>1. PICK place \in [1..Len(w) -> 1..Len(r)] : \A i \in 1..Len(w) : w[i] = r[place[i]]
    BY <1>3, <1>7, WithoutEmbeds
  <2> QED
    BY <1>3, <1>5, <2>1 DEF Lacks
<1>11. Lacks(f \o w, Lifecycle) /\ (Lacks(s, Tearing) => Lacks(f \o w, Tearing))
  BY <1>2, <1>4, <1>5, <1>9, <1>10, LacksJoin
<1>12. Avoids(f \o w, raisers, Tearing) /\ Avoids(f \o w, Tearing, {"halted"})
  <2>1. Avoids(w, raisers, Tearing) /\ Avoids(w, Tearing, {"halted"})
    BY <1>3, <1>4, <1>7, AvoidsLess
  <2>2. Avoids(f, raisers, Tearing) /\ Avoids(f, Tearing, {"halted"})
    BY <1>9, AvoidsIdle
  <2> QED
    BY <1>2, <1>9, <2>1, <2>2, AvoidsJoin
<1>13. Sane(f \o w)
  BY <1>11, <1>12, LackingLone DEF Sane
<1>14. Has(f \o w, h, {"halted"})
  BY <1>2, <1>8, JoinedAll
<1>15. Lifts(f \o w, h)
  <2>1. Lifts(f, h)
    BY <1>9, Unlifted
  <2>2. Lifts(w, h)
    BY <1>5 DEF Lifts, Precedes
  <2> QED
    BY <1>2, <2>1, <2>2, JoinedPrecedes DEF Lifts
<1>16. ASSUME NEW g, g # h
       PROVE  /\ Lifts(s, g) => Lifts(f \o w, g)
              /\ Asks(s, g) => Asks(f \o w, g)
              /\ Has(s, g, {"halted"}) => Has(f \o w, g, {"halted"})
  <2>1. Lifts(f, g) /\ Asks(f, g)
    BY <1>8, <1>16, LiftsElsewhere
  <2>2. Lifts(s, g) => Lifts(w, g)
    BY <1>5, <1>6, <1>16 DEF Lifts
  <2>3. Asks(s, g) => Asks(w, g)
    BY <1>5, <1>6, <1>16 DEF Asks
  <2>4. Has(s, g, {"halted"}) => Has(w, g, {"halted"})
    BY <1>5, <1>6, <1>16
  <2>5. Lifts(s, g) => Lifts(f \o w, g)
    BY <1>2, <2>1, <2>2, JoinedPrecedes DEF Lifts
  <2>6. Asks(s, g) => Asks(f \o w, g)
    BY <1>2, <2>1, <2>3, JoinedPrecedes DEF Asks
  <2> QED
    BY <1>2, <2>4, <2>5, <2>6, JoinedAll
<1> QED
  BY <1>2, <1>11, <1>13, <1>14, <1>15, <1>16 DEF s, h

(* What is left of a transaction does nothing with the component.           *)
LEMMA SaneUndoes ==
  ASSUME NEW t, todo[t][1].on \in Groups
  PROVE  LET a == Undoes(t)
         IN  Sane(a) /\ Lacks(a, Lifecycle) /\ Lacks(a, Tearing) /\ \A g : Lifts(a, g)
<1> DEFINE h == todo[t][1].on
           a == Undoes(t)
           one == <<"maintained">>
           two == <<"roll_back", "maintained">>
<1>1. a = Steps(one, h) \/ a = Steps(two, h) \/ a = << >>
  BY DEF Undoes
<1>2. one \in Seq(Names) /\ two \in Seq(Names) /\ h \in Groups \cup {"all"}
  BY DEF Names, Assigned
<1>3. (\A i \in 1..Len(one) : one[i] \in {"roll_back", "maintained"})
      /\ \A i \in 1..Len(two) : two[i] \in {"roll_back", "maintained"}
  OBVIOUS
<1> HIDE DEF one, two, h, a
<1>4. Uses(Steps(one, h), {"roll_back", "maintained"}) /\ Uses(Steps(two, h), {"roll_back", "maintained"})
  BY <1>2, <1>3, StepsSet
<1>5. Uses(a, {"roll_back", "maintained"})
  BY <1>1, <1>4 DEF Uses
<1>6. Lacks(a, Lifecycle) /\ Lacks(a, Tearing) /\ Lacks(a, Lifting)
  BY <1>5 DEF Uses, Lacks, Lifecycle, Tearing, Lifting, Rising
<1> QED
  BY <1>6, SaneTame, Unlifted DEF a

(* The other rebuilds are dropped.                                          *)
LEMMA SaneRebuilt ==
  ASSUME NEW s \in Seq(Plans), s # << >>, s[1].do = "rebuilt", Sane(s)
  PROVE  LET w == WithoutName(Tail(s), "rebuild")
         IN  /\ Sane(w) /\ Lacks(w, Lifecycle) /\ (Lacks(s, Tearing) => Lacks(w, Tearing))
             /\ \A g : /\ Lifts(s, g) => Lifts(w, g)
                       /\ Asks(s, g) => Asks(w, g)
                       /\ Has(s, g, {"halted"}) => Has(w, g, {"halted"})
<1> DEFINE r == Tail(s)
           D == {x \in ToSet(r) : x.do = "rebuild"}
           w == Without(r, D)
<1>1. /\ r \in Seq(Plans) /\ Lacks(r, Lifecycle) /\ Avoids(r, Lifters \cup {"if_halted"}, Tearing)
      /\ Avoids(r, Tearing, {"halted"}) /\ (Lacks(s, Tearing) => Lacks(r, Tearing)) /\ Sane(r)
  BY Rest, RestAll, LoneRest, AvoidsRest DEF Sane
<1>2. \A x \in D : x.do = "rebuild"
  OBVIOUS
<1>3. w = WithoutName(r, "rebuild")
  BY DEF WithoutName
<1> HIDE DEF D, w, r
<1>4. Lacks(w, Lifecycle) /\ (Lacks(s, Tearing) => Lacks(w, Tearing))
  BY <1>1, WithoutAll DEF w
<1>5. Sane(w)
  BY <1>1, <1>4, SaneLess DEF w
<1>6. ASSUME NEW g
      PROVE  /\ Lifts(s, g) => Lifts(w, g)
             /\ Asks(s, g) => Asks(w, g)
             /\ Has(s, g, {"halted"}) => Has(w, g, {"halted"})
  <2>1. /\ Lifts(s, g) => Lifts(r, g)
        /\ Asks(s, g) => Asks(r, g)
        /\ Has(s, g, {"halted"}) => Has(r, g, {"halted"})
    BY RestPrecedes, RestAll DEF Lifts, Asks, Lifters, r
  <2>2. (\A x \in D : x.on # g \/ x.do \notin Lifters) /\ (\A x \in D : x.on # g \/ x.do \notin {"if_halted"})
        /\ (\A x \in D : x.on # g \/ x.do \notin {"halted"})
    BY <1>2 DEF Lifters
  <2>3. Lifts(r, g) => Lifts(w, g)
    BY <1>1, <2>2, WithoutPrecedes DEF Lifts, w
  <2>4. Asks(r, g) => Asks(w, g)
    BY <1>1, <2>2, WithoutPrecedes DEF Asks, w
  <2>5. Has(r, g, {"halted"}) => Has(w, g, {"halted"})
    BY <1>1, <2>2, WithoutAll DEF w
  <2> QED
    BY <2>1, <2>3, <2>4, <2>5
<1> QED
  BY <1>3, <1>4, <1>5, <1>6 DEF r

(* The steps of the operations that neither take down nor are transitions   *)
Common == SafeNames \cup ArmNames \cup StopNames \cup StartNames \cup MaintainNames
            \cup {"if_halted", "unless_armed", "arm_unless_armed", "stopped", "switched"}

(* A list of them                                                           *)
LEMMA CommonTame ==
  ASSUME NEW s, Uses(s, Common)
  PROVE  Lacks(s, Tearing) /\ Lacks(s, Lifecycle) /\ Sane(s)
<1>1. Common \cap Tearing = {} /\ Common \cap Lifecycle = {}
  BY DEF Common, SafeNames, InitNames, PrepareNames, AcknowledgeNames, ArmNames, StopNames, StartNames,
         MaintainNames, Tearing, Lifecycle
<1> QED
  BY <1>1, UsesLacks, SaneTame

(* A list after another that has the first for its groups                   *)
LEMMA PrecedesAfter ==
  ASSUME NEW gs, NEW a \in Seq(Plans), NEW b \in Seq(Plans), NEW first, NEW then, On(b, gs),
         \A g : Precedes(a, g, first, then), \A g \in gs : Has(a, g, first)
  PROVE  \A g : Precedes(a \o b, g, first, then)
<1> SUFFICES ASSUME NEW g
             PROVE  Precedes(a \o b, g, first, then)
  OBVIOUS
<1>1. g \notin gs => Precedes(b, g, first, then)
  BY Idle DEF On
<1>2. Precedes(a, g, first, then)
  OBVIOUS
<1> QED
  BY <1>1, <1>2, JoinedPrecedes

(* or before one that raises nothing before it brings up.                   *)
LEMMA LiftsJoin ==
  ASSUME NEW a \in Seq(Plans), NEW b \in Seq(Plans), \A g : Lifts(a, g), \A g : Lifts(b, g)
  PROVE  a \o b \in Seq(Plans) /\ \A g : Lifts(a \o b, g)
<1>1. ASSUME NEW g
      PROVE  Lifts(a \o b, g)
  <2>1. Precedes(a, g, Lifters, Lifting) /\ Precedes(b, g, Lifters, Lifting)
    BY DEF Lifts
  <2> QED
    BY <2>1, JoinedPrecedes DEF Lifts
<1> QED
  BY <1>1, JoinedPlans

LEMMA LiftsAfter ==
  ASSUME NEW gs, NEW a \in Seq(Plans), NEW b \in Seq(Plans), On(b, gs), \A g : Lifts(a, g),
         \A g \in gs : Has(a, g, Lifters)
  PROVE  a \o b \in Seq(Plans) /\ \A g : Lifts(a \o b, g)
<1>1. \A g : Precedes(a, g, Lifters, Lifting)
  BY DEF Lifts
<1>2. \A g : Precedes(a \o b, g, Lifters, Lifting)
  BY <1>1, PrecedesAfter
<1> QED
  BY <1>2, JoinedPlans DEF Lifts

(* The preparation brings the component up.                                 *)
LEMMA PrepareLifts ==
  ASSUME NEW g \in Groups
  PROVE  Has(Prepare(g), g, Lifters)
<1>1. Len(Prepare(g)) = 5 /\ Prepare(g)[3].do = "to_active" /\ Prepare(g)[3].on = g
  <2>1. 3 \in 1..5 /\ <<"may_prepare", "lingering", "to_active", "prepare", "ready">>[3] = "to_active"
    OBVIOUS
  <2> QED
    BY <2>1, PrepareBlock
<1>2. 3 \in 1..Len(Prepare(g)) /\ "to_active" \in Lifters
  BY <1>1 DEF Lifters
<1> QED
  BY <1>1, <1>2 DEF Has

LEMMA PreparesLift ==
  ASSUME NEW gs \in SUBSET Groups
  PROVE  \A g \in gs : Has(Prepares(gs), g, Lifters)
<1> DEFINE steps == [g \in gs |-> Prepare(g)]
<1>1. \A h \in gs : Sound(steps[h], {h}) /\ Has(steps[h], h, Lifters)
  BY PrepareBlock, PrepareLifts DEF Sound
<1>2. DOMAIN steps = gs /\ steps = [h \in gs |-> steps[h]] /\ Prepares(gs) = Each(steps)
  BY DEF Prepares
<1> HIDE DEF steps
<1>3. IsFiniteSet(gs) /\ steps \in [gs -> Seq(Plans)]
  BY <1>1, <1>2, SoundEach
<1> QED
  <2>1. ASSUME NEW g \in gs
        PROVE  Has(Each(steps), g, Lifters)
    BY <1>1, <1>3, EachReaches
  <2> QED
    BY <1>2, <2>1

(* What is safe raises nothing.                                             *)
LEMMA SafeUnlifted ==
  ASSUME NEW s, Uses(s, SafeNames \cup StopNames \cup MaintainNames \cup {"stopped", "switched"})
  PROVE  Lacks(s, Lifting) /\ Uses(s, Common) /\ \A g : Lifts(s, g)
<1> DEFINE E == SafeNames \cup StopNames \cup MaintainNames \cup {"stopped", "switched"}
<1>1. E \cap Lifting = {} /\ E \subseteq Common
  BY DEF SafeNames, InitNames, PrepareNames, AcknowledgeNames, StopNames, MaintainNames, Lifting, Rising,
         Common
<1> HIDE DEF E
<1>2. Uses(s, E)
  BY DEF E
<1>3. Lacks(s, Lifting)
  BY <1>1, <1>2, UsesLacks
<1> QED
  BY <1>1, <1>2, <1>3, Unlifted DEF Uses

(* A phase that prepares and arms, ...                                      *)
LEMMA EnablesLift ==
  ASSUME NEW gs \in SUBSET Groups
  PROVE  /\ Enables(gs) \in Seq(Plans) /\ Uses(Enables(gs), Common) /\ \A g : Lifts(Enables(gs), g)
         /\ Rearms(gs) \in Seq(Plans) /\ Uses(Rearms(gs), Common) /\ \A g : Lifts(Rearms(gs), g)
<1> DEFINE a == Prepares(gs) \o Acknowledges(gs)
<1>1. /\ Prepares(gs) \in Seq(Plans) /\ Acknowledges(gs) \in Seq(Plans) /\ Arms(gs) \in Seq(Plans)
      /\ On(Arms(gs), gs) /\ Inits(gs) \in Seq(Plans) /\ Uses(Inits(gs), SafeNames)
  BY Phase DEF Sound, SafeNames, Uses
<1>2. Uses(a, SafeNames) /\ Enables(gs) = a \o Arms(gs)
  BY EnablesSound DEF Prepared, Enables
<1> HIDE DEF a
<1>3. a \in Seq(Plans)
  BY <1>1, JoinedPlans DEF a
<1>4. (\A g : Lifts(a, g)) /\ \A g : Lifts(Inits(gs), g)
  BY <1>1, <1>2, SafeUnlifted DEF Uses
<1>5. \A g \in gs : Has(a, g, Lifters)
  BY <1>1, PreparesLift, JoinedAll DEF a
<1>6. Enables(gs) \in Seq(Plans) /\ \A g : Lifts(Enables(gs), g)
  <2>1. Arms(gs) \in Seq(Plans) /\ On(Arms(gs), gs)
    BY <1>1
  <2>2. a \o Arms(gs) \in Seq(Plans) /\ \A g : Lifts(a \o Arms(gs), g)
    BY <2>1, <1>3, <1>4, <1>5, LiftsAfter
  <2> QED
    BY <1>2, <2>2
<1>7. Rearms(gs) = Inits(gs) \o Enables(gs)
  BY DEF Rearms
<1>8. Rearms(gs) \in Seq(Plans) /\ \A g : Lifts(Rearms(gs), g)
  BY <1>1, <1>4, <1>6, <1>7, LiftsJoin
<1>9. Uses(Enables(gs), Common) /\ Uses(Rearms(gs), Common)
  BY EnablesSound, RearmsSound DEF Uses, Common
<1> QED
  BY <1>6, <1>8, <1>9

(* ... and a restart.                                                       *)
LEMMA RestartLifts ==
  ASSUME NEW g \in Groups
  PROVE  Restart(g) \in Seq(Plans) /\ Uses(Restart(g), Common) /\ \A h : Lifts(Restart(g), h)
<1> DEFINE one == Steps(<<"switched">>, g)
           a == one \o InitGroup(g)
           p == Prepare(g) \o Acknowledge(g)
           e == p \o Arm(g)
           b == a \o e
<1>1. Restart(g) = b \o Start(g)
  BY DEF Restart, Enable
<1>2. "switched" \in Names /\ "switched" \notin Starters
  BY DEF Names, Checked, Starters
<1>3. /\ one \in Seq(Plans) /\ Uses(one, {"switched"})
      /\ InitGroup(g) \in Seq(Plans) /\ Uses(InitGroup(g), InitNames)
      /\ Prepare(g) \in Seq(Plans) /\ Uses(Prepare(g), PrepareNames)
      /\ Acknowledge(g) \in Seq(Plans) /\ Uses(Acknowledge(g), AcknowledgeNames)
      /\ Arm(g) \in Seq(Plans) /\ Uses(Arm(g), ArmNames) /\ On(Arm(g), {g})
      /\ Start(g) \in Seq(Plans) /\ Uses(Start(g), StartNames) /\ On(Start(g), {g})
  BY <1>2, OneStep, InitGroupBlock, PrepareBlock, AcknowledgeBlock, ArmBlock, StartBlock
     DEF InitNames, PrepareNames, AcknowledgeNames, ArmNames, StartNames
<1> HIDE DEF one
<1>4. Uses(one, Common) /\ Uses(InitGroup(g), Common) /\ Uses(Prepare(g), Common)
      /\ Uses(Acknowledge(g), Common) /\ Uses(Arm(g), Common) /\ Uses(Start(g), Common)
  BY <1>3 DEF Uses, Common, SafeNames
<1>5. /\ \A h : Lifts(one, h)
      /\ \A h : Lifts(InitGroup(g), h)
      /\ \A h : Lifts(Prepare(g), h)
      /\ \A h : Lifts(Acknowledge(g), h)
  <2>1. ASSUME NEW s, Uses(s, {"switched"}) \/ Uses(s, InitNames) \/ Uses(s, PrepareNames)
                      \/ Uses(s, AcknowledgeNames)
        PROVE  \A h : Lifts(s, h)
    <3>1. Uses(s, SafeNames \cup StopNames \cup MaintainNames \cup {"stopped", "switched"})
      BY <2>1 DEF Uses, SafeNames
    <3> QED
      BY <3>1, SafeUnlifted
  <2> QED
    BY <1>3, <2>1
<1>6. a \in Seq(Plans) /\ Uses(a, Common) /\ \A h : Lifts(a, h)
  BY <1>3, <1>4, <1>5, LiftsJoin, JoinedSets
<1>7. p \in Seq(Plans) /\ Uses(p, Common) /\ Has(p, g, Lifters) /\ \A h : Lifts(p, h)
  <2>1. Has(p, g, Lifters)
    BY <1>3, PrepareLifts, JoinedAll
  <2> QED
    BY <2>1, <1>3, <1>4, <1>5, LiftsJoin, JoinedSets
<1> HIDE DEF a, p
<1>8. e \in Seq(Plans) /\ Uses(e, Common) /\ Has(e, g, Lifters) /\ \A h : Lifts(e, h)
  <2>1. Has(e, g, Lifters)
    BY <1>3, <1>7, JoinedAll
  <2>2. \A h \in {g} : Has(p, h, Lifters)
    BY <1>7
  <2>3. e \in Seq(Plans) /\ \A h : Lifts(e, h)
    <3>1. Arm(g) \in Seq(Plans) /\ On(Arm(g), {g}) /\ p \in Seq(Plans) /\ \A h : Lifts(p, h)
      BY <1>3, <1>7
    <3> QED
      BY <2>2, <3>1, LiftsAfter DEF e
  <2> QED
    BY <2>1, <2>3, <1>3, <1>4, <1>7, JoinedSets
<1> HIDE DEF e
<1>9. b \in Seq(Plans) /\ Uses(b, Common) /\ Has(b, g, Lifters) /\ \A h : Lifts(b, h)
  <2>1. Has(b, g, Lifters)
    BY <1>6, <1>8, JoinedAll
  <2> QED
    BY <2>1, <1>6, <1>8, LiftsJoin, JoinedSets
<1> HIDE DEF b
<1>10. \A h \in {g} : Has(b, h, Lifters)
  BY <1>9
<1>11. Restart(g) \in Seq(Plans) /\ \A h : Lifts(Restart(g), h)
  <2>1. Start(g) \in Seq(Plans) /\ On(Start(g), {g}) /\ b \in Seq(Plans) /\ \A h : Lifts(b, h)
    BY <1>3, <1>9
  <2>2. b \o Start(g) \in Seq(Plans) /\ \A h : Lifts(b \o Start(g), h)
    BY <1>10, <2>1, LiftsAfter
  <2> QED
    BY <1>1, <2>2
<1>12. Uses(Restart(g), Common)
  BY <1>1, <1>3, <1>4, <1>9, JoinedSets
<1> QED
  BY <1>11, <1>12

(* What the lists of the operations keep of these rules                     *)
Leveled(s, gs) ==
  /\ Sane(s) /\ Lacks(s, Lifecycle)
  /\ Lacks(s, Tearing) \/ (gs = Groups /\ \A g \in Groups : Has(s, g, {"halted"}))

LEMMA CommonLeveled ==
  ASSUME NEW s, Uses(s, Common), NEW gs
  PROVE  Leveled(s, gs) /\ Lacks(s, Tearing)
<1> QED
  BY CommonTame DEF Leveled

(* A rebuild: all groups are stopped before, and armed after it;            *)
LEMMA RebuildLifts ==
  LET s == Program("recover_resource", Groups)
  IN  Leveled(s, Groups) /\ \A g : Lifts(s, g)
<1> DEFINE s == Program("recover_resource", Groups)
           stops == Stops(Groups)
           one == Ones("rebuild", Groups)
           a == stops \o one
           r == Rearms(Groups)
           raisers == Lifters \cup {"if_halted"}
<1>1. s = a \o r
  BY DEF Program, Maintenance
<1>2. "rebuild" \in Names /\ "rebuild" \notin Followers /\ "rebuild" \notin Starters
  BY DEF Names, Checked, Followers, Starters
<1>3. /\ stops \in Seq(Plans) /\ Uses(stops, StopNames)
      /\ one \in Seq(Plans) /\ Uses(one, {"rebuild"})
      /\ r \in Seq(Plans) /\ Uses(r, SafeNames \cup ArmNames) /\ \A g : Lifts(r, g)
  <2>1. Groups \in SUBSET Groups
    OBVIOUS
  <2> QED
    BY <2>1, <1>2, Phase, OnePhase, RearmsSound, EnablesLift DEF Sound
<1>4. \A g \in Groups : Has(stops, g, {"halted"})
  BY StopsLand
<1> HIDE DEF stops, one, r, s
<1>5. /\ Lacks(stops, raisers) /\ Lacks(stops, Tearing) /\ Lacks(stops, Lifecycle) /\ Lacks(stops, Lifting)
      /\ Lacks(one, raisers) /\ Lacks(one, {"halted"}) /\ Lacks(one, Lifecycle) /\ Lacks(one, Lifting)
      /\ Lacks(r, Tearing) /\ Lacks(r, {"halted"}) /\ Lacks(r, Lifecycle)
  <2>1. /\ StopNames \cap raisers = {} /\ StopNames \cap Tearing = {} /\ StopNames \cap Lifecycle = {}
        /\ StopNames \cap Lifting = {}
    BY DEF StopNames, Lifters, Tearing, Lifecycle, Lifting, Rising
  <2>2. /\ {"rebuild"} \cap raisers = {} /\ {"rebuild"} \cap {"halted"} = {} /\ {"rebuild"} \cap Lifecycle = {}
        /\ {"rebuild"} \cap Lifting = {}
    BY DEF Lifters, Lifecycle, Lifting, Rising
  <2>3. LET E == SafeNames \cup ArmNames
        IN  E \cap Tearing = {} /\ E \cap {"halted"} = {} /\ E \cap Lifecycle = {}
    BY DEF SafeNames, InitNames, PrepareNames, AcknowledgeNames, ArmNames, Tearing, Lifecycle
  <2> HIDE DEF raisers
  <2> QED
    BY <1>3, <2>1, <2>2, <2>3, UsesLacks
<1> HIDE DEF raisers
<1>6. a \in Seq(Plans) /\ Lacks(a, raisers) /\ Lacks(a, Lifecycle) /\ Lacks(a, Lifting)
  BY <1>3, <1>5, LacksJoin, JoinedPlans
<1>7. Avoids(a, Tearing, {"halted"})
  BY <1>3, <1>5, AvoidsIdle, AvoidsJoin
<1>8. \A g \in Groups : Has(a, g, {"halted"})
  BY <1>3, <1>4, JoinedAll
<1>9. \A g : Lifts(a, g)
  BY <1>6, Unlifted
<1> HIDE DEF a
<1>10. Avoids(s, raisers, Tearing) /\ Avoids(s, Tearing, {"halted"})
  BY <1>1, <1>3, <1>5, <1>6, <1>7, AvoidsIdle, AvoidsJoin
<1>11. Lacks(s, Lifecycle)
  BY <1>1, <1>3, <1>5, <1>6, LacksJoin
<1>12. \A g \in Groups : Has(s, g, {"halted"})
  BY <1>1, <1>3, <1>6, <1>8, JoinedAll
<1>13. \A g : Lifts(s, g)
  BY <1>1, <1>3, <1>6, <1>9, LiftsJoin
<1>14. Sane(s)
  BY <1>10, <1>11, LackingLone DEF Sane, raisers
<1> QED
  BY <1>11, <1>12, <1>13, <1>14 DEF Leveled, s

(* a shutdown: of all groups if it takes the component down.                *)
LEMMA ShutdownLifts ==
  ASSUME NEW gs \in SUBSET Groups
  PROVE  LET s == Program("shutdown", gs)
         IN  Leveled(s, gs) /\ \A g : Lifts(s, g)
<1> DEFINE s == Program("shutdown", gs)
           steps == [g \in gs |-> Stop(g) \o Steps(<<"stopped">>, g)]
           down == IF Frees(gs) THEN Steps(<<"to_unconfigured">>, "all") ELSE << >>
           a == Each(steps)
           E == StopNames \cup {"stopped"}
           raisers == Lifters \cup {"if_halted"}
<1>1. s = a \o down
  BY DEF Program, Maintenance, Shuts
<1>2. \A h \in gs : Sound(steps[h], {h}) /\ Uses(steps[h], E) /\ Has(steps[h], h, {"halted"})
  <2>1. SUFFICES ASSUME NEW h \in gs
                 PROVE  LET c == Stop(h) \o Steps(<<"stopped">>, h)
                        IN  Sound(c, {h}) /\ Uses(c, E) /\ Has(c, h, {"halted"})
    OBVIOUS
  <2>2. "stopped" \in Names /\ "stopped" \notin Followers /\ "stopped" \notin Starters
    BY DEF Names, Assigned, Followers, Starters
  <2> DEFINE one == Steps(<<"stopped">>, h)
  <2>3. h \in Groups /\ one \in Seq(Plans) /\ Sound(one, {h}) /\ Uses(one, {"stopped"})
    BY <2>2, OneStep DEF Sound
  <2> HIDE DEF one
  <2>4. Stop(h) \in Seq(Plans) /\ Sound(Stop(h), {h}) /\ Uses(Stop(h), StopNames) /\ Has(Stop(h), h, {"halted"})
    BY <2>3, StopSound, StopHalts
  <2>5. Uses(one, E) /\ Uses(Stop(h), E)
    BY <2>3, <2>4 DEF Uses
  <2> HIDE DEF E
  <2> QED
    BY <2>3, <2>4, <2>5, SoundJoin, JoinedAll DEF one
<1>3. DOMAIN steps = gs /\ steps = [h \in gs |-> steps[h]]
  OBVIOUS
<1>4. down \in Seq(Plans) /\ Uses(down, {"to_unconfigured"}) /\ (down # << >> => gs = Groups)
  <2>1. "to_unconfigured" \in Names /\ "to_unconfigured" \notin Starters
    BY DEF Names, Others, Starters
  <2>2. CASE Frees(gs)
    BY <2>1, <2>2, OneStep DEF Frees
  <2>3. CASE ~Frees(gs)
    BY <2>3 DEF Uses
  <2> QED
    BY <2>2, <2>3
<1> HIDE DEF steps, down, s
<1>5. IsFiniteSet(gs) /\ steps \in [gs -> Seq(Plans)]
  BY <1>2, <1>3, SoundEach
<1>6. a \in Seq(Plans) /\ Uses(a, E) /\ \A g \in gs : Has(a, g, {"halted"})
  <2> HIDE DEF E
  <2>1. a \in Seq(Plans) /\ Uses(a, E)
    BY <1>2, <1>5, EachAll
  <2>2. \A g \in gs : Has(a, g, {"halted"})
    BY <1>2, <1>5, EachReaches
  <2> QED
    BY <2>1, <2>2
<1> HIDE DEF a
<1>7. /\ Lacks(a, raisers) /\ Lacks(a, Tearing) /\ Lacks(a, Lifecycle) /\ Lacks(a, Lifting)
      /\ Lacks(down, raisers) /\ Lacks(down, {"halted"}) /\ Lacks(down, Lifecycle) /\ Lacks(down, Lifting)
  <2>1. /\ E \cap raisers = {} /\ E \cap Tearing = {} /\ E \cap Lifecycle = {} /\ E \cap Lifting = {}
    BY DEF StopNames, Lifters, Tearing, Lifecycle, Lifting, Rising
  <2>2. LET D == {"to_unconfigured"}
        IN  D \cap raisers = {} /\ D \cap {"halted"} = {} /\ D \cap Lifecycle = {} /\ D \cap Lifting = {}
    BY DEF Lifters, Lifecycle, Lifting, Rising
  <2> HIDE DEF raisers, E
  <2> QED
    BY <1>4, <1>6, <2>1, <2>2, UsesLacks
<1> HIDE DEF raisers, E
<1>8. Avoids(s, raisers, Tearing) /\ Avoids(s, Tearing, {"halted"})
  BY <1>1, <1>4, <1>6, <1>7, AvoidsIdle, AvoidsJoin
<1>9. Lacks(s, Lifecycle) /\ Lacks(s, Lifting)
  BY <1>1, <1>4, <1>6, <1>7, LacksJoin
<1>10. Lacks(s, Tearing) \/ (gs = Groups /\ \A g \in Groups : Has(s, g, {"halted"}))
  <2>1. CASE gs = Groups
    BY <2>1, <1>1, <1>4, <1>6, JoinedAll
  <2>2. CASE gs # Groups
    <3>1. Lacks(down, Tearing)
      BY <2>2, <1>4 DEF Lacks
    <3> QED
      BY <3>1, <1>1, <1>4, <1>6, <1>7, LacksJoin
  <2> QED
    BY <2>1, <2>2
<1>11. Sane(s)
  BY <1>8, <1>9, LackingLone DEF Sane, raisers
<1> QED
  BY <1>9, <1>10, <1>11, Unlifted DEF Leveled, s

(* A resume decides first whether the component must be brought up.         *)
LEMMA ResumeAsks ==
  ASSUME NEW gs \in SUBSET Groups
  PROVE  LET s == Program("resume", gs)
         IN  Uses(s, Common) /\ \A g : Asks(s, g)
<1> DEFINE s == Program("resume", gs)
           first == Ones("if_halted", gs)
           second == Ones("unless_armed", gs)
           third == Ones("arm_unless_armed", gs)
           two == first \o second
           before == two \o third
           last == Starts(gs)
           ask == {"if_halted"}
           other == Names \ {"if_halted"}
<1>1. {"if_halted", "unless_armed", "arm_unless_armed"} \subseteq Names \ (Followers \cup Starters)
  BY DEF Names, Checked, Followers, Starters
<1>2. /\ first \in Seq(Plans) /\ Uses(first, {"if_halted"}) /\ \A g \in gs : Has(first, g, ask)
      /\ second \in Seq(Plans) /\ Uses(second, {"unless_armed"}) /\ On(second, gs)
      /\ third \in Seq(Plans) /\ Uses(third, {"arm_unless_armed"}) /\ On(third, gs)
      /\ last \in Seq(Plans) /\ Uses(last, StartNames) /\ On(last, gs)
  BY <1>1, OnePhase, Phase DEF Sound
<1>3. Uses(first, Common) /\ Uses(second, Common) /\ Uses(third, Common) /\ Uses(last, Common)
  BY <1>2 DEF Uses, Common
<1>4. s = before \o last
  BY DEF Program, Resumes, Maintenance
<1>5. \A g : Precedes(first, g, ask, other)
  BY <1>2, Idle DEF Uses
<1> HIDE DEF first, second, third, last, s, ask, other
<1>6. /\ two \in Seq(Plans) /\ Uses(two, Common) /\ (\A g : Precedes(two, g, ask, other))
      /\ \A g \in gs : Has(two, g, ask)
  <2>1. \A g : Precedes(two, g, ask, other)
    BY <1>2, <1>5, PrecedesAfter
  <2> QED
    BY <2>1, <1>2, <1>3, JoinedSets, JoinedAll, JoinedPlans
<1> HIDE DEF two
<1>7. /\ before \in Seq(Plans) /\ Uses(before, Common) /\ (\A g : Precedes(before, g, ask, other))
      /\ \A g \in gs : Has(before, g, ask)
  <2>1. \A g : Precedes(before, g, ask, other)
    BY <1>2, <1>6, PrecedesAfter
  <2> QED
    BY <2>1, <1>2, <1>3, <1>6, JoinedSets, JoinedAll, JoinedPlans
<1> HIDE DEF before
<1>8. \A g : Precedes(s, g, ask, other)
  BY <1>2, <1>4, <1>7, PrecedesAfter
<1>9. Uses(s, Common)
  BY <1>2, <1>3, <1>4, <1>7, JoinedSets
<1> QED
  BY <1>8, <1>9 DEF Asks, s, ask, other

(* A maintenance raises nothing, ...                                        *)
LEMMA MaintenanceLifts ==
  ASSUME NEW action \in Maintenance, NEW gs \in SUBSET Groups
  PROVE  LET s == Program(action, gs)
         IN  Uses(s, Common) /\ \A g : Lifts(s, g)
<1> DEFINE s == Program(action, gs)
           steps == [g \in gs |-> Stop(g) \o Maintain(g)]
           E == StopNames \cup MaintainNames
<1>1. s = Each(steps)
  BY DEF Program, Maintenance
<1>2. \A h \in gs : Sound(steps[h], {h}) /\ Uses(steps[h], E)
  <2>1. SUFFICES ASSUME NEW h \in gs
                 PROVE  LET c == Stop(h) \o Maintain(h)
                        IN  Sound(c, {h}) /\ Uses(c, E)
    OBVIOUS
  <2>2. Stop(h) \in Seq(Plans) /\ Uses(Stop(h), StopNames) /\ Maintain(h) \in Seq(Plans)
        /\ Uses(Maintain(h), MaintainNames) /\ Sound(Stop(h) \o Maintain(h), {h})
    BY StopSound, MaintainSound, MaintainBlock DEF MaintainNames
  <2>3. Uses(Stop(h), E) /\ Uses(Maintain(h), E)
    BY <2>2 DEF Uses
  <2> HIDE DEF E
  <2> QED
    BY <2>2, <2>3, JoinedSets
<1>3. DOMAIN steps = gs /\ steps = [h \in gs |-> steps[h]]
  OBVIOUS
<1> HIDE DEF steps, s, E
<1>4. IsFiniteSet(gs) /\ steps \in [gs -> Seq(Plans)]
  BY <1>2, <1>3, SoundEach
<1>5. Uses(s, E)
  BY <1>1, <1>2, <1>4, EachAll
<1>6. Uses(s, SafeNames \cup StopNames \cup MaintainNames \cup {"stopped", "switched"})
  BY <1>5 DEF Uses, E
<1> QED
  BY <1>6, SafeUnlifted DEF s

(* ... a profile switch brings up before it arms.                           *)
LEMMA ProfileLifts ==
  ASSUME NEW g \in Groups
  PROVE  LET s == Program("profile", {g})
         IN  Uses(s, Common) /\ \A h : Lifts(s, h)
<1> DEFINE s == Program("profile", {g})
           steps == [h \in {g} |-> Switch(h)]
           more == IF state[g] = "Running" THEN Restart(g) ELSE << >>
<1>1. s = Each(steps) /\ DOMAIN steps = {g} /\ steps[g] = Stop(g) \o more
  BY DEF Program, Maintenance, Switch
<1>2. more \in Seq(Plans) /\ Uses(more, Common) /\ \A h : Lifts(more, h)
  <2>1. \A t \in {<< >>} : t \in Seq(Plans) /\ Uses(t, Common) /\ \A h : Lifts(t, h)
    <3>1. ASSUME NEW t, Len(t) = 0
          PROVE  Uses(t, Common) /\ Lacks(t, Lifting)
      BY <3>1 DEF Uses, Lacks
    <3>2. Uses(<< >>, Common) /\ Lacks(<< >>, Lifting)
      BY <3>1
    <3> QED
      BY <3>2, Unlifted
  <2> QED
    BY <2>1, RestartLifts
<1>3. Stop(g) \in Seq(Plans) /\ Uses(Stop(g), Common) /\ \A h : Lifts(Stop(g), h)
  <2>1. Stop(g) \in Seq(Plans) /\ Uses(Stop(g), SafeNames \cup StopNames \cup MaintainNames \cup {"stopped", "switched"})
    BY StopSound DEF Uses
  <2> QED
    BY <2>1, SafeUnlifted
<1> HIDE DEF s, steps, more
<1>4. /\ Stop(g) \o more \in Seq(Plans) /\ Uses(Stop(g) \o more, Common)
      /\ \A h : Lifts(Stop(g) \o more, h)
  BY <1>2, <1>3, LiftsJoin, JoinedSets
<1>5. s = Stop(g) \o more
  BY <1>1, <1>4, EachOne
<1> QED
  BY <1>4, <1>5 DEF s

(* All operations                                                           *)
LEMMA ProgramLifts ==
  ASSUME NEW action \in Actions, NEW gs \in Scopes(action)
  PROVE  LET s == Program(action, gs)
         IN  /\ Leveled(s, gs)
             /\ action # "resume" => \A g : Lifts(s, g)
             /\ action = "resume" => Lacks(s, Tearing) /\ \A g : Asks(s, g)
<1> DEFINE s == Program(action, gs)
<1>1. gs \in SUBSET Groups /\ (action = "profile" => \E g \in Groups : gs = {g})
  BY ScopesOfGroups
<1>2. CASE action \in {"init", "enable", "halt", "recover"}
  <2>1. /\ Stops(gs) \in Seq(Plans) /\ Uses(Stops(gs), StopNames)
        /\ Inits(gs) \in Seq(Plans) /\ Uses(Inits(gs), InitNames)
    BY <1>1, Phase DEF Sound
  <2>2. LET E == SafeNames \cup StopNames \cup MaintainNames \cup {"stopped", "switched"}
        IN  Uses(Stops(gs), E) /\ Uses(Inits(gs), E)
    BY <2>1 DEF Uses, SafeNames
  <2>3. /\ Uses(Stops(gs), Common) /\ (\A g : Lifts(Stops(gs), g))
        /\ Uses(Inits(gs), Common) /\ \A g : Lifts(Inits(gs), g)
    BY <2>2, SafeUnlifted
  <2>4. /\ Enables(gs) \in Seq(Plans) /\ Uses(Enables(gs), Common) /\ \A g : Lifts(Enables(gs), g)
        /\ Rearms(gs) \in Seq(Plans) /\ Uses(Rearms(gs), Common) /\ \A g : Lifts(Rearms(gs), g)
    BY <1>1, EnablesLift
  <2>5. Uses(Stops(gs) \o Rearms(gs), Common) /\ \A g : Lifts(Stops(gs) \o Rearms(gs), g)
    BY <2>1, <2>3, <2>4, LiftsJoin, JoinedSets
  <2>6. s \in {Inits(gs), Enables(gs), Stops(gs), Stops(gs) \o Rearms(gs)}
    BY <1>2 DEF Program, Maintenance
  <2> HIDE DEF s
  <2>7. Uses(s, Common) /\ \A g : Lifts(s, g)
    BY <2>3, <2>4, <2>5, <2>6
  <2> QED
    BY <1>2, <2>7, CommonLeveled DEF s
<1>3. CASE action = "resume"
  BY <1>1, <1>3, ResumeAsks, CommonLeveled
<1>4. CASE action = "recover_resource"
  BY <1>4, RebuildLifts DEF Scopes
<1>5. CASE action = "shutdown"
  BY <1>1, <1>5, ShutdownLifts
<1>6. CASE action = "profile"
  BY <1>1, <1>6, ProfileLifts, CommonLeveled
<1>7. CASE action \in Maintenance
  <2>1. action # "resume"
    BY <1>7 DEF Maintenance
  <2> QED
    BY <1>1, <1>7, <2>1, MaintenanceLifts, CommonLeveled
<1> QED
  BY <1>2, <1>3, <1>4, <1>5, <1>6, <1>7 DEF Actions, Maintenance

(* A step of no worker keeps the rules if it brings no group up.            *)
LEMMA LiftedAside ==
  ASSUME Lifted, \A t \in Workers : todo'[t] = todo[t] /\ held'[t] = held[t],
         \A g \in Groups : Down(g) => Down(g)', Up => Up',
         \A t \in Workers : held[t] \subseteq Groups /\ \A g \in held[t] : state'[g] = state[g], Lane'
  PROVE  Lifted'
<1>1. ASSUME NEW t \in Workers
      PROVE  Careful(t)'
  <2>1. todo'[t] = todo[t] /\ held'[t] = held[t] /\ Careful(t) /\ held[t] \subseteq Groups
    BY DEF Lifted
  <2>2. Sane(todo[t])' /\ Whole(t)'
    BY <2>1 DEF Careful, Whole
  <2>3. ASSUME NEW g \in held[t]
        PROVE  RuleUp(t, g)' /\ RuleDown(t, g)'
    <3>1. RuleUp(t, g) /\ RuleDown(t, g) /\ g \in Groups /\ state'[g] = state[g]
      BY <2>1 DEF Careful
    <3> QED
      BY <2>1, <3>1 DEF RuleUp, RuleDown
  <2> QED
    BY <2>1, <2>2, <2>3 DEF Careful
<1>2. ~Up' => \A g \in Groups : Down(g)'
  BY DEF Lifted
<1> QED
  BY <1>1, <1>2 DEF Lifted

(* At the head of a list that raises, it is up.                             *)
LEMMA LiftedUp ==
  ASSUME Threading, NEW t \in Workers, Careful(t), todo[t] # << >>, todo[t][1].on \in held[t],
         todo[t][1].do \in Lifting
  PROVE  Up /\ Lacks(todo[t], Tearing)
<1> DEFINE s == todo[t]
           h == s[1].on
<1>1. s \in Seq(Plans) /\ s[1].do \in Names
  BY HeadFacts DEF Threads, Plans
<1>2. RuleUp(t, h)
  BY DEF Careful
<1>3. ~Lifts(s, h)
  BY <1>1, RestPrecedes DEF Lifts
<1>4. ~Asks(s, h)
  <2>1. s[1].do \in Names \ {"if_halted"}
    BY <1>1 DEF Lifting, Rising
  <2> QED
    BY <1>1, <2>1, RestPrecedes DEF Asks
<1> QED
  BY <1>2, <1>3, <1>4 DEF RuleUp

(* At the head of one that takes it down, no group is armed or moves.       *)
LEMMA LiftedDown ==
  ASSUME Threading, NEW t \in Workers, Careful(t), todo[t] # << >>, todo[t][1].do \in Tearing
  PROVE  held[t] = Groups /\ \A g \in Groups : Down(g)
<1> DEFINE s == todo[t]
<1>1. s \in Seq(Plans) /\ 1 \in 1..Len(s)
  BY HeadFacts DEF Threads
<1>2. ~Lacks(s, Tearing)
  BY <1>1 DEF Lacks
<1>3. held[t] = Groups
  BY <1>2 DEF Careful, Whole
<1>4. Lacks(Tail(s), {"halted"})
  BY <1>1, AvoidsRest DEF Careful, Sane
<1>5. ASSUME NEW g \in Groups
      PROVE  Down(g)
  <2>1. ~Has(s, g, {"halted"})
    <3>1. ~Has(Tail(s), g, {"halted"})
      BY <1>4 DEF Has, Lacks
    <3>2. s[1].do # "halted"
      BY DEF Tearing
    <3> QED
      BY <1>1, <3>1, <3>2, RestAll
  <2> QED
    BY <1>2, <1>3, <2>1 DEF Careful, RuleDown
<1> QED
  BY <1>3, <1>5

(* A step of a worker keeps the rules if its own lists keep them.           *)
LEMMA LiftedTurn ==
  ASSUME Safety, Lifted, NEW t \in Workers, Alone(t), todo[t] # << >>,
         \A g \in Groups : \/ Down(g) => Down(g)'
                           \/ g = todo[t][1].on /\ g \in held[t] /\ todo[t][1].do \in Lifting,
         (Up => Up') \/ todo[t][1].do \in Tearing,
         \A g \in Groups : g \notin held[t] => state'[g] = state[g],
         Lane', Careful(t)'
  PROVE  Lifted'
<1>1. Threading /\ \A u \in Threads : held[u] \subseteq Groups
  BY DEF Safety, Typing, Threaded, Threading
<1>2. \A u \in Workers : Careful(u)
  BY DEF Lifted
<1>3. ASSUME NEW u \in Workers, u # t
      PROVE  Careful(u)'
  <2>1. u \in Threads /\ t \in Threads
    BY DEF Threads
  <2>2. todo'[u] = todo[u] /\ held'[u] = held[u]
    BY <1>3, <2>1 DEF Alone
  <2>3. ASSUME NEW g \in held[u]
        PROVE  RuleUp(u, g)' /\ RuleDown(u, g)'
    <3>1. g \in Groups /\ g \notin held[t]
      BY <1>1, <1>3, <2>1 DEF Threading, Disjoint
    <3>2. state'[g] = state[g] /\ (Down(g) => Down(g)') /\ RuleUp(u, g) /\ RuleDown(u, g)
      BY <1>2, <3>1 DEF Careful
    <3>3. todo[t][1].do \notin Tearing
      BY <1>1, <1>2, <3>1, LiftedDown
    <3> QED
      BY <2>2, <3>2, <3>3 DEF RuleUp, RuleDown
  <2> QED
    BY <1>2, <2>2, <2>3 DEF Careful, Whole
<1>4. ASSUME ~Up', NEW g \in Groups
      PROVE  Down(g)'
  <2>1. CASE Up
    <3>1. todo[t][1].do \in Tearing
      BY <1>4, <2>1
    <3>2. Down(g) /\ todo[t][1].do \notin Lifting
      BY <1>1, <1>2, <3>1, LiftedDown DEF Tearing, Lifting, Rising
    <3> QED
      BY <3>2
  <2>2. CASE ~Up
    <3>1. Down(g)
      BY <2>2 DEF Lifted
    <3>2. ~(todo[t][1].on \in held[t] /\ todo[t][1].do \in Lifting)
      BY <1>1, <1>2, <2>2, LiftedUp
    <3> QED
      BY <3>1, <3>2
  <2> QED
    BY <2>1, <2>2
<1> QED
  BY <1>3, <1>4 DEF Lifted

(* A transition is at most one thread's: the step of none is one,           *)
LEMMA LaneAside ==
  ASSUME Lane, \A t \in Workers : todo'[t] = todo[t],
         component' = component \/ \E c \in pending : c.do \in Lifecycle,
         \A c \in pending' : c \in pending \/ c.do \notin Lifecycle
  PROVE  Lane'
<1>1. SUFFICES ASSUME NEW t \in Workers, At(t, Lifecycle)'
               PROVE  /\ \A u \in Workers : u # t => ~At(u, Lifecycle)'
                      /\ \A c \in pending' : c.do \notin Lifecycle
                      /\ At(t, {"inactive"})' => component' # "active"
  BY DEF Lane
<1>2. \A u \in Workers : \A names \in {Lifecycle, {"inactive"}} : At(u, names)' <=> At(u, names)
  BY DEF At
<1>3. /\ \A u \in Workers : u # t => ~At(u, Lifecycle)
      /\ \A c \in pending : c.do \notin Lifecycle
      /\ At(t, {"inactive"}) => component # "active"
  BY <1>1, <1>2 DEF Lane
<1> QED
  BY <1>2, <1>3

(* nor is a worker's next step, ...                                         *)
LEMMA LaneTurn ==
  ASSUME Lane, NEW t \in Workers, Alone(t), ~At(t, Lifecycle)',
         component' = component \/ At(t, Lifecycle),
         \A c \in pending' : c \in pending \/ c.do \notin Lifecycle \/ At(t, Lifecycle)
  PROVE  Lane'
<1>1. SUFFICES ASSUME NEW u \in Workers, At(u, Lifecycle)'
               PROVE  /\ \A v \in Workers : v # u => ~At(v, Lifecycle)'
                      /\ \A c \in pending' : c.do \notin Lifecycle
                      /\ At(u, {"inactive"})' => component' # "active"
  BY DEF Lane
<1>2. u # t
  BY <1>1
<1>3. \A v \in Workers : v # t => todo'[v] = todo[v]
  BY DEF Alone, Threads
<1>4. \A v \in Workers : v # t =>
        (At(v, Lifecycle)' <=> At(v, Lifecycle)) /\ (At(v, {"inactive"})' <=> At(v, {"inactive"}))
  BY <1>3 DEF At
<1>5. /\ \A v \in Workers : v # u => ~At(v, Lifecycle)
      /\ \A c \in pending : c.do \notin Lifecycle
      /\ At(u, {"inactive"}) => component # "active"
  BY <1>1, <1>2, <1>4 DEF Lane
<1> QED
  BY <1>2, <1>4, <1>5

(* ... or it begins one when there is no other.                             *)
LEMMA LaneBegins ==
  ASSUME NEW t \in Workers, Alone(t), \A u \in Workers : u # t => ~At(u, Lifecycle),
         \A c \in pending' : c.do \notin Lifecycle, At(t, {"inactive"})' => component' # "active"
  PROVE  Lane'
<1>1. \A u \in Workers : u # t => ~At(u, Lifecycle)'
  BY DEF Alone, Threads, At
<1> QED
  BY <1>1 DEF Lane

(* Nothing is left to be kept in order, ...                                 *)
LEMMA NothingLifts ==
  Sane(<< >>) /\ Lacks(<< >>, Tearing) /\ Lacks(<< >>, Lifecycle) /\ \A g : Lifts(<< >>, g)
<1>1. ASSUME NEW s, Len(s) = 0
      PROVE  Lacks(s, Tearing) /\ Lacks(s, Lifecycle) /\ Lacks(s, Lifting)
  BY <1>1 DEF Lacks
<1>2. Lacks(<< >>, Tearing) /\ Lacks(<< >>, Lifecycle) /\ Lacks(<< >>, Lifting)
  BY <1>1
<1> QED
  BY <1>2, SaneTame, Unlifted

(* A worker's step concerns its own list.                                   *)
LEMMA WorkerTurn ==
  ASSUME Threading, NEW t \in Workers, todo[t] # << >>
  PROVE  /\ t \in Threads /\ t # "owner" /\ t # "monitor" /\ op[t] # "monitor"
         /\ todo[t] \in Seq(Plans) /\ Tail(todo[t]) \in Seq(Plans) /\ 1 \in 1..Len(todo[t])
         /\ held[t] \subseteq Groups /\ Head(todo[t]) = todo[t][1]
         /\ todo[t][1].do \notin Teardown => todo[t][1].on \in held[t]
         /\ \A names : At(t, names) <=> todo[t][1].do \in names
<1>1. t \in Threads /\ t # "owner" /\ t # "monitor"
  BY Apiece DEF Threads
<1>2. op[t] # "monitor"
  <2>1. Role(t, op[t])
    BY <1>1 DEF Threading, Fits
  <2> QED
    BY <2>1 DEF Role, Actions
<1> QED
  BY <1>1, <1>2, HeadFacts DEF At

(* A worker that goes on keeps the rules, with the step's effect.           *)
LEMMA ContinueLifts ==
  ASSUME Safety, Lifted, NEW t \in Workers, todo[t] # << >>, Alone(t),
         NEW steps \in Seq(Plans), Continue(t, steps), On(steps, {todo[t][1].on}),
         Lone(steps), Lacks(steps, {"halted"}), steps = << >> \/ todo[t][1].do # "inactive",
         \/ Lacks(steps, Tearing)
         \/ todo[t][1].do \in Tearing /\ Lacks(steps, Lifters \cup {"if_halted"}),
         Lacks(steps, Lifters \cup {"if_halted"}) \/ todo[t][1].do \in Lifters \cup {"if_halted"},
         Lacks(steps, Lifting) \/ todo[t][1].do \in Lifting,
         todo[t][1].do \in Lifters => Up' \/ Has(steps, todo[t][1].on, Lifters),
         todo[t][1].do = "if_halted" /\ state[todo[t][1].on] = "Halted" => Has(steps, todo[t][1].on, Lifters),
         \A g \in Groups : g = todo[t][1].on /\ todo[t][1].do = "halted" => Down(g)',
         \A g \in Groups : \/ Down(g) => Down(g)'
                           \/ g = todo[t][1].on /\ g \in held[t] /\ todo[t][1].do \in Lifting,
         (Up => Up') \/ todo[t][1].do \in Tearing,
         \A g \in Groups : state'[g] = state[g] \/ (g = todo[t][1].on /\ g \in held[t]), Lane'
  PROVE  Lifted'
<1> DEFINE s == todo[t]
           h == s[1].on
           r == Tail(s)
           a == steps \o r
           raisers == Lifters \cup {"if_halted"}
<1>1. Threading /\ Careful(t)
  BY DEF Safety, Typing, Threaded, Lifted
<1>2. /\ t \in Threads /\ s \in Seq(Plans) /\ r \in Seq(Plans) /\ 1 \in 1..Len(s)
      /\ held[t] \subseteq Groups
  BY <1>1, WorkerTurn
<1>3. todo'[t] = a /\ held'[t] = held[t]
  BY <1>1, <1>2 DEF Continue, Threading
<1>4. s[1].do \in Names
  <2>1. s[1] \in Plans
    BY <1>2
  <2> QED
    BY <2>1 DEF Plans
<1>5. Sane(a) /\ (Lacks(s, Tearing) => Lacks(a, Tearing) /\ s[1].do \notin Tearing)
  <2>1. Sane(s)
    BY <1>1 DEF Careful
  <2>2. Lacks(s, Tearing) => s[1].do \notin Tearing
    BY <1>2 DEF Lacks
  <2> HIDE DEF s
  <2>3. Sane(a) /\ (Lacks(s, Tearing) => Lacks(a, Tearing))
    BY <1>2, <2>1, SaneOn DEF s
  <2> QED
    BY <2>2, <2>3
<1>6. Whole(t)'
  BY <1>1, <1>3, <1>5 DEF Careful, Whole
<1>7. ASSUME NEW g \in held[t]
      PROVE  RuleUp(t, g)' /\ RuleDown(t, g)'
  <2>1. RuleUp(t, g) /\ RuleDown(t, g) /\ g \in Groups
    BY <1>1, <1>2, <1>7 DEF Careful
  <2>2. s[1].on = g /\ s[1].do \in Lifting => Up /\ Lacks(s, Tearing)
    BY <1>1, <1>7, LiftedUp
  <2>3. RuleUp(t, g)'
    <3>1. CASE Up /\ Lacks(s, Tearing)
      BY <1>3, <1>5, <3>1 DEF RuleUp
    <3>2. CASE Lifts(s, g)
      <4>1. ~(s[1].on = g /\ s[1].do \in Lifting)
        BY <1>2, <3>2, RestPrecedes DEF Lifts
      <4>2. Lifts(steps, g)
        <5>1. CASE Lacks(steps, Lifting)
          BY <5>1, Unlifted
        <5>2. CASE s[1].do \in Lifting
          <6>1. g \notin {s[1].on}
            BY <4>1, <5>2
          <6> QED
            BY <6>1, LiftsElsewhere
        <5> QED
          BY <5>1, <5>2
      <4>3. CASE s[1].on = g /\ s[1].do \in Lifters => Has(steps, g, Lifters)
        <5>1. Lifts(a, g)
          BY <1>2, <3>2, <4>2, <4>3, InsertPrecedes DEF Lifts
        <5> QED
          BY <1>3, <5>1 DEF RuleUp
      <4>4. CASE s[1].on = g /\ s[1].do \in Lifters /\ Up'
        <5>1. s[1].do \in raisers /\ s[1].do \notin Tearing
          BY <4>4 DEF Lifters, Tearing
        <5>2. Lacks(r, Tearing)
          BY <1>1, <1>2, <5>1, AvoidsRest DEF Careful, Sane
        <5>3. Lacks(a, Tearing)
          BY <1>2, <5>1, <5>2, LacksJoin
        <5> QED
          BY <1>3, <4>4, <5>3 DEF RuleUp
      <4> QED
        BY <4>3, <4>4
    <3>3. CASE state[g] = "Halted" /\ Asks(s, g)
      <4>1. ~(s[1].on = g /\ s[1].do \in Names \ {"if_halted"})
        BY <1>2, <3>3, RestPrecedes DEF Asks
      <4>2. CASE s[1].on = g
        <5>1. s[1].do = "if_halted"
          BY <1>4, <4>1, <4>2
        <5>2. Has(steps, g, Lifters) /\ Lacks(steps, Lifting)
          <6>1. s[1].do \notin Lifting
            BY <5>1 DEF Lifting, Rising
          <6> QED
            BY <3>3, <4>2, <5>1, <6>1
        <5>3. Lifts(steps, g)
          BY <5>2, Unlifted
        <5>4. Lifts(a, g)
          BY <1>2, <5>2, <5>3, JoinedPrecedes DEF Lifts
        <5> QED
          BY <1>3, <5>4 DEF RuleUp
      <4>3. CASE s[1].on # g
        <5>1. Asks(steps, g)
          BY <4>3, LiftsElsewhere
        <5>2. Asks(a, g)
          BY <1>2, <3>3, <4>3, <5>1, InsertPrecedes DEF Asks
        <5>3. state'[g] = "Halted"
          BY <2>1, <3>3, <4>3
        <5> QED
          BY <1>3, <5>2, <5>3 DEF RuleUp
      <4> QED
        BY <4>2, <4>3
    <3> QED
      BY <2>1, <3>1, <3>2, <3>3 DEF RuleUp
  <2>4. RuleDown(t, g)'
    <3>1. CASE Lacks(s, Tearing)
      BY <1>3, <1>5, <3>1 DEF RuleDown
    <3>2. CASE Down(g)
      <4>1. CASE Down(g)'
        BY <4>1 DEF RuleDown
      <4>2. CASE s[1].on = g /\ s[1].do \in Lifting
        BY <2>2, <3>1, <4>2
      <4> QED
        BY <2>1, <3>2, <4>1, <4>2
    <3>3. CASE Has(s, g, {"halted"})
      <4>1. CASE s[1].on = g /\ s[1].do = "halted"
        <5>1. Down(g)'
          BY <2>1, <4>1
        <5> QED
          BY <5>1 DEF RuleDown
      <4>2. CASE ~(s[1].on = g /\ s[1].do = "halted")
        <5>1. Has(r, g, {"halted"})
          BY <1>2, <3>3, <4>2, RestAll
        <5>2. Has(a, g, {"halted"})
          BY <1>2, <5>1, JoinedAll
        <5> QED
          BY <1>3, <5>2 DEF RuleDown
      <4> QED
        BY <4>1, <4>2
    <3> QED
      BY <2>1, <3>1, <3>2, <3>3 DEF RuleDown
  <2> QED
    BY <2>3, <2>4
<1>8. Careful(t)'
  BY <1>3, <1>5, <1>6, <1>7 DEF Careful
<1>9. \A g \in Groups : g \notin held[t] => state'[g] = state[g]
  OBVIOUS
<1> QED
  BY <1>8, <1>9, LiftedTurn

(* So does one that gives up.                                               *)
LEMMA RaiseLifts ==
  ASSUME Safety, Lifted, NEW t \in Workers, todo[t] # << >>, Raise(t),
         \A g \in Groups : \/ Down(g) => Down(g)'
                           \/ g = todo[t][1].on /\ g \in held[t] /\ todo[t][1].do \in Lifting,
         (Up => Up') \/ todo[t][1].do \in Tearing,
         \A g \in Groups : state'[g] = state[g] \/ (g = todo[t][1].on /\ g \in held[t]),
         component' = component,
         \A c \in pending' : c \in pending \/ c.do \notin Lifecycle \/ At(t, Lifecycle)
  PROVE  Lifted'
<1> DEFINE s == todo[t]
           h == s[1].on
<1>1. Threading /\ Careful(t) /\ Lane
  BY DEF Safety, Typing, Threaded, Lifted
<1>2. /\ t \in Threads /\ s \in Seq(Plans) /\ 1 \in 1..Len(s) /\ held[t] \subseteq Groups
      /\ op[t] # "monitor"
  BY <1>1, WorkerTurn
<1>3. held' = [held EXCEPT ![t] = held[t]] /\ op' = [op EXCEPT ![t] = op[t]]
  BY <1>1, <1>2, Raised
<1>4. /\ held'[t] = held[t] /\ Alone(t)
      /\ op \in [Threads -> Ops] /\ held \in [Threads -> SUBSET Groups]
      /\ todo \in [Threads -> Seq(Plans)] /\ errors \in [Threads -> BOOLEAN]
  <2>1. \A u \in Threads : u # t => todo'[u] = todo[u] /\ errors'[u] = errors[u]
    BY <1>1 DEF Raise, Threading
  <2> QED
    BY <1>1, <1>2, <1>3, <2>1 DEF Alone, Threading
<1>5. todo'[t] \in Seq(Plans) => (Lacks(todo'[t], Lifecycle) => ~At(t, Lifecycle)')
  <2>1. todo'[t] \in Seq(Plans) /\ todo'[t] # << >> => Head(todo'[t]) = todo'[t][1] /\ 1 \in 1..Len(todo'[t])
    BY Rest
  <2> QED
    BY <2>1 DEF Lacks, At
<1>6. Careful(t)' /\ ~At(t, Lifecycle)'
  <2>1. ASSUME todo'[t] \in Seq(Plans), Sane(todo'[t]), Lacks(todo'[t], Lifecycle), Lacks(todo'[t], Tearing),
               \A g : Lifts(todo'[t], g)
        PROVE  Careful(t)' /\ ~At(t, Lifecycle)'
    BY <1>5, <2>1 DEF Careful, Whole, RuleUp, RuleDown
  <2>2. CASE todo' = [todo EXCEPT ![t] = << >>]
    <3>1. todo'[t] = << >> /\ << >> \in Seq(Plans)
      BY <1>2, <1>4, <2>2
    <3> QED
      BY <2>1, <3>1, NothingLifts
  <2>3. CASE op[t] \in Maintenance /\ todo' = [todo EXCEPT ![t] = Undoes(t)]
    <3>1. h \in held[t]
      BY <1>1, <1>2, <2>3, HeadFacts DEF Maintenance
    <3>2. h \in Groups
      BY <1>2, <3>1
    <3>3. todo'[t] = Undoes(t) /\ Undoes(t) \in Seq(Plans)
      <4>1. Suits(t, op[t], held[t], Steps(<<"maintained">>, h))
            /\ Suits(t, op[t], held[t], Steps(<<"roll_back", "maintained">>, h))
        BY <1>2, <2>3, <3>1, UndoneSuits
      <4>2. Undoes(t) \in Seq(Plans)
        BY <1>2, <4>1, SuitsBasic DEF Undoes
      <4> QED
        BY <1>2, <1>4, <2>3, <4>2
    <3> QED
      BY <2>1, <3>2, <3>3, SaneUndoes
  <2>4. CASE op[t] \notin Dropping /\ todo' = [todo EXCEPT ![t] = After(t)]
    <3> DEFINE a == After(t)
    <3>1. /\ Sane(a) /\ Lacks(a, Lifecycle) /\ (Lacks(s, Tearing) => Lacks(a, Tearing))
          /\ Lifts(a, h) /\ Has(a, h, {"halted"})
          /\ \A g : g # h => /\ Lifts(s, g) => Lifts(a, g)
                             /\ Asks(s, g) => Asks(a, g)
                             /\ Has(s, g, {"halted"}) => Has(a, g, {"halted"})
      BY <1>1, <2>4, SaneAfter DEF Careful
    <3>2. todo'[t] = a /\ a \in Seq(Plans)
      <4>1. t # "owner" /\ (t = "monitor" => op[t] = "converge")
        BY Apiece
      <4>2. a \in Seq(Plans)
        BY <1>1, <1>2, <2>4, <4>1, AfterSuits DEF After
      <4> QED
        BY <1>2, <1>4, <2>4, <4>2
    <3> HIDE DEF a
    <3>3. Whole(t)'
      BY <1>1, <1>4, <3>1, <3>2 DEF Careful, Whole
    <3>4. ASSUME NEW g \in held[t]
          PROVE  RuleUp(t, g)' /\ RuleDown(t, g)'
      <4>1. RuleUp(t, g) /\ RuleDown(t, g) /\ g \in Groups
        BY <1>1, <1>2 DEF Careful
      <4>2. CASE g = h
        BY <3>1, <3>2, <4>2 DEF RuleUp, RuleDown
      <4>3. CASE g # h
        <5>1. (Down(g) => Down(g)') /\ state'[g] = state[g]
          BY <4>1, <4>3
        <5>2. Lacks(s, Tearing) => s[1].do \notin Tearing
          BY <1>2 DEF Lacks
        <5> HIDE DEF h
        <5>3. RuleUp(t, g)'
          BY <3>1, <3>2, <4>1, <4>3, <5>1, <5>2 DEF RuleUp
        <5>4. RuleDown(t, g)'
          BY <3>1, <3>2, <4>1, <4>3, <5>1 DEF RuleDown
        <5> QED
          BY <5>3, <5>4
      <4> QED
        BY <4>2, <4>3
    <3> QED
      BY <1>4, <1>5, <3>1, <3>2, <3>3, <3>4 DEF Careful
  <2> QED
    BY <1>1, <1>2, <2>2, <2>3, <2>4, Raised
<1>7. \A g \in Groups : g \notin held[t] => state'[g] = state[g]
  OBVIOUS
<1>8. Lane'
  BY <1>1, <1>4, <1>6, LaneTurn
<1> QED
  BY <1>4, <1>6, <1>7, <1>8, LiftedTurn

(* A worker that goes on or gives up while the robot stays as it is         *)
LEMMA AsItWas ==
  ASSUME UNCHANGED <<robotVars, pending>>
  PROVE  (Up' <=> Up) /\ component' = component /\ \A g : Still(g)' <=> Still(g)
<1> QED
  BY DEF robotVars, Up, Still, NoRise

LEMMA LiftsSteps ==
  ASSUME Safety, Lifted, NEW t \in Workers, todo[t] # << >>, NEW steps \in Seq(Plans), Continue(t, steps),
         UNCHANGED <<robotVars, pending>>, \A u \in Threads : u # t => errors'[u] = errors[u],
         On(steps, {todo[t][1].on}), Lacks(steps, Lifecycle), Lacks(steps, {"halted"}),
         \/ Lacks(steps, Tearing)
         \/ todo[t][1].do \in Tearing /\ Lacks(steps, Lifters \cup {"if_halted"}),
         Lacks(steps, Lifters \cup {"if_halted"}) \/ todo[t][1].do \in Lifters \cup {"if_halted"},
         Lacks(steps, Lifting) \/ todo[t][1].do \in Lifting,
         todo[t][1].do # "inactive", todo[t][1].do \in Lifters => Up,
         todo[t][1].do = "if_halted" /\ state[todo[t][1].on] = "Halted" => Has(steps, todo[t][1].on, Lifters),
         \A g \in Groups : g = todo[t][1].on /\ todo[t][1].do = "halted" => Still(g),
         \A g \in Groups :
           \/ state'[g] = state[g] /\ ~(g = todo[t][1].on /\ todo[t][1].do = "halted")
           \/ /\ g = todo[t][1].on /\ g \in held[t]
              /\ state'[g] \notin Live \/ todo[t][1].do \in Lifting \ {"halted"}
  PROVE  Lifted'
<1> DEFINE s == todo[t]
           r == Tail(s)
<1>1. Threading /\ Careful(t) /\ Lane
  BY DEF Safety, Typing, Threaded, Lifted
<1>2. t \in Threads /\ s \in Seq(Plans) /\ r \in Seq(Plans)
  BY <1>1, WorkerTurn
<1>3. Alone(t) /\ todo'[t] = steps \o r
  BY <1>1, <1>2 DEF Alone, Continue, Threading
<1>4. ~At(t, Lifecycle)'
  <2>1. Lacks(r, Lifecycle)
    BY <1>1, <1>2, LoneRest DEF Careful, Sane
  <2>2. Lacks(steps \o r, Lifecycle) /\ steps \o r \in Seq(Plans)
    BY <1>2, <2>1, LacksJoin, JoinedPlans
  <2>3. steps \o r # << >> => Head(steps \o r) = (steps \o r)[1] /\ 1 \in 1..Len(steps \o r)
    BY <2>2, Rest
  <2> QED
    BY <1>3, <2>2, <2>3 DEF Lacks, At
<1>5. (Up' <=> Up) /\ component' = component /\ \A g : Still(g)' <=> Still(g)
  BY AsItWas
<1>6. Lane'
  BY <1>1, <1>3, <1>4, <1>5, LaneTurn
<1>7. \A g \in Groups : \/ Down(g) => Down(g)'
                        \/ g = s[1].on /\ g \in held[t] /\ s[1].do \in Lifting
  BY <1>5 DEF Down
<1>8. \A g \in Groups : g = s[1].on /\ s[1].do = "halted" => Down(g)'
  BY <1>5 DEF Down, Lifting, Rising
<1>9. Lone(steps)
  BY LackingLone
<1>10. \A g \in Groups : state'[g] = state[g] \/ (g = s[1].on /\ g \in held[t])
  OBVIOUS
<1> HIDE DEF s, r
<1> QED
  BY <1>3, <1>5, <1>6, <1>7, <1>8, <1>9, <1>10, ContinueLifts DEF s

(* The same where nothing comes before the rest.                            *)
LEMMA LiftsOn ==
  ASSUME Safety, Lifted, NEW t \in Workers, todo[t] # << >>, Continue(t, << >>),
         UNCHANGED <<robotVars, pending>>, \A u \in Threads : u # t => errors'[u] = errors[u],
         todo[t][1].do # "inactive", todo[t][1].do \in Lifters => Up,
         todo[t][1].do = "if_halted" => state[todo[t][1].on] # "Halted",
         \A g \in Groups : g = todo[t][1].on /\ todo[t][1].do = "halted" => Still(g),
         \A g \in Groups :
           \/ state'[g] = state[g] /\ ~(g = todo[t][1].on /\ todo[t][1].do = "halted")
           \/ /\ g = todo[t][1].on /\ g \in held[t]
              /\ state'[g] \notin Live \/ todo[t][1].do \in Lifting \ {"halted"}
  PROVE  Lifted'
<1> DEFINE e == << >>
<1>1. e \in Seq(Plans) /\ Len(e) = 0 /\ Continue(t, e)
  OBVIOUS
<1> HIDE DEF e
<1>2. On(e, {todo[t][1].on}) /\ \A names : Lacks(e, names)
  BY <1>1 DEF On, Lacks
<1> QED
  BY <1>1, <1>2, LiftsSteps

LEMMA LiftsRaises ==
  ASSUME Safety, Lifted, NEW t \in Workers, todo[t] # << >>, Raise(t), UNCHANGED <<robotVars, pending>>,
         \A g \in Groups : state'[g] = state[g] \/ (g = todo[t][1].on /\ g \in held[t] /\ state'[g] \notin Live)
  PROVE  Lifted'
<1>1. (Up' <=> Up) /\ component' = component /\ \A g : Still(g)' <=> Still(g)
  BY AsItWas
<1>2. \A g \in Groups : Down(g) => Down(g)'
  BY <1>1 DEF Down
<1> QED
  BY <1>1, <1>2, RaiseLifts

(* A call that is answered                                                  *)
LEMMA LiftsAnswered ==
  ASSUME Safety, Lifted, NEW t \in Workers, Answered(t)
  PROVE  Lifted'
<1> DEFINE s == todo[t]
           c == s[1]
           r == Tail(s)
<1>1. Threading /\ RobotTypes /\ Careful(t) /\ Lane /\ t \in Threads
  BY DEF Safety, Typing, Threaded, Lifted, Threads
<1>2. At(t, Mutations) /\ s # << >> /\ c.do \in Mutations /\ Head(s) = c
  <2>1. At(t, Mutations)
    BY DEF Answered
  <2> QED
    BY <1>1, <2>1, AtHead
<1>3. /\ Proper(c) /\ s \in Seq(Plans) /\ r \in Seq(Plans) /\ held[t] \subseteq Groups
      /\ (c.do \notin Teardown => c.on \in held[t]) /\ \A names : At(t, names) <=> c.do \in names
  BY <1>1, <1>2, ProperHead, WorkerTurn
<1>4. /\ Effect(c) /\ Continue(t, << >>) /\ UNCHANGED <<state, errors, pending>>
      /\ todo'[t] = r /\ Alone(t)
  <2>1. Effect(c) /\ Continue(t, << >>) /\ UNCHANGED <<state, errors, pending>>
    BY <1>2 DEF Answered, ownerVars, rest
  <2>2. todo'[t] = r /\ Alone(t)
    BY <1>1, <1>3, <2>1, JoinEmpty DEF Continue, Alone, Threading
  <2> QED
    BY <2>1, <2>2
<1>5. component' = IF c.do \in Lifecycle THEN c.do ELSE component
  BY <1>4 DEF Effect
<1>6. c.do \in Lifecycle => /\ \A u \in Workers : u # t => ~At(u, Lifecycle)
                            /\ \A d \in pending : d.do \notin Lifecycle
                            /\ c.do = "inactive" => component # "active"
  BY <1>1, <1>3 DEF Lane
<1>7. r # << >> => Head(r) = r[1]
  BY <1>3, Rest
<1>8. r # << >> /\ r[1].do \in Lifecycle => c.do = "inactive" /\ r[1].do = "active"
  BY <1>1, <1>2, <1>3, LoneRest DEF Careful, Sane
<1>9. Lane'
  <2>1. CASE r # << >> /\ r[1].do \in Lifecycle
    <3>1. c.do \in Lifecycle
      BY <1>8, <2>1 DEF Lifecycle
    <3>2. ~At(t, {"inactive"})'
      BY <1>4, <1>7, <1>8, <2>1 DEF At
    <3> QED
      BY <1>4, <1>6, <3>1, <3>2, LaneBegins
  <2>2. CASE ~(r # << >> /\ r[1].do \in Lifecycle)
    <3>1. ~At(t, Lifecycle)'
      BY <1>4, <1>7, <2>2 DEF At
    <3>2. component' = component \/ At(t, Lifecycle)
      BY <1>3, <1>5
    <3> QED
      BY <1>1, <1>4, <3>1, <3>2, LaneTurn
  <2> QED
    BY <2>1, <2>2
<1>10. c.do \in Lifters => Up'
  <2>1. c.do \in Lifters => c.do = "active"
    BY <1>2 DEF Mutations, Lifters, Lifecycle
  <2>2. "active" \in Lifecycle /\ Downs \subseteq Lifecycle
    BY DEF Lifecycle, Downs
  <2> QED
    BY <1>4, <1>5, <1>6, <2>1, <2>2 DEF Up
<1>11. (Up => Up') \/ c.do \in Tearing
  <2>1. CASE c.do \in Lifecycle
    <3>1. CASE c.do = "active"
      BY <1>10, <3>1 DEF Lifters
    <3>2. CASE c.do = "inactive"
      BY <1>6, <2>1, <3>2 DEF Up
    <3>3. CASE c.do = "unconfigured"
      BY <3>3 DEF Tearing
    <3> QED
      BY <2>1, <3>1, <3>2, <3>3 DEF Lifecycle
  <2>2. CASE c.do \notin Lifecycle
    BY <1>4, <1>5, <2>2 DEF Up
  <2> QED
    BY <2>1, <2>2
<1>12. \A g \in Groups : \/ Down(g) => Down(g)'
                         \/ g = c.on /\ g \in held[t] /\ c.do \in Lifting
  <2>1. SUFFICES ASSUME NEW g \in Groups
                 PROVE  \/ Down(g) => Down(g)'
                        \/ g = c.on /\ g \in held[t] /\ c.do \in Lifting
    OBVIOUS
  <2>2. CASE c.do \in Critical /\ c.on = g
    <3>1. c.do \in Lifting /\ c.do \notin Teardown
      BY <2>2 DEF Critical, Lifting, Rising, Teardown
    <3> QED
      BY <1>3, <2>2, <3>1
  <2>3. CASE c.do \notin Critical \/ c.on # g
    <3>1. phase'[g] = phase[g] \/ phase'[g] = "closed"
      BY <1>1, <1>3, <1>4, <2>3, EffectLeaves
    <3> QED
      BY <1>4, <3>1 DEF Down, Still, NoRise
  <2> QED
    BY <2>2, <2>3
<1>13. c.do # "if_halted" /\ c.do # "halted"
  BY <1>2 DEF Mutations, Lifecycle
<1> DEFINE e == << >>
<1>14. e \in Seq(Plans) /\ Len(e) = 0 /\ Continue(t, e)
  BY <1>4
<1>15. e = << >>
  OBVIOUS
<1> HIDE DEF e, r, c
<1>16. On(e, {c.on}) /\ \A names : Lacks(e, names)
  BY <1>14 DEF On, Lacks
<1>17. Lone(e)
  BY <1>16, LackingLone
<1> QED
  BY <1>2, <1>4, <1>9, <1>10, <1>11, <1>12, <1>13, <1>14, <1>15, <1>16, <1>17, ContinueLifts DEF c

(* ... or fails, ...                                                        *)
LEMMA LiftsFails ==
  ASSUME Safety, Lifted, NEW t \in Workers, Refused(t) \/ ReadFails(t)
  PROVE  Lifted'
<1>1. Threading /\ t \in Threads
  BY DEF Safety, Typing, Threaded, Threads
<1>2. Fail(t) /\ UNCHANGED <<state, robotVars, pending>> /\ At(t, Mutations \cup Reads)
  <2>1. At(t, Mutations) \/ At(t, Reads \cap Unreliable)
    BY DEF Refused, ReadFails
  <2>2. At(t, Mutations \cup Reads)
    BY <2>1 DEF At
  <2> QED
    BY <2>2 DEF Refused, ReadFails, rest, ownerVars
<1>3. todo[t] # << >> /\ \A names : At(t, names) <=> todo[t][1].do \in names
  BY <1>1, <1>2, WorkerTurn DEF At
<1>4. CASE At(t, {"halt", "list", "release"})
  <2>1. Continue(t, << >>) /\ \A u \in Threads : u # t => errors'[u] = errors[u]
    BY <1>1, <1>2, <1>4 DEF Fail, Threading
  <2>2. todo[t][1].do \notin Lifters \cup {"inactive", "if_halted", "halted"}
    BY <1>3, <1>4 DEF Lifters
  <2> QED
    BY <1>2, <1>3, <2>1, <2>2, LiftsOn
<1>5. CASE ~At(t, {"halt", "list", "release"})
  <2>1. Raise(t)
    BY <1>2, <1>5 DEF Fail
  <2> QED
    BY <1>2, <1>3, <2>1, LiftsRaises
<1> QED
  BY <1>4, <1>5

(* ... or times out, ...                                                    *)
LEMMA LiftsTimesOut ==
  ASSUME Safety, Lifted, NEW t \in Workers, TimesOut(t)
  PROVE  Lifted'
<1> DEFINE s == todo[t]
           c == Call(t, TRUE)
<1>1. Threading /\ t \in Threads /\ Lane /\ Careful(t)
  BY DEF Safety, Typing, Threaded, Threads, Lifted
<1>2. /\ Fail(t) /\ UNCHANGED <<state, robotVars>> /\ pending' = pending \cup {c} /\ s # << >>
      /\ component' = component /\ phase' = phase
  BY DEF TimesOut, ownerVars, At, robotVars
<1>3. /\ c.do = s[1].do /\ c.on = s[1].on /\ (s[1].do \notin Teardown => s[1].on \in held[t])
      /\ s \in Seq(Plans) /\ Tail(s) \in Seq(Plans)
      /\ \A names : At(t, names) <=> s[1].do \in names
  BY <1>1, <1>2, WorkerTurn DEF Call, GroupOf
<1> HIDE DEF c
<1>4. (Up => Up') \/ s[1].do \in Tearing
  <2>1. CASE s[1].do \notin Downs
    BY <1>2, <1>3, <2>1 DEF Up
  <2>2. CASE s[1].do = "inactive"
    BY <1>1, <1>3, <2>2 DEF Lane, Up, Lifecycle
  <2>3. CASE s[1].do = "unconfigured"
    BY <2>3 DEF Tearing
  <2> QED
    BY <2>1, <2>2, <2>3 DEF Downs
<1>5. \A g \in Groups : \/ Down(g) => Down(g)'
                        \/ g = s[1].on /\ g \in held[t] /\ s[1].do \in Lifting
  <2>1. SUFFICES ASSUME NEW g \in Groups
                 PROVE  \/ Down(g) => Down(g)'
                        \/ g = s[1].on /\ g \in held[t] /\ s[1].do \in Lifting
    OBVIOUS
  <2>2. CASE c.do \in Starters /\ c.on = g
    <3>1. s[1].do \in Lifting /\ s[1].do \notin Teardown
      BY <1>3, <2>2 DEF Starters, Lifting, Rising, Teardown
    <3> QED
      BY <1>3, <2>2, <3>1
  <2>3. CASE c.do \notin Starters \/ c.on # g
    BY <1>2, <2>3 DEF Down, Still, NoRise
  <2> QED
    BY <2>2, <2>3
<1>6. \A d \in pending' : d \in pending \/ d.do \notin Lifecycle \/ At(t, Lifecycle)
  BY <1>2, <1>3
<1>7. CASE At(t, {"halt", "list", "release"})
  <2>1. Continue(t, << >>) /\ \A u \in Threads : u # t => errors'[u] = errors[u]
    BY <1>1, <1>2, <1>7 DEF Fail, Threading
  <2>2. s[1].do \notin Lifters \cup {"inactive", "if_halted", "halted"} \cup Lifecycle \cup Tearing
    BY <1>3, <1>7 DEF Lifters, Lifecycle, Tearing
  <2>3. Alone(t) /\ todo'[t] = Tail(s)
    BY <1>1, <1>3, <2>1, JoinEmpty DEF Continue, Alone, Threading
  <2>4. ~At(t, Lifecycle)'
    <3>1. Tail(s) # << >> => Head(Tail(s)) = Tail(s)[1]
      BY <1>3, Rest
    <3>2. Tail(s) # << >> => Tail(s)[1].do \notin Lifecycle
      BY <1>1, <1>2, <1>3, <2>2, LoneRest DEF Careful, Sane
    <3> QED
      BY <2>3, <3>1, <3>2 DEF At
  <2>5. Lane'
    BY <1>1, <1>2, <1>6, <2>3, <2>4, LaneTurn
  <2> DEFINE e == << >>
  <2>6. e \in Seq(Plans) /\ Len(e) = 0 /\ Continue(t, e) /\ e = << >>
    BY <2>1
  <2> HIDE DEF e
  <2>7. On(e, {s[1].on}) /\ \A names : Lacks(e, names)
    BY <2>6 DEF On, Lacks
  <2>8. Lone(e)
    BY <2>7, LackingLone
  <2> QED
    BY <1>2, <1>4, <1>5, <2>2, <2>3, <2>5, <2>6, <2>7, <2>8, ContinueLifts
<1>8. CASE ~At(t, {"halt", "list", "release"})
  <2>1. Raise(t)
    BY <1>2, <1>8 DEF Fail
  <2> QED
    BY <1>2, <1>4, <1>5, <1>6, <2>1, RaiseLifts
<1> QED
  BY <1>7, <1>8

(* ... a read, ...                                                          *)
LEMMA LiftsReadsRobot ==
  ASSUME Safety, Lifted, NEW t \in Workers, ReadsRobot(t)
  PROVE  Lifted'
<1> DEFINE s == todo[t]
           h == s[1].on
           Here == {"list", "lingering", "verify", "ready"}
<1>1. Threading /\ t \in Threads
  BY DEF Safety, Typing, Threaded, Threads
<1>2. s # << >> /\ s[1].do \in Here /\ GroupOf(t) = h
  <2>1. At(t, Here)
    BY DEF ReadsRobot
  <2> HIDE DEF Here
  <2> QED
    BY <1>1, <2>1, AtHead
<1>3. UNCHANGED <<state, errors, robotVars, pending>>
  BY DEF ReadsRobot, rest, ownerVars
<1>4. \/ Continue(t, << >>) \/ Continue(t, Steps(<<"release">>, h))
      \/ Continue(t, Steps(<<"release_lingering">>, h))
  BY <1>2 DEF ReadsRobot, At
<1>5. h \in Groups
  BY <1>1, <1>2, WorkerTurn DEF Teardown
<1>6. s[1].do \notin Lifters \cup {"inactive", "if_halted", "halted"}
  BY <1>2 DEF Lifters
<1> HIDE DEF h, s
<1>7. CASE Continue(t, << >>)
  BY <1>2, <1>3, <1>6, <1>7, LiftsOn DEF s
<1>8. ASSUME NEW name \in {"release", "release_lingering"}, Continue(t, Steps(<<name>>, h))
      PROVE  Lifted'
  <2> DEFINE steps == Steps(<<name>>, h)
  <2>1. name \in Names /\ name \notin Starters
    BY DEF Names, Mutations, Starters
  <2>2. steps \in Seq(Plans) /\ On(steps, {h}) /\ Uses(steps, {name})
    BY <1>5, <2>1, OneStep
  <2>3. Continue(t, steps)
    BY <1>8
  <2> HIDE DEF steps
  <2>4. /\ Lacks(steps, Lifecycle) /\ Lacks(steps, {"halted"}) /\ Lacks(steps, Tearing)
        /\ Lacks(steps, Lifters \cup {"if_halted"}) /\ Lacks(steps, Lifting)
    BY <2>2 DEF Uses, Lacks, Lifecycle, Tearing, Lifters, Lifting, Rising
  <2> QED
    BY <1>2, <1>3, <1>6, <2>2, <2>3, <2>4, LiftsSteps DEF s, h
<1> QED
  BY <1>4, <1>7, <1>8

(* ... a check, ...                                                         *)
LEMMA LiftsChecks ==
  ASSUME Safety, Lifted, NEW t \in Workers, Checks(t)
  PROVE  Lifted'
<1> DEFINE s == todo[t]
           h == s[1].on
           Here == {"if_halted", "unless_armed", "arm_unless_armed", "rebuild", "switched",
                    "may_init", "may_prepare", "may_acknowledge", "fit", "settled"}
           back == Steps(<<"to_unconfigured", "to_inactive", "rebuilt">>, h)
           both == InitGroup(h) \o Prepare(h)
<1>1. Threading /\ t \in Threads
  BY DEF Safety, Typing, Threaded, Threads
<1>2. s # << >> /\ s[1].do \in Here /\ GroupOf(t) = h
  <2>1. At(t, Here)
    BY DEF Checks
  <2> HIDE DEF Here
  <2> QED
    BY <1>1, <2>1, AtHead
<1>3. UNCHANGED <<state, robotVars, pending>>
  BY DEF Checks, rest, ownerVars
<1>4. h \in Groups
  BY <1>1, <1>2, WorkerTurn DEF Teardown
<1>5. CASE Raise(t)
  BY <1>2, <1>3, <1>5, LiftsRaises
<1>6. ~Raise(t) => \A u \in Threads : u # t => errors'[u] = errors[u]
  BY DEF Checks
<1>7. s[1].do \notin Lifters \cup {"inactive", "halted"}
  BY <1>2 DEF Lifters
<1>8. CASE ~Raise(t) /\ Continue(t, << >>) /\ (s[1].do = "if_halted" => state[h] # "Halted")
  BY <1>2, <1>3, <1>6, <1>7, <1>8, LiftsOn
<1> HIDE DEF s
<1>9. ASSUME ~Raise(t), NEW steps, Continue(t, steps), Sound(steps, {h}), Lacks(steps, Lifecycle),
             Lacks(steps, {"halted"}),
             \/ Lacks(steps, Tearing)
             \/ s[1].do \in Tearing /\ Lacks(steps, Lifters \cup {"if_halted"}),
             Lacks(steps, Lifters \cup {"if_halted"}) \/ s[1].do = "if_halted",
             Lacks(steps, Lifting) \/ s[1].do \in Lifting,
             s[1].do = "if_halted" /\ state[h] = "Halted" => Has(steps, h, Lifters)
      PROVE  Lifted'
  <2>1. steps \in Seq(Plans) /\ On(steps, {h})
    BY <1>9 DEF Sound
  <2>2. s[1].do = "if_halted" => s[1].do \in Lifters \cup {"if_halted"}
    OBVIOUS
  <2> QED
    BY <1>2, <1>3, <1>6, <1>7, <1>9, <2>1, <2>2, LiftsSteps DEF s, h
<1>10. /\ Sound(both, {h}) /\ Uses(both, InitNames \cup PrepareNames) /\ Has(both, h, Lifters)
       /\ Sound(Acknowledge(h), {h}) /\ Uses(Acknowledge(h), AcknowledgeNames)
       /\ Sound(Arm(h), {h}) /\ Uses(Arm(h), ArmNames) /\ Sound(back, {h})
  <2>1. /\ InitGroup(h) \in Seq(Plans) /\ Uses(InitGroup(h), InitNames)
        /\ Prepare(h) \in Seq(Plans) /\ Uses(Prepare(h), PrepareNames) /\ Has(Prepare(h), h, Lifters)
        /\ Uses(Acknowledge(h), AcknowledgeNames)
    BY <1>4, PrepareLifts, InitGroupBlock, PrepareBlock, AcknowledgeBlock
       DEF InitNames, PrepareNames, AcknowledgeNames
  <2>2. Uses(InitGroup(h), InitNames \cup PrepareNames) /\ Uses(Prepare(h), InitNames \cup PrepareNames)
    BY <2>1 DEF Uses
  <2>3. Has(both, h, Lifters) /\ Uses(both, InitNames \cup PrepareNames)
    BY <2>1, <2>2, JoinedAll
  <2> HIDE DEF both, back
  <2>4. Sound(both, {h}) /\ Sound(back, {h})
    BY <1>4, PlainBlocks, RebuildBlock DEF both, back
  <2> QED
    BY <1>4, <2>1, <2>3, <2>4, PlainBlocks
<1>11. Lacks(back, Lifecycle) /\ Lacks(back, {"halted"}) /\ Lacks(back, Lifters \cup {"if_halted"})
       /\ Lacks(back, Lifting)
  <2> DEFINE three == <<"to_unconfigured", "to_inactive", "rebuilt">>
             E == {"to_unconfigured", "to_inactive", "rebuilt"}
  <2>1. three \in Seq(Names) /\ h \in Groups \cup {"all"}
    BY <1>4 DEF Names, Mutations, Checked, Assigned, Others
  <2>2. \A i \in 1..Len(three) : three[i] \in E
    OBVIOUS
  <2> HIDE DEF three
  <2>3. Uses(Steps(three, h), E)
    BY <2>1, <2>2, StepsSet
  <2>4. Uses(back, E)
    BY <2>3 DEF three
  <2> HIDE DEF back
  <2> QED
    BY <2>4 DEF Uses, Lacks, Lifecycle, Lifters, Lifting, Rising
<1> HIDE DEF back, both, h
<1>12. CASE ~Raise(t) /\ s[1].do = "if_halted"
  <2>1. \/ Continue(t, both) \/ (Continue(t, << >>) /\ state[h] # "Halted")
    BY <1>2, <1>12 DEF Checks, At, s, both
  <2>2. /\ Lacks(both, Lifecycle) /\ Lacks(both, {"halted"}) /\ Lacks(both, Tearing)
        /\ Lacks(both, Lifting)
    <3>1. Uses(both, InitNames \cup PrepareNames)
      BY <1>10
    <3> QED
      BY <3>1 DEF Uses, Lacks, InitNames, PrepareNames, Lifecycle, Tearing, Lifting, Rising
  <2> QED
    BY <1>8, <1>9, <1>10, <1>12, <2>1, <2>2
<1>13. CASE ~Raise(t) /\ s[1].do = "unless_armed"
  <2>1. \/ Continue(t, Acknowledge(h)) \/ Continue(t, << >>)
    BY <1>2, <1>13 DEF Checks, At, s
  <2>2. /\ Lacks(Acknowledge(h), Lifecycle) /\ Lacks(Acknowledge(h), {"halted"})
        /\ Lacks(Acknowledge(h), Tearing) /\ Lacks(Acknowledge(h), Lifters \cup {"if_halted"})
        /\ Lacks(Acknowledge(h), Lifting)
    <3>1. Uses(Acknowledge(h), AcknowledgeNames)
      BY <1>10
    <3> QED
      BY <3>1 DEF Uses, Lacks, AcknowledgeNames, Lifecycle, Tearing, Lifting, Rising, Lifters
  <2> QED
    BY <1>8, <1>9, <1>10, <1>13, <2>1, <2>2
<1>14. CASE ~Raise(t) /\ s[1].do = "arm_unless_armed"
  <2>1. \/ Continue(t, Arm(h)) \/ Continue(t, << >>)
    BY <1>2, <1>14 DEF Checks, At, s
  <2>2. /\ Lacks(Arm(h), Lifecycle) /\ Lacks(Arm(h), {"halted"}) /\ Lacks(Arm(h), Tearing)
        /\ Lacks(Arm(h), Lifters \cup {"if_halted"})
    <3>1. Uses(Arm(h), ArmNames)
      BY <1>10
    <3> QED
      BY <3>1 DEF Uses, Lacks, ArmNames, Lifecycle, Tearing, Lifters
  <2>3. s[1].do \in Lifting
    BY <1>14 DEF Lifting
  <2> QED
    BY <1>8, <1>9, <1>10, <1>14, <2>1, <2>2, <2>3
<1>15. CASE ~Raise(t) /\ s[1].do = "rebuild"
  <2>1. Continue(t, back)
    BY <1>2, <1>15 DEF Checks, At, s, back
  <2>2. s[1].do \in Tearing
    BY <1>15 DEF Tearing
  <2> QED
    BY <1>9, <1>10, <1>11, <1>15, <2>1, <2>2
<1>16. CASE ~Raise(t) /\ s[1].do \notin {"if_halted", "unless_armed", "arm_unless_armed", "rebuild"}
  <2>1. Continue(t, << >>)
    BY <1>2, <1>16 DEF Checks, At, s
  <2> QED
    BY <1>8, <1>16, <2>1
<1> QED
  BY <1>5, <1>12, <1>13, <1>14, <1>15, <1>16

(* The steps of a path                                                      *)
LEMMA PathLifts ==
  ASSUME NEW g \in Groups \cup {"all"}, NEW path,
         \/ path = << >> \/ path = <<"inactive">> \/ path = <<"inactive", "active">>
               \/ path = <<"active">>
         \/ path = <<"unconfigured">>
  PROVE  LET s == Steps(path, g)
         IN  /\ s \in Seq(Plans) /\ On(s, {g}) /\ Lone(s) /\ Lacks(s, {"halted"}) /\ Lacks(s, Lifting)
             /\ \/ path = << >> /\ s = << >> /\ Lacks(s, Tearing) /\ Lacks(s, Lifters \cup {"if_halted"})
                \/ /\ path = <<"unconfigured">> /\ s # << >> /\ s[1].do = "unconfigured"
                   /\ Lacks(s, Lifters \cup {"if_halted"})
                \/ /\ path = <<"inactive">> /\ s # << >> /\ s[1].do = "inactive"
                   /\ Lacks(s, Tearing) /\ Lacks(s, Lifters \cup {"if_halted"})
                \/ /\ path = <<"inactive", "active">> /\ s # << >> /\ s[1].do = "inactive"
                   /\ Lacks(s, Tearing) /\ Has(s, g, Lifters)
                \/ /\ path = <<"active">> /\ s # << >> /\ s[1].do = "active"
                   /\ Lacks(s, Tearing) /\ Has(s, g, Lifters)
<1> DEFINE s == Steps(path, g)
<1>1. Sound(s, {g}) /\ Uses(s, Lifecycle)
  BY PathSteps
<1>2. path \in Seq(Names)
  <2>1. {"inactive", "active", "unconfigured"} \subseteq Names
    BY DEF Names, Mutations, Lifecycle
  <2>2. CASE path = << >>
    BY <2>2
  <2>3. CASE path = <<"inactive">>
    BY <2>1, <2>3
  <2>4. CASE path = <<"inactive", "active">>
    BY <2>1, <2>4
  <2>5. CASE path = <<"active">>
    BY <2>1, <2>5
  <2>6. CASE path = <<"unconfigured">>
    BY <2>1, <2>6
  <2> QED
    BY <2>2, <2>3, <2>4, <2>5, <2>6
<1>3. Len(s) = Len(path) /\ \A i \in 1..Len(path) : s[i].do = path[i] /\ s[i].on = g
  BY <1>2, StepsFacts
<1>4. s \in Seq(Plans) /\ On(s, {g}) /\ Lacks(s, {"halted"}) /\ Lacks(s, Lifting)
  BY <1>1 DEF Sound, Uses, Lacks, Lifecycle, Lifting, Rising
<1> HIDE DEF s
<1>5. CASE path = << >>
  <2>1. Len(s) = 0 /\ s = << >>
    BY <1>3, <1>4, <1>5
  <2>2. Lone(s) /\ Lacks(s, Tearing) /\ Lacks(s, Lifters \cup {"if_halted"})
    BY <2>1 DEF Lone, Lacks
  <2> QED
    BY <1>4, <1>5, <2>1, <2>2 DEF s
<1>6. ASSUME NEW name \in {"inactive", "active", "unconfigured"}, path = <<name>>
      PROVE  /\ Lone(s) /\ s # << >> /\ s[1].do = name
             /\ name # "unconfigured" => Lacks(s, Tearing)
             /\ name # "active" => Lacks(s, Lifters \cup {"if_halted"})
             /\ name = "active" => Has(s, g, Lifters)
  <2>1. Len(path) = 1 /\ path[1] = name /\ 1 \in 1..1
    BY <1>6
  <2>2. Len(s) = 1 /\ s[1].do = name /\ s[1].on = g
    BY <1>3, <2>1
  <2>3. s # << >> /\ \A i \in 1..Len(s) : i = 1 /\ s[i].do = name
    BY <1>4, <2>2
  <2>4. Lone(s)
    BY <2>3 DEF Lone
  <2>5. name # "unconfigured" => Lacks(s, Tearing)
    BY <2>3 DEF Lacks, Tearing
  <2>6. name # "active" => Lacks(s, Lifters \cup {"if_halted"})
    BY <2>3 DEF Lacks, Lifters
  <2>7. name = "active" => Has(s, g, Lifters)
    BY <2>1, <2>2 DEF Has, Lifters
  <2> QED
    BY <2>2, <2>3, <2>4, <2>5, <2>6, <2>7
<1>7. ASSUME path = <<"inactive", "active">>
      PROVE  Lone(s) /\ s # << >> /\ s[1].do = "inactive" /\ Lacks(s, Tearing) /\ Has(s, g, Lifters)
  <2>1. Len(path) = 2 /\ path[1] = "inactive" /\ path[2] = "active" /\ 1 \in 1..2 /\ 2 \in 1..2
        /\ \A i \in 1..2 : i = 1 \/ i = 2
    BY <1>7
  <2>2. /\ Len(s) = 2 /\ s[1].do = "inactive" /\ s[1].on = g /\ s[2].do = "active" /\ s[2].on = g
        /\ s # << >>
    BY <1>3, <1>4, <2>1
  <2>3. Lone(s) /\ Lacks(s, Tearing)
    BY <2>1, <2>2 DEF Lone, Lacks, Tearing
  <2>4. Has(s, g, Lifters)
    BY <2>1, <2>2 DEF Has, Lifters
  <2> QED
    BY <2>2, <2>3, <2>4
<1> QED
  BY <1>4, <1>5, <1>6, <1>7 DEF s

(* ... a transition of the component, ...                                   *)
LEMMA LiftsTransition ==
  ASSUME Safety, Lifted, NEW t \in Workers, Transition(t)
  PROVE  Lifted'
<1> DEFINE s == todo[t]
           h == s[1].on
           Here == {"to_inactive", "to_active", "to_unconfigured"}
           path ==
        CASE At(t, {"to_inactive"}) /\ component = "unconfigured" -> <<"inactive">>
          [] At(t, {"to_active"}) /\ component = "unconfigured" -> <<"inactive", "active">>
          [] At(t, {"to_active"}) /\ component = "inactive" -> <<"active">>
          [] At(t, {"to_unconfigured"}) /\ component # "unconfigured" -> <<"unconfigured">>
          [] OTHER -> <<>>
           steps == Steps(path, h)
<1>1. Threading /\ t \in Threads /\ RobotTypes /\ Calls /\ Careful(t) /\ Lane
  BY DEF Safety, Typing, Threaded, Threads, Lifted
<1>2. s # << >> /\ s[1].do \in Here /\ GroupOf(t) = h
  <2>1. At(t, Here)
    BY DEF Transition
  <2> HIDE DEF Here
  <2> QED
    BY <1>1, <2>1, AtHead
<1>3. UNCHANGED <<state, robotVars, pending>>
  BY DEF Transition, rest, ownerVars
<1>4. \/ path = << >> /\ (s[1].do = "to_active" => component = "active")
      \/ path = <<"unconfigured">> /\ s[1].do = "to_unconfigured"
      \/ path = <<"inactive">> /\ component # "active" /\ s[1].do = "to_inactive"
      \/ path = <<"inactive", "active">> /\ component # "active" /\ s[1].do = "to_active"
      \/ path = <<"active">> /\ s[1].do = "to_active"
  BY <1>1, <1>2 DEF At, RobotTypes, Lifecycle
<1>5. Raise(t) \/ (ResourceSettled /\ Continue(t, steps) /\ UNCHANGED errors)
  BY <1>2 DEF Transition
<1>6. h \in Groups \cup {"all"} /\ Tail(s) \in Seq(Plans)
  <2>1. s[1] \in Plans
    BY <1>1, <1>2, HeadFacts
  <2> QED
    BY <1>1, <1>2, <2>1, WorkerTurn DEF Plans
<1>7. CASE Raise(t)
  BY <1>2, <1>3, <1>7, LiftsRaises
<1>8. /\ steps \in Seq(Plans) /\ On(steps, {h}) /\ Lone(steps) /\ Lacks(steps, {"halted"})
      /\ Lacks(steps, Lifting)
      /\ \/ /\ steps = << >> /\ Lacks(steps, Tearing) /\ Lacks(steps, Lifters \cup {"if_halted"})
            /\ (s[1].do = "to_active" => component = "active")
         \/ /\ steps # << >> /\ steps[1].do = "unconfigured" /\ s[1].do = "to_unconfigured"
            /\ Lacks(steps, Lifters \cup {"if_halted"})
         \/ /\ steps # << >> /\ steps[1].do = "inactive" /\ component # "active" /\ s[1].do = "to_inactive"
            /\ Lacks(steps, Tearing) /\ Lacks(steps, Lifters \cup {"if_halted"})
         \/ /\ steps # << >> /\ steps[1].do = "inactive" /\ component # "active" /\ s[1].do = "to_active"
            /\ Lacks(steps, Tearing) /\ Has(steps, h, Lifters)
         \/ /\ steps # << >> /\ steps[1].do = "active" /\ s[1].do = "to_active"
            /\ Lacks(steps, Tearing) /\ Has(steps, h, Lifters)
  <2> DEFINE x == h
             p == path
             y == s[1].do
  <2>1. \/ p = << >> /\ (y = "to_active" => component = "active")
        \/ p = <<"unconfigured">> /\ y = "to_unconfigured"
        \/ p = <<"inactive">> /\ component # "active" /\ y = "to_inactive"
        \/ p = <<"inactive", "active">> /\ component # "active" /\ y = "to_active"
        \/ p = <<"active">> /\ y = "to_active"
    BY <1>4
  <2>2. x \in Groups \cup {"all"}
    BY <1>6
  <2> HIDE DEF x, p, y
  <2>3. CASE p = << >> /\ (y = "to_active" => component = "active")
    BY <2>2, <2>3, PathLifts DEF x, p, y
  <2>4. CASE p = <<"unconfigured">> /\ y = "to_unconfigured"
    BY <2>2, <2>4, PathLifts DEF x, p, y
  <2>5. CASE p = <<"inactive">> /\ component # "active" /\ y = "to_inactive"
    BY <2>2, <2>5, PathLifts DEF x, p, y
  <2>6. CASE p = <<"inactive", "active">> /\ component # "active" /\ y = "to_active"
    BY <2>2, <2>6, PathLifts DEF x, p, y
  <2>7. CASE p = <<"active">> /\ y = "to_active"
    BY <2>2, <2>7, PathLifts DEF x, p, y
  <2> QED
    BY <2>1, <2>3, <2>4, <2>5, <2>6, <2>7
<1> HIDE DEF path, steps
<1>9. CASE ResourceSettled /\ Continue(t, steps) /\ UNCHANGED errors
  <2>1. \A u \in Workers : u # t => ~At(u, Lifecycle)
    BY DEF Transition, Threads
  <2>2. \A c \in pending : c.do \notin Lifecycle
    BY <1>1, <1>9 DEF ResourceSettled, Calls
  <2>3. component = "active" => Up
    BY <2>2 DEF Up, Downs, Lifecycle
  <2>5. Alone(t) /\ todo'[t] = steps \o Tail(s)
    BY <1>1, <1>9 DEF Alone, Continue, Threading
  <2> HIDE DEF s, h
  <2>6. At(t, {"inactive"})' => component # "active"
    <3>1. CASE steps = << >>
      <4>1. todo'[t] = Tail(s)
        BY <1>6, <2>5, <3>1, JoinEmpty
      <4>2. Lacks(Tail(s), Lifecycle)
        <5>1. s \in Seq(Plans) /\ s # << >> /\ Lone(s) /\ s[1].do # "inactive"
          BY <1>1, <1>2, WorkerTurn DEF s, Careful, Sane
        <5> QED
          BY <5>1, LoneRest
      <4>3. Tail(s) # << >> => Head(Tail(s)) = Tail(s)[1] /\ 1 \in 1..Len(Tail(s))
        BY <1>6, Rest
      <4> QED
        BY <4>1, <4>2, <4>3 DEF At, Lacks, Lifecycle
    <3>2. CASE steps # << >>
      <4>1. Head(steps \o Tail(s)) = steps[1]
        <5>1. steps # << >> /\ steps \in Seq(Plans) /\ Tail(s) \in Seq(Plans)
          BY <1>6, <1>8, <3>2
        <5>2. 1 \in 1..Len(steps)
          BY <5>1, Rest
        <5>3. (steps \o Tail(s))[1] = steps[1] /\ steps \o Tail(s) \in Seq(Plans)
          BY <5>1, <5>2, JoinedPlans
        <5> QED
          BY <5>1, <5>2, <5>3
      <4>2. Head(todo'[t]).do = steps[1].do
        BY <2>5, <4>1
      <4>3. steps[1].do = "inactive" => component # "active"
        BY <1>8, <3>2
      <4> QED
        BY <4>2, <4>3 DEF At
    <3> QED
      BY <3>1, <3>2
  <2>7. Lane'
    BY <1>3, <2>1, <2>2, <2>5, <2>6, LaneBegins DEF robotVars
  <2>8. (Up' <=> Up) /\ \A g \in Groups : Down(g) => Down(g)'
    <3>1. (Up' <=> Up) /\ \A g : Still(g)' <=> Still(g)
      BY <1>3, AsItWas
    <3> QED
      BY <1>3, <3>1 DEF Down
  <2>9. s[1].do \in Lifters => Up' \/ Has(steps, h, Lifters)
    <3>1. s[1].do \in Lifters => s[1].do = "to_active"
      BY <1>2 DEF Lifters, s
    <3> QED
      BY <1>8, <2>3, <2>8, <3>1
  <2>10. s[1].do \notin {"inactive", "if_halted", "halted"}
    BY <1>2 DEF s
  <2>11. /\ \/ Lacks(steps, Tearing)
            \/ s[1].do \in Tearing /\ Lacks(steps, Lifters \cup {"if_halted"})
         /\ Lacks(steps, Lifters \cup {"if_halted"}) \/ s[1].do \in Lifters \cup {"if_halted"}
    <3>1. "to_unconfigured" \in Tearing /\ "to_active" \in Lifters
      BY DEF Tearing, Lifters
    <3> QED
      BY <1>8, <3>1
  <2>12. \A g \in Groups : state'[g] = state[g]
    BY <1>3
  <2> QED
    BY <1>2, <1>8, <1>9, <2>5, <2>7, <2>8, <2>9, <2>10, <2>11, <2>12, ContinueLifts DEF s, h
<1> QED
  BY <1>5, <1>7, <1>9

(* ... the end of a rebuild, ...                                            *)
LEMMA LiftsRebuilt ==
  ASSUME Safety, Lifted, NEW t \in Workers, Rebuilt(t)
  PROVE  Lifted'
<1> DEFINE s == todo[t]
           w == WithoutName(Tail(s), "rebuild")
<1>1. Threading /\ t \in Threads /\ Careful(t) /\ Lane
  BY DEF Safety, Typing, Threaded, Threads, Lifted
<1>2. s # << >> /\ s[1].do = "rebuilt" /\ s \in Seq(Plans) /\ held[t] \subseteq Groups
  <2>1. At(t, {"rebuilt"})
    BY DEF Rebuilt
  <2> QED
    BY <1>1, <2>1, AtHead, WorkerTurn
<1>3. UNCHANGED <<state, op, held, errors, robotVars, pending>>
  BY DEF Rebuilt, rest, ownerVars
<1>4. todo'[t] = w /\ Alone(t)
  <2>1. todo' = [todo EXCEPT ![t] = w]
    BY DEF Rebuilt
  <2> HIDE DEF w
  <2> QED
    BY <1>1, <1>3, <2>1 DEF Alone, Threading
<1>5. /\ Sane(w) /\ Lacks(w, Lifecycle) /\ (Lacks(s, Tearing) => Lacks(w, Tearing))
      /\ \A g : /\ Lifts(s, g) => Lifts(w, g)
                /\ Asks(s, g) => Asks(w, g)
                /\ Has(s, g, {"halted"}) => Has(w, g, {"halted"})
  <2>1. Sane(s)
    BY <1>1 DEF Careful
  <2> HIDE DEF s
  <2> QED
    BY <1>2, <2>1, SaneRebuilt
<1>6. (Up' <=> Up) /\ component' = component /\ \A g : Down(g)' <=> Down(g)
  <2>1. (Up' <=> Up) /\ component' = component /\ \A g : Still(g)' <=> Still(g)
    BY <1>3, AsItWas
  <2> QED
    BY <1>3, <2>1 DEF Down
<1> HIDE DEF w
<1>7. ~At(t, Lifecycle)'
  <2>1. w \in Seq(Plans)
    <3>1. Suits(t, op[t], held[t], s)
      BY <1>1, <1>2, HeadFacts
    <3> HIDE DEF s
    <3> QED
      BY <1>1, <1>2, <3>1, SuitsRebuilt DEF w
  <2>2. w # << >> => Head(w) = w[1] /\ 1 \in 1..Len(w)
    BY <2>1, Rest
  <2> QED
    BY <1>4, <1>5, <2>2 DEF At, Lacks
<1>8. Lane'
  BY <1>1, <1>3, <1>4, <1>6, <1>7, LaneTurn
<1>9. Careful(t)'
  <2>1. held'[t] = held[t] /\ \A g \in held[t] : RuleUp(t, g) /\ RuleDown(t, g)
    BY <1>1, <1>3 DEF Careful
  <2>2. Whole(t)'
    BY <1>1, <1>4, <1>5, <2>1 DEF Careful, Whole
  <2> HIDE DEF s
  <2>3. ASSUME NEW g \in held[t]
        PROVE  RuleUp(t, g)' /\ RuleDown(t, g)'
    <3>1. RuleUp(t, g) /\ RuleDown(t, g)
      BY <2>1
    <3> QED
      BY <1>3, <1>4, <1>5, <1>6, <3>1 DEF RuleUp, RuleDown, s
  <2> QED
    BY <1>4, <1>5, <2>1, <2>2, <2>3 DEF Careful
<1> QED
  BY <1>2, <1>3, <1>4, <1>6, <1>8, <1>9, LiftedTurn

(* ... an assignment, ...                                                   *)
LEMMA LiftsAssigns ==
  ASSUME Safety, Lifted, NEW t \in Workers, Assigns(t)
  PROVE  Lifted'
<1> DEFINE s == todo[t]
           h == s[1].on
           Here == {"initialized", "armed", "running", "stopped", "fault"}
<1>1. Threading /\ t \in Threads /\ state \in [Groups -> States]
  BY DEF Safety, Typing, Threaded, OwnerTypes, Threads
<1>2. s # << >> /\ s[1].do \in Here /\ GroupOf(t) = h /\ Head(s) = s[1]
  <2>1. At(t, Here)
    BY DEF Assigns
  <2> HIDE DEF Here
  <2> QED
    BY <1>1, <2>1, AtHead
<1>3. /\ state' = [state EXCEPT ![h] = StateAfter(s[1].do)] /\ Continue(t, << >>)
      /\ UNCHANGED <<errors, robotVars, pending>>
  BY <1>2 DEF Assigns, rest
<1>4. h \in held[t]
  BY <1>1, <1>2, WorkerTurn DEF Teardown
<1>5. s[1].do \notin Lifters \cup {"inactive", "if_halted", "halted"}
  BY <1>2 DEF Lifters
<1> HIDE DEF h, s
<1>6. \A g \in Groups :
        \/ state'[g] = state[g] /\ ~(g = h /\ s[1].do = "halted")
        \/ /\ g = h /\ g \in held[t]
           /\ state'[g] \notin Live \/ s[1].do \in Lifting \ {"halted"}
  BY <1>1, <1>2, <1>3, <1>4 DEF StateAfter, Live, Lifting, Rising
<1> QED
  BY <1>2, <1>3, <1>5, <1>6, LiftsOn DEF s, h

(* ... the beginning of a stop ...                                          *)
LEMMA LiftsBumps ==
  ASSUME Safety, Lifted, NEW t \in Workers, Bumps(t)
  PROVE  Lifted'
<1>1. Threading /\ t \in Threads
  BY DEF Safety, Typing, Threaded, Threads
<1>2. todo[t] # << >> /\ todo[t][1].do = "bump"
  <2>1. At(t, {"bump"})
    BY DEF Bumps
  <2> QED
    BY <1>1, <2>1, AtHead
<1>3. Continue(t, << >>) /\ UNCHANGED <<state, robotVars, pending>>
      /\ \A u \in Threads : u # t => errors'[u] = errors[u]
  BY <1>1 DEF Bumps, Threading, rest
<1> QED
  BY <1>2, <1>3, LiftsOn DEF Lifters

(* ... and its end, ...                                                     *)
LEMMA LiftsHalted ==
  ASSUME Safety, Tended, Lifted, NEW t \in Workers, Halted(t)
  PROVE  Lifted'
<1> DEFINE h == todo[t][1].on
<1>1. Threading /\ t \in Threads /\ state \in [Groups -> States]
  BY DEF Safety, Typing, Threaded, OwnerTypes, Threads
<1>2. todo[t] # << >> /\ todo[t][1].do = "halted" /\ GroupOf(t) = h
  <2>1. At(t, {"halted"})
    BY DEF Halted
  <2> QED
    BY <1>1, <2>1, AtHead
<1>3. h \in held[t] /\ h \in Groups
  BY <1>1, <1>2, WorkerTurn DEF Teardown
<1>4. Still(h)
  BY <1>1, <1>2, <1>3, LandsStill DEF Reached
<1>5. /\ Raise(t) \/ (Continue(t, << >>) /\ errors' = [errors EXCEPT ![t] = FALSE])
      /\ UNCHANGED <<robotVars, pending>>
      /\ state' = [state EXCEPT ![h] = StateAfterStop(errors[t])]
  BY <1>2 DEF Halted, rest
<1>6. \A g \in Groups : \/ state'[g] = state[g] /\ g # h
                        \/ g = h /\ g \in held[t] /\ state'[g] \notin Live
  <2> DEFINE x == StateAfterStop(errors[t])
  <2>1. x \notin Live
    BY DEF StateAfterStop, Live
  <2>2. state' = [state EXCEPT ![h] = x]
    BY <1>5
  <2> HIDE DEF x, h
  <2> QED
    BY <1>1, <1>3, <2>1, <2>2
<1>7. CASE Raise(t)
  BY <1>2, <1>5, <1>6, <1>7, LiftsRaises
<1>8. CASE Continue(t, << >>) /\ errors' = [errors EXCEPT ![t] = FALSE]
  <2>1. \A u \in Threads : u # t => errors'[u] = errors[u]
    BY <1>1, <1>8 DEF Threading
  <2>2. todo[t][1].do \notin Lifters \cup {"inactive", "if_halted"}
    BY <1>2 DEF Lifters
  <2>3. \A g \in Groups : g = todo[t][1].on /\ todo[t][1].do = "halted" => Still(g)
    BY <1>4
  <2> QED
    BY <1>2, <1>5, <1>6, <1>8, <2>1, <2>2, <2>3, LiftsOn
<1> QED
  BY <1>5, <1>7, <1>8

(* ... the journal's record ...                                             *)
LEMMA LiftsRecords ==
  ASSUME Safety, Lifted, NEW t \in Workers, Records(t) \/ Closes(t)
  PROVE  Lifted'
<1>1. Threading /\ t \in Threads
  BY DEF Safety, Typing, Threaded, Threads
<1>2. todo[t] # << >> /\ todo[t][1].do \in {"transact", "close", "roll_back"}
  <2>1. At(t, {"transact"}) \/ At(t, {"close", "roll_back"})
    BY DEF Records, Closes
  <2> QED
    BY <1>1, <2>1, AtHead
<1>3. /\ UNCHANGED <<state, robotVars, pending>>
      /\ Raise(t) \/ (Continue(t, << >>) /\ UNCHANGED errors)
  BY DEF Records, Closes, ownerVars
<1>4. CASE Raise(t)
  BY <1>2, <1>3, <1>4, LiftsRaises
<1>5. CASE Continue(t, << >>) /\ UNCHANGED errors
  BY <1>2, <1>3, <1>5, LiftsOn DEF Lifters
<1> QED
  BY <1>3, <1>4, <1>5

(* ... and the end of a maintenance.                                        *)
LEMMA LiftsConcludes ==
  ASSUME Safety, Lifted, NEW t \in Workers, Concludes(t)
  PROVE  Lifted'
<1> DEFINE s == todo[t]
           h == s[1].on
           lock == Steps(<<"maintenance_lock">>, h)
<1>1. Threading /\ t \in Threads /\ state \in [Groups -> States]
  BY DEF Safety, Typing, Threaded, OwnerTypes, Threads
<1>2. s # << >> /\ s[1].do = "maintained" /\ GroupOf(t) = h
  <2>1. At(t, {"maintained"})
    BY DEF Concludes
  <2> QED
    BY <1>1, <2>1, AtHead
<1>3. h \in held[t] /\ h \in Groups
  BY <1>1, <1>2, WorkerTurn DEF Teardown
<1>4. /\ Continue(t, << >>) \/ Continue(t, lock)
      /\ UNCHANGED <<errors, robotVars, pending>>
      /\ \A g \in Groups : \/ g # h /\ state[g]' = state[g]
                           \/ g = h /\ g \in held[t] /\ state[g]' \notin Live
  <2>1. /\ state' = [state EXCEPT ![h] = IF Resolved(h) THEN "Initialized" ELSE "Fault"]
        /\ Continue(t, << >>) \/ Continue(t, lock)
        /\ UNCHANGED <<errors, robotVars, pending>>
    BY <1>2 DEF Concludes, rest
  <2> DEFINE x == IF Resolved(h) THEN "Initialized" ELSE "Fault"
  <2>2. x \notin Live
    BY DEF Live
  <2>3. state' = [state EXCEPT ![h] = x]
    BY <2>1
  <2> HIDE DEF x, h
  <2> QED
    BY <1>1, <1>3, <2>1, <2>2, <2>3
<1>5. s[1].do \notin Lifters \cup {"inactive", "if_halted", "halted"}
  BY <1>2 DEF Lifters
<1> HIDE DEF h, s, lock
<1>6. CASE Continue(t, << >>)
  BY <1>2, <1>4, <1>5, <1>6, LiftsOn DEF s, h
<1>7. CASE Continue(t, lock)
  <2>1. "maintenance_lock" \in Names /\ "maintenance_lock" \notin Starters
    BY DEF Names, Mutations, Starters
  <2>2. lock \in Seq(Plans) /\ On(lock, {h}) /\ Uses(lock, {"maintenance_lock"})
    BY <1>3, <2>1, OneStep DEF lock
  <2>3. /\ Lacks(lock, Lifecycle) /\ Lacks(lock, {"halted"}) /\ Lacks(lock, Tearing)
        /\ Lacks(lock, Lifters \cup {"if_halted"}) /\ Lacks(lock, Lifting)
    BY <2>2 DEF Uses, Lacks, Lifecycle, Tearing, Lifters, Lifting, Rising
  <2> QED
    BY <1>2, <1>4, <1>5, <1>7, <2>2, <2>3, LiftsSteps DEF s, h
<1> QED
  BY <1>4, <1>6, <1>7

(* A worker that begins or ends                                             *)
LEMMA LiftedSwap ==
  ASSUME Lifted, NEW t \in Workers, Alone(t), UNCHANGED <<state, robotVars, pending>>,
         Careful(t)', ~At(t, Lifecycle)'
  PROVE  Lifted'
<1>1. (Up' <=> Up) /\ component' = component /\ \A g : Down(g)' <=> Down(g)
  <2>1. (Up' <=> Up) /\ component' = component /\ \A g : Still(g)' <=> Still(g)
    BY AsItWas
  <2> QED
    BY <2>1 DEF Down
<1>2. Lane'
  BY <1>1, LaneTurn DEF Lifted
<1>3. ASSUME NEW u \in Workers, u # t
      PROVE  Careful(u)'
  <2>1. Careful(u) /\ todo'[u] = todo[u] /\ held'[u] = held[u]
    BY <1>3 DEF Alone, Lifted, Threads
  <2>2. ASSUME NEW g \in held[u]
        PROVE  RuleUp(u, g)' /\ RuleDown(u, g)'
    <3>1. RuleUp(u, g) /\ RuleDown(u, g)
      BY <2>1 DEF Careful
    <3> QED
      BY <1>1, <2>1, <3>1 DEF RuleUp, RuleDown
  <2> QED
    BY <2>1, <2>2 DEF Careful, Whole
<1> QED
  BY <1>1, <1>2, <1>3 DEF Lifted

(* keeps the rules: at the end, ...                                         *)
LEMMA LiftsEnds ==
  ASSUME Safety, Lifted, NEW t \in Workers, Ends(t)
  PROVE  Lifted'
<1>1. Threading /\ t \in Threads
  BY DEF Safety, Typing, Threaded, Threads
<1>2. Alone(t) /\ held'[t] = {} /\ todo'[t] = << >> /\ UNCHANGED <<state, robotVars, pending>>
  BY <1>1 DEF Ends, Threading, Alone, ownerVars, rest
<1>3. Careful(t)' /\ ~At(t, Lifecycle)'
  BY <1>2, NothingLifts DEF Careful, Whole, At
<1> QED
  BY <1>2, <1>3, LiftedSwap

(* ... and at the beginning: one that resumes finds the component up where  *)
(* the group is armed, and the others bring it up.                          *)
LEMMA LiftsBegin ==
  ASSUME Safety, Lifted, NEW t \in Workers, NEW action \in asked, NEW gs \in Scopes(action),
         Begin(t, action, gs)
  PROVE  Lifted'
<1> DEFINE s == Program(action, gs)
<1>1. Threading /\ t \in Threads /\ action \in Actions /\ gs \in SUBSET Groups
  <2>1. Threading /\ t \in Threads /\ asked \in Workloads
    BY DEF Safety, Typing, Threaded, Threading, Threads
  <2>2. action \in Actions
    BY <2>1, CoordinatorAssumption
  <2> QED
    BY <2>1, <2>2, ScopesOfGroups
<1>2. /\ Alone(t) /\ held'[t] = gs /\ todo'[t] = s
      /\ UNCHANGED <<state, robotVars, pending>>
  BY <1>1 DEF Begin, Threading, Alone, rest
<1>3. s \in Seq(Plans)
  BY <1>1, ProgramSound DEF Script
<1>4. /\ Leveled(s, gs)
      /\ action # "resume" => \A g : Lifts(s, g)
      /\ action = "resume" => Lacks(s, Tearing) /\ \A g : Asks(s, g)
  BY <1>1, ProgramLifts
<1>5. (Up' <=> Up) /\ \A g : Down(g)' <=> Down(g)
  <2>1. (Up' <=> Up) /\ \A g : Still(g)' <=> Still(g)
    BY <1>2, AsItWas
  <2> QED
    BY <1>2, <2>1 DEF Down
<1>6. action = "resume" => \A g \in gs : state[g] \in {"Armed", "Halted"}
  BY DEF Begin, Allowed
<1> HIDE DEF s
<1>7. ~At(t, Lifecycle)'
  <2>1. s # << >> => Head(s) = s[1] /\ 1 \in 1..Len(s)
    BY <1>3, Rest
  <2> QED
    BY <1>2, <1>4, <2>1 DEF At, Lacks, Leveled
<1>8. Sane(s) /\ Whole(t)'
  BY <1>2, <1>4 DEF Leveled, Whole
<1>9. ASSUME NEW g \in gs
      PROVE  RuleUp(t, g)' /\ RuleDown(t, g)'
  <2>1. g \in Groups
    BY <1>1, <1>9
  <2>2. RuleDown(t, g)'
    BY <1>2, <1>4, <2>1 DEF Leveled, RuleDown
  <2>3. CASE action # "resume"
    BY <1>2, <1>4, <2>2, <2>3 DEF RuleUp
  <2>4. CASE action = "resume" /\ state[g] = "Halted"
    BY <1>2, <1>4, <2>2, <2>4 DEF RuleUp
  <2>5. CASE action = "resume" /\ state[g] = "Armed"
    <3>1. Up
      BY <2>1, <2>5 DEF Lifted, Down, Live
    <3> QED
      BY <1>2, <1>4, <1>5, <2>2, <2>5, <3>1 DEF RuleUp
  <2> QED
    BY <1>6, <2>3, <2>4, <2>5
<1>10. Careful(t)'
  BY <1>2, <1>8, <1>9 DEF Careful
<1> QED
  BY <1>2, <1>7, <1>10, LiftedSwap

(* Every step of a worker                                                   *)
LEMMA LiftsWorks ==
  ASSUME Safety, Tended, Lifted, NEW t \in Workers, Works(t)
  PROVE  Lifted'
<1>1. CASE Answered(t)
  BY <1>1, LiftsAnswered
<1>2. CASE Refused(t) \/ ReadFails(t)
  BY <1>2, LiftsFails
<1>3. CASE TimesOut(t)
  BY <1>3, LiftsTimesOut
<1>4. CASE ReadsRobot(t) \/ Checks(t)
  BY <1>4, LiftsReadsRobot, LiftsChecks
<1>5. CASE Transition(t) \/ Rebuilt(t)
  BY <1>5, LiftsTransition, LiftsRebuilt
<1>6. CASE Assigns(t) \/ Bumps(t)
  BY <1>6, LiftsAssigns, LiftsBumps
<1>7. CASE Halted(t) \/ Records(t) \/ Closes(t)
  BY <1>7, LiftsHalted, LiftsRecords
<1>8. CASE Concludes(t) \/ Ends(t)
  BY <1>8, LiftsConcludes, LiftsEnds
<1> QED
  BY <1>1, <1>2, <1>3, <1>4, <1>5, <1>6, <1>7, <1>8 DEF Works

(* A step in which no worker goes on, nothing is raised and none of their   *)
(* groups changes its state keeps the rules.                                *)
LEMMA LiftsCalm ==
  ASSUME Safety, Lifted, \A t \in Workers : todo'[t] = todo[t] /\ held'[t] = held[t],
         component' = component, \A g \in Groups : phase'[g] = phase[g] \/ phase'[g] = "closed",
         \A c \in pending' : c \in pending \/ c.do \notin Starters \cup Lifecycle,
         \A g \in Groups : state'[g] = state[g] \/ (state'[g] \notin Live /\ \A t \in Workers : g \notin held[t])
  PROVE  Lifted'
<1>1. \A t \in Workers : held[t] \subseteq Groups /\ \A g \in held[t] : state'[g] = state[g]
  BY DEF Safety, Typing, Threaded, Threading, Threads
<1>2. \A g \in Groups : Down(g) => Down(g)'
  BY DEF Down, Still, NoRise
<1>3. Up => Up'
  <2>1. Downs \subseteq Lifecycle
    BY DEF Downs, Lifecycle
  <2> QED
    BY <2>1 DEF Up
<1>4. Lane'
  BY LaneAside DEF Lifted
<1> QED
  BY <1>1, <1>2, <1>3, <1>4, LiftedAside

(* The other threads' steps leave the workers alone.                        *)
LEMMA WorkersAside ==
  ASSUME Threading, NEW t \in Threads, t \notin Workers, Works(t)
  PROVE  \A u \in Workers : todo'[u] = todo[u] /\ held'[u] = held[u]
<1> SUFFICES ASSUME NEW u \in Workers
             PROVE  todo'[u] = todo[u] /\ held'[u] = held[u]
  OBVIOUS
<1>1. /\ held \in [Threads -> SUBSET Groups] /\ todo \in [Threads -> Seq(Plans)] /\ u \in Threads
      /\ u # t
  BY DEF Threading, Threads
<1>2. ASSUME NEW steps, Continue(t, steps)
      PROVE  todo'[u] = todo[u] /\ held'[u] = held[u]
  BY <1>1, <1>2 DEF Continue
<1>3. ASSUME Raise(t)
      PROVE  todo'[u] = todo[u] /\ held'[u] = held[u]
  BY <1>1, <1>3 DEF Raise
<1>4. CASE Rebuilt(t) \/ Ends(t)
  BY <1>1, <1>4 DEF Rebuilt, Ends
<1>5. CASE Answered(t)
  BY <1>2, <1>5 DEF Answered
<1>6. CASE Refused(t) \/ TimesOut(t) \/ ReadFails(t)
  <2>1. Fail(t)
    BY <1>6 DEF Refused, TimesOut, ReadFails
  <2> QED
    BY <1>2, <1>3, <2>1 DEF Fail
<1>7. CASE ReadsRobot(t)
  BY <1>2, <1>7 DEF ReadsRobot
<1>8. CASE Checks(t)
  BY <1>2, <1>3, <1>8 DEF Checks
<1>9. CASE Transition(t)
  BY <1>2, <1>3, <1>9 DEF Transition
<1>10. CASE Assigns(t) \/ Bumps(t) \/ Closes(t) \/ Concludes(t)
  BY <1>2, <1>10 DEF Assigns, Bumps, Closes, Concludes
<1>11. CASE Halted(t) \/ Records(t)
  BY <1>2, <1>3, <1>11 DEF Halted, Records
<1> QED
  BY <1>4, <1>5, <1>6, <1>7, <1>8, <1>9, <1>10, <1>11 DEF Works

(* So do the steps of the monitor and of the takeover, ...                  *)
LEMMA LiftsOthersWork ==
  ASSUME Safety, Lifted, Unfaulted, NoConverge, NEW t \in Threads, t \notin Workers, Works(t)
  PROVE  Lifted'
<1> DEFINE s == todo[t]
           h == s[1].on
<1>1. Threading /\ RobotTypes /\ state \in [Groups -> States]
  BY DEF Safety, Typing, Threaded, OwnerTypes
<1>2. \A u \in Workers : todo'[u] = todo[u] /\ held'[u] = held[u]
  BY <1>1, WorkersAside
<1>3. CASE Ends(t)
  <2>1. component' = component /\ phase' = phase /\ pending' = pending /\ state' = state
    BY <1>3 DEF Ends, robotVars, rest, ownerVars
  <2> QED
    BY <1>2, <2>1, LiftsCalm
<1>4. CASE ~Ends(t)
  <2>1. s # << >> /\ Head(s) = s[1]
    <3>1. s # << >>
      BY <1>4 DEF Works, Answered, Refused, TimesOut, ReadFails, ReadsRobot, Checks, Transition, Rebuilt,
                  Assigns, Bumps, Halted, Records, Closes, Concludes, At
    <3> QED
      BY <1>1, <3>1, HeadFacts
  <2>2. s[1].do \in MonitorNames \cup OwnerNames /\ (t = "owner" => s[1].do \in OwnerNames)
    BY <1>1, <2>1, HeadFacts DEF Threads
  <2>3. s[1].do \notin Starters \cup Lifecycle \cup Critical
    BY <2>2 DEF MonitorNames, OwnerNames, StopNames, Starters, Lifecycle, Critical
  <2>4. ~Checks(t) /\ ~Transition(t) /\ ~Rebuilt(t) /\ ~Records(t) /\ ~Closes(t) /\ ~Concludes(t)
    BY <2>1, <2>2 DEF At, MonitorNames, OwnerNames, StopNames, Checks, Transition, Rebuilt, Records, Closes,
                      Concludes
  <2>5. CASE Answered(t)
    <3>1. Effect(s[1]) /\ Proper(s[1]) /\ pending' = pending /\ state' = state
      <4>1. At(t, Mutations)
        BY <2>5 DEF Answered
      <4> QED
        BY <1>1, <2>1, <2>5, <4>1, ProperHead DEF Answered, rest, ownerVars
    <3>2. component' = component
      BY <2>3, <3>1 DEF Effect
    <3>3. \A g \in Groups : phase'[g] = phase[g] \/ phase'[g] = "closed"
      BY <1>1, <2>3, <3>1, EffectLeaves
    <3> QED
      BY <1>2, <3>1, <3>2, <3>3, LiftsCalm
  <2>6. CASE TimesOut(t)
    <3>1. component' = component /\ phase' = phase /\ state' = state /\ pending' = pending \cup {Call(t, TRUE)}
      BY <2>6 DEF TimesOut, robotVars, ownerVars
    <3>2. Call(t, TRUE).do = s[1].do
      BY <2>1 DEF Call
    <3> QED
      BY <1>2, <2>3, <3>1, <3>2, LiftsCalm
  <2>7. CASE Refused(t) \/ ReadFails(t) \/ ReadsRobot(t) \/ Bumps(t)
    <3>1. component' = component /\ phase' = phase /\ pending' = pending /\ state' = state
      BY <2>7 DEF Refused, ReadFails, ReadsRobot, Bumps, robotVars, rest, ownerVars
    <3> QED
      BY <1>2, <3>1, LiftsCalm
  <2>8. CASE Assigns(t)
    <3>1. s[1].do \in {"initialized", "armed", "running", "stopped", "fault"}
      BY <2>1, <2>8 DEF Assigns, At
    <3>2. s[1].do = "fault" /\ t = "monitor"
      BY <2>2, <3>1 DEF MonitorNames, OwnerNames, StopNames, Threads
    <3>3. 1 \in 1..Len(s)
      BY <1>1, <2>1, HeadFacts
    <3> QED
      BY <3>2, <3>3 DEF Unfaulted, Lacks
  <2>9. CASE Halted(t)
    <3>1. s[1].do = "halted" /\ GroupOf(t) = h
      BY <2>1, <2>9 DEF Halted, At, GroupOf
    <3>2. h \in held[t] /\ h \in Groups
      BY <2>1, <3>1, StopHeld DEF Stopping, StopNames
    <3>3. \A u \in Workers : h \notin held[u]
      BY <1>1, <3>2 DEF Threading, Disjoint, Threads
    <3>4. /\ component' = component /\ phase' = phase /\ pending' = pending
          /\ state' = [state EXCEPT ![h] = StateAfterStop(errors[t])]
      BY <2>9, <3>1 DEF Halted, robotVars, rest
    <3>5. \A g \in Groups : g # h => state'[g] = state[g]
      BY <1>1, <3>4
    <3>6. state'[h] \notin Live
      BY <1>1, <3>2, <3>4 DEF StateAfterStop, Live
    <3> QED
      BY <1>2, <3>3, <3>4, <3>5, <3>6, LiftsCalm
  <2> QED
    BY <1>4, <2>4, <2>5, <2>6, <2>7, <2>8, <2>9 DEF Works
<1> QED
  BY <1>3, <1>4

(* ... a turn of the monitor, ...                                           *)
LEMMA LiftsMonitors ==
  ASSUME Safety, Lifted, Monitors
  PROVE  Lifted'
<1>1. /\ Threading /\ Threaded /\ state \in [Groups -> States] /\ "monitor" \in Threads
      /\ held \in [Threads -> SUBSET Groups] /\ todo \in [Threads -> Seq(Plans)]
      /\ \A u \in Workers : u \in Threads /\ u # "monitor"
  BY Apiece DEF Safety, Typing, Threaded, Threading, OwnerTypes, Threads
<1>2. \A u \in Workers : todo'[u] = todo[u] /\ held'[u] = held[u]
  BY <1>1 DEF Monitors, MonitorBegins, LocksDirty, ReadsStatus, ReadsResources, Suspects, Confirms,
              Condemns, Continue
<1>3. component' = component /\ phase' = phase /\ pending' = pending
  BY DEF Monitors, MonitorBegins, LocksDirty, ReadsStatus, ReadsResources, Suspects, Confirms,
         Condemns, robotVars, rest
<1>4. CASE Condemns
  <2> DEFINE g == todo["monitor"][1].on
  <2>1. At("monitor", {"condemned"}) /\ {"condemned"} \cap FaultNames = {} /\ "condemned" \notin RoundNames
    BY <1>4 DEF Condemns, FaultNames, StopNames, RoundNames
  <2>2. /\ todo["monitor"] # << >> /\ todo["monitor"][1].do = "condemned" /\ GroupOf("monitor") = g
        /\ Guarded(todo["monitor"], held["monitor"])
    BY <1>1, <2>1, AtLook
  <2>3. 1 \in 1..Len(todo["monitor"])
    BY <1>1, <2>2, HeadFacts
  <2>4. held["monitor"] = {g}
    BY <2>2, <2>3 DEF Guarded, Stopping
  <2>5. \A u \in Workers : g \notin held[u]
    BY <1>1, <2>4 DEF Threading, Disjoint
  <2>6. state' = [state EXCEPT ![g] = "Fault"]
    BY <1>4, <2>2 DEF Condemns
  <2>7. \A i \in Groups : state'[i] = state[i] \/ (i = g /\ state'[i] = "Fault")
    BY <1>1, <2>6
  <2>8. "Fault" \notin Live
    BY DEF Live
  <2> QED
    BY <1>2, <1>3, <2>5, <2>7, <2>8, LiftsCalm
<1>5. CASE ~Condemns
  <2>1. state' = state
    BY <1>5 DEF Monitors, MonitorBegins, LocksDirty, ReadsStatus, ReadsResources, Suspects, Confirms,
                ownerVars
  <2> QED
    BY <1>2, <1>3, <2>1, LiftsCalm
<1> QED
  BY <1>4, <1>5

(* ... and of the takeover, ...                                             *)
LEMMA LiftsOwns ==
  ASSUME Safety, Tended, Lifted, Owns
  PROVE  Lifted'
<1>1. /\ Threading /\ state \in [Groups -> States] /\ "owner" \in Threads
      /\ held \in [Threads -> SUBSET Groups] /\ todo \in [Threads -> Seq(Plans)]
      /\ \A u \in Workers : u \in Threads /\ u # "owner"
  BY Apiece DEF Safety, Typing, Threaded, Threading, OwnerTypes, Threads
<1>2. \A u \in Workers : todo'[u] = todo[u] /\ held'[u] = held[u]
  BY <1>1 DEF Owns, OwnerBegins, OwnerReads, TakesOver, Continue
<1>3. component' = component /\ phase' = phase /\ pending' = pending
  BY DEF Owns, OwnerBegins, OwnerReads, TakesOver, robotVars, rest
<1>4. CASE TakesOver
  <2>1. todo["owner"] # << >>
    BY <1>4 DEF TakesOver, At
  <2>2. \A u \in Workers : op[u] = ""
    BY <1>1, <2>1, OwnerHead
  <2>3. \A u \in Workers : held[u] = {}
    BY <1>1, <2>2 DEF Threading, Fits
  <2>4. \A g \in Groups : state'[g] = state[g] \/ state'[g] = "Fault"
    BY <1>4 DEF TakesOver
  <2>5. "Fault" \notin Live
    BY DEF Live
  <2> QED
    BY <1>2, <1>3, <2>3, <2>4, <2>5, LiftsCalm
<1>5. CASE ~TakesOver
  <2>1. state' = state
    BY <1>5 DEF Owns, OwnerBegins, OwnerReads, ownerVars
  <2> QED
    BY <1>2, <1>3, <2>1, LiftsCalm
<1> QED
  BY <1>4, <1>5

(* ... a session or a controller that ends, or nothing at all, ...          *)
LEMMA LiftsEnvironment ==
  ASSUME Safety, Lifted, (\E g \in Groups : SessionEnds(g) \/ ControllersStop(g)) \/ UNCHANGED vars
  PROVE  Lifted'
<1>1. component' = component /\ pending' = pending /\ state' = state /\ todo' = todo /\ held' = held
  BY DEF SessionEnds, ControllersStop, vars, robotVars, rest, ownerVars, threadVars
<1>2. phase \in [Groups -> {"closed", "armed", "open"}]
  BY DEF Safety, Typing, RobotTypes
<1>3. \A g \in Groups : phase'[g] = phase[g] \/ phase'[g] = "closed"
  BY <1>2 DEF SessionEnds, ControllersStop, vars, robotVars
<1> QED
  BY <1>1, <1>3, LiftsCalm

(* ... a late call, ...                                                     *)
LEMMA LiftsTakesEffect ==
  ASSUME Safety, Typing', Lifted, NEW c \in pending, TakesEffect(c)
  PROVE  Lifted'
<1>1. UNCHANGED <<ownerVars, threadVars>> /\ \A g \in Groups : Spares(g) /\ state'[g] = state[g]
  BY LateSpares
<1>2. todo' = todo /\ held' = held
  BY <1>1 DEF threadVars
<1>3. \A t \in Workers : held[t] \subseteq Groups /\ \A g \in held[t] : state'[g] = state[g]
  BY <1>1 DEF Safety, Typing, Threaded, Threading, Threads
<1>4. \A g \in Groups : Down(g) => Down(g)'
  BY <1>1 DEF Down, Spares
<1>5. pending' = pending \ {c} /\ (component' = component \/ (c.do \in Lifecycle /\ component' = c.do))
  <2>1. Effect(c) => component' = component \/ (c.do \in Lifecycle /\ component' = c.do)
    BY DEF Effect
  <2>2. ~Possible(c) => component' = component
    BY DEF TakesEffect, robotVars
  <2> QED
    BY <2>1, <2>2 DEF TakesEffect
<1>6. Up => Up'
  BY <1>5 DEF Up, Downs, Lifecycle
<1>7. Lane'
  BY <1>2, <1>5, LaneAside DEF Lifted
<1> QED
  BY <1>2, <1>3, <1>4, <1>6, <1>7, LiftedAside

(* ... and a crash.                                                         *)
LEMMA LiftsCrash ==
  ASSUME NoOrphans, Safety, Typing', Lifted, Crash
  PROVE  Lifted'
<1>1. crashes \in 0..MaxCrashes /\ MaxCrashes \in Nat
  BY CoordinatorAssumption DEF Safety, Typing, CoordinatorAssumption
<1>2. MaxOrphans = 0
  <2>1. crashes < MaxCrashes
    BY DEF Crash
  <2> QED
    BY <1>1, <2>1 DEF NoOrphans
<1>3. pending' = {}
  <2>1. Cardinality(pending') <= 0 /\ IsFiniteSet(pending')
    BY <1>2, SafeCrash DEF Crash, Safety, Calls
  <2> QED
    BY <2>1, FS_CardinalityType, FS_EmptySet
<1>4. /\ todo' = [t \in Threads |-> << >>] /\ held' = [t \in Threads |-> {}]
      /\ state' = [g \in Groups |-> "Stopped"] /\ component' = component /\ phase' = phase
  BY DEF Crash, robotVars
<1>5. \A t \in Workers : todo'[t] = << >> /\ held'[t] = {}
  BY <1>4 DEF Threads
<1>6. \A t \in Workers : Careful(t)'
  BY <1>5, NothingLifts DEF Careful, Whole
<1>7. Lane'
  BY <1>5 DEF Lane, At
<1>8. ~Up' => \A g \in Groups : Down(g)'
  <2>1. SUFFICES ASSUME ~Up', NEW g \in Groups
                 PROVE  Down(g)'
    OBVIOUS
  <2>2. ~Up
    BY <1>3, <1>4, <2>1 DEF Up
  <2>3. Still(g)
    BY <2>2 DEF Lifted, Down
  <2>4. Still(g)'
    BY <1>3, <1>4, <2>3 DEF Still, NoRise
  <2>5. state'[g] \notin Live
    BY <1>4 DEF Live
  <2> QED
    BY <2>4, <2>5 DEF Down
<1> QED
  BY <1>6, <1>7, <1>8 DEF Lifted

(* The rules hold at first, with nothing up and nothing moving, ...         *)
LEMMA LiftedStarts ==
  ASSUME Init
  PROVE  Lifted
<1>1. /\ todo = [t \in Threads |-> << >>] /\ held = [t \in Threads |-> {}]
      /\ \A g \in Groups : state[g] = "Stopped" /\ phase[g] = "closed"
  BY DEF Init
<1>2. \A t \in Workers : todo[t] = << >> /\ held[t] = {}
  BY <1>1 DEF Threads
<1>3. \A t \in Workers : Careful(t)
  BY <1>2, NothingLifts DEF Careful, Whole
<1>4. Lane
  BY <1>2 DEF Lane, At
<1>5. \A g \in Groups : Down(g)
  BY <1>1 DEF Down, Still, Live
<1> QED
  BY <1>3, <1>4, <1>5 DEF Lifted

(* ... and go on to hold; ...                                               *)
LEMMA LiftsStep ==
  ASSUME NoOrphans, Safety, Tended, Unfaulted, Lifted, NoConverge, [Next]_vars
  PROVE  Lifted'
<1>1. Typing'
  BY SafetyStep DEF Safety
<1>2. CASE UNCHANGED vars
  BY <1>2, LiftsEnvironment
<1>3. ASSUME NEW t \in Workers, NEW action \in asked, NEW gs \in Scopes(action), Begin(t, action, gs)
      PROVE  Lifted'
  BY <1>3, LiftsBegin
<1>4. ASSUME NEW t \in Threads, Works(t)
      PROVE  Lifted'
  BY <1>4, LiftsWorks, LiftsOthersWork
<1>5. CASE Monitors
  BY <1>5, LiftsMonitors
<1>6. CASE Owns
  BY <1>6, LiftsOwns
<1>7. CASE Crash
  BY <1>1, <1>7, LiftsCrash
<1>8. ASSUME NEW c \in pending, TakesEffect(c)
      PROVE  Lifted'
  BY <1>1, <1>8, LiftsTakesEffect
<1>9. ASSUME NEW g \in Groups, SessionEnds(g) \/ ControllersStop(g)
      PROVE  Lifted'
  BY <1>9, LiftsEnvironment
<1> QED
  BY <1>2, <1>3, <1>4, <1>5, <1>6, <1>7, <1>8, <1>9 DEF Next

(* ... only an answer or a late call changes the component, ...             *)
LEMMA Transitions ==
  ASSUME [Next]_vars, component' # component
  PROVE  \/ \E t \in Threads : Answered(t) /\ At(t, {component'}) /\ component' \in Lifecycle
         \/ \E c \in pending : c.do = component' /\ component' \in Lifecycle
<1>1. ASSUME NEW t \in Threads, Works(t)
      PROVE  Answered(t) /\ At(t, {component'}) /\ component' \in Lifecycle
  <2>1. Answered(t)
    BY <1>1 DEF Works, Refused, TimesOut, ReadFails, ReadsRobot, Checks, Transition, Rebuilt, Assigns,
                Bumps, Halted, Records, Closes, Concludes, Ends, robotVars
  <2>2. Effect(Head(todo[t])) /\ todo[t] # << >>
    BY <2>1 DEF Answered, At
  <2>3. component' = Head(todo[t]).do /\ component' \in Lifecycle
    BY <2>2 DEF Effect
  <2> QED
    BY <2>1, <2>2, <2>3 DEF At
<1>2. ASSUME NEW c \in pending, TakesEffect(c)
      PROVE  c.do = component' /\ component' \in Lifecycle
  BY <1>2 DEF TakesEffect, Effect, robotVars
<1>3. /\ ~Monitors /\ ~Owns /\ ~Crash /\ ~UNCHANGED vars
      /\ ~\E g \in Groups : SessionEnds(g) \/ ControllersStop(g)
  BY DEF Monitors, MonitorBegins, LocksDirty, ReadsStatus, ReadsResources, Suspects, Confirms, Condemns,
         Owns, OwnerBegins, OwnerReads, TakesOver, Crash, SessionEnds, ControllersStop, vars, robotVars
<1>4. ~\E t \in Workers, action \in asked : \E gs \in Scopes(action) : Begin(t, action, gs)
  BY DEF Begin, robotVars
<1> QED
  BY <1>1, <1>2, <1>3, <1>4 DEF Next

(* ... and by neither it leaves its active state while a group may move.    *)
LEMMA LiftedShows ==
  ASSUME Safety, Lifted, [Next]_vars, component = "active", component' # "active"
  PROVE  \A g \in Groups : phase[g] # "open"
<1>1. Threading
  BY DEF Safety, Typing, Threaded
<1>2. ASSUME NEW t \in Threads, At(t, {component'}), component' \in Lifecycle
      PROVE  \A g \in Groups : phase[g] # "open"
  <2>1. todo[t] # << >> /\ Head(todo[t]) = todo[t][1] /\ todo[t][1].do = component'
    BY <1>1, <1>2, AtHead
  <2>2. component' \in {"inactive", "unconfigured"}
    BY <1>2 DEF Lifecycle
  <2>3. t \in Workers
    <3>1. t # "monitor" /\ t # "owner"
      BY <1>1, <2>1, <2>2, HeadFacts DEF MonitorNames, OwnerNames, StopNames
    <3> QED
      BY <3>1, Apiece
  <2>4. component' # "inactive"
    <3>1. At(t, Lifecycle)
      BY <1>2, <2>1 DEF At
    <3>2. At(t, {"inactive"}) => component # "active"
      BY <2>3, <3>1 DEF Lifted, Lane
    <3> QED
      BY <1>2, <3>2
  <2>5. todo[t][1].do \in Tearing /\ Careful(t)
    BY <2>1, <2>2, <2>3, <2>4 DEF Tearing, Lifted
  <2> QED
    BY <1>1, <2>1, <2>3, <2>5, LiftedDown DEF Down, Still
<1>3. ASSUME NEW c \in pending, c.do = component', component' \in Lifecycle
      PROVE  \A g \in Groups : phase[g] # "open"
  <2>1. ~Up
    BY <1>3 DEF Up, Downs, Lifecycle
  <2> QED
    BY <2>1 DEF Lifted, Down, Still
<1> QED
  BY <1>2, <1>3, Transitions

(* While no call of a process outlives it, no halt fails and there is no    *)
(* converge(): a component is never taken from its active state while a      *)
(* group may move.  Whoever takes it down has the locks of all groups and    *)
(* has stopped them before, and a late call that would take it down is       *)
(* outstanding only while none is armed (groups.py, transition() and         *)
(* ensure_settled).                                                          *)
THEOREM TeardownSpares ==
  ASSUME NoOrphans, "halt" \notin Unreliable
  PROVE  Spec /\ []NoConverge => TeardownSparesSessions
<1>1. Init => Safety /\ Tended /\ Unfaulted /\ Lifted
  BY SafetyStarts, TendedStarts, LiftedStarts
<1>2. Safety /\ Tended /\ Unfaulted /\ Lifted /\ NoConverge /\ NoConverge' /\ [Next]_vars =>
        (Safety /\ Tended /\ Unfaulted /\ Lifted)'
  BY SafetyStep, TendedStep, UnfaultedStep, LiftsStep
<1>3. Safety /\ Lifted /\ [Next]_vars =>
        [component = "active" /\ component' # "active" => \A g \in Groups : phase[g] # "open"]_vars
  BY LiftedShows
<1> QED
  BY <1>1, <1>2, <1>3, PTL DEF Spec, TeardownSparesSessions

(* Where the monitor's timer does not run this holds of all behaviours.     *)
THEOREM TeardownAlone ==
  ASSUME NoOrphans, "halt" \notin Unreliable, ~Monitored
  PROVE  Spec => TeardownSparesSessions
<1>1. Init => op["monitor"] = ""
  BY DEF Init, Threads
<1>2. Safety /\ op["monitor"] = "" /\ [Next]_vars => (op["monitor"] = "")'
  BY NoMonitor
<1>3. op["monitor"] = "" => NoConverge
  BY DEF NoConverge
<1>4. Spec => []Safety
  BY SafetyHolds
<1>5. Spec /\ []NoConverge => TeardownSparesSessions
  BY TeardownSpares
<1> QED
  BY <1>1, <1>2, <1>3, <1>4, <1>5, PTL DEF Spec
=============================================================================
