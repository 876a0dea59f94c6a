----------------------------- MODULE JournalProofs -----------------------------
(***************************************************************************)
(* Proofs about MaintenanceJournal as long as no two groups are maintained   *)
(* at once (OneAtATime): what the journal promises then, for all joints,     *)
(* groups, objects, values and requests.  The code lets two groups be        *)
(* maintained at once, and what is proved here is then refuted by a run.     *)
(***************************************************************************)
EXTENDS MaintenanceJournal, SequenceTheorems, TLAPS

(* At most one group is being maintained. *)
OneAtATime == \A g, h \in Groups : job[g] # NoJob /\ job[h] # NoJob => g = h

Open == {"update", "save", "commit", "undo", "verdict", "put", "resave", "close", "fail"}

(* The flag in memory is the one on disk. *)
FlagAgrees == dirty = file.dirty

(* From the first write to the last record the journal is dirty and about the    *)
(* joint at work.                                                           *)
OpenIsJournalled == \A g \in Groups : job[g].at \in Open =>
  dirty /\ Journalled(job[g].joint) /\ file.before = job[g].before

UnsureInDoubt == \A j \in unsure : dirty /\ Journalled(j)

CleanIsWhole == \A j \in Joints : j \notin DirtyAxes =>
  ram[j] \in whole[j] /\ stored[j] \in whole[j]

(* What a drive holds at each stage of a job. *)
Progress(b, j) ==
  /\ b.at \in {"read", "record"} => ~dirty
  /\ b.at = "record" => b.before = ram[j]
  /\ b.at = "update" => Leads(ram[j], b.left, b.goal)
  /\ b.at \in {"save", "commit"} => ram[j] = b.goal
  /\ b.at = "save" => b.save
  /\ b.at \in {"update", "save", "commit"} => j \notin unsure
  /\ b.at \in {"update", "save"} => stored[j] \in whole[j]
  /\ b.at = "commit" => stored[j] \in whole[j] \/ (b.save /\ stored[j] = b.goal)
  /\ b.at \in {"undo", "verdict"} /\ ~b.save => stored[j] \in whole[j] /\ j \notin unsure
  /\ b.at = "undo" /\ b.restored => Leads(ram[j], b.left, b.before)
  /\ b.at = "verdict" /\ b.restored => ram[j] = b.before
  /\ b.at = "put" => Leads(ram[j], b.left, b.before)
  /\ b.at \in {"resave", "close"} => ram[j] = b.before
  /\ b.at = "close" => stored[j] = b.before

Progresses == \A g \in Groups : job[g].at # "idle" => Progress(job[g], job[g].joint)

JournalInv ==
  /\ JournalTypeOK /\ FlagAgrees /\ BeforeIsWhole /\ OpenIsJournalled
  /\ UnsureInDoubt /\ CleanIsWhole /\ Progresses

-----------------------------------------------------------------------------
(* Writing a sequence to a drive.                                           *)

(* With nothing left to write a drive holds its goal. *)
LEMMA LeadsDone ==
  ASSUME NEW c \in Configs, NEW goal \in Configs, Leads(c, <<>>, goal)
  PROVE  c = goal
BY DEF Leads, Configs

(* Writing the next object leads to the same goal. *)
LEMMA LeadsOn ==
  ASSUME NEW c \in Configs, NEW goal \in Configs, NEW seq \in Edits, seq # <<>>,
         Leads(c, seq, goal)
  PROVE  /\ Tail(seq) \in Edits
         /\ [c EXCEPT ![Head(seq).on] = Head(seq).to] \in Configs
         /\ Leads([c EXCEPT ![Head(seq).on] = Head(seq).to], Tail(seq), goal)
<1> DEFINE w == Head(seq)
           d == [c EXCEPT ![w.on] = w.to]
           writes(s, o) == {i \in DOMAIN s : s[i].on = o}
           after(s, i) == {k \in DOMAIN s : k > i}
<1>0. seq \in Seq([on : Objects, to : Values])
  BY DEF Edits
<1>1. /\ w = seq[1] /\ w \in [on : Objects, to : Values] /\ Tail(seq) \in Edits
      /\ Len(seq) \in Nat \ {0} /\ DOMAIN seq = 1..Len(seq)
      /\ DOMAIN Tail(seq) = 1..(Len(seq) - 1)
      /\ \A i \in 1..(Len(seq) - 1) : Tail(seq)[i] = seq[i + 1]
  <2>1. /\ w \in [on : Objects, to : Values]
        /\ Tail(seq) \in Seq([on : Objects, to : Values])
        /\ Len(Tail(seq)) = Len(seq) - 1
        /\ \A i \in 1..Len(Tail(seq)) : Tail(seq)[i] = seq[i + 1]
    BY <1>0, HeadTailProperties
  <2>2. w = seq[1] /\ Len(seq) \in Nat \ {0} /\ DOMAIN seq = 1..Len(seq)
    BY <1>0, EmptySeq
  <2>3. DOMAIN Tail(seq) = 1..Len(Tail(seq))
    BY <2>1
  <2> QED
    BY <2>1, <2>2, <2>3 DEF Edits
<1>2. d \in Configs
  BY <1>1 DEF Configs
<1>3. ASSUME NEW o \in Objects
      PROVE  \/ writes(Tail(seq), o) = {} /\ goal[o] = d[o]
             \/ \E i \in writes(Tail(seq), o) :
                  goal[o] = Tail(seq)[i].to /\ after(Tail(seq), i) \cap writes(Tail(seq), o) = {}
  <2>1. CASE writes(seq, o) = {} /\ goal[o] = c[o]
    <3>1. w.on # o
      BY <1>1, <2>1
    <3>2. d[o] = c[o]
      BY <3>1 DEF Configs
    <3>3. writes(Tail(seq), o) = {}
      <4>1. ASSUME NEW i \in writes(Tail(seq), o)  PROVE FALSE
        <5>1. i + 1 \in writes(seq, o)
          BY <1>1, <4>1
        <5> QED  BY <5>1, <2>1
      <4> QED  BY <4>1
    <3> QED  BY <2>1, <3>2, <3>3
  <2>2. CASE \E i \in writes(seq, o) :
               goal[o] = seq[i].to /\ after(seq, i) \cap writes(seq, o) = {}
    <3>1. PICK i \in writes(seq, o) :
                 goal[o] = seq[i].to /\ after(seq, i) \cap writes(seq, o) = {}
      BY <2>2
    <3>2. \A k \in writes(Tail(seq), o) : k + 1 \in writes(seq, o)
      BY <1>1
    <3>3. CASE i = 1
      <4>1. writes(Tail(seq), o) = {}
        <5>1. ASSUME NEW k \in writes(Tail(seq), o)  PROVE FALSE
          BY <1>1, <3>1, <3>2, <3>3
        <5> QED  BY <5>1
      <4>2. w.on = o /\ goal[o] = w.to
        BY <1>1, <3>1, <3>3
      <4>3. d[o] = w.to
        BY <1>1, <4>2 DEF Configs
      <4> QED  BY <4>1, <4>2, <4>3
    <3>4. CASE i # 1
      <4>1. i - 1 \in writes(Tail(seq), o) /\ Tail(seq)[i - 1] = seq[i]
        BY <1>1, <3>1, <3>4
      <4>2. after(Tail(seq), i - 1) \cap writes(Tail(seq), o) = {}
        <5>1. ASSUME NEW k \in writes(Tail(seq), o), k > i - 1  PROVE FALSE
          BY <1>1, <3>1, <3>2, <5>1
        <5> QED  BY <5>1
      <4> QED  BY <3>1, <4>1, <4>2
    <3> QED  BY <3>3, <3>4
  <2> QED
    BY <2>1, <2>2 DEF Leads
<1> QED
  BY <1>1, <1>2, <1>3 DEF Leads

(* Undoing leads to what was there before, whatever the drive holds now. *)
LEMMA UndoLeads ==
  ASSUME NEW c \in Configs, NEW before \in Configs
  PROVE  Undo(before) \in Edits \ {<<>>} /\ Leads(c, Undo(before), before)
<1>1. /\ Len(RestoreOrder) \in Nat /\ DOMAIN RestoreOrder = 1..Len(RestoreOrder)
      /\ \A i \in DOMAIN RestoreOrder : RestoreOrder[i] \in Objects
  BY JournalAssumption
<1>2. /\ DOMAIN Undo(before) = DOMAIN RestoreOrder
      /\ \A i \in DOMAIN RestoreOrder : Undo(before)[i] =
           [on |-> RestoreOrder[i], to |-> before[RestoreOrder[i]]]
  BY DEF Undo
<1>3. Undo(before) \in Edits
  BY <1>1 DEF Undo, Edits, Configs
<1>4. ASSUME NEW o \in Objects
      PROVE  \E i \in DOMAIN Undo(before) :
               /\ Undo(before)[i].on = o /\ Undo(before)[i].to = before[o]
               /\ \A k \in DOMAIN Undo(before) : Undo(before)[k].on = o => k = i
  BY <1>2, JournalAssumption
<1>5. Undo(before) # <<>>
  BY <1>4, JournalAssumption
<1>6. Leads(c, Undo(before), before)
  BY <1>1, <1>2, <1>4 DEF Leads
<1> QED
  BY <1>3, <1>5, <1>6

(* So does switching the limits off first. *)
LEMMA RestoreLeads ==
  ASSUME NEW c \in Configs, NEW before \in Configs
  PROVE  LET seq == <<[on |-> Switch, to |-> Off]>> \o Undo(before)
         IN  seq \in Edits \ {<<>>} /\ Leads(c, seq, before)
<1> DEFINE first == <<[on |-> Switch, to |-> Off]>>
           seq == first \o Undo(before)
<1>1. first \in Edits /\ Len(first) = 1
  BY JournalAssumption DEF Edits
<1>2. Undo(before) \in Edits
  BY UndoLeads
<1>3. /\ seq \in Edits /\ Len(seq) = 1 + Len(Undo(before))
      /\ \A i \in 1..(1 + Len(Undo(before))) :
           seq[i] = IF i <= 1 THEN first[i] ELSE Undo(before)[i - 1]
  BY <1>1, <1>2, ConcatProperties DEF Edits
<1>4. Len(Undo(before)) \in Nat /\ DOMAIN Undo(before) = 1..Len(Undo(before))
  BY <1>2 DEF Edits
<1>5. DOMAIN seq = 1..(1 + Len(Undo(before))) /\ seq # <<>>
  BY <1>3, <1>4 DEF Edits
<1>6. ASSUME NEW o \in Objects
      PROVE  \E i \in DOMAIN Undo(before) :
               /\ Undo(before)[i].on = o /\ Undo(before)[i].to = before[o]
               /\ \A k \in DOMAIN Undo(before) : Undo(before)[k].on = o => k = i
  BY JournalAssumption DEF Undo
<1>7. ASSUME NEW o \in Objects
      PROVE  \E i \in {i \in DOMAIN seq : seq[i].on = o} :
               /\ before[o] = seq[i].to
               /\ {k \in DOMAIN seq : k > i} \cap {k \in DOMAIN seq : seq[k].on = o} = {}
  <2>1. PICK i \in DOMAIN Undo(before) :
          /\ Undo(before)[i].on = o /\ Undo(before)[i].to = before[o]
          /\ \A k \in DOMAIN Undo(before) : Undo(before)[k].on = o => k = i
    BY <1>6
  <2>2. i + 1 \in DOMAIN seq /\ seq[i + 1] = Undo(before)[i]
    BY <1>3, <1>4, <1>5
  <2>3. ASSUME NEW k \in DOMAIN seq, k > i + 1, seq[k].on = o  PROVE FALSE
    <3>1. k - 1 \in DOMAIN Undo(before) /\ seq[k] = Undo(before)[k - 1]
      BY <1>3, <1>4, <1>5, <2>3
    <3> QED  BY <2>1, <2>3, <3>1, <1>4
  <2> QED
    BY <2>1, <2>2, <2>3
<1>8. Leads(c, seq, before)
  BY <1>7 DEF Leads
<1> QED
  BY <1>3, <1>5, <1>8

-----------------------------------------------------------------------------
(* The thread at work.                                                      *)

(* It is the only one, and its locals are typed. *)
LEMMA Alone ==
  ASSUME OneAtATime, JournalTypeOK, NEW g \in Groups, job[g].at # "idle"
  PROVE  /\ job[g] \in Jobs /\ job[g] # NoJob
         /\ job[g].joint \in Joints /\ GroupOf[job[g].joint] = g
         /\ \A h \in Groups : h # g => job[h] = NoJob
<1>1. \A h \in Groups : job[h] # NoJob =>
        job[h] \in Jobs /\ job[h].joint \in Joints /\ GroupOf[job[h].joint] = h
  BY DEF JournalTypeOK, Jobs
<1>2. job[g] # NoJob
  BY DEF NoJob
<1> QED
  BY <1>1, <1>2 DEF OneAtATime

(* What a write does to the drives. *)
LEMMA WriteStep ==
  ASSUME JournalTypeOK, NEW g \in Groups, job[g] \in Jobs, job[g].left # <<>>, Write(g)
  PROVE  /\ ram' \in [Joints -> Configs]
         /\ \A k \in Joints : k # job[g].joint => ram'[k] = ram[k]
         /\ Tail(job[g].left) \in Edits
         /\ \A goal \in Configs : Leads(ram[job[g].joint], job[g].left, goal) =>
              Leads(ram'[job[g].joint], Tail(job[g].left), goal)
<1> DEFINE j == job[g].joint
           w == Head(job[g].left)
<1>1. j \in Joints /\ job[g].left \in Edits /\ ram \in [Joints -> Configs] /\ ram[j] \in Configs
  BY DEF Jobs, JournalTypeOK
<1>2. ram' = [ram EXCEPT ![j] = [ram[j] EXCEPT ![w.on] = w.to]]
  BY DEF Write
<1>3. ram'[j] = [ram[j] EXCEPT ![w.on] = w.to] /\ \A k \in Joints : k # j => ram'[k] = ram[k]
  BY <1>1, <1>2
<1>4. w \in [on : Objects, to : Values] /\ Tail(job[g].left) \in Edits
  BY <1>1, HeadTailProperties DEF Edits
<1>5. [ram[j] EXCEPT ![w.on] = w.to] \in Configs
  BY <1>1, <1>4 DEF Configs
<1>6. ram' \in [Joints -> Configs]
  BY <1>1, <1>2, <1>5
<1>7. ASSUME NEW goal \in Configs, Leads(ram[j], job[g].left, goal)
      PROVE  Leads(ram'[j], Tail(job[g].left), goal)
  BY <1>1, <1>3, <1>7, LeadsOn
<1> QED
  BY <1>3, <1>4, <1>6, <1>7

(* A sequence of one element has an empty tail, a longer one has not. *)
LEMMA LastElement ==
  ASSUME NEW S, NEW s \in Seq(S), s # <<>>
  PROVE  Tail(s) = <<>> <=> ~(Len(s) > 1)
<1>1. Len(s) \in Nat /\ Len(s) # 0
  BY EmptySeq
<1>2. Tail(s) \in Seq(S) /\ Len(Tail(s)) = Len(s) - 1
  BY HeadTailProperties
<1>3. Tail(s) = <<>> <=> Len(Tail(s)) = 0
  BY <1>2, EmptySeq
<1> QED
  BY <1>1, <1>2, <1>3

(* How a thread gets on with its writes. *)
LEMMA ProceedStep ==
  ASSUME JournalTypeOK, NEW g \in Groups, job[g] \in Jobs, job[g].left # <<>>,
         NEW next \in Stages \ Writing, Proceed(g, next)
  PROVE  \/ /\ Tail(job[g].left) # <<>>
            /\ job' = [job EXCEPT ![g] = [job[g] EXCEPT !.left = Tail(job[g].left)]]
         \/ /\ Tail(job[g].left) = <<>>
            /\ job' = [job EXCEPT ![g] = [job[g] EXCEPT !.at = next, !.left = <<>>]]
<1>1. job[g].left \in Seq([on : Objects, to : Values])
  BY DEF Jobs, Edits
<1>2. Tail(job[g].left) = <<>> <=> ~(Len(job[g].left) > 1)
  BY <1>1, LastElement
<1>3. CASE Len(job[g].left) > 1
  BY <1>2, <1>3 DEF Proceed, Goes
<1>4. CASE ~(Len(job[g].left) > 1)
  BY <1>2, <1>4 DEF Proceed, Goes, To
<1> QED
  BY <1>3, <1>4

(* If only one thread changes, its locals and the stage it reaches are all that  *)
(* has to be looked at.                                                     *)
LEMMA JobStep ==
  ASSUME OneAtATime, JournalTypeOK, NEW g \in Groups,
         \A h \in Groups : h # g => job[h] = NoJob,
         NEW b \in Jobs, GroupOf[b.joint] = g, b.left # <<>> <=> b.at \in Writing,
         job' = [job EXCEPT ![g] = b]
  PROVE  /\ job' \in [Groups -> {NoJob} \cup Jobs]
         /\ \A h \in Groups : job'[h] # NoJob =>
              GroupOf[job'[h].joint] = h /\ (job'[h].left # <<>> <=> job'[h].at \in Writing)
         /\ Progress(b, b.joint)' => Progresses'
         /\ (b.at \in Open => dirty' /\ Journalled(b.joint)' /\ file'.before = b.before)
              => OpenIsJournalled'
<1>1. job \in [Groups -> {NoJob} \cup Jobs]
  BY DEF JournalTypeOK
<1>2. job'[g] = b /\ \A h \in Groups : h # g => job'[h] = NoJob
  BY <1>1
<1>3. job' \in [Groups -> {NoJob} \cup Jobs]
  BY <1>1
<1>4. \A h \in Groups : h # g => job'[h].at = "idle"
  BY <1>2 DEF NoJob
<1>5. ASSUME Progress(b, b.joint)'  PROVE Progresses'
  BY <1>2, <1>4, <1>5 DEF Progresses, Progress
<1>6. ASSUME b.at \in Open => dirty' /\ Journalled(b.joint)' /\ file'.before = b.before
      PROVE  OpenIsJournalled'
  BY <1>2, <1>4, <1>6 DEF OpenIsJournalled, Open, Journalled
<1> QED
  BY <1>2, <1>3, <1>5, <1>6

(* The same of a thread that ends. *)
LEMMA EndStep ==
  ASSUME JournalTypeOK, NEW g \in Groups,
         \A h \in Groups : h # g => job[h] = NoJob, Ends(g)
  PROVE  /\ job' \in [Groups -> {NoJob} \cup Jobs]
         /\ \A h \in Groups : job'[h] = NoJob
         /\ Progresses' /\ OpenIsJournalled'
<1>1. job \in [Groups -> {NoJob} \cup Jobs] /\ job' = [job EXCEPT ![g] = NoJob]
  BY DEF JournalTypeOK, Ends, Goes
<1>2. job' \in [Groups -> {NoJob} \cup Jobs] /\ \A h \in Groups : job'[h] = NoJob
  BY <1>1
<1> QED
  BY <1>2 DEF Progresses, OpenIsJournalled, Open, NoJob

-----------------------------------------------------------------------------
(* The steps of a thread, by what they leave of the journal.                *)

(* While the journal is open for a joint, only that joint is locked. *)
LEMMA OpenLocks ==
  ASSUME JournalInv, NEW g \in Groups, job[g].at \in Open
  PROVE  DirtyAxes = {job[g].joint}
BY DEF JournalInv, OpenIsJournalled, Journalled, DirtyAxes

(* Steps between the first record and the last, about the joint at work.     *)
LEMMA OpenStep ==
  ASSUME OneAtATime, JournalInv, NEW g \in Groups, job[g].at \in Open,
         NEW b \in Jobs, b.joint = job[g].joint, b.before = job[g].before,
         b.at \in Open, b.left # <<>> <=> b.at \in Writing,
         job' = [job EXCEPT ![g] = b],
         ram' \in [Joints -> Configs], stored' \in [Joints -> Configs],
         \A k \in Joints : k # job[g].joint => ram'[k] = ram[k] /\ stored'[k] = stored[k],
         UNCHANGED <<file, dirty, whole>>,
         unsure' \in {unsure, unsure \cup {job[g].joint}},
         Progress(b, b.joint)'
  PROVE  JournalInv'
<1>1. JournalTypeOK /\ job[g].at # "idle"
  BY DEF JournalInv, Open
<1>2. /\ job[g].joint \in Joints /\ GroupOf[job[g].joint] = g
      /\ \A h \in Groups : h # g => job[h] = NoJob
  BY <1>1, Alone
<1>3. dirty /\ Journalled(job[g].joint) /\ file.before = job[g].before
  BY DEF JournalInv, OpenIsJournalled
<1>4. dirty' /\ Journalled(b.joint)' /\ file'.before = b.before
  BY <1>3 DEF Journalled
<1>5. /\ job' \in [Groups -> {NoJob} \cup Jobs]
      /\ \A h \in Groups : job'[h] # NoJob =>
           GroupOf[job'[h].joint] = h /\ (job'[h].left # <<>> <=> job'[h].at \in Writing)
      /\ Progress(b, b.joint)' => Progresses'
      /\ (b.at \in Open => dirty' /\ Journalled(b.joint)' /\ file'.before = b.before)
           => OpenIsJournalled'
  <2>1. GroupOf[b.joint] = g
    BY <1>2
  <2> QED
    BY <1>1, <1>2, <2>1, JobStep
<1>6. JournalTypeOK'
  BY <1>1, <1>2, <1>5 DEF JournalTypeOK
<1>7. Progresses' /\ OpenIsJournalled'
  BY <1>4, <1>5
<1>8. FlagAgrees' /\ BeforeIsWhole'
  BY DEF JournalInv, FlagAgrees, BeforeIsWhole
<1>9. UnsureInDoubt'
  BY <1>3 DEF JournalInv, UnsureInDoubt, Journalled
<1>10. CleanIsWhole'
  <2>1. DirtyAxes = {job[g].joint} /\ DirtyAxes' = DirtyAxes
    BY OpenLocks DEF DirtyAxes
  <2> QED
    BY <2>1 DEF JournalInv, CleanIsWhole
<1> QED
  BY <1>6, <1>7, <1>8, <1>9, <1>10 DEF JournalInv

(* A thread that gives up before it has touched anything. *)
LEMMA GivesUp ==
  ASSUME OneAtATime, JournalInv, NEW g \in Groups, job[g].at # "idle", Ends(g),
         UNCHANGED <<ram, stored, file, dirty, whole, unsure>>
  PROVE  JournalInv'
<1>1. JournalTypeOK /\ \A h \in Groups : h # g => job[h] = NoJob
  BY Alone DEF JournalInv
<1>2. /\ job' \in [Groups -> {NoJob} \cup Jobs]
      /\ \A h \in Groups : job'[h] = NoJob
      /\ Progresses' /\ OpenIsJournalled'
  BY <1>1, EndStep
<1>3. JournalTypeOK'
  BY <1>1, <1>2 DEF JournalTypeOK
<1>4. FlagAgrees' /\ BeforeIsWhole' /\ UnsureInDoubt' /\ CleanIsWhole'
  BY DEF JournalInv, FlagAgrees, BeforeIsWhole, UnsureInDoubt, Journalled, CleanIsWhole, DirtyAxes
<1> QED
  BY <1>2, <1>3, <1>4 DEF JournalInv

(* What is known of the thread at work. *)
LEMMA AtWork ==
  ASSUME OneAtATime, JournalInv, NEW g \in Groups, job[g].at # "idle"
  PROVE  /\ job[g] \in Jobs /\ job[g].joint \in Joints /\ job[g].left \in Edits
         /\ job[g].before \in Configs /\ job[g].goal \in Configs
         /\ job[g].left # <<>> <=> job[g].at \in Writing
         /\ ram \in [Joints -> Configs] /\ stored \in [Joints -> Configs]
         /\ ram[job[g].joint] \in Configs
         /\ Progress(job[g], job[g].joint)
<1>1. JournalTypeOK /\ Progresses
  BY DEF JournalInv
<1>2. job[g] \in Jobs /\ job[g] # NoJob
  BY <1>1, Alone
<1> QED
  BY <1>1, <1>2 DEF JournalTypeOK, Jobs, Progresses

(* A write of `transaction` or `restore` succeeds, and another one or the next    *)
(* stage follows.                                                          *)
LEMMA WritesOn ==
  ASSUME OneAtATime, JournalInv, NEW g \in Groups, NEW next \in Stages \ Writing,
         \/ job[g].at = "update" /\ next = IF job[g].save THEN "save" ELSE "commit"
         \/ job[g].at = "undo" /\ next = "verdict"
         \/ job[g].at = "put" /\ next = "resave",
         Write(g), Proceed(g, next), UNCHANGED <<stored, file, dirty, whole, unsure>>
  PROVE  JournalInv'
<1> DEFINE j == job[g].joint
<1>1. job[g].at \in Open /\ job[g].at # "idle" /\ job[g].at \in Writing
  BY DEF Open, Writing
<1>2. /\ job[g] \in Jobs /\ j \in Joints /\ job[g].left \in Edits /\ job[g].left # <<>>
      /\ job[g].before \in Configs /\ job[g].goal \in Configs
      /\ stored \in [Joints -> Configs] /\ ram[j] \in Configs
      /\ Progress(job[g], j) /\ JournalTypeOK
  BY <1>1, AtWork DEF JournalInv
<1>3. /\ ram' \in [Joints -> Configs]
      /\ \A k \in Joints : k # j => ram'[k] = ram[k]
      /\ Tail(job[g].left) \in Edits
      /\ \A goal \in Configs : Leads(ram[j], job[g].left, goal) =>
           Leads(ram'[j], Tail(job[g].left), goal)
  BY <1>2, WriteStep
<1>4. \/ /\ Tail(job[g].left) # <<>>
         /\ job' = [job EXCEPT ![g] = [job[g] EXCEPT !.left = Tail(job[g].left)]]
      \/ /\ Tail(job[g].left) = <<>>
         /\ job' = [job EXCEPT ![g] = [job[g] EXCEPT !.at = next, !.left = <<>>]]
  BY <1>2, ProceedStep
<1>5. CASE /\ Tail(job[g].left) # <<>>
           /\ job' = [job EXCEPT ![g] = [job[g] EXCEPT !.left = Tail(job[g].left)]]
  <2>1. PICK b \in Jobs : b = [job[g] EXCEPT !.left = Tail(job[g].left)]
    BY <1>2, <1>3 DEF Jobs
  <2>2. /\ b.at = job[g].at /\ b.joint = j /\ b.before = job[g].before /\ b.goal = job[g].goal
        /\ b.left = Tail(job[g].left) /\ b.save = job[g].save /\ b.restored = job[g].restored
    BY <1>2, <2>1 DEF Jobs
  <2>3. Progress(b, b.joint)'
    BY <1>2, <1>3, <2>2 DEF Progress
  <2>4. job' = [job EXCEPT ![g] = b] /\ b.left # <<>>
    BY <1>5, <2>1, <2>2
  <2> QED
    BY <1>1, <1>2, <1>3, <2>2, <2>3, <2>4, OpenStep
<1>6. CASE /\ Tail(job[g].left) = <<>>
           /\ job' = [job EXCEPT ![g] = [job[g] EXCEPT !.at = next, !.left = <<>>]]
  <2>0. <<>> \in Edits
    BY DEF Edits
  <2>1. PICK b \in Jobs : b = [job[g] EXCEPT !.at = next, !.left = <<>>]
    BY <1>2, <2>0 DEF Jobs
  <2>2. /\ b.at = next /\ b.joint = j /\ b.before = job[g].before /\ b.goal = job[g].goal
        /\ b.left = <<>> /\ b.save = job[g].save /\ b.restored = job[g].restored
    BY <1>2, <2>1 DEF Jobs
  <2>3. next \in Open /\ next \notin Writing
    BY DEF Open
  <2>4. /\ Leads(ram[j], job[g].left, job[g].goal) => ram'[j] = job[g].goal
        /\ Leads(ram[j], job[g].left, job[g].before) => ram'[j] = job[g].before
    BY <1>2, <1>3, <1>6, LeadsDone
  <2>5. Progress(b, b.joint)'
    BY <1>2, <2>2, <2>4 DEF Progress
  <2>6. job' = [job EXCEPT ![g] = b]
    BY <1>6, <2>1
  <2> QED
    BY <1>1, <1>2, <1>3, <2>2, <2>3, <2>5, <2>6, OpenStep
<1> QED
  BY <1>4, <1>5, <1>6

(* A write fails, having reached the drive or not, or the last record of a        *)
(* transaction does: everything is undone.                                   *)
LEMMA StartsUndo ==
  ASSUME OneAtATime, JournalInv, NEW g \in Groups, Undoes(g),
         \/ job[g].at = "update" /\ MayWrite(g) /\ UNCHANGED <<stored, unsure>>
         \/ /\ job[g].at = "save" /\ (Save(g) \/ UNCHANGED stored) /\ UNCHANGED ram
            /\ unsure' = unsure \cup {job[g].joint}
         \/ job[g].at = "commit" /\ UNCHANGED <<ram, stored, unsure>>,
         UNCHANGED <<file, dirty, whole>>
  PROVE  JournalInv'
<1> DEFINE j == job[g].joint
<1>1. job[g].at \in Open /\ job[g].at # "idle"
  BY DEF Open
<1>2. /\ job[g] \in Jobs /\ j \in Joints /\ job[g].left \in Edits
      /\ job[g].left # <<>> <=> job[g].at \in Writing
      /\ job[g].before \in Configs /\ ram \in [Joints -> Configs]
      /\ stored \in [Joints -> Configs] /\ Progress(job[g], j) /\ JournalTypeOK
  BY <1>1, AtWork DEF JournalInv
<1>3. ram' \in [Joints -> Configs] /\ \A k \in Joints : k # j => ram'[k] = ram[k]
  <2>1. CASE job[g].at = "update" /\ Write(g)
    BY <1>2, <2>1, WriteStep DEF Writing
  <2>2. CASE UNCHANGED ram
    BY <1>2, <2>2
  <2> QED
    BY <2>1, <2>2 DEF MayWrite
<1>4. stored' \in [Joints -> Configs] /\ \A k \in Joints : k # j => stored'[k] = stored[k]
  BY <1>2 DEF Save
<1>5. Undo(job[g].before) \in Edits \ {<<>>} /\ Leads(ram'[j], Undo(job[g].before), job[g].before)
  BY <1>2, <1>3, UndoLeads
<1>6. PICK b \in Jobs : b = [job[g] EXCEPT !.at = "undo", !.left = Undo(job[g].before)]
  BY <1>2, <1>5 DEF Jobs, Stages
<1>7. /\ b.at = "undo" /\ b.joint = j /\ b.before = job[g].before /\ b.save = job[g].save
      /\ b.left = Undo(job[g].before)
  BY <1>2, <1>6 DEF Jobs
<1>8. job' = [job EXCEPT ![g] = b]
  BY <1>6 DEF Undoes, Goes
<1>9. ~b.save => stored'[j] \in whole'[j] /\ j \notin unsure'
  BY <1>2, <1>7 DEF Progress
<1>10. Progress(b, b.joint)'
  BY <1>5, <1>7, <1>9 DEF Progress
<1> QED
  BY <1>1, <1>3, <1>4, <1>5, <1>7, <1>8, <1>10, OpenStep DEF Open, Writing

(* A rollback goes on after a write that failed. *)
LEMMA UndoFailsKeeps ==
  ASSUME OneAtATime, JournalInv, NEW g \in Groups, UndoFails(g)
  PROVE  JournalInv'
<1> DEFINE j == job[g].joint
           rest == Tail(job[g].left)
           at == IF rest = <<>> THEN "verdict" ELSE "undo"
<1>1. job[g].at = "undo" /\ job[g].at \in Open /\ job[g].at # "idle"
  BY DEF UndoFails, Open
<1>2. /\ job[g] \in Jobs /\ j \in Joints /\ job[g].left \in Edits /\ job[g].left # <<>>
      /\ ram \in [Joints -> Configs] /\ stored \in [Joints -> Configs]
      /\ Progress(job[g], j) /\ JournalTypeOK
  BY <1>1, AtWork DEF JournalInv, Writing
<1>3. rest \in Edits
  BY <1>2, HeadTailProperties DEF Edits
<1>4. ram' \in [Joints -> Configs] /\ \A k \in Joints : k # j => ram'[k] = ram[k]
  <2>1. CASE Write(g)
    BY <1>2, <2>1, WriteStep
  <2>2. CASE UNCHANGED ram
    BY <1>2, <2>2
  <2> QED
    BY <2>1, <2>2 DEF UndoFails, MayWrite
<1>5. PICK b \in Jobs : b = [job[g] EXCEPT !.at = at, !.left = rest, !.restored = FALSE]
  BY <1>2, <1>3 DEF Jobs, Stages
<1>6. /\ b.at = at /\ b.joint = j /\ b.before = job[g].before /\ b.save = job[g].save
      /\ b.left = rest /\ b.restored = FALSE
  BY <1>2, <1>5 DEF Jobs
<1>7. job' = [job EXCEPT ![g] = b] /\ UNCHANGED <<stored, file, dirty, whole, unsure>>
  BY <1>5 DEF UndoFails, Goes
<1>8. Progress(b, b.joint)'
  BY <1>1, <1>2, <1>6, <1>7 DEF Progress
<1>9. b.at \in Open /\ (b.left # <<>> <=> b.at \in Writing)
  BY <1>6 DEF Open, Writing
<1> QED
  BY <1>1, <1>2, <1>4, <1>6, <1>7, <1>8, <1>9, OpenStep

(* The next stage of `transaction` or `restore` between the first and the last    *)
(* record, with nothing left to write.                                       *)
LEMMA JobGoesTo ==
  ASSUME OneAtATime, JournalInv, NEW g \in Groups, job[g].at \in Open,
         NEW next \in Stages \ Writing, next \in Open, To(g, next),
         UNCHANGED <<file, dirty, whole>>,
         ram' \in [Joints -> Configs], stored' \in [Joints -> Configs],
         \A k \in Joints : k # job[g].joint => ram'[k] = ram[k] /\ stored'[k] = stored[k],
         unsure' \in {unsure, unsure \cup {job[g].joint}},
         \/ next = "fail"
         \/ /\ job[g].at = "save" /\ next = "commit" /\ UNCHANGED <<ram, unsure>>
            /\ stored'[job[g].joint] = ram[job[g].joint]
         \/ /\ job[g].at = "resave" /\ next = "close" /\ UNCHANGED ram
            /\ stored'[job[g].joint] = ram[job[g].joint]
  PROVE  JournalInv'
<1> DEFINE j == job[g].joint
<1>1. job[g].at # "idle"
  BY DEF Open
<1>2. job[g] \in Jobs /\ j \in Joints /\ Progress(job[g], j)
  BY <1>1, AtWork
<1>3. <<>> \in Edits
  BY DEF Edits
<1>4. PICK b \in Jobs : b = [job[g] EXCEPT !.at = next, !.left = <<>>]
  BY <1>2, <1>3 DEF Jobs
<1>5. /\ b.at = next /\ b.joint = j /\ b.before = job[g].before /\ b.goal = job[g].goal
      /\ b.save = job[g].save /\ b.left = <<>>
  BY <1>2, <1>4 DEF Jobs
<1>6. job' = [job EXCEPT ![g] = b]
  BY <1>4 DEF To, Goes
<1>7. Progress(b, b.joint)'
  BY <1>2, <1>5 DEF Progress
<1> QED
  BY <1>2, <1>5, <1>6, <1>7, OpenStep

LEMMA SavedKeeps ==
  ASSUME OneAtATime, JournalInv, NEW g \in Groups, Saved(g)
  PROVE  JournalInv'
<1> DEFINE j == job[g].joint
<1>1. job[g].at \in {"save", "resave"} /\ job[g].at \in Open /\ job[g].at # "idle"
  BY DEF Saved, Open
<1>2. /\ job[g] \in Jobs /\ j \in Joints /\ Progress(job[g], j)
      /\ ram \in [Joints -> Configs] /\ stored \in [Joints -> Configs]
  BY <1>1, AtWork
<1>3. /\ stored' \in [Joints -> Configs] /\ stored'[j] = ram[j]
      /\ \A k \in Joints : k # j => stored'[k] = stored[k]
  BY <1>2 DEF Saved, Save
<1>4. PICK next \in Stages \ Writing :
        next = IF job[g].at = "save" THEN "commit" ELSE "close"
  BY DEF Stages, Writing
<1>5. To(g, next) /\ UNCHANGED <<ram, file, dirty, whole, unsure>>
  BY <1>4 DEF Saved
<1>6. next \in Open
  BY <1>4 DEF Open
<1> QED
  BY <1>1, <1>2, <1>3, <1>4, <1>5, <1>6, JobGoesTo

LEMMA SaveFailsKeeps ==
  ASSUME OneAtATime, JournalInv, NEW g \in Groups, SaveFails(g)
  PROVE  JournalInv'
<1> DEFINE j == job[g].joint
<1>1. CASE job[g].at = "save"
  BY <1>1, StartsUndo DEF SaveFails
<1>2. CASE job[g].at = "resave"
  <2>1. job[g].at \in Open /\ job[g].at # "idle"
    BY <1>2 DEF Open
  <2>2. /\ job[g] \in Jobs /\ j \in Joints
        /\ ram \in [Joints -> Configs] /\ stored \in [Joints -> Configs]
    BY <2>1, AtWork
  <2>3. stored' \in [Joints -> Configs] /\ \A k \in Joints : k # j => stored'[k] = stored[k]
    BY <2>2 DEF SaveFails, Save
  <2>4. "fail" \in Stages \ Writing /\ "fail" \in Open
    BY DEF Stages, Writing, Open
  <2>5. To(g, "fail") /\ unsure' = unsure \cup {j} /\ UNCHANGED <<ram, file, dirty, whole>>
    BY <1>2 DEF SaveFails
  <2> QED
    BY <2>1, <2>2, <2>3, <2>4, <2>5, JobGoesTo
<1> QED
  BY <1>1, <1>2 DEF SaveFails

LEMMA PutFailsKeeps ==
  ASSUME OneAtATime, JournalInv, NEW g \in Groups, PutFails(g)
  PROVE  JournalInv'
<1> DEFINE j == job[g].joint
<1>1. job[g].at \in Open /\ job[g].at # "idle" /\ job[g].at \in Writing
  BY DEF PutFails, Open, Writing
<1>2. /\ job[g] \in Jobs /\ j \in Joints /\ job[g].left # <<>> /\ JournalTypeOK
      /\ ram \in [Joints -> Configs] /\ stored \in [Joints -> Configs]
  BY <1>1, AtWork DEF JournalInv
<1>3. ram' \in [Joints -> Configs] /\ \A k \in Joints : k # j => ram'[k] = ram[k]
  <2>1. CASE Write(g)
    BY <1>2, <2>1, WriteStep
  <2>2. CASE UNCHANGED ram
    BY <1>2, <2>2
  <2> QED
    BY <2>1, <2>2 DEF PutFails, MayWrite
<1>4. "fail" \in Stages \ Writing /\ "fail" \in Open
  BY DEF Stages, Writing, Open
<1>5. To(g, "fail") /\ unsure' = unsure \cup {j} /\ UNCHANGED <<stored, file, dirty, whole>>
  BY DEF PutFails
<1> QED
  BY <1>1, <1>2, <1>3, <1>4, <1>5, JobGoesTo

(* Stages before the first record. *)
LEMMA QuietStep ==
  ASSUME OneAtATime, JournalInv, NEW g \in Groups,
         \A h \in Groups : h # g => job[h] = NoJob,
         NEW b \in Jobs, GroupOf[b.joint] = g, b.at \notin Open,
         b.left # <<>> <=> b.at \in Writing,
         job' = [job EXCEPT ![g] = b],
         UNCHANGED <<ram, stored, file, dirty, whole, unsure>>,
         Progress(b, b.joint)'
  PROVE  JournalInv'
<1>1. JournalTypeOK
  BY DEF JournalInv
<1>2. /\ job' \in [Groups -> {NoJob} \cup Jobs]
      /\ \A h \in Groups : job'[h] # NoJob =>
           GroupOf[job'[h].joint] = h /\ (job'[h].left # <<>> <=> job'[h].at \in Writing)
      /\ Progress(b, b.joint)' => Progresses'
      /\ (b.at \in Open => dirty' /\ Journalled(b.joint)' /\ file'.before = b.before)
           => OpenIsJournalled'
  BY <1>1, JobStep
<1>3. Progresses' /\ OpenIsJournalled'
  BY <1>2
<1>4. JournalTypeOK'
  BY <1>1, <1>2 DEF JournalTypeOK
<1>5. FlagAgrees' /\ BeforeIsWhole' /\ UnsureInDoubt' /\ CleanIsWhole'
  BY DEF JournalInv, FlagAgrees, BeforeIsWhole, UnsureInDoubt, Journalled, CleanIsWhole, DirtyAxes
<1> QED
  BY <1>3, <1>4, <1>5 DEF JournalInv

(* The record that opens the journal for a joint. *)
LEMMA FirstRecord ==
  ASSUME OneAtATime, JournalInv, NEW g \in Groups, job[g].at # "idle",
         NEW b \in Jobs, b.joint = job[g].joint, b.at \in {"update", "put"}, b.left # <<>>,
         job' = [job EXCEPT ![g] = b],
         Record(TRUE, b.joint, b.before), b.before \in whole[b.joint],
         DirtyAxes \subseteq {b.joint}, unsure \subseteq {b.joint},
         UNCHANGED <<ram, stored, whole, unsure>>,
         Progress(b, b.joint)'
  PROVE  JournalInv'
<1>1. JournalTypeOK /\ \A h \in Groups : h # g => job[h] = NoJob
  BY Alone DEF JournalInv
<1>2. b.joint \in Joints /\ b.before \in Configs /\ GroupOf[b.joint] = g
  BY <1>1, Alone DEF Jobs
<1>3. /\ dirty' = TRUE /\ file' = [dirty |-> TRUE, joint |-> b.joint, before |-> b.before]
      /\ dirty' /\ Journalled(b.joint)' /\ file'.before = b.before
  BY DEF Record, Journalled
<1>4. /\ job' \in [Groups -> {NoJob} \cup Jobs]
      /\ \A h \in Groups : job'[h] # NoJob =>
           GroupOf[job'[h].joint] = h /\ (job'[h].left # <<>> <=> job'[h].at \in Writing)
      /\ Progress(b, b.joint)' => Progresses'
      /\ (b.at \in Open => dirty' /\ Journalled(b.joint)' /\ file'.before = b.before)
           => OpenIsJournalled'
  <2>1. b.left # <<>> <=> b.at \in Writing
    BY DEF Writing
  <2> QED
    BY <1>1, <1>2, <2>1, JobStep
<1>5. Progresses' /\ OpenIsJournalled'
  BY <1>3, <1>4
<1>6. JournalTypeOK'
  BY <1>1, <1>2, <1>3, <1>4 DEF JournalTypeOK
<1>7. FlagAgrees' /\ BeforeIsWhole'
  BY <1>3 DEF FlagAgrees, BeforeIsWhole
<1>8. UnsureInDoubt'
  BY <1>3 DEF UnsureInDoubt, Journalled
<1>9. CleanIsWhole'
  <2>1. DirtyAxes' = {b.joint}
    BY <1>3 DEF DirtyAxes
  <2> QED
    BY <2>1 DEF JournalInv, CleanIsWhole
<1> QED
  BY <1>5, <1>6, <1>7, <1>8, <1>9 DEF JournalInv

(* The record that ends a transaction or a restore. *)
LEMMA LastRecord ==
  ASSUME OneAtATime, JournalInv, NEW g \in Groups, job[g].at \in Open, Ends(g),
         NEW d \in BOOLEAN, Record(d, job[g].joint, job[g].before),
         UNCHANGED <<ram, stored>>,
         whole' \in [Joints -> SUBSET Configs], \A k \in Joints : whole[k] \subseteq whole'[k],
         unsure' \subseteq unsure \cup {job[g].joint},
         ~d => /\ job[g].joint \notin unsure'
               /\ ram[job[g].joint] \in whole'[job[g].joint]
               /\ stored[job[g].joint] \in whole'[job[g].joint]
  PROVE  JournalInv'
<1> DEFINE j == job[g].joint
<1>1. JournalTypeOK /\ job[g].at # "idle"
  BY DEF JournalInv, Open
<1>2. \A h \in Groups : h # g => job[h] = NoJob
  BY <1>1, Alone
<1>3. j \in Joints /\ job[g].before \in Configs
  BY <1>1, AtWork
<1>4. /\ job' \in [Groups -> {NoJob} \cup Jobs]
      /\ \A h \in Groups : job'[h] = NoJob
      /\ Progresses' /\ OpenIsJournalled'
  BY <1>1, <1>2, EndStep
<1>5. dirty' = d /\ file' = [dirty |-> d, joint |-> j, before |-> job[g].before]
  BY DEF Record
<1>6. JournalTypeOK'
  <2>1. unsure' \subseteq Joints
    BY <1>1, <1>3 DEF JournalTypeOK
  <2> QED
    BY <1>1, <1>3, <1>4, <1>5, <2>1 DEF JournalTypeOK
<1>7. dirty /\ Journalled(j) /\ file.before = job[g].before
  BY DEF JournalInv, OpenIsJournalled
<1>8. FlagAgrees'
  BY <1>5 DEF FlagAgrees
<1>9. BeforeIsWhole'
  <2>1. job[g].before \in whole[j]
    BY <1>7 DEF JournalInv, BeforeIsWhole, Journalled
  <2> QED
    BY <1>3, <1>5, <2>1 DEF BeforeIsWhole
<1>10. unsure' \subseteq {j}
  BY <1>7 DEF JournalInv, UnsureInDoubt, Journalled
<1>11. UnsureInDoubt'
  BY <1>5, <1>10 DEF UnsureInDoubt, Journalled
<1>12. CleanIsWhole'
  <2>1. DirtyAxes = {j} /\ (d => DirtyAxes' = {j})
    BY <1>5, OpenLocks DEF DirtyAxes
  <2>2. ASSUME NEW k \in Joints, k # j
        PROVE  ram'[k] \in whole'[k] /\ stored'[k] \in whole'[k]
    BY <2>1, <2>2 DEF JournalInv, CleanIsWhole
  <2>3. ~d => ram'[j] \in whole'[j] /\ stored'[j] \in whole'[j]
    OBVIOUS
  <2> QED
    BY <2>1, <2>2, <2>3 DEF CleanIsWhole
<1> QED
  BY <1>4, <1>6, <1>8, <1>9, <1>11, <1>12 DEF JournalInv

(* That record fails too: the journal stays as it is, open for the joint.    *)
LEMMA NoRecord ==
  ASSUME OneAtATime, JournalInv, NEW g \in Groups, job[g].at \in Open, Ends(g),
         UNCHANGED <<ram, stored, file, dirty, whole>>,
         unsure' \in {unsure, unsure \cup {job[g].joint}}
  PROVE  JournalInv'
<1>1. JournalTypeOK /\ job[g].at # "idle"
  BY DEF JournalInv, Open
<1>2. \A h \in Groups : h # g => job[h] = NoJob
  BY <1>1, Alone
<1>3. job[g].joint \in Joints
  BY <1>1, AtWork
<1>4. /\ job' \in [Groups -> {NoJob} \cup Jobs]
      /\ \A h \in Groups : job'[h] = NoJob
      /\ Progresses' /\ OpenIsJournalled'
  BY <1>1, <1>2, EndStep
<1>5. JournalTypeOK'
  BY <1>1, <1>3, <1>4 DEF JournalTypeOK
<1>6. FlagAgrees' /\ BeforeIsWhole' /\ CleanIsWhole'
  BY DEF JournalInv, FlagAgrees, BeforeIsWhole, CleanIsWhole, DirtyAxes
<1>7. UnsureInDoubt'
  BY DEF JournalInv, UnsureInDoubt, OpenIsJournalled, Journalled
<1> QED
  BY <1>4, <1>5, <1>6, <1>7 DEF JournalInv

-----------------------------------------------------------------------------
(* The steps that begin and end.                                            *)

LEMMA BeginsKeeps ==
  ASSUME OneAtATime, JournalInv, NEW j \in Joints, NEW r \in Requests, OneAtATime', Begins(j, r)
  PROVE  JournalInv'
<1> DEFINE g == GroupOf[j]
<1>1. g \in Groups
  BY JournalAssumption
<1>2. r.updates \in Edits \ {<<>>} /\ r.save \in BOOLEAN
  BY JournalAssumption
<1>3. PICK b \in Jobs : b = [Job("check", j) EXCEPT !.save = r.save, !.left = r.updates]
  BY <1>2, JournalAssumption DEF Job, Jobs, Stages
<1>4. b.at = "check" /\ b.joint = j /\ b.left # <<>>
  BY <1>2, <1>3 DEF Job
<1>5. job' = [job EXCEPT ![g] = b] /\ UNCHANGED <<ram, stored, file, dirty, whole, unsure>>
  BY <1>3 DEF Begins, Goes
<1>6. Progress(b, b.joint)'
  BY <1>4 DEF Progress
<1>7. b.at \notin Open /\ (b.left # <<>> <=> b.at \in Writing)
  BY <1>4 DEF Open, Writing
<1>8. \A h \in Groups : h # g => job[h] = NoJob
  <2>1. job \in [Groups -> {NoJob} \cup Jobs]
    BY DEF JournalInv, JournalTypeOK
  <2>2. job'[g] # NoJob /\ \A h \in Groups : h # g => job'[h] = job[h]
    BY <1>1, <1>4, <1>5, <2>1 DEF NoJob
  <2> QED
    BY <1>1, <2>2 DEF OneAtATime
<1> QED
  BY <1>1, <1>4, <1>5, <1>6, <1>7, <1>8, QuietStep

LEMMA BeginsRestoreKeeps ==
  ASSUME OneAtATime, JournalInv, NEW j \in Joints, OneAtATime', BeginsRestore(j)
  PROVE  JournalInv'
<1> DEFINE g == GroupOf[j]
<1>1. g \in Groups
  BY JournalAssumption
<1>2. <<>> \in Edits
  BY DEF Edits
<1>3. PICK b \in Jobs : b = Job("reload", j)
  BY <1>2, JournalAssumption DEF Job, Jobs, Stages
<1>4. b.at = "reload" /\ b.joint = j /\ b.left = <<>>
  BY <1>3 DEF Job
<1>5. job' = [job EXCEPT ![g] = b] /\ UNCHANGED <<ram, stored, file, dirty, whole, unsure>>
  BY <1>3 DEF BeginsRestore, Goes
<1>6. Progress(b, b.joint)'
  BY <1>4 DEF Progress
<1>7. b.at \notin Open /\ (b.left # <<>> <=> b.at \in Writing)
  BY <1>4 DEF Open, Writing
<1>8. \A h \in Groups : h # g => job[h] = NoJob
  <2>1. job \in [Groups -> {NoJob} \cup Jobs]
    BY DEF JournalInv, JournalTypeOK
  <2>2. job'[g] # NoJob /\ \A h \in Groups : h # g => job'[h] = job[h]
    BY <1>1, <1>4, <1>5, <2>1 DEF NoJob
  <2> QED
    BY <1>1, <2>2 DEF OneAtATime
<1> QED
  BY <1>1, <1>4, <1>5, <1>6, <1>7, <1>8, QuietStep

LEMMA ChecksKeeps ==
  ASSUME OneAtATime, JournalInv, NEW g \in Groups, ChecksFlag(g)
  PROVE  JournalInv'
<1>1. job[g].at = "check" /\ job[g].at # "idle"
  BY DEF ChecksFlag
<1>2. CASE dirty
  BY <1>1, <1>2, GivesUp DEF ChecksFlag
<1>3. CASE ~dirty
  <2>1. job[g] \in Jobs /\ job[g].left # <<>>
    BY <1>1, AtWork DEF Writing
  <2>2. GroupOf[job[g].joint] = g /\ \A h \in Groups : h # g => job[h] = NoJob
    BY <1>1, Alone DEF JournalInv
  <2>3. PICK b \in Jobs : b = [job[g] EXCEPT !.at = "read"]
    BY <2>1 DEF Jobs, Stages
  <2>4. b.at = "read" /\ b.joint = job[g].joint /\ b.left # <<>>
    BY <2>1, <2>3 DEF Jobs
  <2>5. job' = [job EXCEPT ![g] = b] /\ UNCHANGED <<ram, stored, file, dirty, whole, unsure>>
    BY <1>3, <2>3 DEF ChecksFlag, Goes
  <2>6. Progress(b, b.joint)'
    BY <1>3, <2>4, <2>5 DEF Progress
  <2>7. b.at \notin Open /\ (b.left # <<>> <=> b.at \in Writing) /\ GroupOf[b.joint] = g
    BY <2>2, <2>4 DEF Open, Writing
  <2> QED
    BY <2>2, <2>5, <2>6, <2>7, QuietStep
<1> QED
  BY <1>2, <1>3

LEMMA ReadsKeeps ==
  ASSUME OneAtATime, JournalInv, NEW g \in Groups, ReadsObjects(g)
  PROVE  JournalInv'
<1> DEFINE j == job[g].joint
<1>1. job[g].at = "read" /\ job[g].at # "idle"
  BY DEF ReadsObjects
<1>2. CASE Ends(g)
  BY <1>1, <1>2, GivesUp DEF ReadsObjects
<1>3. CASE Goes(g, [job[g] EXCEPT !.at = "record", !.before = ram[j]])
  <2>1. job[g] \in Jobs /\ job[g].left # <<>> /\ ram[j] \in Configs /\ Progress(job[g], j)
    BY <1>1, AtWork DEF Writing
  <2>2. GroupOf[j] = g /\ \A h \in Groups : h # g => job[h] = NoJob
    BY <1>1, Alone DEF JournalInv
  <2>3. PICK b \in Jobs : b = [job[g] EXCEPT !.at = "record", !.before = ram[j]]
    BY <2>1 DEF Jobs, Stages
  <2>4. b.at = "record" /\ b.joint = j /\ b.left # <<>> /\ b.before = ram[j]
    BY <2>1, <2>3 DEF Jobs
  <2>5. job' = [job EXCEPT ![g] = b] /\ UNCHANGED <<ram, stored, file, dirty, whole, unsure>>
    BY <1>3, <2>3 DEF ReadsObjects, Goes
  <2>6. Progress(b, b.joint)'
    BY <1>1, <2>1, <2>4, <2>5 DEF Progress
  <2>7. b.at \notin Open /\ (b.left # <<>> <=> b.at \in Writing) /\ GroupOf[b.joint] = g
    BY <2>2, <2>4 DEF Open, Writing
  <2> QED
    BY <2>2, <2>5, <2>6, <2>7, QuietStep
<1> QED
  BY <1>2, <1>3 DEF ReadsObjects

LEMMA RecordsKeeps ==
  ASSUME OneAtATime, JournalInv, NEW g \in Groups, Records(g)
  PROVE  JournalInv'
<1> DEFINE j == job[g].joint
<1>1. job[g].at = "record" /\ job[g].at # "idle"
  BY DEF Records
<1>2. CASE Ends(g) /\ UNCHANGED <<file, dirty>>
  BY <1>1, <1>2, GivesUp DEF Records
<1>3. ASSUME Record(TRUE, j, job[g].before),
             NEW goal \in Configs, Leads(job[g].before, job[g].left, goal),
             Goes(g, [job[g] EXCEPT !.at = "update", !.goal = goal])
      PROVE  JournalInv'
  <2>1. job[g] \in Jobs /\ j \in Joints /\ job[g].left # <<>> /\ Progress(job[g], j)
    BY <1>1, AtWork DEF Writing
  <2>2. PICK b \in Jobs : b = [job[g] EXCEPT !.at = "update", !.goal = goal]
    BY <1>3, <2>1 DEF Jobs, Stages
  <2>3. /\ b.at = "update" /\ b.joint = j /\ b.left = job[g].left
        /\ b.before = job[g].before /\ b.goal = goal
    BY <2>1, <2>2 DEF Jobs
  <2>4. ~dirty /\ job[g].before = ram[j]
    BY <1>1, <2>1 DEF Progress
  <2>5. DirtyAxes = {} /\ unsure = {}
    BY <2>4 DEF DirtyAxes, JournalInv, UnsureInDoubt
  <2>6. ram[j] \in whole[j] /\ stored[j] \in whole[j]
    BY <2>1, <2>5 DEF JournalInv, CleanIsWhole
  <2>7. job' = [job EXCEPT ![g] = b] /\ UNCHANGED <<ram, stored, whole, unsure>>
    BY <1>3, <2>2 DEF Records, Goes
  <2>8. Progress(b, b.joint)'
    BY <1>3, <2>3, <2>4, <2>5, <2>6, <2>7 DEF Progress
  <2>9. Record(TRUE, b.joint, b.before)
    BY <1>3, <2>3
  <2>10. b.before \in whole[b.joint] /\ b.left # <<>>
    BY <2>1, <2>3, <2>4, <2>6
  <2> QED
    BY <1>1, <2>3, <2>5, <2>7, <2>8, <2>9, <2>10, FirstRecord
<1> QED
  BY <1>2, <1>3 DEF Records

LEMMA ReloadsKeeps ==
  ASSUME OneAtATime, JournalInv, NEW g \in Groups, Reloads(g)
  PROVE  JournalInv'
<1> DEFINE j == job[g].joint
           seq == <<[on |-> Switch, to |-> Off]>> \o Undo(file.before)
<1>1. job[g].at = "reload" /\ job[g].at # "idle"
  BY DEF Reloads
<1>2. CASE Ends(g) /\ UNCHANGED <<file, dirty>>
  BY <1>1, <1>2, GivesUp DEF Reloads
<1>3. ASSUME Journalled(j), Record(TRUE, j, file.before),
             Goes(g, [job[g] EXCEPT !.at = "put", !.before = file.before,
                                    !.goal = file.before, !.left = seq])
      PROVE  JournalInv'
  <2>1. job[g] \in Jobs /\ j \in Joints /\ ram[j] \in Configs
    BY <1>1, AtWork
  <2>2. file.before \in whole[j] /\ file.before \in Configs
    BY <1>3, <2>1 DEF JournalInv, BeforeIsWhole, Journalled, JournalTypeOK
  <2>3. seq \in Edits /\ seq # <<>> /\ Leads(ram[j], seq, file.before)
    BY <2>1, <2>2, RestoreLeads
  <2>4. PICK b \in Jobs : b = [job[g] EXCEPT !.at = "put", !.before = file.before,
                                             !.goal = file.before, !.left = seq]
    BY <2>1, <2>2, <2>3 DEF Jobs, Stages
  <2>5. b.at = "put" /\ b.joint = j /\ b.left = seq /\ b.before = file.before
    BY <2>1, <2>4 DEF Jobs
  <2>6. DirtyAxes \subseteq {j} /\ unsure \subseteq {j}
    BY <1>3 DEF DirtyAxes, JournalInv, UnsureInDoubt, Journalled
  <2>7. job' = [job EXCEPT ![g] = b] /\ UNCHANGED <<ram, stored, whole, unsure>>
    BY <1>3, <2>4 DEF Reloads, Goes
  <2>8. Progress(b, b.joint)'
    BY <2>3, <2>5, <2>7 DEF Progress
  <2>9. Record(TRUE, b.joint, b.before)
    BY <1>3, <2>5
  <2>10. b.before \in whole[b.joint] /\ b.left # <<>>
    BY <2>2, <2>3, <2>5
  <2> QED
    BY <1>1, <2>5, <2>6, <2>7, <2>8, <2>9, <2>10, FirstRecord
<1> QED
  BY <1>2, <1>3 DEF Reloads, Recorded

LEMMA CommitsKeeps ==
  ASSUME OneAtATime, JournalInv, NEW g \in Groups, Commits(g)
  PROVE  JournalInv'
<1> DEFINE j == job[g].joint
<1>1. job[g].at = "commit" /\ job[g].at \in Open /\ job[g].at # "idle"
  BY DEF Commits, Open
<1>2. /\ job[g] \in Jobs /\ j \in Joints /\ job[g].goal \in Configs
      /\ Progress(job[g], j) /\ whole \in [Joints -> SUBSET Configs]
  BY <1>1, AtWork DEF JournalInv, JournalTypeOK
<1>3. whole' = [whole EXCEPT ![j] = @ \cup {job[g].goal}]
  BY DEF Commits
<1>4. /\ whole' \in [Joints -> SUBSET Configs] /\ whole'[j] = whole[j] \cup {job[g].goal}
      /\ \A k \in Joints : whole[k] \subseteq whole'[k]
  BY <1>2, <1>3
<1>5. /\ j \notin unsure /\ ram[j] = job[g].goal
      /\ stored[j] \in whole[j] \/ stored[j] = job[g].goal
  BY <1>1, <1>2 DEF Progress
<1>6. /\ Record(FALSE, j, job[g].before) /\ Ends(g) /\ UNCHANGED <<ram, stored>>
      /\ unsure' = unsure
  BY DEF Commits
<1> QED
  BY <1>1, <1>4, <1>5, <1>6, LastRecord

LEMMA DecidesKeeps ==
  ASSUME OneAtATime, JournalInv, NEW g \in Groups, Decides(g)
  PROVE  JournalInv'
<1> DEFINE j == job[g].joint
<1>1. job[g].at = "verdict" /\ job[g].at \in Open /\ job[g].at # "idle"
  BY DEF Decides, Open
<1>2. /\ job[g] \in Jobs /\ j \in Joints /\ Progress(job[g], j)
      /\ whole \in [Joints -> SUBSET Configs]
  BY <1>1, AtWork DEF JournalInv, JournalTypeOK
<1>3. /\ Ends(g) /\ UNCHANGED <<ram, stored, whole>>
      /\ unsure' = IF job[g].restored THEN unsure ELSE unsure \cup {j}
  BY DEF Decides
<1>4. CASE UNCHANGED <<file, dirty>>
  BY <1>1, <1>3, <1>4, NoRecord
<1>5. CASE Record(Verdict(g), j, job[g].before)
  <2>1. PICK d \in BOOLEAN : d = Verdict(g)
    BY <1>2 DEF Verdict, Jobs
  <2>2. job[g].before \in whole[j]
    BY <1>1 DEF JournalInv, OpenIsJournalled, BeforeIsWhole, Journalled
  <2>3. ~d => ~job[g].save /\ job[g].restored
    BY <2>1 DEF Verdict
  <2>4. ~d => j \notin unsure' /\ ram[j] \in whole'[j] /\ stored[j] \in whole'[j]
    BY <1>1, <1>2, <1>3, <2>2, <2>3 DEF Progress
  <2>5. Record(d, j, job[g].before)
    BY <1>5, <2>1
  <2>6. whole' \in [Joints -> SUBSET Configs] /\ \A k \in Joints : whole[k] \subseteq whole'[k]
    BY <1>2, <1>3
  <2>7. unsure' \subseteq unsure \cup {j} /\ UNCHANGED <<ram, stored>>
    BY <1>3
  <2> QED
    BY <1>1, <1>3, <2>4, <2>5, <2>6, <2>7, LastRecord
<1> QED
  BY <1>4, <1>5 DEF Decides

LEMMA ClosesKeeps ==
  ASSUME OneAtATime, JournalInv, NEW g \in Groups, Closes(g)
  PROVE  JournalInv'
<1> DEFINE j == job[g].joint
<1>1. job[g].at \in {"close", "fail"} /\ job[g].at \in Open /\ job[g].at # "idle"
  BY DEF Closes, Open
<1>2. /\ job[g] \in Jobs /\ j \in Joints /\ Progress(job[g], j)
      /\ whole \in [Joints -> SUBSET Configs]
  BY <1>1, AtWork DEF JournalInv, JournalTypeOK
<1>3. Ends(g) /\ UNCHANGED <<ram, stored, whole>>
  BY DEF Closes
<1>4. CASE UNCHANGED <<file, dirty, unsure>>
  BY <1>1, <1>3, <1>4, NoRecord
<1>5. CASE /\ Record(job[g].at = "fail", j, job[g].before)
           /\ unsure' = IF job[g].at = "close" THEN unsure \ {j} ELSE unsure
  <2>1. PICK d \in BOOLEAN : d = (job[g].at = "fail")
    OBVIOUS
  <2>2. job[g].before \in whole[j]
    BY <1>1 DEF JournalInv, OpenIsJournalled, BeforeIsWhole, Journalled
  <2>3. ~d => job[g].at = "close"
    BY <1>1, <2>1
  <2>4. ~d => j \notin unsure' /\ ram[j] \in whole'[j] /\ stored[j] \in whole'[j]
    BY <1>2, <1>3, <1>5, <2>2, <2>3 DEF Progress
  <2>5. Record(d, j, job[g].before)
    BY <1>5, <2>1
  <2>6. whole' \in [Joints -> SUBSET Configs] /\ \A k \in Joints : whole[k] \subseteq whole'[k]
    BY <1>2, <1>3
  <2>7. unsure' \subseteq unsure \cup {j} /\ UNCHANGED <<ram, stored>>
    BY <1>3, <1>5
  <2> QED
    BY <1>1, <1>3, <2>4, <2>5, <2>6, <2>7, LastRecord
<1> QED
  BY <1>4, <1>5 DEF Closes

(* A process that starts again finds the journal of the joint that was at work.   *)
LEMMA CrashKeeps ==
  ASSUME OneAtATime, JournalInv, Crash
  PROVE  JournalInv'
<1>1. /\ dirty' = file.dirty /\ job' = [g \in Groups |-> NoJob]
      /\ unsure' = unsure \cup {job[g].joint : g \in {h \in Groups : Unfinished(h)}}
      /\ UNCHANGED <<ram, stored, file, whole>>
  BY DEF Crash
<1>2. dirty' = dirty
  BY <1>1 DEF JournalInv, FlagAgrees
<1>3. ASSUME NEW g \in Groups, Unfinished(g)
      PROVE  job[g].joint \in Joints /\ dirty /\ Journalled(job[g].joint)
  <2>1. job[g].at # "idle" /\ job[g].at \notin {"check", "read", "record", "reload"}
    BY <1>3 DEF Unfinished
  <2>2. job[g] \in Jobs
    BY <2>1, AtWork
  <2>3. job[g].at \in Open
    BY <2>1, <2>2 DEF Jobs, Stages, Open
  <2> QED
    BY <2>2, <2>3 DEF Jobs, JournalInv, OpenIsJournalled
<1>4. JournalTypeOK'
  <2>1. unsure' \subseteq Joints
    BY <1>1, <1>3 DEF JournalInv, JournalTypeOK
  <2> QED
    BY <1>1, <1>2, <2>1 DEF JournalInv, JournalTypeOK
<1>5. FlagAgrees' /\ BeforeIsWhole' /\ CleanIsWhole'
  BY <1>1, <1>2 DEF JournalInv, FlagAgrees, BeforeIsWhole, CleanIsWhole, DirtyAxes
<1>6. UnsureInDoubt'
  BY <1>1, <1>2, <1>3 DEF JournalInv, UnsureInDoubt, Journalled
<1>7. OpenIsJournalled' /\ Progresses'
  BY <1>1 DEF OpenIsJournalled, Progresses, Open, NoJob
<1> QED
  BY <1>4, <1>5, <1>6, <1>7 DEF JournalInv

LEMMA PowerCycleKeeps ==
  ASSUME OneAtATime, JournalInv, NEW j \in Joints, PowerCycle(j)
  PROVE  JournalInv'
<1>1. /\ job[GroupOf[j]].at # "idle" => job[GroupOf[j]].joint # j
      /\ ram' = [ram EXCEPT ![j] = stored[j]]
      /\ UNCHANGED <<stored, file, dirty, job, whole, unsure>>
  BY DEF PowerCycle
<1>2. ram \in [Joints -> Configs] /\ stored \in [Joints -> Configs]
  BY DEF JournalInv, JournalTypeOK
<1>3. JournalTypeOK'
  BY <1>1, <1>2 DEF JournalInv, JournalTypeOK
<1>4. FlagAgrees' /\ BeforeIsWhole' /\ OpenIsJournalled' /\ UnsureInDoubt'
  BY <1>1 DEF JournalInv, FlagAgrees, BeforeIsWhole, OpenIsJournalled, UnsureInDoubt, Journalled
<1>5. CleanIsWhole'
  BY <1>1, <1>2 DEF JournalInv, CleanIsWhole, DirtyAxes
<1>6. Progresses'
  <2>1. ASSUME NEW g \in Groups, job[g].at # "idle"
        PROVE  Progress(job[g], job[g].joint)'
    <3>1. Progress(job[g], job[g].joint) /\ job[g].joint \in Joints
      BY <2>1, AtWork
    <3>2. GroupOf[job[g].joint] = g
      BY <2>1, Alone DEF JournalInv
    <3>3. ram'[job[g].joint] = ram[job[g].joint]
      BY <1>1, <1>2, <2>1, <3>1, <3>2
    <3> QED
      BY <1>1, <3>1, <3>3 DEF Progress
  <2> QED
    BY <1>1, <2>1 DEF Progresses
<1> QED
  BY <1>3, <1>4, <1>5, <1>6 DEF JournalInv

-----------------------------------------------------------------------------
LEMMA InitHolds ==
  ASSUME JournalInit
  PROVE  JournalInv
<1>1. JournalTypeOK
  BY JournalAssumption DEF JournalInit, JournalTypeOK, NoJob
<1>2. FlagAgrees /\ BeforeIsWhole /\ UnsureInDoubt /\ CleanIsWhole
  BY DEF JournalInit, FlagAgrees, BeforeIsWhole, UnsureInDoubt, CleanIsWhole, DirtyAxes
<1>3. OpenIsJournalled /\ Progresses
  BY DEF JournalInit, OpenIsJournalled, Progresses, Open, NoJob
<1> QED
  BY <1>1, <1>2, <1>3 DEF JournalInv

(* Every step of a thread keeps the invariant. *)
LEMMA ThreadKeeps ==
  ASSUME OneAtATime, JournalInv, NEW g \in Groups, Transacts(g) \/ Restores(g)
  PROVE  JournalInv'
<1>1. CASE ChecksFlag(g) \/ ReadsObjects(g) \/ Records(g) \/ Reloads(g)
  BY <1>1, ChecksKeeps, ReadsKeeps, RecordsKeeps, ReloadsKeeps
<1>2. CASE Updated(g)
  <2>1. PICK next \in Stages \ Writing : next = IF job[g].save THEN "save" ELSE "commit"
    BY DEF Stages, Writing
  <2> QED
    BY <1>2, <2>1, WritesOn DEF Updated
<1>3. CASE UpdateFails(g)
  BY <1>3, StartsUndo DEF UpdateFails
<1>4. CASE Saved(g) \/ SaveFails(g)
  BY <1>4, SavedKeeps, SaveFailsKeeps
<1>5. CASE Commits(g)
  BY <1>5, CommitsKeeps
<1>6. CASE CommitFails(g)
  BY <1>6, StartsUndo DEF CommitFails
<1>7. CASE Undone(g)
  <2>1. "verdict" \in Stages \ Writing
    BY DEF Stages, Writing
  <2> QED
    BY <1>7, <2>1, WritesOn DEF Undone
<1>8. CASE UndoFails(g) \/ Decides(g)
  BY <1>8, UndoFailsKeeps, DecidesKeeps
<1>9. CASE Puts(g)
  <2>1. "resave" \in Stages \ Writing
    BY DEF Stages, Writing
  <2> QED
    BY <1>9, <2>1, WritesOn DEF Puts
<1>10. CASE PutFails(g) \/ Closes(g)
  BY <1>10, PutFailsKeeps, ClosesKeeps
<1> QED
  BY <1>1, <1>2, <1>3, <1>4, <1>5, <1>6, <1>7, <1>8, <1>9, <1>10 DEF Transacts, Restores

(* The inductive invariant of maintenance, one joint at a time: between the first   *)
(* and the last record the journal names the joint at work and what it held,     *)
(* and what is left to write leads to the configuration asked for.             *)
THEOREM JournalInvariance ==
  JournalSpec /\ []OneAtATime => []JournalInv
<1>1. JournalInit => JournalInv
  BY InitHolds
<1>2. ASSUME JournalInv, OneAtATime, OneAtATime', [JournalNext]_journalVars  PROVE JournalInv'
  <2>1. CASE \E j \in Joints : BeginsRestore(j) \/ PowerCycle(j)
    BY <1>2, <2>1, BeginsRestoreKeeps, PowerCycleKeeps
  <2>2. CASE \E j \in Joints, r \in Requests : Begins(j, r)
    BY <1>2, <2>2, BeginsKeeps
  <2>3. CASE \E g \in Groups : Transacts(g) \/ Restores(g)
    BY <1>2, <2>3, ThreadKeeps
  <2>4. CASE Crash
    BY <1>2, <2>4, CrashKeeps
  <2>5. CASE UNCHANGED journalVars
    BY <1>2, <2>5 DEF journalVars, JournalInv, JournalTypeOK, FlagAgrees, BeforeIsWhole,
       OpenIsJournalled, UnsureInDoubt, Journalled, CleanIsWhole, DirtyAxes, Progresses, Progress
  <2> QED
    BY <1>2, <2>1, <2>2, <2>3, <2>4, <2>5 DEF JournalNext
<1> QED
  BY <1>1, <1>2, PTL DEF JournalSpec

(* Journal, drives and threads keep their types, and a thread works for its own   *)
(* group and has something to write exactly where it writes.                  *)
THEOREM JournalTyped ==
  JournalSpec /\ []OneAtATime => []JournalTypeOK
<1>1. JournalInv => JournalTypeOK
  BY DEF JournalInv
<1> QED
  BY <1>1, JournalInvariance, PTL

(* A drive that is neither locked nor maintained holds and has saved a           *)
(* configuration somebody asked for, whatever failed and whenever the process   *)
(* died.                                                                   *)
THEOREM WholeUnlessInterlocked ==
  JournalSpec /\ []OneAtATime => []WholeOrInterlocked
<1>1. JournalInv => WholeOrInterlocked
  BY DEF JournalInv, CleanIsWhole, WholeOrInterlocked
<1> QED
  BY <1>1, JournalInvariance, PTL

(* What the journal would restore is a configuration that was asked for. *)
THEOREM RestoresWhole ==
  JournalSpec /\ []OneAtATime => []BeforeIsWhole
<1>1. JournalInv => BeforeIsWhole
  BY DEF JournalInv
<1> QED
  BY <1>1, JournalInvariance, PTL

=============================================================================
