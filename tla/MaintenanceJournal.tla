-------------------------- MODULE MaintenanceJournal --------------------------
(***************************************************************************)
(* Maintenance of a drive's persistent objects (policy.py): a transaction   *)
(* writes them one after another over the bus, undoes them if something     *)
(* fails, and leaves a journal file when the outcome is unknown.  The        *)
(* process may die between any two steps; a drive that loses its power       *)
(* comes back with what it has saved.                                       *)
(*                                                                          *)
(* The coordinator (maintain in groups.py) starts it under the lock of the  *)
(* joint's group.  The journal, one file, belongs to all groups.            *)
(***************************************************************************)
EXTENDS Naturals, Sequences

CONSTANTS
  Joints,        \* the axes with maintenance objects
  Groups,        \* the motion groups
  GroupOf,       \* the group of a joint
  Objects,       \* MAINTENANCE: home offset, limits, their enable flag
  Values,        \* what an object may hold
  Switch, Off,   \* the enable flag and its value for "off"
  RestoreOrder,  \* the order in which objects are restored
  Requests,      \* what operators ask for: updates, and whether to save
  Factory        \* what the drives hold at first

Configs == [Objects -> Values]
Edits == Seq([on : Objects, to : Values])

ASSUME JournalAssumption ==
  /\ GroupOf \in [Joints -> Groups]
  /\ Switch \in Objects /\ Off \in Values
  /\ RestoreOrder \in Seq(Objects)
  /\ \A o \in Objects : \E i \in DOMAIN RestoreOrder :
       RestoreOrder[i] = o /\ \A k \in DOMAIN RestoreOrder : RestoreOrder[k] = o => k = i
  /\ Requests \subseteq [updates : Edits \ {<<>>}, save : BOOLEAN]
  /\ Factory \in Configs

VARIABLES
  ram,     \* what a drive works with
  stored,  \* what it has saved
  file,    \* the journal
  dirty,   \* self.dirty
  job,     \* what the thread that holds the group's lock is doing
  whole,   \* history: configurations of a joint somebody has asked for
  unsure   \* history: joints whose last save or rollback has an unknown outcome

journalVars == <<ram, stored, file, dirty, job, whole, unsure>>

Stages == {"check", "read", "record", "update", "save", "commit", "undo", "verdict",
           "reload", "put", "resave", "close", "fail"}

(* Stages with objects left to be written, now or later. *)
Writing == {"check", "read", "record", "update", "undo", "put"}

NoJob == [at |-> "idle"]

(* The steps that `transaction` and `restore` go through, and their locals.   *)
Job(at, j) == [at |-> at, joint |-> j, save |-> FALSE, left |-> <<>>, before |-> Factory,
               goal |-> Factory, restored |-> TRUE]

Jobs == [at : Stages, joint : Joints, save : BOOLEAN, left : Edits, before : Configs,
         goal : Configs, restored : BOOLEAN]

JournalTypeOK ==
  /\ ram \in [Joints -> Configs] /\ stored \in [Joints -> Configs]
  /\ file \in {[dirty |-> FALSE]} \cup [dirty : BOOLEAN, joint : Joints, before : Configs]
  /\ dirty \in BOOLEAN
  /\ job \in [Groups -> {NoJob} \cup Jobs]
  /\ \A g \in Groups : job[g] # NoJob =>
       GroupOf[job[g].joint] = g /\ (job[g].left # <<>> <=> job[g].at \in Writing)
  /\ whole \in [Joints -> SUBSET Configs] /\ unsure \subseteq Joints

-----------------------------------------------------------------------------
(* dirty_axes: what is locked while the journal is not resolved.             *)
DirtyAxes == IF dirty THEN {file.joint} ELSE {}

(* Writing `seq` to a drive that holds c leaves it with `goal`.               *)
Leads(c, seq, goal) ==
  \A o \in Objects :
    LET after(i) == {k \in DOMAIN seq : k > i}
        writes   == {i \in DOMAIN seq : seq[i].on = o}
    IN  \/ writes = {} /\ goal[o] = c[o]
        \/ \E i \in writes : goal[o] = seq[i].to /\ after(i) \cap writes = {}

Undo(before) ==
  [i \in DOMAIN RestoreOrder |-> [on |-> RestoreOrder[i], to |-> before[RestoreOrder[i]]]]

(* record(): the file is replaced at once, then the flag is set.             *)
Record(d, j, before) ==
  /\ file' = [dirty |-> d, joint |-> j, before |-> before]
  /\ dirty' = d

(* The thread goes on. *)
Goes(g, next) == job' = [job EXCEPT ![g] = next]
To(g, at)     == Goes(g, [job[g] EXCEPT !.at = at, !.left = <<>>])
Undoes(g)     == Goes(g, [job[g] EXCEPT !.at = "undo", !.left = Undo(job[g].before)])
Ends(g)       == Goes(g, NoJob)

(* The next object, or the next stage once all are written. *)
Proceed(g, next) ==
  IF Len(job[g].left) > 1 THEN Goes(g, [job[g] EXCEPT !.left = Tail(@)]) ELSE To(g, next)

-----------------------------------------------------------------------------
(* transaction()                                                            *)

(* verify() refuses a joint whose last outcome is unknown. *)
Begins(j, r) ==
  /\ job[GroupOf[j]] = NoJob
  /\ j \notin DirtyAxes
  /\ Goes(GroupOf[j], [Job("check", j) EXCEPT !.save = r.save, !.left = r.updates])
  /\ UNCHANGED <<ram, stored, file, dirty, whole, unsure>>

(* The flag is looked at before the objects are read over the bus ...        *)
ChecksFlag(g) ==
  /\ job[g].at = "check"
  /\ IF dirty THEN Ends(g) ELSE Goes(g, [job[g] EXCEPT !.at = "read"])
  /\ UNCHANGED <<ram, stored, file, dirty, whole, unsure>>

ReadsObjects(g) ==
  /\ job[g].at = "read"
  /\ Ends(g) \/ Goes(g, [job[g] EXCEPT !.at = "record", !.before = ram[job[g].joint]])
  /\ UNCHANGED <<ram, stored, file, dirty, whole, unsure>>

(* ... and the journal is written after that.                               *)
Records(g) ==
  /\ job[g].at = "record"
  /\ \/ /\ Record(TRUE, job[g].joint, job[g].before)
        /\ \E goal \in Configs :
             /\ Leads(job[g].before, job[g].left, goal)
             /\ Goes(g, [job[g] EXCEPT !.at = "update", !.goal = goal])
     \/ Ends(g) /\ UNCHANGED <<file, dirty>>
  /\ UNCHANGED <<ram, stored, whole, unsure>>

(* The next object is written and read back. *)
Write(g) ==
  LET w == Head(job[g].left)
  IN  ram' = [ram EXCEPT ![job[g].joint][w.on] = w.to]

(* A transfer fails: the write has reached the drive or it never will.  A late  *)
(* one counts as the former: a drive's requests are served in order.         *)
MayWrite(g) == Write(g) \/ UNCHANGED ram

Updated(g) ==
  /\ job[g].at = "update"
  /\ Write(g)
  /\ Proceed(g, IF job[g].save THEN "save" ELSE "commit")
  /\ UNCHANGED <<stored, file, dirty, whole, unsure>>

UpdateFails(g) ==
  /\ job[g].at = "update"
  /\ MayWrite(g)
  /\ Undoes(g)
  /\ UNCHANGED <<stored, file, dirty, whole, unsure>>

(* The drive saves all its objects; whether it did is unknown after a failure. *)
Save(g) == stored' = [stored EXCEPT ![job[g].joint] = ram[job[g].joint]]

Saved(g) ==
  /\ job[g].at \in {"save", "resave"}
  /\ Save(g)
  /\ To(g, IF job[g].at = "save" THEN "commit" ELSE "close")
  /\ UNCHANGED <<ram, file, dirty, whole, unsure>>

SaveFails(g) ==
  /\ job[g].at \in {"save", "resave"}
  /\ Save(g) \/ UNCHANGED stored
  /\ IF job[g].at = "save" THEN Undoes(g) ELSE To(g, "fail")
  /\ unsure' = unsure \cup {job[g].joint}
  /\ UNCHANGED <<ram, file, dirty, whole>>

Commits(g) ==
  /\ job[g].at = "commit"
  /\ Record(FALSE, job[g].joint, job[g].before)
  /\ whole' = [whole EXCEPT ![job[g].joint] = @ \cup {job[g].goal}]
  /\ Ends(g)
  /\ UNCHANGED <<ram, stored, unsure>>

CommitFails(g) ==
  /\ job[g].at = "commit"
  /\ Undoes(g)
  /\ UNCHANGED <<ram, stored, file, dirty, whole, unsure>>

(* Every object is restored, whatever becomes of the others.                *)
Undone(g) ==
  /\ job[g].at = "undo"
  /\ Write(g)
  /\ Proceed(g, "verdict")
  /\ UNCHANGED <<stored, file, dirty, whole, unsure>>

UndoFails(g) ==
  /\ job[g].at = "undo"
  /\ MayWrite(g)
  /\ LET rest == Tail(job[g].left)
     IN  Goes(g, [job[g] EXCEPT !.at = IF rest = <<>> THEN "verdict" ELSE "undo",
                                !.left = rest, !.restored = FALSE])
  /\ UNCHANGED <<stored, file, dirty, whole, unsure>>

(* Mutant of Verdict: a rollback of unknown outcome counts as clean. *)
VerdictOnSave(g) == job[g].save

Verdict(g) == job[g].save \/ ~job[g].restored

Decides(g) ==
  /\ job[g].at = "verdict"
  /\ \/ Record(Verdict(g), job[g].joint, job[g].before)
     \/ UNCHANGED <<file, dirty>>
  /\ unsure' = IF job[g].restored THEN unsure ELSE unsure \cup {job[g].joint}
  /\ Ends(g)
  /\ UNCHANGED <<ram, stored, whole>>

-----------------------------------------------------------------------------
(* restore()                                                                *)

Journalled(j) == "joint" \in DOMAIN file /\ file.joint = j

(* maintain() with `restore`, for the joint of the journal, resolved or not.   *)
BeginsRestore(j) ==
  /\ job[GroupOf[j]] = NoJob
  /\ Journalled(j)
  /\ Goes(GroupOf[j], Job("reload", j))
  /\ UNCHANGED <<ram, stored, file, dirty, whole, unsure>>

Recorded(j) == file.before

Reloads(g) ==
  LET j      == job[g].joint
      before == Recorded(j)
  IN
  /\ job[g].at = "reload"
  /\ \/ /\ Journalled(j)
        /\ Record(TRUE, j, before)
        /\ Goes(g, [job[g] EXCEPT !.at = "put", !.before = before, !.goal = before,
                                  !.left = <<[on |-> Switch, to |-> Off]>> \o Undo(before)])
     \/ Ends(g) /\ UNCHANGED <<file, dirty>>
  /\ UNCHANGED <<ram, stored, whole, unsure>>

Puts(g) ==
  /\ job[g].at = "put"
  /\ Write(g)
  /\ Proceed(g, "resave")
  /\ UNCHANGED <<stored, file, dirty, whole, unsure>>

PutFails(g) ==
  /\ job[g].at = "put"
  /\ MayWrite(g)
  /\ To(g, "fail")
  /\ unsure' = unsure \cup {job[g].joint}
  /\ UNCHANGED <<stored, file, dirty, whole>>

(* The last record of restore(), of a success or of a failure. *)
Closes(g) ==
  /\ job[g].at \in {"close", "fail"}
  /\ \/ /\ Record(job[g].at = "fail", job[g].joint, job[g].before)
        /\ unsure' = IF job[g].at = "close" THEN unsure \ {job[g].joint} ELSE unsure
     \/ UNCHANGED <<file, dirty, unsure>>
  /\ Ends(g)
  /\ UNCHANGED <<ram, stored, whole>>

-----------------------------------------------------------------------------
(* Crashes.                                                                 *)

Unfinished(g) == job[g].at \notin {"idle", "check", "read", "record", "reload"}

(* The process dies and starts again: __init__ reads the file. *)
Crash ==
  /\ dirty' = file.dirty
  /\ job' = [g \in Groups |-> NoJob]
  /\ unsure' = unsure \cup {job[g].joint : g \in {h \in Groups : Unfinished(h)}}
  /\ UNCHANGED <<ram, stored, file, whole>>

(* A drive loses its power while nobody maintains it. *)
PowerCycle(j) ==
  /\ job[GroupOf[j]].at # "idle" => job[GroupOf[j]].joint # j
  /\ ram' = [ram EXCEPT ![j] = stored[j]]
  /\ UNCHANGED <<stored, file, dirty, job, whole, unsure>>

-----------------------------------------------------------------------------
JournalInit ==
  /\ ram = [j \in Joints |-> Factory] /\ stored = [j \in Joints |-> Factory]
  /\ file = [dirty |-> FALSE] /\ dirty = FALSE
  /\ job = [g \in Groups |-> NoJob]
  /\ whole = [j \in Joints |-> {Factory}] /\ unsure = {}

Transacts(g) ==
  \/ ChecksFlag(g) \/ ReadsObjects(g) \/ Records(g) \/ Updated(g) \/ UpdateFails(g)
  \/ Saved(g) \/ SaveFails(g) \/ Commits(g) \/ CommitFails(g)
  \/ Undone(g) \/ UndoFails(g) \/ Decides(g)

Restores(g) == Reloads(g) \/ Puts(g) \/ PutFails(g) \/ Closes(g)

JournalNext ==
  \/ \E j \in Joints : BeginsRestore(j) \/ PowerCycle(j)
  \/ \E j \in Joints, r \in Requests : Begins(j, r)
  \/ \E g \in Groups : Transacts(g) \/ Restores(g)
  \/ Crash

JournalSpec == JournalInit /\ [][JournalNext]_journalVars

-----------------------------------------------------------------------------
AtRest(j) == job[GroupOf[j]].at # "idle" => job[GroupOf[j]].joint # j

(* A drive whose joint is not locked holds, and has saved, a configuration that  *)
(* somebody asked for as a whole: never some objects of one and some of another, *)
(* whatever failed or crashed, so a group that is enabled has sound limits.    *)
WholeOrInterlocked == \A j \in Joints :
  AtRest(j) /\ j \notin DirtyAxes => ram[j] \in whole[j] /\ stored[j] \in whole[j]

(* restore() can only ever bring back a whole configuration of that joint.    *)
BeforeIsWhole == "joint" \in DOMAIN file => file.before \in whole[file.joint]

(* A save or rollback whose outcome is unknown has left a journal that names    *)
(* the joint, and restart or not, it is locked until a restore has succeeded   *)
(* (docs/31, line 69).                                                      *)
UnsureIsJournalled == \A j \in unsure :
  AtRest(j) => file.dirty /\ Journalled(j) /\ j \in DirtyAxes

=============================================================================
