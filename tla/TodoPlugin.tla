------------------------------ MODULE TodoPlugin -------------------------------
(***************************************************************************)
(* The todo plugin: one file per todo, which the user's editor and the     *)
(* plugin's actions write, and a watcher that compares scans of the files  *)
(* and publishes what changed.  The actions read a file, then replace it;  *)
(* the watcher reads and stats file after file, then reads each again to   *)
(* publish it.                                                             *)
(***************************************************************************)
EXTENDS Naturals, FiniteSets

CONSTANTS
  Todos,       \* <workspace, id> of the files
  Tags,        \* besides "loop"
  MaxWrites,   \* bound on the writes to the files
  MaxCrashes, MaxFaults,   \* bounds on the plugin's crashes and on failures of its scans
  None

VARIABLES
  files,       \* [Todos -> file or None]
  writes,      \* made so far; the stamp of the last one
  partial,     \* files the editor has emptied and not yet filled
  op,          \* what the plugin's main thread is in the middle of
  watcher,     \* where the watcher is
  prev, seen,  \* its last scan and the one it is at
  unseen,      \* files this scan has yet to come to
  held,        \* the file it has read and not yet stat'ed, while that is the one of its name
  due,         \* what it still has to publish
  view,        \* what one who follows the events knows of each todo
  completed,   \* history: todo.completed events
  finished,    \* history: times the file turned to done
  crashes, faults

disk == <<files, writes, partial, finished>>
scanning == <<watcher, prev, seen, unseen, held, due, view, completed>>
vars == <<disk, op, scanning, crashes, faults>>

Statuses == {"open", "done"}
AllTags == Tags \cup {"loop"}
\* A file without front matter, or empty, is read as an open todo without tags.
File == [status : Statuses, tags : SUBSET AllTags, stamp : 0..MaxWrites]
Snapshot(file) == [status |-> file.status, stamp |-> file.stamp]
Content(file) == [status |-> file.status, tags |-> file.tags]
Snapshots == [status : Statuses, stamp : 0..MaxWrites]
Contents == [status : Statuses, tags : SUBSET AllTags]
Bare == [bare |-> TRUE]    \* a payload of id and workspace only
\* Between a call's read and its write: what to do with which file.
Steps == [does : {"create"}, todo : Todos]
         \cup [does : {"replace"}, todo : Todos, with : Contents]
         \cup [does : {"tag"}, todo : Todos, tags : SUBSET AllTags]

TodoPluginAssumption ==
  /\ MaxWrites \in Nat \ {0} /\ {MaxCrashes, MaxFaults} \subseteq Nat
  /\ None \notin Todos \cup File \cup Snapshots \cup Steps

TypeOK ==
  /\ files \in [Todos -> File \cup {None}] /\ writes \in 0..MaxWrites
  /\ partial \subseteq Todos
  /\ op \in Steps \cup {None}
  /\ watcher \in {"waiting", "first", "asleep", "scanning", "publishing", "gone"}
  /\ {prev, seen} \subseteq [Todos -> Snapshots \cup {None}]
  /\ unseen \subseteq Todos /\ held \in Todos \cup {None}
  /\ due \subseteq Todos \X {"created", "changed", "completed", "deleted"}
  /\ view \in [Todos -> Contents \cup {None, Bare}]
  /\ {completed, finished} \subseteq [Todos -> Nat]
  /\ crashes \in 0..MaxCrashes /\ faults \in 0..MaxFaults

Nothing == [t \in Todos |-> None]

Init ==
  /\ files \in [Todos -> {None} \cup [status : Statuses, tags : {{}}, stamp : {0}]]
  /\ writes = 0 /\ partial = {} /\ finished = [t \in Todos |-> 0]
  /\ op = None /\ watcher = "waiting" /\ prev = Nothing /\ seen = Nothing
  /\ unseen = {} /\ held = None /\ due = {} /\ view = Nothing
  /\ completed = [t \in Todos |-> 0] /\ crashes = 0 /\ faults = 0

-----------------------------------------------------------------------------
(* The files *)

IsDone(file) == file # None /\ file.status = "done"

Write(t, content) ==
  /\ writes < MaxWrites /\ writes' = writes + 1
  /\ files' = [files EXCEPT ![t] =
       [status |-> content.status, tags |-> content.tags, stamp |-> writes']]
  /\ finished' = IF content.status = "done" /\ ~IsDone(files[t])
                 THEN [finished EXCEPT ![t] = @ + 1] ELSE finished

\* Another file has the name now, or none: the one the watcher holds stays as it is.
Unlinked(t) == held' = (IF held = t THEN None ELSE held) /\ UNCHANGED seen

\* The file the watcher holds is written: its stat will be of the new time.
Restamped(t) ==
  /\ seen' = IF held = t THEN [seen EXCEPT ![t].stamp = writes'] ELSE seen
  /\ UNCHANGED held

watched == <<watcher, prev, unseen, due, view, completed>>

\* The user's editor saves a file, by a rename ...
Save(t) ==
  /\ t \notin partial
  /\ \E content \in Contents : Write(t, content)
  /\ Unlinked(t) /\ UNCHANGED <<partial, op, watched, crashes, faults>>

\* ... or in place: for a moment the file is empty.
Empty(t) ==
  /\ files[t] # None /\ t \notin partial /\ Write(t, [status |-> "open", tags |-> {}])
  /\ partial' = partial \cup {t}
  /\ Restamped(t) /\ UNCHANGED <<op, watched, crashes, faults>>

Fill(t) ==
  /\ t \in partial /\ partial' = partial \ {t}
  /\ \E content \in Contents : Write(t, content)
  /\ Restamped(t) /\ UNCHANGED <<op, watched, crashes, faults>>

\* By the user, or by todo.delete, which is a single call.
Remove(t) ==
  /\ files[t] # None /\ files' = [files EXCEPT ![t] = None]
  /\ partial' = partial \ {t}
  /\ Unlinked(t) /\ UNCHANGED <<writes, finished, op, watched, crashes, faults>>

-----------------------------------------------------------------------------
(* The actions *)

Alive == watcher # "gone"
Begin(step) == Alive /\ op = None /\ op' = step /\ UNCHANGED <<disk, scanning, crashes, faults>>

\* todo.create writes a temporary file under another name.
Create(t) == Begin([does |-> "create", todo |-> t])

\* todo.set_status, todo.update: read and compute what to write; a todo that is not
\* there is an error.
SetStatus(t, status) ==
  files[t] # None /\ Begin([does |-> "replace", todo |-> t,
                            with |-> [status |-> status, tags |-> files[t].tags]])

Update(t, tags) ==
  files[t] # None /\ Begin([does |-> "replace", todo |-> t,
                            with |-> [status |-> files[t].status, tags |-> tags]])

\* todo.render_loop_prompt takes the tags of one read and updates from another.
RenderLoopPrompt(t) ==
  /\ files[t] # None /\ "loop" \notin files[t].tags
  /\ Begin([does |-> "tag", todo |-> t, tags |-> files[t].tags \cup {"loop"}])

TagLoop ==
  /\ op # None /\ op.does = "tag"
  /\ op' = IF files[op.todo] = None THEN None
           ELSE [does |-> "replace", todo |-> op.todo,
                 with |-> [status |-> files[op.todo].status, tags |-> op.tags]]
  /\ UNCHANGED <<disk, scanning, crashes, faults>>

\* rename_no_replace of the new file: a file of that name is left, id_exists is the
\* answer.  rename of a changed one: whatever is there is replaced.
Commit ==
  /\ op # None /\ op.does \in {"create", "replace"}
  /\ IF op.does = "replace" THEN Write(op.todo, op.with)
     ELSE IF files[op.todo] = None THEN Write(op.todo, [status |-> "open", tags |-> {}])
     ELSE UNCHANGED <<files, writes, finished>>
  /\ partial' = IF op.does = "replace" THEN partial \ {op.todo} ELSE partial
  /\ IF op.does = "replace" THEN Unlinked(op.todo) ELSE UNCHANGED <<seen, held>>
  /\ op' = None /\ UNCHANGED <<watched, crashes, faults>>

-----------------------------------------------------------------------------
(* The watcher *)

\* `initialized': the first scan is the baseline; nothing is published of it.
Initialized ==
  /\ watcher = "waiting" /\ watcher' = "first" /\ unseen' = Todos /\ seen' = Nothing
  /\ UNCHANGED <<disk, op, prev, held, due, view, completed, crashes, faults>>

Scans == watcher \in {"first", "scanning"} /\ UNCHANGED <<disk, op, due, view, completed, crashes>>

\* One file of scan_root is opened and read ...
ReadFile(t) ==
  /\ Scans /\ held = None /\ t \in unseen /\ unseen' = unseen \ {t}
  /\ held' = IF files[t] = None THEN None ELSE t
  /\ seen' = [seen EXCEPT ![t] = IF files[t] = None THEN None ELSE Snapshot(files[t])]
  /\ UNCHANGED <<watcher, prev, faults>>

\* ... and stat'ed by the same descriptor: `seen' has the time of the last write to it.
StatFile == Scans /\ held # None /\ held' = None /\ UNCHANGED <<watcher, prev, seen, unseen, faults>>

\* A directory or a file that cannot be read, opened or stat'ed is skipped: the scan is
\* taken for the whole all the same.
ScanSkips(skipped) ==
  /\ Scans /\ faults < MaxFaults /\ faults' = faults + 1
  /\ IF held = None THEN skipped # {} /\ skipped \subseteq unseen ELSE skipped = {held}
  /\ unseen' = unseen \ skipped /\ held' = None
  /\ seen' = [t \in Todos |-> IF t \in skipped THEN None ELSE seen[t]]
  /\ UNCHANGED <<watcher, prev>>

Scanned == unseen = {} /\ held = None

\* A follower begins with what the baseline was taken of.
Baseline ==
  /\ watcher = "first" /\ Scanned /\ watcher' = "asleep" /\ prev' = seen
  /\ view' = [t \in Todos |-> IF files[t] = None \/ seen[t] = None THEN None
                              ELSE Content(files[t])]
  /\ UNCHANGED <<disk, op, seen, unseen, held, due, completed, crashes, faults>>

Wake ==
  /\ watcher = "asleep" /\ watcher' = "scanning" /\ unseen' = Todos /\ seen' = Nothing
  /\ UNCHANGED <<disk, op, prev, held, due, view, completed, crashes, faults>>

Mutant_Changed(old, new) == old.status # new.status
Changed(old, new) == old.stamp # new.stamp

Mutant_Completes(old, new) == new.status = "done"
Completes(old, new) == old.status # "done" /\ new.status = "done"

Both(t) == prev[t] # None /\ seen[t] # None

\* diff_and_emit
Compare ==
  /\ watcher = "scanning" /\ Scanned /\ watcher' = "publishing" /\ prev' = seen
  /\ due' = {<<t, "created">> : t \in {t \in Todos : prev[t] = None /\ seen[t] # None}}
       \cup {<<t, "deleted">> : t \in {t \in Todos : prev[t] # None /\ seen[t] = None}}
       \cup {<<t, "changed">> : t \in {t \in Todos : Both(t) /\ Changed(prev[t], seen[t])}}
       \cup {<<t, "completed">> : t \in {t \in Todos :
               Both(t) /\ Changed(prev[t], seen[t]) /\ Completes(prev[t], seen[t])}}
  /\ UNCHANGED <<disk, op, seen, unseen, held, view, completed, crashes, faults>>

Mutant_AfterFault == Nothing

\* A scan whose root cannot be read is given up.
AfterFault == IF watcher = "first" THEN Nothing ELSE prev

ScanFails ==
  /\ Scans /\ unseen = Todos /\ held = None /\ faults < MaxFaults /\ faults' = faults + 1
  /\ watcher' = "asleep" /\ unseen' = {} /\ prev' = AfterFault
  /\ UNCHANGED <<seen, held>>

Payload(t, kind) ==
  IF kind = "deleted" THEN None
  ELSE IF files[t] = None THEN Bare ELSE Content(files[t])

\* Changes first, each read again; `completed' after the same todo's `changed'.
Publish(t, kind) ==
  /\ watcher = "publishing" /\ <<t, kind>> \in due
  /\ kind = "completed" => <<t, "changed">> \notin due
  /\ kind = "deleted" => \A d \in due : d[2] = "deleted"
  /\ due' = due \ {<<t, kind>>}
  /\ view' = [view EXCEPT ![t] = Payload(t, kind)]
  /\ completed' = IF kind = "completed" THEN [completed EXCEPT ![t] = @ + 1] ELSE completed
  /\ UNCHANGED <<disk, op, watcher, prev, seen, unseen, held, crashes, faults>>

Published ==
  /\ watcher = "publishing" /\ due = {} /\ watcher' = "asleep"
  /\ UNCHANGED <<disk, op, prev, seen, unseen, held, due, view, completed, crashes, faults>>

\* `shutdown' or the end of stdin: between two frames, once the watcher is joined.
\* A kill may come at any time.  The next run takes a baseline of its own.
Crash ==
  /\ Alive /\ crashes < MaxCrashes /\ crashes' = crashes + 1 /\ op' = None
  /\ watcher' = "gone" /\ unseen' = {} /\ held' = None /\ due' = {}
  /\ prev' = Nothing /\ seen' = Nothing /\ view' = Nothing /\ UNCHANGED <<disk, completed, faults>>

Restart ==
  /\ watcher = "gone" /\ watcher' = "waiting"
  /\ UNCHANGED <<disk, op, prev, seen, unseen, held, due, view, completed, crashes, faults>>

-----------------------------------------------------------------------------
Watch ==
  \/ Initialized \/ Baseline \/ Wake \/ Compare \/ Published \/ Restart
  \/ StatFile \/ \E t \in Todos : ReadFile(t)
  \/ \E t \in Todos, kind \in {"created", "changed", "completed", "deleted"} : Publish(t, kind)

Next ==
  \/ \E t \in Todos : Save(t) \/ Empty(t) \/ Fill(t) \/ Remove(t)
  \/ \E t \in Todos : \/ Create(t) \/ \E s \in Statuses : SetStatus(t, s)
                      \/ \E tags \in SUBSET AllTags : Update(t, tags)
                      \/ RenderLoopPrompt(t)
  \/ TagLoop \/ Commit \/ Watch \/ Crash
  \/ ScanFails \/ \E skipped \in SUBSET Todos : ScanSkips(skipped)

Fairness == WF_vars(Watch)
Spec == Init /\ [][Next]_vars
FairSpec == Spec /\ Fairness

-----------------------------------------------------------------------------
(* Properties *)

Stamps == [t \in Todos |-> IF files[t] = None THEN None ELSE Snapshot(files[t])]

\* Who follows the events knows every todo as it is in its file, whenever the
\* files are as the last published scan found them: whatever was saved, replaced
\* or removed between a file's scan and its second read.  (watcher.rs
\* diff_and_emit, publish)
FollowerAgrees ==
  watcher = "asleep" /\ prev = Stamps =>
    view = [t \in Todos |-> IF files[t] = None THEN None ELSE Content(files[t])]

\* todo.completed is published at most once for every time the file turned to
\* done: a trigger on it does not post twice.  (watcher.rs "emits todo.created
\* only, NOT todo.completed")
CompletedOnce == \A t \in Todos : completed[t] <= finished[t]

\* A todo that is done, and was open when the watcher last looked, is announced as
\* completed, unless it is reopened or removed first, a scan cannot read it, or the plugin
\* ends: if it was written since the watcher looked at it.  (watcher.rs 134, 173)
DoneUntold(t, n) ==
  /\ watcher = "asleep" /\ prev[t] # None /\ prev[t].status = "open"
  /\ IsDone(files[t]) /\ prev[t].stamp # files[t].stamp /\ completed[t] = n
ToldOrUndone(t, n) ==
  \/ completed[t] > n \/ ~IsDone(files[t])
  \/ prev[t] = None \/ watcher \in {"gone", "waiting", "first"}
CompletionSeen ==
  \A t \in Todos : \A n \in 0..MaxWrites - 1 : DoneUntold(t, n) ~> ToldOrUndone(t, n)

-----------------------------------------------------------------------------
(* What the code does not keep *)

\* A snapshot is of one moment: not of a file that is written in place between the read
\* and the stat, whose new status is then never announced, for its time is known.
\* (watcher.rs 249-252 "to ensure the snapshot is internally consistent")
SnapshotIsConsistent ==
  \A t \in Todos \ unseen :
    held # t /\ seen[t] # None /\ files[t] # None /\ seen[t].stamp = files[t].stamp =>
      seen[t] = Snapshot(files[t])

\* A todo that is done, and was open when the watcher last looked, is announced whatever
\* the scans skip: one that is skipped is announced as deleted, then as created.
CompletionNotSkipped ==
  \A t \in Todos : \A n \in 0..MaxWrites - 1 :
    DoneUntold(t, n) ~> \/ completed[t] > n \/ ~IsDone(files[t])
                        \/ watcher \in {"gone", "waiting", "first"}

\* What the event todo.completed carries is a todo that is done.
CompletedIsDone ==
  [][\A t \in Todos : completed'[t] # completed[t] =>
       view'[t] \notin {None, Bare} /\ view'[t].status = "done"]_vars

\* A file removed while an action replaces it does not come back.
StaysRemoved ==
  [][\A t \in Todos : files[t] = None /\ files'[t] # None /\ op # None => op.does # "replace"]_vars

\* An action writes what it read, with its change: no save between is undone.
NoLostSave ==
  [][\A t \in Todos : op # None /\ op.does = "replace" /\ op.todo = t /\ Commit /\ files[t] # None =>
       files'[t].status = files[t].status \/ files'[t].tags = files[t].tags]_vars
=============================================================================
