------------------------------- MODULE GitPlugin -------------------------------
(***************************************************************************)
(* A git workspace: the plugin's worktree actions, which ask git and then  *)
(* run git, the watcher of .git that publishes how a snapshot differs from *)
(* the one before, and everybody else who uses the repository.             *)
(***************************************************************************)
EXTENDS Naturals, FiniteSets

CONSTANTS
  Branches,
  Main,        \* the branch of the primary checkout at first
  MaxChanges,  \* bound on what others do to the repository
  MaxAdds,     \* bound on git.worktree_add
  None

GitPluginAssumption ==
  /\ Main \in Branches /\ IsFiniteSet(Branches) /\ {MaxChanges, MaxAdds} \subseteq Nat

VARIABLES
  head,        \* branch of the primary checkout
  loose,       \* branches with a file under refs/heads
  packed,      \* branches in packed-refs
  registered,  \* branches with an entry under .git/worktrees
  present,     \* of them, those whose directory is there
  changes,
  add,         \* the git.worktree_add under way
  adds, answer,
  lived,       \* the linked worktrees that were there at some moment of it
  watcher, prev, curr, read,   \* the watcher, its snapshots and what it has read of this one
  view         \* what one who follows the events knows

repo == <<head, loose, packed, registered, present, changes>>
actions == <<add, adds, answer, lived>>
watching == <<watcher, prev, curr, read, view>>
vars == <<repo, actions, watching>>

Parts == {"head", "branches", "worktrees"}
Snapshots == [head : Branches \cup {None}, branches : SUBSET Branches, worktrees : SUBSET Branches]
Exists(b) == b \in loose \cup packed

TypeOK ==
  /\ head \in Branches /\ loose \subseteq Branches /\ packed \subseteq Branches
  /\ present \subseteq registered /\ registered \subseteq Branches
  /\ changes \in 0..MaxChanges /\ adds \in 0..MaxAdds
  /\ add \in [branch : Branches, at : {"list", "check", "validate", "create", "reply"}] \cup {None}
  /\ answer \in [branch : Branches, ok : BOOLEAN, count : 0..MaxAdds] \cup {None}
  /\ lived \subseteq Branches
  /\ watcher \in {"waiting", "first", "asleep", "reading"}
  /\ {prev, curr, view} \subseteq Snapshots /\ read \subseteq Parts

Empty == [head |-> None, branches |-> {}, worktrees |-> {}]

Init ==
  /\ head = Main /\ loose = {Main} /\ packed \in SUBSET (Branches \ {Main})
  /\ registered = {} /\ present = {} /\ changes = 0
  /\ add = None /\ adds = 0 /\ answer = None /\ lived = {}
  /\ watcher = "waiting" /\ prev = Empty /\ curr = Empty /\ read = {} /\ view = Empty

-----------------------------------------------------------------------------
(* Others *)

Change == changes < MaxChanges /\ changes' = changes + 1 /\ UNCHANGED <<actions, watching>>

Branch(b) == /\ ~Exists(b) /\ loose' = loose \cup {b} /\ Change
             /\ UNCHANGED <<head, packed, registered, present>>
\* git does not delete a branch that is checked out.
DeleteBranch(b) ==
  /\ Exists(b) /\ b # head /\ b \notin registered /\ Change
  /\ loose' = loose \ {b} /\ packed' = packed \ {b} /\ UNCHANGED <<head, registered, present>>
Checkout(b) == /\ Exists(b) /\ b \notin registered /\ b # head /\ head' = b /\ Change
               /\ UNCHANGED <<loose, packed, registered, present>>
\* A commit writes the loose file of the branch that is checked out.
Commit(b) == /\ b \in packed \ loose /\ b \in {head} \cup present /\ loose' = loose \cup {b} /\ Change
             /\ UNCHANGED <<head, packed, registered, present>>
\* git gc
Pack == /\ loose # {} /\ packed' = packed \cup loose /\ loose' = {} /\ Change
        /\ UNCHANGED <<head, registered, present>>
AddByHand(b) == /\ ~Exists(b) /\ changes < MaxChanges /\ changes' = changes + 1
                /\ loose' = loose \cup {b}
                /\ registered' = registered \cup {b} /\ present' = present \cup {b}
                /\ lived' = IF add = None THEN lived ELSE lived \cup {b}
                /\ UNCHANGED <<head, packed, add, adds, answer, watching>>
RemoveDirectory(b) == /\ b \in present /\ present' = present \ {b} /\ Change
                      /\ UNCHANGED <<head, loose, packed, registered>>
Prune == /\ registered # present /\ registered' = present /\ Change
         /\ UNCHANGED <<head, loose, packed, present>>

-----------------------------------------------------------------------------
(* The actions *)

WorktreeAdd(b) ==
  /\ add = None /\ adds < MaxAdds /\ adds' = adds + 1
  /\ add' = [branch |-> b, at |-> "list"] /\ lived' = present /\ UNCHANGED <<repo, answer, watching>>

Answer(ok) ==
  /\ add' = None /\ answer' = [branch |-> add.branch, ok |-> ok, count |-> adds] /\ lived' = {}
GoTo(step) == add' = [add EXCEPT !.at = step] /\ UNCHANGED <<answer, lived>>
At(step) == add # None /\ add.at = step /\ UNCHANGED <<adds, watching>>

\* git worktree list: an entry whose directory is gone is not always said to be
\* prunable (never of a locked one), and a listing that fails is as good as none.
List ==
  /\ At("list") /\ UNCHANGED repo
  /\ \/ add.branch \in registered \cup {head} /\ GoTo("check")
     \/ GoTo("create")

Mutant_HasWorktree(b) == b \in registered
\* Its directory is there, and it is not the primary checkout.
HasWorktree(b) == b \in present /\ b # head

Check == /\ At("check") /\ UNCHANGED repo
         /\ GoTo(IF HasWorktree(add.branch) THEN "validate" ELSE "create")

\* What is there already is the answer, from inside worktree_root and not through a
\* link: its directory is not looked for again.
Validate == At("validate") /\ UNCHANGED repo /\ \E ok \in BOOLEAN : Answer(ok)

\* git worktree add <target> -b <branch>
Create ==
  /\ At("create") /\ UNCHANGED <<head, packed, changes>>
  /\ \/ /\ ~Exists(add.branch) /\ add.branch \notin registered
        /\ loose' = loose \cup {add.branch}
        /\ registered' = registered \cup {add.branch} /\ present' = present \cup {add.branch}
        /\ add' = [add EXCEPT !.at = "reply"] /\ lived' = lived \cup {add.branch}
        /\ UNCHANGED answer
     \/ Answer(FALSE) /\ UNCHANGED <<loose, registered, present>>  \* or no such base

Reply == At("reply") /\ UNCHANGED repo /\ Answer(TRUE)

\* git worktree remove: the branch stays.
WorktreeRemove(b) ==
  /\ add = None /\ b \in registered
  /\ registered' = registered \ {b} /\ present' = present \ {b}
  /\ UNCHANGED <<head, loose, packed, changes, actions, watching>>

-----------------------------------------------------------------------------
(* The watcher *)

Begin(step) == watcher' = step /\ read' = {} /\ curr' = Empty

Initialized == watcher = "waiting" /\ Begin("first") /\ UNCHANGED <<repo, actions, prev, view>>
Wake == watcher = "asleep" /\ Begin("reading") /\ UNCHANGED <<repo, actions, prev, view>>

\* HEAD, then refs/heads, then worktrees.
ReadHead == "head" \notin read /\ curr' = [curr EXCEPT !.head = head] /\ read' = {"head"}
ReadBranches ==
  /\ read = {"head"} /\ curr' = [curr EXCEPT !.branches = loose]
  /\ read' = read \cup {"branches"}
ReadWorktrees ==
  /\ read = {"head", "branches"} /\ curr' = [curr EXCEPT !.worktrees = registered]
  /\ read' = Parts

Reading ==
  /\ watcher \in {"first", "reading"} /\ (ReadHead \/ ReadBranches \/ ReadWorktrees)
  /\ UNCHANGED <<repo, actions, watcher, prev, view>>

\* git rev-parse fails: the snapshot is of nothing.
Fails ==
  /\ watcher = "reading" /\ read = {} /\ changes < MaxChanges /\ changes' = changes + 1
  /\ read' = Parts /\ curr' = Empty
  /\ UNCHANGED <<head, loose, packed, registered, present, actions, watcher, prev, view>>

\* The baseline is not published; a follower begins with it.
Baseline ==
  /\ watcher = "first" /\ read = Parts /\ watcher' = "asleep" /\ prev' = curr /\ view' = curr
  /\ UNCHANGED <<repo, actions, curr, read>>

Mutant_Compared == IF curr.head = prev.head THEN curr ELSE prev
\* The snapshot the next one is compared with.
Compared == curr

\* diff: a HEAD that cannot be read is not published.
Publish ==
  /\ watcher = "reading" /\ read = Parts /\ watcher' = "asleep" /\ prev' = Compared
  /\ view' = [head |-> IF prev.head # curr.head /\ curr.head # None THEN curr.head ELSE view.head,
              branches |-> (view.branches \cup (curr.branches \ prev.branches))
                             \ (prev.branches \ curr.branches),
              worktrees |-> (view.worktrees \cup (curr.worktrees \ prev.worktrees))
                             \ (prev.worktrees \ curr.worktrees)]
  /\ UNCHANGED <<repo, actions, curr, read>>

-----------------------------------------------------------------------------
Watch == Initialized \/ Wake \/ Reading \/ Baseline \/ Publish

Next ==
  \/ \E b \in Branches : Branch(b) \/ DeleteBranch(b) \/ Checkout(b) \/ Commit(b)
                         \/ AddByHand(b) \/ RemoveDirectory(b)
  \/ Pack \/ Prune
  \/ \E b \in Branches : WorktreeAdd(b) \/ WorktreeRemove(b)
  \/ List \/ Check \/ Validate \/ Create \/ Reply \/ Watch \/ Fails

Fairness == WF_vars(Watch)
Spec == Init /\ [][Next]_vars
FairSpec == Spec /\ Fairness

-----------------------------------------------------------------------------
(* Properties *)

\* Whatever others do between two reads of a snapshot, and whatever snapshots fail,
\* who follows the events ends up knowing the worktrees and the branch that is
\* checked out, once they stay as they are.  (watcher.rs run_one, diff)
Agrees(b) ==
  /\ b \in registered <=> b \in view.worktrees
  /\ head = b => view.head = b
FollowerCatchesUp == \A b \in Branches : <>[]Agrees(b)

\* Whatever others change between its steps, git.worktree_add answers with a worktree
\* whose directory, which is not the user's primary checkout, was there at some
\* moment of the call: what claude.start opens a tab in is never one that git only has
\* on its list, nor the primary checkout.  (main.rs action_worktree_add)
LiveAnswer == answer' # answer /\ answer'.ok => answer'.branch \in lived
AnswersLiveWorktree == [][LiveAnswer]_vars

-----------------------------------------------------------------------------
(* What the code does not keep *)

\* A branch that is there is not announced as deleted: after git gc every one is, and
\* after a failing git rev-parse all branches and worktrees are.  (watcher.rs
\* snapshot, collect_refs; docs/decisions.md:551 accepts the first)
DeletedIsGone == [][\A b \in view.branches \ view'.branches : ~Exists(b)]_vars
RemovedIsGone == [][\A b \in view.worktrees \ view'.worktrees : b \notin registered]_vars

\* It is there when the answer is: not if another removes it after the look at its
\* directory or after git made it.  (main.rs 297, 365, 394-410)
ThereWhenAnswered == [][answer' # answer /\ answer'.ok => answer'.branch \in present]_vars

\* A worktree that was removed can be added again: its branch is still there.
\* (git.rs worktree_add -b)
ReaddedAfterRemoval ==
  [][answer' # answer /\ ~answer'.ok => answer'.branch \in registered \cup {head}]_vars
=============================================================================
