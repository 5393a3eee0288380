------------------------------ MODULE JiraPlugin ------------------------------
(***************************************************************************)
(* The jira plugin's poller: every tick searches the tickets of a window,  *)
(* compares each with the snapshot of the tick before, and publishes the   *)
(* assignments, status changes and comments it finds.  The search lags     *)
(* behind the tickets, and one answer may be older than the one before.    *)
(***************************************************************************)
EXTENDS Integers, FiniteSets, FiniteSetsExt

CONSTANTS
  Tickets, Statuses, Accounts,
  MaxComments,  \* bound on comments; their ids are in the order of creation
  MaxChanges,   \* bound on the other changes to tickets and credentials
  Inline,       \* comments that a search returns of a ticket
  Pages,        \* tickets that MAX_PAGES pages hold
  Cap,          \* DEDUPE_CAP
  None

JiraAssumption ==
  /\ {MaxComments, MaxChanges, Cap} \subseteq Nat /\ {Inline, Pages} \subseteq Nat \ {0}
  /\ None \notin Accounts

Comments == 1..MaxComments
Issues == [status : Statuses, assignee : Accounts \cup {None}, comments : SUBSET Comments, recent : BOOLEAN]

VARIABLES
  issue, before,  \* [Tickets -> Issues]: a ticket, and as it was before its last change
  made,           \* comments created so far
  creds,          \* the account of the credentials, or None
  identity,       \* my_account_id with its signature, or None
  snapshots,      \* [Tickets -> status, assignee and watermark, or None]
  firedComments,  \* fired_comments
  told,           \* history: [Tickets -> account its assignment was last published for, or None]
  baseline,       \* history: [Tickets -> the watermark of the first sight]
  seen,           \* history: [Tickets -> comments that a search has shown since]
  announced,      \* history: [Comments -> times published]
  changed,        \* history: [Tickets -> status that was last published or first seen]
  changes

jira == <<issue, before, made>>
state == <<identity, snapshots, firedComments>>
history == <<told, baseline, seen, announced, changed>>
vars == <<jira, creds, state, history, changes>>

Snapshots == [status : Statuses, assignee : Accounts \cup {None}, water : 0..MaxComments]

TypeOK ==
  /\ {issue, before} \subseteq [Tickets -> Issues] /\ made \in 0..MaxComments
  /\ {creds, identity} \subseteq Accounts \cup {None}
  /\ snapshots \in [Tickets -> Snapshots \cup {None}] /\ firedComments \subseteq Comments
  /\ told \in [Tickets -> Accounts \cup {None}] /\ baseline \in [Tickets -> 0..MaxComments]
  /\ seen \in [Tickets -> SUBSET Comments] /\ announced \in [Comments -> Nat]
  /\ changed \in [Tickets -> Statuses \cup {None}] /\ changes \in 0..MaxChanges

Init ==
  /\ issue \in [Tickets -> [status : Statuses, assignee : Accounts \cup {None}, comments : {{}},
                            recent : BOOLEAN]]
  /\ before = issue /\ made = 0 /\ creds \in Accounts \cup {None} /\ identity = None
  /\ snapshots = [t \in Tickets |-> None] /\ firedComments = {}
  /\ told = [t \in Tickets |-> None] /\ baseline = [t \in Tickets |-> 0]
  /\ seen = [t \in Tickets |-> {}] /\ announced = [c \in Comments |-> 0]
  /\ changed = [t \in Tickets |-> None] /\ changes = 0

-----------------------------------------------------------------------------
(* A tick *)

LatestOf(cs) == IF cs = {} THEN 0 ELSE Max(cs)

\* The comments of a ticket that a search carries: the last ones.
Shown(i) == {c \in i.comments : Cardinality({d \in i.comments : d > c}) < Inline}

Mutant_Kept == snapshots
\* Snapshots of another identity are dropped; what was published of comments stays.
Kept == IF identity # creds THEN [t \in Tickets |-> None] ELSE snapshots

Mutant_IsNew(c, water) == c > water
IsNew(c, water) == c > water /\ c \notin firedComments

\* process_ticket, first sight: an assignment, and the watermark of its comments.
First(i) == [status |-> i.status, assignee |-> i.assignee, water |-> LatestOf(Shown(i))]

\* Seen before: its watermark is that of the comments shown, where there are any.
Again(i, s) ==
  [status |-> i.status, assignee |-> i.assignee,
   water |-> IF Shown(i) = {} THEN s.water ELSE LatestOf(Shown(i))]

\* The assignment is published at first sight, and when the ticket came to be mine.
Assigns(i, s) == i.assignee = creds /\ (s = None \/ s.assignee # creds)

Mutant_NewComments(i, s) ==
  IF s = None THEN {} ELSE {c \in Shown(i) : IsNew(c, Again(i, s).water)}
NewComments(i, s) == IF s = None THEN {} ELSE {c \in Shown(i) : IsNew(c, s.water)}

\* A search that answers: each ticket as it is or as it was, those of the window, as
\* many as the pages hold.  What is not found is forgotten unless the pages ran out.
Tick ==
  /\ creds # None
  /\ \E v \in [Tickets -> BOOLEAN] :
       LET at == [t \in Tickets |-> IF v[t] THEN issue[t] ELSE before[t]]
           listed == {t \in Tickets : at[t].recent}
       IN \E found \in {f \in SUBSET listed : Cardinality(f) = Min({Pages, Cardinality(listed)})} :
            LET fresh == UNION {NewComments(at[t], Kept[t]) : t \in found}
                all == firedComments \cup fresh
            IN /\ identity' = creds
               /\ snapshots' = [t \in Tickets |->
                    IF t \in found THEN IF Kept[t] = None THEN First(at[t]) ELSE Again(at[t], Kept[t])
                    ELSE IF found = listed THEN None ELSE Kept[t]]
               /\ firedComments' = IF Cardinality(all) > Cap THEN {} ELSE all
               /\ announced' = [c \in Comments |-> announced[c] + (IF c \in fresh THEN 1 ELSE 0)]
               /\ told' = [t \in Tickets |->
                    IF t \notin found THEN told[t]
                    ELSE IF Assigns(at[t], Kept[t]) THEN creds
                    ELSE IF at[t].assignee # creds THEN None ELSE told[t]]
               /\ baseline' = [t \in Tickets |->
                    IF t \in found /\ Kept[t] = None THEN LatestOf(Shown(at[t])) ELSE baseline[t]]
               /\ seen' = [t \in Tickets |->
                    IF t \notin found THEN seen[t]
                    ELSE IF Kept[t] = None THEN Shown(at[t]) ELSE seen[t] \cup Shown(at[t])]
               /\ changed' = [t \in Tickets |-> IF t \in found THEN at[t].status ELSE changed[t]]
  /\ UNCHANGED <<jira, creds, changes>>

-----------------------------------------------------------------------------
(* Jira, the user *)

Change(t, i) ==
  /\ issue' = [issue EXCEPT ![t] = i] /\ before' = [before EXCEPT ![t] = issue[t]]

Comment(t) ==
  /\ made < MaxComments /\ made' = made + 1
  /\ Change(t, [issue[t] EXCEPT !.comments = @ \cup {made + 1}, !.recent = TRUE])
  /\ UNCHANGED <<creds, state, history, changes>>

Edit(t) ==
  /\ changes < MaxChanges /\ changes' = changes + 1
  /\ \/ \E s \in Statuses : s # issue[t].status /\ Change(t, [issue[t] EXCEPT !.status = s, !.recent = TRUE])
     \/ \E a \in Accounts \cup {None} :
          a # issue[t].assignee /\ Change(t, [issue[t] EXCEPT !.assignee = a, !.recent = TRUE])
     \/ \E c \in issue[t].comments : Change(t, [issue[t] EXCEPT !.comments = @ \ {c}, !.recent = TRUE])
     \/ issue[t].recent /\ Change(t, [issue[t] EXCEPT !.recent = FALSE])
  /\ UNCHANGED <<made, creds, state, history>>

\* `auth', for this account or another, while the plugin runs.
Auth ==
  /\ changes < MaxChanges /\ changes' = changes + 1
  /\ \E a \in Accounts : a # creds /\ creds' = a
  /\ UNCHANGED <<jira, state, history>>

-----------------------------------------------------------------------------
Next == Tick \/ Auth \/ \E t \in Tickets : Comment(t) \/ Edit(t)

Spec == Init /\ [][Next]_vars

-----------------------------------------------------------------------------
(* Properties *)

\* In one run of the plugin, however answers of different age follow each other, a
\* comment is published once, as long as the set of those published is not dropped (a
\* plugin started again has a set of its own).  (poller.rs emit_comment_events)
OncePerComment == made <= Cap => \A c \in Comments : announced[c] <= 1

\* In one run of the plugin, a comment that a search has shown, later than those of the
\* first sight, and that still is, was published, whatever was deleted and however answers
\* of different age follow each other, as long as a search carries every comment.
\* (docs/roadmap.md:510 "robust against arbitrary add/delete patterns")
SeenIsAnnounced == made <= Inline =>
  \A t \in Tickets : snapshots[t] # None =>
    \A c \in seen[t] \cap issue[t].comments : c > baseline[t] => announced[c] > 0

\* In one run of the plugin, a ticket known to be mine was published as assigned to me
\* since it last was not.
\* (poller.rs process_ticket, resolve_my_account_id)
MineIsAnnounced ==
  \A t \in Tickets :
    snapshots[t] # None /\ identity # None /\ snapshots[t].assignee = identity => told[t] = identity

-----------------------------------------------------------------------------
(* What the code does not keep *)

\* A change of status that a ticket came back into the window with is not published.
StatusArrives == [][\A t \in Tickets : changed[t] # None /\ changed'[t] # changed[t] => snapshots[t] # None]_vars

\* With more comments than a search carries, those between two ticks are lost; when a
\* later one is deleted they are shown, and older than the watermark (poller.rs:346).
SeenIsAnnouncedOfAll ==
  \A t \in Tickets : snapshots[t] # None =>
    \A c \in seen[t] \cap issue[t].comments : c > baseline[t] => announced[c] > 0

\* Every comment that is shown is published, in the end: those of a first sight are
\* not, though the comment is what brought the ticket into the window.
ShownIsPublished == \A t \in Tickets : \A c \in seen[t] : announced[c] > 0
=============================================================================
