--------------------------- MODULE RequestContract ---------------------------
(***************************************************************************)
(* What the action registry of nestty-core promises for each request that  *)
(* names a registered action: it is announced on the bus at most once, it  *)
(* is answered only after its announcement (if its action is announced at  *)
(* all), and unless its handler panics it is answered.  The pool, the      *)
(* threads and their queue do not appear.                                  *)
(***************************************************************************)
EXTENDS Sequences

CONSTANTS Requests, Actions

VARIABLES
  stage,    \* request -> new, pending, announced, answered, lost, unknown
  action,   \* request -> the action it names
  silent,   \* request -> its action was registered without announcements
  events    \* the announcements made, oldest first

vars == <<stage, action, silent, events>>

Init ==
  /\ stage = [r \in Requests |-> "new"]
  /\ action \in [Requests -> Actions]
  /\ silent = [r \in Requests |-> FALSE]
  /\ events = <<>>

Accept(r) ==
  /\ stage[r] = "new"
  /\ stage' = [stage EXCEPT ![r] = "pending"]
  /\ \E s \in BOOLEAN : silent' = [silent EXCEPT ![r] = s]
  /\ UNCHANGED <<action, events>>

\* The action is not registered: nothing will happen.
Refuse(r) ==
  /\ stage[r] = "new"
  /\ stage' = [stage EXCEPT ![r] = "unknown"]
  /\ UNCHANGED <<action, silent, events>>

Announce(r) ==
  /\ stage[r] = "pending"
  /\ stage' = [stage EXCEPT ![r] = "announced"]
  /\ IF silent[r]
     THEN events' = events
     ELSE \E k \in {"completed", "failed"} :
            events' = Append(events, [req |-> r, action |-> action[r], kind |-> k])
  /\ UNCHANGED <<action, silent>>

Answer(r) ==
  /\ stage[r] = "announced"
  /\ stage' = [stage EXCEPT ![r] = "answered"]
  /\ UNCHANGED <<action, silent, events>>

\* The handler panicked.
Lose(r) ==
  /\ stage[r] = "pending"
  /\ stage' = [stage EXCEPT ![r] = "lost"]
  /\ UNCHANGED <<action, silent, events>>

Settle(r) == Announce(r) \/ Answer(r) \/ Lose(r)

Next == \E r \in Requests : Accept(r) \/ Refuse(r) \/ Settle(r)

Spec == Init /\ [][Next]_vars

FairSpec == Spec /\ \A r \in Requests : WF_vars(Settle(r))
=============================================================================
