--------------------------------- MODULE Relay ---------------------------------
(***************************************************************************)
(* A request's way through window and daemon.  The thread of a connection  *)
(* to the window hands it to the GTK thread, which answers it or has a     *)
(* small pool forward it to the daemon; the thread of a connection to the  *)
(* daemon calls the registry or invokes the window, whose pool of invoke   *)
(* workers hands it to the GTK thread.  Every place waits for the next in  *)
(* a channel of its own; the places of one request are its hops.           *)
(***************************************************************************)
EXTENDS Naturals, Sequences, FiniteSets

CONSTANTS
  Connections,  \* of clients
  Door,         \* [Connections -> "window" or "daemon"]: whose socket
  Asked,        \* [Connections -> sets of sequences of methods], sent without waiting
  MaxRequests,  \* in such a sequence
  MaxHops,      \* bound on the way of one request
  Workers, Queue   \* of the forward pool and of the invoke pool

\* "window": handled by the window, answered through reply_with_completion;
\* "bare": handled by the window, answered without it; "daemon": in the daemon's
\* registry; "stray": named like a method of the window, which does not know it;
\* "unknown": known to nobody.
Methods == {"window", "bare", "daemon", "stray", "unknown"}

RelayAssumption ==
  /\ Door \in [Connections -> {"window", "daemon"}]
  /\ \A c \in Connections : 
       Asked[c] \subseteq Seq(Methods) /\ \A a \in Asked[c] : Len(a) <= MaxRequests
  /\ {MaxHops, Workers, Queue} \subseteq Nat \ {0}

VARIABLES
  asked,        \* per connection the methods of its requests
  served,       \* requests its thread has taken up
  answers,      \* what it wrote back: whose answer, and the answer
  closed,       \* connections closed by their thread
  hops,         \* per request its hops, the first one first
  completions,  \* history: completion events about the request
  daemonUp

vars == <<asked, served, answers, closed, hops, completions, daemonUp>>

Requests == UNION {{<<c, j>> : j \in DOMAIN asked[c]} : c \in Connections}
Method(r) == asked[r[1]][r[2]]
Errors == {"overloaded", "timeout", "no_daemon", "no_gui", "unknown_method"}
Answers == {"ok", "none"} \cup Errors     \* "none": the reply was dropped unsent
Places == {"window", "forward", "daemon", "invoke"}
Hop == [at : Places, state : {"queued", "busy", "waiting", "done"}, says : Answers]

TypeOK ==
  /\ asked \in [Connections -> Seq(Methods)]
  /\ \A c \in Connections : asked[c] \in Asked[c] /\ served[c] <= Len(asked[c])
  /\ served \in [Connections -> Nat]
  /\ answers \in [Connections -> Seq(Requests \X Answers)]
  /\ closed \subseteq Connections
  /\ hops \in [Requests -> Seq(Hop)] /\ \A r \in Requests : Len(hops[r]) <= MaxHops
  /\ completions \in [Requests -> Nat] /\ daemonUp \in BOOLEAN

Init ==
  /\ asked \in {f \in [Connections -> UNION {Asked[c] : c \in Connections}] :
                 \A c \in Connections : f[c] \in Asked[c]}
  /\ served = [c \in Connections |-> 0]
  /\ answers = [c \in Connections |-> <<>>] /\ closed = {}
  /\ hops = [r \in Requests |-> <<>>] /\ completions = [r \in Requests |-> 0]
  /\ daemonUp \in BOOLEAN

-----------------------------------------------------------------------------
(* Hops *)

At(r, i, place, state) ==
  hops[r][i].at = place /\ hops[r][i].state = state

Last(r, i) == i = Len(hops[r])

New(place, state) == [at |-> place, state |-> state, says |-> "none"]
Said(place, answer) == [at |-> place, state |-> "done", says |-> answer]

\* Hop i ends with an answer.
Answer(r, i, answer) ==
  hops' = [hops EXCEPT ![r][i] = Said(@.at, answer)]

\* Hop i waits for a new one.
PassOn(r, i, next) ==
  /\ Len(hops[r]) < MaxHops
  /\ hops' = [hops EXCEPT ![r] = Append([@ EXCEPT ![i].state = "waiting"], next)]

Occupying(place, states) ==
  Cardinality(UNION {{<<r, i>> : i \in {i \in DOMAIN hops[r] :
      hops[r][i].at = place /\ hops[r][i].state \in states}} : r \in Requests})

\* ThreadPool::try_execute, with the cancel of a job it refuses.
Submitted(place) ==
  IF Occupying(place, {"queued"}) < Queue THEN New(place, "queued")
                                          ELSE Said(place, "overloaded")

\* A worker of the pool is free for hop i.
Picks(r, i, place) ==
  At(r, i, place, "queued") /\ Occupying(place, {"busy", "waiting"}) < Workers

-----------------------------------------------------------------------------
(* The connection's thread *)

Idle(c) == served[c] = Len(answers[c])

\* One request at a time: to the GTK thread, or to the daemon's dispatch.
TakeUp(c) ==
  /\ c \notin closed /\ Idle(c) /\ served[c] < Len(asked[c])
  /\ Door[c] = "daemon" => daemonUp
  /\ served' = [served EXCEPT ![c] = @ + 1]
  /\ hops' = [hops EXCEPT ![<<c, served[c] + 1>>] =
                <<New(Door[c], IF Door[c] = "window" THEN "queued" ELSE "busy")>>]
  /\ UNCHANGED <<asked, answers, closed, completions, daemonUp>>

\* One channel for all requests of a connection: what any of them was answered.
Mutant_Heard(c) ==
  {<<r, hops[r][1].says>> : r \in {<<c, j>> : j \in {j \in 1..served[c] :
                                      hops[<<c, j>>][1].state = "done"}}}

\* The channel of the request being served.
Heard(c) ==
  {<<r, hops[r][1].says>> : r \in {r \in {<<c, served[c]>>} : hops[r][1].state = "done"}}

\* The answer is written; a reply that was dropped closes the connection.
WriteBack(c) ==
  /\ c \notin closed /\ ~Idle(c)
  /\ \E heard \in Heard(c) :
       IF heard[2] = "none"
       THEN closed' = closed \cup {c} /\ UNCHANGED answers
       ELSE answers' = [answers EXCEPT ![c] = Append(@, heard)] /\ UNCHANGED closed
  /\ UNCHANGED <<asked, served, hops, completions, daemonUp>>

-----------------------------------------------------------------------------
(* The window: socket.rs dispatch and gui_client.rs handle_invoke *)

Mutant_Silent(r, i) == FALSE

\* silent_completion: the request came as an invoke.
Silent(r, i) == i > 1

Complete(r, publish) ==
  completions' = IF publish THEN [completions EXCEPT ![r] = @ + 1] ELSE completions

\* A method of the window, answered at once or by a callback; a callback may be
\* dropped with its reply.
WindowHandles(r, i) ==
  /\ At(r, i, "window", "queued") /\ Method(r) \in {"window", "bare"}
  /\ hops' = [hops EXCEPT ![r][i].state = "busy"]
  /\ UNCHANGED <<asked, served, answers, closed, completions, daemonUp>>

WindowAnswers(r, i) ==
  /\ At(r, i, "window", "busy")
  /\ \E answer \in {"ok", "none"} :
       /\ Answer(r, i, answer)
       /\ Complete(r, answer = "ok" /\ Method(r) = "window" /\ ~Silent(r, i))
  /\ UNCHANGED <<asked, served, answers, closed, daemonUp>>

\* Whatever the window does not know is for the daemon.
WindowForwards(r, i) ==
  /\ At(r, i, "window", "queued") /\ Method(r) \notin {"window", "bare"}
  /\ PassOn(r, i, Submitted("forward"))
  /\ UNCHANGED <<asked, served, answers, closed, completions, daemonUp>>

\* ForwardJob::run: a connection of its own.
Forward(r, i) ==
  /\ Picks(r, i, "forward")
  /\ IF daemonUp THEN PassOn(r, i, New("daemon", "busy"))
                 ELSE Answer(r, i, "no_daemon")
  /\ UNCHANGED <<asked, served, answers, closed, completions, daemonUp>>

\* handle_invoke on a worker of the GUI client.
RunInvoke(r, i) ==
  /\ Picks(r, i, "invoke") /\ PassOn(r, i, New("window", "queued"))
  /\ UNCHANGED <<asked, served, answers, closed, completions, daemonUp>>

-----------------------------------------------------------------------------
(* The daemon: socket.rs dispatch *)

\* Into the registry, whose action may take any time.
DispatchViaRegistry(r, i) ==
  /\ At(r, i, "daemon", "busy") /\ Method(r) = "daemon"
  /\ hops' = [hops EXCEPT ![r][i].state = "waiting"]
  /\ UNCHANGED <<asked, served, answers, closed, completions, daemonUp>>

ActionEnds(r, i) ==
  /\ At(r, i, "daemon", "waiting") /\ Method(r) = "daemon"
  /\ Answer(r, i, "ok") /\ Complete(r, TRUE)
  /\ UNCHANGED <<asked, served, answers, closed, daemonUp>>

\* A name with a window's capability is the window's, also when the window sent it.
DispatchViaGui(r, i) ==
  /\ At(r, i, "daemon", "busy") /\ Method(r) \in {"window", "bare", "stray"}
  /\ PassOn(r, i, Submitted("invoke"))
  /\ UNCHANGED <<asked, served, answers, closed, completions, daemonUp>>

DispatchUnknown(r, i) ==
  /\ At(r, i, "daemon", "busy") /\ Method(r) = "unknown"
  /\ Answer(r, i, "unknown_method")
  /\ UNCHANGED <<asked, served, answers, closed, completions, daemonUp>>

Mutant_TimesOut(r, i) == At(r, i, "daemon", "waiting") /\ Method(r) # "daemon"

\* The invoke and the registry call have timeouts, shorter than any before them.
TimesOut(r, i) == At(r, i, "daemon", "waiting")

DaemonTimesOut(r, i) ==
  /\ TimesOut(r, i) /\ Answer(r, i, "timeout") /\ Complete(r, Method(r) # "daemon")
  /\ UNCHANGED <<asked, served, answers, closed, daemonUp>>

-----------------------------------------------------------------------------
\* A hop that waits takes the answer of the next.  The daemon announces what its
\* window answered; a reply the window dropped is an error of the invoke worker.
Return(r, i) ==
  /\ hops[r][i].state = "waiting" /\ i < Len(hops[r])
  /\ hops[r][i + 1].state = "done"
  /\ LET answer == hops[r][i + 1].says IN
       Answer(r, i, IF hops[r][i].at = "invoke" /\ answer = "none" THEN "timeout" ELSE answer)
  /\ Complete(r, hops[r][i].at = "daemon")
  /\ UNCHANGED <<asked, served, answers, closed, daemonUp>>

\* The daemon goes: its connections end, its threads with them.
DaemonEnds ==
  /\ daemonUp /\ daemonUp' = FALSE
  /\ hops' = [r \in Requests |-> [i \in DOMAIN hops[r] |->
                IF hops[r][i].at = "daemon" /\ hops[r][i].state # "done"
                THEN Said("daemon", IF i = 1 THEN "none" ELSE "no_daemon") ELSE hops[r][i]]]
  /\ UNCHANGED <<asked, served, answers, closed, completions>>

Step(r, i) ==
  \/ WindowHandles(r, i) \/ WindowAnswers(r, i) \/ WindowForwards(r, i)
  \/ Forward(r, i) \/ RunInvoke(r, i)
  \/ DispatchViaRegistry(r, i) \/ DispatchViaGui(r, i) \/ DispatchUnknown(r, i)
  \/ Return(r, i)

Work(r) == r \in Requests /\ \E i \in DOMAIN hops[r] : Step(r, i)
Expire(r) == r \in Requests /\ \E i \in DOMAIN hops[r] : DaemonTimesOut(r, i)

Next ==
  \/ \E c \in Connections : TakeUp(c) \/ WriteBack(c)
  \/ \E r \in Requests :
       Work(r) \/ Expire(r) \/ \E i \in DOMAIN hops[r] : ActionEnds(r, i)
  \/ DaemonEnds

Fairness ==
  /\ \A c \in Connections : WF_vars(TakeUp(c)) /\ WF_vars(WriteBack(c))
  /\ \A c \in Connections : \A j \in 1..MaxRequests :
       WF_vars(Work(<<c, j>>)) /\ WF_vars(Expire(<<c, j>>))

Spec == Init /\ [][Next]_vars
FairSpec == Spec /\ Fairness

-----------------------------------------------------------------------------
(* Properties *)

\* The j-th answer on a connection is the answer of its j-th request, also after
\* requests that timed out and were answered later.  (socket.rs
\* dispatch_via_registry "per request", linux socket.rs reply_tx)
OwnAnswers ==
  \A c \in Connections : \A j \in DOMAIN answers[c] : answers[c][j][1] = <<c, j>>

\* What a window method was answered has been announced exactly once, on whichever
\* side it was asked for.  (gui_client.rs handle_invoke "GUI-side triggers see
\* exactly one completion event")
AnnouncedOnce ==
  \A c \in Connections : \A j \in DOMAIN answers[c] :
    asked[c][j] = "window" => completions[<<c, j>>] = 1

\* Every request is answered or its connection closed, whatever the actions do.
\* (linux socket.rs 159-176, daemon_forward.rs, daemon socket.rs 987-1014)
Served(c) ==
  \/ c \in closed \/ Len(answers[c]) = Len(asked[c])
  \/ Door[c] = "daemon" /\ ~daemonUp
AllAnswered == \A c \in Connections : <>Served(c)

-----------------------------------------------------------------------------
(* What the documents say and the code does not keep *)

\* "Unknown method? -> error.code = unknown_method" (docs/gui-daemon-protocol.md
\* 366): a stray name goes from window to daemon and back until a pool is full or
\* a timeout strikes.
StrayIsRefused ==
  \A c \in Connections : \A j \in DOMAIN answers[c] :
    asked[c][j] = "stray" => answers[c][j][2] \in {"unknown_method", "no_daemon", "no_gui"}

\* "every reply funnels through `cmd.reply_with_completion`" (linux socket.rs 234)
AllAnnounced ==
  \A c \in Connections : \A j \in DOMAIN answers[c] :
    asked[c][j] \in {"window", "bare"} => completions[<<c, j>>] = 1
=============================================================================
