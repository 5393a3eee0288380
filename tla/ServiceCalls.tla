----------------------------- MODULE ServiceCalls -----------------------------
(***************************************************************************)
(* What running services and the supervisor say to each other: a service    *)
(* writes requests (action.invoke), answers and notifications on its        *)
(* standard output; one reader thread per service takes them up line by     *)
(* line, and a request is carried out by a worker thread of its own, for    *)
(* the action may be one of another service or of the very same one, whose  *)
(* answer the same reader has to take up.  How a service is started, and    *)
(* the steps within one call of it, are ServiceSupervisor's subject; here a *)
(* call is admitted and sent in one step.                                   *)
(*                                                                         *)
(* A call is <<c, k>>: the k-th of chain c, made by the service that serves *)
(* the one before it; the first is a client's.                              *)
(***************************************************************************)
EXTENDS Naturals, Sequences, FiniteSets

CONSTANTS
  Services,
  Chains,       \* [names -> Seq(Services)]: who serves the calls of a chain
  Odd,          \* lines no service should write, as parse_inbound looks at them
  WaiterMax,    \* waiter_max
  MaxFaults     \* bound: calls that time out, processes that end and odd lines, together

Calls == UNION {{c} \X (DOMAIN Chains[c]) : c \in DOMAIN Chains}

(* What no service should write is of no call of the chains, and no event.   *)
ServiceCallsAssumption ==
  /\ \A c \in DOMAIN Chains : Chains[c] \in Seq(Services) /\ Chains[c] # <<>>
  /\ \A raw \in Odd : raw.call \notin Calls /\ raw.method # "event.publish"
  /\ {WaiterMax, MaxFaults} \subseteq Nat

Callee(x) == Chains[x[1]][x[2]]
IsFirst(x) == x[2] = 1
Parent(x) == <<x[1], x[2] - 1>>
Child(x) == <<x[1], x[2] + 1>>
IsLast(x) == x[2] = Len(Chains[x[1]])
Caller(x) == Callee(Parent(x))

VARIABLES
  up,        \* a service's process: "up", "dead" while handle_exit has not cleared it, "joining" or
             \* "deaf" while it waits for the forwarder threads, or "down"
  run,       \* how often it was started
  stdin, stdout,
  at,        \* a call: "new", "asked", "worker", "waiting", "answered", "done", "over"
  outcome,
  pending,   \* [Services -> calls in pending_responses]
  waiters,   \* waiter_active
  askedBy,   \* the run of the caller that asked
  bus,       \* calls whose event was published
  served,    \* history: how often a process was given the call
  strays,    \* history: answers given to a process that did not ask
  faults

vars == <<up, run, stdin, stdout, at, outcome, pending, waiters, askedBy, bus, served, strays,
          faults>>

-----------------------------------------------------------------------------
(* Lines. *)

(* A line as it is looked at: whether it has `ok', an id, which method. *)
Raw(ok, id, method, call, success) ==
  [ok |-> ok, id |-> id, method |-> method, call |-> call, success |-> success]
Answer(x, success) == Raw(TRUE, TRUE, "none", x, success)
Ask(x)             == Raw(FALSE, TRUE, "action.invoke", x, FALSE)
Publish(x)         == Raw(FALSE, FALSE, "event.publish", x, FALSE)

(* An answer has `ok'; what has a method is a request when its id is not
   empty; the rest is not understood.                                        *)
parse_inbound(raw) ==
  CASE raw.ok -> "Response"
    [] ~raw.ok /\ raw.method = "none" -> "none"
    [] ~raw.ok /\ raw.method # "none" /\ raw.id -> "Request"
    [] OTHER -> "Notification"

-----------------------------------------------------------------------------
(* The service's process (external): it handles what it is asked when it
   comes, asks in its turn while it serves, publishes, and answers.          *)

Serve(s, x) ==
  /\ served' = [served EXCEPT ![x] = @ + 1]
  /\ stdout' = [stdout EXCEPT ![s] =
                  @ \o (IF IsLast(x) THEN <<Publish(x), Answer(x, TRUE)>>
                        ELSE <<Publish(x), Ask(Child(x))>>)]
  /\ at' = IF IsLast(x) THEN at ELSE [at EXCEPT ![Child(x)] = "asked"]
  /\ askedBy' = IF IsLast(x) THEN askedBy ELSE [askedBy EXCEPT ![Child(x)] = run[s]]
  /\ UNCHANGED strays

(* The answer to its own request lets it answer what it serves. *)
Resume(s, x, success) ==
  /\ IF askedBy[x] = run[s]
     THEN stdout' = [stdout EXCEPT ![s] = Append(@, Answer(Parent(x), success))] /\ UNCHANGED strays
     ELSE strays' = strays \cup {x} /\ UNCHANGED stdout
  /\ UNCHANGED <<served, at, askedBy>>

Process(s) ==
  /\ up[s] = "up" /\ stdin[s] # <<>>
  /\ LET line == Head(stdin[s])
     IN  IF line.ok THEN Resume(s, line.call, line.success) ELSE Serve(s, line.call)
  /\ stdin' = [stdin EXCEPT ![s] = Tail(@)]
  /\ UNCHANGED <<up, run, outcome, pending, waiters, bus, faults>>

Blurt(s) ==
  /\ up[s] = "up" /\ faults < MaxFaults
  /\ \E raw \in Odd : stdout' = [stdout EXCEPT ![s] = Append(@, raw)]
  /\ faults' = faults + 1
  /\ UNCHANGED <<up, run, stdin, at, outcome, pending, waiters, askedBy, bus, served, strays>>

-----------------------------------------------------------------------------
(* The supervisor. *)

Settle(x, result) ==
  /\ at' = [at EXCEPT ![x] = "done"] /\ outcome' = [outcome EXCEPT ![x] = result]

(* A line for a service that is not up is refused or lost. *)
Sent(s, line) == IF up[s] = "up" THEN [stdin EXCEPT ![s] = Append(@, line)] ELSE stdin

(* handle_inbound, Response: an id that is not waited for is passed over. *)
TakeAnswer(s, x, success) ==
  /\ IF x \in pending[s]
     THEN /\ at' = [at EXCEPT ![x] = "answered"]
          /\ outcome' = [outcome EXCEPT ![x] = IF success THEN "ok" ELSE "error"]
          /\ pending' = [pending EXCEPT ![s] = @ \ {x}]
     ELSE UNCHANGED <<at, outcome, pending>>
  /\ UNCHANGED bus

(* handle_service_notification, on the reader's own thread. *)
TakeNotification(raw) ==
  /\ bus' = IF raw.method = "event.publish" THEN bus \cup {raw.call} ELSE bus
  /\ UNCHANGED <<at, outcome, pending>>

(* handle_service_request: a worker is started and the reader goes on.  An
   unknown method is refused, which the service passes over.                 *)
TakeRequest(x) ==
  /\ at' = IF x \in Calls THEN [at EXCEPT ![x] = "worker"] ELSE at
  /\ UNCHANGED <<outcome, pending, bus>>

(* A bug: the reader carries a request out itself, so while a request it took
   is under way it reads no further.                                         *)
Mutant_Reads(s) ==
  \A x \in Calls : ~(~IsFirst(x) /\ Caller(x) = s /\ at[x] \in {"worker", "waiting", "answered", "done"})
Reads(s) == TRUE

(* spawn_reader: what a process wrote is read to its end, after its exit too
   (here before what its successor writes, which has a reader of its own).   *)
Reader(s) ==
  /\ stdout[s] # <<>> /\ Reads(s)
  /\ LET raw == Head(stdout[s])
     IN  CASE parse_inbound(raw) = "Response"     -> TakeAnswer(s, raw.call, raw.success)
           [] parse_inbound(raw) = "Request"      -> TakeRequest(raw.call)
           [] parse_inbound(raw) = "Notification" -> TakeNotification(raw)
           [] OTHER -> UNCHANGED <<at, outcome, pending, bus>>
  /\ stdout' = [stdout EXCEPT ![s] = Tail(@)]
  /\ UNCHANGED <<up, run, stdin, waiters, askedBy, served, strays, faults>>

Start(x) ==
  /\ IsFirst(x) /\ at[x] = "new" /\ at' = [at EXCEPT ![x] = "worker"]
  /\ UNCHANGED <<up, run, stdin, stdout, outcome, pending, waiters, askedBy, bus, served, strays,
                 faults>>

(* invoke_remote and dispatch_invocation. *)
(* A process that has ended is called until handle_exit has seen it. *)
Refused(x) == up[Callee(x)] \notin {"up", "dead"} \/ waiters >= WaiterMax
(* A bug: a call that is refused keeps its waiter. *)
Mutant_Kept(x) == waiters + 1
Kept(x) == waiters

Refuse(x) ==
  /\ at[x] = "worker" /\ Refused(x) /\ Settle(x, "error") /\ waiters' = Kept(x)
  /\ UNCHANGED <<up, run, stdin, stdout, pending, askedBy, bus, served, strays, faults>>

Dispatch(x) ==
  /\ at[x] = "worker" /\ ~Refused(x)
  /\ waiters' = waiters + 1
  /\ pending' = [pending EXCEPT ![Callee(x)] = @ \cup {x}]
  /\ stdin' = Sent(Callee(x), Ask(x))
  /\ at' = [at EXCEPT ![x] = "waiting"]
  /\ UNCHANGED <<up, run, stdout, outcome, askedBy, bus, served, strays, faults>>

(* The waiter thread: the answer is there, or action_timeout has passed. *)
Waiter(x) ==
  /\ at[x] = "answered" /\ at' = [at EXCEPT ![x] = "done"] /\ waiters' = waiters - 1
  /\ UNCHANGED <<up, run, stdin, stdout, outcome, pending, askedBy, bus, served, strays, faults>>
WaiterTimesOut(x) ==
  /\ at[x] = "waiting" /\ faults < MaxFaults /\ faults' = faults + 1
  /\ Settle(x, "timeout") /\ waiters' = waiters - 1
  /\ pending' = [pending EXCEPT ![Callee(x)] = @ \ {x}]
  /\ UNCHANGED <<up, run, stdin, stdout, askedBy, bus, served, strays>>

(* The worker answers the service that asked, whichever process that is now;
   the client has its result.                                                *)
Return(x) ==
  /\ at[x] = "done" /\ at' = [at EXCEPT ![x] = "over"]
  /\ stdin' = IF IsFirst(x) THEN stdin ELSE Sent(Caller(x), Answer(x, outcome[x] = "ok"))
  /\ UNCHANGED <<up, run, stdout, outcome, pending, waiters, askedBy, bus, served, strays, faults>>

(* A process ends; handle_exit answers whoever waits for it; it may be
   started again.                                                            *)
Exit(s) ==
  /\ up[s] = "up" /\ faults < MaxFaults /\ faults' = faults + 1
  /\ up' = [up EXCEPT ![s] = "dead"] /\ stdin' = [stdin EXCEPT ![s] = <<>>]
  /\ UNCHANGED <<run, stdout, at, outcome, pending, waiters, askedBy, bus, served, strays>>

Becomes(s, state) ==
  /\ up' = [up EXCEPT ![s] = state]
  /\ UNCHANGED <<run, stdin, stdout, waiters, askedBy, bus, served, strays, faults>>

(* handle_exit clears the handle and joins the forwarders, which see the stop
   flag: unless the start of that process, not yet at its end, clears the flag
   again, for then they end at the next event they have to forward.          *)
HandleExit(s) ==
  /\ up[s] = "dead" /\ (Becomes(s, "joining") \/ Becomes(s, "deaf"))
  /\ UNCHANGED <<at, outcome, pending>>
NextEvent(s) == up[s] = "deaf" /\ Becomes(s, "joining") /\ UNCHANGED <<at, outcome, pending>>

(* A bug: the answers that are waited for are left out. *)
Mutant_Failed(s) == {}
Failed(s) == pending[s]
(* Only then it answers. *)
FailPending(s) ==
  /\ up[s] = "joining" /\ Becomes(s, "down")
  /\ at' = [x \in Calls |-> IF x \in Failed(s) THEN "answered" ELSE at[x]]
  /\ outcome' = [x \in Calls |-> IF x \in Failed(s) THEN "error" ELSE outcome[x]]
  /\ pending' = [pending EXCEPT ![s] = {}]

ExitGoesOn(s) == HandleExit(s) \/ NextEvent(s) \/ FailPending(s)

Restart(s) ==
  /\ up[s] = "down" /\ up' = [up EXCEPT ![s] = "up"] /\ run' = [run EXCEPT ![s] = @ + 1]
  /\ UNCHANGED <<stdin, stdout, at, outcome, pending, waiters, askedBy, bus, served, strays, faults>>

-----------------------------------------------------------------------------
Init ==
  /\ up = [s \in Services |-> "up"] /\ run = [s \in Services |-> 1]
  /\ stdin = [s \in Services |-> <<>>] /\ stdout = [s \in Services |-> <<>>]
  /\ at = [x \in Calls |-> "new"] /\ outcome = [x \in Calls |-> "none"]
  /\ pending = [s \in Services |-> {}] /\ waiters = 0
  /\ askedBy = [x \in Calls |-> 0] /\ bus = {}
  /\ served = [x \in Calls |-> 0] /\ strays = {}
  /\ faults = 0

ServiceStep(s) == Process(s) \/ Blurt(s) \/ Reader(s) \/ Exit(s) \/ ExitGoesOn(s) \/ Restart(s)
CallStep(x) == Start(x) \/ Refuse(x) \/ Dispatch(x) \/ Waiter(x) \/ WaiterTimesOut(x) \/ Return(x)

Next == (\E s \in Services : ServiceStep(s)) \/ (\E x \in Calls : CallStep(x))

(* Threads of the supervisor run, services answer, and the events that a
   forwarder is subscribed to do not cease; no deadline has to pass for a call
   to end.                                                                   *)
CallGoesOn(x) == Refuse(x) \/ Dispatch(x) \/ Waiter(x) \/ Return(x)
Fairness ==
  /\ \A s \in Services : WF_vars(Reader(s)) /\ WF_vars(Process(s)) /\ WF_vars(ExitGoesOn(s))
  /\ \A x \in Calls : WF_vars(CallGoesOn(x))

Spec == Init /\ [][Next]_vars /\ Fairness

-----------------------------------------------------------------------------
Lines(x) == [ok : BOOLEAN, id : BOOLEAN, method : {"none", "action.invoke", "event.publish"},
             call : x, success : BOOLEAN]
TypeOK ==
  /\ up \in [Services -> {"up", "dead", "joining", "deaf", "down"}] /\ run \in [Services -> Nat]
  /\ stdin \in [Services -> Seq(Lines(Calls))] /\ stdout \in [Services -> Seq(Lines(Calls) \cup Odd)]
  /\ at \in [Calls -> {"new", "asked", "worker", "waiting", "answered", "done", "over"}]
  /\ outcome \in [Calls -> {"none", "ok", "error", "timeout"}]
  /\ pending \in [Services -> SUBSET Calls] /\ \A s \in Services : \A x \in pending[s] : Callee(x) = s
  /\ waiters \in 0 .. WaiterMax /\ bus \subseteq Calls /\ strays \subseteq Calls
  /\ served \in [Calls -> Nat] /\ askedBy \in [Calls -> Nat] /\ faults \in 0 .. MaxFaults

(* A call succeeds when the service has served it, once, and every event that
   was published on the way is on the bus by then: an event is not overtaken
   by the answer that follows it.  (handle_inbound, handle_service_notification;
   decisions.md: notifications stay on the reader thread)                    *)
EventsBeforeAnswers ==
  \A x \in Calls :
    /\ served[x] <= 1
    /\ outcome[x] = "ok" => served[x] = 1 /\ x \in bus
    /\ (outcome[x] = "ok" /\ ~IsLast(x)) => outcome[Child(x)] = "ok"

(* The waiters that are counted are those that wait, whatever timed out, was
   refused or answered by an exit.  (WaiterPermit, dispatch_invocation)      *)
WaitersAreCounted == waiters = Cardinality({x \in Calls : at[x] \in {"waiting", "answered"}})

(* The calls that were made have their results, though a chain comes back
   to the service that serves it: no reader waits for what it has to read
   itself, and no deadline has to pass; only whoever called a process that
   ended just after its start may have to wait for the next event.
   (decisions.md 163-165; service_supervisor.rs 893-904)                     *)
UnderWay == \E x \in Calls : at[x] \in {"worker", "waiting", "answered", "done"}
CallsEnd == UnderWay ~> ~UnderWay

(* What the code does not keep *)

(* handle_exit joins forwarders that are about to end: not those of a start
   that clears the stop flag after it.  (service_supervisor.rs 892 "worst-case
   shutdown latency", 898 "Wait briefly")                                    *)
JoinsAreBrief == \A s \in Services : up[s] # "deaf"

(* An answer reaches the process that asked.  It does not: the worker sends
   it to the service's current process, and ids are the plugin's, who counts
   from the start again.                                                     *)
AnswersReachTheAsker == strays = {}
=============================================================================
