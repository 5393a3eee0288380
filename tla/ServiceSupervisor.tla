--------------------------- MODULE ServiceSupervisor ---------------------------
(***************************************************************************)
(* One service plugin under nesttyd's supervisor (service_supervisor.rs):  *)
(* the spawner thread that starts it, the wait thread of every child that  *)
(* ever ran, the callers that invoke its actions, the restart timers, the  *)
(* event forwarders and shutdown_all, all of them working on the same      *)
(* ServiceHandle through its separate locks.                               *)
(*                                                                         *)
(* A child process is named by the number of its start, 1 .. MaxInstances. *)
(* A request the supervisor sends is named by its sender: the instance for *)
(* initialize, the invocation for action.invoke; the counter behind        *)
(* next_request_id never repeats an id.                                    *)
(***************************************************************************)
EXTENDS Naturals, Sequences, FiniteSets

CONSTANTS
  MaxInstances,   \* bound: how many children a behaviour may fork
  Invocations,    \* calls of invoke_remote
  Actions,        \* the actions the manifest was approved for
  Offers,         \* the sets of them a child may claim in its initialize reply
  Activation,     \* "onStartup", "onAction" or "onEvent"
  Activating,     \* the actions the onAction glob matches
  Subscribes,     \* whether the child asks for events at all
  Restart,        \* "never", "always" or "on-crash"
  MaxPending,     \* MAX_PENDING_BUFFER
  WaiterMax,      \* waiter_max
  MaxRequests,    \* bound: spawn requests that events may queue up
  MaxShutdowns,   \* bound: calls of shutdown_all, at most one
  Nobody          \* no invocation: what the spawner holds outside the drain

ASSUME BoundsAssumption ==
  /\ MaxInstances \in Nat \ {0} /\ MaxPending \in Nat \ {0}
  /\ WaiterMax \in Nat \ {0} /\ MaxRequests \in Nat
  /\ MaxShutdowns \in {0, 1}
ASSUME OffersAssumption == Offers \subseteq SUBSET Actions
ASSUME PolicyAssumption ==
  /\ Activation \in {"onStartup", "onAction", "onEvent"}
  /\ Activating \subseteq (IF Activation = "onAction" THEN Actions ELSE {})
  /\ Restart \in {"never", "always", "on-crash"} /\ Subscribes \in BOOLEAN
ASSUME InvocationsAssumption ==
  /\ IsFiniteSet(Invocations) /\ Invocations \cap Nat = {}
  /\ Nobody \notin Invocations

Instances == 1 .. MaxInstances
None == 0
Ids == Instances \cup Invocations

VARIABLES
  \* the ServiceHandle; runtimeProvides is {} for None and {S} for Some(S)
  state, outgoing, childPid, runtimeProvides, pendingResponses,
  pendingInvocations, failures, forwarderStop, forwarderHandles,
  \* the children: process, what it offers, frames sent to it, replies it wrote
  proc, offers, stdin, stdout,
  \* a response handed to whoever waits on a request id
  response,
  \* the spawner thread: where it is, the child it is starting, the buffered
  \* invocation it is dispatching, and the requests in its channel
  spawnerAt, starting, draining, spawnRequests,
  \* the wait thread of each child, and what it saw
  waitAt, wasRunning, joining,
  forwarder,
  \* restart timers sleeping, and the delays they were given so far
  timers, delays,
  \* the callers and the waiter threads
  callAt, action, result, expired, waiter, sentTo,
  shuttingDown, shutdownAt

handleVars == <<state, outgoing, childPid, runtimeProvides, failures>>
childVars == <<proc, offers, stdin, stdout>>
spawnerVars == <<spawnerAt, starting, draining>>
waitVars == <<waitAt, wasRunning, joining>>
forwarderVars == <<forwarderStop, forwarderHandles, forwarder>>
timerVars == <<timers, delays>>
requestVars == <<pendingResponses, pendingInvocations, response, spawnRequests>>
callVars == <<callAt, action, result, expired, waiter, sentTo>>
shutdownVars == <<shuttingDown, shutdownAt>>
vars == <<handleVars, pendingResponses, pendingInvocations, childVars, response,
          spawnerVars, spawnRequests, waitVars, forwarderVars, timerVars,
          callVars, shutdownVars>>

States == {"Stopped", "Starting", "Running", "Failed"}
\* "killed" has been sent SIGKILL, "signalled" died of it.
Processes == {"absent", "alive", "killed", "exited", "crashed", "signalled"}
SpawnerSteps == {"recv", "claim", "fork", "wire", "insert", "initialize", "await",
                 "initialized", "transition", "reset", "forward", "drain",
                 "fail", "close", "flush", "recheck", "exited"}
WaitSteps == {"none", "waiting", "stop", "take", "join", "fail", "decide", "done"}
CallSteps == {"new", "route", "buffered", "admit", "send", "waiting", "done"}
Results == {"none", "ok", "error", "service_degraded", "buffer_full", "overloaded",
            "service_unavailable", "action_timeout"}
Responses == {"none", "ok", "error", "exited"}

HandleTypes ==
  /\ state \in States
  /\ outgoing \in Instances \cup {None} /\ childPid \in Instances \cup {None}
  /\ runtimeProvides \subseteq SUBSET Actions /\ Cardinality(runtimeProvides) <= 1
  /\ failures \in Nat

RequestTypes ==
  /\ pendingResponses \subseteq Ids
  /\ pendingInvocations \in Seq(Invocations)
  /\ response \in [Ids -> Responses]
  /\ spawnRequests \in Nat

ChildTypes ==
  /\ proc \in [Instances -> Processes]
  /\ offers \in [Instances -> SUBSET Actions]
  /\ stdin \in [Instances -> SUBSET Ids]
  /\ stdout \in [Instances -> SUBSET (Ids \X {"ok", "error"})]

SpawnerTypes ==
  /\ spawnerAt \in SpawnerSteps /\ starting \in Instances \cup {None}
  /\ draining \in Invocations \cup {Nobody}

ThreadTypes ==
  /\ waitAt \in [Instances -> WaitSteps] /\ wasRunning \in [Instances -> BOOLEAN]
  /\ joining \in [Instances -> SUBSET Instances]
  /\ forwarderStop \in BOOLEAN /\ forwarderHandles \subseteq Instances
  /\ forwarder \in [Instances -> {"none", "on", "gone"}]
  /\ timers \in Nat /\ delays \in Seq(Nat)

CallTypes ==
  /\ callAt \in [Invocations -> CallSteps] /\ action \in [Invocations -> Actions]
  /\ result \in [Invocations -> Results] /\ expired \in [Invocations -> BOOLEAN]
  /\ waiter \in [Invocations -> {"none", "waiting", "done"}]
  /\ sentTo \in [Invocations -> Instances \cup {None}]

ShutdownTypes ==
  /\ shuttingDown \in BOOLEAN
  /\ shutdownAt \in {"no", "check", "mark", "close", "join", "sweep", "done"}

TypeOK ==
  /\ HandleTypes /\ RequestTypes /\ ChildTypes /\ SpawnerTypes
  /\ ThreadTypes /\ CallTypes /\ ShutdownTypes

Init ==
  /\ state = "Stopped" /\ outgoing = None /\ childPid = None
  /\ runtimeProvides = {} /\ failures = 0
  /\ pendingResponses = {} /\ pendingInvocations = <<>>
  /\ forwarderStop = FALSE /\ forwarderHandles = {}
  /\ forwarder = [i \in Instances |-> "none"]
  /\ proc = [i \in Instances |-> "absent"]
  /\ offers = [i \in Instances |-> {}]
  /\ stdin = [i \in Instances |-> {}] /\ stdout = [i \in Instances |-> {}]
  /\ response = [x \in Ids |-> "none"]
  /\ spawnerAt = "recv" /\ starting = None /\ draining = Nobody
  /\ spawnRequests = IF Activation = "onStartup" THEN 1 ELSE 0
  /\ waitAt = [i \in Instances |-> "none"]
  /\ wasRunning = [i \in Instances |-> FALSE]
  /\ joining = [i \in Instances |-> {}]
  /\ timers = 0 /\ delays = <<>>
  /\ callAt = [v \in Invocations |-> "new"]
  /\ action \in [Invocations -> Actions]
  /\ result = [v \in Invocations |-> "none"]
  /\ expired = [v \in Invocations |-> FALSE]
  /\ waiter = [v \in Invocations |-> "none"]
  /\ sentTo = [v \in Invocations |-> None]
  /\ shuttingDown = FALSE /\ shutdownAt = "no"
-----------------------------------------------------------------------------
(* Helpers *)

\* spawn_service_async: dropped once shutdown has begun.
RequestSpawn == spawnRequests' = spawnRequests + (IF shuttingDown THEN 0 ELSE 1)

\* kill_child on a process that may be gone already.
Killed(i) == [proc EXCEPT ![i] = IF @ = "alive" THEN "killed" ELSE @]

\* A frame for the child whose channel this is; a dead child reads no more.
Deliver(i, x) == stdin' = [stdin EXCEPT ![i] = IF proc[i] = "alive" THEN @ \cup {x} ELSE @]

\* Give v's caller its answer; a caller that timed out no longer listens.
Reply(v, r) ==
  /\ result' = [result EXCEPT ![v] = IF @ = "none" THEN r ELSE @]
  /\ callAt' = [callAt EXCEPT ![v] = "done"]

\* Mutant: a child whose output has ended is taken for dead.
Mutant_Dead(i) == proc[i] # "absent"
Dead(i) == proc[i] \in {"exited", "crashed", "signalled"}
\* ServiceHandle::send fails without a channel, and once the writer thread behind
\* it has found its child gone.
SendCanFail == outgoing # None => Dead(outgoing)
Forked == {i \in Instances : proc[i] # "absent"}
WaiterActive == Cardinality({v \in Invocations : waiter[v] = "waiting"})
-----------------------------------------------------------------------------
(* The spawner thread: spawner_loop and start_service *)

\* What no step of the spawner but Wire writes.
elsewhere == <<waitVars, timerVars, shutdownVars>>

SpawnerTakes ==
  /\ spawnerAt = "recv" /\ spawnRequests > 0
  /\ spawnRequests' = spawnRequests - 1
  /\ spawnerAt' = IF shuttingDown THEN "recv" ELSE "claim"
  /\ UNCHANGED <<handleVars, pendingResponses, pendingInvocations, childVars, response,
                 starting, draining, forwarderVars, callVars, elsewhere>>

\* Mutant: the channel is closed only after the spawner has been joined.
Mutant_SpawnerExits ==
  /\ spawnerAt = "recv" /\ spawnRequests = 0 /\ shutdownAt = "done"
  /\ spawnerAt' = "exited"
  /\ UNCHANGED <<handleVars, childVars, starting, draining, forwarderVars, callVars,
                 elsewhere, requestVars>>

\* Its channel is closed and drained.
SpawnerExits ==
  /\ spawnerAt = "recv" /\ spawnRequests = 0 /\ shutdownAt = "join"
  /\ spawnerAt' = "exited"
  /\ UNCHANGED <<handleVars, childVars, starting, draining, forwarderVars, callVars,
                 elsewhere, requestVars>>

\* Whoever finds the service stopped or failed claims the start.
Claim ==
  /\ spawnerAt = "claim"
  /\ IF state \in {"Running", "Starting"}
     THEN spawnerAt' = "recheck" /\ state' = state
     ELSE spawnerAt' = "fork" /\ state' = "Starting"
  /\ UNCHANGED <<outgoing, childPid, runtimeProvides, failures, childVars, starting,
                 draining, forwarderVars, callVars, elsewhere, requestVars>>

ForkFails ==
  /\ spawnerAt = "fork"
  /\ spawnerAt' = "fail"
  /\ UNCHANGED <<handleVars, childVars, starting, draining, forwarderVars, callVars,
                 elsewhere, requestVars>>

Fork ==
  /\ spawnerAt = "fork"
  /\ \E i \in Instances \ Forked :
       /\ \A j \in Instances \ Forked : i <= j
       /\ proc' = [proc EXCEPT ![i] = "alive"]
       /\ \E S \in Offers : offers' = [offers EXCEPT ![i] = S]
       /\ childPid' = i
       /\ starting' = i
  /\ spawnerAt' = "wire"
  /\ UNCHANGED <<state, outgoing, runtimeProvides, failures, stdin, stdout, draining,
                 forwarderVars, callVars, elsewhere, requestVars>>

\* The new outgoing channel, the writer, reader and wait threads.
Wire ==
  /\ spawnerAt = "wire"
  /\ outgoing' = starting
  /\ waitAt' = [waitAt EXCEPT ![starting] = "waiting"]
  /\ spawnerAt' = "insert"
  /\ UNCHANGED <<state, childPid, runtimeProvides, failures, childVars, starting, draining,
                 wasRunning, joining, forwarderVars, timerVars, callVars, shutdownVars,
                 requestVars>>

InsertInitialize ==
  /\ spawnerAt = "insert"
  /\ pendingResponses' = pendingResponses \cup {starting}
  /\ spawnerAt' = "initialize"
  /\ UNCHANGED <<handleVars, pendingInvocations, childVars, response, starting, draining,
                 spawnRequests, forwarderVars, callVars, elsewhere>>

SendInitialize ==
  /\ spawnerAt = "initialize"
  /\ \/ /\ SendCanFail
        /\ spawnerAt' = "fail" /\ stdin' = stdin
     \/ /\ outgoing # None
        /\ spawnerAt' = "await"
        /\ Deliver(outgoing, starting)
  /\ UNCHANGED <<handleVars, proc, offers, stdout, starting, draining, forwarderVars,
                 callVars, elsewhere, requestVars>>

InitializeAnswered ==
  /\ spawnerAt = "await" /\ response[starting] # "none"
  /\ IF response[starting] = "ok"
     THEN spawnerAt' = "initialized" /\ proc' = proc
     ELSE spawnerAt' = "fail" /\ proc' = Killed(starting)
  /\ UNCHANGED <<handleVars, offers, stdin, stdout, starting, draining, forwarderVars,
                 callVars, elsewhere, requestVars>>

InitializeTimesOut ==
  /\ spawnerAt = "await" /\ response[starting] = "none"
  /\ pendingResponses' = pendingResponses \ {starting}
  /\ proc' = Killed(starting)
  /\ spawnerAt' = "fail"
  /\ UNCHANGED <<handleVars, pendingInvocations, offers, stdin, stdout, response, starting,
                 draining, spawnRequests, forwarderVars, callVars, elsewhere>>

\* The initialized notification: only whether it could be sent matters.
SendInitialized ==
  /\ spawnerAt = "initialized"
  /\ \/ SendCanFail /\ spawnerAt' = "fail"
     \/ outgoing # None /\ spawnerAt' = "transition"
  /\ UNCHANGED <<handleVars, childVars, starting, draining, forwarderVars, callVars,
                 elsewhere, requestVars>>

\* Mutant: the state is not looked at again.
Mutant_Transition ==
  /\ spawnerAt = "transition"
  /\ runtimeProvides' = {offers[starting]}
  /\ state' = "Running"
  /\ spawnerAt' = "reset"
  /\ UNCHANGED <<outgoing, childPid, failures, childVars, starting, draining,
                 forwarderVars, callVars, elsewhere, requestVars>>

\* Starting -> Running with the negotiated actions, under the state lock.
Transition ==
  /\ spawnerAt = "transition"
  /\ IF state # "Starting"
     THEN spawnerAt' = "fail" /\ UNCHANGED <<state, runtimeProvides>>
     ELSE /\ runtimeProvides' = {offers[starting]}
          /\ state' = "Running"
          /\ spawnerAt' = "reset"
  /\ UNCHANGED <<outgoing, childPid, failures, childVars, starting, draining,
                 forwarderVars, callVars, elsewhere, requestVars>>

ResetInstance ==
  /\ spawnerAt = "reset"
  /\ failures' = 0
  /\ forwarderStop' = FALSE /\ forwarderHandles' = {}
  /\ spawnerAt' = "forward"
  /\ UNCHANGED <<state, outgoing, childPid, runtimeProvides, childVars, starting, draining,
                 forwarder, callVars, elsewhere, requestVars>>

SpawnForwarders ==
  /\ spawnerAt = "forward"
  /\ IF Subscribes
     THEN /\ forwarder' = [forwarder EXCEPT ![starting] = "on"]
          /\ forwarderHandles' = forwarderHandles \cup {starting}
     ELSE UNCHANGED <<forwarder, forwarderHandles>>
  /\ spawnerAt' = "drain"
  /\ UNCHANGED <<handleVars, childVars, starting, draining, forwarderStop, callVars,
                 elsewhere, requestVars>>

\* The buffer is locked from the first step of the drain to the last.
Draining == spawnerAt = "drain"

\* The spawner is inside dispatch_invocation for the one it popped.
Dispatching == draining # Nobody /\ callAt[draining] \in {"admit", "send"}

DrainOne ==
  /\ Draining /\ ~ Dispatching /\ pendingInvocations # <<>>
  /\ LET v == Head(pendingInvocations) IN
       /\ pendingInvocations' = Tail(pendingInvocations)
       /\ IF expired[v]
          THEN Reply(v, "service_unavailable") /\ draining' = Nobody
          ELSE /\ callAt' = [callAt EXCEPT ![v] = "admit"]
               /\ draining' = v /\ result' = result
  /\ UNCHANGED <<handleVars, pendingResponses, childVars, response, spawnerAt, starting,
                 spawnRequests, forwarderVars, action, expired, waiter, sentTo, elsewhere>>

DrainEnds ==
  /\ Draining /\ ~ Dispatching /\ pendingInvocations = <<>>
  /\ draining' = Nobody
  /\ spawnerAt' = "recheck"
  /\ UNCHANGED <<handleVars, childVars, starting, forwarderVars, callVars, elsewhere,
                 requestVars>>

\* start_service on an error: three critical sections, one after the other.
StartFails ==
  /\ spawnerAt = "fail"
  /\ state' = "Failed"
  /\ spawnerAt' = "close"
  /\ UNCHANGED <<outgoing, childPid, runtimeProvides, failures, childVars, starting,
                 draining, forwarderVars, callVars, elsewhere, requestVars>>

\* Mutant: the callers in the buffer are forgotten.
Mutant_CloseOutgoing ==
  /\ spawnerAt = "close"
  /\ outgoing' = None
  /\ spawnerAt' = "recheck"
  /\ UNCHANGED <<state, childPid, runtimeProvides, failures, childVars, starting, draining,
                 forwarderVars, callVars, elsewhere, requestVars>>

CloseOutgoing ==
  /\ spawnerAt = "close"
  /\ outgoing' = None
  /\ spawnerAt' = "flush"
  /\ UNCHANGED <<state, childPid, runtimeProvides, failures, childVars, starting, draining,
                 forwarderVars, callVars, elsewhere, requestVars>>

FlushBuffer ==
  /\ spawnerAt = "flush"
  /\ LET buffered == {pendingInvocations[k] : k \in DOMAIN pendingInvocations} IN
       /\ result' = [v \in Invocations |-> IF v \in buffered /\ result[v] = "none"
                                           THEN "error" ELSE result[v]]
       /\ callAt' = [v \in Invocations |-> IF v \in buffered THEN "done" ELSE callAt[v]]
  /\ pendingInvocations' = <<>>
  /\ spawnerAt' = "recheck"
  /\ UNCHANGED <<handleVars, pendingResponses, childVars, response, starting, draining,
                 spawnRequests, forwarderVars, action, expired, waiter, sentTo, elsewhere>>

\* A child that shutdown raced past is killed here.
Recheck ==
  /\ spawnerAt = "recheck"
  /\ proc' = IF shuttingDown /\ childPid # None THEN Killed(childPid) ELSE proc
  /\ starting' = None
  /\ spawnerAt' = "recv"
  /\ UNCHANGED <<handleVars, offers, stdin, stdout, draining, forwarderVars, callVars,
                 elsewhere, requestVars>>
-----------------------------------------------------------------------------
(* A child process, its reader thread and its wait thread *)

\* The plugin answers one of the requests on its stdin.
ChildReplies(i) ==
  /\ proc[i] = "alive"
  /\ \E x \in stdin[i], r \in {"ok", "error"} :
       /\ stdin' = [stdin EXCEPT ![i] = @ \ {x}]
       /\ stdout' = [stdout EXCEPT ![i] = @ \cup {<<x, r>>}]
  /\ UNCHANGED <<handleVars, requestVars, proc, offers, spawnerVars, waitVars, forwarderVars,
                 timerVars, callVars, shutdownVars>>

\* It exits or crashes on its own, or dies of the signal.
ChildDies(i) ==
  /\ proc[i] \in {"alive", "killed"}
  /\ \E end \in IF proc[i] = "killed" THEN {"signalled"} ELSE {"exited", "crashed"} :
       proc' = [proc EXCEPT ![i] = end]
  /\ stdin' = [stdin EXCEPT ![i] = {}]
  /\ UNCHANGED <<handleVars, requestVars, offers, stdout, spawnerVars, waitVars,
                 forwarderVars, timerVars, callVars, shutdownVars>>

\* handle_inbound: a response for an id that is still pending goes to its
\* sender, any other is dropped.  The pipe outlives the process.
Read(i) ==
  /\ \E m \in stdout[i] :
       /\ stdout' = [stdout EXCEPT ![i] = @ \ {m}]
       /\ response' = IF m[1] \in pendingResponses
                      THEN [response EXCEPT ![m[1]] = m[2]] ELSE response
       /\ pendingResponses' = pendingResponses \ {m[1]}
  /\ UNCHANGED <<handleVars, pendingInvocations, spawnRequests, proc, offers, stdin,
                 spawnerVars, waitVars, forwarderVars, timerVars, callVars, shutdownVars>>

\* Mutant: the channel to the dead child stays in place.
Mutant_ExitSeen(i) ==
  /\ waitAt[i] = "waiting" /\ Dead(i)
  /\ wasRunning' = [wasRunning EXCEPT ![i] = state = "Running"]
  /\ state' = "Stopped" /\ childPid' = None
  /\ runtimeProvides' = {}
  /\ waitAt' = [waitAt EXCEPT ![i] = "stop"]
  /\ UNCHANGED <<outgoing, failures, requestVars, childVars, spawnerVars, joining,
                 forwarderVars, timerVars, callVars, shutdownVars>>

\* handle_exit, first critical section: everything under the state lock.
ExitSeen(i) ==
  /\ waitAt[i] = "waiting" /\ Dead(i)
  /\ wasRunning' = [wasRunning EXCEPT ![i] = state = "Running"]
  /\ state' = "Stopped" /\ outgoing' = None /\ childPid' = None
  /\ runtimeProvides' = {}
  /\ waitAt' = [waitAt EXCEPT ![i] = "stop"]
  /\ UNCHANGED <<failures, requestVars, childVars, spawnerVars, joining, forwarderVars,
                 timerVars, callVars, shutdownVars>>

\* From here on the state lock is free.
StopForwarders(i) ==
  /\ waitAt[i] = "stop"
  /\ forwarderStop' = TRUE
  /\ waitAt' = [waitAt EXCEPT ![i] = "take"]
  /\ UNCHANGED <<handleVars, requestVars, childVars, spawnerVars, wasRunning, joining,
                 forwarderHandles, forwarder, timerVars, callVars, shutdownVars>>

TakeForwarders(i) ==
  /\ waitAt[i] = "take"
  /\ joining' = [joining EXCEPT ![i] = forwarderHandles]
  /\ forwarderHandles' = {}
  /\ waitAt' = [waitAt EXCEPT ![i] = "join"]
  /\ UNCHANGED <<handleVars, requestVars, childVars, spawnerVars, wasRunning, forwarderStop,
                 forwarder, timerVars, callVars, shutdownVars>>

JoinForwarders(i) ==
  /\ waitAt[i] = "join"
  /\ \A j \in joining[i] : forwarder[j] = "gone"
  /\ waitAt' = [waitAt EXCEPT ![i] = "fail"]
  /\ UNCHANGED <<handleVars, requestVars, childVars, spawnerVars, wasRunning, joining,
                 forwarderVars, timerVars, callVars, shutdownVars>>

\* Mutant: the pending responses are cleared and nobody is told.
Mutant_FailPending(i) ==
  /\ waitAt[i] = "fail"
  /\ pendingResponses' = {}
  /\ waitAt' = [waitAt EXCEPT ![i] = "decide"]
  /\ UNCHANGED <<handleVars, response, pendingInvocations, spawnRequests, childVars,
                 spawnerVars, wasRunning, joining, forwarderVars, timerVars, callVars,
                 shutdownVars>>

\* Every pending response is failed, whichever instance it is for.
FailPending(i) ==
  /\ waitAt[i] = "fail"
  /\ response' = [x \in Ids |-> IF x \in pendingResponses THEN "exited" ELSE response[x]]
  /\ pendingResponses' = {}
  /\ waitAt' = [waitAt EXCEPT ![i] = "decide"]
  /\ UNCHANGED <<handleVars, pendingInvocations, spawnRequests, childVars, spawnerVars,
                 wasRunning, joining, forwarderVars, timerVars, callVars, shutdownVars>>

\* Mutant: the state is read after handle_exit has overwritten it.
Mutant_ShouldRestart(i) ==
  /\ ~ shuttingDown /\ state = "Running"
  /\ \/ Restart = "always"
     \/ Restart = "on-crash" /\ proc[i] # "exited"

ShouldRestart(i) ==
  /\ ~ shuttingDown /\ wasRunning[i]
  /\ \/ Restart = "always"
     \/ Restart = "on-crash" /\ proc[i] # "exited"

\* BackoffState::next_delay, in seconds.
Least(m, n) == IF m <= n THEN m ELSE n
BackoffDelay == Least(2 ^ Least(failures, 6), 60)

\* Mutant: the restart is scheduled before the pending responses are failed.
Mutant_DecideRestart(i) ==
  /\ waitAt[i] = "join"
  /\ IF ShouldRestart(i)
     THEN /\ delays' = Append(delays, BackoffDelay)
          /\ failures' = failures + 1
          /\ timers' = timers + 1
     ELSE UNCHANGED <<timerVars, failures>>
  /\ waitAt' = [waitAt EXCEPT ![i] = "fail"]
  /\ UNCHANGED <<state, outgoing, childPid, runtimeProvides, requestVars, childVars,
                 spawnerVars, wasRunning, joining, forwarderVars, callVars, shutdownVars>>

DecideRestart(i) ==
  /\ waitAt[i] = "decide"
  /\ IF ShouldRestart(i)
     THEN /\ delays' = Append(delays, BackoffDelay)
          /\ failures' = failures + 1
          /\ timers' = timers + 1
     ELSE UNCHANGED <<timerVars, failures>>
  /\ waitAt' = [waitAt EXCEPT ![i] = "done"]
  /\ UNCHANGED <<state, outgoing, childPid, runtimeProvides, requestVars, childVars,
                 spawnerVars, wasRunning, joining, forwarderVars, callVars, shutdownVars>>

RestartTimerFires ==
  /\ timers > 0
  /\ timers' = timers - 1
  /\ RequestSpawn
  /\ UNCHANGED <<handleVars, pendingResponses, pendingInvocations, response, childVars,
                 spawnerVars, waitVars, forwarderVars, delays, callVars, shutdownVars>>

\* A forwarder thread sees the stop flag at its next poll ...
ForwarderStops(i) ==
  /\ forwarder[i] = "on" /\ forwarderStop
  /\ forwarder' = [forwarder EXCEPT ![i] = "gone"]
  /\ UNCHANGED <<handleVars, requestVars, childVars, spawnerVars, waitVars, forwarderStop,
                 forwarderHandles, timerVars, callVars, shutdownVars>>

\* ... or has an event to send and finds that the writer thread is gone.
ForwarderFails(i) ==
  /\ forwarder[i] = "on" /\ Dead(i)
  /\ forwarder' = [forwarder EXCEPT ![i] = "gone"]
  /\ UNCHANGED <<handleVars, requestVars, childVars, spawnerVars, waitVars, forwarderStop,
                 forwarderHandles, timerVars, callVars, shutdownVars>>

\* An event matches the onEvent glob while the service is down.
ActivationEvent ==
  /\ Activation = "onEvent" /\ state \in {"Stopped", "Failed"}
  /\ spawnRequests < MaxRequests
  /\ RequestSpawn
  /\ UNCHANGED <<handleVars, pendingResponses, pendingInvocations, response, childVars,
                 spawnerVars, waitVars, forwarderVars, timerVars, callVars, shutdownVars>>
-----------------------------------------------------------------------------
(* Callers: invoke_remote, dispatch_invocation and its waiter thread *)

\* The degraded-mode gate, on a snapshot of the negotiated set.
Invoke(v) ==
  /\ callAt[v] = "new"
  /\ IF \E S \in runtimeProvides : action[v] \notin S
     THEN Reply(v, "service_degraded")
     ELSE callAt' = [callAt EXCEPT ![v] = "route"] /\ result' = result
  /\ UNCHANGED <<handleVars, requestVars, childVars, spawnerVars, waitVars, forwarderVars,
                 timerVars, action, expired, waiter, sentTo, shutdownVars>>

BufferOpen == ~ Draining /\ spawnerAt # "flush"
Buffers(v) ==
  IF Len(pendingInvocations) >= MaxPending
  THEN Reply(v, "buffer_full") /\ UNCHANGED pendingInvocations
  ELSE /\ pendingInvocations' = Append(pendingInvocations, v)
       /\ callAt' = [callAt EXCEPT ![v] = "buffered"] /\ result' = result

Accepted == pendingInvocations' # pendingInvocations

\* The routing decision, under the state lock.
Route(v) ==
  /\ callAt[v] = "route"
  /\ \/ /\ state = "Running"
        /\ callAt' = [callAt EXCEPT ![v] = "admit"]
        /\ UNCHANGED <<result, pendingInvocations, spawnRequests>>
     \/ /\ state = "Starting" /\ BufferOpen
        /\ Buffers(v) /\ UNCHANGED spawnRequests
     \/ /\ state \in {"Stopped", "Failed"} /\ action[v] \in Activating /\ BufferOpen
        /\ Buffers(v)
        /\ IF Accepted THEN RequestSpawn ELSE UNCHANGED spawnRequests
     \/ /\ state \in {"Stopped", "Failed"} /\ action[v] \notin Activating
        /\ Reply(v, "service_unavailable")
        /\ UNCHANGED <<pendingInvocations, spawnRequests>>
  /\ UNCHANGED <<handleVars, pendingResponses, response, childVars, spawnerVars, waitVars,
                 forwarderVars, timerVars, action, expired, waiter, sentTo, shutdownVars>>

\* Admission by counter; an admitted invocation enters pending_responses
\* before its frame is sent.
Admit(v) ==
  /\ callAt[v] = "admit"
  /\ IF WaiterActive >= WaiterMax
     THEN Reply(v, "overloaded") /\ UNCHANGED <<waiter, pendingResponses>>
     ELSE /\ waiter' = [waiter EXCEPT ![v] = "waiting"]
          /\ pendingResponses' = pendingResponses \cup {v}
          /\ callAt' = [callAt EXCEPT ![v] = "send"] /\ result' = result
  /\ UNCHANGED <<handleVars, pendingInvocations, spawnRequests, response, childVars,
                 spawnerVars, waitVars, forwarderVars, timerVars, action, expired, sentTo,
                 shutdownVars>>

SendFails(v) ==
  /\ callAt[v] = "send" /\ SendCanFail
  /\ pendingResponses' = pendingResponses \ {v}
  /\ waiter' = [waiter EXCEPT ![v] = "done"]
  /\ Reply(v, "service_unavailable")
  /\ UNCHANGED <<handleVars, pendingInvocations, spawnRequests, response, childVars,
                 spawnerVars, waitVars, forwarderVars, timerVars, action, expired, sentTo,
                 shutdownVars>>

Sends(v) ==
  /\ callAt[v] = "send" /\ outgoing # None
  /\ Deliver(outgoing, v)
  /\ sentTo' = [sentTo EXCEPT ![v] = outgoing]

SendInvoke(v) ==
  /\ Sends(v)
  /\ callAt' = [callAt EXCEPT ![v] = "waiting"]
  /\ UNCHANGED <<handleVars, requestVars, proc, offers, stdout, spawnerVars, waitVars,
                 forwarderVars, timerVars, action, result, expired, waiter, shutdownVars>>

\* Sent, but the system has no thread for the waiter: the caller is told.
WaiterSpawnFails(v) ==
  /\ Sends(v)
  /\ pendingResponses' = pendingResponses \ {v}
  /\ waiter' = [waiter EXCEPT ![v] = "done"]
  /\ Reply(v, "error")
  /\ UNCHANGED <<handleVars, pendingInvocations, spawnRequests, response, proc, offers, stdout,
                 spawnerVars, waitVars, forwarderVars, timerVars, action, expired, shutdownVars>>

\* Mutant: the supervisor's own code word reaches the caller.
Mutant_ResultOf(r) == r
ResultOf(r) == CASE r = "ok" -> "ok" [] r = "error" -> "error" [] r = "exited" -> "service_unavailable"

WaiterAnswers(v) ==
  /\ waiter[v] = "waiting" /\ callAt[v] = "waiting" /\ response[v] # "none"
  /\ waiter' = [waiter EXCEPT ![v] = "done"]
  /\ Reply(v, ResultOf(response[v]))
  /\ UNCHANGED <<handleVars, requestVars, childVars, spawnerVars, waitVars, forwarderVars,
                 timerVars, action, expired, sentTo, shutdownVars>>

\* Mutant: the id stays in the map of pending responses.
Mutant_WaiterTimesOut(v) ==
  /\ waiter[v] = "waiting" /\ callAt[v] = "waiting" /\ response[v] = "none" /\ expired[v]
  /\ waiter' = [waiter EXCEPT ![v] = "done"]
  /\ Reply(v, "action_timeout")
  /\ UNCHANGED <<handleVars, requestVars, childVars, spawnerVars, waitVars, forwarderVars,
                 timerVars, action, expired, sentTo, shutdownVars>>

WaiterTimesOut(v) ==
  /\ waiter[v] = "waiting" /\ callAt[v] = "waiting" /\ response[v] = "none" /\ expired[v]
  /\ pendingResponses' = pendingResponses \ {v}
  /\ waiter' = [waiter EXCEPT ![v] = "done"]
  /\ Reply(v, "action_timeout")
  /\ UNCHANGED <<handleVars, pendingInvocations, spawnRequests, response, childVars,
                 spawnerVars, waitVars, forwarderVars, timerVars, action, expired, sentTo,
                 shutdownVars>>

\* action_timeout elapses ...
Deadline(v) ==
  /\ callAt[v] \notin {"new", "done"} /\ ~ expired[v]
  /\ expired' = [expired EXCEPT ![v] = TRUE]
  /\ UNCHANGED <<handleVars, requestVars, childVars, spawnerVars, waitVars, forwarderVars,
                 timerVars, callAt, action, result, waiter, sentTo, shutdownVars>>

\* ... and the caller stops waiting, wherever its invocation is.
CallerTimesOut(v) ==
  /\ expired[v] /\ result[v] = "none"
  /\ callAt[v] \in {"buffered", "waiting"} \/ (draining = v /\ Dispatching)
  /\ result' = [result EXCEPT ![v] = "action_timeout"]
  /\ UNCHANGED <<handleVars, requestVars, childVars, spawnerVars, waitVars, forwarderVars,
                 timerVars, callAt, action, expired, waiter, sentTo, shutdownVars>>
-----------------------------------------------------------------------------
(* shutdown_all *)

ShutdownStep(from, to) ==
  /\ shutdownAt = from /\ shutdownAt' = to
  /\ UNCHANGED <<outgoing, childPid, runtimeProvides, failures, requestVars, offers, stdin,
                 stdout, spawnerVars, waitVars, forwarderVars, timerVars, callVars>>

ShutdownBegins ==
  /\ MaxShutdowns = 1 /\ ShutdownStep("no", "check")
  /\ shuttingDown' = TRUE /\ UNCHANGED <<state, proc>>

\* A Running service is sent the shutdown notification; its state is read
\* and then written in two critical sections.
ShutdownNotifies ==
  /\ ShutdownStep("check", IF state = "Running" THEN "mark" ELSE "close")
  /\ UNCHANGED <<state, proc, shuttingDown>>

ShutdownMarks ==
  /\ ShutdownStep("mark", "close")
  /\ state' = "Stopped" /\ UNCHANGED <<proc, shuttingDown>>

ShutdownClosesSpawner ==
  /\ ShutdownStep("close", "join")
  /\ UNCHANGED <<state, proc, shuttingDown>>

\* Mutant: the spawner is not joined before the sweep.
Mutant_ShutdownJoinsSpawner ==
  /\ ShutdownStep("join", "sweep")
  /\ UNCHANGED <<state, proc, shuttingDown>>

ShutdownJoinsSpawner ==
  /\ spawnerAt = "exited"
  /\ ShutdownStep("join", "sweep")
  /\ UNCHANGED <<state, proc, shuttingDown>>

ShutdownSweeps ==
  /\ ShutdownStep("sweep", "done")
  /\ proc' = IF childPid # None THEN Killed(childPid) ELSE proc
  /\ UNCHANGED <<state, shuttingDown>>

Shutdown ==
  \/ ShutdownBegins \/ ShutdownNotifies \/ ShutdownMarks
  \/ ShutdownClosesSpawner \/ ShutdownJoinsSpawner \/ ShutdownSweeps
-----------------------------------------------------------------------------
Spawner ==
  \/ SpawnerTakes \/ SpawnerExits \/ Claim \/ ForkFails \/ Fork \/ Wire
  \/ InsertInitialize \/ SendInitialize \/ InitializeAnswered \/ InitializeTimesOut
  \/ SendInitialized \/ Transition \/ ResetInstance \/ SpawnForwarders
  \/ DrainOne \/ DrainEnds \/ StartFails \/ CloseOutgoing \/ FlushBuffer \/ Recheck

WaitThread(i) ==
  \/ ExitSeen(i) \/ StopForwarders(i) \/ TakeForwarders(i) \/ JoinForwarders(i)
  \/ FailPending(i) \/ DecideRestart(i)

Child(i) == ChildReplies(i) \/ ChildDies(i)

Caller(v) ==
  \/ Invoke(v) \/ Route(v) \/ Admit(v) \/ SendFails(v) \/ SendInvoke(v)
  \/ WaiterSpawnFails(v) \/ WaiterAnswers(v)

Timeout(v) == WaiterTimesOut(v) \/ Deadline(v) \/ CallerTimesOut(v)

Next ==
  \/ Spawner
  \/ \E i \in Instances : \/ Child(i) \/ Read(i) \/ WaitThread(i)
                          \/ ForwarderStops(i) \/ ForwarderFails(i)
  \/ RestartTimerFires \/ ActivationEvent
  \/ \E v \in Invocations : Caller(v) \/ Timeout(v)
  \/ Shutdown

Spec == Init /\ [][Next]_vars

\* The threads run, and so do the init timeout and the restart timers; a killed
\* process dies.  Nothing makes a plugin answer, exit or stay alive, and no
\* caller has to call.
Fairness ==
  /\ WF_vars(Spawner)
  /\ WF_vars(RestartTimerFires)
  /\ WF_vars(Shutdown /\ shuttingDown)
  /\ \A i \in Instances :
       /\ WF_vars(WaitThread(i)) /\ WF_vars(Read(i)) /\ WF_vars(ForwarderStops(i))
       /\ WF_vars(ChildDies(i) /\ proc[i] = "killed")
  /\ \A v \in Invocations : WF_vars(Caller(v) /\ callAt[v] # "new")

FairSpec == Spec /\ Fairness

\* Events the service subscribes to keep being published.
TrafficSpec == FairSpec /\ \A i \in Instances : WF_vars(ForwarderFails(i))
-----------------------------------------------------------------------------
\* The calls are interchangeable.
Symmetry ==
  {[v \in Invocations |-> f[v]] : f \in
     {g \in [Invocations -> Invocations] : \A v \in Invocations : \E w \in Invocations : g[w] = v}}
-----------------------------------------------------------------------------
(* Properties *)

\* A service in state Running has one instance behind all its fields: frames go
\* to the child whose pid is recorded, nobody has seen that child exit, and the
\* negotiated actions are the ones it offered ("a concurrent exit can't
\* half-clear the next instance's state").
RunningIsWired ==
  state = "Running" =>
    /\ outgoing # None /\ outgoing = childPid
    /\ waitAt[outgoing] = "waiting"
    /\ runtimeProvides = {offers[outgoing]}

\* An invocation in the startup buffer has somebody who will empty the buffer:
\* a start in progress, or a spawn request that will become one.  Otherwise its
\* caller hangs until action_timeout.
BufferedHasServer ==
  pendingInvocations # <<>> =>
    \/ spawnRequests > 0
    \/ spawnerAt \notin {"recv", "recheck", "exited"}
    \/ shuttingDown

\* Once the wait thread of an instance has failed the pending responses, no
\* invocation that was sent to that instance waits for a response any more: a
\* late sender cannot slip an entry in behind the drain.
NoneWaitsForTheDead ==
  \A i \in Instances, v \in Invocations :
    waitAt[i] \in {"decide", "done"} /\ sentTo[v] = i => v \notin pendingResponses

\* An admitted invocation holds a slot until its waiter thread ends, and its id
\* stays pending exactly as long as nobody has answered it.
WaitersAreAccounted ==
  /\ WaiterActive <= WaiterMax
  /\ \A v \in Invocations :
       v \in pendingResponses => waiter[v] = "waiting" /\ response[v] = "none"

\* Nobody is left waiting for an answer that cannot come: not in the buffer of a
\* service that nobody starts, and not past the places there are for waiters
\* (invoke_remote, dispatch_invocation).
NoneIsForgotten == WaitersAreAccounted /\ BufferedHasServer

\* handle_exit cleans up after the instance that exited and no other: "a
\* concurrent start_service can't observe a partly-cleaned instance and race a
\* replacement".
LeavesReplacement ==
  \A i \in Instances : FailPending(i) =>
    \A x \in pendingResponses : x = i \/ (x \in Invocations /\ sentTo[x] \in {None, i})
ReplacementUntouched == [][LeavesReplacement]_vars

\* At most one child of the service runs that nobody has tried to kill.
OneInstance ==
  \A i, j \in Instances : proc[i] = "alive" /\ proc[j] = "alive" => i = j

\* When shutdown_all returns, every child has been sent SIGKILL or is gone
\* already ("SIGKILL sweep"; the spawner's re-check covers what it raced past).
SweepKillsAll ==
  shutdownAt = "done" => \A i \in Instances : proc[i] # "alive"

\* The supervisor never loses sight of a child: of two it knows of, one has been killed,
\* and when shutdown_all has returned none is left alive.
OneChildAtMost == TypeOK /\ OneInstance /\ SweepKillsAll

\* "manifest-approved actions the runtime didn't claim return service_degraded,
\* never reaching the running service" (docs/architecture.md).
DegradedNeverReaches ==
  \A v \in Invocations : sentTo[v] # None => action[v] \in offers[sentTo[v]]

\* "Failed: Stays here unless an activation re-arms it" (ServiceState).
FailedStays == [][state = "Failed" => state' \in {"Failed", "Starting"}]_vars

\* "back off exponentially on repeated failures (1s, 2s, 4s, capped at 60s)"
\* (docs/service-plugins.md): the k-th restart in a row of crashes waits twice
\* as long as the one before.
DelaysDouble ==
  \A k \in DOMAIN delays : delays[k] = Least(2 ^ (k - 1), 60)

\* on-crash: a child that crashed by itself is followed by another start, or at
\* least by an attempt ("on-crash - restart only on non-zero exit; back off
\* exponentially on repeated failures", docs/service-plugins.md).
CrashIsRetried ==
  \A i \in Instances : proc[i] = "crashed" /\ ~ shuttingDown ~>
    shuttingDown \/ spawnerAt = "fork"

\* A crash the supervisor saw while the service was Running leads to another
\* start: back to the point where the spawner forks.
RunningCrashIsRetried ==
  \A i \in Instances :
    wasRunning[i] /\ proc[i] # "exited" /\ waitAt[i] \notin {"waiting", "done"}
      ~> shuttingDown \/ spawnerAt = "fork"

\* Callers do not have to wait for action_timeout when the service dies, nor in
\* the startup buffer: the drain and the flush reach every one of them.
DeathIsReported ==
  \A v \in Invocations :
    /\ (\E i \in Instances : sentTo[v] = i /\ Dead(i)) ~> result[v] # "none"
    /\ callAt[v] = "buffered" ~> callAt[v] # "buffered" \/ shuttingDown

\* "if the forwarder is somehow stuck we'd rather leak it [...] than block
\* handle_exit forever" (handle_exit): joining the forwarders ends.
JoiningEnds == \A i \in Instances : waitAt[i] = "join" ~> waitAt[i] # "join"

\* shutdown_all returns.
ShutdownEnds == shuttingDown ~> shutdownAt = "done"
=============================================================================
