------------------------------ MODULE ActionPool ------------------------------
(***************************************************************************)
(* The action registry of nestty-core (action_registry.rs) on top of its   *)
(* bounded worker pool (thread_pool.rs).                                   *)
(*                                                                         *)
(* A request names an action; the registry looks the action up and either  *)
(* runs its handler on the calling thread or hands a job to the pool.  The *)
(* handler's result is announced on the bus as <action>.completed or       *)
(* <action>.failed and only then given to the request's responder.         *)
(***************************************************************************)
EXTENDS Naturals, Sequences, FiniteSets, FiniteSetTheorems, SequenceTheorems, TLAPS

CONSTANTS
  Requests,    \* one element per call of try_dispatch / invoke / try_invoke
  Workers,     \* the pool's threads
  Actions,     \* action names
  QueueCap,    \* capacity of the job channel
  NoEntry,     \* an action name that is not registered
  NoRequest,   \* a worker that holds no job
  Owner        \* whoever drops the pool outside the worker threads

ASSUME WorkersAssumption == IsFiniteSet(Workers) /\ Workers # {}
ASSUME QueueCapAssumption == QueueCap \in Nat \ {0}

\* The flags of the four register functions.
Entries == [blocking : BOOLEAN, silent : BOOLEAN]

ASSUME FreshValues ==
  /\ NoEntry \notin Entries /\ NoRequest \notin Requests
  /\ {Owner, "held", "dropped"} \cap Workers = {} /\ Owner \notin {"held", "dropped"}
ASSUME NoneIsFresh == "none" \notin Workers \cup {Owner}

VARIABLES
  entries,     \* action name -> flags, the registry's map
  pc,          \* how far each request is
  action,      \* the action a request names
  silent,      \* the silent flag captured when the request was looked up
  outcome,     \* the handler's result, or "overloaded" for a rejected job
  bus,         \* the completion events published, oldest first
  open,        \* the pool still holds the sending end of the job channel
  queue,       \* the job channel
  active,      \* the pool's counter of running jobs
  wpc,         \* where each worker is in worker_loop
  wjob,        \* the job each worker holds
  dropping     \* "none": no pool; or who is inside ThreadPool::drop, and before and after

registryVars == <<entries, action, silent>>
poolVars == <<open, queue, active, wpc, wjob, dropping>>
vars == <<entries, pc, action, silent, outcome, bus,
          open, queue, active, wpc, wjob, dropping>>

Stages == {"new", "queued", "taken", "handling", "publishing", "responding",
           "answered", "lost", "unknown"}
Outcomes == {"none", "ok", "err", "overloaded"}
Kinds == {"completed", "failed"}
Completion == [req : Requests, action : Actions, kind : Kinds]
Droppers == Workers \cup {Owner}
WorkerStages == {"recv", "taken", "running", "joining", "exited"}

TypeOK ==
  /\ entries \in [Actions -> Entries \cup {NoEntry}]
  /\ pc \in [Requests -> Stages]
  /\ action \in [Requests -> Actions]
  /\ silent \in [Requests -> BOOLEAN]
  /\ outcome \in [Requests -> Outcomes]
  /\ bus \in Seq(Completion)
  /\ open \in BOOLEAN
  /\ queue \in Seq(Requests)
  /\ active \in Nat
  /\ wpc \in [Workers -> WorkerStages]
  /\ wjob \in [Workers -> Requests \cup {NoRequest}]
  /\ dropping \in Droppers \cup {"none", "held", "dropped"}

Init ==
  /\ entries \in [Actions -> Entries \cup {NoEntry}]
  /\ pc = [r \in Requests |-> "new"]
  /\ action \in [Requests -> Actions]
  /\ silent = [r \in Requests |-> FALSE]
  /\ outcome = [r \in Requests |-> "none"]
  /\ bus = <<>>
  /\ queue = <<>>
  /\ active = 0
  /\ wpc = [w \in Workers |-> "recv"]
  /\ wjob = [w \in Workers |-> NoRequest]
  /\ dropping \in {"none", "held"}
  /\ open = (dropping = "held")
-----------------------------------------------------------------------------
(* The registry *)

Registered(r) == entries[action[r]] # NoEntry

\* with_pool is called before dispatch starts, or never.
PoolWired == dropping # "none"

\* Nobody can call into the registry once the last reference to the pool,
\* which the registry holds, is gone.
InUse == dropping \in {"none", "held"}

Callable(r) == pc[r] = "new" /\ InUse

\* register, register_silent, register_blocking, register_blocking_silent:
\* the entry is replaced whether or not there was one.
Register(a, e) ==
  /\ InUse
  /\ entries' = [entries EXCEPT ![a] = e]
  /\ UNCHANGED <<pc, action, silent, outcome, bus, poolVars>>

\* Every entry point clones the flags out of the map under the read lock and
\* works on the clone.
LookUp(r) == silent' = [silent EXCEPT ![r] = entries[action[r]].silent]

\* try_dispatch returns false, try_invoke returns None, invoke returns
\* action_not_found: no handler, no event, no responder.
CallUnknown(r) ==
  /\ Callable(r)
  /\ ~ Registered(r)
  /\ pc' = [pc EXCEPT ![r] = "unknown"]
  /\ UNCHANGED <<registryVars, outcome, bus, poolVars>>

\* try_dispatch of a sync handler, and invoke / try_invoke of any handler.
CallInline(r) ==
  /\ Callable(r)
  /\ Registered(r)
  /\ LookUp(r)
  /\ pc' = [pc EXCEPT ![r] = "handling"]
  /\ UNCHANGED <<entries, action, outcome, bus, poolVars>>

\* try_dispatch of a blocking handler with a pool: try_execute under the
\* lock on the sender.
Accepts == open /\ Len(queue) < QueueCap

DispatchAccepted(r) ==
  /\ Callable(r)
  /\ Registered(r) /\ entries[action[r]].blocking /\ PoolWired
  /\ Accepts
  /\ LookUp(r)
  /\ queue' = Append(queue, r)
  /\ pc' = [pc EXCEPT ![r] = "queued"]
  /\ UNCHANGED <<entries, action, outcome, bus, open, active, wpc, wjob, dropping>>

\* Mutant: a rejected caller is told, the bus is not.
Mutant_DispatchRejected(r) ==
  /\ Callable(r)
  /\ Registered(r) /\ entries[action[r]].blocking /\ PoolWired
  /\ ~ Accepts
  /\ LookUp(r)
  /\ outcome' = [outcome EXCEPT ![r] = "overloaded"]
  /\ pc' = [pc EXCEPT ![r] = "responding"]
  /\ UNCHANGED <<entries, action, bus, poolVars>>

\* Full or shut down: the caller cancels the job itself, with an error that
\* takes the same way out as a result.
DispatchRejected(r) ==
  /\ Callable(r)
  /\ Registered(r) /\ entries[action[r]].blocking /\ PoolWired
  /\ ~ Accepts
  /\ LookUp(r)
  /\ outcome' = [outcome EXCEPT ![r] = "overloaded"]
  /\ pc' = [pc EXCEPT ![r] = "publishing"]
  /\ UNCHANGED <<entries, action, bus, poolVars>>

\* try_dispatch of a blocking handler without a pool: a thread of its own.
DispatchSpawned(r) ==
  /\ Callable(r)
  /\ Registered(r) /\ entries[action[r]].blocking /\ ~ PoolWired
  /\ LookUp(r)
  /\ pc' = [pc EXCEPT ![r] = "handling"]
  /\ UNCHANGED <<entries, action, outcome, bus, poolVars>>
-----------------------------------------------------------------------------
(* What the thread that runs a request does, whichever thread it is *)

\* The request is on a worker that is stuck joining the other workers.
Stalled(r) == \E w \in Workers : wjob[w] = r /\ wpc[w] = "joining"

\* Mutant: an error is answered at once.
Mutant_HandlerReturns(r) ==
  /\ pc[r] = "handling" /\ ~ Stalled(r)
  /\ \E o \in {"ok", "err"} :
       /\ outcome' = [outcome EXCEPT ![r] = o]
       /\ pc' = [pc EXCEPT ![r] = IF o = "ok" THEN "publishing" ELSE "responding"]
  /\ UNCHANGED <<registryVars, bus, poolVars>>

HandlerReturns(r) ==
  /\ pc[r] = "handling" /\ ~ Stalled(r)
  /\ \E o \in {"ok", "err"} : outcome' = [outcome EXCEPT ![r] = o]
  /\ pc' = [pc EXCEPT ![r] = "publishing"]
  /\ UNCHANGED <<registryVars, bus, poolVars>>

\* The panic unwinds past the event and the responder.
HandlerPanics(r) ==
  /\ pc[r] = "handling" /\ ~ Stalled(r)
  /\ pc' = [pc EXCEPT ![r] = "lost"]
  /\ UNCHANGED <<registryVars, outcome, bus, poolVars>>

KindOf(o) == IF o = "ok" THEN "completed" ELSE "failed"

PublishCompletion(r) ==
  /\ pc[r] = "publishing" /\ ~ Stalled(r)
  /\ bus' = IF silent[r] THEN bus
            ELSE Append(bus, [req |-> r, action |-> action[r], kind |-> KindOf(outcome[r])])
  /\ pc' = [pc EXCEPT ![r] = "responding"]
  /\ UNCHANGED <<registryVars, outcome, poolVars>>

Respond(r) ==
  /\ pc[r] = "responding" /\ ~ Stalled(r)
  /\ pc' = [pc EXCEPT ![r] = "answered"]
  /\ UNCHANGED <<registryVars, outcome, bus, poolVars>>
-----------------------------------------------------------------------------
(* The pool *)

\* Mutant: the job stays in the channel.
Mutant_Recv(w) ==
  /\ wpc[w] = "recv" /\ queue # <<>>
  /\ wjob' = [wjob EXCEPT ![w] = Head(queue)]
  /\ wpc' = [wpc EXCEPT ![w] = "taken"]
  /\ pc' = [pc EXCEPT ![Head(queue)] = "taken"]
  /\ UNCHANGED <<registryVars, outcome, bus, open, queue, active, dropping>>

\* rx.recv() returns a job.
Recv(w) ==
  /\ wpc[w] = "recv" /\ queue # <<>>
  /\ queue' = Tail(queue)
  /\ wjob' = [wjob EXCEPT ![w] = Head(queue)]
  /\ wpc' = [wpc EXCEPT ![w] = "taken"]
  /\ pc' = [pc EXCEPT ![Head(queue)] = "taken"]
  /\ UNCHANGED <<registryVars, outcome, bus, open, active, dropping>>

\* Mutant: the job runs uncounted.
Mutant_StartJob(w) ==
  /\ wpc[w] = "taken"
  /\ wpc' = [wpc EXCEPT ![w] = "running"]
  /\ pc' = [pc EXCEPT ![wjob[w]] = "handling"]
  /\ UNCHANGED <<registryVars, outcome, bus, open, queue, active, wjob, dropping>>

\* active.fetch_add, then job.run() under catch_unwind.
StartJob(w) ==
  /\ wpc[w] = "taken"
  /\ active' = active + 1
  /\ wpc' = [wpc EXCEPT ![w] = "running"]
  /\ pc' = [pc EXCEPT ![wjob[w]] = "handling"]
  /\ UNCHANGED <<registryVars, outcome, bus, open, queue, wjob, dropping>>

\* job.run() returned or panicked; active.fetch_sub.
FinishJob(w) ==
  /\ wpc[w] = "running" /\ pc[wjob[w]] \in {"answered", "lost"}
  /\ active' = active - 1
  /\ wjob' = [wjob EXCEPT ![w] = NoRequest]
  /\ wpc' = [wpc EXCEPT ![w] = "recv"]
  /\ UNCHANGED <<registryVars, pc, outcome, bus, open, queue, dropping>>

\* Mutant: the worker looks for shutdown before it looks at the channel.
Mutant_WorkerExits(w) ==
  /\ wpc[w] = "recv" /\ ~ open
  /\ wpc' = [wpc EXCEPT ![w] = "exited"]
  /\ UNCHANGED <<registryVars, pc, outcome, bus, open, queue, active, wjob, dropping>>

\* rx.recv() fails only when the sender is gone and the channel is drained.
WorkerExits(w) ==
  /\ wpc[w] = "recv" /\ queue = <<>> /\ ~ open
  /\ wpc' = [wpc EXCEPT ![w] = "exited"]
  /\ UNCHANGED <<registryVars, pc, outcome, bus, open, queue, active, wjob, dropping>>

Shutdown ==
  /\ dropping = "held"
  /\ open' = FALSE
  /\ UNCHANGED <<registryVars, pc, outcome, bus, queue, active, wpc, wjob, dropping>>

\* A call in progress on a caller's own thread keeps the registry, and with it
\* the pool, alive.
CallerInside ==
  \E r \in Requests : /\ pc[r] \in {"handling", "publishing", "responding"}
                      /\ \A w \in Workers : wjob[w] # r

\* The last reference to the pool goes away: on a thread of its owner, or on
\* a worker whose running job held it.  drop() shuts down and starts joining.
DropPool(d) ==
  /\ dropping = "held" /\ ~ CallerInside
  /\ d \in Workers => wpc[d] = "running"
  /\ open' = FALSE
  /\ dropping' = d
  /\ wpc' = IF d \in Workers THEN [wpc EXCEPT ![d] = "joining"] ELSE wpc
  /\ UNCHANGED <<registryVars, pc, outcome, bus, queue, active, wjob>>

\* Mutant: drop joins the thread it runs on.
Mutant_Joined(d) == Workers

\* The threads drop() joins: all but the one it runs on.
Joined(d) == Workers \ {d}

DropReturns ==
  /\ dropping \in Droppers
  /\ \A w \in Joined(dropping) : wpc[w] = "exited"
  /\ wpc' = IF dropping \in Workers THEN [wpc EXCEPT ![dropping] = "running"] ELSE wpc
  /\ dropping' = "dropped"
  /\ UNCHANGED <<registryVars, pc, outcome, bus, open, queue, active, wjob>>
-----------------------------------------------------------------------------
Call(r) ==
  \/ CallUnknown(r) \/ CallInline(r)
  \/ DispatchAccepted(r) \/ DispatchRejected(r) \/ DispatchSpawned(r)

Run(r) == HandlerReturns(r) \/ HandlerPanics(r) \/ PublishCompletion(r) \/ Respond(r)

Work(w) == Recv(w) \/ StartJob(w) \/ FinishJob(w) \/ WorkerExits(w)

Next ==
  \/ \E a \in Actions, e \in Entries : Register(a, e)
  \/ \E r \in Requests : Call(r) \/ Run(r)
  \/ \E w \in Workers : Work(w)
  \/ Shutdown
  \/ \E d \in Droppers : DropPool(d)
  \/ DropReturns

Spec == Init /\ [][Next]_vars

\* The threads run: a handler returns or panics (every blocking handler of the
\* daemon waits with a timeout), a worker takes jobs while there are any, and
\* join returns once the threads it joins are gone.
Fairness ==
  /\ \A r \in Requests : WF_vars(Run(r))
  /\ \A w \in Workers : WF_vars(Work(w))
  /\ WF_vars(DropReturns)

FairSpec == Spec /\ Fairness
-----------------------------------------------------------------------------
(* Properties *)

EventsOf(r) == {i \in DOMAIN bus : bus[i].req = r}

\* One event, and that one tells how the handler (or the rejection) ended.
Announced(r) ==
  \E i \in EventsOf(r) : /\ EventsOf(r) = {i}
                         /\ bus[i].kind = KindOf(outcome[r])
                         /\ bus[i].action = action[r]

\* A request has no event before its handler returned and, unless it was looked
\* up as silent, exactly one from then on.  A request lost to a panic never has
\* one: the module preamble's "no completion is published" and the doc of
\* completion_bus, "BEFORE the caller's Responder fires".
AnnouncedExactlyOnce ==
  \A r \in Requests :
    IF pc[r] \in {"responding", "answered"} /\ ~ silent[r]
    THEN Announced(r)
    ELSE EventsOf(r) = {}

\* A job accepted by the pool is in one place: once in the channel, or in the
\* hands of one worker; a job the channel refused is in neither.  Two workers
\* share the receiver, callers and shutdown race for the sender.
OneHolder ==
  /\ \A i, j \in DOMAIN queue : queue[i] = queue[j] => i = j
  /\ \A v, w \in Workers : wjob[v] = wjob[w] /\ wjob[v] # NoRequest => v = w
  /\ \A r \in Requests :
       /\ pc[r] = "queued" <=> \E i \in DOMAIN queue : queue[i] = r
       /\ pc[r] = "taken" <=> \E w \in Workers : wjob[w] = r /\ wpc[w] = "taken"
       /\ outcome[r] = "overloaded" => \A w \in Workers : wjob[w] # r

\* The workers inside job.run().
Busy == {w \in Workers : wpc[w] \in {"running", "joining"}}

\* PoolStats.active is the number of workers inside job.run(), also when the
\* job panicked or dropped the pool, so what daemon.info reports never drifts.
ActiveCountsRunning == active = Cardinality(Busy)

\* Once ThreadPool::drop has returned, every worker but the one it may have
\* run on is gone, and no accepted job is left behind: the channel is empty,
\* or the pool's only worker dropped it from inside and is there to drain it.
DropDrains ==
  dropping = "dropped" =>
    /\ \E w \in Workers : \A v \in Workers \ {w} : wpc[v] = "exited"
    /\ queue # <<>> => \E w \in Workers : Workers = {w} /\ wpc[w] # "exited"

\* Joining never waits for the thread it runs on ("Joining the current thread
\* would deadlock; detach it instead").
DropEnds == dropping \in Droppers ~> dropping = "dropped"

\* What the registry promises a caller, whatever pool it runs on.
ContractStage(r) ==
  CASE pc[r] \in {"queued", "taken", "handling", "publishing"} -> "pending"
    [] pc[r] = "responding" -> "announced"
    [] OTHER -> pc[r]

Contract == INSTANCE RequestContract WITH
  stage <- [r \in Requests |-> ContractStage(r)],
  events <- bus

ImplementsContract == Contract!FairSpec

-----------------------------------------------------------------------------
(* Proofs: safety for any number of requests, workers and places in the    *)
(* channel.  None of the invariants the runs check is inductive alone:     *)
(* that a completion is announced once needs OneHolder (a job is taken     *)
(* from the channel once), which needs Linked (a worker's job is as far as *)
(* the worker), and that drop() drains the channel needs Closed.           *)
(* Invariance proves them together; the theorems after it follow from it.  *)

RunningStages == {"handling", "publishing", "responding", "answered", "lost"}

\* What a worker holds, and how far that request is.
Linked ==
  /\ \A w \in Workers : wjob[w] = NoRequest <=> wpc[w] \in {"recv", "exited"}
  /\ \A w \in Workers : wpc[w] \in {"running", "joining"} => pc[wjob[w]] \in RunningStages
  /\ \A r \in Requests : outcome[r] = "overloaded" =>
                           pc[r] \in {"publishing", "responding", "answered"}

DropperJoins == \A w \in Workers : wpc[w] = "joining" <=> dropping = w

IInv == TypeOK /\ ActiveCountsRunning /\ Linked /\ OneHolder /\ DropperJoins

\* The running workers can be counted.
LEMMA BusyFinite == IsFiniteSet(Busy) /\ Cardinality(Busy) \in Nat
  BY WorkersAssumption, FS_Subset, FS_CardinalityType DEF Busy

\* Every step keeps the types; FinishJob because the counter is not 0 then.
LEMMA TypeStep ==
  ASSUME IInv, [Next]_vars
  PROVE  TypeOK'
<1>0. USE FreshValues DEF TypeOK, Entries, Stages, Outcomes, WorkerStages,
        registryVars, poolVars
<1> TypeOK BY DEF IInv
<1>1. ASSUME NEW a \in Actions, NEW e \in Entries, Register(a, e) PROVE TypeOK'
  BY <1>1 DEF Register
<1>2. ASSUME NEW r \in Requests, Call(r) PROVE TypeOK'
  <2>1. CASE CallUnknown(r)
    BY <2>1 DEF CallUnknown
  <2>2. CASE CallInline(r)
    BY <2>2 DEF CallInline, LookUp, Registered
  <2>3. CASE DispatchAccepted(r)
    BY <2>3 DEF DispatchAccepted, LookUp, Registered
  <2>4. CASE DispatchRejected(r)
    BY <2>4 DEF DispatchRejected, LookUp, Registered
  <2>5. CASE DispatchSpawned(r)
    BY <2>5 DEF DispatchSpawned, LookUp, Registered
  <2> QED BY <1>2, <2>1, <2>2, <2>3, <2>4, <2>5 DEF Call
<1>3. ASSUME NEW r \in Requests, Run(r) PROVE TypeOK'
  <2>1. CASE HandlerReturns(r)
    BY <2>1 DEF HandlerReturns
  <2>2. CASE HandlerPanics(r)
    BY <2>2 DEF HandlerPanics
  <2>3. CASE PublishCompletion(r)
    <3> DEFINE event == [req |-> r, action |-> action[r], kind |-> KindOf(outcome[r])]
    <3>1. event \in Completion
      BY DEF Completion, Kinds, KindOf
    <3>2. bus' = bus \/ bus' = Append(bus, event)
      BY <2>3 DEF PublishCompletion
    <3> HIDE DEF event
    <3>3. bus \in Seq(Completion)
      OBVIOUS
    <3>4. Append(bus, event) \in Seq(Completion)
      BY ONLY <3>1, <3>3, AppendProperties
    <3>5. bus' \in Seq(Completion)
      BY <3>2, <3>3, <3>4
    <3> QED BY <2>3, <3>5 DEF PublishCompletion
  <2>4. CASE Respond(r)
    BY <2>4 DEF Respond
  <2> QED BY <1>3, <2>1, <2>2, <2>3, <2>4 DEF Run
<1>4. ASSUME NEW w \in Workers, Work(w) PROVE TypeOK'
  <2>1. CASE Recv(w)
    BY <2>1 DEF Recv
  <2>2. CASE StartJob(w)
    <3>1. wjob[w] \in Requests
      BY <2>2 DEF StartJob, IInv, Linked
    <3>2. pc' \in [Requests -> Stages] /\ wpc' \in [Workers -> WorkerStages] /\ active' \in Nat
      BY <2>2, <3>1 DEF StartJob
    <3> QED BY <2>2, <3>2 DEF StartJob
  <2>3. CASE FinishJob(w)
    <3>1. w \in Busy
      BY <2>3 DEF FinishJob, Busy
    <3>2. active \in Nat \ {0}
      BY <3>1, BusyFinite, FS_EmptySet DEF IInv, ActiveCountsRunning
    <3> QED BY <2>3, <3>2 DEF FinishJob
  <2>4. CASE WorkerExits(w)
    BY <2>4 DEF WorkerExits
  <2> QED BY <1>4, <2>1, <2>2, <2>3, <2>4 DEF Work
<1>5. CASE Shutdown
  BY <1>5 DEF Shutdown
<1>6. ASSUME NEW d \in Droppers, DropPool(d) PROVE TypeOK'
  BY <1>6 DEF DropPool, Droppers
<1>7. CASE DropReturns
  BY <1>7 DEF DropReturns
<1>8. CASE UNCHANGED vars
  BY <1>8 DEF vars
<1> QED BY <1>1, <1>2, <1>3, <1>4, <1>5, <1>6, <1>7, <1>8 DEF Next

\* A worker is joining the others exactly when the pool is dropped on it.
LEMMA DropperStep ==
  ASSUME IInv, [Next]_vars
  PROVE  DropperJoins'
<1>0. USE FreshValues DEF TypeOK, DropperJoins, WorkerStages, registryVars, poolVars
<1> TypeOK /\ DropperJoins BY DEF IInv
<1>1. CASE UNCHANGED <<wpc, dropping>>
  BY <1>1
<1>2. ASSUME NEW w \in Workers, Work(w) PROVE DropperJoins'
  BY <1>2 DEF Work, Recv, StartJob, FinishJob, WorkerExits
<1>3. ASSUME NEW d \in Droppers, DropPool(d) PROVE DropperJoins'
  BY <1>3 DEF DropPool, Droppers
<1>4. CASE DropReturns
  BY <1>4 DEF DropReturns
<1> QED
  BY <1>1, <1>2, <1>3, <1>4
  DEF Next, Call, Run, vars, Register, Shutdown, CallUnknown, CallInline, DispatchAccepted,
      DispatchRejected, DispatchSpawned, HandlerReturns, HandlerPanics, PublishCompletion, Respond

\* Only StartJob and FinishJob change the counter, and the set it counts.
LEMMA CountStep ==
  ASSUME IInv, [Next]_vars
  PROVE  ActiveCountsRunning'
<1>0. USE FreshValues DEF TypeOK, ActiveCountsRunning, WorkerStages, registryVars, poolVars
<1> TypeOK /\ ActiveCountsRunning BY DEF IInv
<1>1. CASE UNCHANGED active /\ Busy' = Busy
  BY <1>1
<1>2. ASSUME NEW w \in Workers, StartJob(w) PROVE ActiveCountsRunning'
  <2>1. w \notin Busy /\ Busy' = Busy \cup {w}
    BY <1>2 DEF StartJob, Busy
  <2> QED BY <1>2, <2>1, BusyFinite, FS_AddElement DEF StartJob
<1>3. ASSUME NEW w \in Workers, FinishJob(w) PROVE ActiveCountsRunning'
  <2>1. w \in Busy /\ Busy' = Busy \ {w}
    BY <1>3 DEF FinishJob, Busy
  <2> QED BY <1>3, <2>1, BusyFinite, FS_RemoveElement DEF FinishJob
<1>4. ASSUME NEW w \in Workers, Recv(w) \/ WorkerExits(w) PROVE ActiveCountsRunning'
  BY <1>1, <1>4 DEF Recv, WorkerExits, Busy
<1>5. ASSUME NEW d \in Droppers, DropPool(d) PROVE ActiveCountsRunning'
  BY <1>1, <1>5 DEF DropPool, Busy
<1>6. CASE DropReturns
  BY <1>1, <1>6 DEF DropReturns, Busy, IInv, DropperJoins
<1>7. CASE UNCHANGED <<active, wpc>>
  BY <1>1, <1>7 DEF Busy
<1> QED
  BY <1>2, <1>3, <1>4, <1>5, <1>6, <1>7
  DEF Next, Call, Run, Work, vars, Register, Shutdown, CallUnknown, CallInline,
      DispatchAccepted, DispatchRejected, DispatchSpawned, HandlerReturns, HandlerPanics,
      PublishCompletion, Respond

\* The job at the head of the channel is a request nobody has taken yet.
LEMMA QueuedHead ==
  ASSUME TypeOK, OneHolder, queue # <<>>
  PROVE  Head(queue) \in Requests /\ pc[Head(queue)] = "queued"
<1>1. 1 \in DOMAIN queue /\ Head(queue) = queue[1] /\ Head(queue) \in Requests
  BY DEF TypeOK
<1> QED BY <1>1 DEF OneHolder

\* Every step keeps a worker and its job in step with each other.
LEMMA LinkedStep ==
  ASSUME IInv, [Next]_vars
  PROVE  Linked'
<1>0. USE FreshValues DEF TypeOK, Linked, RunningStages, WorkerStages, Stages, Outcomes,
        registryVars, poolVars
<1> TypeOK /\ Linked /\ OneHolder BY DEF IInv
<1>1. ASSUME NEW r \in Requests, Call(r) PROVE Linked'
  <2>1. pc[r] = "new" /\ UNCHANGED <<wjob, wpc>>
    BY <1>1 DEF Call, Callable, CallUnknown, CallInline, DispatchAccepted, DispatchRejected,
                DispatchSpawned
  <2>2. ASSUME NEW w \in Workers, wjob[w] = r PROVE FALSE
    <3>1. wpc[w] \in {"taken", "running", "joining"}
      BY <2>2
    <3>2. wpc[w] = "taken" => pc[r] = "taken"
      BY <2>2 DEF OneHolder
    <3> QED BY <2>1, <2>2, <3>1, <3>2
  <2>3. CASE DispatchRejected(r)
    BY <2>1, <2>2, <2>3 DEF DispatchRejected
  <2>4. CASE ~ DispatchRejected(r)
    <3>1. outcome' = outcome /\ \E s \in Stages : pc' = [pc EXCEPT ![r] = s]
      BY <1>1, <2>4 DEF Call, CallUnknown, CallInline, DispatchAccepted, DispatchSpawned
    <3> QED BY <2>1, <2>2, <3>1
  <2> QED BY <2>3, <2>4
<1>2. ASSUME NEW r \in Requests, Run(r) PROVE Linked'
  BY <1>2 DEF Run, HandlerReturns, HandlerPanics, PublishCompletion, Respond
<1>3. ASSUME NEW w \in Workers, Recv(w) PROVE Linked'
  <2>1. Head(queue) \in Requests /\ pc[Head(queue)] = "queued"
    BY <1>3, QueuedHead DEF Recv
  <2> QED BY <1>3, <2>1 DEF Recv
<1>4. ASSUME NEW w \in Workers, StartJob(w) PROVE Linked'
  BY <1>4 DEF StartJob, OneHolder
<1>5. ASSUME NEW w \in Workers, FinishJob(w) PROVE Linked'
  BY <1>5 DEF FinishJob
<1>6. ASSUME NEW w \in Workers, WorkerExits(w) PROVE Linked'
  BY <1>6 DEF WorkerExits
<1>7. ASSUME NEW d \in Droppers, DropPool(d) PROVE Linked'
  BY <1>7 DEF DropPool
<1>8. CASE DropReturns
  BY <1>8 DEF DropReturns, IInv, DropperJoins
<1>9. CASE UNCHANGED <<wjob, wpc, pc, outcome>>
  BY <1>9
<1> QED
  BY <1>1, <1>2, <1>3, <1>4, <1>5, <1>6, <1>7, <1>8, <1>9
  DEF Next, Work, vars, Register, Shutdown

\* A job is in the channel once, or on one worker, after every step.
LEMMA OneHolderStep ==
  ASSUME IInv, [Next]_vars
  PROVE  OneHolder'
<1>0. USE FreshValues DEF TypeOK, OneHolder, WorkerStages, Stages, Outcomes,
        registryVars, poolVars
<1> TypeOK /\ OneHolder /\ Linked BY DEF IInv
<1>1. ASSUME NEW r \in Requests, NEW s \in Stages \ {"queued", "taken"},
             pc[r] \notin {"queued", "taken"}, pc' = [pc EXCEPT ![r] = s],
             UNCHANGED <<queue, wjob, wpc>>,
             \A q \in Requests : outcome'[q] = "overloaded" =>
               outcome[q] = "overloaded" \/ (q = r /\ \A w \in Workers : wjob[w] # r)
      PROVE  OneHolder'
  <2>1. \A q \in Requests : pc'[q] = "queued" <=> pc[q] = "queued"
    BY <1>1
  <2>2. \A q \in Requests : pc'[q] = "taken" <=> pc[q] = "taken"
    BY <1>1
  <2>3. \A q \in Requests : outcome'[q] = "overloaded" => \A w \in Workers : wjob'[w] # q
    BY <1>1
  <2> QED BY <1>1, <2>1, <2>2, <2>3
<1>2. ASSUME NEW r \in Requests, CallUnknown(r) \/ CallInline(r) \/ DispatchSpawned(r)
      PROVE  OneHolder'
  BY <1>1, <1>2 DEF Callable, CallUnknown, CallInline, DispatchSpawned
<1>3. ASSUME NEW r \in Requests, DispatchRejected(r) PROVE OneHolder'
  <2>1. pc[r] = "new"
    BY <1>3 DEF DispatchRejected, Callable
  <2>2. \A w \in Workers : wjob[w] # r
    BY <2>1 DEF Linked, RunningStages
  <2>3. /\ pc' = [pc EXCEPT ![r] = "publishing"] /\ UNCHANGED <<queue, wjob, wpc>>
        /\ outcome' = [outcome EXCEPT ![r] = "overloaded"]
    BY <1>3 DEF DispatchRejected
  <2> QED BY <1>1, <2>1, <2>2, <2>3
<1>4. ASSUME NEW r \in Requests, DispatchAccepted(r) PROVE OneHolder'
  <2>1. /\ DOMAIN queue' = 1 .. Len(queue) + 1
        /\ queue'[Len(queue) + 1] = r
        /\ \A i \in 1 .. Len(queue) : queue'[i] = queue[i]
    BY <1>4, AppendProperties DEF DispatchAccepted
  <2>2. /\ pc[r] = "new" /\ pc' = [pc EXCEPT ![r] = "queued"]
        /\ UNCHANGED <<outcome, wpc, wjob>>
    BY <1>4 DEF DispatchAccepted, Callable
  <2>3. Len(queue) \in Nat /\ DOMAIN queue = 1 .. Len(queue)
    BY LenProperties
  <2>4. \A i \in 1 .. Len(queue) : queue[i] # r
    BY <2>2, <2>3
  <2>5. \A i, j \in DOMAIN queue' : queue'[i] = queue'[j] => i = j
    BY <2>1, <2>3, <2>4
  <2>6. \A q \in Requests : pc'[q] = "queued" <=> \E i \in DOMAIN queue' : queue'[i] = q
    <3> TAKE q \in Requests
    <3>1. CASE q = r
      <4>1. Len(queue) + 1 \in DOMAIN queue'
        BY ONLY <2>1, <2>3
      <4> QED BY <2>1, <2>2, <3>1, <4>1
    <3>2. CASE q # r
      <4>1. (\E i \in DOMAIN queue' : queue'[i] = q) <=> \E i \in DOMAIN queue : queue[i] = q
        BY ONLY <2>1, <2>3, <3>2
      <4> QED BY <2>2, <3>2, <4>1
    <3> QED BY <3>1, <3>2
  <2>7. \A q \in Requests : pc'[q] = "taken" <=> pc[q] = "taken"
    BY <2>2
  <2> QED BY <2>2, <2>5, <2>6, <2>7
<1>12. ASSUME NEW r \in Requests, Run(r) PROVE OneHolder'
  BY <1>1, <1>12 DEF Run, HandlerReturns, HandlerPanics, PublishCompletion, Respond
<1>5. ASSUME NEW w \in Workers, Recv(w) PROVE OneHolder'
  <2> DEFINE h == Head(queue)
  <2>1. h \in Requests /\ pc[h] = "queued"
    BY <1>5, QueuedHead DEF Recv
  <2>2. /\ DOMAIN queue' = 1 .. Len(queue) - 1
        /\ \A i \in DOMAIN queue' : queue'[i] = queue[i + 1]
        /\ h = queue[1] /\ 1 \in DOMAIN queue
    BY <1>5 DEF Recv
  <2>3. /\ wjob' = [wjob EXCEPT ![w] = h] /\ wpc' = [wpc EXCEPT ![w] = "taken"]
        /\ pc' = [pc EXCEPT ![h] = "taken"] /\ UNCHANGED outcome
    BY <1>5 DEF Recv
  <2>4. \A v \in Workers : wjob[v] # h
    BY <2>1 DEF Linked, RunningStages
  <2>5. outcome[h] # "overloaded"
    BY <2>1 DEF Linked
  <2> HIDE DEF h
  <2>6. \A i, j \in DOMAIN queue' : queue'[i] = queue'[j] => i = j
    BY <2>2
  <2>7. \A u, v \in Workers : wjob'[u] = wjob'[v] /\ wjob'[v] # NoRequest => u = v
    BY <2>3, <2>4
  <2>8. ASSUME NEW r \in Requests
        PROVE  pc'[r] = "queued" <=> \E i \in DOMAIN queue' : queue'[i] = r
    <3>0. Len(queue) \in Nat /\ DOMAIN queue = 1 .. Len(queue)
      BY LenProperties
    <3>1. CASE r = h
      <4>1. ASSUME NEW i \in DOMAIN queue' PROVE queue'[i] # r
        <5>1. i + 1 \in DOMAIN queue /\ i + 1 # 1
          BY ONLY <2>2, <3>0
        <5> QED BY <2>2, <3>1, <5>1
      <4> QED BY <2>1, <2>3, <3>1, <4>1
    <3>2. CASE r # h
      <4>1. ASSUME NEW i \in DOMAIN queue, queue[i] = r
            PROVE  i - 1 \in DOMAIN queue' /\ queue'[i - 1] = r
        BY ONLY <2>2, <3>0, <3>2, <4>1
      <4>2. ASSUME NEW i \in DOMAIN queue', queue'[i] = r
            PROVE  i + 1 \in DOMAIN queue /\ queue[i + 1] = r
        BY ONLY <2>2, <3>0, <4>2
      <4>3. (\E i \in DOMAIN queue' : queue'[i] = r) <=> \E i \in DOMAIN queue : queue[i] = r
        BY <4>1, <4>2
      <4> QED BY <2>3, <3>2, <4>3
    <3> QED BY <3>1, <3>2
  <2>9. ASSUME NEW r \in Requests
        PROVE  pc'[r] = "taken" <=> \E v \in Workers : wjob'[v] = r /\ wpc'[v] = "taken"
    <3>1. wpc[w] = "recv"
      BY <1>5 DEF Recv
    <3> QED BY <2>1, <2>3, <2>4, <3>1
  <2>10. \A r \in Requests : outcome'[r] = "overloaded" => \A v \in Workers : wjob'[v] # r
    BY <2>3, <2>5
  <2> QED BY <2>6, <2>7, <2>8, <2>9, <2>10
<1>6. ASSUME NEW w \in Workers, StartJob(w) PROVE OneHolder'
  BY <1>6 DEF StartJob, Linked
<1>7. ASSUME NEW w \in Workers, FinishJob(w) PROVE OneHolder'
  BY <1>7 DEF FinishJob, Linked
<1>8. ASSUME NEW w \in Workers, WorkerExits(w) PROVE OneHolder'
  BY <1>8 DEF WorkerExits
<1>9. ASSUME NEW d \in Droppers, DropPool(d) PROVE OneHolder'
  BY <1>9 DEF DropPool
<1>10. CASE DropReturns
  BY <1>10 DEF DropReturns, IInv, DropperJoins
<1>11. CASE UNCHANGED <<pc, outcome, queue, wjob, wpc>>
  BY <1>11
<1> QED
  BY <1>2, <1>3, <1>4, <1>5, <1>6, <1>7, <1>8, <1>9, <1>10, <1>11, <1>12
  DEF Next, Call, Work, vars, Register, Shutdown

-----------------------------------------------------------------------------
\* Only PublishCompletion announces, and it does so for a request that had no
\* event.
LEMMA AnnouncedStep ==
  ASSUME IInv, AnnouncedExactlyOnce, [Next]_vars
  PROVE  AnnouncedExactlyOnce'
<1>0. USE FreshValues DEF TypeOK, Stages, Outcomes, registryVars, poolVars
<1> TypeOK /\ OneHolder /\ Linked BY DEF IInv
<1> DEFINE Answered(p, s) == p \in {"responding", "answered"} /\ ~ s
<1>1. ASSUME UNCHANGED bus,
             \A q \in Requests :
               /\ Answered(pc[q], silent[q]) <=> Answered(pc'[q], silent'[q])
               /\ Answered(pc[q], silent[q]) => outcome'[q] = outcome[q] /\ action'[q] = action[q]
      PROVE  AnnouncedExactlyOnce'
  <2>1. ASSUME NEW q \in Requests
        PROVE  IF Answered(pc'[q], silent'[q]) THEN Announced(q)' ELSE EventsOf(q)' = {}
    <3>1. EventsOf(q)' = EventsOf(q)
      BY <1>1 DEF EventsOf
    <3>2. CASE Answered(pc[q], silent[q])
      <4>1. Announced(q)
        BY <3>2 DEF AnnouncedExactlyOnce
      <4>2. Announced(q)'
        BY <1>1, <3>1, <3>2, <4>1 DEF Announced
      <4> QED BY <1>1, <3>2, <4>2
    <3>3. CASE ~ Answered(pc[q], silent[q])
      <4>1. EventsOf(q) = {}
        BY <3>3 DEF AnnouncedExactlyOnce
      <4> QED BY <1>1, <3>1, <3>3, <4>1
    <3> QED BY <3>2, <3>3
  <2> QED BY <2>1 DEF AnnouncedExactlyOnce
<1>2. ASSUME NEW r \in Requests, Call(r) PROVE AnnouncedExactlyOnce'
  BY <1>1, <1>2 DEF Call, Callable, LookUp, CallUnknown, CallInline, DispatchAccepted,
              DispatchRejected, DispatchSpawned
<1>3. ASSUME NEW r \in Requests, HandlerReturns(r) \/ HandlerPanics(r) \/ Respond(r)
      PROVE  AnnouncedExactlyOnce'
  BY <1>1, <1>3 DEF HandlerReturns, HandlerPanics, Respond
<1>4. ASSUME NEW r \in Requests, PublishCompletion(r) PROVE AnnouncedExactlyOnce'
  <2> DEFINE event == [req |-> r, action |-> action[r], kind |-> KindOf(outcome[r])]
  <2>1. /\ pc[r] = "publishing" /\ pc' = [pc EXCEPT ![r] = "responding"]
        /\ UNCHANGED <<silent, outcome, action>>
        /\ bus' = IF silent[r] THEN bus ELSE Append(bus, event)
    BY <1>4 DEF PublishCompletion
  <2>2. EventsOf(r) = {}
    BY <2>1 DEF AnnouncedExactlyOnce
  <2>3. CASE silent[r]
    BY <1>1, <2>1, <2>3
  <2>4. CASE ~ silent[r]
    <3>1. Len(bus) \in Nat /\ DOMAIN bus = 1 .. Len(bus)
      BY LenProperties
    <3>2. /\ DOMAIN bus' = 1 .. Len(bus) + 1
          /\ bus'[Len(bus) + 1] = event
          /\ \A i \in 1 .. Len(bus) : bus'[i] = bus[i]
      BY <2>1, <2>4
    <3>3. EventsOf(r)' = {Len(bus) + 1}
      BY <2>2, <3>1, <3>2 DEF EventsOf
    <3>4. \A q \in Requests \ {r} : EventsOf(q)' = EventsOf(q)
      BY <3>1, <3>2 DEF EventsOf
    <3>5. \A q \in Requests \ {r} : \A i \in EventsOf(q) : bus'[i] = bus[i]
      BY <3>1, <3>2 DEF EventsOf
    <3>6. Announced(r)'
      BY <2>1, <3>2, <3>3 DEF Announced
    <3>7. \A q \in Requests \ {r} : Announced(q) => Announced(q)'
      BY <2>1, <3>4, <3>5 DEF Announced
    <3> QED BY <2>1, <2>4, <3>4, <3>6, <3>7 DEF AnnouncedExactlyOnce
  <2> QED BY <2>3, <2>4
<1>5. ASSUME NEW w \in Workers, Recv(w) PROVE AnnouncedExactlyOnce'
  <2>1. Head(queue) \in Requests /\ pc[Head(queue)] = "queued"
    BY <1>5, QueuedHead DEF Recv
  <2> QED BY <1>1, <1>5, <2>1 DEF Recv
<1>6. ASSUME NEW w \in Workers, StartJob(w) PROVE AnnouncedExactlyOnce'
  <2>1. wjob[w] \in Requests /\ pc[wjob[w]] = "taken"
    BY <1>6 DEF StartJob, OneHolder, Linked
  <2> QED BY <1>1, <1>6, <2>1 DEF StartJob
<1>7. CASE UNCHANGED <<pc, action, silent, outcome, bus>>
  BY <1>1, <1>7
<1> QED
  BY <1>2, <1>3, <1>4, <1>5, <1>6, <1>7
  DEF Next, Run, Work, vars, Register, Shutdown, DropPool, DropReturns, FinishJob, WorkerExits

-----------------------------------------------------------------------------
\* A closed channel stays closed, and a worker leaves it only when it is empty.
Closed ==
  /\ dropping # "held" => ~ open
  /\ \A w \in Workers : wpc[w] = "exited" => ~ open /\ queue = <<>>

\* Nothing is sent into a closed channel.
LEMMA ClosedStep ==
  ASSUME IInv, Closed, [Next]_vars
  PROVE  Closed'
<1>0. USE FreshValues DEF TypeOK, Closed, WorkerStages, registryVars, poolVars
<1> TypeOK BY DEF IInv
<1>1. ASSUME NEW r \in Requests, DispatchAccepted(r) PROVE Closed'
  BY <1>1 DEF DispatchAccepted, Accepts
<1>2. ASSUME NEW w \in Workers, Work(w) PROVE Closed'
  BY <1>2 DEF Work, Recv, StartJob, FinishJob, WorkerExits
<1>3. CASE Shutdown
  BY <1>3 DEF Shutdown
<1>4. ASSUME NEW d \in Droppers, DropPool(d) PROVE Closed'
  BY <1>4 DEF DropPool
<1>5. CASE DropReturns
  BY <1>5 DEF DropReturns, Droppers
<1>6. CASE UNCHANGED <<dropping, open, wpc, queue>>
  BY <1>6
<1> QED
  BY <1>1, <1>2, <1>3, <1>4, <1>5, <1>6
  DEF Next, Call, Run, vars, Register, CallUnknown, CallInline, DispatchRejected,
      DispatchSpawned, HandlerReturns, HandlerPanics, PublishCompletion, Respond

\* drop() returns when the joined workers have left, and they leave only an
\* empty channel.
LEMMA DrainsStep ==
  ASSUME IInv, Closed, DropDrains, [Next]_vars
  PROVE  DropDrains'
<1>0. USE FreshValues DEF TypeOK, WorkerStages, registryVars, poolVars
<1> TypeOK /\ Closed BY DEF IInv
<1>1. CASE DropReturns
  <2>1. \A v \in Workers \ {dropping} : wpc[v] = "exited" /\ wpc'[v] = "exited"
    BY <1>1 DEF DropReturns, Joined
  <2>2. \E w \in Workers : \A v \in Workers \ {w} : wpc'[v] = "exited"
    BY <1>1, <2>1, WorkersAssumption DEF DropReturns
  <2>3. ASSUME queue # <<>>
        PROVE  \E w \in Workers : Workers = {w} /\ wpc'[w] # "exited"
    <3>1. Workers = {dropping}
      BY <2>1, <2>3, WorkersAssumption DEF Closed
    <3> QED BY <1>1, <3>1 DEF DropReturns
  <2> QED BY <1>1, <2>2, <2>3 DEF DropDrains, DropReturns
<1>2. CASE dropping' = "dropped" /\ dropping = "dropped"
  <2>1. \A w \in Workers : wpc[w] = "exited" => wpc'[w] = "exited"
    BY <1>2 DEF Next, vars, Call, Run, Work, Register, CallUnknown, CallInline, DispatchAccepted,
        DispatchRejected, DispatchSpawned, HandlerReturns, HandlerPanics, PublishCompletion,
        Respond, Recv, StartJob, FinishJob, WorkerExits, Shutdown, DropPool, DropReturns
  <2>2. queue' # <<>> => queue # <<>>
    BY <1>2 DEF Next, vars, Call, Run, Work, Register, CallUnknown, CallInline, DispatchAccepted,
        DispatchRejected, DispatchSpawned, HandlerReturns, HandlerPanics, PublishCompletion,
        Respond, Recv, StartJob, FinishJob, WorkerExits, Shutdown, DropPool, DropReturns, Callable, InUse
  <2>3. \A w \in Workers : queue' # <<>> /\ wpc[w] # "exited" => wpc'[w] # "exited"
    BY <1>2 DEF Next, vars, Call, Run, Work, Register, CallUnknown, CallInline, DispatchAccepted,
        DispatchRejected, DispatchSpawned, HandlerReturns, HandlerPanics, PublishCompletion,
        Respond, Recv, StartJob, FinishJob, WorkerExits, Shutdown, DropPool, DropReturns
  <2> QED BY <1>2, <2>1, <2>2, <2>3 DEF DropDrains
<1>3. CASE dropping' # "dropped"
  BY <1>3 DEF DropDrains
<1>4. dropping' = "dropped" => dropping = "dropped" \/ DropReturns
  BY DEF Next, vars, Call, Run, Work, Register, CallUnknown, CallInline, DispatchAccepted,
      DispatchRejected, DispatchSpawned, HandlerReturns, HandlerPanics, PublishCompletion,
      Respond, Recv, StartJob, FinishJob, WorkerExits, Shutdown, DropPool, Droppers
<1> QED BY <1>1, <1>2, <1>3, <1>4

-----------------------------------------------------------------------------
\* The initial states satisfy the invariant.
LEMMA InitHolds ==
  Init => IInv /\ AnnouncedExactlyOnce /\ Closed /\ DropDrains
<1> SUFFICES ASSUME Init PROVE IInv /\ AnnouncedExactlyOnce /\ Closed /\ DropDrains
  OBVIOUS
<1>1. TypeOK
  BY DEF Entries, Init, TypeOK, Stages, Outcomes, WorkerStages
<1>2. ActiveCountsRunning
  <2>1. Busy = {}
    BY DEF Init, Busy
  <2> QED BY <2>1, FS_EmptySet DEF Init, ActiveCountsRunning
<1>3. Linked /\ OneHolder
  BY FreshValues DEF Init, Linked, OneHolder
<1>4. DropperJoins
  BY FreshValues, NoneIsFresh DEF Init, DropperJoins
<1>5. AnnouncedExactlyOnce
  BY DEF Init, AnnouncedExactlyOnce, EventsOf
<1>6. Closed /\ DropDrains
  BY DEF Init, Closed, DropDrains
<1> QED BY <1>1, <1>2, <1>3, <1>4, <1>5, <1>6 DEF IInv

\* The inductive invariant holds in every reachable state of the registry and
\* its pool.
THEOREM Invariance ==
  Spec => [](IInv /\ AnnouncedExactlyOnce /\ Closed /\ DropDrains)
<1> DEFINE Inv == IInv /\ AnnouncedExactlyOnce /\ Closed /\ DropDrains
<1>1. Init => Inv
  BY InitHolds
<1>2. Inv /\ [Next]_vars => Inv'
  BY TypeStep, CountStep, LinkedStep, OneHolderStep, DropperStep, AnnouncedStep, ClosedStep,
     DrainsStep DEF IInv
<1> QED BY <1>1, <1>2, PTL DEF Spec

\* Every variable of the registry and the pool keeps its type; in particular
\* the counter of running jobs never goes below 0.
THEOREM TypeCorrect == Spec => []TypeOK
  BY Invariance, PTL DEF IInv

\* A request that ran to its end, and was not looked up as silent, has exactly
\* one completion event, published before it is answered.
THEOREM Announcement == Spec => []AnnouncedExactlyOnce
  BY Invariance, PTL

\* A job accepted by the pool is in the channel once or on one worker.
THEOREM Holding == Spec => []OneHolder
  BY Invariance, PTL DEF IInv

\* PoolStats.active is the number of workers inside a job.
THEOREM Counting == Spec => []ActiveCountsRunning
  BY Invariance, PTL DEF IInv

\* ThreadPool::drop leaves no accepted job behind, on whatever thread it runs.
THEOREM Draining == Spec => []DropDrains
  BY Invariance, PTL

-----------------------------------------------------------------------------
(* The registry implements RequestContract *)

\* The registry starts as the contract does.
LEMMA ContractInit == Init => Contract!Init
  BY DEF Init, Contract!Init, ContractStage

\* A step that moves request r alone, from one stage of the contract to another.
LEMMA ContractStageMoves ==
  ASSUME TypeOK, NEW r \in Requests, NEW s \in Stages, pc' = [pc EXCEPT ![r] = s]
  PROVE  [q \in Requests |-> ContractStage(q)]' =
           [[q \in Requests |-> ContractStage(q)] EXCEPT ![r] = ContractStage(r)']
  BY DEF TypeOK, ContractStage

\* Every step is a step of the contract or changes nothing it speaks of.
LEMMA ContractStep ==
  ASSUME IInv, [Next]_vars
  PROVE  [Contract!Next]_(Contract!vars)
<1>0. USE DEF TypeOK, registryVars, poolVars, Stages
<1> TypeOK /\ OneHolder /\ Linked BY DEF IInv
<1> DEFINE stages == [q \in Requests |-> ContractStage(q)]
<1>1. CASE stages' = stages /\ UNCHANGED <<action, silent, bus>>
  BY <1>1 DEF Contract!vars
<1>2. ASSUME NEW r \in Requests, CallUnknown(r) PROVE Contract!Refuse(r)
  BY <1>2, ContractStageMoves DEF CallUnknown, Callable, Contract!Refuse, ContractStage
<1>3. ASSUME NEW r \in Requests,
             CallInline(r) \/ DispatchAccepted(r) \/ DispatchRejected(r) \/ DispatchSpawned(r)
      PROVE  Contract!Accept(r)
  <2>1. entries[action[r]].silent \in BOOLEAN
    BY <1>3 DEF Entries, CallInline, DispatchAccepted, DispatchRejected,
       DispatchSpawned, Registered
  <2>2. \E s \in {"queued", "handling", "publishing"} :
          pc[r] = "new" /\ pc' = [pc EXCEPT ![r] = s]
    BY <1>3 DEF CallInline, DispatchAccepted, DispatchRejected, DispatchSpawned, Callable
  <2>3. UNCHANGED <<action, bus>> /\ silent' = [silent EXCEPT ![r] = entries[action[r]].silent]
    BY <1>3 DEF CallInline, DispatchAccepted, DispatchRejected, DispatchSpawned, LookUp
  <2>4. stages[r] = "new" /\ stages' = [stages EXCEPT ![r] = "pending"]
    BY <2>2, ContractStageMoves DEF ContractStage
  <2> QED BY <2>1, <2>3, <2>4 DEF Contract!Accept
<1>4. ASSUME NEW r \in Requests, HandlerReturns(r) PROVE stages' = stages
  BY <1>4 DEF HandlerReturns, ContractStage
<1>5. ASSUME NEW r \in Requests, HandlerPanics(r) PROVE Contract!Lose(r)
  BY <1>5, ContractStageMoves DEF HandlerPanics, ContractStage, Contract!Lose
<1>6. ASSUME NEW r \in Requests, PublishCompletion(r) PROVE Contract!Announce(r)
  <2>1. stages[r] = "pending" /\ stages' = [stages EXCEPT ![r] = "announced"]
    BY <1>6, ContractStageMoves DEF PublishCompletion, ContractStage
  <2>2. KindOf(outcome[r]) \in {"completed", "failed"}
    BY DEF KindOf
  <2> QED BY <1>6, <2>1, <2>2 DEF PublishCompletion, Contract!Announce
<1>7. ASSUME NEW r \in Requests, Respond(r) PROVE Contract!Answer(r)
  BY <1>7, ContractStageMoves DEF Respond, ContractStage, Contract!Answer
<1>8. ASSUME NEW w \in Workers, Recv(w) PROVE stages' = stages
  <2>1. Head(queue) \in Requests /\ pc[Head(queue)] = "queued"
    BY <1>8, QueuedHead DEF Recv
  <2> QED BY <1>8, <2>1 DEF Recv, ContractStage
<1>9. ASSUME NEW w \in Workers, StartJob(w) PROVE stages' = stages
  <2>1. wjob[w] \in Requests /\ pc[wjob[w]] = "taken"
    BY <1>9, FreshValues DEF StartJob, OneHolder, Linked
  <2> QED BY <1>9, <2>1 DEF StartJob, ContractStage
<1>10. CASE UNCHANGED <<pc, action, silent, bus>>
  BY <1>1, <1>10 DEF ContractStage
<1>11. ASSUME NEW r \in Requests, Call(r) \/ Run(r) PROVE [Contract!Next]_(Contract!vars)
  BY <1>1, <1>2, <1>3, <1>4, <1>5, <1>6, <1>7, <1>11
  DEF Call, Run, HandlerReturns, Contract!Next, Contract!Settle
<1>12. ASSUME NEW w \in Workers, Work(w) PROVE [Contract!Next]_(Contract!vars)
  BY <1>1, <1>8, <1>9, <1>10, <1>12 DEF Work, Recv, StartJob, FinishJob, WorkerExits
<1> QED
  BY <1>10, <1>11, <1>12 DEF Next, vars, Register, Shutdown, DropPool, DropReturns

\* The registry on its pool does what RequestContract allows: each request is
\* announced at most once, and answered only after its announcement.
THEOREM Implementation == Spec => Contract!Spec
<1>1. IInv /\ [Next]_vars => [Contract!Next]_(Contract!vars)
  BY ContractStep
<1> QED BY ContractInit, Invariance, <1>1, PTL DEF Spec, Contract!Spec

=============================================================================
