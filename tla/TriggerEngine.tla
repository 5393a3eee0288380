---------------------------- MODULE TriggerEngine ----------------------------
(***************************************************************************)
(* The daemon's trigger host: the engine and its two pools of awaits       *)
(* (trigger.rs), the pump thread that drains the bus into it               *)
(* (trigger_pump.rs, spawn_pump_thread), the sink that runs the actions    *)
(* (daemon_trigger_sink.rs) and the config watcher that replaces the       *)
(* triggers while all of this runs (apply_reloaded_triggers).              *)
(*                                                                         *)
(* The pump and the watcher both call pump_all, under the pump's lock;     *)
(* set_triggers and the sweep of the awaits run outside it.                *)
(***************************************************************************)
EXTENDS Naturals, Sequences, FiniteSets, EventPatterns

CONSTANTS
  Configs,        \* the lists of triggers a config file may hold
  Modes,          \* action -> "sync", "blocking", "forward" or "spawn"
  SilentActions,  \* registered without completion events
  Outside,        \* what others publish: records [kind, origin, reply]
  Timeout,        \* the await window, in ticks of the clock
  MaxInvocations, \* bound on the actions started
  MaxOutside,     \* bound on the events others publish
  MaxReloads,     \* bound on config reloads
  NoAwait         \* a trigger without an await clause

ASSUME TimeoutAssumption == Timeout \in Nat
ASSUME ModesAssumption ==
  \A a \in DOMAIN Modes : Modes[a] \in {"sync", "blocking", "forward", "spawn"}

\* A trigger of the config file.
Trigger == [name : Segments, when : Patterns, action : DOMAIN Modes,
            await : Patterns \cup {NoAwait}, keyed : BOOLEAN, firesOnTimeout : BOOLEAN,
            conditional : BOOLEAN, acceptExternal : BOOLEAN, allowPrivileged : BOOLEAN]

ASSUME NamesAssumption ==
  /\ DOMAIN Modes \cup {"completed", "failed", "awaited"} \subseteq Segments
  /\ NoAwait \notin Patterns
ASSUME ConfigsAssumption == \A list \in Configs : list \in Seq(Trigger)
ASSUME OutsideAssumption ==
  Outside \subseteq [kind : Kinds, origin : {"internal", "external"}, reply : BOOLEAN]
ASSUME BoundsAssumption == {MaxInvocations, MaxOutside, MaxReloads} \subseteq Nat

VARIABLES
  triggers,   \* the engine's list
  preflight,  \* awaits whose action has not completed
  pending,    \* awaits whose action has completed
  subs,       \* pattern -> its receiver's queue
  holder,     \* who holds the pump's lock: "free", "pump" or "watcher"
  stage,      \* how far the holder is in pump_all
  undrained,  \* receivers drain_into has still to empty
  batch,      \* events drained and not yet dispatched
  todo,       \* triggers of dispatch's snapshot not yet looked at
  pump,       \* the pump thread outside the lock
  timedOut,   \* awaited events the sweep has still to publish
  watcher,    \* the watcher thread in apply_reloaded_triggers
  loaded,     \* the triggers it is applying
  reloads,    \* reloads so far
  runs,       \* the actions started, oldest first
  outside,    \* events others have published
  nextId      \* identity of the next event

engineVars == <<preflight, pending>>
pumpVars == <<holder, stage, undrained, batch, todo>>
watcherVars == <<watcher, loaded, reloads>>
vars == <<triggers, preflight, pending, subs, holder, stage, undrained, batch, todo,
          pump, timedOut, watcher, loaded, reloads, runs, outside, nextId>>

TriggersOf(list) == {list[i] : i \in DOMAIN list}

\* Mutant: the position is read and not removed.
Mutant_Without(s, i) == s

\* Without position i: Vec::remove.
Without(s, i) == SubSeq(s, 1, i - 1) \o SubSeq(s, i + 1, Len(s))

\* The elements of s at the positions in kept, in their order.
At(s, kept) ==
  [n \in 1 .. Cardinality(kept) |->
     s[CHOOSE i \in kept : Cardinality({j \in kept : j <= i}) = n]]

\* The lowest position of s that satisfies the index set, or 0.
First(indices) ==
  IF indices = {} THEN 0 ELSE CHOOSE i \in indices : \A j \in indices : i <= j

Exact(kind) == [prefix |-> kind, star |-> FALSE]
Completed(a) == <<a, "completed">>
Failed(a) == <<a, "failed">>
Awaited(name) == <<name, "awaited">>

\* TriggerSubscriptions::reconcile, the patterns it asks covering_patterns
\* about and keeps one receiver each for.
Requested(list) ==
  UNION {{t.when} \cup IF t.await = NoAwait THEN {}
                       ELSE {t.await, Exact(Completed(t.action)), Exact(Failed(t.action))} :
           t \in TriggersOf(list)}

Needed(list) == Covering(Requested(list))

-----------------------------------------------------------------------------
Event == [id : Nat, kind : Kinds, source : {"action", "await", "other"},
          origin : {"internal", "external"}, ref : Nat, tainted : BOOLEAN]
Await == [run : Nat, name : Segments, action : DOMAIN Modes, on : Patterns, keyed : BOOLEAN,
          fires : BOOLEAN, left : 0 .. Timeout, tainted : BOOLEAN, by : Nat]
Statuses == {"running", "published", "settled", "lost"}
RunRecord == [action : DOMAIN Modes, status : Statuses, awaits : BOOLEAN, awaited : Nat,
              by : Nat, crowded : BOOLEAN, late : BOOLEAN, tainted : BOOLEAN]

EngineTypes ==
  /\ triggers \in Configs /\ loaded \in Configs
  /\ preflight \in Seq(Await) /\ pending \in Seq(Await) /\ timedOut \in Seq(Await)
BusTypes ==
  /\ DOMAIN subs \subseteq Patterns /\ subs \in [DOMAIN subs -> Seq(Event)]
  /\ nextId \in Nat
PumpTypes ==
  /\ holder \in {"free", "pump", "watcher"}
  /\ stage \in {"idle", "drain", "promote", "match", "fire"}
  /\ undrained \subseteq DOMAIN subs /\ batch \in Seq(Event) /\ todo \in Seq(Trigger)
  /\ pump \in {"sleep", "sweepPreflight", "sweepPending", "publish"}
  /\ watcher \in {"sleep", "clearPreflight", "clearPending", "lock", "reconcile", "subscribe"}
RunTypes ==
  /\ runs \in Seq(RunRecord)
  /\ reloads \in 0 .. MaxReloads /\ outside \in 0 .. MaxOutside

TypeOK == EngineTypes /\ BusTypes /\ PumpTypes /\ RunTypes

Init ==
  /\ triggers \in Configs
  /\ preflight = <<>> /\ pending = <<>>
  /\ subs = [p \in Needed(triggers) |-> <<>>]
  /\ holder = "free" /\ stage = "idle"
  /\ undrained = {} /\ batch = <<>> /\ todo = <<>>
  /\ pump = "sleep" /\ timedOut = <<>>
  /\ watcher = "sleep" /\ loaded = triggers /\ reloads = 0
  /\ runs = <<>> /\ outside = 0 /\ nextId = 1
-----------------------------------------------------------------------------
(* The bus *)

\* EventBus::publish: to every receiver whose pattern matches, none of which
\* is bounded.
Delivered(queues, event) ==
  [p \in DOMAIN queues |->
     IF Matches(p, event.kind) THEN Append(queues[p], event) ELSE queues[p]]

Publish(event) ==
  /\ subs' = Delivered(subs, event)
  /\ nextId' = nextId + 1

CompletionEvent(i, a, ok) ==
  [id |-> nextId, kind |-> IF ok THEN Completed(a) ELSE Failed(a), source |-> "action",
   origin |-> "internal", ref |-> i, tainted |-> FALSE]

AwaitedEvent(a, tainted) ==
  [id |-> nextId, kind |-> Awaited(a.name), source |-> "await",
   origin |-> "internal", ref |-> a.run, tainted |-> tainted]

\* Plugins, the GUI and socket clients.  A reply carries in its payload what
\* identifies the run it answers.
PublishOutside ==
  /\ outside < MaxOutside
  /\ outside' = outside + 1
  /\ \E o \in Outside, r \in 0 .. Len(runs) :
       /\ o.reply <=> r > 0
       /\ Publish([id |-> nextId, kind |-> o.kind, source |-> "other",
                   origin |-> o.origin, ref |-> r, tainted |-> o.origin = "external"])
  /\ UNCHANGED <<triggers, engineVars, pumpVars, pump, timedOut, watcherVars, runs>>
-----------------------------------------------------------------------------
(* The runs of actions *)

SameAction(a) == {i \in DOMAIN runs : runs[i].action = a}
Unsettled(a) == {i \in SameAction(a) : runs[i].status # "settled"}

\* A new run of a; runs of the same action whose completion has not come
\* through yet crowd each other.
Started(a, status, awaits, tainted) ==
  Append([i \in DOMAIN runs |->
            IF i \in Unsettled(a) THEN [runs[i] EXCEPT !.crowded = TRUE] ELSE runs[i]],
         [action |-> a, status |-> status, awaits |-> awaits, awaited |-> 0, by |-> 0,
          crowded |-> Unsettled(a) # {}, late |-> FALSE, tainted |-> tainted])

\* An earlier run of the same action has not published its completion.
Overtakes(i) == \E j \in SameAction(runs[i].action) : j < i /\ runs[j].status \in {"running", "lost"}

\* try_dispatch's worker, or the GUI behind fallthrough_worker, which is one
\* thread and forwards in order.
Complete(i) ==
  /\ runs[i].status = "running"
  /\ Modes[runs[i].action] = "forward" =>
       \A j \in 1 .. i - 1 : Modes[runs[j].action] = "forward" => runs[j].status # "running"
  /\ IF runs[i].action \in SilentActions
     THEN /\ runs' = [runs EXCEPT ![i].status = "settled"]
          /\ UNCHANGED <<subs, nextId>>
     ELSE /\ runs' = [runs EXCEPT ![i].status = "published", ![i].late = Overtakes(i)]
          /\ \E ok \in BOOLEAN : Publish(CompletionEvent(i, runs[i].action, ok))
  /\ UNCHANGED <<triggers, engineVars, pumpVars, pump, timedOut, watcherVars, outside>>

\* A blocking handler panicked on its worker.
Panic(i) ==
  /\ runs[i].status = "running" /\ Modes[runs[i].action] = "blocking"
  /\ runs' = [runs EXCEPT ![i].status = "lost"]
  /\ UNCHANGED <<triggers, engineVars, subs, pumpVars, pump, timedOut, watcherVars,
                 outside, nextId>>

\* A socket client or a plugin invokes a blocking action; no trigger is
\* involved.
InvokeOutside(a) ==
  /\ Len(runs) < MaxInvocations
  /\ Modes[a] = "blocking"
  /\ runs' = Started(a, "running", FALSE, FALSE)
  /\ UNCHANGED <<triggers, engineVars, subs, pumpVars, pump, timedOut, watcherVars,
                 outside, nextId>>
-----------------------------------------------------------------------------
(* pump_all: drain every receiver, sort, dispatch *)

\* The pump thread wakes up, or the watcher comes to its pump_all.
Lock(who) ==
  /\ holder = "free"
  /\ CASE who = "pump" -> pump = "sleep"
       [] who = "watcher" -> watcher = "lock"
  /\ holder' = who
  /\ stage' = "drain"
  /\ undrained' = DOMAIN subs
  /\ UNCHANGED <<triggers, engineVars, subs, batch, todo, pump, timedOut, watcherVars,
                 runs, outside, nextId>>

\* The receivers are emptied one after the other in HashMap order, while
\* others go on publishing.
DrainReceiver(p) ==
  /\ stage = "drain" /\ p \in undrained
  /\ undrained' = undrained \ {p}
  /\ batch' = batch \o subs[p]
  /\ subs' = [subs EXCEPT ![p] = <<>>]
  /\ UNCHANGED <<triggers, engineVars, holder, stage, todo, pump, timedOut, watcherVars,
                 runs, outside, nextId>>

IsCompletion(e) ==
  e.source = "action" /\ \E a \in DOMAIN Modes : e.kind \in {Completed(a), Failed(a)}

\* Mutant: the batch is dispatched as it was drained.
Mutant_Sorted(events) == events

\* sort_by_key is stable.
Sorted(events) ==
  LET completions == {k \in DOMAIN events : IsCompletion(events[k])}
  IN At(events, completions) \o At(events, DOMAIN events \ completions)

SortBatch ==
  /\ stage = "drain" /\ undrained = {}
  /\ batch' = Sorted(batch)
  /\ stage' = "promote"
  /\ UNCHANGED <<triggers, engineVars, subs, holder, undrained, todo, pump, timedOut,
                 watcherVars, runs, outside, nextId>>

\* pump_all returns; the pump goes on to sweep, the watcher to reconcile with
\* the lock still held.
BatchEnds ==
  /\ stage = "promote" /\ batch = <<>>
  /\ stage' = "idle"
  /\ IF holder = "pump"
     THEN /\ holder' = "free" /\ pump' = "sweepPreflight"
          /\ UNCHANGED watcher
     ELSE /\ watcher' = "reconcile"
          /\ UNCHANGED <<holder, pump>>
  /\ UNCHANGED <<triggers, engineVars, subs, undrained, batch, todo, timedOut, loaded,
                 reloads, runs, outside, nextId>>
-----------------------------------------------------------------------------
(* TriggerEngine::dispatch *)

\* What settles a run, for the properties: its completion has been dispatched.
Settle(rs, e) ==
  IF IsCompletion(e) THEN [rs EXCEPT ![e.ref].status = "settled"] ELSE rs

\* The gate in front of both pools.
Trusted(e) == e.origin # "external"

\* Mutant: the oldest preflight, whatever its action.
Mutant_FirstOf(a) == First(DOMAIN preflight)

FirstOf(a) == First({i \in DOMAIN preflight : preflight[i].action = a})

\* try_promote_or_drop_preflight, under the locks of both pools.  Only the
\* action's name connects a completion to a preflight.
Promote ==
  /\ stage = "promote" /\ batch # <<>>
  /\ LET e == Head(batch)
         i == IF Trusted(e) /\ IsCompletion(e) THEN FirstOf(e.kind[1]) ELSE 0
     IN IF i = 0
        THEN /\ runs' = Settle(runs, e)
             /\ UNCHANGED engineVars
        ELSE /\ runs' = [Settle(runs, e) EXCEPT ![preflight[i].run].by = e.ref]
             /\ preflight' = Without(preflight, i)
             /\ pending' = IF e.kind = Completed(preflight[i].action)
                           THEN Append(pending, [preflight[i] EXCEPT !.by = e.ref])
                           ELSE pending
  /\ stage' = "match"
  /\ UNCHANGED <<triggers, subs, holder, undrained, batch, todo, pump, timedOut, watcherVars,
                 outside, nextId>>

\* payload_match was interpolated at promotion from the completion's payload.
Satisfies(e, a) == Matches(a.on, e.kind) /\ (a.keyed => e.ref = a.by)

\* try_match_pending_awaits: the oldest pending await this event satisfies,
\* and no other.
Match ==
  /\ stage = "match"
  /\ LET e == Head(batch)
         i == IF Trusted(e)
              THEN First({k \in DOMAIN pending : Satisfies(e, pending[k])})
              ELSE 0
     IN IF i = 0
        THEN UNCHANGED <<pending, runs, subs, nextId>>
        ELSE /\ pending' = Without(pending, i)
             /\ runs' = [runs EXCEPT ![pending[i].run].awaited = @ + 1]
             /\ Publish(AwaitedEvent(pending[i], e.tainted))
  /\ todo' = triggers
  /\ stage' = "fire"
  /\ UNCHANGED <<triggers, preflight, holder, undrained, batch, pump, timedOut, watcherVars,
                 outside>>

\* Mutant: the gate for events from outside is left out.
Mutant_Eligible(t, e) ==
  Matches(t.when, e.kind) /\ (Modes[t.action] = "spawn" => t.allowPrivileged)

\* matches, then the two trust gates.
Eligible(t, e) ==
  /\ Matches(t.when, e.kind)
  /\ e.origin = "external" => t.acceptExternal
  /\ Modes[t.action] = "spawn" => t.allowPrivileged

NextTrigger == todo' = Tail(todo)

\* No match, a gate, or a condition that is false or fails to evaluate.  At
\* the bound MaxInvocations every trigger is passed over.
PassOver ==
  /\ stage = "fire" /\ todo # <<>>
  /\ Eligible(Head(todo), Head(batch)) => Head(todo).conditional \/ Len(runs) = MaxInvocations
  /\ NextTrigger
  /\ UNCHANGED <<triggers, engineVars, subs, holder, stage, undrained, batch, pump, timedOut,
                 watcherVars, runs, outside, nextId>>

\* dispatch_action and, if it returned Ok, register_preflight_await.  A
\* blocking action is Ok however try_dispatch ends; a sync one is Ok or not as
\* its handler returns; a forwarded one is refused when the queue is full.
Fires(t, e) ==
  /\ stage = "fire" /\ todo # <<>> /\ t = Head(todo) /\ e = Head(batch)
  /\ Eligible(t, e)
  /\ Len(runs) < MaxInvocations

Tainted(t, e) == e.tainted /\ ~ t.acceptExternal

RegisterPreflight(t, e, i) ==
  preflight' =
    IF t.await = NoAwait THEN preflight
    ELSE Append(preflight,
           [run |-> i, name |-> t.name, action |-> t.action, on |-> t.await,
            keyed |-> t.keyed, fires |-> t.firesOnTimeout, left |-> Timeout,
            tainted |-> Tainted(t, e), by |-> 0])

\* The run goes on elsewhere: a job in the pool, a request queued for the GUI.
FireQueued ==
  \E t \in TriggersOf(todo), e \in TriggersOf(batch) :
    /\ Fires(t, e)
    /\ Modes[t.action] \in {"blocking", "forward"}
    /\ runs' = Started(t.action, "running", t.await # NoAwait, Tainted(t, e))
    /\ RegisterPreflight(t, e, Len(runs) + 1)
    /\ NextTrigger
    /\ UNCHANGED <<triggers, pending, subs, holder, stage, undrained, batch, pump, timedOut,
                   watcherVars, outside, nextId>>

\* The run is over when dispatch_action returns: a sync handler, or a blocking
\* one that the pool rejected and the sink reports as queued all the same.
Inline(t, e, ok) ==
  LET i == Len(runs) + 1
      accepted == ok \/ Modes[t.action] = "blocking"
      status == IF t.action \in SilentActions THEN "settled" ELSE "published"
      started == Started(t.action, status, accepted /\ t.await # NoAwait, Tainted(t, e))
  IN /\ Modes[t.action] \in IF ok THEN {"sync"} ELSE {"sync", "blocking"}
     /\ runs' = [started EXCEPT ![i].late = \E j \in SameAction(t.action) :
                                              runs[j].status \in {"running", "lost"}]
     /\ IF t.action \in SilentActions THEN UNCHANGED <<subs, nextId>>
        ELSE Publish(CompletionEvent(i, t.action, ok))
     /\ IF accepted THEN RegisterPreflight(t, e, i) ELSE UNCHANGED preflight

FireInline ==
  \E t \in TriggersOf(todo), e \in TriggersOf(batch), ok \in BOOLEAN :
    /\ Fires(t, e)
    /\ Inline(t, e, ok)
    /\ NextTrigger
    /\ UNCHANGED <<triggers, pending, holder, stage, undrained, batch, pump, timedOut,
                   watcherVars, outside>>

\* system.spawn: the child is started and nothing is ever published of it.
FireSpawn ==
  \E t \in TriggersOf(todo), e \in TriggersOf(batch) :
    /\ Fires(t, e)
    /\ Modes[t.action] = "spawn"
    /\ runs' = Started(t.action, "settled", t.await # NoAwait, Tainted(t, e))
    /\ RegisterPreflight(t, e, Len(runs) + 1)
    /\ NextTrigger
    /\ UNCHANGED <<triggers, pending, subs, holder, stage, undrained, batch, pump, timedOut,
                   watcherVars, outside, nextId>>

\* The sink returned Err and nothing was started: the queue to the GUI is
\* full, or exec failed.
FireRefused ==
  \E t \in TriggersOf(todo), e \in TriggersOf(batch) :
    /\ Fires(t, e)
    /\ Modes[t.action] \in {"forward", "spawn"}
    /\ NextTrigger
    /\ UNCHANGED <<triggers, engineVars, subs, holder, stage, undrained, batch, pump, timedOut,
                   watcherVars, runs, outside, nextId>>

DispatchEnds ==
  /\ stage = "fire" /\ todo = <<>>
  /\ batch' = Tail(batch)
  /\ stage' = "promote"
  /\ UNCHANGED <<triggers, engineVars, subs, holder, undrained, todo, pump, timedOut,
                 watcherVars, runs, outside, nextId>>
-----------------------------------------------------------------------------
(* sweep_pending_awaits, on the pump thread, without the pump's lock *)

Kept(pool) == At(pool, {k \in DOMAIN pool : pool[k].left > 0})
Defaulted(pool) == At(pool, {k \in DOMAIN pool : pool[k].left = 0 /\ pool[k].fires})

\* Mutant: only the second pool is swept.
Mutant_SweepPreflight ==
  /\ pump = "sweepPreflight"
  /\ pump' = "sweepPending"
  /\ UNCHANGED <<triggers, engineVars, timedOut, subs, pumpVars, watcherVars, runs, outside,
                 nextId>>

SweepPreflight ==
  /\ pump = "sweepPreflight"
  /\ preflight' = Kept(preflight)
  /\ timedOut' = timedOut \o Defaulted(preflight)
  /\ pump' = "sweepPending"
  /\ UNCHANGED <<triggers, pending, subs, pumpVars, watcherVars, runs, outside, nextId>>

SweepPending ==
  /\ pump = "sweepPending"
  /\ pending' = Kept(pending)
  /\ timedOut' = timedOut \o Defaulted(pending)
  /\ pump' = "publish"
  /\ UNCHANGED <<triggers, preflight, subs, pumpVars, watcherVars, runs, outside, nextId>>

PublishDefault ==
  /\ pump = "publish" /\ timedOut # <<>>
  /\ Publish(AwaitedEvent(Head(timedOut), Head(timedOut).tainted))
  /\ runs' = [runs EXCEPT ![Head(timedOut).run].awaited = @ + 1]
  /\ timedOut' = Tail(timedOut)
  /\ UNCHANGED <<triggers, engineVars, pumpVars, pump, watcherVars, outside>>

SweepEnds ==
  /\ pump = "publish" /\ timedOut = <<>>
  /\ pump' = "sleep"
  /\ UNCHANGED <<triggers, engineVars, subs, pumpVars, timedOut, watcherVars, runs, outside,
                 nextId>>

\* Time passes.  The sweep reads the clock once, so not in the middle of it.
Tick ==
  /\ pump # "sweepPending"
  /\ \E i \in DOMAIN preflight \cup DOMAIN pending :
       \/ i \in DOMAIN preflight /\ preflight[i].left > 0
       \/ i \in DOMAIN pending /\ pending[i].left > 0
  /\ LET Aged(pool) == [i \in DOMAIN pool |->
                          [pool[i] EXCEPT !.left = IF @ = 0 THEN 0 ELSE @ - 1]]
     IN preflight' = Aged(preflight) /\ pending' = Aged(pending)
  /\ UNCHANGED <<triggers, subs, pumpVars, pump, timedOut, watcherVars, runs, outside, nextId>>
-----------------------------------------------------------------------------
(* apply_reloaded_triggers, on the watcher thread *)

\* The config file changed: set_triggers swaps the list ...
SetTriggers ==
  /\ watcher = "sleep" /\ reloads < MaxReloads
  /\ reloads' = reloads + 1
  /\ \E list \in Configs : loaded' = list /\ triggers' = list
  /\ watcher' = "clearPreflight"
  /\ UNCHANGED <<engineVars, subs, pumpVars, pump, timedOut, runs, outside, nextId>>

\* ... and clears both pools, each under its own lock.
ClearPreflight ==
  /\ watcher = "clearPreflight"
  /\ preflight' = <<>>
  /\ watcher' = "clearPending"
  /\ UNCHANGED <<triggers, pending, subs, pumpVars, pump, timedOut, loaded, reloads, runs,
                 outside, nextId>>

\* Mutant: the watcher goes on to reconcile without the pump's lock.
Mutant_ClearPending ==
  /\ watcher = "clearPending"
  /\ pending' = <<>>
  /\ watcher' = "reconcile"
  /\ UNCHANGED <<triggers, preflight, subs, pumpVars, pump, timedOut, loaded, reloads, runs,
                 outside, nextId>>

ClearPending ==
  /\ watcher = "clearPending"
  /\ pending' = <<>>
  /\ watcher' = "lock"
  /\ UNCHANGED <<triggers, preflight, subs, pumpVars, pump, timedOut, loaded, reloads, runs,
                 outside, nextId>>

\* Mutant: no receiver is ever given up.
Mutant_Retain ==
  /\ watcher = "reconcile"
  /\ watcher' = "subscribe"
  /\ UNCHANGED <<triggers, subs, engineVars, pumpVars, pump, timedOut, loaded, reloads, runs,
                 outside, nextId>>

\* Mutant: the receivers are all made anew.
Mutant_RetainNone ==
  /\ watcher = "reconcile"
  /\ subs' = <<>>
  /\ watcher' = "subscribe"
  /\ UNCHANGED <<triggers, engineVars, pumpVars, pump, timedOut, loaded, reloads, runs,
                 outside, nextId>>

\* After its pump_all: reconcile first drops the receivers no longer needed ...
Retain ==
  /\ watcher = "reconcile"
  /\ subs' = [p \in DOMAIN subs \cap Needed(loaded) |-> subs[p]]
  /\ watcher' = "subscribe"
  /\ UNCHANGED <<triggers, engineVars, pumpVars, pump, timedOut, loaded, reloads, runs,
                 outside, nextId>>

\* ... then subscribes the new patterns, one call each.
Subscribe(p) ==
  /\ watcher = "subscribe"
  /\ p \in Needed(loaded) \ DOMAIN subs
  /\ subs' = [q \in DOMAIN subs \cup {p} |-> IF q = p THEN <<>> ELSE subs[q]]
  /\ UNCHANGED <<triggers, engineVars, pumpVars, pump, timedOut, watcherVars, runs,
                 outside, nextId>>

ReloadEnds ==
  /\ watcher = "subscribe" /\ Needed(loaded) \subseteq DOMAIN subs
  /\ watcher' = "sleep"
  /\ holder' = "free"
  /\ UNCHANGED <<triggers, engineVars, subs, stage, undrained, batch, todo, pump, timedOut,
                 loaded, reloads, runs, outside, nextId>>
-----------------------------------------------------------------------------
Dispatch ==
  \/ Promote \/ Match \/ PassOver
  \/ FireQueued \/ FireInline \/ FireSpawn \/ FireRefused
  \/ DispatchEnds

PumpAll == \/ \E p \in undrained : DrainReceiver(p)
           \/ SortBatch \/ Dispatch \/ BatchEnds

Sweep == SweepPreflight \/ SweepPending \/ PublishDefault \/ SweepEnds

Reload == \/ ClearPreflight \/ ClearPending \/ Retain \/ ReloadEnds
          \/ \E p \in Needed(loaded) : Subscribe(p)

Next ==
  \/ PublishOutside
  \/ \E i \in DOMAIN runs : Complete(i) \/ Panic(i)
  \/ \E a \in DOMAIN Modes : InvokeOutside(a)
  \/ \E who \in {"pump", "watcher"} : Lock(who)
  \/ PumpAll
  \/ Sweep
  \/ Tick
  \/ SetTriggers
  \/ Reload

Spec == Init /\ [][Next]_vars

\* Both threads run and time passes.  The lock is a std Mutex, which promises
\* no order; the pump gives it up for at least PUMP_TICK, so the watcher is
\* not kept out for ever, nor the pump by the watcher.
Fairness ==
  /\ WF_vars(PumpAll) /\ WF_vars(Sweep) /\ WF_vars(Reload)
  /\ SF_vars(Tick)
  /\ SF_vars(Lock("pump")) /\ SF_vars(Lock("watcher"))

FairSpec == Spec /\ Fairness
-----------------------------------------------------------------------------
(* Properties *)

InPool(pool, i) == {k \in DOMAIN pool : pool[k].run = i}

\* An await is consumed once: a run's await is in one pool, or waiting to be
\* published by the sweep, or was announced as <trigger>.awaited, and never
\* two of these, whatever dispatch, sweep and reload do to the pools between
\* each other's steps ("Single-consumption", trigger.rs).
AwaitOnce ==
  \A i \in DOMAIN runs :
    Cardinality(InPool(preflight, i)) + Cardinality(InPool(pending, i))
      + Cardinality(InPool(timedOut, i)) + runs[i].awaited <= 1

\* No event is queued or batched twice, so none is dispatched twice, also while
\* a reload replaces the receivers ("otherwise duplicate delivery would
\* double-fire side effects", TriggerSubscriptions::reconcile).
OneCopy ==
  LET Copies(id) == Cardinality({k \in DOMAIN batch : batch[k].id = id})
        + Cardinality(UNION {{<<p, k>> : k \in {j \in DOMAIN subs[p] : subs[p][j].id = id}} :
                              p \in DOMAIN subs})
  IN \A id \in 1 .. nextId - 1 : Copies(id) <= 1

\* Neither an await nor an event is taken twice, whatever dispatch, sweep and reload do to
\* the pools and the receivers between each other's steps.
NothingTwice == TypeOK /\ AwaitOnce /\ OneCopy

\* Nothing an External event started is started without an opt-in: not
\* directly, and not through an await it satisfied and the Internal
\* <trigger>.awaited event made of that (the comment on dispatch's first gate).
UntrustedNeverFires == \A i \in DOMAIN runs : ~ runs[i].tainted

\* In one batch a reply is never matched while the completion that would have
\* armed its await is still to come (drain_into's ordering invariant).
ArmedBeforeReply ==
  stage = "match" /\ Head(batch).source = "other" /\ InPool(preflight, Head(batch).ref) # {} =>
    \A k \in 2 .. Len(batch) : IsCompletion(batch[k]) => batch[k].ref # Head(batch).ref

\* An await is promoted or dropped by another run's completion only if runs of
\* that action overlapped: "at most one in-flight invocation per action" is
\* enough for correlation (docs/workflow-runtime.md).
CorrelatesAlone ==
  \A i \in DOMAIN runs : runs[i].by \notin {0, i} => runs[i].crowded

\* Every await leaves the pools: answered, dropped, swept or cleared, whatever
\* becomes of its action.
AwaitsEnd ==
  \A i \in 1 .. MaxInvocations :
    InPool(preflight, i) \cup InPool(pending, i) # {}
      ~> InPool(preflight, i) \cup InPool(pending, i) = {}

Held(p, id) == \E k \in DOMAIN subs[p] : subs[p][k].id = id
Listened(id) == \E p \in DOMAIN subs : Held(p, id)
InBatch(id) == \E k \in DOMAIN batch : batch[k].id = id

\* What the pump has been asked to listen to is dispatched: an event leaves its receiver
\* into the batch, unless the list that is being loaded asks no more for that receiver's
\* pattern; and it leaves the batch when every trigger has been tried with it
\* ("still-needed patterns keep their existing receivers (so pending events survive
\* unrelated reloads)", TriggerSubscriptions; drain_into; dispatch).
Dispatched ==
  \A id \in 1 .. nextId - 1 :
    /\ \A p \in DOMAIN subs : Held(p, id) /\ ~ Listened(id)' =>
         InBatch(id)' \/ (watcher = "reconcile" /\ p \notin Needed(loaded))
    /\ InBatch(id) /\ ~ InBatch(id)' => stage = "fire" /\ todo = <<>> /\ Head(batch).id = id

\* An event is dispatched before it is gone from receivers and batch, unless a reload does
\* not want it, and it is gone in the end.
QueuesDrain ==
  /\ [][Dispatched]_vars
  /\ \A id \in 1 .. MaxOutside : Listened(id) \/ InBatch(id) ~> ~ (Listened(id) \/ InBatch(id))

\* docs/workflow-runtime.md: "completions arrive in order c1, c2, c3, FIFO
\* matches them correctly".
InOrderCorrelates ==
  \A i \in DOMAIN runs :
    runs[i].by \notin {0, i} => \E j \in SameAction(runs[i].action) : runs[j].late

\* docs/workflow-runtime.md: a promoted await "watches for a follow-up event",
\* so not for the completion that promoted it.
FollowUpMatches ==
  [][stage = "match" /\ stage' = "fire" /\ Head(batch).source = "action" =>
       \A k \in DOMAIN pending :
         pending[k].by = Head(batch).ref => InPool(pending', pending[k].run) # {}]_vars

\* apply_reloaded_triggers: pump_all first, because skipping it "would discard
\* pending events the new trigger set would have matched".
ReloadKeepsEvents ==
  [][\A p \in DOMAIN subs \ DOMAIN subs' : \A k \in DOMAIN subs[p] :
       ~ \E q \in Requested(loaded) : Matches(q, subs[p][k].kind)]_vars

\* drain_into: completions "must run BEFORE `await.event_kind` in the same tick -
\* otherwise a same-tick awaited reply hits a preflight that hasn't promoted yet".
\* A reply is not matched before a completion that was published ahead of it.
ChainsInOrder ==
  stage = "match" /\ Head(batch).source = "other" /\ InPool(preflight, Head(batch).ref) # {} =>
    \A p \in DOMAIN subs : \A k \in DOMAIN subs[p] :
      IsCompletion(subs[p][k]) /\ subs[p][k].ref = Head(batch).ref =>
        subs[p][k].id > Head(batch).id
=============================================================================
