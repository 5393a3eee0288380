------------------------------ MODULE GuiClient ------------------------------
(***************************************************************************)
(* The window's side of the daemon: the thread of gui_client.rs that       *)
(* connects, registers and reads, its forwarder threads and invoke jobs,   *)
(* and the 50 ms timer and config watcher of window.rs that hand trigger   *)
(* dispatch over to the daemon and take it back.  The daemon is what this  *)
(* code sees of it: it acknowledges, publishes, reads lines and goes away. *)
(* Queues are sets, as no property here is about the order of events.      *)
(***************************************************************************)
EXTENDS Naturals, Sequences, FiniteSets

CONSTANTS
  MaxAttempts,   \* attempts to connect
  Native,        \* events of the window, of a kind that is forwarded
  Foreign,       \* events of the daemon
  Jobs,          \* invokes the daemon sends
  MaxReloads,    \* edits of the config
  BackoffMax,    \* doublings after which the wait stays the same
  Hosts          \* what the daemons that come up advertise

GuiClientAssumption ==
  /\ MaxAttempts \in Nat /\ MaxReloads \in Nat /\ BackoffMax \in Nat
  /\ Hosts \subseteq BOOLEAN /\ Native \cap Foreign = {}

VARIABLES
  \* the client thread: its place, the number of its connection, what the ack
  \* said, the counter that jobs are checked against, the flag run() leaves for
  \* reconnect_loop, the doublings of the wait so far
  at, session, host, generation, registered, backoff,
  \* the daemon: connections it has not closed, whether it dispatches triggers,
  \* events in its engine's receivers; per connection the lines it has not read
  \* and the events it wrote
  open, daemonHosts, daemonQueue, toDaemon, toGui,
  \* the timer: the channel to it, the value it applied last, the version of the
  \* triggers the local engine runs (0 for none) and of those cached
  authority, applied, engine, cached,
  \* the config file: its version, whether it parses, a change not yet notified
  config, valid, edited,
  \* the window's bus: what was published, the receivers of the local engine;
  \* per connection the forwarder and its receivers
  published, localQueue, forwarder, forwardQueue,
  \* per invoke: its stage and the generation it was admitted in
  job,
  \* history: dispatches of each event by each engine, the connection that had
  \* taken over when it was published, jobs still queued when theirs ended
  runs, handedTo, orphaned

client == <<at, session, host, generation, registered, backoff>>
daemon == <<open, daemonHosts, daemonQueue, toDaemon, toGui>>
timer == <<authority, applied, engine, cached>>
file == <<config, valid, edited>>
bus == <<published, localQueue, forwarder, forwardQueue>>
jobs == <<job, orphaned>>
vars == <<client, daemon, timer, file, bus, jobs, runs, handedTo>>

Sessions == 1..MaxAttempts
Versions == 1..(MaxReloads + 1)
Events == Native \cup Foreign
Stages == {"idle", "queued", "checked", "sent", "done", "refused"}
Places == {"asleep", "connecting", "acking", "acked", "subscribed", "reading",
           "restored", "stopped"}

TypeOK ==
  /\ at \in Places /\ session \in 0..MaxAttempts /\ generation \in Nat
  /\ backoff \in 0..BackoffMax /\ open \subseteq Sessions
  /\ {host, registered, daemonHosts, applied, valid, edited} \subseteq BOOLEAN
  /\ authority \in Seq(BOOLEAN)
  /\ engine \in Versions \cup {0} /\ {cached, config} \subseteq Versions
  /\ forwarder \in [Sessions -> {"none", "on", "off"}]
  /\ {forwardQueue, toDaemon, toGui} \subseteq [Sessions -> SUBSET Events]
  /\ UNION {published, localQueue, daemonQueue} \subseteq Events
  /\ runs \in [Events -> [gui : Nat, daemon : Nat]]
  /\ handedTo \in [Events -> Sessions \cup {0}]
  /\ job \in [Jobs -> [stage : Stages, admitted : Nat]]
  /\ orphaned \subseteq Jobs

Init ==
  /\ at = "asleep" /\ session = 0 /\ host = FALSE /\ generation = 0
  /\ registered = FALSE /\ backoff = 0
  /\ open = {} /\ daemonHosts \in Hosts /\ daemonQueue = {}
  /\ authority = <<>> /\ applied = FALSE /\ engine = 1 /\ cached = 1
  /\ config = 1 /\ valid = TRUE /\ edited = FALSE
  /\ published = {} /\ localQueue = {}
  /\ forwarder = [s \in Sessions |-> "none"]
  /\ forwardQueue = [s \in Sessions |-> {}]
  /\ toDaemon = forwardQueue /\ toGui = forwardQueue
  /\ job = [j \in Jobs |-> [stage |-> "idle", admitted |-> 0]] /\ orphaned = {}
  /\ runs = [e \in Events |-> [gui |-> 0, daemon |-> 0]]
  /\ handedTo = [e \in Events |-> 0]

-----------------------------------------------------------------------------
(* The two buses *)

On == {s \in Sessions : forwarder[s] = "on"}

\* What a publish on the window's bus puts into receivers: the local engine has
\* them only while it runs triggers.
Receive(e) ==
  /\ localQueue' = localQueue \cup (IF engine = 0 THEN {} ELSE {e})
  /\ forwardQueue' =
       [s \in Sessions |-> forwardQueue[s] \cup (IF s \in On THEN {e} ELSE {})]

\* The daemon has taken over from the local engine, through this connection.
TakenOver == applied /\ host /\ at \in {"subscribed", "reading"}

\* The window publishes an event of its own.
Publish(e) ==
  /\ e \in Native \ published
  /\ published' = published \cup {e}
  /\ Receive(e)
  /\ handedTo' = [handedTo EXCEPT ![e] = IF TakenOver THEN session ELSE 0]
  /\ UNCHANGED <<client, daemon, timer, file, forwarder, jobs, runs>>

\* What reaches the daemon's bus: its engine listens only if it hosts triggers.
DaemonHears(e) == daemonQueue' = daemonQueue \cup (IF daemonHosts THEN {e} ELSE {})

\* The daemon publishes one, which its forwarder writes to every window.
DaemonPublishes(e) ==
  /\ e \in Foreign \ published
  /\ published' = published \cup {e}
  /\ DaemonHears(e)
  /\ toGui' = [s \in Sessions |-> toGui[s] \cup (IF s \in open THEN {e} ELSE {})]
  /\ UNCHANGED <<client, open, daemonHosts, toDaemon, timer, file, localQueue, forwarder,
                 forwardQueue, jobs, runs, handedTo>>

\* The daemon handles a _bus.publish line.
DaemonReads(s, e) ==
  /\ s \in open /\ e \in toDaemon[s]
  /\ toDaemon' = [toDaemon EXCEPT ![s] = @ \ {e}]
  /\ DaemonHears(e)
  /\ UNCHANGED <<client, open, daemonHosts, toGui, timer, file, bus, jobs, runs, handedTo>>

DaemonDispatches(e) ==
  /\ e \in daemonQueue
  /\ daemonQueue' = daemonQueue \ {e}
  /\ runs' = [runs EXCEPT ![e].daemon = @ + 1]
  /\ UNCHANGED <<client, open, daemonHosts, toDaemon, toGui, timer, file, bus, jobs, handedTo>>

\* The daemon drops a connection: its end of file, a failed heartbeat.
DaemonDrops(s) ==
  /\ s \in open
  /\ open' = open \ {s}
  /\ toDaemon' = [toDaemon EXCEPT ![s] = {}]
  /\ UNCHANGED <<client, daemonHosts, daemonQueue, toGui, timer, file, bus, jobs, runs,
                 handedTo>>

\* The daemon dies; another one comes up, which may have another word on triggers.
DaemonDies ==
  /\ open # {}
  /\ open' = {} /\ daemonQueue' = {} /\ daemonHosts' \in Hosts
  /\ toDaemon' = [s \in Sessions |-> {}]
  /\ UNCHANGED <<client, toGui, timer, file, bus, jobs, runs, handedTo>>

-----------------------------------------------------------------------------
(* gui_forwarder_loop, one thread per kind; one stands for those of a connection *)

Mutant_Crossed(e) == FALSE

\* An event that came over the bridge is not sent back.
Crossed(e) == e \in Foreign

\* A line on a connection the daemon has left ends the writer thread and, with
\* it, the forwarder.
Forward(s, e) ==
  /\ forwarder[s] = "on" /\ e \in forwardQueue[s]
  /\ IF Crossed(e) \/ s \in open
     THEN /\ forwardQueue' = [forwardQueue EXCEPT ![s] = @ \ {e}]
          /\ toDaemon' = IF Crossed(e) THEN toDaemon
                         ELSE [toDaemon EXCEPT ![s] = @ \cup {e}]
          /\ UNCHANGED forwarder
     ELSE /\ forwarder' = [forwarder EXCEPT ![s] = "off"]
          /\ forwardQueue' = [forwardQueue EXCEPT ![s] = {}]
          /\ UNCHANGED toDaemon
  /\ UNCHANGED <<client, open, daemonHosts, daemonQueue, toGui, timer, file, published,
                 localQueue, jobs, runs, handedTo>>

\* The stop flag of a connection is up once its ForwarderGuard was dropped.
Stopped(s) == s < session \/ at \in {"stopped", "asleep"}

ForwarderStops(s) ==
  /\ forwarder[s] = "on" /\ Stopped(s)
  /\ forwarder' = [forwarder EXCEPT ![s] = "off"]
  /\ forwardQueue' = [forwardQueue EXCEPT ![s] = {}]
  /\ UNCHANGED <<client, daemon, timer, file, published, localQueue, jobs, runs, handedTo>>

-----------------------------------------------------------------------------
(* reconnect_loop and run *)

\* The sleep is at least a second and a forwarder looks at its flag ten times as
\* often: when it is over, those of older connections are gone.
Wake ==
  /\ at = "asleep" /\ generation < 2 * MaxAttempts
  /\ On = {}
  /\ at' = "connecting"
  /\ generation' = generation + 1
  /\ backoff' = IF generation = 0 \/ registered THEN 0
                ELSE IF backoff < BackoffMax THEN backoff + 1 ELSE backoff
  /\ registered' = FALSE
  /\ UNCHANGED <<session, host, daemon, timer, file, bus, jobs, runs, handedTo>>

\* Nobody listens, or the ack does not come or refuses: run() returns before it
\* has any other guard than the one of the generation.
Fail ==
  /\ at \in {"connecting", "acking"}
  /\ at' = "asleep"
  /\ generation' = generation + 1
  /\ orphaned' = orphaned \cup {j \in Jobs : job[j].stage = "queued"}
  /\ UNCHANGED <<session, host, registered, backoff, daemon, timer, file, bus, job, runs,
                 handedTo>>

Connect ==
  /\ at = "connecting"
  /\ at' = "acking"
  /\ session' = session + 1
  /\ open' = open \cup {session + 1}
  /\ UNCHANGED <<host, generation, registered, backoff, daemonHosts, daemonQueue, toDaemon,
                 toGui, timer, file, bus, jobs, runs, handedTo>>

AckArrives ==
  /\ at = "acking" /\ session \in open
  /\ at' = "acked"
  /\ host' = daemonHosts
  /\ registered' = TRUE
  /\ UNCHANGED <<session, generation, backoff, daemon, timer, file, bus, jobs, runs, handedTo>>

Mutant_StartForwarder ==
  /\ at = "acked"
  /\ at' = "subscribed"
  /\ authority' = Append(authority, host)
  /\ UNCHANGED <<session, host, generation, registered, backoff, daemon, applied, engine,
                 cached, file, bus, jobs, runs, handedTo>>

\* The forwarder subscribes only if the daemon said that it dispatches triggers.
StartForwarder ==
  /\ at = "acked"
  /\ at' = "subscribed"
  /\ forwarder' = [forwarder EXCEPT ![session] = IF host THEN "on" ELSE "none"]
  /\ UNCHANGED <<session, host, generation, registered, backoff, daemon, timer, file,
                 published, localQueue, forwardQueue, jobs, runs, handedTo>>

\* The cut-over signal, after the forwarder has subscribed.
SendAuthority ==
  /\ at = "subscribed"
  /\ at' = "reading"
  /\ authority' = Append(authority, host)
  /\ UNCHANGED <<session, host, generation, registered, backoff, daemon, applied, engine,
                 cached, file, bus, jobs, runs, handedTo>>

\* An event line is published on the window's bus, marked as bridged.
Bridge(e) ==
  /\ at = "reading" /\ e \in toGui[session]
  /\ toGui' = [toGui EXCEPT ![session] = @ \ {e}]
  /\ Receive(e)
  /\ UNCHANGED <<client, open, daemonHosts, daemonQueue, toDaemon, timer, file, published,
                 forwarder, jobs, runs, handedTo>>

\* A guard that goes without a word.
Mutant_RestoreAuthority ==
  /\ at = "reading"
  /\ at' = "restored"
  /\ UNCHANGED <<session, host, generation, registered, backoff, daemon, timer, file, bus,
                 jobs, runs, handedTo>>

\* run() returns: the connection has ended, or a frame is too large.  The guards
\* are dropped in the order opposite to their creation.
RestoreAuthority ==
  /\ at = "reading"
  /\ at' = "restored"
  /\ authority' = Append(authority, FALSE)
  /\ UNCHANGED <<session, host, generation, registered, backoff, daemon, applied, engine,
                 cached, file, bus, jobs, runs, handedTo>>

StopForwarder ==
  /\ at = "restored"
  /\ at' = "stopped"
  /\ UNCHANGED <<session, host, generation, registered, backoff, daemon, timer, file, bus,
                 jobs, runs, handedTo>>

Mutant_LeaveGeneration ==
  /\ at = "stopped"
  /\ at' = "asleep"
  /\ orphaned' = orphaned \cup {j \in Jobs : job[j].stage = "queued"}
  /\ UNCHANGED <<session, host, generation, registered, backoff, daemon, timer, file, bus,
                 job, runs, handedTo>>

\* The exit bump: jobs still queued are for nobody from here on.
LeaveGeneration ==
  /\ at = "stopped"
  /\ at' = "asleep"
  /\ generation' = generation + 1
  /\ orphaned' = orphaned \cup {j \in Jobs : job[j].stage = "queued"}
  /\ UNCHANGED <<session, host, registered, backoff, daemon, timer, file, bus, job, runs,
                 handedTo>>


-----------------------------------------------------------------------------
(* GuiInvokeJob: the pool runs it, the timer carries it out *)

Move(j, from, to) ==
  /\ job[j].stage = from
  /\ job' = [job EXCEPT ![j].stage = to]
  /\ UNCHANGED <<client, daemon, timer, file, bus, orphaned, runs, handedTo>>

\* An Invoke is read and offered to the pool, which may be full.
Invoke(j) ==
  /\ at = "reading" /\ job[j].stage = "idle"
  /\ \E stage \in {"queued", "refused"} :
       job' = [job EXCEPT ![j] = [stage |-> stage, admitted |-> generation]]
  /\ UNCHANGED <<client, daemon, timer, file, bus, orphaned, runs, handedTo>>

CheckGeneration(j) ==
  Move(j, "queued", IF job[j].admitted = generation THEN "checked" ELSE "refused")

\* handle_invoke hands it to the GTK thread.
SendCommand(j) == Move(j, "checked", "sent")

-----------------------------------------------------------------------------
(* The GTK thread: the 50 ms timer and the config watcher *)

\* apply_host_triggers: a change of authority clears the engine with its
\* receivers, or restores the cached triggers with new ones.
Apply(value) ==
  /\ applied' = value
  /\ engine' = IF value THEN 0 ELSE cached

\* The timer before it took the latest word first.
Mutant_Tick ==
  /\ authority # <<>> \/ localQueue # {}
  /\ LET value == authority[Len(authority)]
     IN IF authority # <<>> /\ value # applied THEN Apply(value)
        ELSE UNCHANGED <<applied, engine>>
  /\ runs' = [e \in Events |-> IF e \in localQueue
                               THEN [runs[e] EXCEPT !.gui = @ + 1] ELSE runs[e]]
  /\ authority' = <<>> /\ localQueue' = {}
  /\ UNCHANGED <<client, daemon, cached, file, published, forwarder, forwardQueue, jobs,
                 handedTo>>

\* One tick: the latest word on authority, if it is a new one, then pump_all,
\* then the commands.
Tick ==
  /\ authority # <<>> \/ localQueue # {} \/ \E j \in Jobs : job[j].stage = "sent"
  /\ LET value == authority[Len(authority)]
         change == authority # <<>> /\ value # applied
     IN /\ IF change THEN Apply(value) ELSE UNCHANGED <<applied, engine>>
        /\ runs' = IF change THEN runs
                   ELSE [e \in Events |-> IF e \in localQueue
                                          THEN [runs[e] EXCEPT !.gui = @ + 1] ELSE runs[e]]
  /\ authority' = <<>> /\ localQueue' = {}
  /\ job' = [j \in Jobs |-> IF job[j].stage = "sent" THEN [job[j] EXCEPT !.stage = "done"]
                            ELSE job[j]]
  /\ UNCHANGED <<client, daemon, cached, file, published, forwarder, forwardQueue, orphaned,
                 handedTo>>


Edit ==
  /\ config <= MaxReloads
  /\ config' = config + 1 /\ valid' \in BOOLEAN /\ edited' = TRUE
  /\ UNCHANGED <<client, daemon, timer, bus, jobs, runs, handedTo>>

\* The watcher that leaves early while the daemon dispatches.
Mutant_Reload ==
  /\ edited /\ edited' = FALSE
  /\ IF ~valid \/ applied THEN UNCHANGED <<cached, engine, localQueue>>
     ELSE cached' = config /\ engine' = config /\ localQueue' = {}
  /\ UNCHANGED <<client, daemon, authority, applied, config, valid, published, forwarder,
                 forwardQueue, jobs, runs, handedTo>>

\* watch_config: the cache always follows the file; the engine, flushed on its
\* old receivers, only while the window dispatches.
Reload ==
  /\ edited /\ edited' = FALSE
  /\ IF ~valid THEN UNCHANGED <<cached, engine, localQueue, runs>>
     ELSE /\ cached' = config
          /\ IF applied THEN UNCHANGED <<engine, localQueue, runs>>
             ELSE /\ engine' = config
                  /\ localQueue' = {}
                  /\ runs' = [e \in Events |-> IF e \in localQueue
                                THEN [runs[e] EXCEPT !.gui = @ + 1] ELSE runs[e]]
  /\ UNCHANGED <<client, daemon, authority, applied, config, valid, published, forwarder,
                 forwardQueue, jobs, handedTo>>


-----------------------------------------------------------------------------
ClientThread ==
  \/ Wake \/ Fail \/ Connect \/ AckArrives \/ StartForwarder \/ SendAuthority
  \/ RestoreAuthority \/ StopForwarder \/ LeaveGeneration
  \/ \E e \in Foreign : Bridge(e)

Next ==
  \/ ClientThread \/ Tick \/ Edit \/ Reload \/ DaemonDies
  \/ \E e \in Events : Publish(e) \/ DaemonPublishes(e) \/ DaemonDispatches(e)
  \/ \E s \in Sessions :
       \/ DaemonDrops(s) \/ ForwarderStops(s)
       \/ \E e \in Events : DaemonReads(s, e) \/ Forward(s, e)
  \/ \E j \in Jobs : Invoke(j) \/ CheckGeneration(j) \/ SendCommand(j)

Spec == Init /\ [][Next]_vars

\* The end of a connection is read, guards are dropped, the timer ticks.
Leaving == (RestoreAuthority /\ session \notin open) \/ StopForwarder \/ LeaveGeneration

Fairness == WF_vars(Leaving) /\ WF_vars(Tick) /\ WF_vars(SendAuthority)
            /\ WF_vars(StartForwarder)

FairSpec == Spec /\ Fairness

-----------------------------------------------------------------------------
(* Properties *)

\* While the daemon that dispatches is connected, the timer dispatches none of the
\* events it bridges, from the first on: the word of the cut-over is sent before
\* one is read, and taken before the pump ("clear the local engine on the SAME
\* tick so no events dispatch locally before the cut-over is applied").
Bridging == at = "reading" /\ host
LeavesBridged == Bridging /\ Tick => \A e \in Foreign : runs'[e].gui = runs[e].gui
BridgedAreTheDaemons == [][LeavesBridged]_vars

\* An event of the window's that is published after the cut-over is dispatched by
\* the daemon alone, and while the connection holds it is on its way there.
HandedOver ==
  \A e \in Native : handedTo[e] # 0 =>
    LET s == handedTo[e]
    IN /\ runs[e].gui = 0 /\ runs[e].daemon <= 1
       /\ s \in open /\ s = session /\ at = "reading" =>
            e \in forwardQueue[s] \cup toDaemon[s] \cup daemonQueue \/ runs[e].daemon = 1

\* No event crosses the bridge twice: what the daemon published does not come
\* back to it (the bridge_id check of gui_forwarder_loop).
NoEcho == \A s \in Sessions : toDaemon[s] \cap Foreign = {}

\* Whoever holds authority, the local engine runs no triggers or those of the
\* file, once a change of it was notified ("a later disconnect restores the
\* freshest set, not the startup snapshot").
EngineFollowsFile == ~edited /\ valid => engine \in {0, config}

\* An invoke that was queued when its connection ended is never carried out
\* ("a stale job" must not "still pass the generation check").
OrphansNeverRun == \A j \in orphaned : job[j].stage \in {"queued", "refused"}

\* All of it: one side dispatches each event.  (gui_client.rs, window.rs host_triggers)
OneDispatcher == HandedOver /\ NoEcho /\ EngineFollowsFile /\ OrphansNeverRun

\* A window without a daemon gets its triggers back, or a new connection.
Alone == open = {}
SomeoneDispatches == engine # 0 \/ ~Alone
AuthorityReturns == Alone ~> SomeoneDispatches

-----------------------------------------------------------------------------
(* What the comments say and the code does not do *)

\* "Clear the local engine on the SAME tick so no events dispatch locally": the
\* config watcher pumps without reading the channel, and a cut-over that is taken
\* back within a tick is never seen.
ForeignOnce == \A e \in Foreign : runs[e].gui + runs[e].daemon <= 1


\* "A worker that picks up a job after its admitting connection died MUST NOT
\* dispatch": the check and the dispatch are two steps.
NoStaleDispatch ==
  [][\A j \in Jobs : job[j].stage = "checked" /\ job'[j].stage = "sent" =>
       job[j].admitted = generation]_vars

\* "the first retry waits BACKOFF_INITIAL": the wait is reset after the sleep.
FirstRetryIsPrompt == at = "asleep" /\ registered => backoff = 0

\* "events in that gap would be lost by both engines": so is what still waits in
\* the local receivers, and came before the forwarder, when the timer clears them.
NothingLost ==
  \A e \in Native : e \in published /\ open = {1} /\ session = 1 /\ at = "reading" =>
    \/ e \in localQueue \cup forwardQueue[1] \cup toDaemon[1] \cup daemonQueue
    \/ runs[e].gui + runs[e].daemon > 0
=============================================================================
