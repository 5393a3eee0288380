---------------------------- MODULE GuiClientProofs ----------------------------
(***************************************************************************)
(* Safety of the window's side of the daemon, for any number of            *)
(* connections, events of either side, invokes and edits of the config.    *)
(***************************************************************************)
EXTENDS GuiClient, SequenceTheorems, TLAPS

Linked == {"acked", "subscribed", "reading"}       \* the ack was read
Handing == {"subscribed", "reading"}               \* and the forwarder started

\* The counter has a value of its own for every connection and every pause.
Numbered ==
  /\ at = "asleep" => 2 * session <= generation
  /\ at = "connecting" => 2 * session < generation
  /\ at \notin {"asleep", "connecting"} => 1 <= session /\ 2 * session <= generation + 1
  /\ at # "asleep" => generation <= 2 * MaxAttempts
  /\ \A j \in Jobs : job[j].admitted <= generation

\* Only the last connection is alive, and only it forwards; what its ack said of
\* the daemon stays true, and its forwarder stays, while the daemon keeps it open.
LastForwards ==
  /\ \A s \in open : s <= session
  /\ On \subseteq {session}
  /\ at \in {"connecting", "acking", "acked"} => On = {}
  /\ at \in Linked /\ session \in open => host = daemonHosts
  /\ at \in Handing /\ host /\ session \in open => forwarder[session] = "on"

\* The local engine is empty while the daemon dispatches, and what it will run is
\* the file's.
EngineAndCache ==
  /\ applied => engine = 0
  /\ ~edited /\ valid => cached = config
  /\ EngineFollowsFile

\* A job of an older connection cannot pass the check any more.
OrphansAreStale ==
  \A j \in orphaned :
    /\ job[j].stage \in {"queued", "refused"}
    /\ job[j].stage = "queued" => job[j].admitted < generation

\* The daemon's events come in and are not sent back.
OneWay == NoEcho /\ \A s \in Sessions : toGui[s] \subseteq Foreign

\* An event of the window's is in one place on its way to the daemon's engine,
\* and dispatched there once.
InOnePlace ==
  \A e \in Native, s, t \in Sessions :
    /\ e \in forwardQueue[s] =>
         /\ e \notin toDaemon[t] \cup daemonQueue /\ runs[e].daemon = 0
         /\ e \in forwardQueue[t] => t = s
    /\ e \in toDaemon[s] =>
         /\ e \notin daemonQueue /\ runs[e].daemon = 0
         /\ e \in toDaemon[t] => t = s
OnceThere ==
  \A e \in Native :
    /\ e \in daemonQueue => runs[e].daemon = 0
    /\ runs[e].daemon <= 1

\* An event that was not published is nowhere.
Unborn ==
  \A e \in Native \ published :
    /\ e \notin localQueue \cup daemonQueue
    /\ \A s \in Sessions : e \notin forwardQueue[s] \cup toDaemon[s]
    /\ runs[e].gui = 0 /\ runs[e].daemon = 0 /\ handedTo[e] = 0

\* An event that was handed over is the daemon's: never in the local receivers,
\* and under way as long as the connection it was handed to stands.
Handed ==
  \A e \in Native : handedTo[e] # 0 =>
    /\ e \notin localQueue /\ runs[e].gui = 0
    /\ handedTo[e] <= session
    /\ handedTo[e] = session => host /\ at \notin {"acking", "acked"}
    /\ handedTo[e] = session /\ session \in open /\ at \in Handing =>
         \/ e \in forwardQueue[session] \cup toDaemon[session] \cup daemonQueue
         \/ runs[e].daemon = 1

IInv ==
  /\ TypeOK /\ Numbered /\ LastForwards /\ EngineAndCache /\ OrphansAreStale
  /\ OneWay /\ InOnePlace /\ OnceThere /\ Unborn /\ Handed

-----------------------------------------------------------------------------
(* The initial state *)

\* The invariant holds initially.
LEMMA InitInvariant == GuiClientAssumption /\ Init => IInv
<1> SUFFICES ASSUME GuiClientAssumption, Init PROVE IInv
  OBVIOUS
<1> USE DEF Init, GuiClientAssumption
<1>1. TypeOK
  <2>1. 1 \in Versions /\ 0 \in 0..MaxAttempts /\ 0 \in 0..BackoffMax
    BY DEF Versions
  <2>2. at \in Places /\ authority \in Seq(BOOLEAN) /\ daemonHosts \in BOOLEAN
    BY DEF Places
  <2>3. {forwardQueue, toDaemon, toGui} \subseteq [Sessions -> SUBSET Events]
    OBVIOUS
  <2>4. job \in [Jobs -> [stage : Stages, admitted : Nat]]
    BY DEF Stages
  <2> QED
    BY <2>1, <2>2, <2>3, <2>4 DEF TypeOK
<1>2. Numbered /\ LastForwards
  BY DEF Numbered, LastForwards, On, Linked, Handing
<1>3. EngineAndCache /\ OrphansAreStale /\ OneWay
  BY DEF EngineAndCache, EngineFollowsFile, OrphansAreStale, OneWay, NoEcho
<1>4. InOnePlace /\ OnceThere /\ Unborn /\ Handed
  BY DEF InOnePlace, OnceThere, Unborn, Handed, Events
<1> QED
  BY <1>1, <1>2, <1>3, <1>4 DEF IInv

-----------------------------------------------------------------------------
(* The actors *)

Thread ==
  \/ Wake \/ Fail \/ Connect \/ AckArrives \/ StartForwarder \/ SendAuthority
  \/ RestoreAuthority \/ StopForwarder \/ LeaveGeneration

\* What carries events.
Transport(e, s) ==
  \/ e \in Events /\ (Publish(e) \/ DaemonPublishes(e) \/ DaemonDispatches(e))
  \/ e \in Events /\ s \in Sessions /\ (DaemonReads(s, e) \/ Forward(s, e))
  \/ s \in Sessions /\ (DaemonDrops(s) \/ ForwarderStops(s))
  \/ e \in Foreign /\ Bridge(e)
  \/ DaemonDies

Job(j) == Invoke(j) \/ CheckGeneration(j) \/ SendCommand(j)

\* Every step is one of these.
LEMMA Actors ==
  ASSUME Next
  PROVE  \/ Thread \/ Tick \/ Edit \/ Reload
         \/ \E e, s : Transport(e, s)
         \/ \E j \in Jobs : Job(j)
BY DEF Next, ClientThread, Thread, Transport, Job

-----------------------------------------------------------------------------
(* Types *)

\* Types under the steps of the connection's thread,
LEMMA ThreadTypes ==
  ASSUME GuiClientAssumption, TypeOK, Numbered,
         Wake \/ Fail \/ Connect \/ AckArrives \/ StartForwarder \/ SendAuthority
           \/ RestoreAuthority \/ StopForwarder \/ LeaveGeneration
  PROVE  TypeOK'
<1> USE DEF TypeOK, client, daemon, timer, file, bus, jobs
<1>1. CASE Wake
  <2>1. backoff' \in 0..BackoffMax /\ generation' \in Nat /\ at' \in Places
    BY <1>1 DEF Wake, GuiClientAssumption, Places
  <2> QED
    BY <1>1, <2>1 DEF Wake
<1>2. CASE Fail
  <2>1. generation' \in Nat /\ at' \in Places
    BY <1>2 DEF Fail, Places
  <2> QED
    BY <1>2, <2>1 DEF Fail
<1>3. CASE Connect
  <2>1. session + 1 \in Sessions
    BY <1>3 DEF Connect, Numbered, Sessions, GuiClientAssumption
  <2>2. session' \in 0..MaxAttempts /\ open' \subseteq Sessions /\ at' \in Places
    BY <1>3, <2>1 DEF Connect, Places, Sessions
  <2> QED
    BY <1>3, <2>2 DEF Connect
<1>4. CASE AckArrives
  BY <1>4 DEF AckArrives, Places
<1>5. CASE StartForwarder
  BY <1>5 DEF StartForwarder, Places
<1>6. CASE SendAuthority
  BY <1>6 DEF SendAuthority, Places
<1>7. CASE RestoreAuthority
  BY <1>7 DEF RestoreAuthority, Places
<1>8. CASE StopForwarder
  BY <1>8 DEF StopForwarder, Places
<1>9. CASE LeaveGeneration
  <2>1. generation' \in Nat /\ at' \in Places
    BY <1>9 DEF LeaveGeneration, Places
  <2> QED
    BY <1>9, <2>1 DEF LeaveGeneration
<1> QED
  BY <1>1, <1>2, <1>3, <1>4, <1>5, <1>6, <1>7, <1>8, <1>9

\* of what carries events,
LEMMA EventTypes ==
  ASSUME GuiClientAssumption, TypeOK, NEW e, NEW s, Transport(e, s)
  PROVE  TypeOK'
<1> USE DEF TypeOK, client, daemon, timer, file, bus, jobs
<1>1. CASE e \in Events /\ Publish(e)
  <2>1. localQueue' \subseteq Events /\ forwardQueue' \in [Sessions -> SUBSET Events]
    BY <1>1 DEF Publish, Receive
  <2>2. handedTo' \in [Events -> Sessions \cup {0}]
    BY <1>1 DEF Publish, Sessions
  <2> QED
    BY <1>1, <2>1, <2>2 DEF Publish
<1>2. CASE e \in Events /\ DaemonPublishes(e)
  <2>1. daemonQueue' \subseteq Events /\ toGui' \in [Sessions -> SUBSET Events]
    BY <1>2 DEF DaemonPublishes, DaemonHears
  <2> QED
    BY <1>2, <2>1 DEF DaemonPublishes
<1>3. CASE e \in Events /\ DaemonDispatches(e)
  <2>1. runs' \in [Events -> [gui : Nat, daemon : Nat]]
    <3>1. runs[e] \in [gui : Nat, daemon : Nat]
      BY <1>3
    <3> runs[e].daemon + 1 \in Nat
      BY <3>1
    <3>2. [runs[e] EXCEPT !.daemon = @ + 1] \in [gui : Nat, daemon : Nat]
      BY <3>1
    <3> QED
      BY <1>3, <3>2 DEF DaemonDispatches
  <2> QED
    BY <1>3, <2>1 DEF DaemonDispatches
<1>4. CASE e \in Events /\ s \in Sessions /\ DaemonReads(s, e)
  <2>1. daemonQueue' \subseteq Events /\ toDaemon' \in [Sessions -> SUBSET Events]
    BY <1>4 DEF DaemonReads, DaemonHears
  <2> QED
    BY <1>4, <2>1 DEF DaemonReads
<1>5. CASE e \in Events /\ s \in Sessions /\ Forward(s, e)
  <2>1. /\ forwardQueue' \in [Sessions -> SUBSET Events]
        /\ toDaemon' \in [Sessions -> SUBSET Events]
        /\ forwarder' \in [Sessions -> {"none", "on", "off"}]
    <3>1. CASE Crossed(e) \/ s \in open
      <4>1. forwardQueue' = [forwardQueue EXCEPT ![s] = @ \ {e}] /\ UNCHANGED forwarder
        BY <1>5, <3>1 DEF Forward
      <4>2. toDaemon' = toDaemon \/ toDaemon' = [toDaemon EXCEPT ![s] = @ \cup {e}]
        BY <1>5, <3>1 DEF Forward
      <4>3. toDaemon' \in [Sessions -> SUBSET Events]
        BY <1>5, <4>2
      <4> QED
        BY <4>1, <4>3
    <3>2. CASE ~(Crossed(e) \/ s \in open)
      BY <1>5, <3>2 DEF Forward
    <3> QED
      BY <3>1, <3>2
  <2> QED
    BY <1>5, <2>1 DEF Forward
<1>6. CASE s \in Sessions /\ ForwarderStops(s)
  <2>1. /\ forwardQueue' \in [Sessions -> SUBSET Events]
        /\ forwarder' \in [Sessions -> {"none", "on", "off"}]
    BY <1>6 DEF ForwarderStops
  <2> QED
    BY <1>6, <2>1 DEF ForwarderStops
<1>7. CASE s \in Sessions /\ DaemonDrops(s)
  <2>1. toDaemon' \in [Sessions -> SUBSET Events] /\ open' \subseteq Sessions
    BY <1>7 DEF DaemonDrops
  <2> QED
    BY <1>7, <2>1 DEF DaemonDrops
<1>8. CASE DaemonDies
  <2>1. toDaemon' \in [Sessions -> SUBSET Events] /\ daemonHosts' \in BOOLEAN
    BY <1>8 DEF DaemonDies, GuiClientAssumption
  <2> QED
    BY <1>8, <2>1 DEF DaemonDies
<1>9. CASE e \in Foreign /\ Bridge(e)
  <2>1. localQueue' \subseteq Events /\ {forwardQueue', toGui'} \subseteq [Sessions -> SUBSET Events]
    <3>1. localQueue' \subseteq Events /\ forwardQueue' \in [Sessions -> SUBSET Events]
      BY <1>9 DEF Bridge, Receive, Events
    <3>2. toGui' \in [Sessions -> SUBSET Events]
      BY <1>9 DEF Bridge
    <3> QED
      BY <3>1, <3>2
  <2> QED
    BY <1>9, <2>1 DEF Bridge
<1> QED
  BY <1>1, <1>2, <1>3, <1>4, <1>5, <1>6, <1>7, <1>8, <1>9 DEF Transport

\* A dispatch by the local engine is one more, and the daemon's count stays.
LEMMA Counted ==
  ASSUME TypeOK
  PROVE  \A e \in Events :
           [runs[e] EXCEPT !.gui = @ + 1] \in [gui : Nat, daemon : Nat]
<1> TAKE e \in Events
<1>1. runs[e] \in [gui : Nat, daemon : Nat]
  BY DEF TypeOK
<1>2. runs[e].gui + 1 \in Nat
  BY <1>1
<1> QED
  BY <1>1, <1>2

\* Types under the steps of the timer and the watcher,
LEMMA TimerTypes ==
  ASSUME GuiClientAssumption, TypeOK, Tick \/ Edit \/ Reload
  PROVE  TypeOK'
<1> USE DEF TypeOK, client, daemon, timer, file, bus, jobs
<1>1. CASE Tick
  <2>1. applied' \in BOOLEAN /\ engine' \in Versions \cup {0}
    <3>1. authority # <<>> => authority[Len(authority)] \in BOOLEAN
      OBVIOUS
    <3> QED
      BY <1>1, <3>1 DEF Tick, Apply
  <2>2. runs' \in [Events -> [gui : Nat, daemon : Nat]]
    BY <1>1, Counted DEF Tick
  <2>3. job' \in [Jobs -> [stage : Stages, admitted : Nat]]
    <3>1. \A j \in Jobs : [job[j] EXCEPT !.stage = "done"] \in [stage : Stages, admitted : Nat]
      BY DEF Stages
    <3> QED
      BY <1>1, <3>1 DEF Tick
  <2>4. authority' \in Seq(BOOLEAN) /\ localQueue' \subseteq Events
    BY <1>1 DEF Tick
  <2> QED
    BY <1>1, <2>1, <2>2, <2>3, <2>4 DEF Tick
<1>2. CASE Edit
  <2>1. config' \in Versions
    BY <1>2 DEF Edit, Versions, GuiClientAssumption
  <2> QED
    BY <1>2, <2>1 DEF Edit
<1>3. CASE Reload
  <2>1. cached' \in Versions /\ engine' \in Versions \cup {0} /\ localQueue' \subseteq Events
    BY <1>3 DEF Reload
  <2>2. runs' \in [Events -> [gui : Nat, daemon : Nat]]
    BY <1>3, Counted DEF Reload
  <2> QED
    BY <1>3, <2>1, <2>2 DEF Reload
<1> QED
  BY <1>1, <1>2, <1>3

\* and of the workers.
LEMMA JobTypes ==
  ASSUME TypeOK, NEW j \in Jobs, Invoke(j) \/ CheckGeneration(j) \/ SendCommand(j)
  PROVE  TypeOK'
<1> USE DEF TypeOK, client, daemon, timer, file, bus, jobs
<1>1. job' \in [Jobs -> [stage : Stages, admitted : Nat]]
  <2>1. job[j] \in [stage : Stages, admitted : Nat]
    OBVIOUS
  <2>2. CASE Invoke(j)
    <3>1. PICK stage \in {"queued", "refused"} :
            job' = [job EXCEPT ![j] = [stage |-> stage, admitted |-> generation]]
      BY <2>2 DEF Invoke
    <3>2. [stage |-> stage, admitted |-> generation] \in [stage : Stages, admitted : Nat]
      BY DEF Stages
    <3> QED
      BY <3>1, <3>2
  <2>3. CASE CheckGeneration(j) \/ SendCommand(j)
    <3>1. PICK to \in Stages : job' = [job EXCEPT ![j].stage = to]
      BY <2>3 DEF CheckGeneration, SendCommand, Move, Stages
    <3>2. [job[j] EXCEPT !.stage = to] \in [stage : Stages, admitted : Nat]
      BY <2>1
    <3> QED
      BY <3>1, <3>2
  <2> QED
    BY <2>2, <2>3
<1> QED
  BY <1>1 DEF Invoke, CheckGeneration, SendCommand, Move

-----------------------------------------------------------------------------
(* What each actor leaves alone *)

\* The connection's thread touches no queue and no count.
LEMMA ThreadFrame ==
  ASSUME Thread
  PROVE  /\ UNCHANGED <<daemonHosts, daemonQueue, toDaemon, toGui, applied, engine, cached>>
         /\ UNCHANGED <<file, published, localQueue, forwardQueue, job, runs, handedTo>>
<1> USE DEF client, daemon, timer, file, bus, jobs
<1>1. CASE Wake \/ Fail \/ Connect \/ AckArrives
  BY <1>1 DEF Wake, Fail, Connect, AckArrives
<1>2. CASE StartForwarder \/ SendAuthority \/ RestoreAuthority \/ StopForwarder \/ LeaveGeneration
  BY <1>2 DEF StartForwarder, SendAuthority, RestoreAuthority, StopForwarder, LeaveGeneration
<1> QED
  BY <1>1, <1>2 DEF Thread

\* What carries events leaves the thread, the jobs and the config alone.
LEMMA TransportFrame ==
  ASSUME NEW e, NEW s, Transport(e, s)
  PROVE  UNCHANGED <<client, timer, file, jobs>>
<1> USE DEF client, daemon, timer, file, bus, jobs
<1>1. CASE Publish(e) \/ DaemonPublishes(e) \/ DaemonDispatches(e) \/ DaemonReads(s, e)
  BY <1>1 DEF Publish, DaemonPublishes, DaemonDispatches, DaemonReads
<1>2. CASE Forward(s, e) \/ ForwarderStops(s) \/ DaemonDrops(s) \/ DaemonDies \/ Bridge(e)
  BY <1>2 DEF Forward, ForwarderStops, DaemonDrops, DaemonDies, Bridge
<1> QED
  BY <1>1, <1>2 DEF Transport

\* The workers change their job alone.
LEMMA JobFrame ==
  ASSUME NEW j, Job(j)
  PROVE  UNCHANGED <<client, daemon, timer, file, bus, orphaned, runs, handedTo>>
BY DEF Job, Invoke, CheckGeneration, SendCommand, Move

\* The timer and the watcher leave the connection alone.
LEMMA TimerFrame ==
  ASSUME Tick \/ Edit \/ Reload
  PROVE  UNCHANGED <<client, daemon, published, forwarder, forwardQueue, orphaned, handedTo>>
BY DEF Tick, Edit, Reload, client, daemon, timer, file, bus, jobs

-----------------------------------------------------------------------------
(* The connection's thread and its jobs *)

\* Moves of a job keep its number, or give it the current one.
LEMMA JobStep ==
  ASSUME TypeOK, Numbered, OrphansAreStale, NEW j \in Jobs, Job(j)
  PROVE  Numbered' /\ OrphansAreStale'
<1> USE DEF TypeOK
<1>1. UNCHANGED <<at, session, generation, orphaned>>
  BY JobFrame DEF client
<1>2. PICK to \in Stages, number \in {job[j].admitted, generation} :
        /\ job' = [job EXCEPT ![j] = [stage |-> to, admitted |-> number]]
        /\ \/ job[j].stage = "idle"
           \/ /\ number = job[j].admitted
              /\ job[j].stage = "queued" => number = generation \/ to = "refused"
              /\ job[j].stage \in {"queued", "checked"}
  <2>1. job[j] \in [stage : Stages, admitted : Nat]
    OBVIOUS
  <2>2. CASE Invoke(j)
    BY <2>2 DEF Invoke, Stages
  <2>3. CASE CheckGeneration(j) \/ SendCommand(j)
    <3>1. \A to : [job[j] EXCEPT !.stage = to] = [stage |-> to, admitted |-> job[j].admitted]
      BY <2>1
    <3> QED
      BY <2>3, <3>1 DEF CheckGeneration, SendCommand, Move, Stages
  <2> QED
    BY <2>2, <2>3 DEF Job
<1>3. Numbered'
  BY <1>1, <1>2 DEF Numbered
<1>4. OrphansAreStale'
  BY <1>1, <1>2 DEF OrphansAreStale, Numbered
<1> QED
  BY <1>3, <1>4

\* A pause and a connection each take the next number.
LEMMA ThreadStep ==
  ASSUME GuiClientAssumption, TypeOK, Numbered, OrphansAreStale, Thread
  PROVE  Numbered' /\ OrphansAreStale'
<1> USE DEF TypeOK, GuiClientAssumption, client, jobs
<1>1. job' = job
  BY ThreadFrame
<1>2. CASE Wake
  <2>1. Numbered'
    BY <1>1, <1>2 DEF Wake, Numbered
  <2>2. OrphansAreStale'
    BY <1>1, <1>2 DEF Wake, OrphansAreStale
  <2> QED
    BY <2>1, <2>2
<1>3. CASE Fail \/ LeaveGeneration
  <2>1. Numbered'
    BY <1>1, <1>3 DEF Fail, LeaveGeneration, Numbered
  <2>2. OrphansAreStale'
    BY <1>1, <1>3 DEF Fail, LeaveGeneration, OrphansAreStale, Numbered
  <2> QED
    BY <2>1, <2>2
<1>4. CASE Connect
  <2>1. Numbered'
    BY <1>1, <1>4 DEF Connect, Numbered
  <2>2. OrphansAreStale'
    BY <1>1, <1>4 DEF Connect, OrphansAreStale
  <2> QED
    BY <2>1, <2>2
<1>5. CASE AckArrives \/ StartForwarder \/ SendAuthority \/ RestoreAuthority \/ StopForwarder
  <2>1. /\ UNCHANGED <<session, generation, orphaned>>
        /\ {at, at'} \cap {"asleep", "connecting"} = {}
    BY <1>5 DEF AckArrives, StartForwarder, SendAuthority, RestoreAuthority, StopForwarder
  <2>2. Numbered'
    BY <1>1, <2>1 DEF Numbered
  <2>3. OrphansAreStale'
    BY <1>1, <2>1 DEF OrphansAreStale
  <2> QED
    BY <2>2, <2>3
<1> QED
  BY <1>2, <1>3, <1>4, <1>5 DEF Thread

\* The timer carries out the jobs that were sent to it.
LEMMA TickJobs ==
  ASSUME TypeOK, Numbered, OrphansAreStale, Tick
  PROVE  Numbered' /\ OrphansAreStale'
<1>1. UNCHANGED <<at, session, generation, orphaned>>
  BY TimerFrame DEF client
<1>2. \A j \in Jobs : /\ job'[j].admitted = job[j].admitted
                      /\ job[j].stage # "sent" => job'[j].stage = job[j].stage
  BY DEF Tick, TypeOK
<1>3. Numbered'
  BY <1>1, <1>2 DEF Numbered
<1>4. OrphansAreStale'
  BY <1>1, <1>2 DEF OrphansAreStale, TypeOK
<1> QED
  BY <1>3, <1>4

\* Only the last connection forwards.
LEMMA LastForwardsThread ==
  ASSUME GuiClientAssumption, TypeOK, Numbered, LastForwards, Thread
  PROVE  LastForwards'
<1> USE DEF TypeOK, LastForwards, On, Linked, Handing, client, daemon, bus
<1>1. CASE Wake \/ Fail \/ LeaveGeneration
  BY <1>1 DEF Wake, Fail, LeaveGeneration
<1>2. CASE Connect
  <2>1. session \in Nat /\ \A s \in open : s \in Nat
    BY DEF Sessions
  <2>2. \A s \in open' : s <= session'
    BY <1>2, <2>1 DEF Connect
  <2>3. On' = {}
    BY <1>2 DEF Connect
  <2> QED
    BY <1>2, <2>2, <2>3 DEF Connect
<1>3. CASE AckArrives
  BY <1>3 DEF AckArrives
<1>4. CASE StartForwarder
  <2>1. session \in Sessions
    BY <1>4 DEF StartForwarder, Numbered, Sessions
  <2>2. forwarder'[session] = IF host THEN "on" ELSE "none"
    BY <1>4, <2>1 DEF StartForwarder
  <2>3. \A s \in Sessions : s # session => forwarder'[s] # "on"
    BY <1>4 DEF StartForwarder
  <2>4. On' \subseteq {session'}
    BY <1>4, <2>3 DEF StartForwarder
  <2> QED
    BY <1>4, <2>2, <2>4 DEF StartForwarder
<1>5. CASE SendAuthority \/ RestoreAuthority \/ StopForwarder
  <2>1. /\ at' \in Handing => at \in Handing
        /\ at' \notin {"connecting", "acking", "acked"}
        /\ UNCHANGED <<session, host, open, daemonHosts, forwarder>>
    BY <1>5 DEF SendAuthority, RestoreAuthority, StopForwarder
  <2> QED
    BY <2>1
<1> QED
  BY <1>1, <1>2, <1>3, <1>4, <1>5 DEF Thread

\* A forwarder of an open connection stays, and what was acknowledged stays true.
LEMMA LastForwardsTransport ==
  ASSUME TypeOK, Numbered, LastForwards, NEW e, NEW s, Transport(e, s)
  PROVE  LastForwards'
<1> USE DEF TypeOK, LastForwards, On, Linked, Handing, client, daemon, bus
<1>1. UNCHANGED <<at, session, host>>
  BY TransportFrame
<1>2. CASE Forward(s, e)
  <2>1. UNCHANGED <<open, daemonHosts>>
    BY <1>2 DEF Forward
  <2>2. forwarder' = forwarder \/ (s \notin open /\ forwarder' = [forwarder EXCEPT ![s] = "off"])
    BY <1>2 DEF Forward
  <2> QED
    BY <1>1, <2>1, <2>2
<1>3. CASE s \in Sessions /\ ForwarderStops(s)
  <2>1. s < session \/ at \notin Handing
    BY <1>3 DEF ForwarderStops, Stopped
  <2>2. /\ UNCHANGED <<open, daemonHosts>>
        /\ forwarder' = [forwarder EXCEPT ![s] = "off"]
    BY <1>3 DEF ForwarderStops
  <2> QED
    BY <1>1, <2>1, <2>2 DEF Numbered
<1>4. CASE DaemonDrops(s) \/ DaemonDies
  BY <1>1, <1>4 DEF DaemonDrops, DaemonDies
<1>5. CASE Publish(e) \/ DaemonPublishes(e) \/ DaemonDispatches(e) \/ DaemonReads(s, e) \/ Bridge(e)
  BY <1>1, <1>5 DEF Publish, DaemonPublishes, DaemonDispatches, DaemonReads, Bridge
<1> QED
  BY <1>2, <1>3, <1>4, <1>5 DEF Transport

\* The engine runs nothing or the file's triggers.
LEMMA EngineStep ==
  ASSUME TypeOK, EngineAndCache, Tick \/ Edit \/ Reload
  PROVE  EngineAndCache'
<1> USE DEF EngineAndCache, EngineFollowsFile
<1>1. CASE Tick
  <2>1. \/ UNCHANGED <<applied, engine>>
        \/ applied' = TRUE /\ engine' = 0
        \/ applied' = FALSE /\ engine' = cached
    <3>1. authority # <<>> => authority[Len(authority)] \in BOOLEAN
      BY DEF TypeOK
    <3> QED
      BY <1>1, <3>1 DEF Tick, Apply
  <2> QED
    BY <1>1, <2>1 DEF Tick, file
<1>2. CASE Edit
  BY <1>2 DEF Edit, timer
<1>3. CASE Reload
  BY <1>3 DEF Reload, TypeOK
<1> QED
  BY <1>1, <1>2, <1>3

-----------------------------------------------------------------------------
(* The queues *)

\* The local engine counts what it had in its receivers and nothing else.
LEMMA LocalCounts ==
  ASSUME TypeOK, Tick \/ Edit \/ Reload
  PROVE  /\ localQueue' \subseteq localQueue
         /\ \A e \in Events : /\ runs'[e].daemon = runs[e].daemon
                              /\ e \notin localQueue => runs'[e].gui = runs[e].gui
<1>1. \/ UNCHANGED runs
      \/ runs' = [e \in Events |-> IF e \in localQueue
                                   THEN [runs[e] EXCEPT !.gui = @ + 1] ELSE runs[e]]
  BY DEF Tick, Edit, Reload
<1>2. \A e \in Events : [runs[e] EXCEPT !.gui = @ + 1].daemon = runs[e].daemon
  BY DEF TypeOK
<1>3. localQueue' \subseteq localQueue
  BY DEF Tick, Edit, Reload, bus
<1> QED
  BY <1>1, <1>2, <1>3

\* What a step of the daemon, of a forwarder or of a bridge does to the queues.
Queues == InOnePlace /\ OnceThere /\ Unborn /\ OneWay

\* Steps that dispatch locally or nowhere leave the events' ways alone.
LEMMA QueuesAside ==
  ASSUME TypeOK, Queues,
         UNCHANGED <<daemonQueue, toDaemon, toGui, published, forwardQueue, handedTo>>,
         localQueue' \subseteq localQueue,
         \A e \in Events : /\ runs'[e].daemon = runs[e].daemon
                           /\ e \notin localQueue => runs'[e].gui = runs[e].gui
  PROVE  Queues'
<1> USE DEF Queues, Events
<1>1. InOnePlace'
  BY DEF InOnePlace
<1>2. OnceThere'
  BY DEF OnceThere
<1>3. Unborn'
  BY DEF Unborn
<1>4. OneWay'
  BY DEF OneWay, NoEcho
<1> QED
  BY <1>1, <1>2, <1>3, <1>4

\* A new event of the window's enters at one place.
LEMMA PublishQueues ==
  ASSUME GuiClientAssumption, TypeOK, LastForwards, Queues, NEW e \in Events, Publish(e)
  PROVE  Queues'
<1> USE DEF TypeOK, Events, daemon
<1>1. /\ e \in Native \ published /\ published' = published \cup {e}
      /\ UNCHANGED <<daemonQueue, toDaemon, toGui, runs>>
      /\ \A s \in Sessions : forwardQueue'[s] \subseteq forwardQueue[s] \cup {e}
      /\ \A s \in Sessions \ {session} : forwardQueue'[s] = forwardQueue[s]
      /\ localQueue' \subseteq localQueue \cup {e}
      /\ \A f \in Events \ {e} : handedTo'[f] = handedTo[f]
  BY DEF Publish, Receive, LastForwards
<1>2. /\ e \notin daemonQueue /\ runs[e].daemon = 0
      /\ \A s \in Sessions : e \notin forwardQueue[s] \cup toDaemon[s]
  BY <1>1 DEF Queues, Unborn
<1> HIDE DEF TypeOK
<1>3. InOnePlace'
  <2> SUFFICES ASSUME NEW f \in Native, NEW s \in Sessions, NEW t \in Sessions
               PROVE  /\ f \in forwardQueue'[s] =>
                           /\ f \notin toDaemon'[t] \cup daemonQueue' /\ runs'[f].daemon = 0
                           /\ f \in forwardQueue'[t] => t = s
                      /\ f \in toDaemon'[s] =>
                           /\ f \notin daemonQueue' /\ runs'[f].daemon = 0
                           /\ f \in toDaemon'[t] => t = s
    BY DEF InOnePlace
  <2>1. CASE f = e
    BY <1>1, <1>2, <2>1
  <2>2. CASE f # e
    BY <1>1, <2>2 DEF Queues, InOnePlace
  <2> QED
    BY <2>1, <2>2
<1>4. OnceThere'
  BY <1>1 DEF Queues, OnceThere
<1>5. Unborn'
  BY <1>1 DEF Queues, Unborn
<1>6. OneWay'
  BY <1>1 DEF Queues, OneWay, NoEcho
<1> QED
  BY <1>3, <1>4, <1>5, <1>6 DEF Queues

\* The daemon's events touch the ways of the window's only on this side.
LEMMA ForeignQueues ==
  ASSUME GuiClientAssumption, TypeOK, Queues, NEW e \in Events,
         DaemonPublishes(e) \/ (e \in Foreign /\ Bridge(e))
  PROVE  Queues'
<1> USE DEF TypeOK, Events, GuiClientAssumption, daemon, bus
<1>1. /\ e \in Foreign /\ UNCHANGED <<toDaemon, runs, handedTo>>
      /\ published \subseteq published'
      /\ localQueue' \subseteq localQueue \cup {e}
      /\ daemonQueue' \subseteq daemonQueue \cup {e}
      /\ \A s \in Sessions : /\ forwardQueue'[s] \subseteq forwardQueue[s] \cup {e}
                             /\ toGui'[s] \subseteq toGui[s] \cup {e}
  <2>1. CASE DaemonPublishes(e)
    BY <2>1 DEF DaemonPublishes, DaemonHears
  <2>2. CASE e \in Foreign /\ Bridge(e)
    BY <2>2 DEF Bridge, Receive
  <2> QED
    BY <2>1, <2>2
<1>2. e \notin Native
  BY <1>1
<1> HIDE DEF TypeOK
<1>3. InOnePlace'
  BY <1>1, <1>2 DEF Queues, InOnePlace
<1>4. OnceThere'
  BY <1>1, <1>2 DEF Queues, OnceThere
<1>5. Unborn'
  BY <1>1, <1>2 DEF Queues, Unborn
<1>6. OneWay'
  BY <1>1 DEF Queues, OneWay, NoEcho
<1> QED
  BY <1>3, <1>4, <1>5, <1>6 DEF Queues

\* A dispatch by the daemon takes its event off the way.
LEMMA DispatchQueues ==
  ASSUME TypeOK, Queues, NEW e \in Events, DaemonDispatches(e)
  PROVE  Queues'
<1> USE DEF TypeOK, Events, bus
<1>1. /\ e \in daemonQueue /\ daemonQueue' = daemonQueue \ {e}
      /\ UNCHANGED <<toDaemon, toGui, published, localQueue, forwardQueue, handedTo>>
      /\ \A f \in Events : runs'[f].gui = runs[f].gui
      /\ \A f \in Events \ {e} : runs'[f].daemon = runs[f].daemon
      /\ runs'[e].daemon = runs[e].daemon + 1
  BY DEF DaemonDispatches
<1> HIDE DEF TypeOK
<1>2. InOnePlace'
  <2> SUFFICES ASSUME NEW f \in Native, NEW s \in Sessions, NEW t \in Sessions
               PROVE  /\ f \in forwardQueue[s] =>
                           /\ f \notin toDaemon[t] \cup daemonQueue' /\ runs'[f].daemon = 0
                           /\ f \in forwardQueue[t] => t = s
                      /\ f \in toDaemon[s] =>
                           /\ f \notin daemonQueue' /\ runs'[f].daemon = 0
                           /\ f \in toDaemon[t] => t = s
    BY <1>1 DEF InOnePlace
  <2> QED
    BY <1>1 DEF Queues, InOnePlace
<1>3. OnceThere'
  BY <1>1 DEF Queues, OnceThere
<1>4. Unborn'
  BY <1>1 DEF Queues, Unborn
<1>5. OneWay'
  BY <1>1 DEF Queues, OneWay, NoEcho
<1> QED
  BY <1>2, <1>3, <1>4, <1>5 DEF Queues

\* The two steps that carry an event on: from the window's receiver to the line,
\* and from the line to the daemon's bus.
LEMMA CarryQueues ==
  ASSUME GuiClientAssumption, TypeOK, Queues, NEW e \in Events, NEW s \in Sessions,
         Forward(s, e) \/ DaemonReads(s, e)
  PROVE  Queues'
<1> USE DEF TypeOK, Events, bus
<1>1. UNCHANGED <<toGui, published, localQueue, runs, handedTo>>
  BY DEF Forward, DaemonReads
<1>2. CASE DaemonReads(s, e)
  <2>1. /\ e \in toDaemon[s] /\ daemonQueue' \subseteq daemonQueue \cup {e}
        /\ UNCHANGED forwardQueue
        /\ toDaemon'[s] = toDaemon[s] \ {e}
        /\ \A t \in Sessions \ {s} : toDaemon'[t] = toDaemon[t]
    BY <1>2 DEF DaemonReads, DaemonHears
  <2> HIDE DEF TypeOK
  <2>2. InOnePlace'
    BY <1>1, <2>1 DEF Queues, InOnePlace
  <2>3. OnceThere'
    BY <1>1, <2>1 DEF Queues, OnceThere, InOnePlace
  <2>4. Unborn'
    BY <1>1, <2>1 DEF Queues, Unborn
  <2>5. OneWay'
    BY <1>1, <2>1 DEF Queues, OneWay, NoEcho
  <2> QED
    BY <2>2, <2>3, <2>4, <2>5 DEF Queues
<1>3. CASE Forward(s, e)
  <2>1. /\ e \in forwardQueue[s] /\ UNCHANGED daemonQueue
        /\ forwardQueue'[s] \subseteq forwardQueue[s] \ {e}
        /\ \A t \in Sessions \ {s} : forwardQueue'[t] = forwardQueue[t] /\ toDaemon'[t] = toDaemon[t]
        /\ toDaemon'[s] = toDaemon[s] \/ (e \notin Foreign /\ toDaemon'[s] = toDaemon[s] \cup {e})
    <3>1. CASE e \in Foreign
      BY <1>3, <3>1 DEF Forward, Crossed
    <3>2. CASE e \notin Foreign /\ s \in open
      BY <1>3, <3>2 DEF Forward, Crossed
    <3>3. CASE e \notin Foreign /\ s \notin open
      BY <1>3, <3>3 DEF Forward, Crossed
    <3> QED
      BY <3>1, <3>2, <3>3
  <2> HIDE DEF TypeOK
  <2>2. InOnePlace'
    BY <1>1, <2>1 DEF Queues, InOnePlace
  <2>3. OnceThere'
    BY <1>1, <2>1 DEF Queues, OnceThere
  <2>4. Unborn'
    BY <1>1, <2>1 DEF Queues, Unborn
  <2>5. OneWay'
    BY <1>1, <2>1 DEF Queues, OneWay, NoEcho
  <2> QED
    BY <2>2, <2>3, <2>4, <2>5 DEF Queues
<1> QED
  BY <1>2, <1>3

\* What ends a connection or a forwarder takes its queue away.
LEMMA EndQueues ==
  ASSUME TypeOK, Queues, NEW s,
         (s \in Sessions /\ (DaemonDrops(s) \/ ForwarderStops(s))) \/ DaemonDies
  PROVE  Queues'
<1> USE DEF TypeOK, Events, bus, daemon
<1>1. /\ UNCHANGED <<toGui, published, localQueue, runs, handedTo>>
      /\ daemonQueue' \subseteq daemonQueue
      /\ \A t \in Sessions : toDaemon'[t] \subseteq toDaemon[t] /\ forwardQueue'[t] \subseteq forwardQueue[t]
  BY DEF DaemonDrops, DaemonDies, ForwarderStops
<1> HIDE DEF TypeOK
<1>2. InOnePlace'
  BY <1>1 DEF Queues, InOnePlace
<1>3. OnceThere'
  BY <1>1 DEF Queues, OnceThere
<1>4. Unborn'
  BY <1>1 DEF Queues, Unborn
<1>5. OneWay'
  BY <1>1 DEF Queues, OneWay, NoEcho
<1> QED
  BY <1>2, <1>3, <1>4, <1>5 DEF Queues

-----------------------------------------------------------------------------
(* What was handed over *)

\* A connection that is set up has nothing handed to it; one that ends loses its claim.
LEMMA HandedThread ==
  ASSUME TypeOK, LastForwards, Handed, Thread
  PROVE  Handed'
<1>1. UNCHANGED <<daemonQueue, toDaemon, localQueue, forwardQueue, runs, handedTo>>
  BY ThreadFrame
<1>2. session \in Nat /\ \A e \in Native : handedTo[e] \in Nat
  BY DEF TypeOK, Events, Sessions
<1>3. CASE Connect
  <2>1. session' = session + 1
    BY <1>3 DEF Connect
  <2>2. \A e \in Native : handedTo[e] # 0 => handedTo[e] <= session' /\ handedTo[e] # session'
    BY <1>2, <2>1 DEF Handed
  <2> QED
    BY <1>1, <1>2, <2>2 DEF Handed
<1>4. CASE AckArrives \/ StartForwarder
  <2>1. at \in {"acking", "acked"} /\ session' = session
    BY <1>4 DEF AckArrives, StartForwarder
  <2> QED
    BY <1>1, <2>1 DEF Handed
<1>5. CASE ~(Connect \/ AckArrives \/ StartForwarder)
  <2>1. /\ UNCHANGED <<session, host, open>>
        /\ at' \notin {"acking", "acked"}
        /\ at' \in Handing => at \in Handing
    BY <1>5 DEF Thread, Wake, Fail, SendAuthority, RestoreAuthority, StopForwarder, LeaveGeneration,
                daemon, Handing
  <2> QED
    BY <1>1, <2>1 DEF Handed
<1> QED
  BY <1>3, <1>4, <1>5

\* Local dispatches leave what was handed over alone.
LEMMA HandedAside ==
  ASSUME TypeOK, Handed,
         UNCHANGED <<at, session, host, open, daemonQueue, toDaemon, forwardQueue, handedTo>>,
         localQueue' \subseteq localQueue,
         \A e \in Events : /\ runs'[e].daemon = runs[e].daemon
                           /\ e \notin localQueue => runs'[e].gui = runs[e].gui
  PROVE  Handed'
BY DEF Handed, Events

\* The cut-over is complete when an event is handed over: the local engine has no
\* receivers, and the forwarder of an open connection has one.
LEMMA HandedPublish ==
  ASSUME TypeOK, Numbered, LastForwards, EngineAndCache, Unborn, Handed,
         NEW e \in Events, Publish(e)
  PROVE  Handed'
<1>1. UNCHANGED <<at, session, host, open, daemonQueue, toDaemon, runs>>
  BY DEF Publish, client, daemon
<1>2. e \in Native \ published
  BY DEF Publish
<1>3. \A s \in Sessions : forwardQueue'[s] = forwardQueue[s] \cup (IF s \in On THEN {e} ELSE {})
  BY DEF Publish, Receive
<1>4. localQueue' = localQueue \cup (IF engine = 0 THEN {} ELSE {e})
  BY DEF Publish, Receive
<1>5. handedTo' = [handedTo EXCEPT ![e] = IF TakenOver THEN session ELSE 0]
  BY DEF Publish
<1> SUFFICES ASSUME NEW f \in Native, handedTo'[f] # 0
             PROVE  /\ f \notin localQueue' /\ runs[f].gui = 0
                    /\ handedTo'[f] <= session
                    /\ handedTo'[f] = session => host /\ at \notin {"acking", "acked"}
                    /\ handedTo'[f] = session /\ session \in open /\ at \in Handing =>
                         \/ f \in forwardQueue'[session] \cup toDaemon[session] \cup daemonQueue
                         \/ runs[f].daemon = 1
  BY <1>1 DEF Handed
<1>6. CASE f # e
  <2>1. handedTo'[f] = handedTo[f] /\ (f \in localQueue' <=> f \in localQueue)
    BY <1>4, <1>5, <1>6
  <2>2. session \in open => forwardQueue[session] \subseteq forwardQueue'[session]
    BY <1>3 DEF TypeOK
  <2> QED
    BY <2>1, <2>2 DEF Handed
<1>7. CASE f = e
  <2>1. TakenOver /\ handedTo'[f] = session /\ session \in Nat
    BY <1>5, <1>7 DEF TypeOK, Events
  <2>2. engine = 0 /\ f \notin localQueue'
    BY <1>2, <1>4, <1>7, <2>1 DEF TakenOver, EngineAndCache, Unborn
  <2>3. session \in open => f \in forwardQueue'[session]
    <3>1. at \in Handing /\ host
      BY <2>1 DEF TakenOver, Handing
    <3>2. session \in open => session \in On
      BY <3>1 DEF LastForwards, On, TypeOK
    <3> QED
      BY <1>3, <1>7, <3>2 DEF On
  <2>4. runs[f].gui = 0
    BY <1>2, <1>7 DEF Unborn
  <2> QED
    BY <2>1, <2>2, <2>3, <2>4 DEF TakenOver
<1> QED
  BY <1>6, <1>7

\* So do the daemon's events.
LEMMA HandedForeign ==
  ASSUME GuiClientAssumption, TypeOK, Handed, NEW e \in Events,
         DaemonPublishes(e) \/ (e \in Foreign /\ Bridge(e))
  PROVE  Handed'
<1>1. /\ e \notin Native /\ UNCHANGED <<at, session, host, open, toDaemon, runs, handedTo>>
      /\ localQueue' \subseteq localQueue \cup {e}
      /\ daemonQueue \subseteq daemonQueue'
      /\ \A s \in Sessions : forwardQueue[s] \subseteq forwardQueue'[s]
  <2>1. e \notin Native
    BY DEF DaemonPublishes, GuiClientAssumption
  <2>2. CASE DaemonPublishes(e)
    BY <2>1, <2>2 DEF DaemonPublishes, DaemonHears, client, bus
  <2>3. CASE Bridge(e)
    BY <2>1, <2>3 DEF Bridge, Receive, client, daemon
  <2> QED
    BY <2>2, <2>3
<1>2. session \in open => session \in Sessions
  BY DEF TypeOK
<1> QED
  BY <1>1, <1>2 DEF Handed

\* The daemon that took the window's triggers over hears what it is sent.
LEMMA HandedCarry ==
  ASSUME TypeOK, LastForwards, OnceThere, Handed, NEW e \in Events, NEW s,
         DaemonDispatches(e) \/ (s \in Sessions /\ DaemonReads(s, e))
  PROVE  Handed'
<1>1. UNCHANGED <<at, session, host, open, localQueue, forwardQueue, handedTo>>
  BY DEF DaemonDispatches, DaemonReads, client, bus
<1>2. session \in open => session \in Sessions
  BY DEF TypeOK
<1>3. CASE DaemonDispatches(e)
  <2>1. /\ e \in daemonQueue /\ daemonQueue' = daemonQueue \ {e}
        /\ UNCHANGED toDaemon
        /\ \A f \in Events : runs'[f].gui = runs[f].gui
        /\ \A f \in Events \ {e} : runs'[f].daemon = runs[f].daemon
        /\ runs'[e].daemon = runs[e].daemon + 1
    BY <1>3 DEF DaemonDispatches, TypeOK
  <2> QED
    BY <1>1, <2>1 DEF Handed, OnceThere, Events
<1>4. CASE s \in Sessions /\ DaemonReads(s, e)
  <2>1. /\ UNCHANGED runs
        /\ daemonHosts => daemonQueue' = daemonQueue \cup {e}
        /\ daemonQueue \subseteq daemonQueue'
        /\ \A t \in Sessions : toDaemon[t] \subseteq toDaemon'[t] \cup {e}
    BY <1>4 DEF DaemonReads, DaemonHears, TypeOK
  <2> QED
    BY <1>1, <1>2, <2>1 DEF Handed, LastForwards, Linked, Handing
<1> QED
  BY <1>3, <1>4

\* A forwarder gives up only on a connection that is closed or was left.
LEMMA HandedForward ==
  ASSUME GuiClientAssumption, TypeOK, Handed, NEW e, NEW s,
         \/ s \in Sessions /\ (Forward(s, e) \/ ForwarderStops(s) \/ DaemonDrops(s))
         \/ DaemonDies
  PROVE  Handed'
<1>1. /\ UNCHANGED <<at, session, host, localQueue, daemonQueue, runs, handedTo>> \/ DaemonDies
      /\ open' \subseteq open
  BY DEF Forward, ForwarderStops, DaemonDrops, DaemonDies, client, daemon, bus
<1>2. session \in open => session \in Sessions
  BY DEF TypeOK
<1>3. CASE DaemonDies
  BY <1>3 DEF DaemonDies, client, bus, Handed
<1>4. CASE s \in Sessions /\ ~DaemonDies
  <2>1. ASSUME NEW f \in Native, session \in open', at \in Handing,
               f \in forwardQueue[session] \cup toDaemon[session]
        PROVE  f \in forwardQueue'[session] \cup toDaemon'[session]
    <3>1. session \in Sessions /\ session \in open
      BY <1>1, <1>2, <2>1
    <3>2. CASE Forward(s, e)
      <4>1. CASE s # session
        BY <2>1, <3>1, <3>2, <4>1 DEF Forward, TypeOK
      <4>2. CASE s = session
        <5>1. CASE f = e
          <6>1. toDaemon' = [toDaemon EXCEPT ![s] = @ \cup {e}]
            BY <3>1, <3>2, <4>2, <5>1 DEF Forward, Crossed, GuiClientAssumption
          <6> QED
            BY <3>1, <4>2, <5>1, <6>1 DEF TypeOK
        <5>2. CASE f # e
          <6>1. /\ forwardQueue' = [forwardQueue EXCEPT ![s] = @ \ {e}]
                /\ toDaemon' = toDaemon \/ toDaemon' = [toDaemon EXCEPT ![s] = @ \cup {e}]
            BY <3>1, <3>2, <4>2 DEF Forward
          <6> QED
            BY <2>1, <3>1, <4>2, <5>2, <6>1 DEF TypeOK
        <5> QED
          BY <5>1, <5>2
      <4> QED
        BY <4>1, <4>2
    <3>3. CASE ForwarderStops(s)
      BY <2>1, <3>1, <3>3 DEF ForwarderStops, Stopped, TypeOK, Handing, daemon
    <3>4. CASE DaemonDrops(s)
      BY <2>1, <3>1, <3>4 DEF DaemonDrops, TypeOK, bus
    <3> QED
      BY <1>4, <3>2, <3>3, <3>4
  <2> QED
    BY <1>1, <1>4, <2>1 DEF Handed
<1> QED
  BY <1>3, <1>4

-----------------------------------------------------------------------------
(* The theorems *)

\* Every step keeps the invariant.
LEMMA Step ==
  ASSUME GuiClientAssumption, IInv, [Next]_vars
  PROVE  IInv'
<1> USE DEF IInv
<1>1. CASE Thread
  <2>1. TypeOK' /\ Numbered' /\ OrphansAreStale' /\ LastForwards'
    BY <1>1, ThreadTypes, ThreadStep, LastForwardsThread DEF Thread
  <2>2. EngineAndCache'
    BY <1>1, ThreadFrame DEF EngineAndCache, EngineFollowsFile, file
  <2>3. Queues'
    BY <1>1, ThreadFrame, QueuesAside DEF Queues
  <2>4. Handed'
    BY <1>1, HandedThread
  <2> QED
    BY <2>1, <2>2, <2>3, <2>4 DEF Queues
<1>2. CASE Tick \/ Edit \/ Reload
  <2>1. TypeOK' /\ EngineAndCache'
    BY <1>2, TimerTypes, EngineStep
  <2>2. Numbered' /\ OrphansAreStale'
    <3>1. CASE Tick
      BY <3>1, TickJobs
    <3>2. CASE Edit \/ Reload
      BY <3>2 DEF Edit, Reload, Numbered, OrphansAreStale, client, jobs
    <3> QED
      BY <1>2, <3>1, <3>2
  <2>3. LastForwards'
    BY <1>2, TimerFrame DEF LastForwards, On, client, daemon
  <2>4. Queues' /\ Handed'
    BY <1>2, TimerFrame, LocalCounts, QueuesAside, HandedAside DEF Queues, client, daemon
  <2> QED
    BY <2>1, <2>2, <2>3, <2>4 DEF Queues
<1>3. ASSUME NEW e, NEW s, Transport(e, s) PROVE IInv'
  <2>1. UNCHANGED <<client, timer, file, jobs>>
    BY <1>3, TransportFrame
  <2>2. TypeOK' /\ LastForwards'
    BY <1>3, EventTypes, LastForwardsTransport DEF Transport
  <2>3. Numbered' /\ OrphansAreStale' /\ EngineAndCache'
    BY <2>1 DEF client, timer, file, jobs, Numbered, OrphansAreStale, EngineAndCache,
                EngineFollowsFile
  <2>4. Queues' /\ Handed'
    <3>1. CASE e \in Events /\ Publish(e)
      BY <3>1, PublishQueues, HandedPublish DEF Queues
    <3>2. CASE e \in Events /\ DaemonPublishes(e)
      BY <3>2, ForeignQueues, HandedForeign DEF Queues
    <3>3. CASE e \in Foreign /\ Bridge(e)
      BY <3>3, ForeignQueues, HandedForeign DEF Queues, Events
    <3>4. CASE e \in Events /\ DaemonDispatches(e)
      BY <3>4, DispatchQueues, HandedCarry DEF Queues
    <3>5. CASE e \in Events /\ s \in Sessions /\ DaemonReads(s, e)
      BY <3>5, CarryQueues, HandedCarry DEF Queues
    <3>6. CASE e \in Events /\ s \in Sessions /\ Forward(s, e)
      BY <3>6, CarryQueues, HandedForward DEF Queues
    <3>7. CASE (s \in Sessions /\ (DaemonDrops(s) \/ ForwarderStops(s))) \/ DaemonDies
      BY <3>7, EndQueues, HandedForward DEF Queues
    <3> QED
      BY <1>3, <3>1, <3>2, <3>3, <3>4, <3>5, <3>6, <3>7 DEF Transport
  <2> QED
    BY <2>2, <2>3, <2>4 DEF Queues
<1>4. ASSUME NEW j \in Jobs, Job(j) PROVE IInv'
  <2>1. TypeOK'
    BY <1>4, JobTypes DEF Job
  <2>2. Numbered' /\ OrphansAreStale'
    BY <1>4, JobStep
  <2>3. UNCHANGED <<client, daemon, timer, file, bus, runs, handedTo>>
    BY <1>4, JobFrame
  <2>4. LastForwards' /\ EngineAndCache'
    BY <2>3 DEF LastForwards, On, EngineAndCache, EngineFollowsFile, client, daemon, timer, file, bus
  <2>5. Queues' /\ Handed'
    BY <2>3, QueuesAside, HandedAside DEF Queues, client, daemon, bus
  <2> QED
    BY <2>1, <2>2, <2>4, <2>5 DEF Queues
<1>5. CASE UNCHANGED vars
  <2> USE DEF vars, client, daemon, timer, file, bus, jobs
  <2>1. TypeOK'
    BY <1>5 DEF TypeOK
  <2>2. Numbered' /\ OrphansAreStale' /\ EngineAndCache' /\ LastForwards'
    BY <1>5 DEF Numbered, OrphansAreStale, EngineAndCache, EngineFollowsFile, LastForwards, On
  <2>3. Queues' /\ Handed'
    BY <1>5, QueuesAside, HandedAside DEF Queues
  <2> QED
    BY <2>1, <2>2, <2>3 DEF Queues
<1> QED
  BY <1>1, <1>2, <1>3, <1>4, <1>5, Actors

\* The inductive invariant holds in every reachable state.
THEOREM Invariance == GuiClientAssumption => (Spec => []IInv)
<1> SUFFICES ASSUME GuiClientAssumption PROVE Spec => []IInv
  OBVIOUS
<1>1. Init => IInv
  BY InitInvariant
<1>2. IInv /\ [Next]_vars => IInv'
  BY Step
<1> QED
  BY <1>1, <1>2, PTL DEF Spec

\* What the invariant promises of who dispatches.
LEMMA Promises == ASSUME IInv PROVE OneDispatcher
<1>1. HandedOver
  <2>1. \A e \in Native : runs[e].daemon <= 1
    BY DEF IInv, OnceThere
  <2> QED
    BY <2>1 DEF IInv, Handed, HandedOver, Handing
<1>2. NoEcho /\ EngineFollowsFile /\ OrphansNeverRun
  BY DEF IInv, OneWay, EngineAndCache, OrphansAreStale, OrphansNeverRun
<1> QED
  BY <1>1, <1>2 DEF OneDispatcher

\* For any number of connections, events, invokes and edits: an event of the window's
\* that was published after the cut-over is dispatched by the daemon alone and not lost
\* while the connection stands, no event of the daemon's is sent back, the local engine runs
\* the file's triggers or none, and an invoke that outlived its connection is carried
\* out by nobody.
THEOREM Dispatch == GuiClientAssumption => (Spec => []OneDispatcher)
<1> SUFFICES ASSUME GuiClientAssumption PROVE Spec => []OneDispatcher
  OBVIOUS
<1>1. IInv => OneDispatcher
  BY Promises
<1> QED
  BY <1>1, Invariance, PTL

\* And the daemon's engine dispatches an event of the window's once at most, whether it was
\* handed over or not, whatever connections it crossed.
THEOREM DaemonDispatchesOnce ==
  GuiClientAssumption => (Spec => [](\A e \in Native : runs[e].daemon <= 1))
<1> SUFFICES ASSUME GuiClientAssumption PROVE Spec => [](\A e \in Native : runs[e].daemon <= 1)
  OBVIOUS
<1>1. IInv => \A e \in Native : runs[e].daemon <= 1
  BY DEF IInv, OnceThere
<1> QED
  BY <1>1, Invariance, PTL

-----------------------------------------------------------------------------
(* The cut-over *)

\* From the moment the connection reads events of a daemon that dispatches, the
\* timer's word is to leave triggers to it, or it was taken and the receivers dropped.
CutOver ==
  /\ applied => localQueue = {}
  /\ Bridging => IF authority = <<>> THEN applied ELSE authority[Len(authority)]

\* A word that is sent is the last.
LEMMA LastWord ==
  ASSUME TypeOK, NEW value \in BOOLEAN
  PROVE  LET words == Append(authority, value)
         IN  words # <<>> /\ words[Len(words)] = value
<1>1. authority \in Seq(BOOLEAN)
  BY DEF TypeOK
<1> QED BY <1>1, AppendProperties

\* Every step keeps it.
LEMMA CutOverStep ==
  ASSUME IInv, CutOver, [Next]_vars
  PROVE  CutOver'
<1> TypeOK /\ EngineAndCache
  BY DEF IInv
<1> USE DEF CutOver, Bridging
<1>1. CASE Thread
  <2>1. UNCHANGED <<applied, localQueue>>
    BY <1>1, ThreadFrame
  <2>2. CASE SendAuthority
    <3>1. host \in BOOLEAN
      BY DEF TypeOK
    <3> QED BY <2>1, <2>2, <3>1, LastWord DEF SendAuthority
  <2>3. CASE ~SendAuthority
    <3>1. at' # "reading"
      BY <1>1, <2>3 DEF Thread, Wake, Fail, Connect, AckArrives, StartForwarder,
                        RestoreAuthority, StopForwarder, LeaveGeneration
    <3> QED BY <2>1, <3>1
  <2> QED BY <2>2, <2>3
<1>2. CASE Tick
  <2>1. UNCHANGED <<at, host>> /\ authority' = <<>> /\ localQueue' = {}
    BY <1>2, TimerFrame DEF Tick, client
  <2>2. CASE authority # <<>> /\ authority[Len(authority)] # applied
    BY <1>2, <2>1, <2>2 DEF Tick, Apply
  <2>3. CASE ~(authority # <<>> /\ authority[Len(authority)] # applied)
    <3>1. applied' = applied
      BY <1>2, <2>3 DEF Tick
    <3> QED BY <2>1, <2>3, <3>1
  <2> QED BY <2>2, <2>3
<1>3. CASE Edit \/ Reload
  <2>1. UNCHANGED <<at, host, authority, applied>> /\ (localQueue' = localQueue \/ localQueue' = {})
    BY <1>3, TimerFrame DEF Edit, Reload, client, timer, bus
  <2> QED BY <2>1
<1>4. ASSUME NEW e, NEW s, Transport(e, s) PROVE CutOver'
  <2>1. UNCHANGED <<at, host, authority, applied, engine>>
    BY <1>4, TransportFrame DEF client, timer
  <2>2. localQueue' = localQueue \/ localQueue' = localQueue \cup (IF engine = 0 THEN {} ELSE {e})
    BY <1>4 DEF Transport, Publish, DaemonPublishes, DaemonDispatches, DaemonReads, Forward,
                ForwarderStops, DaemonDrops, DaemonDies, Bridge, Receive, bus
  <2>3. applied => engine = 0
    BY DEF EngineAndCache
  <2> QED BY <2>1, <2>2, <2>3
<1>5. ASSUME NEW j \in Jobs, Job(j) PROVE CutOver'
  BY <1>5, JobFrame DEF client, timer, bus
<1>6. CASE UNCHANGED vars
  BY <1>6 DEF vars, client, timer, bus
<1> QED
  BY <1>1, <1>2, <1>3, <1>4, <1>5, <1>6, Actors

\* It holds initially.
LEMMA CutOverInit == Init => CutOver
  BY DEF Init, CutOver, Bridging

\* While it holds, no tick of the timer dispatches what came over the bridge.
LEMMA CutOverPromises == ASSUME IInv, CutOver PROVE LeavesBridged
<1> SUFFICES ASSUME Bridging, Tick, NEW e \in Foreign
             PROVE  runs'[e].gui = runs[e].gui
  BY DEF LeavesBridged
<1>1. CASE authority # <<>> /\ authority[Len(authority)] # applied
  BY <1>1 DEF Tick, CutOver
<1>2. CASE ~(authority # <<>> /\ authority[Len(authority)] # applied)
  <2>1. localQueue = {}
    BY <1>2 DEF CutOver
  <2>2. TypeOK /\ e \in Events
    BY DEF IInv, Events
  <2> QED BY <2>1, <2>2, LocalCounts
<1> QED BY <1>1, <1>2

\* While the daemon dispatches and the connection stands, no tick of the timer dispatches an
\* event that came over the bridge, for any number of events and connections.
THEOREM CutOverHolds == GuiClientAssumption => (Spec => BridgedAreTheDaemons)
<1> SUFFICES ASSUME GuiClientAssumption PROVE Spec => BridgedAreTheDaemons
  OBVIOUS
<1>1. Init => CutOver
  BY CutOverInit
<1>2. IInv /\ CutOver /\ [Next]_vars => CutOver'
  BY CutOverStep
<1>3. IInv /\ CutOver /\ [Next]_vars => [LeavesBridged]_vars
  BY CutOverPromises
<1> QED
  BY <1>1, <1>2, <1>3, Invariance, PTL DEF Spec, BridgedAreTheDaemons
=============================================================================
