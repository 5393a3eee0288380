------------------------------ MODULE DesktopMC ------------------------------
(***************************************************************************)
(* The processes of a desktop and what runs between them.  A behaviour is  *)
(* one component's, which `part' names; v1, v2, ... are its variables in   *)
(* the order of their declaration.  The components whose properties        *)
(* DesktopProofs proves have their parameters among the constants; the     *)
(* others are on small ones.                                               *)
(***************************************************************************)
EXTENDS Naturals, Sequences, FiniteSets

CONSTANTS
  Nil, Broken, Foreign,
  Publishers, Followers, Wishes, Subjects, MaxPublished, BusBuffer, Recalled, LineCap,  \* of EventBus
  Viewed, MaxShown, ShownCap,                  \* of EventBus as the window has it
  Daemons, MaxStarts, MaxEdits,                \* of DaemonProcess
  Connections, Doors, Questions, MaxRequests, MaxHops, Workers, Waiting,  \* of Relay
  Calls, Panels, ActionTimeout, BridgeTimeout, Horizon,                   \* of PanelBridge
  MaxLines, MaxEvents, WriterCap               \* of Connection

\* What a listener's patterns match.
TwoKinds == [c \in {"c1"} |-> {"panel.focused", "panel.exited"}]
\* One client at the window's socket and one at the daemon's; what they may ask for.
TwoDoors == [c \in {1, 2} |-> IF c = 1 THEN "window" ELSE "daemon"]
TwoClients ==
  [c \in {1, 2} |-> IF c = 1 THEN {<<"window">>, <<"unknown">>}
                             ELSE {<<"daemon", "window">>, <<"window", "daemon">>, <<"window", "window">>}]

VARIABLES part, v1, v2, v3, v4, v5, v6, v7, v8, v9, v10, v11, v12, v13, v14, v15, v16,
  v17, v18, v19, v20, v21, v22, v23, v24, v25, v26

vars == <<part, v1, v2, v3, v4, v5, v6, v7, v8, v9, v10, v11, v12, v13, v14, v15, v16,
         v17, v18, v19, v20, v21, v22, v23, v24, v25, v26>>

\* The variables that a component of less than all of them leaves aside.
From19 == <<v19, v20, v21, v22, v23, v24, v25, v26>>
From17 == <<v17, v18, From19>>
From13 == <<v13, v14, v15, v16, From17>>
From8 == <<v8, v9, v10, v11, v12, From13>>
From6 == <<v6, v7, From8>>
Idle19 ==
  /\ v19 = Nil /\ v20 = Nil /\ v21 = Nil /\ v22 = Nil /\ v23 = Nil /\ v24 = Nil
  /\ v25 = Nil /\ v26 = Nil
Idle17 == v17 = Nil /\ v18 = Nil /\ Idle19
Idle13 == v13 = Nil /\ v14 = Nil /\ v15 = Nil /\ v16 = Nil /\ Idle17
Idle8 == v8 = Nil /\ v9 = Nil /\ v10 = Nil /\ v11 = Nil /\ v12 = Nil /\ Idle13
Idle6 == v6 = Nil /\ v7 = Nil /\ Idle8

Bridge == INSTANCE GuiClientProofs WITH
  MaxAttempts <- 2, Native <- {"n1"}, Foreign <- {"f1"}, Jobs <- {}, MaxReloads <- 0,
  BackoffMax <- 1, Hosts <- BOOLEAN, at <- v1, session <- v2, host <- v3, generation <- v4,
  registered <- v5, backoff <- v6, open <- v7, daemonHosts <- v8, daemonQueue <- v9,
  toDaemon <- v10, toGui <- v11, authority <- v12, applied <- v13, engine <- v14, cached <-
  v15, config <- v16, valid <- v17, edited <- v18, published <- v19, localQueue <- v20,
  forwarder <- v21, forwardQueue <- v22, job <- v23, runs <- v24, handedTo <- v25, orphaned
  <- v26

Invokes == INSTANCE GuiClientProofs WITH
  MaxAttempts <- 2, Native <- {}, Foreign <- {}, Jobs <- {"j1"}, MaxReloads <- 1, BackoffMax
  <- 2, Hosts <- BOOLEAN, at <- v1, session <- v2, host <- v3, generation <- v4, registered
  <- v5, backoff <- v6, open <- v7, daemonHosts <- v8, daemonQueue <- v9, toDaemon <- v10,
  toGui <- v11, authority <- v12, applied <- v13, engine <- v14, cached <- v15, config <-
  v16, valid <- v17, edited <- v18, published <- v19, localQueue <- v20, forwarder <- v21,
  forwardQueue <- v22, job <- v23, runs <- v24, handedTo <- v25, orphaned <- v26

Streams == INSTANCE EventBus WITH
  Clients <- Followers, Wanted <- Wishes, Panels <- Subjects, MaxEvents <- MaxPublished, Buffer
  <- BusBuffer, HistoryCap <- Recalled, WriterCap <- LineCap, Server <- "daemon", Nothing <- Nil,
  history <- v1, publishing <- v2, created <- v3, live <- v4, subscribed <- v5, dropped <- v6,
  queue <- v7, lost <- v8, pump <- v9, active <- v10, cwds <- v11, truth <- v12, stage <- v13,
  channel <- v14, received <- v15, gone <- v16, writerDied <- v17, sinceAck <- v18

\* The window's panels announce themselves on one thread, which is the pump's as well.
Context == INSTANCE EventBus WITH
  Publishers <- {"gtk"}, Clients <- {}, Wanted <- <<>>, Panels <- Viewed, MaxEvents <- MaxShown,
  Buffer <- ShownCap, HistoryCap <- Recalled, WriterCap <- LineCap, Server <- "gui", Nothing <- Nil,
  history <- v1, publishing <- v2, created <- v3, live <- v4, subscribed <- v5, dropped <- v6, queue
  <- v7, lost <- v8, pump <- v9, active <- v10, cwds <- v11, truth <- v12, stage <- v13,
  channel <- v14, received <- v15, gone <- v16, writerDied <- v17, sinceAck <- v18

Processes == INSTANCE DaemonProcess WITH
  Nothing <- Nil, path <- v1, stage <- v2, listening <- v3, children <- v4, killed <-
  v5, starts <- v6, overlapped <- v7, file <- v8, sampled <- v9, lastMtime <- v10, watcher
  <- v11, engine <- v12

Requests == INSTANCE Relay WITH
  Door <- Doors, Asked <- Questions, Queue <- Waiting, asked <- v1, served <- v2, answers <- v3,
  closed <- v4, hops <- v5, completions <- v6, daemonUp <- v7

Pages == INSTANCE PanelBridge WITH
  open <- v1, call <- v2, queue <- v3, reply <- v4, now <- v5

Door == INSTANCE Connection WITH
  sent <- v1, input <-
  v2, peer <- v3, shut <- v4, out <- v5, writer <- v6, thread <- v7, after <- v8, registered
  <- v9, handle <- v10, client <- v11, cuts <- v12, origin <- v13, on <- v14, feed <- v15,
  seen <- v16

ASSUME DesktopAssumption ==
  /\ Bridge!GuiClientAssumption /\ Invokes!GuiClientAssumption
  /\ Streams!EventBusAssumption /\ Context!EventBusAssumption
  /\ Processes!DaemonProcessAssumption
  /\ Requests!RelayAssumption /\ Pages!PanelBridgeAssumption /\ Door!ConnectionAssumption

Init ==
  \/ part = "events" /\ Bridge!Init
  \/ part = "jobs" /\ Invokes!Init
  \/ part = "streams" /\ Streams!Init /\ Idle19
  \/ part = "context" /\ Context!Init /\ Idle19
  \/ part = "daemons" /\ Processes!Init /\ Idle13
  \/ part = "relay" /\ Requests!Init /\ Idle8
  \/ part = "bridge" /\ Pages!Init /\ Idle6
  \/ part = "door" /\ Door!Init /\ Idle17

BridgeStep == part = "events" /\ Bridge!Next /\ UNCHANGED part
InvokesStep == part = "jobs" /\ Invokes!Next /\ UNCHANGED part
StreamsStep == part = "streams" /\ Streams!Next /\ UNCHANGED <<part, From19>>
ContextStep == part = "context" /\ Context!Next /\ UNCHANGED <<part, From19>>
ProcessesStep == part = "daemons" /\ Processes!Next /\ UNCHANGED <<part, From13>>
RequestsStep == part = "relay" /\ Requests!Next /\ UNCHANGED <<part, From8>>
PagesStep == part = "bridge" /\ Pages!Next /\ UNCHANGED <<part, From6>>
DoorStep == part = "door" /\ Door!Next /\ UNCHANGED <<part, From17>>

Next == BridgeStep \/ InvokesStep \/ StreamsStep \/ ContextStep \/ ProcessesStep
        \/ RequestsStep \/ PagesStep \/ DoorStep

\* The fairness of each component's module.
Fairness ==
  /\ WF_(Invokes!vars)(part = "jobs" /\ Invokes!Leaving)
  /\ WF_(Invokes!vars)(part = "jobs" /\ Invokes!Tick)
  /\ WF_(Invokes!vars)(part = "jobs" /\ Invokes!SendAuthority)
  /\ WF_(Invokes!vars)(part = "jobs" /\ Invokes!StartForwarder)
  /\ \A c \in Followers :
       /\ WF_(Streams!vars)(part = "streams" /\ Streams!StreamThread(c))
       /\ WF_(Streams!vars)(part = "streams" /\ Streams!Write(c))
  /\ \A d \in Daemons :
       /\ WF_(Processes!vars)(part = "daemons" /\ Processes!Way(d))
       /\ WF_(Processes!vars)(part = "daemons" /\ Processes!Watch(d))
  /\ \A c \in Connections :
       /\ WF_(Requests!vars)(part = "relay" /\ Requests!TakeUp(c))
       /\ WF_(Requests!vars)(part = "relay" /\ Requests!WriteBack(c))
       /\ \A j \in 1 .. MaxRequests :
            /\ WF_(Requests!vars)(part = "relay" /\ Requests!Work(<<c, j>>))
            /\ WF_(Requests!vars)(part = "relay" /\ Requests!Expire(<<c, j>>))
  /\ WF_(Pages!vars)(part = "bridge" /\ Pages!Tick)
  /\ WF_(Pages!vars)(part = "bridge" /\ Pages!Take)
  /\ \A c \in Calls :
       /\ WF_(Pages!vars)(part = "bridge" /\ Pages!Poll(c))
       /\ WF_(Pages!vars)(part = "bridge" /\ Pages!ServiceAnswers(c))
  /\ WF_(Door!vars)(part = "door" /\ Door!Thread)
  /\ WF_(Door!vars)(part = "door" /\ Door!WriterFails)
  /\ \A c \in 1 .. MaxLines : WF_(Door!vars)(part = "door" /\ Door!Cut(c))

Spec == Init /\ [][Next]_vars /\ Fairness

-----------------------------------------------------------------------------
\* From its ack on, a stream carries every event that was published, in order, and the
\* context service knows the panel that was focused and announced last.
\* (daemon socket.rs run_event_subscribe, event_bus.rs, context.rs)
StreamsAreFaithful ==
  /\ part = "streams" => Streams!TypeOK /\ Streams!AckedStreamIsComplete
  /\ part = "context" => Context!TypeOK /\ Context!ContextFollows

\* Of all daemons that are started, one serves, and one that stops takes its children
\* and its socket with it.  (daemon main.rs, socket.rs prepare_socket_path)
OneServes ==
  part = "daemons" => Processes!TypeOK /\ Processes!OneServes /\ Processes!ClosesUp

\* Every event is dispatched by one side: by the daemon once the window handed its
\* triggers over, by the window once it took them back; an invoke that outlived its
\* connection is carried out by none.  No step dispatches an event here that the daemon
\* bridged to the window.  (gui_client.rs, window.rs host_triggers)
OneDispatcher ==
  /\ [](part = "events" => Bridge!TypeOK /\ Bridge!OneDispatcher)
  /\ [](part = "jobs" => Invokes!TypeOK /\ Invokes!OneDispatcher)
  /\ [][part = "events" => Bridge!LeavesBridged]_vars

\* Every client gets the answers to its own questions, one each and in their order,
\* and an announcement is made once, however the request was relayed and whichever
\* deadline passed first.  Whatever a connection's peer sends, it reads no event twice
\* nor one of its own back, and however the connection ends, the registry keeps no
\* client of it.  (linux and daemon socket.rs, plugin_panel.rs)
OwnAnswers ==
  /\ part = "relay" => Requests!TypeOK /\ Requests!OwnAnswers /\ Requests!AnnouncedOnce
  /\ part = "bridge" => Pages!TypeOK /\ Pages!SupervisorSpeaksFirst
  /\ part = "door" => Door!TypeOK /\ Door!NoOrphans /\ Door!EventsOnce

\* Whoever waits gets an end: triggers are dispatched again when the daemon is gone, a
\* stream whose client left ends, an edit of the config reaches the engine, a request and
\* a page's call are answered, a connection ends with its peer
\* and with the client that can shut it down.
NoneWaitsForEver ==
  /\ (\/ part = "jobs" /\ Invokes!Alone
      \/ part = "door" /\ Door!Left)
     ~> (\/ part = "jobs" /\ Invokes!SomeoneDispatches
         \/ part = "door" /\ Door!Over)
  /\ \A c \in Followers :
       (part = "streams" /\ Streams!Left(c)) ~> (part = "streams" /\ Streams!Ended(c))
  /\ <>[](part = "daemons" => \A d \in Daemons : Processes!FollowsFile(d))
  /\ \A c \in Connections : <>(part = "relay" => Requests!Served(c))
  /\ \A c \in Calls : (part = "bridge" /\ Pages!Posted(c)) ~> (part = "bridge" /\ Pages!Answered(c))
  /\ (part = "door" /\ Door!HolderRemoved) ~> (part = "door" /\ Door!Over)
=============================================================================
