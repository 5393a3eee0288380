----------------------------- MODULE DesktopProofs -----------------------------
(***************************************************************************)
(* Safety of what DesktopMC composes, for every value of its constants.    *)
(* GuiClient and Connection have their proofs elsewhere, which are cited   *)
(* through their instances; the others have theirs here, each with an      *)
(* inductive invariant of its own.  As a behaviour is one part's, a step   *)
(* keeps the invariants of the others because `part' stays what it is.     *)
(***************************************************************************)
EXTENDS DesktopMC, SequenceTheorems, FiniteSetTheorems, TLAPS

-----------------------------------------------------------------------------
(* The parts *)

\* A step of the composition leaves the part what it is, and is that part's.
LEMMA Parts ==
  ASSUME [Next]_vars
  PROVE  /\ part' = part
         /\ part = "events" => [Bridge!Next]_(Bridge!vars)
         /\ part = "jobs" => [Invokes!Next]_(Invokes!vars)
         /\ part = "streams" => [Streams!Next]_(Streams!vars)
         /\ part = "context" => [Context!Next]_(Context!vars)
         /\ part = "daemons" => [Processes!Next]_(Processes!vars)
         /\ part = "relay" => [Requests!Next]_(Requests!vars)
         /\ part = "bridge" => [Pages!Next]_(Pages!vars)
         /\ part = "door" => [Door!Next]_(Door!vars)
<1> USE DEF vars
<1>1. Next => part' = part
  BY DEF Next, BridgeStep, InvokesStep, StreamsStep, ContextStep, ProcessesStep, RequestsStep,
       PagesStep, DoorStep
<1>2. Next => /\ part = "events" => Bridge!Next
              /\ part = "jobs" => Invokes!Next
              /\ part = "streams" => Streams!Next
              /\ part = "context" => Context!Next
              /\ part = "daemons" => Processes!Next
              /\ part = "relay" => Requests!Next
              /\ part = "bridge" => Pages!Next
              /\ part = "door" => Door!Next
  BY DEF Next, BridgeStep, InvokesStep, StreamsStep, ContextStep, ProcessesStep, RequestsStep,
       PagesStep, DoorStep
<1>3. UNCHANGED vars => UNCHANGED <<Bridge!vars, Invokes!vars, Streams!vars, Context!vars, Processes!vars, Requests!vars, Pages!vars, Door!vars>>
  BY DEF Bridge!vars, Bridge!client, Bridge!daemon, Bridge!timer, Bridge!file, Bridge!bus,
       Bridge!jobs, Invokes!vars, Invokes!client, Invokes!daemon, Invokes!timer, Invokes!file,
       Invokes!bus, Invokes!jobs, Streams!vars, Streams!bus, Streams!context, Streams!streams,
       Context!vars, Context!bus, Context!context, Context!streams, Processes!vars, Processes!process, Processes!config,
       Requests!vars, Pages!vars, Door!vars, Door!peerVars, Door!wireVars, Door!threadVars,
       Door!ownVars, Door!clientVars, Door!busVars
<1> QED
  BY <1>1, <1>2, <1>3

-----------------------------------------------------------------------------
(* GuiClient: two windows, one with events and one with invokes *)

Dispatching ==
  /\ part = "events" => Bridge!IInv /\ Bridge!CutOver
  /\ part = "jobs" => Invokes!IInv

\* Every event is dispatched by the side that is responsible for it, on this composition's
\* windows; for windows of any size it is Dispatch and CutOverHolds of GuiClientProofs.
THEOREM DispatchedOnce == Spec => OneDispatcher
<1>1. Init => Dispatching
  BY Bridge!InitInvariant, Bridge!CutOverInit, Invokes!InitInvariant, DesktopAssumption
     DEF Init, Dispatching, DesktopAssumption
<1>2. Dispatching /\ [Next]_vars => Dispatching'
  <2> SUFFICES ASSUME Dispatching, [Next]_vars PROVE Dispatching'
    OBVIOUS
  <2>1. ASSUME part = "events" PROVE Bridge!IInv' /\ Bridge!CutOver'
    BY <2>1, Parts, Bridge!Step, Bridge!CutOverStep, DesktopAssumption DEF Dispatching, DesktopAssumption
  <2>2. ASSUME part = "jobs" PROVE Invokes!IInv'
    BY <2>2, Parts, Invokes!Step, DesktopAssumption DEF Dispatching, DesktopAssumption
  <2> QED
    BY <2>1, <2>2, Parts DEF Dispatching
<1>3. Dispatching => (part = "events" => Bridge!TypeOK /\ Bridge!OneDispatcher)
  BY Bridge!Promises DEF Dispatching, Bridge!IInv
<1>4. Dispatching => (part = "jobs" => Invokes!TypeOK /\ Invokes!OneDispatcher)
  BY Invokes!Promises DEF Dispatching, Invokes!IInv
<1>5. Dispatching /\ [Next]_vars => [part = "events" => Bridge!LeavesBridged]_vars
  BY Bridge!CutOverPromises DEF Dispatching
<1> QED
  BY <1>1, <1>2, <1>3, <1>4, <1>5, PTL DEF Spec, OneDispatcher

-----------------------------------------------------------------------------
(* DaemonProcess: its variables, as it calls them *)

path == v1
stage == v2
listening == v3
children == v4
killed == v5
starts == v6
overlapped == v7
file == v8
sampled == v9
lastMtime == v10
watcher == v11
engine == v12

USE DEF path, stage, listening, children, killed, starts, overlapped, file, sampled, lastMtime, watcher, engine

\* Who listens is between its bind and the end of its accept loop.
Listeners == \A d \in Daemons : d \in listening <=> stage[d] \in {"activate", "serving"}

\* Stages past the probe and before the bind, and those of the way down.
Unserved == {"unlink", "sample", "load", "bind"} \cup Processes!Down

\* One daemon moves at a time, and while it is past its probe, or on the way
\* down, nobody listens.
OneMoves ==
  overlapped \/
    /\ \A d, e \in Daemons : Processes!Moving(d) /\ Processes!Moving(e) => d = e
    /\ \A d \in Daemons : stage[d] \in Unserved => listening = {}

\* The path leads to a daemon from its bind to its cleanup, and children live from
\* its activation to its shutdown; only a kill leaves either behind.
Owned ==
  \A d \in Daemons :
    /\ path = d => d \in killed \/ stage[d] \in {"activate", "serving"} \cup Processes!Down
    /\ d \in children => \/ stage[d] \in {"serving", "join", "shutdown"}
                         \/ stage[d] = "off" /\ d \in killed

DaemonsInv == Processes!TypeOK /\ Listeners /\ OneMoves /\ Processes!OneServes /\ Owned

\* The invariant holds initially.
LEMMA DaemonsInit == Processes!DaemonProcessAssumption /\ Processes!Init => DaemonsInv
<1> SUFFICES ASSUME Processes!DaemonProcessAssumption, Processes!Init PROVE DaemonsInv
  OBVIOUS
<1> USE DEF Processes!Init, Processes!DaemonProcessAssumption
<1>1. Processes!TypeOK
  <2>1. 0 \in Processes!Texts /\ 0 \in 0..MaxStarts /\ "off" \in Processes!Stages
    BY DEF Processes!Texts, Processes!Stages
  <2> QED
    BY <2>1 DEF Processes!TypeOK
<1>2. Listeners /\ OneMoves /\ Processes!OneServes /\ Owned
  BY DEF Listeners, OneMoves, Processes!OneServes, Owned, Processes!Moving, Unserved, Processes!Up, Processes!Down
<1> QED
  BY <1>1, <1>2 DEF DaemonsInv

\* What each part of the code leaves alone: of the process, only the path, the stage
\* and the sets of daemons matter to the invariant beyond its type.
LEMMA DaemonsType ==
  ASSUME Processes!DaemonProcessAssumption, Processes!TypeOK, [Processes!Next]_(Processes!vars)
  PROVE  Processes!TypeOK'
<1> USE DEF Processes!TypeOK, Processes!Becomes, Processes!process, Processes!config
<1> DEFINE Sample == Processes!Times \cup {Nil}
           Text == Processes!Texts \cup {Broken, Nil}
<1>1. \A d \in Daemons, next \in Processes!Stages :
        [stage EXCEPT ![d] = next] \in [Daemons -> Processes!Stages]
  OBVIOUS
<1>2. {"off", "serving"} \cup Processes!Up \cup Processes!Down = Processes!Stages
  BY DEF Processes!Stages
<1>3. \A text \in Text, otherwise \in Processes!Texts : Processes!Triggers(text, otherwise) \in Processes!Texts
  <2>1. 0 \in Processes!Texts
    BY DEF Processes!Texts, Processes!DaemonProcessAssumption
  <2> QED
    BY <2>1 DEF Processes!Triggers
<1>4. file.text \in Text /\ file.mtime \in Sample
  OBVIOUS
<1>5. ASSUME NEW d \in Daemons, Processes!Start(d) PROVE Processes!TypeOK'
  <2>1. starts' \in 0..MaxStarts
    BY <1>5 DEF Processes!Start, Processes!DaemonProcessAssumption
  <2>2. engine' \in [Daemons -> Processes!Texts]
    BY <1>5 DEF Processes!Start, Processes!Texts, Processes!DaemonProcessAssumption
  <2>3. stage' \in [Daemons -> Processes!Stages] /\ {sampled', lastMtime'} \subseteq [Daemons -> Sample]
    BY <1>5, <1>1, <1>2 DEF Processes!Start, Processes!Up
  <2>4. overlapped' \in BOOLEAN
    BY <1>5 DEF Processes!Start
  <2> QED
    BY <1>5, <2>1, <2>2, <2>3, <2>4 DEF Processes!Start
<1>6. ASSUME NEW d \in Daemons, Processes!Prepare(d) PROVE Processes!TypeOK'
  <2>1. stage' \in [Daemons -> Processes!Stages]
    BY <1>6, <1>1, <1>2 DEF Processes!Prepare, Processes!AfterProbe, Processes!Up
  <2> QED
    BY <1>6, <2>1 DEF Processes!Prepare
<1>7. ASSUME NEW d \in Daemons, Processes!Unlink(d) PROVE Processes!TypeOK'
  <2>1. stage' \in [Daemons -> Processes!Stages]
    BY <1>7, <1>1, <1>2 DEF Processes!Unlink, Processes!Up
  <2> QED
    BY <1>7, <2>1 DEF Processes!Unlink
<1>8. ASSUME NEW d \in Daemons, Processes!LoadTriggers(d) PROVE Processes!TypeOK'
  <2>1. stage' \in [Daemons -> Processes!Stages]
    BY <1>8, <1>1, <1>2 DEF Processes!LoadTriggers, Processes!SampleFirst, Processes!LoadNext, Processes!Up
  <2>2. sampled' \in [Daemons -> Sample]
    BY <1>8, <1>4 DEF Processes!LoadTriggers, Processes!SampleFirst, Processes!LoadNext
  <2>3. 0 \in Processes!Texts
    BY DEF Processes!Texts, Processes!DaemonProcessAssumption
  <2>4. engine' \in [Daemons -> Processes!Texts]
    BY <1>8, <1>3, <1>4, <2>3 DEF Processes!LoadTriggers, Processes!SampleFirst, Processes!LoadNext
  <2> QED
    BY <1>8, <2>1, <2>2, <2>4 DEF Processes!LoadTriggers
<1>9. ASSUME NEW d \in Daemons, Processes!Bind(d) PROVE Processes!TypeOK'
  <2>1. stage' \in [Daemons -> Processes!Stages]
    BY <1>9, <1>1, <1>2 DEF Processes!Bind, Processes!Up
  <2> QED
    BY <1>9, <2>1 DEF Processes!Bind
<1>10. ASSUME NEW d \in Daemons, Processes!Activate(d) PROVE Processes!TypeOK'
  <2>1. stage' \in [Daemons -> Processes!Stages]
    BY <1>10, <1>1, <1>2 DEF Processes!Activate
  <2>2. lastMtime' \in [Daemons -> Sample]
    BY <1>10 DEF Processes!Activate, Processes!Seed
  <2> QED
    BY <1>10, <2>1, <2>2 DEF Processes!Activate
<1>11. ASSUME NEW d \in Daemons, Processes!Tick(d) \/ Processes!Reload(d) PROVE Processes!TypeOK'
  <2>1. lastMtime' \in [Daemons -> Sample]
    BY <1>11, <1>4 DEF Processes!Tick, Processes!Reload
  <2>2. engine' \in [Daemons -> Processes!Texts]
    BY <1>11, <1>3, <1>4 DEF Processes!Tick, Processes!Reload
  <2> QED
    BY <1>11, <2>1, <2>2 DEF Processes!Tick, Processes!Reload
<1>12. ASSUME NEW d \in Daemons,
              Processes!AcceptFails(d) \/ Processes!Join(d) \/ Processes!ShutDown(d) \/ Processes!Cleanup(d) \/ Processes!Kill(d) \/ Processes!ChildrenSeeEof(d)
       PROVE  Processes!TypeOK'
  <2>1. stage' \in [Daemons -> Processes!Stages]
    BY <1>12, <1>1, <1>2
       DEF Processes!AcceptFails, Processes!Join, Processes!ShutDown, Processes!Cleanup, Processes!Kill, Processes!ChildrenSeeEof, Processes!Down
  <2>2. overlapped' \in BOOLEAN
    BY <1>12 DEF Processes!AcceptFails, Processes!Join, Processes!ShutDown, Processes!Cleanup, Processes!Kill, Processes!ChildrenSeeEof
  <2> QED
    BY <1>12, <2>1, <2>2 DEF Processes!AcceptFails, Processes!Join, Processes!ShutDown, Processes!Cleanup, Processes!Kill, Processes!ChildrenSeeEof
<1>13. ASSUME Processes!Edit PROVE Processes!TypeOK'
  <2>1. PICK t \in Processes!Times :
          \E text \in {t, 0, Broken} : file' = [text |-> text, mtime |-> t]
    BY <1>13 DEF Processes!Edit
  <2> PICK text \in {t, 0, Broken} : file' = [text |-> text, mtime |-> t]
    BY <2>1
  <2>2. text \in Text
    BY DEF Processes!Texts, Processes!Times, Processes!DaemonProcessAssumption
  <2> QED
    BY <1>13, <2>2 DEF Processes!Edit
<1>14. CASE UNCHANGED Processes!vars
  BY <1>14 DEF Processes!vars
<1> QED
  BY <1>5, <1>6, <1>7, <1>8, <1>9, <1>10, <1>11, <1>12, <1>13, <1>14 DEF Processes!Next, Processes!Way, Processes!Watch

\* The steps of the config file's side, and those that change nothing.
LEMMA DaemonsAside ==
  ASSUME UNCHANGED Processes!process
  PROVE  /\ Listeners => Listeners'
         /\ OneMoves => OneMoves'
         /\ Processes!OneServes => Processes!OneServes'
         /\ Owned => Owned'
<1> USE DEF Processes!process
<1>1. Listeners => Listeners'
  BY DEF Listeners
<1>2. OneMoves => OneMoves'
  BY DEF OneMoves, Processes!Moving
<1>3. Processes!OneServes => Processes!OneServes'
  BY DEF Processes!OneServes
<1>4. Owned => Owned'
  BY DEF Owned
<1> QED
  BY <1>1, <1>2, <1>3, <1>4

\* Who listens.
LEMMA ListenersStep ==
  ASSUME Processes!TypeOK, Listeners, NEW d \in Daemons,
         Processes!Way(d) \/ Processes!Start(d) \/ Processes!AcceptFails(d) \/ Processes!Kill(d) \/ Processes!ChildrenSeeEof(d)
  PROVE  Listeners'
<1> USE DEF Processes!TypeOK, Listeners, Processes!Becomes
<1>1. CASE Processes!Start(d) \/ Processes!AcceptFails(d) \/ Processes!Kill(d) \/ Processes!ChildrenSeeEof(d)
  BY <1>1 DEF Processes!Start, Processes!AcceptFails, Processes!Kill, Processes!ChildrenSeeEof
<1>2. CASE Processes!Prepare(d) \/ Processes!Unlink(d)
  BY <1>2 DEF Processes!Prepare, Processes!Unlink, Processes!AfterProbe
<1>3. CASE Processes!LoadTriggers(d)
  BY <1>3 DEF Processes!LoadTriggers, Processes!SampleFirst, Processes!LoadNext
<1>4. CASE Processes!Bind(d) \/ Processes!Activate(d)
  BY <1>4 DEF Processes!Bind, Processes!Activate
<1>5. CASE Processes!Join(d) \/ Processes!ShutDown(d) \/ Processes!Cleanup(d)
  BY <1>5 DEF Processes!Join, Processes!ShutDown, Processes!Cleanup
<1> QED
  BY <1>1, <1>2, <1>3, <1>4, <1>5 DEF Processes!Way

\* One daemon moves, and nobody listens while it may take the path.
LEMMA OneMovesStep ==
  ASSUME Processes!DaemonProcessAssumption, Processes!TypeOK, Listeners, OneMoves, Processes!OneServes, NEW d \in Daemons,
         Processes!Way(d) \/ Processes!Start(d) \/ Processes!AcceptFails(d) \/ Processes!Kill(d) \/ Processes!ChildrenSeeEof(d)
  PROVE  OneMoves'
<1> USE DEF Processes!TypeOK, OneMoves, Processes!Moving, Processes!Becomes, Unserved, Processes!Up, Processes!Down
<1>1. CASE Processes!Start(d)
  BY <1>1 DEF Processes!Start
<1>2. CASE Processes!Prepare(d)
  <2>1. ~overlapped /\ stage'[d] \in {"unlink", "sample"} => listening = {}
    BY <1>2 DEF Processes!Prepare, Processes!AfterProbe, Processes!ProbeSays, Processes!OneServes, Processes!DaemonProcessAssumption
  <2>2. stage'[d] \in {"unlink", "sample", "off"}
    BY <1>2 DEF Processes!Prepare, Processes!AfterProbe
  <2> QED
    BY <1>2, <2>1, <2>2 DEF Processes!Prepare
<1>3. CASE Processes!Unlink(d)
  BY <1>3 DEF Processes!Unlink
<1>4. CASE Processes!LoadTriggers(d)
  BY <1>4 DEF Processes!LoadTriggers, Processes!SampleFirst, Processes!LoadNext
<1>5. CASE Processes!Bind(d)
  BY <1>5 DEF Processes!Bind
<1>6. CASE Processes!Activate(d)
  BY <1>6 DEF Processes!Activate
<1>7. CASE Processes!AcceptFails(d)
  <2>1. ~overlapped => listening' = {}
    BY <1>7 DEF Processes!AcceptFails, Processes!OneServes, Listeners
  <2>2. ~overlapped' => ~overlapped /\ \A e \in Daemons \ {d} : ~Processes!Moving(e) /\ stage'[e] = stage[e]
    BY <1>7 DEF Processes!AcceptFails
  <2> QED
    BY <2>1, <2>2
<1>8. CASE Processes!Join(d) \/ Processes!ShutDown(d) \/ Processes!Cleanup(d)
  BY <1>8 DEF Processes!Join, Processes!ShutDown, Processes!Cleanup
<1>9. CASE Processes!Kill(d)
  BY <1>9 DEF Processes!Kill
<1>10. CASE Processes!ChildrenSeeEof(d)
  BY <1>10 DEF Processes!ChildrenSeeEof
<1> QED
  BY <1>1, <1>2, <1>3, <1>4, <1>5, <1>6, <1>7, <1>8, <1>9, <1>10 DEF Processes!Way

\* One daemon listens, at the path.
LEMMA OneServesStep ==
  ASSUME Processes!DaemonProcessAssumption, Processes!TypeOK, OneMoves, Processes!OneServes, NEW d \in Daemons,
         Processes!Way(d) \/ Processes!Start(d) \/ Processes!AcceptFails(d) \/ Processes!Kill(d) \/ Processes!ChildrenSeeEof(d)
  PROVE  Processes!OneServes'
<1> USE DEF Processes!OneServes
<1>1. CASE Processes!Start(d) \/ Processes!AcceptFails(d) \/ Processes!Kill(d) \/ Processes!ChildrenSeeEof(d)
  BY <1>1 DEF Processes!Start, Processes!AcceptFails, Processes!Kill, Processes!ChildrenSeeEof
<1>2. CASE Processes!Prepare(d) \/ Processes!LoadTriggers(d)
  BY <1>2 DEF Processes!Prepare, Processes!LoadTriggers
<1>3. CASE Processes!Unlink(d)
  BY <1>3 DEF Processes!Unlink, OneMoves, Unserved
<1>4. CASE Processes!Bind(d)
  BY <1>4 DEF Processes!Bind, OneMoves, Unserved
<1>5. CASE Processes!Activate(d) \/ Processes!Join(d) \/ Processes!ShutDown(d)
  BY <1>5 DEF Processes!Activate, Processes!Join, Processes!ShutDown
<1>6. CASE Processes!Cleanup(d)
  BY <1>6 DEF Processes!Cleanup, OneMoves, Unserved, Processes!Down
<1> QED
  BY <1>1, <1>2, <1>3, <1>4, <1>5, <1>6 DEF Processes!Way

\* What a daemon leaves behind.
LEMMA OwnedStep ==
  ASSUME Processes!DaemonProcessAssumption, Processes!TypeOK, Owned, NEW d \in Daemons,
         Processes!Way(d) \/ Processes!Start(d) \/ Processes!AcceptFails(d) \/ Processes!Kill(d) \/ Processes!ChildrenSeeEof(d)
  PROVE  Owned'
<1> USE DEF Processes!TypeOK, Owned, Processes!Becomes, Processes!Down, Processes!DaemonProcessAssumption
<1>1. CASE Processes!Start(d)
  BY <1>1 DEF Processes!Start
<1>2. CASE Processes!Prepare(d)
  BY <1>2 DEF Processes!Prepare, Processes!AfterProbe
<1>3. CASE Processes!Unlink(d)
  BY <1>3 DEF Processes!Unlink
<1>4. CASE Processes!LoadTriggers(d)
  BY <1>4 DEF Processes!LoadTriggers, Processes!SampleFirst, Processes!LoadNext
<1>5. CASE Processes!Bind(d)
  BY <1>5 DEF Processes!Bind
<1>6. CASE Processes!Activate(d)
  BY <1>6 DEF Processes!Activate
<1>7. CASE Processes!AcceptFails(d)
  BY <1>7 DEF Processes!AcceptFails
<1>8. CASE Processes!Join(d) \/ Processes!ShutDown(d)
  BY <1>8 DEF Processes!Join, Processes!ShutDown
<1>9. CASE Processes!Cleanup(d)
  BY <1>9 DEF Processes!Cleanup
<1>10. CASE Processes!Kill(d)
  BY <1>10 DEF Processes!Kill
<1>11. CASE Processes!ChildrenSeeEof(d)
  BY <1>11 DEF Processes!ChildrenSeeEof
<1> QED
  BY <1>1, <1>2, <1>3, <1>4, <1>5, <1>6, <1>7, <1>8, <1>9, <1>10, <1>11 DEF Processes!Way


\* A step keeps the invariant.
LEMMA DaemonsNext ==
  ASSUME Processes!DaemonProcessAssumption, DaemonsInv, [Processes!Next]_(Processes!vars)
  PROVE  DaemonsInv'
<1>1. Processes!TypeOK'
  BY DaemonsType DEF DaemonsInv
<1>2. CASE UNCHANGED Processes!process
  BY <1>1, <1>2, DaemonsAside DEF DaemonsInv
<1>3. CASE ~ UNCHANGED Processes!process
  <2>1. PICK d \in Daemons :
          \/ Processes!Way(d) \/ Processes!Start(d) \/ Processes!AcceptFails(d)
          \/ Processes!Kill(d) \/ Processes!ChildrenSeeEof(d)
    BY <1>3 DEF Processes!Next, Processes!Watch, Processes!Tick, Processes!Reload,
         Processes!Edit, Processes!vars
  <2> QED
    BY <1>1, <2>1, ListenersStep, OneMovesStep, OneServesStep, OwnedStep DEF DaemonsInv
<1> QED
  BY <1>2, <1>3

\* What the invariant says of the daemons, when the behaviour is theirs.
DaemonsServe == part = "daemons" => DaemonsInv

\* Of any number of daemons that are started, killed and stopped any number of times,
\* one serves as long as no two are on the way up or down at once, and one that came to its
\* own end leaves neither its socket nor plugin processes.
THEOREM Serves == Spec => []OneServes
<1>1. Init => DaemonsServe
  BY DaemonsInit, DesktopAssumption DEF Init, DaemonsServe, DesktopAssumption
<1>2. DaemonsServe /\ [Next]_vars => DaemonsServe'
  <2> SUFFICES ASSUME DaemonsServe, [Next]_vars, part' = "daemons" PROVE DaemonsInv'
    BY DEF DaemonsServe
  <2>1. part = "daemons" /\ [Processes!Next]_(Processes!vars)
    BY Parts
  <2> QED
    BY <2>1, DaemonsNext, DesktopAssumption DEF DaemonsServe, DesktopAssumption
<1>3. DaemonsServe => OneServes
  BY DEF DaemonsServe, DaemonsInv, OneServes, Owned, Processes!ClosesUp, Processes!Down
<1> QED
  BY <1>1, <1>2, <1>3, PTL DEF Spec

-----------------------------------------------------------------------------
(* PanelBridge *)

open == v1
call == v2
queue == v3
reply == v4
now == v5

USE DEF open, call, queue, reply, now

\* A call's times are of the past; a service is not waited for beyond the supervisor's
\* deadline, nor a page told that its call timed out before the bridge's.
Deadlines ==
  \A c \in Calls :
    /\ call[c].posted <= call[c].taken /\ call[c].taken <= now
    /\ call[c].phase = "idle" => reply[c] = "none"
    /\ call[c].phase = "pending" /\ call[c].kind = "service" => now <= call[c].taken + ActionTimeout
    /\ reply[c] = "timeout" => now >= call[c].posted + BridgeTimeout

PagesInv == Pages!TypeOK /\ Deadlines /\ Pages!SupervisorSpeaksFirst

LEMMA PagesInit == Pages!PanelBridgeAssumption /\ Pages!Init => PagesInv
<1> SUFFICES ASSUME Pages!PanelBridgeAssumption, Pages!Init PROVE PagesInv
  OBVIOUS
<1> USE DEF Pages!PanelBridgeAssumption, Pages!Init, Pages!None, Pages!Call, Pages!Kinds
<1>1. Pages!TypeOK
  BY EmptySeq DEF Pages!TypeOK
<1>2. Deadlines /\ Pages!SupervisorSpeaksFirst
  BY DEF Deadlines, Pages!SupervisorSpeaksFirst
<1> QED
  BY <1>1, <1>2 DEF PagesInv

\* A step keeps the invariant: the last poll before the supervisor's deadline finds either
\* its answer or a call that was taken late.
LEMMA PagesNext ==
  ASSUME Pages!PanelBridgeAssumption, PagesInv, [Pages!Next]_(Pages!vars)
  PROVE  PagesInv'
<1> USE DEF Pages!PanelBridgeAssumption, PagesInv, Pages!TypeOK, Deadlines,
            Pages!SupervisorSpeaksFirst, Pages!Call, Pages!Kinds
<1>1. CASE Pages!Take
  <2> DEFINE c == Head(queue)
  <2>1. c \in Calls /\ queue' \in Seq(Calls)
    BY <1>1, HeadTailProperties DEF Pages!Take
  <2>2. PICK ph \in {"answered", "pending", "dropped"} :
          call' = [call EXCEPT ![c].phase = ph, ![c].taken = now]
    BY <1>1 DEF Pages!Take
  <2>3. open' = open /\ reply' = reply /\ now' = now
    BY <1>1 DEF Pages!Take
  <2> HIDE DEF c
  <2>4. call'[c] = [call[c] EXCEPT !.phase = ph, !.taken = now] /\ call'[c] \in Pages!Call
    BY <2>1, <2>2
  <2>5. call' \in [Calls -> Pages!Call]
    BY <2>1, <2>2, <2>4
  <2>6. Deadlines' /\ Pages!SupervisorSpeaksFirst'
    BY <2>1, <2>2, <2>3
  <2> QED
    BY <2>1, <2>3, <2>5, <2>6
<1>2. CASE Pages!Tick
  BY <1>2 DEF Pages!Tick
<1>3. ASSUME NEW c \in Calls, Pages!Callback(c) \/ Pages!UserAnswers(c) \/ Pages!ServiceAnswers(c)
      PROVE  PagesInv'
  <2>1. call' = [call EXCEPT ![c].phase = "answered"] /\ call[c].phase = "pending"
        /\ open' = open /\ queue' = queue /\ reply' = reply /\ now' = now
    BY <1>3 DEF Pages!Callback, Pages!UserAnswers, Pages!ServiceAnswers
  <2>2. Pages!TypeOK'
    BY <2>1
  <2>3. Deadlines' /\ Pages!SupervisorSpeaksFirst'
    BY <2>1
  <2> QED
    BY <2>2, <2>3
<1>4. ASSUME NEW c \in Calls, Pages!Poll(c) PROVE PagesInv'
  <2>1. call[c].phase # "idle" /\ Pages!Found(c) # "none"
        /\ reply' = [reply EXCEPT ![c] = Pages!Found(c)]
        /\ open' = open /\ call' = call /\ queue' = queue /\ now' = now
    BY <1>4 DEF Pages!Poll
  <2>2. Pages!Found(c) \in {"response", "closed", "timeout"}
        /\ (Pages!Found(c) = "timeout" =>
              now >= call[c].posted + BridgeTimeout /\ call[c].phase \notin {"answered", "dropped"})
    BY <2>1 DEF Pages!Found, Pages!TimedOut
  <2>3. Pages!TypeOK'
    BY <2>1, <2>2
  <2>4. Deadlines'
    BY <2>1, <2>2
  <2>5. Pages!SupervisorSpeaksFirst'
    BY <2>1, <2>2, <1>4 DEF Pages!Poll
  <2> QED
    BY <2>3, <2>4, <2>5
<1>5. ASSUME NEW c \in Calls, NEW p \in Panels, Pages!Post(c, p) PROVE PagesInv'
  <2>1. PICK k \in Pages!Kinds, t \in Panels :
          call' = [call EXCEPT ![c] = [kind |-> k, target |-> t, by |-> p, phase |-> "queued",
                                       posted |-> now, taken |-> now]]
    BY <1>5 DEF Pages!Post
  <2>2. queue' \in Seq(Calls)
    BY <1>5, AppendProperties DEF Pages!Post
  <2>3. open' = open /\ reply' = reply /\ now' = now /\ call[c].phase = "idle"
    BY <1>5 DEF Pages!Post
  <2>4. Pages!TypeOK'
    BY <2>1, <2>2, <2>3
  <2>5. Deadlines' /\ Pages!SupervisorSpeaksFirst'
    BY <2>1, <2>3
  <2> QED
    BY <2>4, <2>5
<1>6. ASSUME NEW c \in Calls, NEW p \in Panels, Pages!PostBroken(c, p) PROVE PagesInv'
  <2>1. call' = [call EXCEPT ![c].phase = "done"] /\ reply' = [reply EXCEPT ![c] = "error"]
        /\ open' = open /\ queue' = queue /\ now' = now
    BY <1>6 DEF Pages!PostBroken
  <2>2. Pages!TypeOK'
    BY <2>1
  <2>3. Deadlines' /\ Pages!SupervisorSpeaksFirst'
    BY <2>1
  <2> QED
    BY <2>2, <2>3
<1>7. ASSUME NEW p \in Panels, Pages!ClosePanel(p) PROVE PagesInv'
  BY <1>7 DEF Pages!ClosePanel
<1>8. CASE UNCHANGED Pages!vars
  BY <1>8 DEF Pages!vars
<1> QED
  BY <1>1, <1>2, <1>3, <1>4, <1>5, <1>6, <1>7, <1>8 DEF Pages!Next

-----------------------------------------------------------------------------
(* Relay *)

asked == v1
served == v2
answers == v3
closed == v4
hops == v5
completions == v6
daemonUp == v7

USE DEF asked, served, answers, closed, hops, completions, daemonUp

\* A connection's answers are those to its first requests, in their order, and it
\* serves no more than the next one; only what it took up has hops.
InTurn ==
  /\ \A c \in Connections :
       served[c] \in {Len(answers[c]), Len(answers[c]) + 1}
  /\ Requests!OwnAnswers
  /\ \A r \in Requests!Requests : r[2] <= served[r[1]] <=> hops[r] # <<>>

\* An answered request's first hop is at its end.
Written ==
  \A c \in Connections : \A j \in DOMAIN answers[c] :
    hops[<<c, j>>][1].state = "done" /\ hops[<<c, j>>][1].says # "none"

\* A method of the window is handled there, or comes to it as an invoke of the daemon.
WindowsWay(way) ==
  /\ Len(way) = 1 /\ way[1].at = "window" /\ way[1].state # "waiting"
  /\ way[1].state = "done" => way[1].says \in {"ok", "none"}
DaemonsWay(way) ==
  /\ Len(way) \in 1 .. 3 /\ way[1].at = "daemon"
  /\ way[1].state \in {"queued", "busy"} => Len(way) = 1
  /\ Len(way) > 1 =>
       /\ way[2].at = "invoke"
       /\ way[2].state \in {"queued", "busy"} => Len(way) = 2
       /\ way[2].state = "done" => way[2].says # "none"
  /\ Len(way) > 2 => way[3].at = "window"

\* It is announced when its first hop gets an answer, and not before or after.
Answered(hop) == hop.state = "done" /\ hop.says # "none"
Announced(n, way) == n = IF Answered(way[1]) THEN 1 ELSE 0

Ways ==
  \A r \in Requests!Requests : Requests!Method(r) = "window" =>
    IF hops[r] = <<>> THEN completions[r] = 0
    ELSE Announced(completions[r], hops[r]) /\ (WindowsWay(hops[r]) \/ DaemonsWay(hops[r]))

RelayInv == Requests!TypeOK /\ InTurn /\ Written /\ Ways

\* The requests and their numbers.
LEMMA Numbers ==
  ASSUME Requests!TypeOK
  PROVE  /\ \A c \in Connections : \A j \in 1 .. Len(asked[c]) : <<c, j>> \in Requests!Requests
         /\ \A r \in Requests!Requests :
              r = <<r[1], r[2]>> /\ r[1] \in Connections /\ r[2] \in 1 .. Len(asked[r[1]])
         /\ \A c \in Connections : asked[c] \in Seq(Requests!Methods) /\ Len(asked[c]) \in Nat
         /\ \A c \in Connections : answers[c] \in Seq(Requests!Requests \X Requests!Answers)
              /\ Len(answers[c]) \in Nat /\ DOMAIN answers[c] = 1 .. Len(answers[c])
<1>1. \A c \in Connections : asked[c] \in Seq(Requests!Methods) /\ Len(asked[c]) \in Nat
                             /\ DOMAIN asked[c] = 1 .. Len(asked[c])
  BY LenProperties DEF Requests!TypeOK
<1>2. \A c \in Connections : answers[c] \in Seq(Requests!Requests \X Requests!Answers)
              /\ Len(answers[c]) \in Nat /\ DOMAIN answers[c] = 1 .. Len(answers[c])
  BY LenProperties DEF Requests!TypeOK
<1> QED
  BY <1>1, <1>2 DEF Requests!Requests

\* The hops of a request, as a sequence.
LEMMA HopsOf ==
  ASSUME Requests!TypeOK, NEW r \in Requests!Requests
  PROVE  /\ hops[r] \in Seq(Requests!Hop) /\ Len(hops[r]) \in Nat /\ Len(hops[r]) <= MaxHops
         /\ DOMAIN hops[r] = 1 .. Len(hops[r])
         /\ \A i \in 1 .. Len(hops[r]) : hops[r][i] \in Requests!Hop
         /\ hops[r] = <<>> <=> Len(hops[r]) = 0
  BY LenProperties, ElementOfSeq, EmptySeq DEF Requests!TypeOK

LEMMA RelayInit == Requests!RelayAssumption /\ Requests!Init => RelayInv
<1> SUFFICES ASSUME Requests!RelayAssumption, Requests!Init PROVE RelayInv
  OBVIOUS
<1> USE DEF Requests!RelayAssumption, Requests!Init
<1>1. asked \in [Connections -> Seq(Requests!Methods)] /\ \A c \in Connections : asked[c] \in Questions[c]
  OBVIOUS
<1>2. \A c \in Connections : Len(asked[c]) \in Nat /\ DOMAIN asked[c] = 1 .. Len(asked[c])
  BY <1>1, LenProperties
<1>3. <<>> \in Seq(Requests!Requests \X Requests!Answers) /\ <<>> \in Seq(Requests!Hop) /\ Len(<<>>) = 0
  BY EmptySeq
<1>4. Requests!TypeOK
  BY <1>1, <1>2, <1>3 DEF Requests!TypeOK
<1>5. \A c \in Connections : answers[c] = <<>> /\ served[c] = 0 /\ Len(answers[c]) = 0 /\ DOMAIN answers[c] = {}
  BY <1>3
<1>6. \A r \in Requests!Requests : hops[r] = <<>> /\ completions[r] = 0
  OBVIOUS
<1>7. InTurn
  BY <1>4, <1>5, <1>6, Numbers DEF InTurn, Requests!OwnAnswers
<1>8. Written /\ Ways
  BY <1>5, <1>6 DEF Written, Ways
<1> QED
  BY <1>4, <1>7, <1>8 DEF RelayInv

\* One hop of r moves on where it is, or waits for a new one behind the last.
Moves(r, i, h) == hops' = [hops EXCEPT ![r] = [hops[r] EXCEPT ![i] = h]]
Grows(r, i, n) ==
  hops' = [hops EXCEPT ![r] = Append([hops[r] EXCEPT ![i] = [hops[r][i] EXCEPT !.state = "waiting"]], n)]

\* What the threads of the connections and the daemon's end leave alone.
HopAside(r) ==
  /\ UNCHANGED <<asked, served, answers, closed, daemonUp>>
  /\ completions' \in {completions, [completions EXCEPT ![r] = @ + 1]}

\* Every step of a hop is one of the two.
LEMMA HopStep ==
  ASSUME Requests!RelayAssumption, Requests!TypeOK, NEW r \in Requests!Requests, NEW i \in DOMAIN hops[r],
         Requests!Step(r, i) \/ Requests!DaemonTimesOut(r, i) \/ Requests!ActionEnds(r, i)
  PROVE  /\ HopAside(r) /\ hops[r][i].state # "done"
         /\ \/ \E h \in Requests!Hop : h.at = hops[r][i].at /\ Moves(r, i, h)
            \/ \E n \in Requests!Hop : Len(hops[r]) < MaxHops /\ Grows(r, i, n)
<1> USE DEF HopAside, Requests!Hop, Requests!Places, Requests!Answers, Requests!Errors, Requests!At,
            Requests!New, Requests!Said, Requests!Complete
<1>1. hops[r][i] \in Requests!Hop /\ hops \in [Requests!Requests -> Seq(Requests!Hop)]
  BY HopsOf DEF Requests!TypeOK
<1>2. \A s \in {"queued", "busy", "waiting"} : [hops[r][i] EXCEPT !.state = s] \in Requests!Hop
  BY <1>1
<1>3. \A a \in Requests!Answers : Requests!Said(hops[r][i].at, a) \in Requests!Hop
  BY <1>1
<1>4. \A place \in Requests!Places :
        /\ Requests!Submitted(place) \in Requests!Hop
        /\ \A s \in {"queued", "busy"} : Requests!New(place, s) \in Requests!Hop
  BY DEF Requests!Submitted
<1>5. ASSUME NEW n, Requests!PassOn(r, i, n) PROVE Len(hops[r]) < MaxHops /\ Grows(r, i, n)
  BY <1>1, <1>5 DEF Requests!PassOn, Grows
<1>6. ASSUME NEW a, Requests!Answer(r, i, a)
      PROVE  Moves(r, i, Requests!Said(hops[r][i].at, a))
  BY <1>1, <1>6 DEF Requests!Answer, Moves
<1>7. CASE Requests!WindowHandles(r, i)
  <2>1. Moves(r, i, [hops[r][i] EXCEPT !.state = "busy"])
    BY <1>1, <1>7 DEF Requests!WindowHandles, Moves
  <2> QED
    BY <1>1, <1>2, <1>7, <2>1 DEF Requests!WindowHandles
<1>8. CASE Requests!WindowAnswers(r, i)
  <2>1. PICK a \in {"ok", "none"} : Requests!Answer(r, i, a)
    BY <1>8 DEF Requests!WindowAnswers
  <2> QED
    BY <1>3, <1>6, <1>8, <2>1 DEF Requests!WindowAnswers
<1>9. CASE Requests!WindowForwards(r, i)
  BY <1>4, <1>5, <1>9 DEF Requests!WindowForwards
<1>10. CASE Requests!Forward(r, i)
  <2>1. HopAside(r) /\ hops[r][i].state # "done"
    BY <1>10 DEF Requests!Forward, Requests!Picks
  <2>2. CASE Requests!PassOn(r, i, Requests!New("daemon", "busy"))
    BY <1>4, <1>5, <2>1, <2>2
  <2>3. CASE Requests!Answer(r, i, "no_daemon")
    BY <1>3, <1>6, <2>1, <2>3
  <2> QED
    BY <1>10, <2>2, <2>3 DEF Requests!Forward
<1>11. CASE Requests!RunInvoke(r, i)
  BY <1>4, <1>5, <1>11 DEF Requests!RunInvoke, Requests!Picks
<1>12. CASE Requests!DispatchViaRegistry(r, i)
  <2>1. Moves(r, i, [hops[r][i] EXCEPT !.state = "waiting"])
    BY <1>1, <1>12 DEF Requests!DispatchViaRegistry, Moves
  <2> QED
    BY <1>1, <1>2, <1>12, <2>1 DEF Requests!DispatchViaRegistry
<1>13. CASE Requests!DispatchViaGui(r, i)
  BY <1>4, <1>5, <1>13 DEF Requests!DispatchViaGui
<1>14. CASE Requests!DispatchUnknown(r, i)
  BY <1>3, <1>6, <1>14 DEF Requests!DispatchUnknown
<1>15. CASE Requests!Return(r, i)
  <2>1. i + 1 \in 1 .. Len(hops[r])
    BY <1>15, HopsOf DEF Requests!Return
  <2>2. hops[r][i + 1].says \in Requests!Answers
    BY <2>1, HopsOf
  <2>3. PICK a \in Requests!Answers : Requests!Answer(r, i, a)
    BY <1>15, <2>2 DEF Requests!Return
  <2>4. HopAside(r) /\ hops[r][i].state # "done"
    BY <1>15 DEF Requests!Return
  <2> QED
    BY <1>3, <1>6, <2>3, <2>4
<1>16. CASE Requests!DaemonTimesOut(r, i)
  BY <1>3, <1>6, <1>16 DEF Requests!DaemonTimesOut, Requests!TimesOut
<1>17. CASE Requests!ActionEnds(r, i)
  BY <1>3, <1>6, <1>17 DEF Requests!ActionEnds
<1> QED
  BY <1>7, <1>8, <1>9, <1>10, <1>11, <1>12, <1>13, <1>14, <1>15, <1>16, <1>17 DEF Requests!Step

\* What follows for the hops, however it was.
LEMMA HopsAfter ==
  ASSUME Requests!RelayAssumption, Requests!TypeOK, NEW r \in Requests!Requests, NEW i \in DOMAIN hops[r],
         \/ \E h \in Requests!Hop : h.at = hops[r][i].at /\ Moves(r, i, h)
         \/ \E n \in Requests!Hop : Len(hops[r]) < MaxHops /\ Grows(r, i, n)
  PROVE  /\ hops' \in [Requests!Requests -> Seq(Requests!Hop)]
         /\ \A q \in Requests!Requests : q # r => hops'[q] = hops[q]
         /\ Len(hops'[r]) \in {Len(hops[r]), Len(hops[r]) + 1} /\ Len(hops'[r]) <= MaxHops
         /\ hops[r] # <<>> /\ hops'[r] # <<>>
         /\ \A k \in 1 .. Len(hops[r]) : k # i => hops'[r][k] = hops[r][k]
         /\ hops'[r][i].at = hops[r][i].at
<1>1. hops \in [Requests!Requests -> Seq(Requests!Hop)] /\ hops[r] \in Seq(Requests!Hop)
      /\ Len(hops[r]) \in Nat /\ Len(hops[r]) <= MaxHops /\ i \in 1 .. Len(hops[r])
      /\ hops[r][i] \in Requests!Hop
  BY HopsOf DEF Requests!TypeOK
<1>2. CASE \E h \in Requests!Hop : h.at = hops[r][i].at /\ Moves(r, i, h)
  <2>1. PICK h \in Requests!Hop : h.at = hops[r][i].at /\ Moves(r, i, h)
    BY <1>2
  <2> DEFINE moved == [hops[r] EXCEPT ![i] = h]
  <2>2. /\ moved \in Seq(Requests!Hop) /\ Len(moved) = Len(hops[r])
        /\ \A k \in 1 .. Len(hops[r]) : moved[k] = IF k = i THEN h ELSE hops[r][k]
    BY <1>1, ExceptSeq
  <2>3. hops' = [hops EXCEPT ![r] = moved]
    BY <2>1 DEF Moves
  <2> HIDE DEF moved
  <2>4. hops' \in [Requests!Requests -> Seq(Requests!Hop)] /\ hops'[r] = moved
        /\ \A q \in Requests!Requests : q # r => hops'[q] = hops[q]
    BY <1>1, <2>2, <2>3
  <2>5. moved # <<>> /\ hops[r] # <<>>
    BY <1>1, <2>2, EmptySeq
  <2>6. moved[i] = h /\ \A k \in 1 .. Len(hops[r]) : k # i => moved[k] = hops[r][k]
    BY <1>1, <2>2
  <2> QED
    BY <1>1, <2>1, <2>2, <2>4, <2>5, <2>6
<1>3. CASE \E n \in Requests!Hop : Len(hops[r]) < MaxHops /\ Grows(r, i, n)
  <2>1. PICK n \in Requests!Hop : Len(hops[r]) < MaxHops /\ Grows(r, i, n)
    BY <1>3
  <2> DEFINE h == [hops[r][i] EXCEPT !.state = "waiting"]
  <2> DEFINE moved == [hops[r] EXCEPT ![i] = h]
  <2> DEFINE grown == Append(moved, n)
  <2>2. h \in Requests!Hop /\ h.at = hops[r][i].at
    BY <1>1 DEF Requests!Hop
  <2>3. hops' = [hops EXCEPT ![r] = grown]
    BY <2>1 DEF Grows
  <2> HIDE DEF h
  <2>4. /\ moved \in Seq(Requests!Hop) /\ Len(moved) = Len(hops[r])
        /\ \A k \in 1 .. Len(hops[r]) : moved[k] = IF k = i THEN h ELSE hops[r][k]
    BY <1>1, <2>2, ExceptSeq
  <2> HIDE DEF moved
  <2>5. /\ grown \in Seq(Requests!Hop) /\ Len(grown) = Len(hops[r]) + 1
        /\ \A k \in 1 .. Len(hops[r]) : grown[k] = moved[k]
    BY <1>1, <2>1, <2>4, AppendProperties
  <2> HIDE DEF grown
  <2>6. hops' \in [Requests!Requests -> Seq(Requests!Hop)] /\ hops'[r] = grown
        /\ \A q \in Requests!Requests : q # r => hops'[q] = hops[q]
    BY <1>1, <2>3, <2>5
  <2>7. grown # <<>> /\ hops[r] # <<>>
    BY <1>1, <2>5, EmptySeq
  <2>8. grown[i] = h /\ \A k \in 1 .. Len(hops[r]) : k # i => grown[k] = hops[r][k]
    BY <1>1, <2>4, <2>5
  <2> QED
    BY <1>1, <2>1, <2>2, <2>5, <2>6, <2>7, <2>8 DEF Requests!RelayAssumption
<1> QED
  BY <1>2, <1>3

\* A hop's step keeps whose turn it is, and the answers that were written.
LEMMA HopKeepsTurns ==
  ASSUME Requests!RelayAssumption, RelayInv, NEW r \in Requests!Requests, NEW i \in DOMAIN hops[r],
         Requests!Step(r, i) \/ Requests!DaemonTimesOut(r, i) \/ Requests!ActionEnds(r, i)
  PROVE  /\ Requests!TypeOK' /\ InTurn' /\ Written'
         /\ Requests!Requests' = Requests!Requests
<1> USE DEF RelayInv
<1>1. /\ HopAside(r) /\ hops[r][i].state # "done"
      /\ \/ \E h \in Requests!Hop : h.at = hops[r][i].at /\ Moves(r, i, h)
         \/ \E n \in Requests!Hop : Len(hops[r]) < MaxHops /\ Grows(r, i, n)
  BY HopStep
<1>2. /\ hops' \in [Requests!Requests -> Seq(Requests!Hop)]
      /\ \A q \in Requests!Requests : q # r => hops'[q] = hops[q]
      /\ Len(hops'[r]) <= MaxHops /\ hops[r] # <<>> /\ hops'[r] # <<>>
      /\ \A k \in 1 .. Len(hops[r]) : k # i => hops'[r][k] = hops[r][k]
  BY <1>1, HopsAfter
<1>3. Requests!Requests' = Requests!Requests
  BY <1>1 DEF HopAside, Requests!Requests
<1>4. completions' \in [Requests!Requests -> Nat]
  BY <1>1 DEF HopAside, Requests!TypeOK
<1>5. Requests!TypeOK'
  BY <1>1, <1>2, <1>3, <1>4 DEF HopAside, Requests!TypeOK
<1>6. InTurn'
  BY <1>1, <1>2, <1>3 DEF HopAside, InTurn, Requests!OwnAnswers
<1>7. ASSUME NEW c \in Connections, NEW j \in DOMAIN answers[c]
      PROVE  hops'[<<c, j>>][1] = hops[<<c, j>>][1]
  <2>1. hops[<<c, j>>][1].state = "done"
    BY DEF Written
  <2>2. j \in 1 .. Len(asked[c]) /\ <<c, j>> \in Requests!Requests
    <3>1. DOMAIN answers[c] = 1 .. Len(answers[c]) /\ Len(answers[c]) \in Nat /\ Len(asked[c]) \in Nat
          /\ \A k \in 1 .. Len(asked[c]) : <<c, k>> \in Requests!Requests
      BY Numbers
    <3>2. served[c] \in {Len(answers[c]), Len(answers[c]) + 1} /\ served[c] <= Len(asked[c])
      BY DEF InTurn, Requests!TypeOK
    <3> QED
      BY <3>1, <3>2
  <2>3. CASE <<c, j>> # r
    BY <1>2, <2>2, <2>3
  <2>4. CASE <<c, j>> = r
    <3>1. i # 1 /\ 1 \in 1 .. Len(hops[r])
      BY <1>1, <2>1, <2>4, HopsOf
    <3> QED
      BY <1>2, <2>4, <3>1
  <2> QED
    BY <2>3, <2>4
<1>8. Written'
  BY <1>1, <1>7 DEF HopAside, Written
<1> QED
  BY <1>3, <1>5, <1>6, <1>8

\* Where the hops of a window's method are.
LEMMA WhereHopsAre ==
  ASSUME NEW way, Len(way) \in Nat, NEW i \in 1 .. Len(way), WindowsWay(way) \/ DaemonsWay(way)
  PROVE  /\ way[i].at = "window" => (WindowsWay(way) /\ i = 1) \/ (DaemonsWay(way) /\ i = 3)
         /\ way[i].at = "invoke" => DaemonsWay(way) /\ i = 2
         /\ way[i].at = "daemon" => DaemonsWay(way) /\ i = 1
         /\ way[i].at \in {"window", "invoke", "daemon"}
<1>1. CASE WindowsWay(way)
  BY <1>1 DEF WindowsWay
<1>2. CASE DaemonsWay(way)
  BY <1>2 DEF DaemonsWay
<1> QED
  BY <1>1, <1>2

\* Its next hops, when one of them moves on or waits for a new one.
LEMMA WindowMoves ==
  ASSUME NEW way, NEW next, WindowsWay(way), Len(next) = 1, next[1].at = "window",
         \/ next[1].state = "busy"
         \/ next[1].state = "done" /\ next[1].says \in {"ok", "none"}
  PROVE  WindowsWay(next)
  BY DEF WindowsWay

LEMMA FirstMoves ==
  ASSUME NEW way, NEW next, DaemonsWay(way), Len(next) = Len(way), next[1].at = "daemon",
         next[1].state = "done", \A k \in {2, 3} : k <= Len(way) => next[k] = way[k]
  PROVE  DaemonsWay(next)
  BY DEF DaemonsWay

LEMMA SecondMoves ==
  ASSUME NEW way, NEW next, DaemonsWay(way), Len(next) = Len(way), Len(way) > 1,
         next[2].at = "invoke", next[2].state = "done", next[2].says # "none", next[1] = way[1],
         3 <= Len(way) => next[3] = way[3]
  PROVE  DaemonsWay(next)
  BY DEF DaemonsWay

LEMMA ThirdMoves ==
  ASSUME NEW way, NEW next, DaemonsWay(way), Len(next) = Len(way), Len(way) = 3,
         next[3].at = "window", next[1] = way[1], next[2] = way[2]
  PROVE  DaemonsWay(next)
  BY DEF DaemonsWay

LEMMA WayGrows ==
  ASSUME NEW way, NEW next, NEW i \in {1, 2}, DaemonsWay(way), Len(way) = i, Len(next) = i + 1,
         next[i].at = way[i].at, next[i].state = "waiting",
         i = 2 => next[1] = way[1] /\ next[3].at = "window",
         i = 1 => next[2].at = "invoke" /\ (next[2].state = "done" => next[2].says # "none")
  PROVE  DaemonsWay(next)
<1>1. CASE i = 1
  BY <1>1 DEF DaemonsWay
<1>2. CASE i = 2
  BY <1>2 DEF DaemonsWay
<1> QED
  BY <1>1, <1>2

\* A hop's step keeps the ways of the window's methods, and announces their answers.
LEMMA HopKeepsWays ==
  ASSUME Requests!RelayAssumption, RelayInv, NEW r \in Requests!Requests, NEW i \in DOMAIN hops[r],
         Requests!Step(r, i) \/ Requests!DaemonTimesOut(r, i) \/ Requests!ActionEnds(r, i),
         Requests!Method(r) = "window"
  PROVE  /\ Announced(completions'[r], hops'[r])
         /\ WindowsWay(hops'[r]) \/ DaemonsWay(hops'[r])
<1> DEFINE way == hops[r]  next == hops'[r]
<1>1. /\ way \in Seq(Requests!Hop) /\ i \in 1 .. Len(way) /\ Len(way) \in Nat /\ way # <<>>
      /\ hops \in [Requests!Requests -> Seq(Requests!Hop)]
      /\ completions \in [Requests!Requests -> Nat]
      /\ \A k \in 1 .. Len(way) : way[k] \in Requests!Hop
  BY HopsOf DEF RelayInv, Requests!TypeOK
<1>2. Announced(completions[r], way) /\ (WindowsWay(way) \/ DaemonsWay(way))
  BY <1>1 DEF RelayInv, Ways
<1>3. ASSUME NEW n \in Requests!Hop, Requests!PassOn(r, i, n)
      PROVE  /\ Len(next) = Len(way) + 1 /\ next[Len(way) + 1] = n
             /\ \A k \in 1 .. Len(way) :
                  next[k] = IF k = i THEN [way[i] EXCEPT !.state = "waiting"] ELSE way[k]
  <2> DEFINE h == [way[i] EXCEPT !.state = "waiting"]
             moved == [way EXCEPT ![i] = h]
  <2>1. next = Append(moved, n)
    BY <1>1, <1>3 DEF Requests!PassOn
  <2>2. h \in Requests!Hop
    BY <1>1 DEF Requests!Hop
  <2> HIDE DEF h
  <2>3. /\ moved \in Seq(Requests!Hop) /\ Len(moved) = Len(way)
        /\ \A k \in 1 .. Len(way) : moved[k] = IF k = i THEN h ELSE way[k]
    BY <1>1, <2>2, ExceptSeq
  <2> HIDE DEF moved
  <2>4. Len(Append(moved, n)) = Len(moved) + 1 /\ Append(moved, n)[Len(moved) + 1] = n
        /\ \A k \in 1 .. Len(moved) : Append(moved, n)[k] = moved[k]
    BY <2>3, AppendProperties
  <2>5. h = [way[i] EXCEPT !.state = "waiting"]
    BY DEF h
  <2> QED
    BY <1>1, <2>1, <2>3, <2>4, <2>5
<1>4. ASSUME NEW h \in Requests!Hop, Moves(r, i, h)
      PROVE  Len(next) = Len(way) /\ \A k \in 1 .. Len(way) : next[k] = IF k = i THEN h ELSE way[k]
  <2>1. next = [way EXCEPT ![i] = h]
    BY <1>1, <1>4 DEF Moves
  <2> QED
    BY <1>1, <2>1, ExceptSeq
<1>5. ASSUME NEW a \in Requests!Answers, Requests!Answer(r, i, a)
      PROVE  /\ Len(next) = Len(way)
             /\ \A k \in 1 .. Len(way) : next[k] = IF k = i THEN Requests!Said(way[i].at, a) ELSE way[k]
  <2>1. Moves(r, i, Requests!Said(way[i].at, a))
    BY <1>1, <1>5 DEF Requests!Answer, Moves
  <2>2. Requests!Said(way[i].at, a) \in Requests!Hop
    BY <1>1 DEF Requests!Said, Requests!Hop
  <2> QED
    BY <1>4, <2>1, <2>2
<1>6. \A a, place : Requests!Said(place, a).at = place /\ Requests!Said(place, a).state = "done"
                   /\ Requests!Said(place, a).says = a
  BY DEF Requests!Said
<1>7. /\ way[i].at = "window" => (WindowsWay(way) /\ i = 1) \/ (DaemonsWay(way) /\ i = 3)
      /\ way[i].at = "invoke" => DaemonsWay(way) /\ i = 2
      /\ way[i].at = "daemon" => DaemonsWay(way) /\ i = 1
      /\ way[i].at \in {"window", "invoke", "daemon"}
  BY <1>1, <1>2, WhereHopsAre
<1>8. \A p \in BOOLEAN : Requests!Complete(r, p) =>
        completions'[r] = IF p THEN completions[r] + 1 ELSE completions[r]
  BY <1>1 DEF Requests!Complete
<1>9. {"ok", "none", "timeout"} \subseteq Requests!Answers
  BY DEF Requests!Answers, Requests!Errors
<1> HIDE DEF way, next
<1>10. ~(Requests!Forward(r, i) \/ Requests!WindowForwards(r, i) \/ Requests!DispatchViaRegistry(r, i)
         \/ Requests!DispatchUnknown(r, i) \/ Requests!ActionEnds(r, i))
  BY <1>7 DEF Requests!Forward, Requests!Picks, Requests!At, Requests!WindowForwards, way,
       Requests!DispatchViaRegistry, Requests!DispatchUnknown, Requests!ActionEnds
<1>11. CASE Requests!WindowHandles(r, i)
  <2>1. way[i].at = "window" /\ way[i].state = "queued" /\ completions' = completions
        /\ Moves(r, i, [way[i] EXCEPT !.state = "busy"])
    BY <1>1, <1>11 DEF Requests!WindowHandles, Requests!At, Moves, way
  <2>2. [way[i] EXCEPT !.state = "busy"] \in Requests!Hop
    BY <1>1 DEF Requests!Hop
  <2>3. Len(next) = Len(way) /\ next[i].at = "window" /\ next[i].state = "busy"
        /\ \A k \in 1 .. Len(way) : k # i => next[k] = way[k]
    BY <1>1, <1>4, <2>1, <2>2 DEF Requests!Hop
  <2>4. CASE WindowsWay(way) /\ i = 1
    <3>1. WindowsWay(next)
      BY <2>3, <2>4, WindowMoves DEF WindowsWay
    <3> QED
      BY <1>2, <2>1, <2>3, <2>4, <3>1 DEF Announced, Answered, way, next
  <2>5. CASE DaemonsWay(way) /\ i = 3
    <3>1. Len(way) = 3 /\ next[1] = way[1] /\ next[2] = way[2]
      BY <1>1, <2>3, <2>5 DEF DaemonsWay
    <3>2. DaemonsWay(next)
      BY <2>3, <2>5, <3>1, ThirdMoves
    <3> QED
      BY <1>2, <2>1, <3>1, <3>2 DEF Announced, way, next
  <2> QED
    BY <1>7, <2>1, <2>4, <2>5
<1>12. CASE Requests!WindowAnswers(r, i)
  <2>1. PICK a \in {"ok", "none"} : Requests!Answer(r, i, a) /\ Requests!Complete(r, a = "ok" /\ ~Requests!Silent(r, i))
    BY <1>12 DEF Requests!WindowAnswers
  <2>2. way[i].at = "window" /\ way[i].state = "busy"
    BY <1>12 DEF Requests!WindowAnswers, Requests!At, way
  <2>3. Len(next) = Len(way) /\ next[i] = Requests!Said("window", a)
        /\ \A k \in 1 .. Len(way) : k # i => next[k] = way[k]
    BY <1>1, <1>5, <1>9, <2>1, <2>2
  <2>4. CASE WindowsWay(way) /\ i = 1
    <3>1. WindowsWay(next)
      BY <1>6, <2>1, <2>3, <2>4, WindowMoves DEF WindowsWay
    <3>2. completions'[r] = IF a = "ok" THEN completions[r] + 1 ELSE completions[r]
      BY <1>1, <2>1, <2>4 DEF Requests!Silent, Requests!Complete
    <3>3. completions[r] = 0
      BY <1>2, <2>2, <2>4 DEF Announced, Answered
    <3> QED
      BY <1>6, <2>1, <2>3, <2>4, <3>1, <3>2, <3>3 DEF Announced, Answered, way, next
  <2>5. CASE DaemonsWay(way) /\ i = 3
    <3>1. Len(way) = 3 /\ next[1] = way[1] /\ next[2] = way[2]
      BY <1>1, <2>3, <2>5 DEF DaemonsWay
    <3>2. DaemonsWay(next)
      BY <1>6, <2>3, <2>5, <3>1, ThirdMoves
    <3>3. completions'[r] = completions[r]
      BY <1>1, <2>1, <2>5 DEF Requests!Silent, Requests!Complete
    <3> QED
      BY <1>2, <3>1, <3>2, <3>3 DEF Announced, way, next
  <2> QED
    BY <1>7, <2>2, <2>4, <2>5
<1>13. CASE Requests!RunInvoke(r, i)
  <2>1. Requests!New("window", "queued") \in Requests!Hop /\ Requests!New("window", "queued").at = "window"
    BY DEF Requests!New, Requests!Hop, Requests!Places, Requests!Answers
  <2>2. way[i].at = "invoke" /\ way[i].state = "queued" /\ completions' = completions
        /\ Requests!PassOn(r, i, Requests!New("window", "queued"))
    BY <1>13 DEF Requests!RunInvoke, Requests!Picks, Requests!At, way
  <2>3. DaemonsWay(way) /\ i = 2 /\ Len(way) = 2
    BY <1>1, <1>7, <2>2 DEF DaemonsWay
  <2>4. Len(next) = 3 /\ next[3].at = "window" /\ next[1] = way[1]
        /\ next[2] = [way[2] EXCEPT !.state = "waiting"]
    <3>1. /\ Len(next) = Len(way) + 1 /\ next[Len(way) + 1] = Requests!New("window", "queued")
          /\ \A k \in 1 .. Len(way) :
               next[k] = IF k = i THEN [way[i] EXCEPT !.state = "waiting"] ELSE way[k]
      BY <1>3, <2>1, <2>2
    <3>2. 1 \in 1 .. Len(way) /\ 2 \in 1 .. Len(way)
      BY <2>3
    <3> QED
      BY <2>1, <2>3, <3>1, <3>2
  <2>5. next[2].at = way[2].at /\ next[2].state = "waiting"
    BY <1>1, <2>3, <2>4 DEF Requests!Hop
  <2>6. DaemonsWay(next)
    <3>1. i \in {1, 2} /\ Len(way) = i /\ Len(next) = i + 1 /\ next[i].at = way[i].at
          /\ next[i].state = "waiting" /\ i # 1 /\ next[1] = way[1] /\ next[3].at = "window"
      BY <2>3, <2>4, <2>5
    <3> QED
      BY <2>3, <3>1, WayGrows
  <2> QED
    BY <1>2, <2>2, <2>4, <2>6 DEF Announced, way, next
<1>14. CASE Requests!DispatchViaGui(r, i)
  <2> DEFINE n == Requests!Submitted("invoke")
  <2>1. n \in Requests!Hop /\ n.at = "invoke" /\ (n.state = "done" => n.says # "none")
    BY DEF Requests!Submitted, Requests!New, Requests!Said, Requests!Hop, Requests!Places,
           Requests!Answers, Requests!Errors
  <2>2. way[i].at = "daemon" /\ way[i].state = "busy" /\ completions' = completions
        /\ Requests!PassOn(r, i, n)
    BY <1>14 DEF Requests!DispatchViaGui, Requests!At, way
  <2> HIDE DEF n
  <2>3. DaemonsWay(way) /\ i = 1 /\ Len(way) = 1
    BY <1>1, <1>7, <2>2 DEF DaemonsWay
  <2>4. Len(next) = 2 /\ next[2] = n /\ next[1] = [way[1] EXCEPT !.state = "waiting"]
    BY <1>1, <1>3, <2>1, <2>2, <2>3
  <2>5. next[1].at = way[1].at /\ next[1].state = "waiting"
    BY <1>1, <2>3, <2>4 DEF Requests!Hop
  <2>6. DaemonsWay(next)
    <3>1. next[2].at = "invoke" /\ (next[2].state = "done" => next[2].says # "none")
      BY <2>1, <2>4
    <3>2. i \in {1, 2} /\ Len(way) = i /\ Len(next) = i + 1 /\ next[i].at = way[i].at
          /\ next[i].state = "waiting" /\ i # 2
      BY <2>3, <2>4, <2>5
    <3> QED
      BY <2>3, <3>1, <3>2, WayGrows
  <2> QED
    BY <1>2, <2>2, <2>3, <2>5, <2>6 DEF Announced, Answered, way, next
<1>15. CASE Requests!Return(r, i)
  <2> DEFINE a == IF way[i].at = "invoke" /\ way[i + 1].says = "none" THEN "timeout" ELSE way[i + 1].says
  <2>1. way[i].state = "waiting" /\ i < Len(way) /\ way[i + 1].state = "done"
        /\ Requests!Answer(r, i, a) /\ Requests!Complete(r, way[i].at = "daemon")
    BY <1>15 DEF Requests!Return, way
  <2>2. DaemonsWay(way) /\ i \in {1, 2}
    <3>1. ~WindowsWay(way)
      BY <1>1, <2>1 DEF WindowsWay
    <3>2. DaemonsWay(way) /\ Len(way) \in 1 .. 3
      BY <1>2, <3>1 DEF DaemonsWay
    <3>3. i < Len(way)
      BY <2>1
    <3>4. i \in Nat /\ 1 <= i
      BY <1>1
    <3>5. \A n \in 1 .. 3 : i < n => i \in {1, 2}
      BY <3>4
    <3> QED
      BY <3>2, <3>3, <3>5
  <2>3. a # "none" /\ a \in Requests!Answers
    <3>1. i + 1 \in 1 .. Len(way) /\ way[i + 1].says \in Requests!Answers
      BY <1>1, <2>1 DEF Requests!Hop
    <3> QED
      BY <1>9, <2>1, <2>2, <3>1 DEF DaemonsWay
  <2> HIDE DEF a
  <2>4. Len(next) = Len(way) /\ next[i] = Requests!Said(way[i].at, a)
        /\ \A k \in 1 .. Len(way) : k # i => next[k] = way[k]
    BY <1>1, <1>5, <2>1, <2>3
  <2>5. CASE i = 1
    <3>1. way[1].at = "daemon"
      BY <2>2 DEF DaemonsWay
    <3>2. DaemonsWay(next)
      <4>1. next[1].at = "daemon" /\ next[1].state = "done"
        BY <1>6, <2>4, <2>5, <3>1
      <4>2. \A k \in {2, 3} : k <= Len(way) => next[k] = way[k]
        BY <1>1, <2>4, <2>5
      <4> QED
        BY <2>2, <2>4, <4>1, <4>2, FirstMoves
    <3>3. completions'[r] = completions[r] + 1 /\ completions[r] = 0
      BY <1>2, <1>8, <2>1, <2>5, <3>1 DEF Announced, Answered
    <3> QED
      BY <1>6, <2>3, <2>4, <2>5, <3>2, <3>3 DEF Announced, Answered, way, next
  <2>6. CASE i = 2
    <3>1. way[2].at = "invoke"
      BY <2>1, <2>2, <2>6 DEF DaemonsWay
    <3>2. next[1] = way[1] /\ (3 <= Len(way) => next[3] = way[3])
      BY <1>1, <2>4, <2>6
    <3>3. DaemonsWay(next)
      <4>1. next[2].at = "invoke" /\ next[2].state = "done" /\ next[2].says # "none"
        BY <1>6, <2>3, <2>4, <2>6, <3>1
      <4>2. Len(way) > 1
        BY <1>1, <2>1, <2>6
      <4> QED
        BY <2>2, <2>4, <3>2, <4>1, <4>2, SecondMoves
    <3>4. completions'[r] = completions[r]
      BY <1>8, <2>1, <2>6, <3>1
    <3> QED
      BY <1>2, <3>2, <3>3, <3>4 DEF Announced, way, next
  <2> QED
    BY <2>2, <2>5, <2>6
<1>16. CASE Requests!DaemonTimesOut(r, i)
  <2>1. way[i].at = "daemon" /\ way[i].state = "waiting" /\ Requests!Answer(r, i, "timeout")
        /\ Requests!Complete(r, TRUE)
    BY <1>16 DEF Requests!DaemonTimesOut, Requests!TimesOut, Requests!At, way
  <2>2. DaemonsWay(way) /\ i = 1
    BY <1>7, <2>1
  <2>3. Len(next) = Len(way) /\ next[1] = Requests!Said("daemon", "timeout")
        /\ \A k \in 1 .. Len(way) : k # 1 => next[k] = way[k]
    BY <1>1, <1>5, <1>9, <2>1, <2>2
  <2>4. DaemonsWay(next)
    <3>1. next[1].at = "daemon" /\ next[1].state = "done"
      BY <1>6, <2>3
    <3>2. \A k \in {2, 3} : k <= Len(way) => next[k] = way[k]
      BY <1>1, <2>3
    <3> QED
      BY <2>2, <2>3, <3>1, <3>2, FirstMoves
  <2>5. completions'[r] = completions[r] + 1 /\ completions[r] = 0
    BY <1>2, <1>8, <2>1, <2>2 DEF Announced, Answered
  <2> QED
    BY <1>6, <2>3, <2>4, <2>5 DEF Announced, Answered, way, next
<1> QED
  BY <1>10, <1>11, <1>12, <1>13, <1>14, <1>15, <1>16 DEF Requests!Step

\* A connection's thread takes up its next request.
LEMMA TakeUpStep ==
  ASSUME Requests!RelayAssumption, RelayInv, NEW c \in Connections, Requests!TakeUp(c)
  PROVE  RelayInv'
<1> DEFINE r == <<c, served[c] + 1>>
           hop == Requests!New(Doors[c], IF Doors[c] = "window" THEN "queued" ELSE "busy")
<1> USE DEF RelayInv
<1>1. /\ served[c] = Len(answers[c]) /\ served[c] < Len(asked[c])
      /\ served' = [served EXCEPT ![c] = served[c] + 1] /\ hops' = [hops EXCEPT ![r] = <<hop>>]
      /\ asked' = asked /\ answers' = answers /\ closed' = closed /\ completions' = completions
      /\ daemonUp' = daemonUp
  BY DEF Requests!TakeUp, Requests!Idle, Requests!TypeOK
<1>2. served[c] \in Nat /\ Len(asked[c]) \in Nat
  BY Numbers DEF Requests!TypeOK
<1>3. r \in Requests!Requests /\ Requests!Requests' = Requests!Requests
  BY <1>1, <1>2, Numbers DEF Requests!Requests
<1>4. hops[r] = <<>>
  BY <1>2, <1>3 DEF InTurn
<1>5. Doors[c] \in {"window", "daemon"}
  BY DEF Requests!RelayAssumption
<1>6. hop \in Requests!Hop /\ hop.at = Doors[c] /\ hop.state \in {"queued", "busy"}
      /\ (Doors[c] = "window" => hop.state = "queued")
  BY <1>5 DEF Requests!New, Requests!Hop, Requests!Places, Requests!Answers
<1> HIDE DEF hop
<1>7. <<hop>> \in Seq(Requests!Hop) /\ Len(<<hop>>) = 1 /\ <<hop>>[1] = hop /\ <<hop>> # <<>>
  BY <1>6
<1>8. hops'[r] = <<hop>> /\ \A q \in Requests!Requests : q # r => hops'[q] = hops[q]
  BY <1>1, <1>3 DEF Requests!TypeOK
<1>9. Requests!TypeOK'
  <2>1. hops' \in [Requests!Requests -> Seq(Requests!Hop)]
    BY <1>1, <1>3, <1>7 DEF Requests!TypeOK
  <2>2. \A q \in Requests!Requests : Len(hops'[q]) <= MaxHops
    <3>1. 1 <= MaxHops
      BY DEF Requests!RelayAssumption
    <3>2. Len(hops'[r]) <= MaxHops
      BY <1>7, <1>8, <3>1
    <3> QED
      BY <1>8, <3>2 DEF Requests!TypeOK
  <2>3. served' \in [Connections -> Nat] /\ \A d \in Connections : served'[d] <= Len(asked[d])
    BY <1>1, <1>2 DEF Requests!TypeOK
  <2> QED
    BY <1>1, <1>3, <2>1, <2>2, <2>3 DEF Requests!TypeOK
<1>10. InTurn'
  <2>1. \A d \in Connections : served'[d] \in {Len(answers[d]), Len(answers[d]) + 1}
    BY <1>1, <1>2 DEF InTurn, Requests!TypeOK
  <2>2. \A q \in Requests!Requests : q[2] <= served'[q[1]] <=> hops'[q] # <<>>
    <3> SUFFICES ASSUME NEW q \in Requests!Requests PROVE q[2] <= served'[q[1]] <=> hops'[q] # <<>>
      OBVIOUS
    <3>1. q = <<q[1], q[2]>> /\ q[1] \in Connections /\ q[2] \in Nat
      BY Numbers
    <3>2. q[2] <= served[q[1]] <=> hops[q] # <<>>
      BY DEF InTurn
    <3>3. CASE q = r
      BY <1>1, <1>2, <1>7, <1>8, <3>3 DEF Requests!TypeOK
    <3>4. CASE q # r /\ q[1] = c
      BY <1>1, <1>2, <1>8, <3>1, <3>2, <3>4 DEF Requests!TypeOK
    <3>5. CASE q[1] # c
      BY <1>1, <1>8, <3>1, <3>2, <3>5 DEF Requests!TypeOK
    <3> QED
      BY <3>3, <3>4, <3>5
  <2> QED
    BY <1>1, <1>3, <2>1, <2>2 DEF InTurn, Requests!OwnAnswers
<1>11. Written'
  <2> SUFFICES ASSUME NEW d \in Connections, NEW j \in DOMAIN answers[d]
               PROVE  hops'[<<d, j>>] = hops[<<d, j>>]
    BY <1>1 DEF Written
  <2>1. DOMAIN answers[d] = 1 .. Len(answers[d]) /\ Len(answers[d]) \in Nat /\ Len(asked[d]) \in Nat
        /\ \A k \in 1 .. Len(asked[d]) : <<d, k>> \in Requests!Requests
    BY Numbers
  <2>2. Len(answers[d]) <= served[d] /\ served[d] <= Len(asked[d]) /\ served[d] \in Nat
    BY <2>1 DEF InTurn, Requests!TypeOK
  <2>3. <<d, j>> \in Requests!Requests /\ <<d, j>> # r
    BY <1>1, <1>2, <2>1, <2>2
  <2> QED
    BY <1>8, <2>3
<1>12. Ways'
  <2> SUFFICES ASSUME NEW q \in Requests!Requests, Requests!Method(q) = "window"
               PROVE  IF hops'[q] = <<>> THEN completions'[q] = 0
                      ELSE /\ Announced(completions'[q], hops'[q])
                           /\ WindowsWay(hops'[q]) \/ DaemonsWay(hops'[q])
    BY <1>1, <1>3 DEF Ways, Requests!Method
  <2>1. CASE q # r
    BY <1>1, <1>8, <2>1 DEF Ways
  <2>2. CASE q = r
    <3>1. completions'[r] = 0
      BY <1>1, <1>4, <2>2 DEF Ways
    <3>2. Announced(completions'[r], <<hop>>)
      BY <1>6, <1>7, <3>1 DEF Announced, Answered
    <3>3. WindowsWay(<<hop>>) \/ DaemonsWay(<<hop>>)
      BY <1>5, <1>6, <1>7 DEF WindowsWay, DaemonsWay
    <3> QED
      BY <1>7, <1>8, <2>2, <3>2, <3>3
  <2> QED
    BY <2>1, <2>2
<1> QED
  BY <1>9, <1>10, <1>11, <1>12

\* And writes its answer.
LEMMA WriteBackStep ==
  ASSUME Requests!RelayAssumption, RelayInv, NEW c \in Connections, Requests!WriteBack(c)
  PROVE  RelayInv'
<1> DEFINE r == <<c, served[c]>>
<1> USE DEF RelayInv
<1>1. served[c] # Len(answers[c]) /\ asked' = asked /\ served' = served /\ hops' = hops
      /\ completions' = completions /\ daemonUp' = daemonUp
  BY DEF Requests!WriteBack, Requests!Idle
<1>2. Requests!Requests' = Requests!Requests
  BY <1>1 DEF Requests!Requests
<1>3. served[c] = Len(answers[c]) + 1 /\ Len(answers[c]) \in Nat /\ DOMAIN answers[c] = 1 .. Len(answers[c])
      /\ Len(asked[c]) \in Nat /\ served[c] <= Len(asked[c])
  BY <1>1, Numbers DEF InTurn, Requests!TypeOK
<1>4. r \in Requests!Requests /\ hops[r] # <<>>
  BY <1>3, Numbers DEF InTurn
<1>5. hops[r][1] \in Requests!Hop
  BY <1>4, HopsOf
<1>6. CASE UNCHANGED answers /\ closed' = closed \cup {c}
  BY <1>1, <1>2, <1>6 DEF Requests!TypeOK, InTurn, Requests!OwnAnswers, Written, Ways, Requests!Method
<1>7. CASE /\ hops[r][1].state = "done" /\ hops[r][1].says # "none" /\ closed' = closed
           /\ answers' = [answers EXCEPT ![c] = Append(@, <<r, hops[r][1].says>>)]
  <2> DEFINE told == <<r, hops[r][1].says>>
             longer == Append(answers[c], told)
  <2>1. told \in Requests!Requests \X Requests!Answers
    BY <1>4, <1>5 DEF Requests!Hop
  <2>2. answers \in [Connections -> Seq(Requests!Requests \X Requests!Answers)]
    BY DEF Requests!TypeOK
  <2>3. answers' = [answers EXCEPT ![c] = longer]
    BY <1>7
  <2>4. told[1] = r
    OBVIOUS
  <2> HIDE DEF told
  <2>5. /\ longer \in Seq(Requests!Requests \X Requests!Answers) /\ Len(longer) = Len(answers[c]) + 1
        /\ \A k \in 1 .. Len(answers[c]) : longer[k] = answers[c][k]
        /\ longer[Len(answers[c]) + 1] = told
    BY <2>1, <2>2, AppendProperties
  <2>6. DOMAIN longer = 1 .. Len(answers[c]) + 1
    BY <2>5, LenProperties
  <2> HIDE DEF longer
  <2>7. Requests!TypeOK'
    BY <1>1, <1>2, <1>7, <2>2, <2>3, <2>5 DEF Requests!TypeOK
  <2>8. answers'[c] = longer /\ \A d \in Connections : d # c => answers'[d] = answers[d]
    BY <2>2, <2>3
  <2>9. InTurn'
    <3>1. \A d \in Connections : served[d] \in {Len(answers'[d]), Len(answers'[d]) + 1}
      BY <1>3, <2>5, <2>8 DEF InTurn
    <3>2. Requests!OwnAnswers'
      <4> SUFFICES ASSUME NEW d \in Connections, NEW j \in DOMAIN answers'[d]
                   PROVE  answers'[d][j][1] = <<d, j>>
        BY DEF Requests!OwnAnswers
      <4>1. CASE d # c
        BY <2>8, <4>1 DEF InTurn, Requests!OwnAnswers
      <4>2. CASE d = c /\ j \in 1 .. Len(answers[c])
        BY <1>3, <2>5, <2>8, <4>2 DEF InTurn, Requests!OwnAnswers
      <4>3. CASE d = c /\ j = Len(answers[c]) + 1
        BY <1>3, <2>4, <2>5, <2>8, <4>3
      <4> QED
        BY <1>3, <2>6, <2>8, <4>1, <4>2, <4>3
    <3> QED
      BY <1>1, <1>2, <3>1, <3>2 DEF InTurn
  <2>10. Written'
    <3> SUFFICES ASSUME NEW d \in Connections, NEW j \in DOMAIN answers'[d]
                 PROVE  hops[<<d, j>>][1].state = "done" /\ hops[<<d, j>>][1].says # "none"
      BY <1>1 DEF Written
    <3>1. CASE d # c
      BY <2>8, <3>1 DEF Written
    <3>2. CASE d = c /\ j \in 1 .. Len(answers[c])
      BY <1>3, <3>2 DEF Written
    <3>3. CASE d = c /\ j = Len(answers[c]) + 1
      BY <1>3, <1>7, <3>3
    <3> QED
      BY <1>3, <2>6, <2>8, <3>1, <3>2, <3>3
  <2>11. Ways'
    BY <1>1, <1>2 DEF Ways, Requests!Method
  <2> QED
    BY <2>7, <2>9, <2>10, <2>11
<1> QED
  BY <1>6, <1>7 DEF Requests!WriteBack, Requests!Heard

\* The daemon goes: what it had not answered is not answered.
LEMMA DaemonEndsStep ==
  ASSUME Requests!RelayAssumption, RelayInv, Requests!DaemonEnds
  PROVE  RelayInv'
<1> DEFINE ended(r) == [i \in DOMAIN hops[r] |->
             IF hops[r][i].at = "daemon" /\ hops[r][i].state # "done"
             THEN Requests!Said("daemon", IF i = 1 THEN "none" ELSE "no_daemon") ELSE hops[r][i]]
<1> USE DEF RelayInv
<1>1. /\ hops' = [r \in Requests!Requests |-> ended(r)] /\ daemonUp' = FALSE
      /\ asked' = asked /\ served' = served /\ answers' = answers /\ closed' = closed
      /\ completions' = completions
  BY DEF Requests!DaemonEnds
<1>2. Requests!Requests' = Requests!Requests
  BY <1>1 DEF Requests!Requests
<1>3. ASSUME NEW r \in Requests!Requests
      PROVE  /\ ended(r) \in Seq(Requests!Hop) /\ Len(ended(r)) = Len(hops[r])
             /\ \A i \in 1 .. Len(hops[r]) :
                  /\ ended(r)[i].at = hops[r][i].at
                  /\ ended(r)[i] = hops[r][i]
                     \/ /\ hops[r][i].at = "daemon" /\ hops[r][i].state # "done"
                        /\ ended(r)[i].state = "done" /\ (i = 1 => ended(r)[i].says = "none")
  <2>1. hops[r] \in Seq(Requests!Hop) /\ Len(hops[r]) \in Nat /\ DOMAIN hops[r] = 1 .. Len(hops[r])
        /\ \A i \in 1 .. Len(hops[r]) : hops[r][i] \in Requests!Hop
    BY <1>3, HopsOf
  <2>2. \A i \in 1 .. Len(hops[r]) : ended(r)[i] \in Requests!Hop
    BY <2>1 DEF Requests!Said, Requests!Hop, Requests!Places, Requests!Answers, Requests!Errors
  <2>3. ended(r) \in [1 .. Len(hops[r]) -> Requests!Hop]
    BY <2>1, <2>2
  <2>4. ended(r) \in Seq(Requests!Hop)
    BY <2>1, <2>3, SeqDef
  <2>5. Len(ended(r)) = Len(hops[r])
    BY <2>1, <2>3, <2>4, LenProperties
  <2>6. \A i \in 1 .. Len(hops[r]) :
          ended(r)[i] = IF hops[r][i].at = "daemon" /\ hops[r][i].state # "done"
                        THEN Requests!Said("daemon", IF i = 1 THEN "none" ELSE "no_daemon") ELSE hops[r][i]
    BY <2>1
  <2> QED
    BY <2>4, <2>5, <2>6 DEF Requests!Said
<1> HIDE DEF ended
<1>4. \A r \in Requests!Requests : hops'[r] = ended(r)
  BY <1>1
<1>5. \A r \in Requests!Requests : hops[r] \in Seq(Requests!Hop) /\ Len(hops[r]) \in Nat
        /\ (hops[r] = <<>> <=> Len(hops[r]) = 0)
  BY HopsOf
<1>6. \A r \in Requests!Requests : hops'[r] = <<>> <=> hops[r] = <<>>
  BY <1>3, <1>4, <1>5, EmptySeq
<1>7. Requests!TypeOK'
  BY <1>1, <1>2, <1>3, <1>4 DEF Requests!TypeOK
<1>8. InTurn'
  BY <1>1, <1>2, <1>6 DEF InTurn, Requests!OwnAnswers
<1>9. Written'
  <2> SUFFICES ASSUME NEW d \in Connections, NEW j \in DOMAIN answers[d]
               PROVE  hops'[<<d, j>>][1] = hops[<<d, j>>][1]
    BY <1>1 DEF Written
  <2>1. DOMAIN answers[d] = 1 .. Len(answers[d]) /\ Len(answers[d]) \in Nat /\ Len(asked[d]) \in Nat
        /\ \A k \in 1 .. Len(asked[d]) : <<d, k>> \in Requests!Requests
    BY Numbers
  <2>2. Len(answers[d]) <= served[d] /\ served[d] <= Len(asked[d]) /\ served[d] \in Nat
    BY <2>1 DEF InTurn, Requests!TypeOK
  <2>3. <<d, j>> \in Requests!Requests /\ hops[<<d, j>>] # <<>>
    BY <2>1, <2>2 DEF InTurn
  <2>4. 1 \in 1 .. Len(hops[<<d, j>>]) /\ hops[<<d, j>>][1].state = "done"
    BY <1>5, <2>3 DEF Written
  <2> QED
    BY <1>3, <1>4, <2>3, <2>4
<1>10. Ways'
  <2> SUFFICES ASSUME NEW r \in Requests!Requests, Requests!Method(r) = "window", hops[r] # <<>>
               PROVE  /\ Announced(completions[r], ended(r))
                      /\ WindowsWay(ended(r)) \/ DaemonsWay(ended(r))
    BY <1>1, <1>2, <1>4, <1>6 DEF Ways, Requests!Method
  <2>1. Announced(completions[r], hops[r]) /\ (WindowsWay(hops[r]) \/ DaemonsWay(hops[r]))
    BY DEF Ways
  <2>2. Len(ended(r)) = Len(hops[r]) /\ Len(hops[r]) \in Nat /\ Len(hops[r]) >= 1
    BY <1>3, <1>5
  <2>3. ended(r)[1] = hops[r][1]
        \/ /\ hops[r][1].at = "daemon" /\ hops[r][1].state # "done" /\ ended(r)[1].at = "daemon"
           /\ ended(r)[1].state = "done" /\ ended(r)[1].says = "none"
    BY <1>3, <2>2
  <2>4. \A i \in {2, 3} : i <= Len(hops[r]) /\ hops[r][i].at # "daemon" => ended(r)[i] = hops[r][i]
    BY <1>3, <2>2
  <2>5. Announced(completions[r], ended(r))
    BY <2>1, <2>3 DEF Announced, Answered
  <2>6. CASE WindowsWay(hops[r])
    BY <2>2, <2>3, <2>5, <2>6 DEF WindowsWay
  <2>7. CASE DaemonsWay(hops[r])
    <3>1. \A i \in {2, 3} : i <= Len(hops[r]) => ended(r)[i] = hops[r][i]
      BY <2>2, <2>4, <2>7 DEF DaemonsWay
    <3> QED
      BY <2>2, <2>3, <2>5, <2>7, <3>1 DEF DaemonsWay
  <2> QED
    BY <2>1, <2>5, <2>6, <2>7
<1> QED
  BY <1>7, <1>8, <1>9, <1>10

\* A step keeps the invariant.
LEMMA RelayNext ==
  ASSUME Requests!RelayAssumption, RelayInv, [Requests!Next]_(Requests!vars)
  PROVE  RelayInv'
<1>1. ASSUME NEW r \in Requests!Requests, NEW i \in DOMAIN hops[r],
             Requests!Step(r, i) \/ Requests!DaemonTimesOut(r, i) \/ Requests!ActionEnds(r, i)
      PROVE  RelayInv'
  <2>1. Requests!TypeOK' /\ InTurn' /\ Written' /\ Requests!Requests' = Requests!Requests
    BY <1>1, HopKeepsTurns
  <2>2. /\ HopAside(r) /\ \A q \in Requests!Requests : q # r => hops'[q] = hops[q]
        /\ hops[r] # <<>> /\ hops'[r] # <<>>
    BY <1>1, HopStep, HopsAfter DEF RelayInv
  <2>3. \A q \in Requests!Requests : q # r => completions'[q] = completions[q]
    BY <2>2 DEF HopAside, RelayInv, Requests!TypeOK
  <2>4. Requests!Method(r) = "window" =>
          Announced(completions'[r], hops'[r]) /\ (WindowsWay(hops'[r]) \/ DaemonsWay(hops'[r]))
    BY <1>1, HopKeepsWays
  <2>5. asked' = asked
    BY <2>2 DEF HopAside
  <2>6. Ways'
    BY <2>1, <2>2, <2>3, <2>4, <2>5 DEF RelayInv, Ways, Requests!Method
  <2> QED
    BY <2>1, <2>6 DEF RelayInv
<1>2. CASE UNCHANGED Requests!vars
  BY <1>2 DEF Requests!vars, RelayInv, Requests!TypeOK, Requests!Requests, InTurn,
       Requests!OwnAnswers, Written, Ways, Requests!Method
<1> QED
  BY <1>1, <1>2, TakeUpStep, WriteBackStep, DaemonEndsStep
     DEF Requests!Next, Requests!Work, Requests!Expire

-----------------------------------------------------------------------------
\* What each of the three keeps, when the behaviour is its.
Answering ==
  /\ part = "relay" => RelayInv
  /\ part = "bridge" => PagesInv
  /\ part = "door" => Door!IInv

\* Every client gets the answers to its own questions, in their order, what a method of the
\* window was answered has been announced once, a page is not told that its service timed out
\* while the supervisor would still have spoken, and a connection leaves no client behind and
\* reads no event twice: for any number of clients, questions, calls, lines and events.
THEOREM Answers == Spec => []OwnAnswers
<1>1. Init => Answering
  BY RelayInit, PagesInit, Door!InitInvariant, DesktopAssumption DEF Init, Answering, DesktopAssumption
<1>2. Answering /\ [Next]_vars => Answering'
  <2> SUFFICES ASSUME Answering, [Next]_vars PROVE Answering'
    OBVIOUS
  <2>1. ASSUME part = "relay" PROVE RelayInv'
    BY <2>1, Parts, RelayNext, DesktopAssumption DEF Answering, DesktopAssumption
  <2>2. ASSUME part = "bridge" PROVE PagesInv'
    BY <2>2, Parts, PagesNext, DesktopAssumption DEF Answering, DesktopAssumption
  <2>3. ASSUME part = "door" PROVE Door!IInv'
    BY <2>3, Parts, Door!Step, DesktopAssumption DEF Answering, DesktopAssumption
  <2> QED
    BY <2>1, <2>2, <2>3, Parts DEF Answering
<1>3. Answering => OwnAnswers
  <2> SUFFICES ASSUME Answering PROVE OwnAnswers
    OBVIOUS
  <2>1. ASSUME RelayInv PROVE Requests!AnnouncedOnce
    <3> SUFFICES ASSUME NEW c \in Connections, NEW j \in DOMAIN answers[c], asked[c][j] = "window"
                 PROVE  completions[<<c, j>>] = 1
      BY DEF Requests!AnnouncedOnce
    <3>1. DOMAIN answers[c] = 1 .. Len(answers[c]) /\ Len(answers[c]) \in Nat /\ Len(asked[c]) \in Nat
          /\ \A k \in 1 .. Len(asked[c]) : <<c, k>> \in Requests!Requests
      BY <2>1, Numbers DEF RelayInv
    <3>2. Len(answers[c]) <= served[c] /\ served[c] <= Len(asked[c]) /\ served[c] \in Nat
      BY <2>1, <3>1 DEF RelayInv, InTurn, Requests!TypeOK
    <3>3. <<c, j>> \in Requests!Requests /\ hops[<<c, j>>] # <<>> /\ Requests!Method(<<c, j>>) = "window"
      BY <2>1, <3>1, <3>2 DEF RelayInv, InTurn, Requests!Method
    <3> QED
      BY <2>1, <3>3 DEF RelayInv, Ways, Written, Announced, Answered
  <2>2. part = "relay" => Requests!TypeOK /\ Requests!OwnAnswers /\ Requests!AnnouncedOnce
    BY <2>1 DEF Answering, RelayInv, InTurn
  <2>3. part = "bridge" => Pages!TypeOK /\ Pages!SupervisorSpeaksFirst
    BY DEF Answering, PagesInv
  <2>4. part = "door" => Door!TypeOK /\ Door!NoOrphans /\ Door!EventsOnce
    BY Door!Promises DEF Answering, Door!IInv
  <2> QED
    BY <2>2, <2>3, <2>4 DEF OwnAnswers
<1> QED
  BY <1>1, <1>2, <1>3, PTL DEF Spec

-----------------------------------------------------------------------------
(* EventBus: sequences that hold a stream *)

\* Head and tail change sides of a concatenation.
LEMMA Passing ==
  ASSUME NEW S, NEW a \in Seq(S), NEW q \in Seq(S), q # <<>>
  PROVE  Append(a, Head(q)) \o Tail(q) = a \o q
<1>1. /\ Head(q) \in S /\ Tail(q) \in Seq(S) /\ Len(Tail(q)) = Len(q) - 1
      /\ \A i \in 1 .. Len(Tail(q)) : Tail(q)[i] = q[i + 1]
      /\ Len(q) \in Nat /\ Len(q) > 0 /\ Head(q) = q[1] /\ Len(a) \in Nat
  BY HeadTailProperties, LenProperties, EmptySeq
<1>2. /\ Append(a, Head(q)) \in Seq(S) /\ Len(Append(a, Head(q))) = Len(a) + 1
      /\ \A i \in 1 .. Len(a) : Append(a, Head(q))[i] = a[i]
      /\ Append(a, Head(q))[Len(a) + 1] = Head(q)
  BY <1>1, AppendProperties
<1>3. Append(a, Head(q)) \o Tail(q) = a \o q
  <2>1. PICK s \in Seq(S) : s = Append(a, Head(q)) \o Tail(q)
    BY <1>1, <1>2, ConcatProperties
  <2>2. PICK t \in Seq(S) : t = a \o q
    BY ConcatProperties
  <2>3. /\ Len(s) = Len(a) + Len(q)
        /\ \A i \in 1 .. Len(a) + Len(q) :
             s[i] = IF i <= Len(a) + 1 THEN Append(a, Head(q))[i] ELSE Tail(q)[i - (Len(a) + 1)]
    BY <1>1, <1>2, <2>1, ConcatProperties
  <2>4. /\ Len(t) = Len(a) + Len(q)
        /\ \A i \in 1 .. Len(a) + Len(q) : t[i] = IF i <= Len(a) THEN a[i] ELSE q[i - Len(a)]
    BY <1>1, <2>2, ConcatProperties
  <2>5. \A i \in 1 .. Len(s) : s[i] = t[i]
    <3> SUFFICES ASSUME NEW i \in 1 .. Len(a) + Len(q) PROVE s[i] = t[i]
      BY <2>3
    <3>1. CASE i <= Len(a)
      BY <1>1, <1>2, <2>3, <2>4, <3>1
    <3>2. CASE i = Len(a) + 1
      BY <1>1, <1>2, <2>3, <2>4, <3>2
    <3>3. CASE i > Len(a) + 1
      <4>1. /\ i - (Len(a) + 1) \in 1 .. Len(Tail(q)) /\ (i - (Len(a) + 1)) + 1 = i - Len(a)
        BY <1>1, <3>3
      <4> QED
        BY <1>1, <2>3, <2>4, <3>3, <4>1
    <3> QED
      BY <1>1, <3>1, <3>2, <3>3
  <2> QED
    BY <2>1, <2>2, <2>3, <2>4, <2>5, SeqEqual
<1> QED
  BY <1>3

\* The first of what is in front is the first of the whole.
LEMMA PassingOn ==
  ASSUME NEW S, NEW b \in Seq(S), NEW q \in Seq(S), q # <<>>
  PROVE  Tail(q) \o b = Tail(q \o b) /\ q \o b # <<>> /\ Head(q \o b) = Head(q)
<1>1. /\ Tail(q) \in Seq(S) /\ Len(Tail(q)) = Len(q) - 1
      /\ \A i \in 1 .. Len(Tail(q)) : Tail(q)[i] = q[i + 1]
      /\ Len(q) \in Nat /\ Len(q) > 0 /\ Head(q) = q[1]
  BY HeadTailProperties, LenProperties, EmptySeq
<1>2. PICK t \in Seq(S) : t = q \o b
  BY ConcatProperties
<1>3. PICK s \in Seq(S) : s = Tail(q) \o b
  BY <1>1, ConcatProperties
<1>4. Len(b) \in Nat
  BY LenProperties
<1>5. /\ Len(t) = Len(q) + Len(b)
      /\ \A i \in 1 .. Len(q) + Len(b) : t[i] = IF i <= Len(q) THEN q[i] ELSE b[i - Len(q)]
  BY <1>2, ConcatProperties
<1>6. /\ Len(s) = Len(q) - 1 + Len(b)
      /\ \A i \in 1 .. Len(q) - 1 + Len(b) :
           s[i] = IF i <= Len(q) - 1 THEN Tail(q)[i] ELSE b[i - (Len(q) - 1)]
  BY <1>1, <1>3, ConcatProperties
<1>7. t # <<>> /\ Head(t) = q[1]
  BY <1>1, <1>4, <1>5, EmptySeq
<1>8. /\ Tail(t) \in Seq(S) /\ Len(Tail(t)) = Len(t) - 1
      /\ \A i \in 1 .. Len(Tail(t)) : Tail(t)[i] = t[i + 1]
  BY <1>7, HeadTailProperties
<1>9. \A i \in 1 .. Len(s) : s[i] = Tail(t)[i]
  <2> SUFFICES ASSUME NEW i \in 1 .. Len(q) - 1 + Len(b) PROVE s[i] = Tail(t)[i]
    BY <1>6
  <2>1. i \in 1 .. Len(Tail(t)) /\ i + 1 \in 1 .. Len(q) + Len(b)
    BY <1>1, <1>4, <1>5, <1>8
  <2>2. (i + 1) - Len(q) = i - (Len(q) - 1) /\ (i + 1 <= Len(q) <=> i <= Len(q) - 1)
    BY <1>1
  <2>3. i <= Len(q) - 1 => i \in 1 .. Len(Tail(q))
    BY <1>1
  <2> QED
    BY <1>1, <1>5, <1>6, <1>8, <2>1, <2>2, <2>3
<1> QED
  BY <1>1, <1>2, <1>3, <1>4, <1>5, <1>6, <1>7, <1>8, <1>9, SeqEqual

\* What is queued at the end is at the end of the whole.
LEMMA Trailing ==
  ASSUME NEW S, NEW a \in Seq(S), NEW q \in Seq(S), NEW e \in S
  PROVE  a \o Append(q, e) = Append(a \o q, e)
<1>1. <<e>> \in Seq(S) /\ a \o q \in Seq(S)
  BY ConcatProperties
<1>2. Append(q, e) = q \o <<e>> /\ Append(a \o q, e) = (a \o q) \o <<e>>
  BY <1>1, AppendIsConcat
<1> QED
  BY <1>1, <1>2, ConcatAssociative

-----------------------------------------------------------------------------
(* EventBus: what a stream holds *)

\* It always holds no events at all.
LEMMA HoldsNone ==
  ASSUME NEW s, NEW w PROVE Streams!Holds(s, <<>>, w)
<1>1. [i \in 1 .. 0 |-> 1] \in [1 .. Len(<<>>) -> 1 .. Len(s)] /\ 1 .. Len(<<>>) = {}
  OBVIOUS
<1> QED
  BY <1>1 DEF Streams!Holds

\* One more, if it is one more in the stream, and as many, if what is new is not wanted.
LEMMA HoldsMore ==
  ASSUME NEW S, NEW s \in Seq(S), NEW t \in Seq(S), NEW w, NEW e \in S, Streams!Holds(s, t, w)
  PROVE  /\ Streams!Holds(Append(s, e), Append(t, e), w)
         /\ e.kind \notin w => Streams!Holds(Append(s, e), t, w)
<1>1. PICK p \in [1 .. Len(t) -> 1 .. Len(s)] :
        /\ \A i \in 1 .. Len(t) : s[p[i]] = t[i]
        /\ \A i, j \in 1 .. Len(t) : i < j => p[i] < p[j]
        /\ \A k \in 1 .. Len(s) : t # <<>> /\ k > p[1] /\ s[k].kind \in w => \E i \in 1 .. Len(t) : p[i] = k
  BY DEF Streams!Holds
<1>2. PICK n \in Nat : n = Len(s)
  BY LenProperties
<1>3. PICK m \in Nat : m = Len(t)
  BY LenProperties
<1>4. PICK a \in Seq(S) : a = Append(s, e)
  BY AppendProperties
<1>5. PICK b \in Seq(S) : b = Append(t, e)
  BY AppendProperties
<1>6. Len(a) = n + 1 /\ a[n + 1] = e /\ \A i \in 1 .. n : a[i] = s[i]
  BY <1>2, <1>4, AppendProperties
<1>7. Len(b) = m + 1 /\ b[m + 1] = e /\ \A i \in 1 .. m : b[i] = t[i]
  BY <1>3, <1>5, AppendProperties
<1>8. t # <<>> <=> m > 0
  BY <1>3, EmptySeq
<1>9. \A i \in 1 .. m : p[i] \in 1 .. n /\ s[p[i]] = t[i]
  BY <1>1, <1>2, <1>3
<1>10. Streams!Holds(a, b, w)
  <2>1. PICK g : g = [i \in 1 .. m + 1 |-> IF i = m + 1 THEN n + 1 ELSE p[i]]
    OBVIOUS
  <2>2. /\ g \in [1 .. m + 1 -> 1 .. n + 1] /\ g[m + 1] = n + 1
        /\ \A i \in 1 .. m : g[i] = p[i]
    <3>1. \A i \in 1 .. m + 1 : g[i] = IF i = m + 1 THEN n + 1 ELSE p[i]
      BY <2>1
    <3>2. \A i \in 1 .. m : i \in 1 .. m + 1 /\ i # m + 1
      OBVIOUS
    <3>3. m + 1 \in 1 .. m + 1 /\ \A i \in 1 .. m + 1 : i = m + 1 \/ i \in 1 .. m
      OBVIOUS
    <3>4. \A i \in 1 .. m + 1 : g[i] \in 1 .. n + 1
      BY <1>9, <3>1, <3>3
    <3> QED
      BY <2>1, <3>1, <3>2, <3>3, <3>4
  <2>3. \A i \in 1 .. m + 1 : a[g[i]] = b[i]
    <3> SUFFICES ASSUME NEW i \in 1 .. m + 1 PROVE a[g[i]] = b[i]
      OBVIOUS
    <3>1. CASE i = m + 1
      BY <1>6, <1>7, <2>2, <3>1
    <3>2. CASE i \in 1 .. m
      <4>1. g[i] = p[i] /\ p[i] \in 1 .. n /\ s[p[i]] = t[i] /\ b[i] = t[i]
        BY <1>7, <1>9, <2>2, <3>2
      <4> QED
        BY <1>6, <4>1
    <3> QED
      BY <3>1, <3>2
  <2>4. \A i, j \in 1 .. m + 1 : i < j => g[i] < g[j]
    <3> SUFFICES ASSUME NEW i \in 1 .. m + 1, NEW j \in 1 .. m + 1, i < j PROVE g[i] < g[j]
      OBVIOUS
    <3>1. i \in 1 .. m
      OBVIOUS
    <3>2. CASE j = m + 1
      BY <1>9, <2>2, <3>1, <3>2
    <3>3. CASE j \in 1 .. m
      BY <1>1, <1>3, <2>2, <3>1, <3>3
    <3> QED
      BY <3>2, <3>3
  <2>5. ASSUME NEW k \in 1 .. n + 1, k > g[1], a[k].kind \in w PROVE \E i \in 1 .. m + 1 : g[i] = k
    <3>1. CASE k = n + 1
      BY <2>2, <3>1
    <3>2. CASE k \in 1 .. n
      <4>1. m > 0
        BY <2>2, <2>5, <3>2
      <4>2. s[k].kind \in w /\ k > p[1] /\ t # <<>>
        BY <1>6, <1>8, <2>2, <2>5, <3>2, <4>1
      <4>3. PICK i \in 1 .. m : p[i] = k
        BY <1>1, <1>2, <1>3, <3>2, <4>2
      <4> QED
        BY <2>2, <4>3
    <3> QED
      BY <3>1, <3>2
  <2>6. g \in [1 .. Len(b) -> 1 .. Len(a)]
    BY <1>6, <1>7, <2>2
  <2>7. \A k \in 1 .. Len(a) : b # <<>> /\ k > g[1] /\ a[k].kind \in w => \E i \in 1 .. Len(b) : g[i] = k
    BY <1>6, <1>7, <2>5
  <2>8. /\ \A i \in 1 .. Len(b) : a[g[i]] = b[i]
        /\ \A i, j \in 1 .. Len(b) : i < j => g[i] < g[j]
    BY <1>7, <2>3, <2>4
  <2> QED
    BY <2>6, <2>7, <2>8 DEF Streams!Holds
<1>11. ASSUME e.kind \notin w PROVE Streams!Holds(a, t, w)
  <2>1. p \in [1 .. Len(t) -> 1 .. Len(a)]
    BY <1>1, <1>2, <1>6
  <2>2. \A i \in 1 .. Len(t) : a[p[i]] = t[i]
    BY <1>1, <1>3, <1>6, <1>9
  <2>3. ASSUME NEW k \in 1 .. Len(a), t # <<>>, k > p[1], a[k].kind \in w PROVE \E i \in 1 .. Len(t) : p[i] = k
    <3>1. k \in 1 .. n
      BY <1>6, <1>11, <2>3
    <3> QED
      BY <1>1, <1>2, <1>6, <2>3, <3>1
  <2> QED
    BY <1>1, <2>1, <2>2, <2>3 DEF Streams!Holds
<1> QED
  BY <1>4, <1>5, <1>10, <1>11

\* What is not wanted may be taken out of it.
LEMMA HoldsWithout ==
  ASSUME NEW S, NEW a \in Seq(S), NEW q \in Seq(S), NEW t \in Seq(S), NEW w, q # <<>>,
         Head(q).kind \notin w, \A i \in 1 .. Len(t) : t[i].kind \in w,
         Streams!Holds(a \o q, t, w)
  PROVE  Streams!Holds(a \o Tail(q), t, w)
<1>1. /\ Head(q) \in S /\ Tail(q) \in Seq(S) /\ Len(Tail(q)) = Len(q) - 1
      /\ \A i \in 1 .. Len(Tail(q)) : Tail(q)[i] = q[i + 1]
      /\ Len(q) \in Nat /\ Len(q) > 0 /\ Head(q) = q[1] /\ Len(a) \in Nat
  BY HeadTailProperties, LenProperties, EmptySeq
<1>2. PICK s \in Seq(S) : s = a \o q
  BY ConcatProperties
<1>3. PICK r \in Seq(S) : r = a \o Tail(q)
  BY <1>1, ConcatProperties
<1>4. PICK z \in Nat : z = Len(a) + 1
  BY <1>1
<1>5. PICK n \in Nat : n = Len(s)
  BY LenProperties
<1>6. PICK m \in Nat : m = Len(t)
  BY LenProperties
<1>7. /\ n = Len(a) + Len(q)
      /\ \A i \in 1 .. n : s[i] = IF i <= Len(a) THEN a[i] ELSE q[i - Len(a)]
  BY <1>2, <1>5, ConcatProperties
<1>8. /\ Len(r) = Len(a) + Len(q) - 1
      /\ \A i \in 1 .. Len(a) + Len(q) - 1 : r[i] = IF i <= Len(a) THEN a[i] ELSE Tail(q)[i - Len(a)]
  BY <1>1, <1>3, ConcatProperties
<1>9. /\ z \in 1 .. n /\ Len(r) = n - 1 /\ s[z].kind \notin w
      /\ \A i \in 1 .. n - 1 : i < z => r[i] = s[i]
  <2>1. z \in 1 .. n /\ Len(r) = n - 1 /\ z - Len(a) = 1 /\ ~(z <= Len(a))
    BY <1>1, <1>4, <1>7, <1>8
  <2>2. s[z] = q[1]
    BY <1>7, <2>1
  <2>3. \A i \in 1 .. n - 1 : i < z => r[i] = s[i]
    <3> SUFFICES ASSUME NEW i \in 1 .. n - 1, i < z PROVE r[i] = s[i]
      OBVIOUS
    <3>1. i \in 1 .. n /\ i \in 1 .. Len(a) + Len(q) - 1 /\ i <= Len(a)
      BY <1>1, <1>4, <1>7
    <3> QED
      BY <1>7, <1>8, <3>1
  <2> QED
    BY <1>1, <2>1, <2>2, <2>3
<1>10. ASSUME NEW i \in 1 .. n - 1, i >= z PROVE r[i] = s[i + 1]
  <2>1. i - Len(a) \in 1 .. Len(Tail(q)) /\ (i - Len(a)) + 1 = (i + 1) - Len(a) /\ i + 1 \in 1 .. n
    BY <1>1, <1>4, <1>7, <1>10
  <2> QED
    BY <1>1, <1>4, <1>7, <1>8, <1>10, <2>1
<1>11. PICK p \in [1 .. Len(t) -> 1 .. Len(s)] :
        /\ \A i \in 1 .. Len(t) : s[p[i]] = t[i]
        /\ \A i, j \in 1 .. Len(t) : i < j => p[i] < p[j]
        /\ \A k \in 1 .. Len(s) : t # <<>> /\ k > p[1] /\ s[k].kind \in w => \E i \in 1 .. Len(t) : p[i] = k
  BY <1>2 DEF Streams!Holds
<1>12. \A i \in 1 .. m : p[i] \in 1 .. n /\ p[i] # z /\ s[p[i]] = t[i]
  BY <1>5, <1>6, <1>9, <1>11
<1>13. t # <<>> => m > 0
  BY <1>6, EmptySeq
<1>14. PICK g : g = [i \in 1 .. m |-> IF p[i] > z THEN p[i] - 1 ELSE p[i]]
  OBVIOUS
<1>15. ASSUME NEW i \in 1 .. m
       PROVE  g[i] \in 1 .. n - 1 /\ p[i] = IF g[i] >= z THEN g[i] + 1 ELSE g[i]
  <2>1. p[i] \in 1 .. n /\ p[i] # z /\ z \in 1 .. n /\ g[i] = IF p[i] > z THEN p[i] - 1 ELSE p[i]
    BY <1>9, <1>12, <1>14
  <2> QED
    BY <2>1
<1>16. g \in [1 .. m -> 1 .. n - 1]
  BY <1>14, <1>15
<1>17. \A i \in 1 .. m : r[g[i]] = t[i]
  <2> SUFFICES ASSUME NEW i \in 1 .. m PROVE r[g[i]] = t[i]
    OBVIOUS
  <2>1. g[i] \in 1 .. n - 1 /\ z \in 1 .. n
    BY <1>9, <1>15
  <2>2. CASE g[i] >= z
    <3>1. r[g[i]] = s[g[i] + 1] /\ p[i] = g[i] + 1
      BY <1>10, <1>15, <2>1, <2>2
    <3> QED
      BY <1>12, <3>1
  <2>3. CASE ~(g[i] >= z)
    <3>1. g[i] < z
      BY <2>1, <2>3
    <3>2. r[g[i]] = s[g[i]] /\ p[i] = g[i]
      BY <1>9, <1>15, <2>1, <2>3, <3>1
    <3> QED
      BY <1>12, <3>2
  <2> QED
    BY <2>2, <2>3
<1>18. \A i, j \in 1 .. m : i < j => g[i] < g[j]
  <2> SUFFICES ASSUME NEW i \in 1 .. m, NEW j \in 1 .. m, i < j PROVE g[i] < g[j]
    OBVIOUS
  <2>1. p[i] < p[j] /\ p[i] \in 1 .. n /\ p[j] \in 1 .. n
    BY <1>6, <1>11, <1>12
  <2>2. /\ g[i] \in 1 .. n - 1 /\ p[i] = IF g[i] >= z THEN g[i] + 1 ELSE g[i]
        /\ g[j] \in 1 .. n - 1 /\ p[j] = IF g[j] >= z THEN g[j] + 1 ELSE g[j]
    BY <1>15
  <2>3. z \in 1 .. n /\ p[i] # z /\ p[j] # z
    BY <1>9, <1>12
  <2> QED
    BY <2>1, <2>2, <2>3
<1>19. ASSUME NEW k \in 1 .. n - 1, t # <<>>, k > g[1], r[k].kind \in w PROVE \E i \in 1 .. m : g[i] = k
  <2>1. PICK l \in 1 .. n : l = IF k >= z THEN k + 1 ELSE k
    BY <1>9
  <2>2. s[l].kind \in w /\ 1 \in 1 .. m
    BY <1>9, <1>10, <1>13, <1>19, <2>1
  <2>3. l > p[1]
    BY <1>9, <1>15, <1>19, <2>1, <2>2
  <2>4. PICK i \in 1 .. m : p[i] = l
    BY <1>5, <1>6, <1>11, <1>19, <2>2, <2>3
  <2>5. g[i] = k
    <3>1. g[i] = IF p[i] > z THEN p[i] - 1 ELSE p[i]
      BY <1>14
    <3> QED
      BY <1>9, <2>1, <2>4, <3>1
  <2> QED
    BY <2>5
<1>20. /\ g \in [1 .. Len(t) -> 1 .. Len(r)]
       /\ \A i \in 1 .. Len(t) : r[g[i]] = t[i]
       /\ \A i, j \in 1 .. Len(t) : i < j => g[i] < g[j]
  BY <1>6, <1>9, <1>16, <1>17, <1>18
<1>21. \A k \in 1 .. Len(r) : t # <<>> /\ k > g[1] /\ r[k].kind \in w => \E i \in 1 .. Len(t) : g[i] = k
  BY <1>6, <1>9, <1>19
<1>22. Streams!Holds(r, t, w)
  BY <1>20, <1>21 DEF Streams!Holds
<1> QED
  BY <1>3, <1>22

-----------------------------------------------------------------------------
(* EventBus: its variables, in the words of a stream *)

recorded == v1
underway == v2
numbered == v3
living == v4
listed == v5
retired == v6
waiting == v7
missed == v8
round == v9
focus == v10
directories == v11
actual == v12
step == v13
outgoing == v14
carried == v15
away == v16
stopped == v17
since == v18

USE DEF recorded, underway, numbered, living, listed, retired, waiting, missed, round, focus, directories, actual, step, outgoing, carried, away, stopped, since

\* A connection that has acknowledged is on the bus's list until its stream ends, and what was
\* delivered since it carried the ack is in its stream.
OneStream(c) ==
  /\ step[c] # "acked"
  /\ step[c] \in {"new", "subscribed"} => outgoing[c] = <<>> /\ carried[c] = <<>>
  /\ step[c] \in {"subscribed", "streaming"} => c \in listed \ retired
  /\ step[c] = "ended" <=> c \in retired
  /\ since[c] # <<>> => Streams!Contains(carried[c], Streams!Ack)
  /\ \A i \in 1 .. Len(since[c]) : since[c][i].kind \in Wishes[c]
  /\ c \notin away \cup retired => Streams!Holds(Streams!Stream(c), since[c], Wishes[c])
  /\ c \in stopped => c \in away

StreamsInv == Streams!TypeOK /\ \A c \in Followers : OneStream(c)

LEMMA StreamTypes ==
  ASSUME Streams!EventBusAssumption, Streams!TypeOK, NEW c \in Followers
  PROVE  /\ waiting[c] \in Seq(Streams!Line) /\ outgoing[c] \in Seq(Streams!Line)
         /\ carried[c] \in Seq(Streams!Line) /\ since[c] \in Seq(Streams!Line)
         /\ Streams!Ack \in Streams!Line /\ Streams!Probe \in Streams!Line /\ Streams!Event \subseteq Streams!Line
         /\ Streams!Ack.kind \notin Wishes[c] /\ Streams!Probe.kind \notin Wishes[c]
         /\ Streams!Ack # Streams!Probe
<1>1. Streams!Event \subseteq Streams!Line /\ Streams!Ack \in Streams!Line /\ Streams!Probe \in Streams!Line
  BY DEF Streams!Line
<1>2. waiting[c] \in Seq(Streams!Event) /\ since[c] \in Seq(Streams!Event)
  BY DEF Streams!TypeOK, Streams!Receivers
<1>3. waiting[c] \in Seq(Streams!Line) /\ since[c] \in Seq(Streams!Line)
  BY <1>1, <1>2, SeqMonotonic
<1>4. outgoing[c] \in Seq(Streams!Line) /\ carried[c] \in Seq(Streams!Line)
  BY DEF Streams!TypeOK
<1>5. Streams!Ack.kind = "ack" /\ Streams!Probe.kind = "probe"
  BY DEF Streams!Ack, Streams!Probe
<1>6. Wishes[c] \subseteq Streams!Kinds
  BY DEF Streams!EventBusAssumption
<1>7. "ack" \notin Streams!Kinds /\ "probe" \notin Streams!Kinds
  BY DEF Streams!Kinds, Streams!Topics
<1> QED
  BY <1>1, <1>3, <1>4, <1>5, <1>6, <1>7

LEMMA StreamsInit == Streams!EventBusAssumption /\ Streams!Init => StreamsInv
<1> SUFFICES ASSUME Streams!EventBusAssumption, Streams!Init PROVE StreamsInv
  OBVIOUS
<1>1. <<>> \in Seq(Streams!Event) /\ <<>> \in Seq(Streams!Line) /\ Len(<<>>) = 0
  BY EmptySeq
<1>2. Streams!TypeOK
  BY <1>1 DEF Streams!Init, Streams!TypeOK, Streams!EventBusAssumption, Streams!Receivers
<1>3. ASSUME NEW c \in Followers PROVE OneStream(c)
  BY <1>1, HoldsNone DEF Streams!Init, OneStream
<1> QED
  BY <1>2, <1>3 DEF StreamsInv

\* A step on one connection leaves the others their stream.
LEMMA OtherStreams ==
  ASSUME NEW c \in Followers, OneStream(c), UNCHANGED <<step[c], outgoing[c], carried[c], waiting[c], since[c]>>,
         c \in listed' <=> c \in listed, c \in retired' <=> c \in retired, c \in away' <=> c \in away,
         c \in stopped' <=> c \in stopped
  PROVE  OneStream(c)'
BY DEF OneStream, Streams!Stream

\* A record is numbered, and is delivered before its publisher records the next.
LEMMA StreamRecord ==
  ASSUME Streams!EventBusAssumption, StreamsInv, NEW p \in Publishers, NEW k \in Streams!Kinds, NEW l \in Subjects,
         Streams!Record(p, k, l)
  PROVE  StreamsInv'
<1>1. PICK e : e = [id |-> numbered + 1, kind |-> k, panel |-> l]
  OBVIOUS
<1>2. PICK kept : kept = IF Len(recorded) >= Recalled THEN Tail(recorded) ELSE recorded
  OBVIOUS
<1>3. /\ recorded' = Append(kept, e) /\ underway' = [underway EXCEPT ![p] = e]
      /\ numbered' = numbered + 1 /\ numbered < MaxPublished /\ living' \subseteq living
      /\ UNCHANGED <<listed, missed, retired, waiting, round, focus, directories, actual, step, outgoing, carried, away, stopped, since>>
  BY <1>1, <1>2 DEF Streams!Record, Streams!context, Streams!streams
<1>t. /\ recorded \in Seq(Streams!Event) /\ Len(recorded) <= Recalled /\ Recalled \in Nat /\ Recalled # 0
      /\ numbered \in 0 .. MaxPublished /\ MaxPublished \in Nat /\ Len(recorded) \in Nat
      /\ underway \in [Publishers -> Streams!Event \cup {Nil}] /\ living \subseteq Subjects
  BY LenProperties DEF StreamsInv, Streams!TypeOK, Streams!EventBusAssumption
<1>4. numbered + 1 \in 1 .. MaxPublished
  BY <1>3, <1>t
<1>5. e \in Streams!Event
  BY <1>1, <1>4 DEF Streams!Event
<1>6. kept \in Seq(Streams!Event) /\ Len(kept) \in Nat /\ Len(kept) + 1 <= Recalled
  <2>1. CASE Len(recorded) >= Recalled
    <3>1. recorded # <<>>
      BY <1>t, <2>1, EmptySeq
    <3> QED
      BY <1>2, <1>t, <2>1, <3>1, HeadTailProperties
  <2>2. CASE ~(Len(recorded) >= Recalled)
    BY <1>2, <1>t, <2>2
  <2> QED
    BY <2>1, <2>2
<1>7. recorded' \in Seq(Streams!Event) /\ Len(recorded') <= Recalled
  BY <1>3, <1>5, <1>6, AppendProperties
<1>8. underway' \in [Publishers -> Streams!Event \cup {Nil}] /\ living' \subseteq Subjects /\ numbered' \in 0 .. MaxPublished
  BY <1>3, <1>4, <1>5, <1>t
<1>9. Streams!TypeOK'
  BY <1>3, <1>7, <1>8 DEF StreamsInv, Streams!TypeOK
<1>10. ASSUME NEW c \in Followers PROVE OneStream(c)'
  BY <1>3, OtherStreams DEF StreamsInv
<1> QED
  BY <1>9, <1>10 DEF StreamsInv

LEMMA StreamDeliver ==
  ASSUME Streams!EventBusAssumption, StreamsInv, NEW p \in Publishers, Streams!Deliver(p)
  PROVE  StreamsInv'
<1>1. PICK e : e = underway[p]
  OBVIOUS
<1>2. PICK takes : takes = {r \in {q \in listed : Streams!Matches(q, e.kind)} \ retired : ~Streams!Full(r)}
  OBVIOUS
<1>3. /\ waiting' = [r \in Streams!Receivers |-> IF r \in takes THEN Append(waiting[r], e) ELSE waiting[r]]
      /\ listed' = listed \ ({q \in listed : Streams!Matches(q, e.kind)} \cap retired)
      /\ missed' \subseteq missed \cup {e} /\ underway' = [underway EXCEPT ![p] = Nil]
      /\ since' = [c \in Followers |-> IF Streams!Contains(carried[c], Streams!Ack) /\ e.kind \in Wishes[c]
                                       THEN Append(since[c], e) ELSE since[c]]
      /\ UNCHANGED <<recorded, numbered, living, retired, round, focus, directories, step, outgoing, carried, away, stopped>>
      /\ e # Nil
  BY <1>1, <1>2 DEF Streams!Deliver
<1>t. /\ underway \in [Publishers -> Streams!Event \cup {Nil}] /\ missed \subseteq Streams!Event
      /\ listed \subseteq Streams!Receivers /\ since \in [Followers -> Seq(Streams!Event)]
      /\ waiting \in [Streams!Receivers -> Seq(Streams!Event)] /\ \A t \in Streams!Topics : Len(waiting[t]) <= BusBuffer
      /\ BusBuffer \in Nat /\ Followers \cap Streams!Topics = {}
  BY DEF StreamsInv, Streams!TypeOK, Streams!EventBusAssumption
<1>4. e \in Streams!Event
  BY <1>1, <1>3, <1>t
<1>5. waiting' \in [Streams!Receivers -> Seq(Streams!Event)]
  <2>1. \A r \in Streams!Receivers : Append(waiting[r], e) \in Seq(Streams!Event)
    BY <1>4, <1>t, AppendProperties
  <2> QED
    BY <1>3, <1>t, <2>1
<1>6. ASSUME NEW t \in Streams!Topics PROVE Len(waiting'[t]) <= BusBuffer
  <2>1. t \in Streams!Receivers /\ Len(waiting[t]) \in Nat /\ Len(Append(waiting[t], e)) = Len(waiting[t]) + 1
    BY <1>4, <1>t, AppendProperties, LenProperties DEF Streams!Receivers
  <2>2. t \in takes => ~(Len(waiting[t]) >= BusBuffer)
    BY <1>2 DEF Streams!Full
  <2> QED
    BY <1>3, <1>t, <2>1, <2>2
<1>7. since' \in [Followers -> Seq(Streams!Event)]
  <2>1. \A c \in Followers : Append(since[c], e) \in Seq(Streams!Event)
    BY <1>4, <1>t, AppendProperties
  <2> QED
    BY <1>3, <1>t, <2>1
<1>8. /\ underway' \in [Publishers -> Streams!Event \cup {Nil}] /\ missed' \subseteq Streams!Event
      /\ listed' \subseteq Streams!Receivers
  BY <1>3, <1>4, <1>t
<1>9. Streams!TypeOK'
  BY <1>3, <1>5, <1>6, <1>7, <1>8 DEF StreamsInv, Streams!TypeOK
<1>10. ASSUME NEW c \in Followers PROVE OneStream(c)'
  <2>1. OneStream(c)
    BY DEF StreamsInv
  <2>2. c \in Streams!Receivers /\ (c \in listed \ retired => c \in takes /\ c \in listed')
    BY <1>2, <1>3, <1>t DEF Streams!Receivers, Streams!Matches, Streams!Full
  <2>t. /\ waiting[c] \in Seq(Streams!Line) /\ outgoing[c] \in Seq(Streams!Line)
        /\ carried[c] \in Seq(Streams!Line) /\ since[c] \in Seq(Streams!Line) /\ e \in Streams!Line
        /\ carried[c] \o outgoing[c] \in Seq(Streams!Line)
    BY <1>4, StreamTypes, ConcatProperties DEF StreamsInv
  <2>3. since'[c] = IF Streams!Contains(carried[c], Streams!Ack) /\ e.kind \in Wishes[c]
                    THEN Append(since[c], e) ELSE since[c]
    BY <1>3
  <2>4. since'[c] # <<>> => Streams!Contains(carried[c], Streams!Ack)
    BY <2>1, <2>3 DEF OneStream
  <2>5. \A i \in 1 .. Len(since'[c]) : since'[c][i].kind \in Wishes[c]
    <3>1. CASE Streams!Contains(carried[c], Streams!Ack) /\ e.kind \in Wishes[c]
      <4>1. PICK n \in Nat : n = Len(since[c])
        BY <2>t, LenProperties
      <4>2. PICK a : a = since'[c]
        OBVIOUS
      <4>3. Len(a) = n + 1 /\ a[n + 1] = e /\ \A i \in 1 .. n : a[i] = since[c][i]
        BY <2>3, <2>t, <3>1, <4>1, <4>2, AppendProperties
      <4>4. \A i \in 1 .. n : since[c][i].kind \in Wishes[c]
        BY <2>1, <4>1 DEF OneStream
      <4> QED
        BY <3>1, <4>2, <4>3, <4>4
    <3>2. CASE ~(Streams!Contains(carried[c], Streams!Ack) /\ e.kind \in Wishes[c])
      BY <2>1, <2>3, <3>2 DEF OneStream
    <3> QED
      BY <3>1, <3>2
  <2>6. ASSUME c \notin away \cup retired
        PROVE  Streams!Holds(Streams!Stream(c)', since'[c], Wishes[c])
    <3>1. CASE ~Streams!Contains(carried[c], Streams!Ack)
      BY <2>4, <3>1, HoldsNone
    <3>2. CASE Streams!Contains(carried[c], Streams!Ack)
      <4>1. carried[c] # <<>>
        BY <3>2, EmptySeq DEF Streams!Contains
      <4>2. step[c] \in {"streaming"}
        BY <2>1, <2>6, <4>1 DEF OneStream, StreamsInv, Streams!TypeOK
      <4>3. c \in takes
        BY <2>1, <2>2, <4>2 DEF OneStream
      <4>4. Streams!Stream(c)' = Append(Streams!Stream(c), e)
        <5>1. waiting'[c] = Append(waiting[c], e)
          BY <1>3, <2>2, <4>3
        <5>2. PICK a \in Seq(Streams!Line) : a = carried[c] \o outgoing[c]
          BY <2>t
        <5>3. a \o Append(waiting[c], e) = Append(a \o waiting[c], e)
          BY <2>t, Trailing
        <5>4. Streams!Stream(c) = a \o waiting[c] /\ Streams!Stream(c)' = a \o waiting'[c]
          BY <1>3, <5>2 DEF Streams!Stream
        <5> QED
          BY <5>1, <5>3, <5>4
      <4>5. Streams!Stream(c) \in Seq(Streams!Line) /\ Streams!Holds(Streams!Stream(c), since[c], Wishes[c])
        BY <2>1, <2>6, <2>t, ConcatProperties DEF OneStream, Streams!Stream
      <4> QED
        BY <2>3, <2>t, <3>2, <4>4, <4>5, HoldsMore
    <3> QED
      BY <3>1, <3>2
  <2> QED
    BY <1>3, <2>1, <2>2, <2>4, <2>5, <2>6 DEF OneStream
<1> QED
  BY <1>9, <1>10 DEF StreamsInv

LEMMA StreamDrain ==
  ASSUME Streams!EventBusAssumption, StreamsInv, Streams!Drain
  PROVE  StreamsInv'
<1>1. /\ UNCHANGED <<recorded, underway, numbered, living, listed, missed, retired, step, outgoing, carried, away, stopped, since>>
      /\ round \in 0 .. 3 /\ Len(Streams!Order) = 3
      /\ Streams!Order = <<"panel.focused", "panel.exited", "terminal.cwd_changed">>
  BY DEF Streams!Drain, Streams!bus, Streams!streams, Streams!Order, StreamsInv, Streams!TypeOK
<1>t. /\ waiting \in [Streams!Receivers -> Seq(Streams!Event)] /\ \A t \in Streams!Topics : Len(waiting[t]) <= BusBuffer
      /\ BusBuffer \in Nat /\ Followers \cap Streams!Topics = {} /\ Streams!Topics \subseteq Streams!Receivers
      /\ focus \in Subjects \cup {Nil} /\ directories \subseteq Subjects
  BY DEF StreamsInv, Streams!TypeOK, Streams!EventBusAssumption, Streams!Receivers
<1>2. CASE UNCHANGED <<waiting, focus, directories>> /\ round' \in 0 .. 3
  <2>1. Streams!TypeOK'
    BY <1>1, <1>2 DEF StreamsInv, Streams!TypeOK
  <2>2. ASSUME NEW c \in Followers PROVE OneStream(c)'
    BY <1>1, <1>2, OtherStreams DEF StreamsInv
  <2> QED
    BY <2>1, <2>2 DEF StreamsInv
<1>3. CASE round # 0 /\ waiting[Streams!Order[round]] # <<>> /\ round' = round
           /\ waiting' = [waiting EXCEPT ![Streams!Order[round]] = Tail(@)]
           /\ LET after == Streams!Applied([active |-> focus, cwds |-> directories], Head(waiting[Streams!Order[round]]))
              IN focus' = after.active /\ directories' = after.cwds
  <2>1. PICK t \in Streams!Topics : t = Streams!Order[round]
    BY <1>1, <1>3 DEF Streams!Topics
  <2>2. waiting[t] \in Seq(Streams!Event) /\ waiting[t] # <<>> /\ waiting' = [waiting EXCEPT ![t] = Tail(@)]
    BY <1>3, <1>t, <2>1
  <2>3. PICK e \in Streams!Event : e = Head(waiting[t])
    BY <2>2, HeadTailProperties
  <2>4. e.kind \in Streams!Kinds /\ e.panel \in Subjects
    BY DEF Streams!Event
  <2>5. PICK after : after = Streams!Applied([active |-> focus, cwds |-> directories], e)
    OBVIOUS
  <2>6. focus' = after.active /\ directories' = after.cwds
    BY <1>3, <2>1, <2>3, <2>5
  <2>7. after.active \in Subjects \cup {Nil} /\ after.cwds \subseteq Subjects
    BY <1>t, <2>4, <2>5 DEF Streams!Applied
  <2>8. /\ waiting' \in [Streams!Receivers -> Seq(Streams!Event)]
        /\ \A u \in Streams!Topics : Len(waiting'[u]) <= BusBuffer
    <3>1. Tail(waiting[t]) \in Seq(Streams!Event) /\ Len(Tail(waiting[t])) = Len(waiting[t]) - 1 /\ Len(waiting[t]) \in Nat
      BY <2>2, HeadTailProperties, LenProperties
    <3>2. Len(Tail(waiting[t])) <= BusBuffer
      BY <1>t, <3>1
    <3> QED
      BY <1>t, <2>2, <3>1, <3>2
  <2>9. Streams!TypeOK'
    BY <1>1, <1>3, <2>6, <2>7, <2>8 DEF StreamsInv, Streams!TypeOK
  <2>10. ASSUME NEW c \in Followers PROVE OneStream(c)'
    <3>1. c # t /\ c \in Streams!Receivers
      BY <1>t DEF Streams!Receivers
    <3>2. waiting'[c] = waiting[c]
      BY <1>t, <2>2, <3>1
    <3> QED
      BY <1>1, <3>2, OtherStreams DEF StreamsInv
  <2> QED
    BY <2>9, <2>10 DEF StreamsInv
<1> QED
  <2>1. \/ UNCHANGED <<waiting, focus, directories>> /\ round' \in 0 .. 3
        \/ round # 0 /\ waiting[Streams!Order[round]] # <<>> /\ round' = round
           /\ waiting' = [waiting EXCEPT ![Streams!Order[round]] = Tail(@)]
           /\ LET after == Streams!Applied([active |-> focus, cwds |-> directories], Head(waiting[Streams!Order[round]]))
              IN focus' = after.active /\ directories' = after.cwds
    BY <1>1 DEF Streams!Drain
  <2> QED
    BY <1>2, <1>3, <2>1

\* The daemon puts a connection on the bus's list, and only then acknowledges.
LEMMA StreamStart ==
  ASSUME Streams!EventBusAssumption, StreamsInv, NEW c \in Followers, Streams!FirstStep(c) \/ Streams!SecondStep(c)
  PROVE  StreamsInv'
<1>t. /\ listed \subseteq Streams!Receivers /\ c \in Streams!Receivers /\ retired \subseteq Followers
      /\ step \in [Followers -> {"new", "acked", "subscribed", "streaming", "ended"}]
      /\ outgoing \in [Followers -> Seq(Streams!Line)] /\ \A d \in Followers : Len(outgoing[d]) <= LineCap
      /\ LineCap \in Nat /\ LineCap # 0 /\ Streams!Ack \in Streams!Line
  BY StreamTypes DEF StreamsInv, Streams!TypeOK, Streams!EventBusAssumption, Streams!Receivers
<1>c. OneStream(c)
  BY DEF StreamsInv
<1>1. CASE Streams!FirstStep(c)
  <2>1. /\ step[c] = "new" /\ step' = [step EXCEPT ![c] = "subscribed"] /\ listed' = listed \cup {c}
        /\ UNCHANGED <<recorded, underway, numbered, living, missed, retired, waiting, round, focus, directories, actual, outgoing, carried, away, stopped, since>>
    BY <1>1 DEF Streams!FirstStep, Streams!Subscribe, Streams!context
  <2>2. step' \in [Followers -> {"new", "acked", "subscribed", "streaming", "ended"}] /\ listed' \subseteq Streams!Receivers
    BY <1>t, <2>1
  <2>3. Streams!TypeOK'
    BY <2>1, <2>2 DEF StreamsInv, Streams!TypeOK
  <2>4. OneStream(c)'
    <3>1. c \notin retired
      BY <1>c, <2>1 DEF OneStream
    <3> QED
      BY <1>c, <1>t, <2>1, <3>1 DEF OneStream, Streams!Stream
  <2>5. ASSUME NEW d \in Followers, d # c PROVE OneStream(d)'
    <3>1. step'[d] = step[d] /\ (d \in listed' <=> d \in listed)
      BY <1>t, <2>1, <2>5
    <3> QED
      BY <2>1, <3>1, OtherStreams DEF StreamsInv
  <2> QED
    BY <2>3, <2>4, <2>5 DEF StreamsInv
<1>2. CASE Streams!SecondStep(c)
  <2>1. step[c] # "acked"
    BY <1>c DEF OneStream
  <2>2. /\ step[c] = "subscribed" /\ step' = [step EXCEPT ![c] = "streaming"]
        /\ outgoing' = [outgoing EXCEPT ![c] = <<Streams!Ack>>]
        /\ UNCHANGED <<recorded, underway, numbered, living, listed, missed, retired, waiting, round, focus, directories, actual, carried, away, stopped, since>>
    BY <1>2, <2>1 DEF Streams!SecondStep, Streams!bus, Streams!context
  <2>3. <<Streams!Ack>> \in Seq(Streams!Line) /\ Len(<<Streams!Ack>>) <= LineCap
    BY <1>t
  <2>4. /\ step' \in [Followers -> {"new", "acked", "subscribed", "streaming", "ended"}]
        /\ outgoing' \in [Followers -> Seq(Streams!Line)] /\ \A d \in Followers : Len(outgoing'[d]) <= LineCap
    BY <1>t, <2>2, <2>3
  <2>5. Streams!TypeOK'
    BY <2>2, <2>4 DEF StreamsInv, Streams!TypeOK
  <2>6. OneStream(c)'
    <3>1. carried[c] = <<>>
      BY <1>c, <2>2 DEF OneStream
    <3>2. ~Streams!Contains(carried[c], Streams!Ack)
      BY <3>1, EmptySeq DEF Streams!Contains
    <3>3. since[c] = <<>>
      BY <1>c, <3>2 DEF OneStream
    <3>4. step'[c] = "streaming"
      BY <1>t, <2>2
    <3>5. Streams!Holds(Streams!Stream(c)', since'[c], Wishes[c])
      BY <2>2, <3>3, HoldsNone
    <3> QED
      BY <1>c, <2>2, <3>3, <3>4, <3>5 DEF OneStream
  <2>7. ASSUME NEW d \in Followers, d # c PROVE OneStream(d)'
    <3>1. step'[d] = step[d] /\ outgoing'[d] = outgoing[d]
      BY <1>t, <2>2, <2>7
    <3> QED
      BY <2>2, <3>1, OtherStreams DEF StreamsInv
  <2> QED
    BY <2>5, <2>6, <2>7 DEF StreamsInv
<1> QED
  BY <1>1, <1>2

\* The stream's thread ends: nothing is promised any more.
LEMMA StreamEnds ==
  ASSUME Streams!EventBusAssumption, StreamsInv, NEW c \in Followers, step[c] = "streaming", Streams!End(c),
         UNCHANGED <<recorded, underway, numbered, living, listed, missed, round, focus, directories, actual, outgoing, carried, away, stopped, since>>
  PROVE  StreamsInv'
<1>t. /\ waiting \in [Streams!Receivers -> Seq(Streams!Event)] /\ c \in Streams!Receivers /\ retired \subseteq Followers
      /\ step \in [Followers -> {"new", "acked", "subscribed", "streaming", "ended"}]
      /\ Followers \cap Streams!Topics = {} /\ Streams!Topics \subseteq Streams!Receivers
      /\ \A t \in Streams!Topics : Len(waiting[t]) <= BusBuffer
  BY DEF StreamsInv, Streams!TypeOK, Streams!EventBusAssumption, Streams!Receivers
<1>c. OneStream(c)
  BY DEF StreamsInv
<1>1. /\ step' = [step EXCEPT ![c] = "ended"] /\ retired' = retired \cup {c}
      /\ waiting' = [waiting EXCEPT ![c] = <<>>]
  BY DEF Streams!End
<1>2. <<>> \in Seq(Streams!Event)
  BY EmptySeq
<1>3. /\ waiting' \in [Streams!Receivers -> Seq(Streams!Event)] /\ retired' \subseteq Followers
      /\ step' \in [Followers -> {"new", "acked", "subscribed", "streaming", "ended"}]
  BY <1>t, <1>1, <1>2
<1>4. \A t \in Streams!Topics : Len(waiting'[t]) <= BusBuffer
  BY <1>t, <1>1
<1>5. Streams!TypeOK'
  BY <1>3, <1>4 DEF StreamsInv, Streams!TypeOK
<1>6. OneStream(c)'
  BY <1>c, <1>t, <1>1 DEF OneStream
<1>7. ASSUME NEW d \in Followers, d # c PROVE OneStream(d)'
  <2>1. step'[d] = step[d] /\ waiting'[d] = waiting[d] /\ (d \in retired' <=> d \in retired)
    BY <1>t, <1>1, <1>7 DEF Streams!Receivers
  <2> QED
    BY <2>1, OtherStreams DEF StreamsInv
<1> QED
  BY <1>5, <1>6, <1>7 DEF StreamsInv

\* The lines of one stream move, or what is not wanted of them goes.
LEMMA StreamMoves ==
  ASSUME Streams!EventBusAssumption, StreamsInv, NEW c \in Followers,
         NEW q \in Seq(Streams!Event), NEW o \in Seq(Streams!Line), NEW r \in Seq(Streams!Line),
         Len(o) <= LineCap,
         waiting' = [waiting EXCEPT ![c] = q], outgoing' = [outgoing EXCEPT ![c] = o],
         carried' = [carried EXCEPT ![c] = r],
         UNCHANGED <<recorded, underway, numbered, living, listed, missed, retired, round, focus, directories, actual, step, away, stopped, since>>,
         Streams!Contains(carried[c], Streams!Ack) => Streams!Contains(r, Streams!Ack),
         step[c] \in {"new", "subscribed"} => o = <<>> /\ r = <<>>,
         c \notin away \cup retired => Streams!Holds((r \o o) \o q, since[c], Wishes[c])
  PROVE  StreamsInv'
<1>t. /\ waiting \in [Streams!Receivers -> Seq(Streams!Event)] /\ c \in Streams!Receivers
      /\ outgoing \in [Followers -> Seq(Streams!Line)] /\ carried \in [Followers -> Seq(Streams!Line)]
      /\ Followers \cap Streams!Topics = {} /\ Streams!Topics \subseteq Streams!Receivers
      /\ \A t \in Streams!Topics : Len(waiting[t]) <= BusBuffer
      /\ \A d \in Followers : Len(outgoing[d]) <= LineCap
  BY DEF StreamsInv, Streams!TypeOK, Streams!EventBusAssumption, Streams!Receivers
<1>c. OneStream(c)
  BY DEF StreamsInv
<1>1. /\ waiting' \in [Streams!Receivers -> Seq(Streams!Event)] /\ waiting'[c] = q
      /\ outgoing' \in [Followers -> Seq(Streams!Line)] /\ outgoing'[c] = o
      /\ carried' \in [Followers -> Seq(Streams!Line)] /\ carried'[c] = r
  BY <1>t
<1>2. \A t \in Streams!Topics : Len(waiting'[t]) <= BusBuffer
  BY <1>t
<1>3. \A d \in Followers : Len(outgoing'[d]) <= LineCap
  BY <1>t
<1>4. Streams!TypeOK'
  BY <1>1, <1>2, <1>3 DEF StreamsInv, Streams!TypeOK
<1>5. OneStream(c)'
  BY <1>c, <1>1 DEF OneStream, Streams!Stream
<1>6. ASSUME NEW d \in Followers, d # c PROVE OneStream(d)'
  <2>1. waiting'[d] = waiting[d] /\ outgoing'[d] = outgoing[d] /\ carried'[d] = carried[d]
    BY <1>t, <1>6 DEF Streams!Receivers
  <2> QED
    BY <2>1, OtherStreams DEF StreamsInv
<1> QED
  BY <1>4, <1>5, <1>6 DEF StreamsInv

LEMMA StreamEventStep ==
  ASSUME Streams!EventBusAssumption, StreamsInv, NEW c \in Followers, Streams!StreamEvent(c)
  PROVE  StreamsInv'
<1>c. OneStream(c)
  BY DEF StreamsInv
<1>t. /\ waiting \in [Streams!Receivers -> Seq(Streams!Event)] /\ c \in Streams!Receivers
      /\ outgoing \in [Followers -> Seq(Streams!Line)] /\ carried \in [Followers -> Seq(Streams!Line)]
      /\ LineCap \in Nat /\ Len(outgoing[c]) <= LineCap /\ Streams!Event \subseteq Streams!Line
      /\ waiting[c] \in Seq(Streams!Line) /\ outgoing[c] \in Seq(Streams!Line) /\ carried[c] \in Seq(Streams!Line)
      /\ since[c] \in Seq(Streams!Line)
  BY StreamTypes DEF StreamsInv, Streams!TypeOK, Streams!EventBusAssumption, Streams!Receivers
<1>1. PICK e : e = Head(waiting[c])
  OBVIOUS
<1>2. /\ step[c] = "streaming" /\ waiting[c] # <<>>
      /\ UNCHANGED <<recorded, underway, numbered, living, listed, missed, round, focus, directories, actual, away, stopped, since>>
      /\ \/ /\ e.kind \notin Wishes[c] /\ waiting' = [waiting EXCEPT ![c] = Tail(@)]
            /\ UNCHANGED <<step, retired, outgoing, carried>>
         \/ Streams!End(c) /\ UNCHANGED <<outgoing, carried>>
         \/ /\ Len(outgoing[c]) < LineCap /\ outgoing' = [outgoing EXCEPT ![c] = Append(@, e)]
            /\ waiting' = [waiting EXCEPT ![c] = Tail(@)] /\ UNCHANGED <<step, retired, carried>>
  BY <1>1 DEF Streams!StreamEvent, Streams!Send, Streams!bus, Streams!context
<1>3. /\ e \in Streams!Event /\ Tail(waiting[c]) \in Seq(Streams!Event)
      /\ waiting[c] \in Seq(Streams!Event)
  BY <1>1, <1>2, <1>t, HeadTailProperties
<1>4. PICK a \in Seq(Streams!Line) : a = carried[c] \o outgoing[c]
  BY <1>t, ConcatProperties
<1>5. c \notin away \cup retired => Streams!Holds(a \o waiting[c], since[c], Wishes[c])
  BY <1>c, <1>4 DEF OneStream, Streams!Stream
<1>6. CASE /\ e.kind \notin Wishes[c] /\ waiting' = [waiting EXCEPT ![c] = Tail(@)]
           /\ UNCHANGED <<step, retired, outgoing, carried>>
  <2>1. outgoing' = [outgoing EXCEPT ![c] = outgoing[c]] /\ carried' = [carried EXCEPT ![c] = carried[c]]
    BY <1>6, <1>t
  <2>2. \A i \in 1 .. Len(since[c]) : since[c][i].kind \in Wishes[c]
    BY <1>c DEF OneStream
  <2>3. c \notin away \cup retired => Streams!Holds(a \o Tail(waiting[c]), since[c], Wishes[c])
    BY <1>1, <1>2, <1>5, <1>6, <1>t, <2>2, HoldsWithout
  <2> QED
    BY <1>2, <1>3, <1>4, <1>6, <1>t, <2>1, <2>3, StreamMoves
<1>7. CASE Streams!End(c) /\ UNCHANGED <<outgoing, carried>>
  BY <1>2, <1>7, StreamEnds
<1>8. CASE /\ Len(outgoing[c]) < LineCap /\ outgoing' = [outgoing EXCEPT ![c] = Append(@, e)]
           /\ waiting' = [waiting EXCEPT ![c] = Tail(@)] /\ UNCHANGED <<step, retired, carried>>
  <2>1. PICK o : o = Append(outgoing[c], e)
    OBVIOUS
  <2>2. o \in Seq(Streams!Line) /\ Len(o) = Len(outgoing[c]) + 1 /\ Len(outgoing[c]) \in Nat
    BY <1>3, <1>t, <2>1, AppendProperties, LenProperties
  <2>3. Len(o) <= LineCap
    BY <1>8, <1>t, <2>2
  <2>4. carried' = [carried EXCEPT ![c] = carried[c]] /\ outgoing' = [outgoing EXCEPT ![c] = o]
    BY <1>8, <1>t, <2>1
  <2>5. carried[c] \o o = Append(a, e)
    BY <1>3, <1>4, <1>t, <2>1, Trailing
  <2>6. (carried[c] \o o) \o Tail(waiting[c]) = a \o waiting[c]
    <3>1. PICK q \in Seq(Streams!Line) : q = waiting[c] /\ q # <<>>
      BY <1>2, <1>t
    <3>2. Append(a, Head(q)) \o Tail(q) = a \o q
      BY <3>1, Passing
    <3> QED
      BY <1>1, <2>5, <3>1, <3>2
  <2> QED
    BY <1>2, <1>3, <1>5, <1>8, <1>t, <2>2, <2>3, <2>4, <2>6, StreamMoves
<1> QED
  BY <1>2, <1>6, <1>7, <1>8

\* After fifteen quiet seconds nothing waits, so what is sent is at the end.
LEMMA StreamKeepAlive ==
  ASSUME Streams!EventBusAssumption, StreamsInv, NEW c \in Followers, Streams!KeepAlive(c)
  PROVE  StreamsInv'
<1>c. OneStream(c)
  BY DEF StreamsInv
<1>t. /\ waiting \in [Streams!Receivers -> Seq(Streams!Event)] /\ c \in Streams!Receivers
      /\ outgoing \in [Followers -> Seq(Streams!Line)] /\ carried \in [Followers -> Seq(Streams!Line)]
      /\ LineCap \in Nat /\ Streams!Probe \in Streams!Line /\ Streams!Probe.kind \notin Wishes[c]
      /\ waiting[c] \in Seq(Streams!Line) /\ outgoing[c] \in Seq(Streams!Line) /\ carried[c] \in Seq(Streams!Line)
      /\ since[c] \in Seq(Streams!Line)
  BY StreamTypes DEF StreamsInv, Streams!TypeOK, Streams!EventBusAssumption, Streams!Receivers
<1>1. /\ step[c] = "streaming" /\ waiting[c] = <<>>
      /\ UNCHANGED <<recorded, underway, numbered, living, listed, missed, round, focus, directories, actual, carried, away, stopped, since>>
      /\ \/ Streams!End(c) /\ outgoing' = outgoing
         \/ /\ Len(outgoing[c]) < LineCap /\ outgoing' = [outgoing EXCEPT ![c] = Append(@, Streams!Probe)]
            /\ UNCHANGED <<step, retired, waiting>>
  BY DEF Streams!KeepAlive, Streams!Send, Streams!bus, Streams!context
<1>2. CASE Streams!End(c) /\ outgoing' = outgoing
  BY <1>1, <1>2, StreamEnds
<1>3. CASE /\ Len(outgoing[c]) < LineCap /\ outgoing' = [outgoing EXCEPT ![c] = Append(@, Streams!Probe)]
           /\ UNCHANGED <<step, retired, waiting>>
  <2>1. PICK o : o = Append(outgoing[c], Streams!Probe)
    OBVIOUS
  <2>2. o \in Seq(Streams!Line) /\ Len(o) = Len(outgoing[c]) + 1 /\ Len(outgoing[c]) \in Nat
    BY <1>t, <2>1, AppendProperties, LenProperties
  <2>3. Len(o) <= LineCap
    BY <1>3, <1>t, <2>2
  <2>4. /\ carried' = [carried EXCEPT ![c] = carried[c]] /\ outgoing' = [outgoing EXCEPT ![c] = o]
        /\ waiting' = [waiting EXCEPT ![c] = waiting[c]] /\ waiting[c] \in Seq(Streams!Event)
    BY <1>1, <1>3, <1>t, <2>1
  <2>5. PICK a \in Seq(Streams!Line) : a = carried[c] \o outgoing[c]
    BY <1>t, ConcatProperties
  <2>6. carried[c] \o o = Append(a, Streams!Probe) /\ Append(a, Streams!Probe) \in Seq(Streams!Line)
    BY <1>t, <2>1, <2>5, Trailing, AppendProperties
  <2>7. a \o waiting[c] = a /\ (carried[c] \o o) \o waiting[c] = Append(a, Streams!Probe)
    BY <1>1, <2>6, ConcatEmptySeq
  <2>8. c \notin away \cup retired => Streams!Holds(a, since[c], Wishes[c])
    BY <1>c, <2>5, <2>7 DEF OneStream, Streams!Stream
  <2>9. c \notin away \cup retired => Streams!Holds((carried[c] \o o) \o waiting[c], since[c], Wishes[c])
    BY <1>t, <2>7, <2>8, HoldsMore
  <2> QED
    BY <1>1, <1>3, <1>t, <2>2, <2>3, <2>4, <2>9, StreamMoves
<1> QED
  BY <1>1, <1>2, <1>3

LEMMA StreamWrite ==
  ASSUME Streams!EventBusAssumption, StreamsInv, NEW c \in Followers, Streams!Write(c)
  PROVE  StreamsInv'
<1>c. OneStream(c)
  BY DEF StreamsInv
<1>t. /\ waiting \in [Streams!Receivers -> Seq(Streams!Event)] /\ c \in Streams!Receivers
      /\ outgoing \in [Followers -> Seq(Streams!Line)] /\ carried \in [Followers -> Seq(Streams!Line)]
      /\ LineCap \in Nat /\ \A d \in Followers : Len(outgoing[d]) <= LineCap
      /\ waiting[c] \in Seq(Streams!Line) /\ outgoing[c] \in Seq(Streams!Line) /\ carried[c] \in Seq(Streams!Line)
      /\ since[c] \in Seq(Streams!Line) /\ stopped \subseteq Followers /\ away \subseteq Followers
      /\ Streams!Ack # Streams!Probe /\ Streams!Probe.kind \notin Wishes[c]
  BY StreamTypes DEF StreamsInv, Streams!TypeOK, Streams!EventBusAssumption, Streams!Receivers
<1>1. /\ outgoing[c] # <<>>
      /\ UNCHANGED <<recorded, underway, numbered, living, listed, missed, retired, waiting, round, focus, directories, actual, step, away, since>>
      /\ \/ /\ c \in away /\ stopped' = stopped \cup {c} /\ outgoing' = [outgoing EXCEPT ![c] = <<>>]
            /\ carried' = carried
         \/ /\ outgoing' = [outgoing EXCEPT ![c] = Tail(@)] /\ stopped' = stopped
            /\ carried' = IF Head(outgoing[c]) = Streams!Probe THEN carried
                          ELSE [carried EXCEPT ![c] = Append(@, Head(outgoing[c]))]
  BY DEF Streams!Write, Streams!bus, Streams!context
<1>2. step[c] \notin {"new", "subscribed"}
  BY <1>1, <1>c DEF OneStream
<1>3. CASE /\ c \in away /\ stopped' = stopped \cup {c} /\ outgoing' = [outgoing EXCEPT ![c] = <<>>]
           /\ carried' = carried
  <2>1. <<>> \in Seq(Streams!Line) /\ Len(<<>>) = 0
    BY EmptySeq
  <2>2. /\ outgoing' \in [Followers -> Seq(Streams!Line)] /\ \A d \in Followers : Len(outgoing'[d]) <= LineCap
        /\ away' \cup stopped' \subseteq Followers
    BY <1>1, <1>3, <1>t, <2>1
  <2>3. Streams!TypeOK'
    BY <1>1, <1>3, <2>2 DEF StreamsInv, Streams!TypeOK
  <2>4. OneStream(c)'
    BY <1>1, <1>2, <1>3, <1>c, <1>t DEF OneStream
  <2>5. ASSUME NEW d \in Followers, d # c PROVE OneStream(d)'
    <3>1. outgoing'[d] = outgoing[d] /\ (d \in stopped' <=> d \in stopped)
      BY <1>3, <1>t, <2>5
    <3> QED
      BY <1>1, <1>3, <3>1, OtherStreams DEF StreamsInv
  <2> QED
    BY <2>3, <2>4, <2>5 DEF StreamsInv
<1>4. CASE /\ outgoing' = [outgoing EXCEPT ![c] = Tail(@)] /\ stopped' = stopped
           /\ carried' = IF Head(outgoing[c]) = Streams!Probe THEN carried
                         ELSE [carried EXCEPT ![c] = Append(@, Head(outgoing[c]))]
  <2>1. PICK h : h = Head(outgoing[c])
    OBVIOUS
  <2>2. PICK o : o = Tail(outgoing[c])
    OBVIOUS
  <2>3. h \in Streams!Line /\ o \in Seq(Streams!Line) /\ Len(o) = Len(outgoing[c]) - 1 /\ Len(outgoing[c]) \in Nat
    BY <1>1, <1>t, <2>1, <2>2, HeadTailProperties, LenProperties
  <2>4. /\ Len(o) <= LineCap /\ outgoing' = [outgoing EXCEPT ![c] = o]
        /\ waiting' = [waiting EXCEPT ![c] = waiting[c]] /\ waiting[c] \in Seq(Streams!Event)
    BY <1>1, <1>4, <1>t, <2>2, <2>3
  <2>5. c \notin away \cup retired => Streams!Holds((carried[c] \o outgoing[c]) \o waiting[c], since[c], Wishes[c])
    BY <1>c DEF OneStream, Streams!Stream
  <2>6. CASE h = Streams!Probe
    <3>1. carried' = [carried EXCEPT ![c] = carried[c]]
      BY <1>4, <1>t, <2>1, <2>6
    <3>2. PICK q \in Seq(Streams!Line) : q = outgoing[c] \o waiting[c]
      BY <1>t, ConcatProperties
    <3>z. PICK z \in Seq(Streams!Line) : z = outgoing[c] /\ z # <<>>
      BY <1>1, <1>t
    <3>b. PICK b \in Seq(Streams!Line) : b = waiting[c]
      BY <1>t
    <3>r. PICK r \in Seq(Streams!Line) : r = carried[c]
      BY <1>t
    <3>3. o \o b = Tail(q) /\ q # <<>> /\ Head(q) = h
      <4>1. Tail(z) \o b = Tail(z \o b) /\ z \o b # <<>> /\ Head(z \o b) = Head(z)
        BY <3>z, PassingOn
      <4> QED
        BY <2>1, <2>2, <3>2, <3>z, <3>b, <4>1
    <3>4. (carried[c] \o outgoing[c]) \o waiting[c] = carried[c] \o q
      <4>1. (r \o z) \o b = r \o (z \o b)
        BY ConcatAssociative
      <4> QED
        BY <3>2, <3>z, <3>b, <3>r, <4>1
    <3>5. (carried[c] \o o) \o waiting[c] = carried[c] \o Tail(q)
      <4>1. (r \o o) \o b = r \o (o \o b)
        BY <2>3, ConcatAssociative
      <4> QED
        BY <3>3, <3>b, <3>r, <4>1
    <3>6. \A i \in 1 .. Len(since[c]) : since[c][i].kind \in Wishes[c]
      BY <1>c DEF OneStream
    <3>7. c \notin away \cup retired => Streams!Holds((carried[c] \o o) \o waiting[c], since[c], Wishes[c])
      BY <1>t, <2>5, <2>6, <3>3, <3>4, <3>5, <3>6, HoldsWithout
    <3> QED
      BY <1>1, <1>2, <1>4, <1>t, <2>3, <2>4, <3>1, <3>7, StreamMoves
  <2>7. CASE h # Streams!Probe
    <3>1. PICK r : r = Append(carried[c], h)
      OBVIOUS
    <3>2. carried' = [carried EXCEPT ![c] = r] /\ r \in Seq(Streams!Line)
      BY <1>4, <1>t, <2>1, <2>3, <2>7, <3>1, AppendProperties
    <3>3. r \o o = carried[c] \o outgoing[c]
      <4>1. PICK z \in Seq(Streams!Line) : z = outgoing[c] /\ z # <<>>
        BY <1>1, <1>t
      <4>2. PICK a \in Seq(Streams!Line) : a = carried[c]
        BY <1>t
      <4>3. Append(a, Head(z)) \o Tail(z) = a \o z
        BY <4>1, Passing
      <4> QED
        BY <2>1, <2>2, <3>1, <4>1, <4>2, <4>3
    <3>4. Streams!Contains(carried[c], Streams!Ack) => Streams!Contains(r, Streams!Ack)
      <4>1. Len(carried[c]) \in Nat /\ Len(r) = Len(carried[c]) + 1 /\ \A i \in 1 .. Len(carried[c]) : r[i] = carried[c][i]
        BY <1>t, <2>3, <3>1, AppendProperties, LenProperties
      <4> QED
        BY <4>1 DEF Streams!Contains
    <3> QED
      BY <1>1, <1>2, <1>4, <1>t, <2>3, <2>4, <2>5, <3>2, <3>3, <3>4, StreamMoves
  <2> QED
    BY <2>6, <2>7
<1> QED
  BY <1>1, <1>3, <1>4

LEMMA StreamLeave ==
  ASSUME Streams!EventBusAssumption, StreamsInv, NEW c \in Followers, Streams!Leave(c)
  PROVE  StreamsInv'
<1>1. /\ away' = away \cup {c}
      /\ UNCHANGED <<recorded, underway, numbered, living, listed, missed, retired, waiting, round, focus, directories, actual, step, outgoing, carried, stopped, since>>
  BY DEF Streams!Leave, Streams!bus, Streams!context
<1>2. Streams!TypeOK'
  BY <1>1 DEF StreamsInv, Streams!TypeOK
<1>3. ASSUME NEW d \in Followers PROVE OneStream(d)'
  BY <1>1 DEF StreamsInv, OneStream, Streams!Stream
<1> QED
  BY <1>2, <1>3 DEF StreamsInv

LEMMA StreamsNext ==
  ASSUME Streams!EventBusAssumption, StreamsInv, [Streams!Next]_(Streams!vars) PROVE StreamsInv'
<1>1. CASE UNCHANGED Streams!vars
  <2>1. UNCHANGED <<recorded, underway, numbered, living, listed, retired, waiting, missed, round, focus, directories, actual, step, outgoing, carried, away, stopped, since>>
    BY <1>1 DEF Streams!vars, Streams!bus, Streams!context, Streams!streams
  <2>2. Streams!TypeOK'
    BY <2>1 DEF StreamsInv, Streams!TypeOK
  <2>3. ASSUME NEW d \in Followers PROVE OneStream(d)'
    BY <2>1, OtherStreams DEF StreamsInv
  <2> QED
    BY <2>2, <2>3 DEF StreamsInv
<1>2. CASE Streams!Next
  BY <1>2, StreamRecord, StreamDeliver, StreamDrain, StreamStart, StreamEventStep, StreamKeepAlive, StreamWrite, StreamLeave
     DEF Streams!Next, Streams!StreamThread
<1> QED
  BY <1>1, <1>2

-----------------------------------------------------------------------------
(* EventBus: the window's context *)

\* A panel of which a receiver has an event.
Said(l, q) == \E i \in 1 .. Len(q) : q[i].panel = l

\* The panel of the last one.
Final(q, d) == IF q = <<>> THEN d ELSE q[Len(q)].panel

LEMMA SaidMore ==
  ASSUME NEW S, NEW q \in Seq(S), NEW e \in S, NEW d, NEW t
  PROVE  /\ \A l : Said(l, Append(q, e)) <=> Said(l, q) \/ e.panel = l
         /\ Final(Append(q, e), d) = e.panel
         /\ e.kind = t /\ (\A i \in 1 .. Len(q) : q[i].kind = t) =>
              \A i \in 1 .. Len(Append(q, e)) : Append(q, e)[i].kind = t
<1>1. PICK a \in Seq(S) : a = Append(q, e)
  BY AppendProperties
<1>2. PICK n \in Nat : n = Len(q)
  BY LenProperties
<1>3. Len(a) = n + 1 /\ a[n + 1] = e /\ \A i \in 1 .. n : a[i] = q[i]
  BY <1>1, <1>2, AppendProperties
<1>4. ASSUME NEW l PROVE Said(l, a) <=> Said(l, q) \/ e.panel = l
  <2>1. ASSUME Said(l, a) PROVE Said(l, q) \/ e.panel = l
    <3>1. PICK i \in 1 .. n + 1 : a[i].panel = l
      BY <1>3, <2>1 DEF Said
    <3>2. i = n + 1 \/ i \in 1 .. n
      OBVIOUS
    <3> QED
      BY <1>2, <1>3, <3>1, <3>2 DEF Said
  <2>2. ASSUME Said(l, q) PROVE Said(l, a)
    <3>1. PICK i \in 1 .. n : q[i].panel = l
      BY <1>2, <2>2 DEF Said
    <3>2. i \in 1 .. n + 1 /\ a[i].panel = l
      BY <1>3, <3>1
    <3> QED
      BY <1>3, <3>2 DEF Said
  <2>3. ASSUME e.panel = l PROVE Said(l, a)
    <3>1. n + 1 \in 1 .. n + 1 /\ a[n + 1].panel = l
      BY <1>3, <2>3
    <3> QED
      BY <1>3, <3>1 DEF Said
  <2> QED
    BY <2>1, <2>2, <2>3
<1>5. Final(a, d) = e.panel
  <2>1. a # <<>>
    BY <1>3, EmptySeq
  <2> QED
    BY <1>3, <2>1 DEF Final
<1>6. ASSUME e.kind = t, \A i \in 1 .. n : q[i].kind = t PROVE \A i \in 1 .. n + 1 : a[i].kind = t
  <2>1. \A i \in 1 .. n + 1 : i = n + 1 \/ i \in 1 .. n
    OBVIOUS
  <2> QED
    BY <1>3, <1>6, <2>1
<1> QED
  BY <1>1, <1>2, <1>3, <1>4, <1>5, <1>6

LEMMA SaidFirst ==
  ASSUME NEW S, NEW q \in Seq(S), q # <<>>, NEW d, NEW t
  PROVE  /\ \A l : Said(l, q) <=> Said(l, Tail(q)) \/ Head(q).panel = l
         /\ Final(Tail(q), Head(q).panel) = Final(q, d)
         /\ (\A i \in 1 .. Len(q) : q[i].kind = t) =>
              Head(q).kind = t /\ \A i \in 1 .. Len(Tail(q)) : Tail(q)[i].kind = t
<1>1. PICK a \in Seq(S) : a = Tail(q)
  BY HeadTailProperties
<1>2. PICK n \in Nat : n = Len(q)
  BY LenProperties
<1>3. /\ n > 0 /\ Len(a) = n - 1 /\ Head(q) = q[1]
      /\ \A i \in 1 .. n - 1 : a[i] = q[i + 1]
  BY <1>1, <1>2, HeadTailProperties, EmptySeq
<1>4. ASSUME NEW l PROVE Said(l, q) <=> Said(l, a) \/ Head(q).panel = l
  <2>1. ASSUME Said(l, q) PROVE Said(l, a) \/ Head(q).panel = l
    <3>1. PICK i \in 1 .. n : q[i].panel = l
      BY <1>2, <2>1 DEF Said
    <3>2. CASE i = 1
      BY <1>3, <3>1, <3>2
    <3>3. CASE i # 1
      <4>1. i - 1 \in 1 .. n - 1 /\ (i - 1) + 1 = i
        BY <3>3
      <4>2. a[i - 1].panel = l
        BY <1>3, <3>1, <4>1
      <4> QED
        BY <1>3, <4>1, <4>2 DEF Said
    <3> QED
      BY <3>2, <3>3
  <2>2. ASSUME Said(l, a) PROVE Said(l, q)
    <3>1. PICK i \in 1 .. n - 1 : a[i].panel = l
      BY <1>3, <2>2 DEF Said
    <3>2. i + 1 \in 1 .. n /\ q[i + 1].panel = l
      BY <1>3, <3>1
    <3> QED
      BY <1>2, <3>2 DEF Said
  <2>3. ASSUME Head(q).panel = l PROVE Said(l, q)
    <3>1. 1 \in 1 .. n /\ q[1].panel = l
      BY <1>3, <2>3
    <3> QED
      BY <1>2, <3>1 DEF Said
  <2> QED
    BY <2>1, <2>2, <2>3
<1>5. Final(a, Head(q).panel) = Final(q, d)
  <2>1. a = <<>> <=> n = 1
    BY <1>3, EmptySeq
  <2>2. CASE n = 1
    BY <1>2, <1>3, <2>1, <2>2 DEF Final
  <2>3. CASE n # 1
    <3>1. n - 1 \in 1 .. n - 1 /\ (n - 1) + 1 = n
      BY <1>3, <2>3
    <3>2. a[n - 1] = q[n]
      BY <1>3, <3>1
    <3> QED
      BY <1>2, <1>3, <2>1, <2>3, <3>2 DEF Final
  <2> QED
    BY <2>2, <2>3
<1>6. ASSUME \A i \in 1 .. n : q[i].kind = t
      PROVE  Head(q).kind = t /\ \A i \in 1 .. n - 1 : a[i].kind = t
  <2>1. 1 \in 1 .. n /\ \A i \in 1 .. n - 1 : i + 1 \in 1 .. n
    BY <1>3
  <2> QED
    BY <1>3, <1>6, <2>1
<1> QED
  BY <1>1, <1>2, <1>3, <1>4, <1>5, <1>6

LEMMA SaidNone == \A l, d : ~Said(l, <<>>) /\ Final(<<>>, d) = d
<1>1. Len(<<>>) = 0
  BY EmptySeq
<1> QED
  BY <1>1 DEF Said, Final

\* A panel whose exit is delivered: nothing is announced of it any more.
Exiting(l) == underway["gtk"] # Nil /\ underway["gtk"].kind = "panel.exited" /\ underway["gtk"].panel = l
Dead(l) == l \notin living /\ ~Exiting(l)

\* What the receivers hold leads from what is shown to what is true: the last panel focused is
\* the active one unless its exit waits too, and what is not yet shown of a directory waits.
ContextInv ==
  /\ Context!TypeOK
  /\ actual \in [active : Viewed \cup {Nil}, cwds : SUBSET Viewed]
  /\ listed = Context!Topics /\ retired = {}
  /\ \A t \in Context!Topics : \A i \in 1 .. Len(waiting[t]) : waiting[t][i].kind = t
  /\ round # 0 => underway["gtk"] = Nil
  /\ round \in {2, 3} => waiting["panel.focused"] = <<>>
  /\ round = 3 => waiting["panel.exited"] = <<>>
  /\ underway["gtk"] # Nil =>
       (underway["gtk"].panel \in living <=> underway["gtk"].kind # "panel.exited")
  /\ \A l \in Viewed : Said(l, waiting["panel.exited"]) => Dead(l)
  /\ actual.active # Nil => ~Dead(actual.active)
  /\ missed = {} =>
       /\ actual.active =
            IF Said(Final(waiting["panel.focused"], focus), waiting["panel.exited"]) THEN Nil
            ELSE Final(waiting["panel.focused"], focus)
       /\ \A l \in Viewed : ~Dead(l) =>
            (l \in actual.cwds <=> l \in directories \/ Said(l, waiting["terminal.cwd_changed"]))

LEMMA ContextInit == Context!EventBusAssumption /\ Context!Init => ContextInv
<1> SUFFICES ASSUME Context!EventBusAssumption, Context!Init PROVE ContextInv
  OBVIOUS
<1>1. <<>> \in Seq(Context!Event) /\ Len(<<>>) = 0
  BY EmptySeq
<1>2. Context!TypeOK
  BY <1>1 DEF Context!Init, Context!TypeOK, Context!EventBusAssumption, Context!Receivers
<1>3. /\ \A t \in Context!Topics : waiting[t] = <<>>
      /\ focus = Nil /\ directories = {} /\ round = 0 /\ missed = {} /\ living = Viewed
      /\ actual = [active |-> Nil, cwds |-> {}] /\ underway["gtk"] = Nil
      /\ listed = Context!Topics /\ retired = {}
  BY DEF Context!Init, Context!Receivers
<1>4. {"panel.focused", "panel.exited", "terminal.cwd_changed"} \subseteq Context!Topics
  BY DEF Context!Topics
<1>5. Nil \notin Viewed
  BY DEF Context!EventBusAssumption
<1> QED
  BY <1>1, <1>2, <1>3, <1>4, <1>5, SaidNone DEF ContextInv

LEMMA ContextTypes ==
  ASSUME Context!EventBusAssumption, ContextInv
  PROVE  /\ recorded \in Seq(Context!Event) /\ Len(recorded) <= Recalled /\ Recalled \in Nat /\ Recalled # 0
         /\ numbered \in 0 .. MaxShown /\ MaxShown \in Nat /\ Len(recorded) \in Nat
         /\ underway \in [{"gtk"} -> Context!Event \cup {Nil}] /\ living \subseteq Viewed
         /\ waiting \in [Context!Receivers -> Seq(Context!Event)] /\ Context!Receivers = Context!Topics
         /\ \A t \in Context!Topics : Len(waiting[t]) <= ShownCap
         /\ ShownCap \in Nat /\ missed \subseteq Context!Event
         /\ focus \in Viewed \cup {Nil} /\ directories \subseteq Viewed /\ round \in 0 .. 3
         /\ Nil \notin Viewed /\ Nil \notin Context!Event
         /\ Context!Topics = {"panel.focused", "panel.exited", "terminal.cwd_changed"}
         /\ Context!Kinds = {"panel.focused", "panel.exited", "terminal.cwd_changed", "other"}
BY LenProperties DEF ContextInv, Context!TypeOK, Context!EventBusAssumption, Context!Receivers, Context!Topics, Context!Kinds

\* The window records on the thread of its pump, so between its rounds.
LEMMA ContextRecord ==
  ASSUME Context!EventBusAssumption, ContextInv, NEW k \in Context!Kinds, NEW l \in Viewed,
         Context!Record("gtk", k, l)
  PROVE  ContextInv'
<1>1. PICK e : e = [id |-> numbered + 1, kind |-> k, panel |-> l]
  OBVIOUS
<1>2. PICK kept : kept = IF Len(recorded) >= Recalled THEN Tail(recorded) ELSE recorded
  OBVIOUS
<1>3. /\ recorded' = Append(kept, e) /\ underway' = [underway EXCEPT !["gtk"] = e]
      /\ numbered' = numbered + 1 /\ numbered < MaxShown /\ underway["gtk"] = Nil /\ l \in living
      /\ living' = (IF k = "panel.exited" THEN living \ {l} ELSE living)
      /\ round = 0
      /\ UNCHANGED <<listed, missed, retired, waiting, round, focus, directories, actual, step, outgoing, carried, away, stopped, since>>
  BY <1>1, <1>2 DEF Context!Record, Context!context, Context!streams, Context!MayPublish
<1>t. /\ recorded \in Seq(Context!Event) /\ Len(recorded) <= Recalled /\ Recalled \in Nat /\ Recalled # 0
      /\ numbered \in 0 .. MaxShown /\ MaxShown \in Nat /\ Len(recorded) \in Nat
      /\ underway \in [{"gtk"} -> Context!Event \cup {Nil}] /\ living \subseteq Viewed /\ Nil \notin Context!Event
  BY ContextTypes
<1>4. numbered + 1 \in 1 .. MaxShown
  BY <1>3, <1>t
<1>5. e \in Context!Event /\ e.kind = k /\ e.panel = l
  BY <1>1, <1>4 DEF Context!Event
<1>6. kept \in Seq(Context!Event) /\ Len(kept) \in Nat /\ Len(kept) + 1 <= Recalled
  <2>1. CASE Len(recorded) >= Recalled
    <3>1. recorded # <<>>
      BY <1>t, <2>1, EmptySeq
    <3> QED
      BY <1>2, <1>t, <2>1, <3>1, HeadTailProperties
  <2>2. CASE ~(Len(recorded) >= Recalled)
    BY <1>2, <1>t, <2>2
  <2> QED
    BY <2>1, <2>2
<1>7. recorded' \in Seq(Context!Event) /\ Len(recorded') <= Recalled
  BY <1>3, <1>5, <1>6, AppendProperties
<1>8. underway' \in [{"gtk"} -> Context!Event \cup {Nil}] /\ living' \subseteq Viewed /\ numbered' \in 0 .. MaxShown
  BY <1>3, <1>4, <1>5, <1>t
<1>9. Context!TypeOK'
  BY <1>3, <1>7, <1>8 DEF ContextInv, Context!TypeOK
<1>10. underway'["gtk"] = e /\ e # Nil
  BY <1>3, <1>5, <1>t
<1>11. ASSUME NEW m PROVE Dead(m)' <=> Dead(m)
  <2>1. Dead(m) <=> m \notin living
    BY <1>3 DEF Dead, Exiting
  <2>2. Dead(m)' <=> m \notin living' /\ ~(k = "panel.exited" /\ l = m)
    BY <1>5, <1>10 DEF Dead, Exiting
  <2> QED
    BY <1>3, <2>1, <2>2
<1>12. underway'["gtk"].panel \in living' <=> underway'["gtk"].kind # "panel.exited"
  BY <1>3, <1>5, <1>10
<1> QED
  BY <1>3, <1>9, <1>11, <1>12 DEF ContextInv

\* What is delivered is true from then on, and waits to be shown if there is room.
LEMMA ContextDeliver ==
  ASSUME Context!EventBusAssumption, ContextInv, Context!Deliver("gtk")
  PROVE  ContextInv'
<1>1. PICK e : e = underway["gtk"]
  OBVIOUS
<1>2. PICK takes : takes = {r \in {q \in listed : Context!Matches(q, e.kind)} \ retired : ~Context!Full(r)}
  OBVIOUS
<1>3. PICK hit : hit = {q \in listed : Context!Matches(q, e.kind)}
  OBVIOUS
<1>4. /\ e # Nil /\ waiting' = [r \in Context!Receivers |-> IF r \in takes THEN Append(waiting[r], e) ELSE waiting[r]]
      /\ listed' = listed \ (hit \cap retired)
      /\ missed' = missed \cup (IF hit \subseteq takes \cup retired THEN {} ELSE {e})
      /\ actual' = Context!Applied(actual, e)
      /\ since' = [c \in {} |-> IF Context!Contains(carried[c], Context!Ack) /\ e.kind \in <<>>[c]
                                THEN Append(since[c], e) ELSE since[c]]
      /\ underway' = [underway EXCEPT !["gtk"] = Nil]
      /\ UNCHANGED <<recorded, numbered, living, retired, round, focus, directories, step, outgoing, carried, away, stopped>>
  BY <1>1, <1>2, <1>3 DEF Context!Deliver
<1>t. /\ underway \in [{"gtk"} -> Context!Event \cup {Nil}] /\ living \subseteq Viewed
      /\ waiting \in [Context!Receivers -> Seq(Context!Event)] /\ Context!Receivers = Context!Topics
      /\ \A t \in Context!Topics : Len(waiting[t]) <= ShownCap
      /\ ShownCap \in Nat /\ missed \subseteq Context!Event
      /\ focus \in Viewed \cup {Nil} /\ directories \subseteq Viewed /\ round \in 0 .. 3
      /\ Nil \notin Viewed /\ Nil \notin Context!Event
      /\ Context!Topics = {"panel.focused", "panel.exited", "terminal.cwd_changed"}
      /\ Context!Kinds = {"panel.focused", "panel.exited", "terminal.cwd_changed", "other"}
      /\ listed = Context!Topics /\ retired = {}
  BY ContextTypes DEF ContextInv
<1>5. e \in Context!Event /\ e.kind \in Context!Kinds /\ e.panel \in Viewed /\ underway'["gtk"] = Nil
  BY <1>1, <1>4, <1>t DEF Context!Event
<1>6. /\ round = 0 /\ (e.panel \in living <=> e.kind # "panel.exited")
  BY <1>1, <1>4 DEF ContextInv
<1>7. hit = {t \in Context!Topics : t = e.kind} /\ takes = {t \in hit : ~Context!Full(t)}
  BY <1>2, <1>3, <1>t DEF Context!Matches
<1>8. \A t \in Context!Topics :
        waiting'[t] = IF t = e.kind /\ ~Context!Full(t) THEN Append(waiting[t], e) ELSE waiting[t]
  BY <1>4, <1>7, <1>t
<1>9. missed' = {} => missed = {} /\ \A t \in Context!Topics : t = e.kind => ~Context!Full(t)
  BY <1>4, <1>7, <1>t
<1>10. listed' = Context!Topics /\ retired' = {}
  BY <1>4, <1>t
<1>11. \A t \in Context!Topics : waiting[t] \in Seq(Context!Event)
  BY <1>t
<1>12. ASSUME NEW t \in Context!Topics
       PROVE  waiting'[t] \in Seq(Context!Event) /\ Len(waiting'[t]) <= ShownCap
  <2>1. CASE t = e.kind /\ ~Context!Full(t)
    <3>1. waiting'[t] = Append(waiting[t], e)
      BY <1>8, <2>1
    <3>2. Append(waiting[t], e) \in Seq(Context!Event) /\ Len(Append(waiting[t], e)) = Len(waiting[t]) + 1
          /\ Len(waiting[t]) \in Nat
      BY <1>5, <1>11, AppendProperties, LenProperties
    <3>3. ~(Len(waiting[t]) >= ShownCap)
      BY <2>1 DEF Context!Full
    <3> QED
      BY <1>t, <3>1, <3>2, <3>3
  <2>2. CASE ~(t = e.kind /\ ~Context!Full(t))
    BY <1>8, <1>11, <1>t, <2>2
  <2> QED
    BY <2>1, <2>2
<1>13. waiting' \in [Context!Receivers -> Seq(Context!Event)]
  <2>1. \A r \in Context!Receivers : (IF r \in takes THEN Append(waiting[r], e) ELSE waiting[r]) \in Seq(Context!Event)
    BY <1>5, <1>11, <1>t, AppendProperties
  <2> QED
    BY <1>4, <2>1
<1>14. Context!TypeOK'
  <2>1. since' \in [{} -> Seq(Context!Event)]
    BY <1>4
  <2>2. underway' \in [{"gtk"} -> Context!Event \cup {Nil}] /\ missed' \subseteq Context!Event
        /\ listed' \subseteq Context!Receivers
    BY <1>4, <1>5, <1>10, <1>t
  <2> QED
    BY <1>4, <1>12, <1>13, <2>1, <2>2 DEF ContextInv, Context!TypeOK
<1>15. \A m : Dead(m) <=> m \notin living /\ ~(e.kind = "panel.exited" /\ e.panel = m)
  BY <1>1, <1>4 DEF Dead, Exiting
<1>16. \A m : Dead(m)' <=> m \notin living
  BY <1>4, <1>5 DEF Dead, Exiting
<1>17. \A t \in Context!Topics : \A i \in 1 .. Len(waiting'[t]) : waiting'[t][i].kind = t
  <2> SUFFICES ASSUME NEW t \in Context!Topics PROVE \A i \in 1 .. Len(waiting'[t]) : waiting'[t][i].kind = t
    OBVIOUS
  <2>1. PICK q \in Seq(Context!Event) : q = waiting[t]
    BY <1>11
  <2>2. \A i \in 1 .. Len(q) : q[i].kind = t
    BY <2>1 DEF ContextInv
  <2>3. e.kind = t => \A i \in 1 .. Len(Append(q, e)) : Append(q, e)[i].kind = t
    BY <1>5, <2>2, SaidMore
  <2>4. PICK r : r = Append(q, e)
    OBVIOUS
  <2>5. waiting'[t] = IF t = e.kind /\ ~Context!Full(t) THEN r ELSE q
    BY <1>8, <2>1, <2>4
  <2>6. e.kind = t => \A i \in 1 .. Len(r) : r[i].kind = t
    BY <2>3, <2>4
  <2> QED
    BY <2>2, <2>5, <2>6
<1>f. PICK F \in Seq(Context!Event) : F = waiting["panel.focused"]
  BY <1>11, <1>t
<1>x. PICK X \in Seq(Context!Event) : X = waiting["panel.exited"]
  BY <1>11, <1>t
<1>w. PICK W \in Seq(Context!Event) : W = waiting["terminal.cwd_changed"]
  BY <1>11, <1>t
<1>18. /\ waiting'["panel.focused"] = IF e.kind = "panel.focused" /\ ~Context!Full("panel.focused") THEN Append(F, e) ELSE F
       /\ waiting'["panel.exited"] = IF e.kind = "panel.exited" /\ ~Context!Full("panel.exited") THEN Append(X, e) ELSE X
       /\ waiting'["terminal.cwd_changed"] = IF e.kind = "terminal.cwd_changed" /\ ~Context!Full("terminal.cwd_changed") THEN Append(W, e) ELSE W
  BY <1>8, <1>t, <1>f, <1>x, <1>w
<1>19. /\ \A l : Said(l, Append(X, e)) <=> Said(l, X) \/ e.panel = l
       /\ \A l : Said(l, Append(W, e)) <=> Said(l, W) \/ e.panel = l
       /\ Final(Append(F, e), focus) = e.panel
  BY <1>5, SaidMore
<1>20. PICK a \in Viewed \cup {Nil} : a = actual.active
  BY DEF ContextInv
<1>21. PICK C \in SUBSET Viewed : C = actual.cwds
  BY DEF ContextInv
<1>22. actual \in [active : Viewed \cup {Nil}, cwds : SUBSET Viewed] /\ actual = [active |-> a, cwds |-> C]
  BY <1>20, <1>21 DEF ContextInv
<1>23. PICK z : z = Final(F, focus)
  OBVIOUS
<1>24. /\ \A l \in Viewed : Said(l, X) => Dead(l)
       /\ a # Nil => ~Dead(a)
       /\ missed = {} => /\ a = IF Said(z, X) THEN Nil ELSE z
                         /\ \A l \in Viewed : ~Dead(l) => (l \in C <=> l \in directories \/ Said(l, W))
  BY <1>f, <1>x, <1>w, <1>20, <1>21, <1>23 DEF ContextInv
<1>25. \A l \in Viewed : Said(l, waiting'["panel.exited"]) => Dead(l)'
  BY <1>6, <1>15, <1>16, <1>18, <1>19, <1>24
<1>26. /\ actual' = [active |-> actual'.active, cwds |-> actual'.cwds]
       /\ actual'.active = (CASE e.kind = "panel.focused" -> e.panel
                              [] e.kind = "panel.exited" -> (IF a = e.panel THEN Nil ELSE a)
                              [] OTHER -> a)
       /\ actual'.cwds = (CASE e.kind = "panel.exited" -> C \ {e.panel}
                            [] e.kind = "terminal.cwd_changed" -> C \cup {e.panel}
                            [] OTHER -> C)
  <2>1. CASE e.kind = "panel.focused"
    BY <1>4, <1>22, <2>1 DEF Context!Applied
  <2>2. CASE e.kind = "panel.exited"
    BY <1>4, <1>22, <2>2 DEF Context!Applied
  <2>3. CASE e.kind = "terminal.cwd_changed"
    BY <1>4, <1>22, <2>3 DEF Context!Applied
  <2>4. CASE e.kind = "other"
    BY <1>4, <1>22, <2>4 DEF Context!Applied
  <2> QED
    BY <1>5, <1>t, <2>1, <2>2, <2>3, <2>4
<1>27. actual' \in [active : Viewed \cup {Nil}, cwds : SUBSET Viewed]
  <2>1. actual'.active \in Viewed \cup {Nil} /\ actual'.cwds \subseteq Viewed
    BY <1>5, <1>20, <1>21, <1>26
  <2> QED
    BY <1>26, <2>1
<1>28. (actual.active # Nil => ~Dead(actual.active))'
  <2>1. PICK b : b = actual'.active
    OBVIOUS
  <2>2. b # Nil => b \in living
    BY <1>5, <1>6, <1>15, <1>24, <1>26, <1>t, <2>1
  <2>3. living' = living
    BY <1>4
  <2> QED
    BY <2>1, <2>2, <2>3 DEF Dead
<1>29. ASSUME missed' = {}
       PROVE  /\ actual'.active =
                   IF Said(Final(waiting'["panel.focused"], focus'), waiting'["panel.exited"]) THEN Nil
                   ELSE Final(waiting'["panel.focused"], focus')
              /\ \A l \in Viewed : ~Dead(l)' =>
                   (l \in actual'.cwds <=> l \in directories' \/ Said(l, waiting'["terminal.cwd_changed"]))
  <2>1. missed = {} /\ \A t \in Context!Topics : t = e.kind => ~Context!Full(t)
    BY <1>9, <1>29
  <2>2. focus' = focus /\ directories' = directories
    BY <1>4
  <2>3. CASE e.kind = "panel.focused"
    <3>1. waiting'["panel.focused"] = Append(F, e) /\ waiting'["panel.exited"] = X /\ waiting'["terminal.cwd_changed"] = W
      BY <1>18, <1>t, <2>1, <2>3
    <3>2. ~Dead(e.panel) /\ ~Said(e.panel, X)
      BY <1>5, <1>6, <1>15, <1>24, <2>3
    <3> QED
      BY <1>15, <1>16, <1>19, <1>24, <1>26, <2>1, <2>2, <2>3, <3>1, <3>2
  <2>4. CASE e.kind = "panel.exited"
    <3>1. waiting'["panel.focused"] = F /\ waiting'["panel.exited"] = Append(X, e) /\ waiting'["terminal.cwd_changed"] = W
      BY <1>18, <1>t, <2>1, <2>4
    <3>2. actual'.active = IF Said(z, Append(X, e)) THEN Nil ELSE z
      BY <1>5, <1>19, <1>24, <1>26, <1>t, <2>1, <2>4
    <3>3. \A l \in Viewed : ~Dead(l)' => ~Dead(l) /\ l # e.panel
      BY <1>6, <1>15, <1>16, <2>4
    <3>4. \A l \in Viewed : ~Dead(l)' => (l \in C \ {e.panel} <=> l \in directories \/ Said(l, W))
      BY <1>24, <2>1, <3>3
    <3> QED
      BY <1>23, <1>26, <2>2, <2>4, <3>1, <3>2, <3>4
  <2>5. CASE e.kind = "terminal.cwd_changed"
    <3>1. waiting'["panel.focused"] = F /\ waiting'["panel.exited"] = X /\ waiting'["terminal.cwd_changed"] = Append(W, e)
      BY <1>18, <1>t, <2>1, <2>5
    <3>2. \A l \in Viewed : ~Dead(l)' => ~Dead(l)
      BY <1>15, <1>16, <2>5
    <3> QED
      BY <1>19, <1>23, <1>24, <1>26, <2>1, <2>2, <2>5, <3>1, <3>2
  <2>6. CASE e.kind = "other"
    <3>1. waiting'["panel.focused"] = F /\ waiting'["panel.exited"] = X /\ waiting'["terminal.cwd_changed"] = W
      BY <1>18, <2>6
    <3>2. \A l \in Viewed : ~Dead(l)' => ~Dead(l)
      BY <1>15, <1>16, <2>6
    <3> QED
      BY <1>23, <1>24, <1>26, <2>1, <2>2, <2>6, <3>1, <3>2
  <2> QED
    BY <1>5, <1>t, <2>3, <2>4, <2>5, <2>6
<1>30. /\ round' = round /\ round = 0 /\ underway'["gtk"] = Nil
  BY <1>4, <1>5, <1>6
<1> QED
  BY <1>10, <1>14, <1>17, <1>25, <1>27, <1>28, <1>29, <1>30 DEF ContextInv

\* A round shows what waits: the focused panels, then the exits, then the directories.
LEMMA ContextDrain ==
  ASSUME Context!EventBusAssumption, ContextInv, Context!Drain
  PROVE  ContextInv'
<1>1. /\ UNCHANGED <<recorded, underway, numbered, living, listed, missed, retired, actual, step, outgoing, carried, away, stopped, since>>
      /\ Context!Order = <<"panel.focused", "panel.exited", "terminal.cwd_changed">> /\ Len(Context!Order) = 3
      /\ underway["gtk"] = Nil
  BY DEF Context!Drain, Context!bus, Context!streams, Context!Order, Context!MayPump
<1>t. /\ waiting \in [Context!Receivers -> Seq(Context!Event)] /\ Context!Receivers = Context!Topics
      /\ \A t \in Context!Topics : Len(waiting[t]) <= ShownCap
      /\ ShownCap \in Nat
      /\ focus \in Viewed \cup {Nil} /\ directories \subseteq Viewed /\ round \in 0 .. 3
      /\ Nil \notin Viewed
      /\ Context!Topics = {"panel.focused", "panel.exited", "terminal.cwd_changed"}
  BY ContextTypes
<1>d. \A m : Dead(m)' <=> Dead(m)
  BY <1>1 DEF Dead, Exiting
<1>2. CASE /\ UNCHANGED <<waiting, focus, directories>> /\ round' \in 0 .. 3
           /\ round' \in {2, 3} => waiting["panel.focused"] = <<>>
           /\ round' = 3 => waiting["panel.exited"] = <<>>
  <2>1. Context!TypeOK'
    BY <1>1, <1>2 DEF ContextInv, Context!TypeOK
  <2> QED
    BY <1>1, <1>2, <1>d, <2>1 DEF ContextInv
<1>3. ASSUME NEW t \in Context!Topics, t = Context!Order[round], round # 0, waiting[t] # <<>>, round' = round,
             waiting' = [waiting EXCEPT ![t] = Tail(@)],
             LET after == Context!Applied([active |-> focus, cwds |-> directories], Head(waiting[t]))
             IN focus' = after.active /\ directories' = after.cwds
      PROVE  ContextInv'
  <2>1. PICK q \in Seq(Context!Event) : q = waiting[t] /\ q # <<>>
    BY <1>3, <1>t
  <2>2. PICK e \in Context!Event : e = Head(q)
    BY <2>1, HeadTailProperties
  <2>3. /\ Tail(q) \in Seq(Context!Event) /\ Len(Tail(q)) <= ShownCap
    <3>1. Tail(q) \in Seq(Context!Event) /\ Len(Tail(q)) = Len(q) - 1 /\ Len(q) \in Nat
      BY <2>1, HeadTailProperties, LenProperties
    <3> QED
      BY <1>t, <2>1, <3>1
  <2>4. /\ \A l : Said(l, q) <=> Said(l, Tail(q)) \/ e.panel = l
        /\ \A d : Final(Tail(q), e.panel) = Final(q, d)
        /\ e.kind = t /\ \A i \in 1 .. Len(Tail(q)) : Tail(q)[i].kind = t
    <3>1. \A i \in 1 .. Len(q) : q[i].kind = t
      BY <2>1 DEF ContextInv
    <3>2. \A l : Said(l, q) <=> Said(l, Tail(q)) \/ e.panel = l
      BY <2>1, <2>2, SaidFirst
    <3>3. \A d : Final(Tail(q), e.panel) = Final(q, d)
      BY <2>1, <2>2, SaidFirst
    <3>4. e.kind = t /\ \A i \in 1 .. Len(Tail(q)) : Tail(q)[i].kind = t
      BY <2>1, <2>2, <3>1, SaidFirst
    <3> QED
      BY <3>2, <3>3, <3>4
  <2>5. e.panel \in Viewed
    BY DEF Context!Event
  <2>6. \A u \in Context!Topics : waiting'[u] = IF u = t THEN Tail(q) ELSE waiting[u]
    BY <1>3, <1>t, <2>1
  <2>7. /\ focus' = (CASE t = "panel.focused" -> e.panel
                       [] t = "panel.exited" -> (IF focus = e.panel THEN Nil ELSE focus)
                       [] OTHER -> focus)
        /\ directories' = (CASE t = "panel.exited" -> directories \ {e.panel}
                             [] t = "terminal.cwd_changed" -> directories \cup {e.panel}
                             [] OTHER -> directories)
    <3>1. PICK after : after = Context!Applied([active |-> focus, cwds |-> directories], e)
      OBVIOUS
    <3>2. focus' = after.active /\ directories' = after.cwds
      BY <1>3, <2>1, <2>2, <3>1
    <3>3. CASE t = "panel.focused"
      BY <2>4, <3>1, <3>2, <3>3 DEF Context!Applied
    <3>4. CASE t = "panel.exited"
      BY <2>4, <3>1, <3>2, <3>4 DEF Context!Applied
    <3>5. CASE t = "terminal.cwd_changed"
      BY <2>4, <3>1, <3>2, <3>5 DEF Context!Applied
    <3> QED
      BY <1>t, <3>3, <3>4, <3>5
  <2>8. Context!TypeOK'
    <3>1. focus' \in Viewed \cup {Nil} /\ directories' \subseteq Viewed
      BY <1>t, <2>5, <2>7
    <3>2. waiting' \in [Context!Receivers -> Seq(Context!Event)]
      BY <1>3, <1>t, <2>1, <2>3
    <3>3. \A u \in Context!Topics : Len(waiting'[u]) <= ShownCap
      BY <1>t, <2>3, <2>6
    <3> QED
      BY <1>1, <1>3, <3>1, <3>2, <3>3 DEF ContextInv, Context!TypeOK
  <2>9. \A u \in Context!Topics : \A i \in 1 .. Len(waiting'[u]) : waiting'[u][i].kind = u
    <3>1. PICK r : r = Tail(q)
      OBVIOUS
    <3>2. \A i \in 1 .. Len(r) : r[i].kind = t
      BY <2>4, <3>1
    <3>3. \A u \in Context!Topics : waiting'[u] = IF u = t THEN r ELSE waiting[u]
      BY <2>6, <3>1
    <3> QED
      BY <3>2, <3>3 DEF ContextInv
  <2>f. PICK F : F = waiting["panel.focused"]
    OBVIOUS
  <2>x. PICK X : X = waiting["panel.exited"]
    OBVIOUS
  <2>w. PICK W : W = waiting["terminal.cwd_changed"]
    OBVIOUS
  <2>10. PICK z : z = Final(F, focus)
    OBVIOUS
  <2>11. /\ \A l \in Viewed : Said(l, X) => Dead(l)
         /\ missed = {} => /\ actual.active = IF Said(z, X) THEN Nil ELSE z
                           /\ \A l \in Viewed : ~Dead(l) => (l \in actual.cwds <=> l \in directories \/ Said(l, W))
    BY <2>f, <2>x, <2>w, <2>10 DEF ContextInv
  <2>12. /\ waiting'["panel.focused"] = IF t = "panel.focused" THEN Tail(q) ELSE F
         /\ waiting'["panel.exited"] = IF t = "panel.exited" THEN Tail(q) ELSE X
         /\ waiting'["terminal.cwd_changed"] = IF t = "terminal.cwd_changed" THEN Tail(q) ELSE W
    BY <1>t, <2>6, <2>f, <2>x, <2>w
  <2>13. /\ t = "panel.focused" => q = F
         /\ t = "panel.exited" => q = X /\ F = <<>>
         /\ t = "terminal.cwd_changed" => q = W
    <3>1. t = "panel.exited" => round = 2
      BY <1>1, <1>3, <1>t
    <3> QED
      BY <2>1, <2>f, <2>x, <2>w, <3>1 DEF ContextInv
  <2>14. /\ round \in {2, 3} => waiting'["panel.focused"] = <<>>
         /\ round = 3 => waiting'["panel.exited"] = <<>>
    <3>1. (t = "panel.focused" => round = 1) /\ (t = "panel.exited" => round = 2)
      BY <1>1, <1>3, <1>t
    <3> QED
      BY <2>12, <2>f, <2>x, <3>1 DEF ContextInv
  <2>15. \A l \in Viewed : Said(l, waiting'["panel.exited"]) => Dead(l)'
    <3>1. t = "panel.exited" => \A l : Said(l, Tail(q)) => Said(l, X)
      BY <2>4, <2>13
    <3> QED
      BY <1>d, <2>11, <2>12, <3>1
  <2>16. ASSUME missed = {}
         PROVE  /\ actual.active =
                     IF Said(Final(waiting'["panel.focused"], focus'), waiting'["panel.exited"]) THEN Nil
                     ELSE Final(waiting'["panel.focused"], focus')
                /\ \A l \in Viewed : ~Dead(l) =>
                     (l \in actual.cwds <=> l \in directories' \/ Said(l, waiting'["terminal.cwd_changed"]))
    <3>1. CASE t = "panel.focused"
      <4>1. Final(waiting'["panel.focused"], focus') = z /\ waiting'["panel.exited"] = X
            /\ waiting'["terminal.cwd_changed"] = W /\ directories' = directories
        BY <2>4, <2>7, <2>10, <2>12, <2>13, <3>1
      <4> QED
        BY <2>11, <2>16, <4>1
    <3>2. CASE t = "panel.exited"
      <4>1. z = focus /\ Final(waiting'["panel.focused"], focus') = focus'
        BY <2>10, <2>12, <2>13, <3>2, SaidNone
      <4>2. focus' = (IF focus = e.panel THEN Nil ELSE focus) /\ directories' = directories \ {e.panel}
            /\ waiting'["panel.exited"] = Tail(q) /\ waiting'["terminal.cwd_changed"] = W
        BY <2>7, <2>12, <3>2
      <4>3. \A l : Said(l, X) <=> Said(l, Tail(q)) \/ e.panel = l
        BY <2>4, <2>13, <3>2
      <4>4. Dead(e.panel)
        BY <2>5, <2>11, <4>3
      <4>5. actual.active = IF Said(focus', Tail(q)) THEN Nil ELSE focus'
        BY <2>11, <2>16, <4>1, <4>2, <4>3
      <4> QED
        BY <2>11, <2>16, <4>1, <4>2, <4>4, <4>5
    <3>3. CASE t = "terminal.cwd_changed"
      <4>1. Final(waiting'["panel.focused"], focus') = z /\ waiting'["panel.exited"] = X
            /\ waiting'["terminal.cwd_changed"] = Tail(q) /\ directories' = directories \cup {e.panel}
        BY <2>7, <2>10, <2>12, <3>3
      <4>2. \A l : Said(l, W) <=> Said(l, Tail(q)) \/ e.panel = l
        BY <2>4, <2>13, <3>3
      <4> QED
        BY <2>11, <2>16, <4>1, <4>2
    <3> QED
      BY <1>t, <3>1, <3>2, <3>3
  <2> QED
    BY <1>1, <1>3, <1>d, <2>8, <2>9, <2>14, <2>15, <2>16 DEF ContextInv
<1>4. \/ round = 0 /\ round' = 1 /\ UNCHANGED <<focus, directories, waiting>>
      \/ /\ round # 0 /\ waiting[Context!Order[round]] = <<>> /\ round' = (IF round = 3 THEN 0 ELSE round + 1)
         /\ UNCHANGED <<focus, directories, waiting>>
      \/ /\ round # 0 /\ waiting[Context!Order[round]] # <<>> /\ round' = round
         /\ waiting' = [waiting EXCEPT ![Context!Order[round]] = Tail(@)]
         /\ LET after == Context!Applied([active |-> focus, cwds |-> directories], Head(waiting[Context!Order[round]]))
            IN focus' = after.active /\ directories' = after.cwds
  BY <1>1 DEF Context!Drain
<1>5. CASE round = 0 /\ round' = 1 /\ UNCHANGED <<focus, directories, waiting>>
  BY <1>2, <1>5
<1>6. CASE /\ round # 0 /\ waiting[Context!Order[round]] = <<>> /\ round' = (IF round = 3 THEN 0 ELSE round + 1)
           /\ UNCHANGED <<focus, directories, waiting>>
  <2>1. round = 1 \/ round = 2 \/ round = 3
    BY <1>6, <1>t
  <2>2. CASE round = 1
    BY <1>1, <1>2, <1>6, <2>2
  <2>3. CASE round = 2
    <3>1. waiting["panel.focused"] = <<>>
      BY <2>3 DEF ContextInv
    <3> QED
      BY <1>1, <1>2, <1>6, <2>3, <3>1
  <2>4. CASE round = 3
    BY <1>2, <1>6, <2>4
  <2> QED
    BY <2>1, <2>2, <2>3, <2>4
<1>7. CASE /\ round # 0 /\ waiting[Context!Order[round]] # <<>> /\ round' = round
           /\ waiting' = [waiting EXCEPT ![Context!Order[round]] = Tail(@)]
           /\ LET after == Context!Applied([active |-> focus, cwds |-> directories], Head(waiting[Context!Order[round]]))
              IN focus' = after.active /\ directories' = after.cwds
  <2>1. PICK t \in Context!Topics : t = Context!Order[round]
    BY <1>1, <1>7, <1>t
  <2> QED
    BY <1>3, <1>7, <2>1
<1> QED
  BY <1>4, <1>5, <1>6, <1>7

LEMMA ContextNext ==
  ASSUME Context!EventBusAssumption, ContextInv, [Context!Next]_(Context!vars) PROVE ContextInv'
<1>1. CASE UNCHANGED Context!vars
  <2>1. UNCHANGED <<recorded, underway, numbered, living, listed, retired, waiting, missed, round, focus, directories, actual, step, outgoing, carried, away, stopped, since>>
    BY <1>1 DEF Context!vars, Context!bus, Context!context, Context!streams
  <2>2. Context!TypeOK'
    BY <2>1 DEF ContextInv, Context!TypeOK
  <2>3. \A m : Dead(m)' <=> Dead(m)
    BY <2>1 DEF Dead, Exiting
  <2> QED
    BY <2>1, <2>2, <2>3 DEF ContextInv
<1>2. CASE Context!Next
  <2>1. \/ Context!Drain \/ Context!Deliver("gtk")
        \/ \E k \in Context!Kinds, l \in Viewed : Context!Record("gtk", k, l)
    BY <1>2 DEF Context!Next
  <2> QED
    BY <2>1, ContextDrain, ContextDeliver, ContextRecord
<1> QED
  BY <1>1, <1>2

-----------------------------------------------------------------------------

\* A connection that has its ack misses nothing that is delivered from then on, and the triggers
\* are shown what happened, for any number of threads that publish, clients, panels and events
\* and for buffers of any size.
THEOREM StreamsFaithful == Spec => []StreamsAreFaithful
<1> DEFINE Kept == /\ part = "streams" => StreamsInv
                   /\ part = "context" => ContextInv
<1>1. Init => Kept
  <2> SUFFICES ASSUME Init PROVE Kept
    OBVIOUS
  <2>1. CASE part = "streams"
    BY <2>1, StreamsInit, DesktopAssumption DEF Init, DesktopAssumption
  <2>2. CASE part = "context"
    BY <2>2, ContextInit, DesktopAssumption DEF Init, DesktopAssumption
  <2> QED
    BY <2>1, <2>2
<1>2. Kept /\ [Next]_vars => Kept'
  <2> SUFFICES ASSUME Kept, [Next]_vars PROVE Kept'
    OBVIOUS
  <2>1. ASSUME part = "streams" PROVE StreamsInv'
    BY <2>1, Parts, StreamsNext, DesktopAssumption DEF DesktopAssumption
  <2>2. ASSUME part = "context" PROVE ContextInv'
    BY <2>2, Parts, ContextNext, DesktopAssumption DEF DesktopAssumption
  <2> QED
    BY <2>1, <2>2, Parts
<1>3. Kept => StreamsAreFaithful
  <2> SUFFICES ASSUME Kept PROVE StreamsAreFaithful
    OBVIOUS
  <2>1. ASSUME part = "streams" PROVE Streams!TypeOK /\ Streams!AckedStreamIsComplete
    BY <2>1 DEF StreamsInv, OneStream, Streams!AckedStreamIsComplete
  <2>2. ASSUME part = "context" PROVE Context!TypeOK /\ Context!ContextFollows
    <3>1. ContextInv
      BY <2>2
    <3>2. ASSUME round = 0, missed = {}, \A t \in Context!Topics : waiting[t] = <<>>
          PROVE  /\ focus = actual.active
                 /\ focus # Nil => (focus \in directories <=> focus \in actual.cwds)
      <4>1. waiting["panel.focused"] = <<>> /\ waiting["panel.exited"] = <<>> /\ waiting["terminal.cwd_changed"] = <<>>
        BY <3>2 DEF Context!Topics
      <4>2. focus = actual.active
        BY <3>1, <3>2, <4>1, SaidNone DEF ContextInv
      <4>3. focus \in Viewed \cup {Nil}
        BY <3>1 DEF ContextInv, Context!TypeOK
      <4>4. focus # Nil => ~Dead(focus)
        BY <3>1, <4>2 DEF ContextInv
      <4> QED
        BY <3>1, <3>2, <4>1, <4>2, <4>3, <4>4, SaidNone DEF ContextInv
    <3> QED
      BY <3>1, <3>2 DEF ContextInv, Context!ContextFollows
  <2> QED
    BY <2>1, <2>2 DEF StreamsAreFaithful
<1> QED
  BY <1>1, <1>2, <1>3, PTL DEF Spec

=============================================================================
