------------------------------- MODULE EventBus -------------------------------
(***************************************************************************)
(* The event bus with what listens to it besides the triggers: the context *)
(* service, fed from three bounded receivers, and the clients that asked   *)
(* for a stream of events over a socket, fed from unbounded ones.  A       *)
(* publish records the event under one lock and delivers it under another. *)
(* Patterns are the sets of kinds they match (EventPatterns says which).   *)
(***************************************************************************)
EXTENDS Naturals, Sequences, FiniteSets, SequencesExt

CONSTANTS
  Publishers,   \* threads that publish
  Clients,      \* connections that may ask for a stream
  Wanted,       \* [Clients -> kinds its patterns match]
  Panels,       \* panels the context events are about
  MaxEvents,    \* events published
  Buffer,       \* places of a bounded receiver
  HistoryCap,   \* events the history keeps
  WriterCap,    \* lines between a connection and its writer thread
  Server,       \* whose socket it is: the daemon's or the window's
  Nothing

Topics == {"panel.focused", "panel.exited", "terminal.cwd_changed"}
Kinds == Topics \cup {"other"}
Receivers == Topics \cup Clients

VARIABLES
  history,      \* the ring of recorded events, oldest first
  publishing,   \* per publisher the event it has recorded and not delivered
  created,      \* events made so far
  live,         \* panels that have not announced their exit
  subscribed,   \* entries of the bus's list: receivers, dropped ones included
  dropped,      \* receivers whose owner is gone
  queue,        \* per receiver the events waiting in it
  lost,         \* events some full receiver did not take
  pump,         \* which of the three receivers the pump drains, 0 between its rounds
  active, cwds, \* the context service: focused panel, panels with a directory
  truth,        \* history: the same, applied in the order of delivery
  stage,        \* per client how far its stream is
  channel,      \* lines queued for its writer thread
  received,     \* what its socket carried
  gone,         \* clients that have closed their end
  writerDied,   \* writer threads that met an error
  sinceAck      \* history: events delivered after the client had its ack

bus == <<history, publishing, created, live, subscribed, lost>>
context == <<pump, active, cwds, truth>>
streams == <<stage, channel, received, gone, writerDied, sinceAck>>
vars == <<bus, dropped, queue, context, streams>>

Event == [id : 1..MaxEvents, kind : Kinds, panel : Panels]

EventBusAssumption ==
  /\ MaxEvents \in Nat /\ {Buffer, HistoryCap, WriterCap} \subseteq Nat \ {0}
  /\ Server \in {"daemon", "gui"}
  /\ Clients \cap Topics = {} /\ Wanted \in [Clients -> SUBSET Kinds]
  /\ Nothing \notin Panels /\ Nothing \notin Event

Ack == [id |-> 0, kind |-> "ack", panel |-> Nothing]
Probe == [Ack EXCEPT !.kind = "probe"]
Line == Event \cup {Ack, Probe}

TypeOK ==
  /\ history \in Seq(Event) /\ Len(history) <= HistoryCap
  /\ publishing \in [Publishers -> Event \cup {Nothing}]
  /\ created \in 0..MaxEvents /\ live \subseteq Panels
  /\ subscribed \subseteq Receivers /\ dropped \subseteq Clients
  /\ queue \in [Receivers -> Seq(Event)]
  /\ \A t \in Topics : Len(queue[t]) <= Buffer
  /\ lost \subseteq Event
  /\ pump \in 0..3
  /\ active \in Panels \cup {Nothing} /\ cwds \subseteq Panels
  /\ stage \in [Clients -> {"new", "acked", "subscribed", "streaming", "ended"}]
  /\ channel \in [Clients -> Seq(Line)]
  /\ \A c \in Clients : Len(channel[c]) <= WriterCap
  /\ received \in [Clients -> Seq(Line)] /\ sinceAck \in [Clients -> Seq(Event)]
  /\ gone \cup writerDied \subseteq Clients

Init ==
  /\ history = <<>> /\ publishing = [p \in Publishers |-> Nothing]
  /\ created = 0 /\ live = Panels
  /\ subscribed = Topics /\ dropped = {} /\ queue = [r \in Receivers |-> <<>>]
  /\ lost = {}
  /\ pump = 0 /\ active = Nothing /\ cwds = {}
  /\ truth = [active |-> Nothing, cwds |-> {}]
  /\ stage = [c \in Clients |-> "new"] /\ channel = [c \in Clients |-> <<>>]
  /\ received = channel /\ gone = {} /\ writerDied = {} /\ sinceAck = channel

-----------------------------------------------------------------------------
(* EventBus::publish *)

\* The window publishes and pumps on one thread, so never one inside the other.
MayPublish == Server = "daemon" \/ pump = 0
MayPump == Server = "daemon" \/ \A p \in Publishers : publishing[p] = Nothing

\* The event is stamped and recorded; the oldest makes room.
Record(p, kind, panel) ==
  /\ MayPublish /\ publishing[p] = Nothing
  /\ created < MaxEvents /\ panel \in live
  /\ LET event == [id |-> created + 1, kind |-> kind, panel |-> panel]
         kept == IF Len(history) >= HistoryCap THEN Tail(history) ELSE history
     IN history' = Append(kept, event) /\ publishing' = [publishing EXCEPT ![p] = event]
  /\ created' = created + 1
  /\ live' = IF kind = "panel.exited" THEN live \ {panel} ELSE live
  /\ UNCHANGED <<subscribed, dropped, queue, lost, context, streams>>

Matches(r, kind) == IF r \in Topics THEN r = kind ELSE TRUE

\* ContextService::apply_event
Applied(state, event) ==
  CASE event.kind = "panel.focused" -> [state EXCEPT !.active = event.panel]
    [] event.kind = "panel.exited" ->
         [active |-> IF state.active = event.panel THEN Nothing ELSE state.active,
          cwds |-> state.cwds \ {event.panel}]
    [] event.kind = "terminal.cwd_changed" ->
         [state EXCEPT !.cwds = @ \cup {event.panel}]
    [] OTHER -> state

Full(r) == r \in Topics /\ Len(queue[r]) >= Buffer

\* Every receiver of the kind takes it: a full one does not and stays, a dropped
\* one leaves the list.
Deliver(p) ==
  /\ publishing[p] # Nothing
  /\ LET event == publishing[p]
         hit == {r \in subscribed : Matches(r, event.kind)}
         takes == {r \in hit \ dropped : ~Full(r)}
     IN /\ queue' = [r \in Receivers |-> IF r \in takes THEN Append(queue[r], event)
                                         ELSE queue[r]]
        /\ subscribed' = subscribed \ (hit \cap dropped)
        /\ lost' = lost \cup (IF hit \subseteq takes \cup dropped THEN {} ELSE {event})
        /\ truth' = Applied(truth, event)
        /\ sinceAck' = [c \in Clients |->
             IF Contains(received[c], Ack) /\ event.kind \in Wanted[c]
             THEN Append(sinceAck[c], event) ELSE sinceAck[c]]
  /\ publishing' = [publishing EXCEPT ![p] = Nothing]
  /\ UNCHANGED <<history, created, live, dropped, pump, active, cwds, stage, channel,
                 received, gone, writerDied>>

-----------------------------------------------------------------------------
(* PumpState::drain_context_only *)

Order == <<"panel.focused", "panel.exited", "terminal.cwd_changed">>

\* A round empties one receiver after the other, event by event.
Drain ==
  /\ MayPump
  /\ \/ /\ pump = 0 /\ pump' = 1
        /\ UNCHANGED <<active, cwds, queue>>
     \/ /\ pump # 0 /\ queue[Order[pump]] = <<>>
        /\ pump' = IF pump = Len(Order) THEN 0 ELSE pump + 1
        /\ UNCHANGED <<active, cwds, queue>>
     \/ /\ pump # 0 /\ queue[Order[pump]] # <<>>
        /\ LET after == Applied([active |-> active, cwds |-> cwds], Head(queue[Order[pump]]))
           IN active' = after.active /\ cwds' = after.cwds
        /\ queue' = [queue EXCEPT ![Order[pump]] = Tail(@)]
        /\ pump' = pump
  /\ UNCHANGED <<bus, dropped, truth, streams>>

-----------------------------------------------------------------------------
(* event.subscribe *)

Subscribe(c) == subscribed' = subscribed \cup {c}

Mutant_FirstStep(c) ==
  /\ stage[c] = "new"
  /\ channel' = [channel EXCEPT ![c] = <<Ack>>]
  /\ stage' = [stage EXCEPT ![c] = "acked"]
  /\ UNCHANGED <<bus, dropped, queue, context, received, gone, writerDied, sinceAck>>

\* The daemon subscribes, then acknowledges; the window the other way round.
FirstStep(c) ==
  /\ stage[c] = "new"
  /\ IF Server = "daemon"
     THEN /\ Subscribe(c) /\ stage' = [stage EXCEPT ![c] = "subscribed"]
          /\ UNCHANGED received
     ELSE /\ received' = [received EXCEPT ![c] = <<Ack>>]
          /\ stage' = [stage EXCEPT ![c] = "acked"]
          /\ UNCHANGED subscribed
  /\ UNCHANGED <<history, publishing, created, live, lost, dropped, queue, context,
                 channel, gone, writerDied, sinceAck>>

SecondStep(c) ==
  \/ /\ stage[c] = "subscribed"
     /\ stage' = [stage EXCEPT ![c] = "streaming"]
     /\ channel' = [channel EXCEPT ![c] = <<Ack>>]
     /\ UNCHANGED <<bus, dropped, queue, context, received, gone, writerDied, sinceAck>>
  \/ /\ stage[c] = "acked"
     /\ stage' = [stage EXCEPT ![c] = "streaming"]
     /\ Subscribe(c)
     /\ UNCHANGED <<history, publishing, created, live, lost, dropped, queue, context,
                    channel, received, gone, writerDied, sinceAck>>

\* The stream's thread returns, and its receiver is dropped with it.
End(c) ==
  /\ stage' = [stage EXCEPT ![c] = "ended"]
  /\ dropped' = dropped \cup {c}
  /\ queue' = [queue EXCEPT ![c] = <<>>]

\* run_event_subscribe queues a line for the writer thread: it waits for room, and
\* fails once that thread has ended.
Send(c, line) ==
  IF c \in writerDied THEN End(c) /\ UNCHANGED channel
  ELSE /\ Len(channel[c]) < WriterCap
       /\ channel' = [channel EXCEPT ![c] = Append(@, line)]
       /\ UNCHANGED <<stage, dropped>>

\* One event: unwanted ones are skipped.  The window writes to the socket itself
\* and leaves the choice to the client.
StreamEvent(c) ==
  /\ stage[c] = "streaming" /\ queue[c] # <<>>
  /\ LET event == Head(queue[c])
         rest == [queue EXCEPT ![c] = Tail(@)]
     IN CASE Server = "gui" ->
               IF c \in gone THEN End(c) /\ UNCHANGED <<channel, received>>
               ELSE /\ queue' = rest
                    /\ received' = [received EXCEPT ![c] = Append(@, event)]
                    /\ UNCHANGED <<stage, dropped, channel>>
          [] event.kind \notin Wanted[c] ->
               queue' = rest /\ UNCHANGED <<stage, dropped, channel, received>>
          [] OTHER -> /\ Send(c, event) /\ UNCHANGED received
                      /\ c \notin writerDied => queue' = rest
  /\ UNCHANGED <<bus, context, gone, writerDied, sinceAck>>

\* Fifteen quiet seconds: the daemon's thread sends an empty line, to learn of a
\* client that has left.
KeepAlive(c) ==
  /\ Server = "daemon" /\ stage[c] = "streaming" /\ queue[c] = <<>>
  /\ ~Contains(channel[c], Probe)
  /\ Send(c, Probe)
  /\ c \notin writerDied => UNCHANGED queue
  /\ UNCHANGED <<bus, context, received, gone, writerDied, sinceAck>>

\* The connection's writer thread; the client skips empty lines.
Write(c) ==
  /\ channel[c] # <<>>
  /\ IF c \in gone
     THEN /\ writerDied' = writerDied \cup {c} /\ channel' = [channel EXCEPT ![c] = <<>>]
          /\ UNCHANGED received
     ELSE /\ channel' = [channel EXCEPT ![c] = Tail(@)]
          /\ received' = IF Head(channel[c]) = Probe THEN received
                         ELSE [received EXCEPT ![c] = Append(@, Head(channel[c]))]
          /\ UNCHANGED writerDied
  /\ UNCHANGED <<bus, dropped, queue, context, stage, gone, sinceAck>>

Leave(c) ==
  /\ c \notin gone /\ stage[c] # "new"
  /\ gone' = gone \cup {c}
  /\ UNCHANGED <<bus, dropped, queue, context, stage, channel, received, writerDied,
                 sinceAck>>

-----------------------------------------------------------------------------
StreamThread(c) == SecondStep(c) \/ StreamEvent(c) \/ KeepAlive(c)

Next ==
  \/ Drain
  \/ \E p \in Publishers :
       Deliver(p) \/ \E k \in Kinds, l \in Panels : Record(p, k, l)
  \/ \E c \in Clients : FirstStep(c) \/ StreamThread(c) \/ Write(c) \/ Leave(c)

Spec == Init /\ [][Next]_vars

\* A stream's thread and its writer run, and a keep-alive comes due.
Fairness == \A c \in Clients : WF_vars(StreamThread(c)) /\ WF_vars(Write(c))
FairSpec == Spec /\ Fairness

-----------------------------------------------------------------------------
(* Properties *)

Stream(c) == received[c] \o channel[c] \o queue[c]

\* The events `since' are in the stream, in their order, and from the first of them on
\* nothing else is that the client wants.
Holds(stream, since, wanted) ==
  \E place \in [1..Len(since) -> 1..Len(stream)] :
    /\ \A i \in 1..Len(since) : stream[place[i]] = since[i]
    /\ \A i, j \in 1..Len(since) : i < j => place[i] < place[j]
    /\ \A k \in 1..Len(stream) :
         since # <<>> /\ k > place[1] /\ stream[k].kind \in wanted =>
           \E i \in 1..Len(since) : place[i] = k

\* A client that has its ack misses nothing: every event it wants that is delivered
\* from then on is in its stream, once and in the order of delivery ("Subscribe
\* BEFORE the ack so an event published ... is never dropped on the floor").
AckedStreamIsComplete ==
  \A c \in Clients : c \notin gone \cup dropped =>
    Holds(Stream(c), sinceAck[c], Wanted[c])

\* What the triggers are shown as context is what happened, whatever the order the
\* three receivers are drained in, if none was full ("Order across the three is
\* commutative for ContextService's state").
ContextFollows ==
  pump = 0 /\ lost = {} /\ (\A t \in Topics : queue[t] = <<>>) =>
    /\ active = truth.active
    /\ active # Nothing => (active \in cwds <=> active \in truth.cwds)

\* A client that has left does not keep a thread and a receiver for ever.
Left(c) == c \in gone
Ended(c) == stage[c] = "ended"
DeadStreamEnds == \A c \in Clients : Left(c) ~> Ended(c)

-----------------------------------------------------------------------------
(* What the comments say and the code does not do *)

\* "Order across the three is commutative": a directory announced before the exit
\* of its panel is applied after it, and kept for ever.
NoDirectoryOfTheDead ==
  pump = 0 /\ (\A t \in Topics : queue[t] = <<>>) => cwds \subseteq truth.cwds

\* "Recent events in arrival order": two publishers may be recorded in one order
\* and delivered in the other.
HistoryIsArrival ==
  \A c \in Clients : \A i, j \in 1..Len(queue[c]) :
    i < j => queue[c][i].id < queue[c][j].id
=============================================================================
