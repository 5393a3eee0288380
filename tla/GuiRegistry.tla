------------------------------ MODULE GuiRegistry ------------------------------
(***************************************************************************)
(* GUI windows connected to nesttyd (gui_registry.rs and the connection    *)
(* thread of socket.rs): registration, the choice of the primary window,   *)
(* callers whose GUI-owned method is proxied to a window and answered by   *)
(* it, the heartbeat that pings every window, the forwarder that copies    *)
(* bus events to it, and the removal of a window by its heartbeat or by    *)
(* its connection's end of file.                                           *)
(*                                                                         *)
(* A client names one connection of a window; a window that reconnects is  *)
(* another client.  An Invoke is named by who sent it: a call, or <<c, k>> *)
(* for a ping of the heartbeat of c.                                       *)
(***************************************************************************)
EXTENDS Naturals, Sequences, FiniteSets, SequencesExt

CONSTANTS
  Clients,     \* the connections that will send gui.register
  Calls,       \* requests for a GUI-owned method, on other connections
  Methods,     \* the methods they may ask for
  Silenced,    \* those in LEGACY_SILENT_METHODS
  Offers,      \* the sets of methods a window's capabilities may cover
  PingIds,     \* bound: the pings of one heartbeat in flight, answered or late
  WriterCap,   \* bound of the channel to a connection's writer thread
  MaxMisses,   \* max_misses
  NoClient     \* no client: no primary, no target

ASSUME SizesAssumption ==
  /\ IsFiniteSet(Clients) /\ PingIds \subseteq Nat
  /\ WriterCap \in Nat \ {0} /\ MaxMisses \in Nat \ {0}
ASSUME MethodsAssumption == Silenced \subseteq Methods /\ Offers \subseteq SUBSET Methods
ASSUME NamesAssumption ==
  NoClient \notin Clients /\ Calls \cap (Clients \X PingIds) = {}

Pings == Clients \X PingIds
Ids == Calls \cup Pings

\* The lines of a connection that are not an Invoke or the Response to one.
Ack == <<"ack">>
Event == <<"event">>
Reply == <<"reply">>
Publication == <<"_bus.publish">>

ASSUME LinesAssumption == Calls \cap {Ack, Event, Reply, Publication} = {}

VARIABLES
  \* GuiRegistry, and want_primary and the capabilities of each client
  clients, order, primary, wants, serves,
  \* GuiClient: pending, and how far fail_all_pending is after its removal
  pending, leaving,
  \* per connection: lines on their way to the window and from it, the
  \* connection thread, the event forwarder
  writer, socket, conn, forwarder,
  \* the window, and the calls its workers hold
  gui, held,
  \* heartbeat_loop
  heartbeat, misses,
  \* invoke(), per id: where it is, and what its channel holds
  at, reply,
  \* the calls: method, target_client_id, routed client, response
  method, target, to, outcome,
  \* the completions published on the daemon's bus
  bus

registryVars == <<clients, order, primary, wants, serves>>
clientVars == <<pending, leaving>>
connVars == <<writer, socket, conn, forwarder>>
guiVars == <<gui, held>>
beatVars == <<heartbeat, misses>>
invokeVars == <<at, reply>>
callVars == <<method, target, to, outcome, bus>>
vars == <<registryVars, clientVars, connVars, guiVars, beatVars, invokeVars, callVars>>

Lines == Ids \cup {Ack, Event, Reply}
ConnSteps == {"idle", "registered", "acked", "serving", "replying", "closing", "done"}
CallSteps == {"new", "insert", "send", "wait", "publish", "respond", "answered"}
Replies == {"none", "ok", "error", "gui_timeout", "gui_disconnected"}
Outcomes == Replies \cup {"no_gui", "unknown_client"}

RegistryTypes ==
  /\ clients \subseteq Clients /\ order \in Seq(Clients)
  /\ primary \in clients \cup {NoClient}
  /\ wants \subseteq Clients /\ serves \in [Clients -> Offers]
ClientTypes ==
  /\ pending \in [Clients -> SUBSET Ids]
  /\ leaving \in [Clients -> {"no", "take", "cut", "out"}]
ConnTypes ==
  /\ writer \in [Clients -> Seq(Lines)]
  /\ \A c \in Clients : Len(writer[c]) <= WriterCap
  /\ socket \in [Clients -> Seq(Ids \cup {Publication})]
  /\ conn \in [Clients -> ConnSteps]
  /\ forwarder \in [Clients -> {"off", "on", "done"}]
GuiTypes ==
  /\ gui \in [Clients -> {"away", "registering", "reading", "wedged", "gone"}]
  /\ held \in [Clients -> SUBSET Calls]
BeatTypes ==
  /\ heartbeat \in [Clients -> {"off", "on", "done"}]
  /\ misses \in [Clients -> 0 .. MaxMisses - 1]
InvokeTypes == at \in [Ids -> CallSteps] /\ reply \in [Ids -> Replies]
CallTypes ==
  /\ method \in [Calls -> Methods] /\ target \in [Calls -> Clients \cup {NoClient}]
  /\ to \in [Calls -> Clients \cup {NoClient}] /\ outcome \in [Calls -> Outcomes]
  /\ bus \in Seq([req : Calls, action : Methods, kind : {"completed", "failed"}])

TypeOK ==
  /\ RegistryTypes /\ ClientTypes /\ ConnTypes /\ GuiTypes /\ BeatTypes
  /\ InvokeTypes /\ CallTypes

Init ==
  /\ clients = {} /\ order = <<>> /\ primary = NoClient
  /\ wants \in SUBSET Clients /\ serves \in [Clients -> Offers]
  /\ pending = [c \in Clients |-> {}]
  /\ leaving = [c \in Clients |-> "no"]
  /\ writer = [c \in Clients |-> <<>>] /\ socket = [c \in Clients |-> <<>>]
  /\ conn = [c \in Clients |-> "idle"] /\ forwarder = [c \in Clients |-> "off"]
  /\ gui = [c \in Clients |-> "away"] /\ held = [c \in Clients |-> {}]
  /\ heartbeat = [c \in Clients |-> "off"] /\ misses = [c \in Clients |-> 0]
  /\ at = [i \in Ids |-> "new"] /\ reply = [i \in Ids |-> "none"]
  /\ method \in [Calls -> Methods] /\ target \in [Calls -> Clients \cup {NoClient}]
  /\ to = [q \in Calls |-> NoClient] /\ outcome = [q \in Calls |-> "none"]
  /\ bus = <<>>

-----------------------------------------------------------------------------
(* The channel to the writer thread.  Once the socket is closed the thread *)
(* drops whatever it takes from the channel and exits on its first failed  *)
(* write, so a send may still succeed.                                     *)

Closed(c) == gui[c] = "gone"
Room(c) == Len(writer[c]) < WriterCap

\* The line goes in, or into a channel nobody will write from.
Enqueue(c, line) ==
  IF Closed(c)
  THEN writer' = writer
  ELSE Room(c) /\ writer' = [writer EXCEPT ![c] = Append(@, line)]

TrySendFails(c) == Closed(c) \/ ~Room(c)

To(i) == IF i \in Calls THEN to[i] ELSE i[1]

-----------------------------------------------------------------------------
(* GuiRegistry *)

\* Mutant: the forwarder is started here, before the ack.
Mutant_Register(c) ==
  /\ conn[c] = "idle"
  /\ conn' = [conn EXCEPT ![c] = "registered"]
  /\ gui' = [gui EXCEPT ![c] = "registering"]
  /\ clients' = clients \cup {c}
  /\ order' = Append(order, c)
  /\ primary' = IF primary = NoClient /\ c \in wants THEN c ELSE primary
  /\ heartbeat' = [heartbeat EXCEPT ![c] = "on"]
  /\ forwarder' = [forwarder EXCEPT ![c] = "on"]
  /\ UNCHANGED <<wants, serves, clientVars, writer, socket, held, misses, invokeVars,
                 callVars>>

\* register(): the client is in the maps, its heartbeat is running, and the
\* ack is not written yet.
Register(c) ==
  /\ conn[c] = "idle"
  /\ conn' = [conn EXCEPT ![c] = "registered"]
  /\ gui' = [gui EXCEPT ![c] = "registering"]
  /\ clients' = clients \cup {c}
  /\ order' = Append(order, c)
  /\ primary' = IF primary = NoClient /\ c \in wants THEN c ELSE primary
  /\ heartbeat' = [heartbeat EXCEPT ![c] = "on"]
  /\ UNCHANGED <<wants, serves, clientVars, writer, socket, forwarder, held, misses,
                 invokeVars, callVars>>

\* Mutant: the newest client, whether it wants to be primary or not.
Mutant_Newest(s, registered) == IF s = <<>> THEN NoClient ELSE Last(s)

\* The newest registered client that wants to be primary.
Newest(s, registered) ==
  LET wanting == {i \in DOMAIN s : s[i] \in registered \cap wants}
  IN IF wanting = {} THEN NoClient ELSE s[Max(wanting)]

\* Mutant: the primary keeps its place.
Mutant_Unregister(c) ==
  /\ clients' = clients \ {c}
  /\ order' = RemoveFirst(order, c)
  /\ leaving' = [leaving EXCEPT ![c] = IF c \in clients THEN "take" ELSE @]
  /\ UNCHANGED <<primary, wants, serves>>

\* The critical section of unregister(); fail_all_pending follows if the
\* client was still there.
Unregister(c) ==
  /\ clients' = clients \ {c}
  /\ order' = RemoveFirst(order, c)
  /\ primary' = IF primary = c THEN Newest(order', clients') ELSE primary
  /\ leaving' = [leaving EXCEPT ![c] = IF c \in clients THEN "take" ELSE @]
  /\ UNCHANGED <<wants, serves>>

\* fail_all_pending: no Invoke is admitted from here on.
TakePending(c) ==
  /\ leaving[c] = "take"
  /\ leaving' = [leaving EXCEPT ![c] = "cut"]
  /\ reply' = [i \in Ids |-> IF i \in pending[c] THEN "gui_disconnected" ELSE reply[i]]
  /\ pending' = [pending EXCEPT ![c] = {}]
  /\ UNCHANGED <<registryVars, connVars, guiVars, beatVars, at, callVars>>

\* Mutant: the socket is left open.
Mutant_CutConnection(c) ==
  /\ leaving[c] = "cut"
  /\ leaving' = [leaving EXCEPT ![c] = "out"]
  /\ UNCHANGED <<registryVars, pending, connVars, guiVars, beatVars, invokeVars, callVars>>

\* fail_all_pending: shutdown(Both).  Nothing the window still reads or wrote
\* has an effect on the daemon: to it the window is gone.
CutConnection(c) ==
  /\ leaving[c] = "cut"
  /\ leaving' = [leaving EXCEPT ![c] = "out"]
  /\ writer' = [writer EXCEPT ![c] = <<>>]
  /\ socket' = [socket EXCEPT ![c] = <<>>]
  /\ gui' = [gui EXCEPT ![c] = "gone"]
  /\ held' = [held EXCEPT ![c] = {}]
  /\ UNCHANGED <<registryVars, pending, conn, forwarder, beatVars, invokeVars, callVars>>

-----------------------------------------------------------------------------
(* GuiClient::invoke, run by the thread of a call and by the heartbeat *)

\* Mutant: a map that was taken is made anew.
Mutant_Insert(i) ==
  /\ at[i] = "insert"
  /\ pending' = [pending EXCEPT ![To(i)] = @ \cup {i}]
  /\ at' = [at EXCEPT ![i] = "send"]
  /\ UNCHANGED <<registryVars, leaving, connVars, guiVars, beatVars, reply, callVars>>

\* The entry into pending, refused once it was taken.
Insert(i) ==
  LET c == To(i) IN
  /\ at[i] = "insert"
  /\ IF leaving[c] \in {"cut", "out"}
     THEN /\ reply' = [reply EXCEPT ![i] = "gui_disconnected"]
          /\ at' = [at EXCEPT ![i] = "wait"]
          /\ pending' = pending
     ELSE /\ pending' = [pending EXCEPT ![c] = @ \cup {i}]
          /\ at' = [at EXCEPT ![i] = "send"]
          /\ reply' = reply
  /\ UNCHANGED <<registryVars, leaving, connVars, guiVars, beatVars, callVars>>

\* Mutant: send, which waits for room.
Mutant_Send(i) ==
  /\ at[i] = "send"
  /\ at' = [at EXCEPT ![i] = "wait"]
  /\ Enqueue(To(i), i)
  /\ UNCHANGED <<registryVars, clientVars, socket, conn, forwarder, guiVars, beatVars,
                 reply, callVars>>

\* try_send: a full or closed channel is an answer of its own.
Send(i) ==
  LET c == To(i) IN
  /\ at[i] = "send"
  /\ at' = [at EXCEPT ![i] = "wait"]
  /\ \/ /\ Enqueue(c, i)
        /\ UNCHANGED <<pending, reply>>
     \/ /\ TrySendFails(c)
        /\ pending' = [pending EXCEPT ![c] = @ \ {i}]
        /\ reply' = [reply EXCEPT ![i] = "gui_disconnected"]
        /\ writer' = writer
  /\ UNCHANGED <<registryVars, leaving, socket, conn, forwarder, guiVars,
                 beatVars, callVars>>

\* Mutant: the entry stays in pending.
Mutant_TimesOut(i) ==
  /\ at[i] = "wait" /\ reply[i] = "none"
  /\ reply' = [reply EXCEPT ![i] = "gui_timeout"]
  /\ UNCHANGED <<registryVars, clientVars, connVars, guiVars, beatVars, at, callVars>>

\* recv_timeout gives up on a reply that has not come.
TimesOut(i) ==
  LET c == To(i) IN
  /\ at[i] = "wait" /\ reply[i] = "none"
  /\ pending' = [pending EXCEPT ![c] = @ \ {i}]
  /\ reply' = [reply EXCEPT ![i] = "gui_timeout"]
  /\ UNCHANGED <<registryVars, leaving, connVars, guiVars, beatVars, at,
                 callVars>>

-----------------------------------------------------------------------------
(* dispatch of a GUI-owned method *)

\* The client the method is proxied to, or why there is none.
Routed(q) ==
  LET c == IF target[q] = NoClient THEN primary ELSE target[q]
  IN CASE c \notin clients /\ target[q] # NoClient -> "unknown_client"
       [] c \notin clients /\ target[q] = NoClient -> "no_gui"
       [] c \in clients -> IF method[q] \in serves[c] THEN c ELSE "no_gui"

Route(q) ==
  /\ at[q] = "new"
  /\ IF Routed(q) \in Clients
     THEN /\ to' = [to EXCEPT ![q] = Routed(q)]
          /\ at' = [at EXCEPT ![q] = "insert"]
          /\ outcome' = outcome
     ELSE /\ outcome' = [outcome EXCEPT ![q] = Routed(q)]
          /\ at' = [at EXCEPT ![q] = "publish"]
          /\ to' = to
  /\ UNCHANGED <<registryVars, clientVars, connVars, guiVars, beatVars, reply, method,
                 target, bus>>

\* invoke() returns, and its channel and the Arc of the client are dropped.
Returns(q) ==
  /\ at[q] = "wait" /\ reply[q] # "none"
  /\ outcome' = [outcome EXCEPT ![q] = reply[q]]
  /\ reply' = [reply EXCEPT ![q] = "none"]
  /\ to' = [to EXCEPT ![q] = NoClient]
  /\ at' = [at EXCEPT ![q] = "publish"]
  /\ UNCHANGED <<registryVars, clientVars, connVars, guiVars, beatVars, method, target,
                 bus>>

\* Mutant: only success is announced.
Mutant_Publish(q) ==
  /\ at[q] = "publish"
  /\ at' = [at EXCEPT ![q] = "respond"]
  /\ bus' = IF method[q] \in Silenced \/ outcome[q] # "ok" THEN bus
            ELSE Append(bus, [req |-> q, action |-> method[q], kind |-> "completed"])
  /\ UNCHANGED <<registryVars, clientVars, connVars, guiVars, beatVars, reply, method,
                 target, to, outcome>>

\* publish_legacy_completion, before the caller is answered.
Publish(q) ==
  /\ at[q] = "publish"
  /\ at' = [at EXCEPT ![q] = "respond"]
  /\ bus' = IF method[q] \in Silenced THEN bus
            ELSE Append(bus, [req |-> q, action |-> method[q],
                              kind |-> IF outcome[q] = "ok" THEN "completed" ELSE "failed"])
  /\ UNCHANGED <<registryVars, clientVars, connVars, guiVars, beatVars, reply, method,
                 target, to, outcome>>

Respond(q) ==
  /\ at[q] = "respond"
  /\ at' = [at EXCEPT ![q] = "answered"]
  /\ UNCHANGED <<registryVars, clientVars, connVars, guiVars, beatVars, reply, callVars>>

-----------------------------------------------------------------------------
(* heartbeat_loop *)

\* Somebody holds an Arc of the client, so Weak::upgrade succeeds.
Alive(c) ==
  \/ c \in clients \/ leaving[c] \in {"take", "cut"}
  \/ \E q \in Calls : to[q] = c

\* No trace of the id is left: it stands for the new UUID of a ping.
Fresh(i) ==
  \A d \in Clients : ~Contains(writer[d], i) /\ ~Contains(socket[d], i)

\* The sleep is over; one ping at a time.
Ping(c) ==
  /\ heartbeat[c] = "on" /\ Alive(c)
  /\ \A k \in PingIds : at[<<c, k>>] = "new"
  /\ LET fresh == {k \in PingIds : Fresh(<<c, k>>)} IN
       /\ fresh # {}
       /\ at' = [at EXCEPT ![<<c, Min(fresh)>>] = "insert"]
  /\ UNCHANGED <<registryVars, clientVars, connVars, guiVars, beatVars, reply, callVars>>

\* invoke() returned to the heartbeat: a reply resets the misses, the last
\* miss unregisters the client and ends the loop.
Pong(c) ==
  \E k \in PingIds :
    LET i == <<c, k>>
        missed == reply[i] # "ok"
        over == missed /\ misses[c] + 1 >= MaxMisses IN
    /\ at[i] = "wait" /\ reply[i] # "none"
    /\ at' = [at EXCEPT ![i] = "new"]
    /\ reply' = [reply EXCEPT ![i] = "none"]
    /\ misses' = [misses EXCEPT ![c] = IF missed /\ ~over THEN @ + 1 ELSE 0]
    /\ IF over
       THEN heartbeat' = [heartbeat EXCEPT ![c] = "done"] /\ Unregister(c)
       ELSE heartbeat' = heartbeat /\ UNCHANGED <<registryVars, leaving>>
    /\ UNCHANGED <<pending, connVars, guiVars, callVars>>

HeartbeatEnds(c) ==
  /\ heartbeat[c] = "on" /\ ~Alive(c)
  /\ \A k \in PingIds : at[<<c, k>>] = "new"
  /\ heartbeat' = [heartbeat EXCEPT ![c] = "done"]
  /\ UNCHANGED <<registryVars, clientVars, connVars, guiVars, misses, invokeVars, callVars>>

-----------------------------------------------------------------------------
(* The connection thread (handle_connection) and the event forwarder *)

\* send_line of the ack, after register() returned.
SendAck(c) ==
  /\ conn[c] = "registered"
  /\ Enqueue(c, Ack)
  /\ conn' = [conn EXCEPT ![c] = "acked"]
  /\ UNCHANGED <<registryVars, clientVars, socket, forwarder, guiVars, beatVars,
                 invokeVars, callVars>>

\* start_event_forwarder does nothing for a client already unregistered.
StartForwarder(c) ==
  /\ conn[c] = "acked"
  /\ conn' = [conn EXCEPT ![c] = "serving"]
  /\ forwarder' = [forwarder EXCEPT ![c] = IF c \in clients THEN "on" ELSE "done"]
  /\ UNCHANGED <<registryVars, clientVars, writer, socket, guiVars, beatVars,
                 invokeVars, callVars>>

\* An event arrives that did not come over a bridge; a full channel drops it.
Forward(c) ==
  /\ forwarder[c] = "on" /\ Room(c) /\ ~Closed(c)
  /\ Enqueue(c, Event)
  /\ UNCHANGED <<registryVars, clientVars, socket, conn, forwarder, guiVars, beatVars,
                 invokeVars, callVars>>

\* It sees forwarder_stop, a failed upgrade or a closed channel.
ForwarderEnds(c) ==
  /\ forwarder[c] = "on"
  /\ leaving[c] \in {"cut", "out"} \/ ~Alive(c) \/ Closed(c)
  /\ forwarder' = [forwarder EXCEPT ![c] = "done"]
  /\ UNCHANGED <<registryVars, clientVars, writer, socket, conn, guiVars, beatVars,
                 invokeVars, callVars>>

\* A Response goes to the Invoke it names, if the client is still registered
\* and the Invoke still pending; the event of a _bus.publish goes to the bus
\* with a bridge id, which no forwarder sends on, and is replied to next.
Read(c) ==
  /\ conn[c] = "serving" /\ socket[c] # <<>>
  /\ socket' = [socket EXCEPT ![c] = Tail(@)]
  /\ IF Head(socket[c]) = Publication
     THEN /\ conn' = [conn EXCEPT ![c] = "replying"]
          /\ UNCHANGED <<pending, reply>>
     ELSE LET i == Head(socket[c]) IN
          /\ conn' = conn
          /\ IF c \in clients /\ i \in pending[c]
             THEN /\ pending' = [pending EXCEPT ![c] = @ \ {i}]
                  /\ \E r \in IF i \in Calls THEN {"ok", "error"} ELSE {"ok"} :
                       reply' = [reply EXCEPT ![i] = r]
             ELSE UNCHANGED <<pending, reply>>
  /\ UNCHANGED <<registryVars, leaving, writer, forwarder, guiVars, beatVars,
                 at, callVars>>

\* send_line blocks while the channel is full: nothing is read meanwhile.
SendReply(c) ==
  /\ conn[c] = "replying"
  /\ Enqueue(c, Reply)
  /\ conn' = [conn EXCEPT ![c] = "serving"]
  /\ UNCHANGED <<registryVars, clientVars, socket, forwarder, guiVars, beatVars,
                 invokeVars, callVars>>

\* End of file, and the unregister after the loop.
Eof(c) ==
  /\ conn[c] = "serving" /\ Closed(c) /\ socket[c] = <<>>
  /\ conn' = [conn EXCEPT ![c] = "closing"]
  /\ Unregister(c)
  /\ UNCHANGED <<pending, writer, socket, forwarder, guiVars, beatVars,
                 invokeVars, callVars>>

CloseConn(c) ==
  /\ conn[c] = "closing" /\ leaving[c] = "out"
  /\ conn' = [conn EXCEPT ![c] = "done"]
  /\ UNCHANGED <<registryVars, clientVars, writer, socket, forwarder, guiVars, beatVars,
                 invokeVars, callVars>>

-----------------------------------------------------------------------------
(* The window (gui_client.rs): any window that keeps to the protocol, at   *)
(* its own pace; it may stop reading or go away at any time.               *)

\* The first line must be the ack, or the window disconnects; later a ping is
\* answered in line and a call is handed to a worker.
GuiReads(c) ==
  LET line == Head(writer[c]) IN
  /\ gui[c] \in {"registering", "reading"} /\ writer[c] # <<>>
  /\ IF gui[c] = "registering" /\ line # Ack
     THEN /\ gui' = [gui EXCEPT ![c] = "gone"]
          /\ writer' = [writer EXCEPT ![c] = <<>>]
          /\ UNCHANGED <<socket, held>>
     ELSE /\ gui' = [gui EXCEPT ![c] = "reading"]
          /\ writer' = [writer EXCEPT ![c] = Tail(@)]
          /\ socket' = [socket EXCEPT ![c] = IF line \in Pings THEN Append(@, line) ELSE @]
          /\ held' = [held EXCEPT ![c] = IF line \in Calls THEN @ \cup {line} ELSE @]
  /\ UNCHANGED <<registryVars, clientVars, conn, forwarder, beatVars, invokeVars, callVars>>

\* A worker answers a call.
GuiAnswers(c, q) ==
  /\ gui[c] = "reading" /\ q \in held[c]
  /\ held' = [held EXCEPT ![c] = @ \ {q}]
  /\ socket' = [socket EXCEPT ![c] = Append(@, q)]
  /\ UNCHANGED <<registryVars, clientVars, writer, conn, forwarder, gui, beatVars,
                 invokeVars, callVars>>

\* _bus.publish; one of them is on its way at a time.
GuiPublishes(c) ==
  /\ gui[c] = "reading" /\ ~Contains(socket[c], Publication)
  /\ socket' = [socket EXCEPT ![c] = Append(@, Publication)]
  /\ UNCHANGED <<registryVars, clientVars, writer, conn, forwarder, guiVars, beatVars,
                 invokeVars, callVars>>

GuiWedges(c) ==
  /\ gui[c] \in {"registering", "reading"}
  /\ gui' = [gui EXCEPT ![c] = "wedged"]
  /\ held' = [held EXCEPT ![c] = {}]
  /\ UNCHANGED <<registryVars, clientVars, connVars, beatVars, invokeVars, callVars>>

\* The window closes its socket, or finds it closed.
GuiLeaves(c) ==
  /\ gui[c] \in {"registering", "reading", "wedged"}
  /\ gui' = [gui EXCEPT ![c] = "gone"]
  /\ held' = [held EXCEPT ![c] = {}]
  /\ writer' = [writer EXCEPT ![c] = <<>>]
  /\ UNCHANGED <<registryVars, clientVars, socket, conn, forwarder, beatVars, invokeVars,
                 callVars>>

-----------------------------------------------------------------------------
Invoke(i) == Insert(i) \/ Send(i) \/ TimesOut(i)
Proxy(q) == Invoke(q) \/ Returns(q) \/ Publish(q) \/ Respond(q)
Leave(c) == TakePending(c) \/ CutConnection(c)
Serve(c) == SendAck(c) \/ StartForwarder(c) \/ Read(c) \/ SendReply(c) \/ Eof(c)
            \/ CloseConn(c)
Beat(c) == Ping(c) \/ Pong(c) \/ HeartbeatEnds(c)
           \/ \E k \in PingIds : Invoke(<<c, k>>)
Window(c) == GuiReads(c) \/ GuiPublishes(c) \/ GuiWedges(c) \/ GuiLeaves(c)
             \/ \E q \in Calls : GuiAnswers(c, q)

Next ==
  \/ \E q \in Calls : Route(q) \/ Proxy(q)
  \/ \E c \in Clients : Register(c) \/ Serve(c) \/ Leave(c) \/ Beat(c) \/ Window(c)
                        \/ Forward(c) \/ ForwarderEnds(c)

Spec == Init /\ [][Next]_vars

\* Every thread of the daemon runs on; nothing is assumed of a window.
FairSpec ==
  /\ Spec
  /\ \A q \in Calls : WF_vars(Proxy(q))
  /\ \A c \in Clients :
       WF_vars(Serve(c)) /\ WF_vars(Leave(c)) /\ WF_vars(Beat(c))

-----------------------------------------------------------------------------
\* The windows are interchangeable.
Symmetry ==
  {[c \in Clients |-> f[c]] : f \in
     {g \in [Clients -> Clients] : \A c \in Clients : \E d \in Clients : g[d] = c}}
-----------------------------------------------------------------------------
(* Properties *)

\* There is a primary exactly when a registered client wants to be it, and it
\* is one of them (register, unregister under the three locks).
PrimaryServes ==
  /\ primary = NoClient <=> clients \cap wants = {}
  /\ primary # NoClient => primary \in clients \cap wants
  /\ ToSet(order) = clients /\ Len(order) = Cardinality(clients)

\* Once pending was taken, nobody waits for a reply of that client: whoever
\* entered before was answered, and whoever comes later is refused.
NoneWaitsForTheGone ==
  \A c \in Clients : leaving[c] \in {"cut", "out"} =>
    /\ pending[c] = {}
    /\ \A i \in Ids : To(i) = c /\ at[i] = "wait" => reply[i] # "none"

\* Every entry of pending belongs to an invoke() still under way, whatever
\* way the others ended: reply, timeout, full channel or disconnect.
NoLeftovers ==
  \A c \in Clients, i \in Ids :
    i \in pending[c] => To(i) = c /\ at[i] \in {"send", "wait"} /\ reply[i] = "none"

\* Nobody waits for a window that cannot answer, and no window is asked for an
\* answer that nobody waits for (GuiClient::invoke, fail_all_pending).
NoneWaitsInVain == NoLeftovers /\ NoneWaitsForTheGone

\* No event line reaches a window before its register ack, the order
\* start_event_forwarder's comment demands of its caller.
EventsFollowAck ==
  \A c \in Clients : gui[c] = "registering" =>
    \A j \in 1 .. Len(writer[c]) : writer[c][j] = Event =>
      \E k \in 1 .. j : writer[c][k] = Ack

\* Calls go to the primary, which is a registered window that asked to be it while there
\* is one; and no event of the bus reaches a window before its registration's ack, though
\* a call of another client may (AckFirst; register, unregister; daemon socket.rs
\* handle_connection 463, 469).
WindowsAreServed == TypeOK /\ PrimaryServes /\ EventsFollowAck

\* The first line a registering window reads is the ack, which is all that
\* await_register_ack accepts.
AckFirst ==
  \A c \in Clients :
    gui[c] = "registering" /\ writer[c] # <<>> => Head(writer[c]) = Ack

\* A window that stopped reading is unregistered, even when the connection
\* thread is stuck behind its full channel: the heartbeat cannot block.
WedgedIsDropped ==
  \A c \in Clients : gui[c] = "wedged" /\ c \in clients ~> c \notin clients

\* An unregistered client's connection thread comes to its end, wherever it
\* was blocked, because fail_all_pending shuts the socket down.
GoneIsCut == \A c \in Clients : leaving[c] # "no" ~> conn[c] = "done"

\* How far a call is, in the terms of the contract of a registered action.
ContractStage(q) ==
  CASE at[q] \in {"insert", "send", "wait", "publish"} -> "pending"
    [] at[q] = "respond" -> "announced"
    [] OTHER -> at[q]

\* A proxied call keeps the promise of a registered action: one announcement
\* unless it is a silent method, then one answer, always.
Contract == INSTANCE RequestContract WITH
  Requests <- Calls,
  Actions <- Methods,
  stage <- [q \in Calls |-> ContractStage(q)],
  action <- method,
  silent <- [q \in Calls |-> at[q] # "new" /\ method[q] \in Silenced],
  events <- bus

ImplementsContract == Contract!FairSpec
=============================================================================
