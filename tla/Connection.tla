------------------------------ MODULE Connection ------------------------------
(***************************************************************************)
(* One connection to nesttyd's socket (handle_connection of the daemon's   *)
(* socket.rs) and whatever its peer sends, in any order: registrations     *)
(* that are rejected and tried again, publications before and after one, a *)
(* subscription, calls, and lines that end the connection.  Its thread     *)
(* reads and answers one line at a time; a writer thread writes what the   *)
(* channel holds.  The heartbeat may remove a client at any time.          *)
(*                                                                         *)
(* Routing, pings and replies of a window are GuiRegistry's, the history   *)
(* and the order of a stream EventBus's.                                   *)
(***************************************************************************)
EXTENDS Naturals, Sequences, SequenceTheorems, WellFoundedInduction, TLAPS

CONSTANTS
  MaxLines,     \* bound: lines the peer sends
  MaxEvents,    \* bound: events that are followed; later ones are not
  WriterCap     \* bound of the channel to the writer thread

ConnectionAssumption ==
  /\ MaxLines \in Nat \ {0} /\ MaxEvents \in Nat /\ WriterCap \in Nat \ {0}

Clients == 1 .. MaxLines
NoClient == 0
\* The receivers of a connection: its stream's, and its clients' forwarders'.
Stream == 0
Pumps == Clients \cup {Stream}
Events == 1 .. MaxEvents

\* A line as parse_wire and the handlers see it: whose parameters are good.
Lines ==
  [op : {"gui.register", "_bus.publish", "events.publish", "event.subscribe"}, good : BOOLEAN]
  \cup [op : {"call", "unknown"}, good : {TRUE}]
  \cup [op : {"response", "blank", "unreadable"}, good : {TRUE}]

\* What the channel holds beside events: an answer, and the line that probes.
Answer == MaxEvents + 1
Probe == MaxEvents + 2

VARIABLES
  sent, input,      \* lines sent, and the one on its way
  peer,             \* "open" or "gone"
  shut,             \* shutdown(Both) was called
  out, writer,      \* the channel, and whether its thread still writes
  thread, after,    \* the connection thread, and where it is once its answer is queued
  registered,       \* registered_client_id
  handle,           \* shutdown_stream
  client, cuts,     \* a client's place in the registry, and whether it has the handle
  origin,           \* who published an event, "none" for one that is yet to come
  on, feed,         \* receivers that are subscribed, and what they hold
  seen              \* how often the peer read an event

peerVars == <<sent, input, peer>>
wireVars == <<shut, out, writer>>
threadVars == <<thread, after>>
ownVars == <<registered, handle>>
clientVars == <<client, cuts>>
busVars == <<origin, on, feed>>
vars == <<peerVars, wireVars, threadVars, ownVars, clientVars, busVars, seen>>

TypeOK ==
  /\ sent \in 0 .. MaxLines /\ input \in Seq(Lines) /\ Len(input) <= 1
  /\ peer \in {"open", "gone"} /\ shut \in BOOLEAN
  /\ out \in Seq(Events \cup {Answer, Probe}) /\ Len(out) <= WriterCap
  /\ writer \in {"on", "dead"}
  /\ thread \in {"reading", "sending", "forward", "streaming", "closing", "cutting", "done"}
  /\ after \in {"reading", "forward", "streaming", "closing"}
  /\ registered \in Clients \cup {NoClient} /\ handle \in BOOLEAN
  /\ client \in [Clients -> {"none", "in", "removed", "cut"}]
  /\ cuts \in [Clients -> BOOLEAN]
  /\ origin \in [Events -> {"none", "bridged", "external", "internal"}]
  /\ on \subseteq Pumps /\ feed \in [Pumps -> Seq(Events)]
  /\ seen \in [Events -> Nat]

Init ==
  /\ sent = 0 /\ input = <<>> /\ peer = "open" /\ shut = FALSE
  /\ out = <<>> /\ writer = "on" /\ thread = "reading" /\ after = "reading"
  /\ registered = NoClient /\ handle = TRUE
  /\ client = [c \in Clients |-> "none"] /\ cuts = [c \in Clients |-> FALSE]
  /\ origin = [e \in Events |-> "none"]
  /\ on = {} /\ feed = [p \in Pumps |-> <<>>]
  /\ seen = [e \in Events |-> 0]

-----------------------------------------------------------------------------
(* The peer, any program *)

PeerSends(line) ==
  /\ peer = "open" /\ ~shut /\ thread # "done"
  /\ sent < MaxLines /\ input = <<>>
  /\ sent' = sent + 1 /\ input' = <<line>>
  /\ UNCHANGED <<peer, wireVars, threadVars, ownVars, clientVars, busVars, seen>>

PeerLeaves ==
  /\ peer = "open" /\ peer' = "gone"
  /\ UNCHANGED <<sent, input, wireVars, threadVars, ownVars, clientVars, busVars, seen>>

-----------------------------------------------------------------------------
(* The bus *)

Publish(who) ==
  LET e == CHOOSE e \in Events :
             origin[e] = "none" /\ \A f \in Events : f < e => origin[f] # "none" IN
  IF \A f \in Events : origin[f] # "none"
  THEN UNCHANGED busVars
  ELSE /\ origin' = [origin EXCEPT ![e] = who]
       /\ feed' = [p \in Pumps |-> IF p \in on THEN Append(feed[p], e) ELSE feed[p]]
       /\ on' = on

Elsewhere ==
  /\ thread # "done" /\ Publish("internal")
  /\ UNCHANGED <<peerVars, wireVars, threadVars, ownVars, clientVars, seen>>

-----------------------------------------------------------------------------
(* handle_connection: a line is read, and what follows from it happens     *)
(* before its answer is queued.                                            *)

Read(op) ==
  /\ thread = "reading" /\ input # <<>> /\ input[1].op = op
  /\ input' = <<>> /\ UNCHANGED <<sent, peer, wireVars, seen>>

\* The answer to the line read, and what the thread does next.
Say(next) == thread' = "sending" /\ after' = next

\* A client is made of the descriptor the thread holds, which is gone even when
\* handle_gui_register refuses.  (A thread that could not duplicate its descriptor begins
\* without one, as if it had been refused before.)
ReadRegister ==
  LET c == CHOOSE c \in Clients : client[c] = "none" IN
  /\ Read("gui.register")
  /\ IF registered # NoClient
     THEN Say("reading") /\ UNCHANGED <<handle, clientVars>>
     ELSE /\ handle' = FALSE
          /\ IF input[1].good
             THEN /\ Say("forward")
                  /\ client' = [client EXCEPT ![c] = "in"]
                  /\ cuts' = [cuts EXCEPT ![c] = handle]
             ELSE Say("reading") /\ UNCHANGED clientVars
  /\ UNCHANGED <<registered, busVars>>

\* start_event_forwarder, for a client that is still there, after its ack.
StartForwarder ==
  LET c == CHOOSE c \in Clients :
             client[c] # "none" /\ \A d \in Clients : d > c => client[d] = "none" IN
  /\ thread = "forward"
  /\ thread' = "reading" /\ registered' = c
  /\ on' = IF client[c] = "in" THEN on \cup {c} ELSE on
  /\ UNCHANGED <<peerVars, wireVars, after, handle, clientVars, origin, feed, seen>>

\* Events of a window are marked as bridged.
ReadBusPublish ==
  /\ Read("_bus.publish") /\ Say("reading")
  /\ IF registered # NoClient /\ input[1].good THEN Publish("bridged") ELSE UNCHANGED busVars
  /\ UNCHANGED <<ownVars, clientVars>>

ReadEventsPublish ==
  /\ Read("events.publish") /\ Say("reading")
  /\ IF input[1].good THEN Publish("external") ELSE UNCHANGED busVars
  /\ UNCHANGED <<ownVars, clientVars>>

\* Mutant: a registered window may subscribe as well.
Mutant_ReadSubscribe ==
  /\ Read("event.subscribe")
  /\ IF input[1].good
     THEN Say("streaming") /\ on' = on \cup {Stream}
     ELSE Say("reading") /\ on' = on
  /\ UNCHANGED <<origin, feed, ownVars, clientVars>>

\* Subscribed before the ack; nothing is read from then on.
ReadSubscribe ==
  /\ Read("event.subscribe")
  /\ IF registered = NoClient /\ input[1].good
     THEN Say("streaming") /\ on' = on \cup {Stream}
     ELSE Say("reading") /\ on' = on
  /\ UNCHANGED <<origin, feed, ownVars, clientVars>>

\* dispatch, and a line that is neither a request nor a response.
ReadCall ==
  /\ Read("call") \/ Read("unknown")
  /\ Say("reading")
  /\ UNCHANGED <<ownVars, clientVars, busVars>>

\* A Response is resolved, an empty line skipped: neither is answered.
ReadSilently ==
  /\ Read("response") \/ Read("blank")
  /\ UNCHANGED <<threadVars, ownVars, clientVars, busVars>>

\* A frame over the limit or not of UTF-8: an answer, and the end.
ReadUnreadable ==
  /\ Read("unreadable") /\ Say("closing")
  /\ UNCHANGED <<ownVars, clientVars, busVars>>

Eof ==
  /\ thread = "reading" /\ input = <<>> /\ (peer = "gone" \/ shut)
  /\ thread' = "closing"
  /\ UNCHANGED <<peerVars, wireVars, after, ownVars, clientVars, busVars, seen>>

\* A send waits for room, and fails once the writer is dead.
Queue(x) ==
  \/ writer = "dead" /\ out' = out
  \/ writer = "on" /\ Len(out) < WriterCap /\ out' = Append(out, x)

SendLine ==
  /\ thread = "sending" /\ Queue(Answer)
  /\ thread' = after
  /\ UNCHANGED <<peerVars, shut, writer, after, ownVars, clientVars, busVars, seen>>

\* Every wake of run_event_subscribe's recv_timeout: an event that no pattern matches is
\* passed over, another or a probe is sent; a send that fails is its end, and the thread's.
PassOver ==
  /\ thread = "streaming" /\ feed[Stream] # <<>>
  /\ feed' = [feed EXCEPT ![Stream] = Tail(@)]
  /\ UNCHANGED <<peerVars, wireVars, threadVars, ownVars, clientVars, origin, on, seen>>

StreamOn ==
  /\ thread = "streaming"
  /\ Queue(IF feed[Stream] = <<>> THEN Probe ELSE Head(feed[Stream]))
  /\ feed' = [feed EXCEPT ![Stream] = IF @ = <<>> THEN @ ELSE Tail(@)]
  /\ thread' = IF writer = "dead" THEN "done" ELSE thread
  /\ on' = IF writer = "dead" THEN on \ {Stream} ELSE on
  /\ UNCHANGED <<peerVars, shut, writer, after, ownVars, clientVars, origin, seen>>

\* unregister(), of a client that may be gone already.
Close ==
  /\ thread = "closing"
  /\ IF registered # NoClient /\ client[registered] = "in"
     THEN thread' = "cutting" /\ client' = [client EXCEPT ![registered] = "removed"]
     ELSE thread' = "done" /\ client' = client
  /\ UNCHANGED <<peerVars, wireVars, after, ownVars, cuts, busVars, seen>>

Closed ==
  /\ thread = "cutting" /\ client[registered] = "cut"
  /\ thread' = "done"
  /\ UNCHANGED <<peerVars, wireVars, after, ownVars, clientVars, busVars, seen>>

Thread ==
  \/ ReadRegister \/ StartForwarder \/ ReadBusPublish \/ ReadEventsPublish \/ ReadSubscribe
  \/ ReadCall \/ ReadSilently \/ ReadUnreadable \/ Eof
  \/ SendLine \/ PassOver \/ StreamOn \/ Close \/ Closed

-----------------------------------------------------------------------------
(* The writer thread *)

\* The peer reads a line; it need not.
Deliver ==
  /\ writer = "on" /\ out # <<>> /\ peer = "open" /\ ~shut
  /\ out' = Tail(out)
  /\ seen' = [e \in Events |-> IF e = Head(out) THEN seen[e] + 1 ELSE seen[e]]
  /\ UNCHANGED <<peerVars, shut, writer, threadVars, ownVars, clientVars, busVars>>

WriterFails ==
  /\ writer = "on" /\ out # <<>> /\ (peer = "gone" \/ shut)
  /\ writer' = "dead" /\ out' = <<>>
  /\ UNCHANGED <<peerVars, shut, threadVars, ownVars, clientVars, busVars, seen>>

-----------------------------------------------------------------------------
(* The registry's threads *)

\* heartbeat_loop counted the last miss.
HeartbeatRemoves(c) ==
  /\ client[c] = "in"
  /\ client' = [client EXCEPT ![c] = "removed"]
  /\ UNCHANGED <<peerVars, wireVars, threadVars, ownVars, cuts, busVars, seen>>

\* fail_all_pending: the forwarder is told to stop, and the socket is shut down by
\* the handle the client has.
Cut(c) ==
  /\ client[c] = "removed"
  /\ client' = [client EXCEPT ![c] = "cut"]
  /\ shut' = (shut \/ cuts[c])
  /\ UNCHANGED <<peerVars, out, writer, threadVars, ownVars, cuts, busVars, seen>>

\* forwarder_loop: no event that came over a bridge, and none into a full channel.
Forward(c) ==
  LET e == Head(feed[c]) IN
  /\ c \in on /\ client[c] # "cut" /\ feed[c] # <<>>
  /\ feed' = [feed EXCEPT ![c] = Tail(@)]
  /\ out' = IF origin[e] # "bridged" /\ writer = "on" /\ Len(out) < WriterCap
            THEN Append(out, e) ELSE out
  /\ on' = IF origin[e] # "bridged" /\ writer = "dead" THEN on \ {c} ELSE on
  /\ UNCHANGED <<peerVars, shut, writer, threadVars, ownVars, clientVars, origin, seen>>

ForwarderEnds(c) ==
  /\ c \in on /\ client[c] = "cut"
  /\ on' = on \ {c}
  /\ feed' = [feed EXCEPT ![c] = <<>>]
  /\ UNCHANGED <<peerVars, wireVars, threadVars, ownVars, clientVars, origin, seen>>

Next ==
  \/ \E line \in Lines : PeerSends(line)
  \/ PeerLeaves \/ Elsewhere \/ Thread \/ Deliver \/ WriterFails
  \/ \E c \in Clients : HeartbeatRemoves(c) \/ Cut(c) \/ Forward(c) \/ ForwarderEnds(c)

Spec == Init /\ [][Next]_vars

\* Threads run; the peer need not read, write or leave, nor others publish.
FairSpec ==
  Spec /\ WF_vars(Thread) /\ WF_vars(WriterFails) /\ \A c \in Clients : WF_vars(Cut(c))

\* The peer reads whatever it is sent.
ReadingSpec == FairSpec /\ WF_vars(Deliver)

-----------------------------------------------------------------------------
Left == peer = "gone"
Over == thread = "done"

\* However a connection ends, the registry keeps no client of it.
\* (handle_connection: the returns that do not pass by unregister)
NoOrphans == Over => \A c \in Clients : client[c] # "in"

\* The peer reads no event twice, and none that it sent over the bridge.
\* (event.subscribe of a registered window; forwarder_loop)
EventsOnce == \A e \in Events : seen[e] <= IF origin[e] = "bridged" THEN 0 ELSE 1

\* A client that has the handle is removed.
HolderRemoved == \E c \in Clients : client[c] = "removed" /\ cuts[c]

-----------------------------------------------------------------------------
\* What the code does not keep, with MaxLines = 2 under ReadingSpec: the client of a
\* registration that was refused before has no handle.  "Third fd handed to GuiClient so
\* unregister (heartbeat or other) can shutdown(Both) from outside this reader thread"
\* (socket.rs:394).
RemovedIsCut == \A c \in Clients : client[c] = "removed" ~> Over

-----------------------------------------------------------------------------
(* Proofs: for any number of lines, events and places in the channel, and  *)
(* whatever the peer sends, a connection leaves no client behind, and its  *)
(* peer reads no event twice.                                              *)

\* A client is made, and its ack and its forwarder are still to come.
Making == thread = "forward" \/ (thread = "sending" /\ after = "forward")

\* The subscription's ack is to come, or was sent.
Subscribed == thread = "streaming" \/ (thread = "sending" /\ after = "streaming")

\* A connection makes one client at most, and knows it from the ack on.
OneClient ==
  /\ \A c \in Clients : client[c] # "none" => IF Making THEN registered = NoClient ELSE registered = c
  /\ \A c, d \in Clients : client[c] # "none" /\ client[d] # "none" => c = d
  /\ registered # NoClient => client[registered] # "none"
  /\ Making => \E c \in Clients : client[c] # "none"

\* The thread ends when its client was removed, and waits for who removed it.
Removed ==
  /\ thread = "done" => \A c \in Clients : client[c] # "in"
  /\ thread = "cutting" => registered # NoClient /\ client[registered] # "in"

\* A stream has its connection to itself.
Streams ==
  /\ Stream \in on => Subscribed
  /\ feed[Stream] # <<>> => Subscribed \/ thread = "done"
  /\ Subscribed \/ feed[Stream] # <<>> => \A c \in Clients : client[c] = "none"

\* Of all receivers, one client's forwarder or the stream's gets events, ...
Receivers ==
  /\ \A c \in Clients : c \in on \/ feed[c] # <<>> => registered = c
  /\ \A e \in Events : origin[e] = "bridged" => registered # NoClient

\* ... and an event is in one place on its way to the peer.
OnePlace ==
  /\ \A p \in Pumps : \A i, j \in DOMAIN feed[p] : feed[p][i] = feed[p][j] => i = j
  /\ \A i, j \in DOMAIN out : out[i] = out[j] /\ out[i] \in Events => i = j
  /\ \A p \in Pumps : \A i \in DOMAIN feed[p], j \in DOMAIN out : feed[p][i] # out[j]
  /\ \A p \in Pumps : \A i \in DOMAIN feed[p] :
       seen[feed[p][i]] = 0 /\ origin[feed[p][i]] # "none"
  /\ \A j \in DOMAIN out : out[j] \in Events =>
       seen[out[j]] = 0 /\ origin[out[j]] \notin {"none", "bridged"}
  /\ \A e \in Events : seen[e] <= IF origin[e] \in {"none", "bridged"} THEN 0 ELSE 1

IInv == TypeOK /\ OneClient /\ Removed /\ Streams /\ Receivers /\ OnePlace

\* The invariant holds initially.
LEMMA InitInvariant == ConnectionAssumption /\ Init => IInv
<1> SUFFICES ASSUME ConnectionAssumption, Init PROVE IInv
  OBVIOUS
<1> USE DEF Init, ConnectionAssumption
<1>1. TypeOK
  <2>1. <<>> \in Seq(Lines) /\ <<>> \in Seq(Events) /\ <<>> \in Seq(Events \cup {Answer, Probe})
        /\ Len(<<>>) = 0
    BY EmptySeq
  <2>2. sent \in 0 .. MaxLines /\ input \in Seq(Lines) /\ Len(input) <= 1
        /\ out \in Seq(Events \cup {Answer, Probe}) /\ Len(out) <= WriterCap
    BY <2>1
  <2>3. feed \in [Pumps -> Seq(Events)]
    BY <2>1
  <2> QED BY <2>2, <2>3 DEF TypeOK
<1>2. OneClient /\ Removed /\ Streams /\ Receivers
  BY DEF OneClient, Removed, Streams, Receivers, Making, Subscribed, Pumps, Clients, Stream, NoClient
<1>3. OnePlace
  BY DEF OnePlace, Pumps
<1> QED
  BY <1>1, <1>2, <1>3 DEF IInv

-----------------------------------------------------------------------------
(* The operators of the model *)

\* A publication that is followed is of the first event that is yet to come.
LEMMA Publishing ==
  ASSUME NEW who, Publish(who)
  PROVE  \/ UNCHANGED busVars
         \/ \E e \in Events :
              /\ origin[e] = "none" /\ origin' = [origin EXCEPT ![e] = who] /\ on' = on
              /\ feed' = [p \in Pumps |-> IF p \in on THEN Append(feed[p], e) ELSE feed[p]]
<1> DEFINE yet == {e \in Events : origin[e] = "none"}
           First(e) == origin[e] = "none" /\ \A f \in Events : f < e => origin[f] # "none"
<1>1. CASE yet = {}
  BY <1>1 DEF Publish
<1>2. CASE yet # {}
  <2>1. yet \subseteq Nat
    BY DEF Events
  <2>2. PICK e \in yet : \A f \in yet : ~ (<<f, e>> \in OpToRel(<, Nat))
    BY <1>2, <2>1, NatLessThanWellFounded, WFMin
  <2>3. \A f \in yet : ~ (f < e)
    BY <2>1, <2>2 DEF OpToRel
  <2>4. e \in Events /\ First(e)
    BY <2>3
  <2>5. (CHOOSE x \in Events : First(x)) \in Events /\ First(CHOOSE x \in Events : First(x))
    BY <2>4
  <2> QED BY <1>2, <2>5 DEF Publish
<1> QED BY <1>1, <1>2

\* The receiver of every subscriber has one event more after a publication.
LEMMA Feeding ==
  ASSUME TypeOK, NEW e \in Events,
         feed' = [p \in Pumps |-> IF p \in on THEN Append(feed[p], e) ELSE feed[p]]
  PROVE  /\ feed' \in [Pumps -> Seq(Events)]
         /\ \A p \in Pumps \ on : feed'[p] = feed[p]
         /\ \A p \in Pumps \cap on :
              /\ Len(feed'[p]) = Len(feed[p]) + 1 /\ feed'[p][Len(feed[p]) + 1] = e
              /\ \A i \in 1 .. Len(feed[p]) : feed'[p][i] = feed[p][i]
<1>1. \A p \in Pumps : feed[p] \in Seq(Events)
  BY DEF TypeOK
<1>2. ASSUME NEW p \in Pumps
      PROVE  /\ Append(feed[p], e) \in Seq(Events)
             /\ Len(Append(feed[p], e)) = Len(feed[p]) + 1
             /\ Append(feed[p], e)[Len(feed[p]) + 1] = e
             /\ \A i \in 1 .. Len(feed[p]) : Append(feed[p], e)[i] = feed[p][i]
  BY <1>1, AppendProperties
<1> QED BY <1>1, <1>2

\* What a receiver holds without its first event.
LEMMA Taking ==
  ASSUME NEW S, NEW s \in Seq(S), s # <<>>
  PROVE  /\ Tail(s) \in Seq(S) /\ Head(s) \in S /\ Head(s) = s[1] /\ 1 \in DOMAIN s
         /\ Len(Tail(s)) = Len(s) - 1 /\ Len(s) \in Nat \ {0}
         /\ \A i \in DOMAIN Tail(s) : i + 1 \in DOMAIN s /\ Tail(s)[i] = s[i + 1]
<1>1. Len(s) \in Nat /\ DOMAIN s = 1 .. Len(s) /\ Len(s) # 0
  BY LenProperties, EmptySeq
<1>2. Tail(s) \in Seq(S) /\ Head(s) \in S /\ Len(Tail(s)) = Len(s) - 1
      /\ \A i \in 1 .. Len(Tail(s)) : Tail(s)[i] = s[i + 1]
  BY HeadTailProperties
<1>3. DOMAIN Tail(s) = 1 .. Len(s) - 1
  BY <1>2, LenProperties
<1> QED BY <1>1, <1>2, <1>3

\* A line that is queued is the channel's last, or lost.
LEMMA Queueing ==
  ASSUME ConnectionAssumption, TypeOK, NEW x \in Events \cup {Answer, Probe}, Queue(x)
  PROVE  /\ out' \in Seq(Events \cup {Answer, Probe}) /\ Len(out') <= WriterCap
         /\ \/ out' = out
            \/ /\ Len(out') = Len(out) + 1 /\ out'[Len(out) + 1] = x
               /\ \A i \in 1 .. Len(out) : out'[i] = out[i]
<1>1. out \in Seq(Events \cup {Answer, Probe}) /\ Len(out) <= WriterCap /\ Len(out) \in Nat
         /\ WriterCap \in Nat
  BY LenProperties DEF TypeOK, ConnectionAssumption
<1>2. CASE out' = out
  BY <1>1, <1>2
<1>3. CASE Len(out) < WriterCap /\ out' = Append(out, x)
  <2>1. /\ Append(out, x) \in Seq(Events \cup {Answer, Probe}) /\ Len(Append(out, x)) = Len(out) + 1
        /\ \A i \in 1 .. Len(out) : Append(out, x)[i] = out[i]
        /\ Append(out, x)[Len(out) + 1] = x
    BY <1>1, AppendProperties
  <2>2. Len(out') <= WriterCap
    BY <1>1, <1>3, <2>1
  <2> QED BY <1>3, <2>1, <2>2
<1> QED BY <1>2, <1>3 DEF Queue
-----------------------------------------------------------------------------
(* Every step keeps the types *)

\* A publication keeps the types of the bus.
LEMMA BusTypes ==
  ASSUME TypeOK, NEW who \in {"bridged", "external", "internal"},
         Publish(who) \/ UNCHANGED busVars
  PROVE  /\ origin' \in [Events -> {"none", "bridged", "external", "internal"}]
         /\ on' \subseteq Pumps /\ feed' \in [Pumps -> Seq(Events)]
<1>1. CASE UNCHANGED busVars
  BY <1>1 DEF busVars, TypeOK
<1>2. ASSUME NEW e \in Events,
             origin' = [origin EXCEPT ![e] = who], on' = on,
             feed' = [p \in Pumps |-> IF p \in on THEN Append(feed[p], e) ELSE feed[p]]
      PROVE  /\ origin' \in [Events -> {"none", "bridged", "external", "internal"}]
             /\ on' \subseteq Pumps /\ feed' \in [Pumps -> Seq(Events)]
  <2>1. feed' \in [Pumps -> Seq(Events)]
    BY <1>2, Feeding
  <2> QED BY <1>2, <2>1 DEF TypeOK
<1> QED BY <1>1, <1>2, Publishing

\* Reading a line keeps the types of what is read.
LEMMA ReadTypes ==
  ASSUME TypeOK, NEW op, Read(op)
  PROVE  input' \in Seq(Lines) /\ Len(input') <= 1
BY EmptySeq DEF Read

\* A client that is not made yet is there, while none was.
LEMMA NewClient ==
  ASSUME ConnectionAssumption, TypeOK, OneClient, thread = "reading", registered = NoClient
  PROVE  /\ \A c \in Clients : client[c] = "none"
         /\ (CHOOSE c \in Clients : client[c] = "none") \in Clients
<1>1. \A c \in Clients : client[c] = "none"
  BY DEF OneClient, Making, Clients, NoClient
<1>2. 1 \in Clients
  BY DEF ConnectionAssumption, Clients
<1> QED BY <1>1, <1>2

\* The forwarder is that of the one client.
LEMMA LastClient ==
  ASSUME OneClient, thread = "forward"
  PROVE  LET c == CHOOSE c \in Clients :
                    client[c] # "none" /\ \A d \in Clients : d > c => client[d] = "none"
         IN  c \in Clients /\ client[c] # "none"
<1>1. PICK c \in Clients : client[c] # "none"
  BY DEF OneClient, Making
<1>2. \A d \in Clients : d > c => client[d] = "none"
  BY <1>1 DEF OneClient, Clients
<1> QED BY <1>1, <1>2

\* Whatever happens, the types stay.
LEMMA TypeStep ==
  ASSUME ConnectionAssumption, IInv, [Next]_vars
  PROVE  TypeOK'
<1> TypeOK /\ OneClient
  BY DEF IInv
<1> USE DEF peerVars, wireVars, threadVars, ownVars, clientVars, busVars
<1>1. ASSUME NEW line \in Lines, PeerSends(line) PROVE TypeOK'
  <2>1. <<line>> \in Seq(Lines) /\ Len(<<line>>) = 1
    OBVIOUS
  <2>2. sent + 1 \in 0 .. MaxLines
    BY <1>1 DEF PeerSends, TypeOK, ConnectionAssumption
  <2> QED BY <1>1, <2>1, <2>2 DEF PeerSends, TypeOK
<1>2. CASE PeerLeaves
  BY <1>2 DEF PeerLeaves, TypeOK
<1>3. CASE Elsewhere
  BY <1>3, BusTypes DEF Elsewhere, TypeOK
<1>4. CASE ReadRegister
  <2>1. input' \in Seq(Lines) /\ Len(input') <= 1
    BY <1>4, ReadTypes DEF ReadRegister
  <2>2. thread = "reading"
    BY <1>4 DEF ReadRegister, Read
  <2>3. client' \in [Clients -> {"none", "in", "removed", "cut"}] /\ cuts' \in [Clients -> BOOLEAN]
    BY <1>4, <2>2, NewClient DEF ReadRegister, TypeOK
  <2>4. handle' \in BOOLEAN
    BY <1>4 DEF ReadRegister, TypeOK
  <2> QED BY <1>4, <2>1, <2>3, <2>4 DEF ReadRegister, Read, Say, TypeOK
<1>5. CASE StartForwarder
  <2>1. registered' \in Clients /\ on' \subseteq Pumps
    BY <1>5, LastClient DEF StartForwarder, TypeOK, Pumps
  <2> QED BY <1>5, <2>1 DEF StartForwarder, TypeOK
<1>6. CASE ReadBusPublish
  <2>1. input' \in Seq(Lines) /\ Len(input') <= 1
    BY <1>6, ReadTypes DEF ReadBusPublish
  <2>2. Publish("bridged") \/ UNCHANGED busVars
    BY <1>6 DEF ReadBusPublish
  <2> QED BY <1>6, <2>1, <2>2, BusTypes DEF ReadBusPublish, Read, Say, TypeOK
<1>7. CASE ReadEventsPublish
  <2>1. input' \in Seq(Lines) /\ Len(input') <= 1
    BY <1>7, ReadTypes DEF ReadEventsPublish
  <2>2. Publish("external") \/ UNCHANGED busVars
    BY <1>7 DEF ReadEventsPublish
  <2> QED BY <1>7, <2>1, <2>2, BusTypes DEF ReadEventsPublish, Read, Say, TypeOK
<1>8. CASE ReadSubscribe
  <2>1. input' \in Seq(Lines) /\ Len(input') <= 1
    BY <1>8, ReadTypes DEF ReadSubscribe
  <2> QED BY <1>8, <2>1 DEF ReadSubscribe, Read, Say, TypeOK, Pumps
<1>9. CASE ReadCall
  <2>1. input' \in Seq(Lines) /\ Len(input') <= 1
    BY <1>9, ReadTypes DEF ReadCall
  <2> QED BY <1>9, <2>1 DEF ReadCall, Read, Say, TypeOK
<1>10. CASE ReadSilently
  <2>1. input' \in Seq(Lines) /\ Len(input') <= 1
    BY <1>10, ReadTypes DEF ReadSilently
  <2> QED BY <1>10, <2>1 DEF ReadSilently, Read, TypeOK
<1>11. CASE ReadUnreadable
  <2>1. input' \in Seq(Lines) /\ Len(input') <= 1
    BY <1>11, ReadTypes DEF ReadUnreadable
  <2> QED BY <1>11, <2>1 DEF ReadUnreadable, Read, Say, TypeOK
<1>12. CASE Eof
  BY <1>12 DEF Eof, TypeOK
<1>13. CASE SendLine
  <2>1. out' \in Seq(Events \cup {Answer, Probe}) /\ Len(out') <= WriterCap
    BY <1>13, Queueing DEF SendLine
  <2> QED BY <1>13, <2>1 DEF SendLine, TypeOK
<1>14. CASE PassOver
  <2>1. Stream \in Pumps /\ feed[Stream] \in Seq(Events) /\ feed[Stream] # <<>>
    BY <1>14 DEF PassOver, TypeOK, Pumps
  <2>2. Tail(feed[Stream]) \in Seq(Events)
    BY <2>1, Taking
  <2> QED BY <1>14, <2>2 DEF PassOver, TypeOK
<1>15. CASE StreamOn
  <2>1. Stream \in Pumps /\ feed[Stream] \in Seq(Events)
    BY <1>15 DEF StreamOn, TypeOK, Pumps
  <2>2. feed[Stream] # <<>> => Head(feed[Stream]) \in Events /\ Tail(feed[Stream]) \in Seq(Events)
    BY <2>1, Taking
  <2>3. out' \in Seq(Events \cup {Answer, Probe}) /\ Len(out') <= WriterCap
    BY <1>15, <2>2, Queueing DEF StreamOn
  <2>4. feed' \in [Pumps -> Seq(Events)]
    BY <1>15, <2>1, <2>2 DEF StreamOn, TypeOK
  <2> QED BY <1>15, <2>3, <2>4 DEF StreamOn, TypeOK
<1>16. CASE Close
  BY <1>16 DEF Close, TypeOK
<1>17. CASE Closed
  BY <1>17 DEF Closed, TypeOK
<1>18. CASE Deliver
  <2>1. Tail(out) \in Seq(Events \cup {Answer, Probe}) /\ Len(Tail(out)) <= WriterCap
    BY <1>18, Taking DEF Deliver, TypeOK, ConnectionAssumption
  <2>2. seen' \in [Events -> Nat]
    BY <1>18 DEF Deliver, TypeOK
  <2> QED BY <1>18, <2>1, <2>2 DEF Deliver, TypeOK
<1>19. CASE WriterFails
  <2>1. <<>> \in Seq(Events \cup {Answer, Probe}) /\ Len(<<>>) <= WriterCap
    BY EmptySeq DEF ConnectionAssumption
  <2> QED BY <1>19, <2>1 DEF WriterFails, TypeOK
<1>20. ASSUME NEW c \in Clients, HeartbeatRemoves(c) PROVE TypeOK'
  BY <1>20 DEF HeartbeatRemoves, TypeOK
<1>21. ASSUME NEW c \in Clients, Cut(c) PROVE TypeOK'
  BY <1>21 DEF Cut, TypeOK
<1>22. ASSUME NEW c \in Clients, Forward(c) PROVE TypeOK'
  <2>1. c \in Pumps /\ feed[c] \in Seq(Events) /\ feed[c] # <<>>
    BY <1>22 DEF Forward, TypeOK, Pumps
  <2>2. Head(feed[c]) \in Events /\ Tail(feed[c]) \in Seq(Events)
    BY <2>1, Taking
  <2>3. out' \in Seq(Events \cup {Answer, Probe}) /\ Len(out') <= WriterCap
    <3>1. Queue(Head(feed[c])) \/ out' = out
      BY <1>22 DEF Forward, Queue
    <3> QED BY <2>2, <3>1, Queueing DEF TypeOK
  <2>4. feed' \in [Pumps -> Seq(Events)]
    BY <1>22, <2>1, <2>2 DEF Forward, TypeOK
  <2> QED BY <1>22, <2>3, <2>4 DEF Forward, TypeOK
<1>23. ASSUME NEW c \in Clients, ForwarderEnds(c) PROVE TypeOK'
  BY <1>23, EmptySeq DEF ForwarderEnds, TypeOK
<1>24. CASE UNCHANGED vars
  BY <1>24 DEF vars, TypeOK
<1> QED
  BY <1>1, <1>2, <1>3, <1>4, <1>5, <1>6, <1>7, <1>8, <1>9, <1>10, <1>11, <1>12, <1>13, <1>14,
     <1>15, <1>16, <1>17, <1>18, <1>19, <1>20, <1>21, <1>22, <1>23, <1>24 DEF Next, Thread
-----------------------------------------------------------------------------
(* One client, and one who is fed *)

\* Of what a publication writes, only the receivers that are subscribed change.
LEMMA BusSteps ==
  ASSUME TypeOK, NEW who, Publish(who) \/ UNCHANGED busVars
  PROVE  /\ on' = on /\ \A p \in Pumps : feed'[p] # <<>> => p \in on \/ feed[p] # <<>>
         /\ \A e \in Events : origin'[e] = "bridged" => origin[e] = "bridged" \/ who = "bridged"
<1>1. CASE UNCHANGED busVars
  BY <1>1 DEF busVars
<1>2. ASSUME NEW e \in Events,
             origin' = [origin EXCEPT ![e] = who], on' = on,
             feed' = [p \in Pumps |-> IF p \in on THEN Append(feed[p], e) ELSE feed[p]]
      PROVE  /\ \A p \in Pumps : feed'[p] # <<>> => p \in on \/ feed[p] # <<>>
             /\ \A f \in Events : origin'[f] = "bridged" => origin[f] = "bridged" \/ who = "bridged"
  BY <1>2 DEF TypeOK
<1> QED BY <1>1, <1>2, Publishing

\* The four conjuncts after a step that leaves thread, clients and bus alone.
ControlVars == <<threadVars, registered, clientVars, busVars>>

\* Who holds the connection stays one, whatever happens.
LEMMA ControlStep ==
  ASSUME ConnectionAssumption, IInv, [Next]_vars
  PROVE  (OneClient /\ Removed /\ Streams /\ Receivers)'
<1> DEFINE Control == OneClient /\ Removed /\ Streams /\ Receivers
<1> TypeOK /\ Control
  BY DEF IInv
<1>0. NoClient \notin Clients /\ Stream \notin Clients /\ Clients \subseteq Pumps /\ Stream \in Pumps
  BY DEF NoClient, Stream, Clients, Pumps
<1> USE DEF peerVars, wireVars, threadVars, ownVars, clientVars, busVars
<1>a. CASE UNCHANGED ControlVars
  BY <1>a DEF ControlVars, OneClient, Removed, Streams, Receivers, Making, Subscribed
<1>1. ASSUME NEW line \in Lines, PeerSends(line) PROVE Control'
  BY <1>a, <1>1 DEF PeerSends, ControlVars
<1>2. CASE PeerLeaves
  BY <1>a, <1>2 DEF PeerLeaves, ControlVars
<1>b. ASSUME NEW who \in {"bridged", "external", "internal"}, Publish(who) \/ UNCHANGED busVars,
             UNCHANGED <<registered, client>>,
             who = "bridged" => registered # NoClient \/ UNCHANGED busVars,
             \/ UNCHANGED threadVars
             \/ thread = "reading" /\ thread' = "sending" /\ after' = "reading"
      PROVE  Control'
  <2>1. on' = on /\ (\A p \in Pumps : feed'[p] # <<>> => p \in on \/ feed[p] # <<>>)
        /\ \A e \in Events : origin'[e] = "bridged" => origin[e] = "bridged" \/ who = "bridged"
    BY <1>b, BusSteps
  <2>2. /\ Making' <=> Making
        /\ Subscribed' <=> Subscribed
        /\ thread' \in {"done", "cutting"} => thread' = thread
        /\ thread = "done" => thread' = "done"
    BY <1>b DEF Making, Subscribed
  <2>3. (OneClient /\ Removed)'
    BY <1>b, <2>2 DEF OneClient, Removed
  <2>4. Streams'
    BY <1>0, <1>b, <2>1, <2>2 DEF Streams
  <2>5. Receivers'
    BY <1>0, <1>b, <2>1 DEF Receivers
  <2> QED BY <2>3, <2>4, <2>5
<1>3. CASE Elsewhere
  BY <1>3, <1>b DEF Elsewhere
<1>4. CASE ReadRegister
  <2>1. CASE registered # NoClient \/ ~input[1].good
    <3>1. /\ thread = "reading" /\ thread' = "sending" /\ after' = "reading"
          /\ UNCHANGED <<registered, client, busVars>>
      BY <1>4, <2>1 DEF ReadRegister, Read, Say
    <3> QED BY <1>b, <3>1
  <2>2. CASE registered = NoClient /\ input[1].good
    <3> DEFINE c == CHOOSE c \in Clients : client[c] = "none"
    <3>1. /\ thread = "reading" /\ thread' = "sending" /\ after' = "forward"
          /\ client' = [client EXCEPT ![c] = "in"] /\ registered' = NoClient
          /\ UNCHANGED busVars
      BY <1>4, <2>2 DEF ReadRegister, Read, Say
    <3>2. c \in Clients /\ \A d \in Clients : client[d] = "none"
      BY <2>2, <3>1, NewClient
    <3> HIDE DEF c
    <3>3. client'[c] = "in" /\ \A d \in Clients : d # c => client'[d] = "none"
      BY <3>1, <3>2 DEF TypeOK
    <3>4. Making' /\ ~Subscribed' /\ ~Subscribed
      BY <3>1 DEF Making, Subscribed
    <3>5. (OneClient /\ Removed)'
      BY <3>1, <3>2, <3>3, <3>4 DEF OneClient, Removed
    <3>6. Streams'
      BY <3>1, <3>4 DEF Streams
    <3>7. Receivers'
      BY <3>1, <2>2 DEF Receivers
    <3> QED BY <3>5, <3>6, <3>7
  <2> QED BY <2>1, <2>2
<1>5. CASE StartForwarder
  <2> DEFINE c == CHOOSE c \in Clients :
                    client[c] # "none" /\ \A d \in Clients : d > c => client[d] = "none"
  <2>1. c \in Clients /\ client[c] # "none"
    BY <1>5, LastClient DEF StartForwarder
  <2>2. /\ thread = "forward" /\ thread' = "reading" /\ registered' = c
        /\ on' = IF client[c] = "in" THEN on \cup {c} ELSE on
        /\ UNCHANGED <<client, origin, feed>>
    BY <1>5 DEF StartForwarder
  <2> HIDE DEF c
  <2>3. Making /\ ~Making' /\ ~Subscribed /\ ~Subscribed'
    BY <2>2 DEF Making, Subscribed
  <2>4. (OneClient /\ Removed)'
    BY <1>0, <2>1, <2>2, <2>3 DEF OneClient, Removed
  <2>5. Streams'
    BY <1>0, <2>1, <2>2, <2>3 DEF Streams
  <2>6. Receivers'
    BY <1>0, <2>1, <2>2, <2>3 DEF Receivers, OneClient
  <2> QED BY <2>4, <2>5, <2>6
<1>6. CASE ReadBusPublish
  <2>1. Publish("bridged") \/ UNCHANGED busVars
    BY <1>6 DEF ReadBusPublish
  <2>2. /\ thread = "reading" /\ thread' = "sending" /\ after' = "reading"
        /\ UNCHANGED <<registered, client>> /\ (registered # NoClient \/ UNCHANGED busVars)
    BY <1>6 DEF ReadBusPublish, Read, Say
  <2> QED BY <1>b, <2>1, <2>2
<1>7. CASE ReadEventsPublish
  <2>1. Publish("external") \/ UNCHANGED busVars
    BY <1>7 DEF ReadEventsPublish
  <2>2. /\ thread = "reading" /\ thread' = "sending" /\ after' = "reading"
        /\ UNCHANGED <<registered, client>>
    BY <1>7 DEF ReadEventsPublish, Read, Say
  <2> QED BY <1>b, <2>1, <2>2
<1>8. CASE ReadSubscribe
  <2>1. CASE ~(registered = NoClient /\ input[1].good)
    <3>1. /\ thread = "reading" /\ thread' = "sending" /\ after' = "reading"
          /\ UNCHANGED <<registered, client, busVars>>
      BY <1>8, <2>1 DEF ReadSubscribe, Read, Say
    <3> QED BY <1>b, <3>1
  <2>2. CASE registered = NoClient /\ input[1].good
    <3>1. /\ thread = "reading" /\ thread' = "sending" /\ after' = "streaming"
          /\ on' = on \cup {Stream} /\ UNCHANGED <<registered, client, origin, feed>>
      BY <1>8, <2>2 DEF ReadSubscribe, Read, Say
    <3>2. \A d \in Clients : client[d] = "none"
      BY <2>2, <3>1, NewClient
    <3>3. ~Making /\ ~Making' /\ Subscribed'
      BY <3>1 DEF Making, Subscribed
    <3> QED BY <1>0, <3>1, <3>2, <3>3, <2>2 DEF OneClient, Removed, Streams, Receivers
  <2> QED BY <2>1, <2>2
<1>9. CASE ReadCall
  BY <1>9, <1>b DEF ReadCall, Read, Say
<1>10. CASE ReadSilently
  BY <1>a, <1>10 DEF ReadSilently, Read, ControlVars
<1>11. CASE ReadUnreadable
  BY <1>0, <1>11 DEF ReadUnreadable, Read, Say, OneClient, Removed, Streams, Receivers, Making, Subscribed
<1>12. CASE Eof
  BY <1>0, <1>12 DEF Eof, OneClient, Removed, Streams, Receivers, Making, Subscribed
<1>13. CASE SendLine
  BY <1>0, <1>13 DEF SendLine, OneClient, Removed, Streams, Receivers, Making, Subscribed, TypeOK
<1>14. CASE PassOver
  <2>1. /\ UNCHANGED <<threadVars, registered, client, origin, on>>
        /\ \A p \in Pumps : feed'[p] # <<>> => feed[p] # <<>>
    BY <1>0, <1>14 DEF PassOver, TypeOK
  <2> QED BY <1>0, <2>1 DEF OneClient, Removed, Streams, Receivers, Making, Subscribed
<1>15. CASE StreamOn
  <2>1. /\ thread = "streaming" /\ thread' \in {"streaming", "done"}
        /\ on' \subseteq on /\ (thread' = "done" => Stream \notin on')
        /\ UNCHANGED <<after, registered, client, origin>>
        /\ \A p \in Pumps : feed'[p] # <<>> => feed[p] # <<>>
    BY <1>0, <1>15 DEF StreamOn, TypeOK
  <2> QED BY <1>0, <2>1 DEF OneClient, Removed, Streams, Receivers, Making, Subscribed
<1>16. CASE Close
  <2>1. CASE registered # NoClient /\ client[registered] = "in"
    BY <1>0, <1>16, <2>1 DEF Close, OneClient, Removed, Streams, Receivers, Making, Subscribed, TypeOK
  <2>2. CASE ~(registered # NoClient /\ client[registered] = "in")
    <3>1. /\ thread = "closing" /\ thread' = "done"
          /\ UNCHANGED <<after, registered, client, busVars>>
      BY <1>16, <2>2 DEF Close
    <3>2. ~Making /\ ~Making' /\ ~Subscribed /\ ~Subscribed'
      BY <3>1 DEF Making, Subscribed
    <3>3. \A c \in Clients : client[c] # "in"
      BY <1>0, <2>2, <3>2 DEF OneClient
    <3> QED BY <3>1, <3>2, <3>3 DEF OneClient, Removed, Streams, Receivers
  <2> QED BY <2>1, <2>2
<1>17. CASE Closed
  BY <1>0, <1>17 DEF Closed, OneClient, Removed, Streams, Receivers, Making, Subscribed, TypeOK
<1>18. CASE Deliver
  BY <1>a, <1>18 DEF Deliver, ControlVars
<1>19. CASE WriterFails
  BY <1>a, <1>19 DEF WriterFails, ControlVars
<1>c. ASSUME NEW c \in Clients, client[c] # "none", NEW after1 \in {"removed", "cut"},
             client' = [client EXCEPT ![c] = after1], UNCHANGED <<threadVars, registered, busVars>>
      PROVE  Control'
  <2>1. \A d \in Clients : /\ client'[d] = "none" <=> client[d] = "none"
                           /\ client'[d] = "in" => client[d] = "in"
    BY <1>c DEF TypeOK
  <2>2. thread = "cutting" => registered \in Clients
    BY DEF Removed, TypeOK
  <2>3. registered # NoClient => registered \in Clients
    BY DEF TypeOK
  <2> QED BY <1>c, <2>1, <2>2, <2>3 DEF OneClient, Removed, Streams, Receivers, Making, Subscribed
<1>20. ASSUME NEW c \in Clients, HeartbeatRemoves(c) PROVE Control'
  BY <1>20, <1>c DEF HeartbeatRemoves
<1>21. ASSUME NEW c \in Clients, Cut(c) PROVE Control'
  BY <1>21, <1>c DEF Cut
<1>22. ASSUME NEW c \in Clients, Forward(c) PROVE Control'
  <2>1. /\ UNCHANGED <<threadVars, registered, client, origin>> /\ on' \subseteq on
        /\ \A p \in Pumps : feed'[p] # <<>> => feed[p] # <<>>
    BY <1>0, <1>22 DEF Forward, TypeOK
  <2> QED BY <1>0, <2>1 DEF OneClient, Removed, Streams, Receivers, Making, Subscribed
<1>23. ASSUME NEW c \in Clients, ForwarderEnds(c) PROVE Control'
  <2>1. /\ UNCHANGED <<threadVars, registered, client, origin>> /\ on' \subseteq on
        /\ \A p \in Pumps : feed'[p] # <<>> => feed[p] # <<>>
    BY <1>0, <1>23 DEF ForwarderEnds, TypeOK
  <2> QED BY <1>0, <2>1 DEF OneClient, Removed, Streams, Receivers, Making, Subscribed
<1>24. CASE UNCHANGED vars
  BY <1>a, <1>24 DEF vars, ControlVars
<1> QED
  BY <1>1, <1>2, <1>3, <1>4, <1>5, <1>6, <1>7, <1>8, <1>9, <1>10, <1>11, <1>12, <1>13, <1>14,
     <1>15, <1>16, <1>17, <1>18, <1>19, <1>20, <1>21, <1>22, <1>23, <1>24 DEF Next, Thread
-----------------------------------------------------------------------------
(* An event is in one place *)

\* Of all receivers one holds events.
LEMMA OneFed ==
  ASSUME TypeOK, OneClient, Streams, Receivers,
         NEW p \in Pumps, NEW q \in Pumps, feed[p] # <<>>, feed[q] # <<>>
  PROVE  p = q
<1>1. \A c \in Clients : feed[c] # <<>> => registered = c /\ client[c] # "none"
  BY DEF Receivers, OneClient, Clients, NoClient
<1> QED BY <1>1 DEF Streams, Pumps

\* The channel and the receivers have positions.
LEMMA Positions ==
  ASSUME TypeOK
  PROVE  /\ Len(out) \in Nat /\ DOMAIN out = 1 .. Len(out)
         /\ \A p \in Pumps : feed[p] \in Seq(Events) /\ Len(feed[p]) \in Nat
                             /\ DOMAIN feed[p] = 1 .. Len(feed[p])
         /\ \A p \in Pumps : \A i \in DOMAIN feed[p] : feed[p][i] \in Events
<1>1. \A p \in Pumps : feed[p] \in Seq(Events)
  BY DEF TypeOK
<1>2. out \in Seq(Events \cup {Answer, Probe})
  BY DEF TypeOK
<1> QED BY <1>1, <1>2, LenProperties, ElementOfSeq

\* An event that is published is in the receivers alone.
LEMMA PublishKeeps ==
  ASSUME TypeOK, TypeOK', OnePlace, NEW who \in {"bridged", "external", "internal"},
         Publish(who) \/ UNCHANGED busVars, UNCHANGED <<out, seen>>
  PROVE  OnePlace'
<1>1. CASE UNCHANGED busVars
  BY <1>1 DEF busVars, OnePlace
<1>2. ASSUME NEW e \in Events, origin[e] = "none",
             origin' = [origin EXCEPT ![e] = who], on' = on,
             feed' = [p \in Pumps |-> IF p \in on THEN Append(feed[p], e) ELSE feed[p]]
      PROVE  OnePlace'
  <2>1. /\ \A p \in Pumps \ on : feed'[p] = feed[p]
        /\ \A p \in Pumps \cap on :
             /\ Len(feed'[p]) = Len(feed[p]) + 1 /\ feed'[p][Len(feed[p]) + 1] = e
             /\ \A i \in 1 .. Len(feed[p]) : feed'[p][i] = feed[p][i]
    BY <1>2, Feeding
  <2>2. \A p \in Pumps : /\ Len(feed[p]) \in Nat /\ DOMAIN feed[p] = 1 .. Len(feed[p])
                         /\ Len(feed'[p]) \in Nat /\ DOMAIN feed'[p] = 1 .. Len(feed'[p])
    <3>1. \A p \in Pumps : feed[p] \in Seq(Events) /\ feed'[p] \in Seq(Events)
      BY DEF TypeOK
    <3> QED BY <3>1, LenProperties
  <2>3. \A p \in Pumps : \A i \in DOMAIN feed'[p] :
          \/ i \in DOMAIN feed[p] /\ feed'[p][i] = feed[p][i]
          \/ feed'[p][i] = e /\ i = Len(feed[p]) + 1
    BY <2>1, <2>2
  <2>4. \A f \in Events : f # e => origin'[f] = origin[f]
    BY <1>2 DEF TypeOK
  <2>5. origin'[e] = who /\ who # "none" /\ seen[e] = 0
    BY <1>2 DEF TypeOK, OnePlace
  <2>6. \A p \in Pumps : \A i \in DOMAIN feed[p] : feed[p][i] # e /\ feed[p][i] \in Events
    BY <1>2, Positions DEF OnePlace
  <2>7. \A j \in DOMAIN out : out[j] # e
    BY <1>2 DEF OnePlace
  <2>8. \A p \in Pumps : \A i, j \in DOMAIN feed'[p] : feed'[p][i] = feed'[p][j] => i = j
    BY <2>2, <2>3, <2>6 DEF OnePlace
  <2>9. \A p \in Pumps : \A i \in DOMAIN feed'[p] :
          /\ \A j \in DOMAIN out : feed'[p][i] # out[j]
          /\ seen[feed'[p][i]] = 0 /\ origin'[feed'[p][i]] # "none"
    BY <2>3, <2>4, <2>5, <2>6, <2>7 DEF OnePlace
  <2>10. \A j \in DOMAIN out : out[j] \in Events =>
           seen[out[j]] = 0 /\ origin'[out[j]] \notin {"none", "bridged"}
    BY <2>4, <2>7 DEF OnePlace
  <2>11. \A f \in Events : seen[f] <= IF origin'[f] \in {"none", "bridged"} THEN 0 ELSE 1
    BY <2>4, <2>5 DEF OnePlace
  <2> QED BY <1>2, <2>8, <2>9, <2>10, <2>11 DEF OnePlace
<1> QED BY <1>1, <1>2, Publishing

\* An answer or a probe in the channel is no event.
LEMMA AnswerKeeps ==
  ASSUME ConnectionAssumption, TypeOK, TypeOK', OnePlace, NEW x \in {Answer, Probe}, Queue(x),
         UNCHANGED <<feed, origin, seen>>
  PROVE  OnePlace'
<1>0. x \notin Events
  BY DEF Answer, Probe, Events, ConnectionAssumption
<1>1. Len(out) \in Nat /\ DOMAIN out = 1 .. Len(out) /\ DOMAIN out' = 1 .. Len(out')
  BY LenProperties DEF TypeOK
<1>2. CASE out' = out
  BY <1>2 DEF OnePlace
<1>3. CASE /\ Len(out') = Len(out) + 1 /\ out'[Len(out) + 1] = x
           /\ \A i \in 1 .. Len(out) : out'[i] = out[i]
  <2>1. \A i \in DOMAIN out' : (i \in DOMAIN out /\ out'[i] = out[i]) \/ out'[i] \notin Events
    BY <1>0, <1>1, <1>3
  <2>2. \A p \in Pumps : \A i \in DOMAIN feed[p] : feed[p][i] \in Events
    BY Positions
  <2> QED BY <2>1, <2>2 DEF OnePlace
<1> QED BY <1>2, <1>3, Queueing

\* The first event of a receiver is dropped, or moves to the end of the channel.
LEMMA MoveKeeps ==
  ASSUME ConnectionAssumption, TypeOK, TypeOK', OneClient, Streams, Receivers, OnePlace,
         NEW p \in Pumps, feed[p] # <<>>, feed' = [feed EXCEPT ![p] = Tail(@)],
         out' = out \/ (origin[Head(feed[p])] # "bridged" /\ Queue(Head(feed[p]))),
         UNCHANGED <<origin, seen>>
  PROVE  OnePlace'
<1> DEFINE e == Head(feed[p])
<1>1. /\ e \in Events /\ e = feed[p][1] /\ 1 \in DOMAIN feed[p]
      /\ \A i \in DOMAIN Tail(feed[p]) : i + 1 \in DOMAIN feed[p] /\ Tail(feed[p])[i] = feed[p][i + 1]
  BY Positions, Taking
<1>2. \A q \in Pumps : q # p => feed'[q] = <<>> /\ DOMAIN feed'[q] = {}
  <2>1. \A q \in Pumps : q # p => feed'[q] = feed[q] /\ feed[q] = <<>>
    BY OneFed DEF TypeOK
  <2> QED BY <2>1
<1>3. feed'[p] = Tail(feed[p])
  BY DEF TypeOK
<1>4. Len(out) \in Nat /\ DOMAIN out = 1 .. Len(out) /\ DOMAIN out' = 1 .. Len(out')
  BY LenProperties DEF TypeOK
<1>5. out' = out \/ /\ origin[e] # "bridged"
                    /\ Len(out') = Len(out) + 1 /\ out'[Len(out) + 1] = e
                    /\ \A i \in 1 .. Len(out) : out'[i] = out[i]
  BY <1>1, Queueing
<1> HIDE DEF e
<1>6. \A j \in DOMAIN out' :
        \/ j \in DOMAIN out /\ out'[j] = out[j]
        \/ j = Len(out) + 1 /\ out'[j] = e /\ origin[e] # "bridged"
  <2>1. CASE out' = out
    BY <2>1
  <2>2. CASE /\ origin[e] # "bridged"
             /\ Len(out') = Len(out) + 1 /\ out'[Len(out) + 1] = e
             /\ \A i \in 1 .. Len(out) : out'[i] = out[i]
    <3>1. \A j \in 1 .. Len(out) + 1 : j \in 1 .. Len(out) \/ j = Len(out) + 1
      BY <1>4
    <3> QED BY <1>4, <2>2, <3>1
  <2> QED BY <1>5, <2>1, <2>2
<1>7. \A q \in Pumps : \A i \in DOMAIN feed'[q] :
        q = p /\ i \in Nat /\ i + 1 \in DOMAIN feed[p] /\ feed'[q][i] = feed[p][i + 1]
        /\ feed[p][i + 1] # e
  <2>1. \A i \in DOMAIN Tail(feed[p]) : i \in Nat /\ i # 0
    <3>1. Tail(feed[p]) \in Seq(Events)
      BY Positions, Taking
    <3>2. DOMAIN Tail(feed[p]) = 1 .. Len(Tail(feed[p])) /\ Len(Tail(feed[p])) \in Nat
      BY <3>1, LenProperties
    <3> QED BY <3>2
  <2>2. \A i \in DOMAIN Tail(feed[p]) : i + 1 # 1
    BY <2>1
  <2>3. \A i \in DOMAIN Tail(feed[p]) : feed[p][i + 1] # e
    BY <1>1, <2>2 DEF OnePlace
  <2>4. ASSUME NEW q \in Pumps, NEW i \in DOMAIN feed'[q]
        PROVE  q = p
    BY <1>2
  <2> QED BY <1>1, <1>3, <2>1, <2>3, <2>4
<1>8. \A j \in DOMAIN out : out[j] # e
  BY <1>1 DEF OnePlace
<1>9. seen[e] = 0 /\ origin[e] # "none"
  BY <1>1 DEF OnePlace
<1>10. \A q \in Pumps : \A i, j \in DOMAIN feed'[q] : feed'[q][i] = feed'[q][j] => i = j
  BY <1>7 DEF OnePlace
<1>11. \A i, j \in DOMAIN out' : out'[i] = out'[j] /\ out'[i] \in Events => i = j
  BY <1>4, <1>6, <1>8 DEF OnePlace
<1>12. \A q \in Pumps : \A i \in DOMAIN feed'[q] :
         /\ \A j \in DOMAIN out' : feed'[q][i] # out'[j]
         /\ seen[feed'[q][i]] = 0 /\ origin[feed'[q][i]] # "none"
  BY <1>6, <1>7 DEF OnePlace
<1>13. \A j \in DOMAIN out' : out'[j] \in Events =>
         seen[out'[j]] = 0 /\ origin[out'[j]] \notin {"none", "bridged"}
  BY <1>6, <1>9 DEF OnePlace
<1> QED BY <1>10, <1>11, <1>12, <1>13 DEF OnePlace

\* An event that was read is in no receiver and not in the channel any more.
LEMMA DeliverKeeps ==
  ASSUME TypeOK, TypeOK', OnePlace, Deliver
  PROVE  OnePlace'
<1> DEFINE e == Head(out)
<1>0. UNCHANGED <<feed, origin>> /\ out' = Tail(out) /\ out # <<>>
  BY DEF Deliver, busVars
<1>1. /\ e = out[1] /\ 1 \in DOMAIN out
      /\ \A i \in DOMAIN Tail(out) : i + 1 \in DOMAIN out /\ Tail(out)[i] = out[i + 1]
  BY <1>0, Taking DEF TypeOK
<1>2. \A f \in Events : seen'[f] = IF f = e THEN seen[f] + 1 ELSE seen[f]
  BY DEF Deliver
<1> HIDE DEF e
<1>3. \A i \in DOMAIN out' : /\ i \in Nat /\ i + 1 \in DOMAIN out /\ out'[i] = out[i + 1]
                             /\ out'[i] \in Events => out'[i] # e
  <2>1. \A i \in DOMAIN out' : i \in Nat /\ i + 1 # 1
    <3>1. DOMAIN out' = 1 .. Len(out') /\ Len(out') \in Nat
      BY LenProperties DEF TypeOK
    <3> QED BY <3>1
  <2> QED BY <1>0, <1>1, <2>1 DEF OnePlace
<1>4. \A p \in Pumps : \A i \in DOMAIN feed[p] : feed[p][i] # e /\ feed[p][i] \in Events
  BY <1>1, Positions DEF OnePlace
<1>5. e \in Events => seen[e] = 0 /\ origin[e] \notin {"none", "bridged"}
  BY <1>1 DEF OnePlace
<1>6. \A f \in Events : seen'[f] <= IF origin[f] \in {"none", "bridged"} THEN 0 ELSE 1
  BY <1>2, <1>5 DEF OnePlace
<1>7. \A i, j \in DOMAIN out' : out'[i] = out'[j] /\ out'[i] \in Events => i = j
  BY <1>3 DEF OnePlace
<1>8. \A p \in Pumps : \A i \in DOMAIN feed[p] :
        /\ seen'[feed[p][i]] = 0 /\ origin[feed[p][i]] # "none"
        /\ \A j \in DOMAIN out' : feed[p][i] # out'[j]
  BY <1>2, <1>3, <1>4 DEF OnePlace
<1>9. \A j \in DOMAIN out' : out'[j] \in Events =>
        seen'[out'[j]] = 0 /\ origin[out'[j]] \notin {"none", "bridged"}
  BY <1>2, <1>3 DEF OnePlace
<1> QED BY <1>0, <1>6, <1>7, <1>8, <1>9 DEF OnePlace
\* Whatever happens, an event stays in one place.
LEMMA PlaceStep ==
  ASSUME ConnectionAssumption, IInv, [Next]_vars
  PROVE  OnePlace'
<1> TypeOK /\ OneClient /\ Streams /\ Receivers /\ OnePlace
  BY DEF IInv
<1> TypeOK'
  BY TypeStep
<1>0. Clients \subseteq Pumps /\ Stream \in Pumps
  BY DEF Pumps
<1> USE DEF peerVars, wireVars, threadVars, ownVars, clientVars, busVars
<1>a. CASE UNCHANGED <<out, feed, origin, seen>>
  BY <1>a DEF OnePlace
<1>1. ASSUME NEW line \in Lines, PeerSends(line) PROVE OnePlace'
  BY <1>a, <1>1 DEF PeerSends
<1>2. CASE PeerLeaves \/ ReadRegister \/ StartForwarder \/ ReadSubscribe \/ ReadCall
  BY <1>a, <1>2 DEF PeerLeaves, ReadRegister, StartForwarder, ReadSubscribe, ReadCall, Read
<1>3. CASE ReadSilently \/ ReadUnreadable \/ Eof \/ Close \/ Closed \/ UNCHANGED vars
  BY <1>a, <1>3 DEF ReadSilently, ReadUnreadable, Read, Eof, Close, Closed, vars
<1>4. CASE Elsewhere
  BY <1>4, PublishKeeps DEF Elsewhere
<1>5. CASE ReadBusPublish
  <2>1. (Publish("bridged") \/ UNCHANGED busVars) /\ UNCHANGED <<out, seen>>
    BY <1>5 DEF ReadBusPublish, Read
  <2> QED BY <2>1, PublishKeeps
<1>6. CASE ReadEventsPublish
  <2>1. (Publish("external") \/ UNCHANGED busVars) /\ UNCHANGED <<out, seen>>
    BY <1>6 DEF ReadEventsPublish, Read
  <2> QED BY <2>1, PublishKeeps
<1>7. CASE SendLine
  BY <1>7, AnswerKeeps DEF SendLine
<1>8. CASE PassOver
  BY <1>0, <1>8, MoveKeeps DEF PassOver
<1>9. CASE StreamOn
  <2>1. CASE feed[Stream] = <<>>
    <3>1. Queue(Probe) /\ feed' = feed /\ UNCHANGED <<origin, seen>>
      BY <1>0, <1>9, <2>1 DEF StreamOn, TypeOK
    <3> QED BY <3>1, AnswerKeeps
  <2>2. CASE feed[Stream] # <<>>
    <3>1. /\ Queue(Head(feed[Stream])) /\ feed' = [feed EXCEPT ![Stream] = Tail(@)]
          /\ UNCHANGED <<origin, seen>>
      BY <1>9, <2>2 DEF StreamOn
    <3>2. Head(feed[Stream]) \in Events
      BY <1>0, <2>2, Positions, Taking
    <3>3. \A c \in Clients : client[c] = "none"
      BY <2>2 DEF Streams
    <3>4. registered = NoClient
      BY <3>3 DEF OneClient, TypeOK
    <3>5. origin[Head(feed[Stream])] # "bridged"
      BY <3>2, <3>4 DEF Receivers
    <3> QED BY <1>0, <2>2, <3>1, <3>5, MoveKeeps
  <2> QED BY <2>1, <2>2
<1>10. CASE Deliver
  BY <1>10, DeliverKeeps
<1>11. CASE WriterFails
  BY <1>11 DEF WriterFails, OnePlace
<1>12. ASSUME NEW c \in Clients, HeartbeatRemoves(c) \/ Cut(c) PROVE OnePlace'
  BY <1>a, <1>12 DEF HeartbeatRemoves, Cut
<1>13. ASSUME NEW c \in Clients, Forward(c) PROVE OnePlace'
  <2>1. /\ feed[c] # <<>> /\ feed' = [feed EXCEPT ![c] = Tail(@)] /\ UNCHANGED <<origin, seen>>
        /\ out' = out \/ (origin[Head(feed[c])] # "bridged" /\ Queue(Head(feed[c])))
    BY <1>13 DEF Forward, Queue
  <2> QED BY <1>0, <2>1, MoveKeeps
<1>14. ASSUME NEW c \in Clients, ForwarderEnds(c) PROVE OnePlace'
  <2>1. /\ \A p \in Pumps : feed'[p] = feed[p] \/ feed'[p] = <<>>
        /\ UNCHANGED <<out, origin, seen>>
    BY <1>0, <1>14 DEF ForwarderEnds, TypeOK
  <2> QED BY <2>1 DEF OnePlace
<1> QED
  BY <1>1, <1>2, <1>3, <1>4, <1>5, <1>6, <1>7, <1>8, <1>9, <1>10, <1>11, <1>12, <1>13, <1>14
     DEF Next, Thread

-----------------------------------------------------------------------------
(* The theorems *)

\* Every step keeps the invariant.
LEMMA Step == ASSUME ConnectionAssumption, IInv, [Next]_vars PROVE IInv'
  BY TypeStep, ControlStep, PlaceStep DEF IInv

\* What it promises.
LEMMA Promises == ASSUME IInv PROVE NoOrphans /\ EventsOnce
<1>1. NoOrphans
  BY DEF IInv, Removed, NoOrphans, Over
<1>2. EventsOnce
  BY DEF IInv, OnePlace, EventsOnce, TypeOK
<1> QED
  BY <1>1, <1>2

\* The inductive invariant holds in every reachable state.
THEOREM Invariance == ConnectionAssumption => (Spec => []IInv)
<1> SUFFICES ASSUME ConnectionAssumption PROVE Spec => []IInv
  OBVIOUS
<1>1. Init => IInv
  BY InitInvariant
<1>2. IInv /\ [Next]_vars => IInv'
  BY Step
<1> QED
  BY <1>1, <1>2, PTL DEF Spec

\* However a connection ends and whatever its peer sent, the registry keeps no client of
\* it.
THEOREM Orphans == ConnectionAssumption => (Spec => []NoOrphans)
<1> SUFFICES ASSUME ConnectionAssumption PROVE Spec => []NoOrphans
  OBVIOUS
<1>1. IInv => NoOrphans
  BY Promises
<1> QED
  BY <1>1, Invariance, PTL

\* The peer reads no event twice, by its stream or its forwarder, and none that it sent
\* over the bridge.
THEOREM Once == ConnectionAssumption => (Spec => []EventsOnce)
<1> SUFFICES ASSUME ConnectionAssumption PROVE Spec => []EventsOnce
  OBVIOUS
<1>1. IInv => EventsOnce
  BY Promises
<1> QED
  BY <1>1, Invariance, PTL

=============================================================================
