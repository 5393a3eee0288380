--------------------------- MODULE GuiRegistryProofs ---------------------------
(***************************************************************************)
(* Safety of GuiRegistry for any windows, calls, methods, pings in flight  *)
(* and room in the channels.                                               *)
(***************************************************************************)
EXTENDS GuiRegistry, FiniteSetTheorems, SequenceTheorems,
        WellFoundedInduction, TLAPS

\* A connection that has not registered left no trace, and a client that was
\* removed is on its way out.
Lifecycle ==
  \A c \in Clients :
    /\ conn[c] = "idle" => c \notin clients /\ leaving[c] = "no" /\ forwarder[c] = "off"
    /\ conn[c] = "idle" <=> gui[c] = "away"
    /\ c \in clients => leaving[c] = "no"

\* The order of registration names every registered client once.
OrderOnce ==
  /\ ToSet(order) = clients
  /\ \A i, j \in DOMAIN order : order[i] = order[j] => i = j

\* The primary, as PrimaryServes has it.
PrimaryWants ==
  /\ primary = NoClient <=> clients \cap wants = {}
  /\ primary # NoClient => primary \in clients \cap wants

\* Who waits is in pending of the client it was sent to, and nobody else is;
\* only who waits has a channel, so only there is a reply.
PendingExact ==
  /\ \A q \in Calls : at[q] \in {"insert", "send", "wait"} => to[q] \in Clients
  /\ \A i \in Ids : at[i] \notin {"send", "wait"} => reply[i] = "none"
  /\ \A c \in Clients, i \in Ids :
       i \in pending[c] <=> To(i) = c /\ at[i] \in {"send", "wait"} /\ reply[i] = "none"

\* fail_all_pending leaves nothing behind.
Taken == \A c \in Clients : leaving[c] \in {"cut", "out"} => pending[c] = {}

HasAck(lines) == \E k \in 1 .. Len(lines) : lines[k] = Ack
EventsBehindAck(lines) ==
  \A j \in 1 .. Len(lines) : lines[j] = Event => \E k \in 1 .. j : lines[k] = Ack

\* Until the window reads the ack it is among the lines it still has to read,
\* and events are forwarded only once it was written.
Acked ==
  \A c \in Clients :
    /\ forwarder[c] = "on" => conn[c] \notin {"idle", "registered", "acked"}
    /\ gui[c] = "registering" /\ conn[c] \notin {"idle", "registered"} => HasAck(writer[c])
    /\ gui[c] \in {"away", "registering"} => EventsBehindAck(writer[c])

IInv ==
  /\ TypeOK /\ Lifecycle /\ OrderOnce /\ PrimaryWants
  /\ PendingExact /\ Taken /\ Acked

-----------------------------------------------------------------------------
(* The operators of the model *)

\* A nonempty set of naturals has a least element.
LEMMA LeastNatural ==
  ASSUME NEW T \in SUBSET Nat, T # {}
  PROVE  \E x \in T : \A y \in T : x <= y
<1>1. PICK x \in T : \A y \in T : ~ (<<y, x>> \in OpToRel(<, Nat))
  BY NatLessThanWellFounded, WFMin
<1>2. \A y \in T : ~ (y < x)
  BY <1>1 DEF OpToRel
<1> QED BY <1>2

\* A set of numbers that is not empty has its minimum.
LEMMA MinIsLeast ==
  ASSUME NEW T \in SUBSET Nat, T # {}
  PROVE  Min(T) \in T
BY LeastNatural DEF Min

\* A set of positions that is not empty has a greatest one.
LEMMA MaxIsGreatest ==
  ASSUME NEW n \in Nat, NEW T \in SUBSET (1 .. n), T # {}
  PROVE  Max(T) \in T
<1> DEFINE below == {k \in 0 .. n : n - k \in T}
<1>1. below \in SUBSET Nat
  OBVIOUS
<1>2. below # {}
  <2>1. PICK x \in T : TRUE
    OBVIOUS
  <2>2. n - x \in 0 .. n /\ n - (n - x) = x
    OBVIOUS
  <2> QED BY <2>1, <2>2
<1>3. PICK k \in below : \A j \in below : k <= j
  BY <1>1, <1>2, LeastNatural
<1>4. ASSUME NEW y \in T PROVE n - k >= y
  <2>1. n - y \in 0 .. n /\ n - (n - y) = y
    OBVIOUS
  <2>2. k <= n - y
    BY <1>3, <2>1
  <2> QED BY <2>2
<1>5. n - k \in T
  OBVIOUS
<1> QED BY <1>4, <1>5 DEF Max

\* The name of a ping is no call's, and leads to the window it is sent to.
LEMMA PingNames ==
  ASSUME NEW c \in Clients, NEW k \in PingIds
  PROVE  <<c, k>> \in Ids /\ <<c, k>> \notin Calls /\ To(<<c, k>>) = c
BY NamesAssumption DEF Ids, Pings, To

\* What an invoke was sent to is a client or none.
LEMMA Destinations ==
  ASSUME TypeOK, NEW i \in Ids
  PROVE  To(i) \in Clients \cup {NoClient}
BY DEF TypeOK, CallTypes, Ids, Pings, To

\* An Invoke is under way to a client that exists.
LEMMA UnderWay ==
  ASSUME TypeOK, PendingExact, NEW i \in Ids, at[i] \in {"insert", "send", "wait"}
  PROVE  To(i) \in Clients
BY DEF TypeOK, InvokeTypes, CallTypes, PendingExact, Ids, Pings, To

\* What RemoveFirst leaves of a sequence without repetitions.
LEMMA Removing ==
  ASSUME NEW S, NEW s \in Seq(S), NEW c, \A i, j \in DOMAIN s : s[i] = s[j] => i = j
  PROVE  /\ RemoveFirst(s, c) \in Seq(S)
         /\ ToSet(RemoveFirst(s, c)) = ToSet(s) \ {c}
         /\ \A i, j \in DOMAIN RemoveFirst(s, c) :
              RemoveFirst(s, c)[i] = RemoveFirst(s, c)[j] => i = j
<1>0. Len(s) \in Nat /\ DOMAIN s = 1 .. Len(s)
  BY LenProperties
<1>1. CASE \A i \in 1 .. Len(s) : s[i] # c
  BY <1>0, <1>1 DEF RemoveFirst, ToSet
<1>2. ASSUME NEW n \in 1 .. Len(s), s[n] = c
      PROVE  /\ RemoveFirst(s, c) \in Seq(S)
             /\ ToSet(RemoveFirst(s, c)) = ToSet(s) \ {c}
             /\ \A i, j \in DOMAIN RemoveFirst(s, c) :
                  RemoveFirst(s, c)[i] = RemoveFirst(s, c)[j] => i = j
  <2> DEFINE t == RemoveAt(s, n)
             f(i) == IF i < n THEN i ELSE i + 1
  <2>0. n \in Nat /\ 1 <= n /\ n <= Len(s)
    BY <1>0
  <2>1. {i \in 1 .. Len(s) : s[i] = c} = {n}
    BY <1>0, <1>2
  <2>2. Min({n}) = n
    BY DEF Min
  <2>3. RemoveFirst(s, c) = t
    BY <1>2, <2>1, <2>2 DEF RemoveFirst, SelectInSeq
  <2>4. t \in Seq(S) /\ Len(t) = Len(s) - 1 /\ \A i \in 1 .. Len(s) - 1 : t[i] = s[f(i)]
    <3> DEFINE u == SubSeq(s, 1, n - 1)
               v == SubSeq(s, n + 1, Len(s))
    <3>1. \A i \in 1 .. Len(s) : s[i] \in S
      BY <1>0, ElementOfSeq
    <3>2. u \in Seq(S) /\ Len(u) = n - 1 /\ \A i \in 1 .. n - 1 : u[i] = s[i]
      BY <2>0, <1>0, <3>1, SubSeqProperties
    <3>3. /\ v \in Seq(S) /\ Len(v) = IF n + 1 <= Len(s) THEN Len(s) - (n + 1) + 1 ELSE 0
          /\ \A i \in 1 .. Len(s) - (n + 1) + 1 : v[i] = s[(n + 1) + i - 1]
      BY <2>0, <1>0, <3>1, SubSeqProperties
    <3> HIDE DEF u, v, f
    <3>4. Len(v) = Len(s) - n /\ \A i \in n .. Len(s) - 1 : v[i - (n - 1)] = s[i + 1]
      <4>1. \A i \in n .. Len(s) - 1 :
              /\ i - (n - 1) \in 1 .. Len(s) - (n + 1) + 1
              /\ (n + 1) + (i - (n - 1)) - 1 = i + 1
        BY <1>0, <2>0
      <4>2. Len(v) = Len(s) - n
        <5>1. \A k, m \in Nat : k <= m => (IF k + 1 <= m THEN m - (k + 1) + 1 ELSE 0) = m - k
          OBVIOUS
        <5> QED BY <1>0, <2>0, <3>3, <5>1
      <4> QED BY <3>3, <4>1, <4>2
    <3>5. t = u \o v
      BY DEF RemoveAt, u, v
    <3> HIDE DEF t
    <3>6. t \in Seq(S) /\ Len(t) = Len(u) + Len(v)
          /\ \A i \in 1 .. Len(u) + Len(v) : t[i] = IF i <= Len(u) THEN u[i] ELSE v[i - Len(u)]
      BY ONLY <3>2, <3>3, <3>5, ConcatProperties
    <3>7. Len(u) + Len(v) = Len(s) - 1
      BY <1>0, <2>0, <3>2, <3>4
    <3>8. ASSUME NEW i \in 1 .. Len(s) - 1 PROVE t[i] = s[f(i)]
      <4>1. CASE i < n
        <5>1. i \in 1 .. n - 1 /\ i <= n - 1
          BY <1>0, <2>0, <4>1
        <5>2. t[i] = u[i]
          BY <3>2, <3>6, <3>7, <5>1
        <5> QED BY <3>2, <4>1, <5>1, <5>2 DEF f
      <4>2. CASE ~ (i < n)
        <5>1. i \in n .. Len(s) - 1 /\ ~ (i <= n - 1)
          BY <1>0, <2>0, <4>2
        <5>2. t[i] = v[i - (n - 1)]
          BY <3>2, <3>6, <3>7, <5>1
        <5> QED BY <3>4, <4>2, <5>1, <5>2 DEF f
      <4> QED BY <4>1, <4>2
    <3> QED BY <3>6, <3>7, <3>8
  <2>5. DOMAIN t = 1 .. Len(s) - 1
    BY <2>4, LenProperties
  <2> HIDE DEF t
  <2>6. \A i \in DOMAIN t : f(i) \in DOMAIN s /\ f(i) # n
    BY <1>0, <2>5
  <2>7. \A j \in DOMAIN s \ {n} : \E i \in DOMAIN t : f(i) = j
    <3> TAKE j \in DOMAIN s \ {n}
    <3>1. CASE j < n
      BY <1>0, <2>5, <3>1
    <3>2. CASE j > n
      <4>1. j - 1 \in DOMAIN t /\ f(j - 1) = j
        BY <1>0, <2>5, <3>2
      <4> QED BY <4>1
    <3> QED BY <1>0, <3>1, <3>2
  <2>8. \A i, j \in DOMAIN t : f(i) = f(j) => i = j
    BY <2>5
  <2>9. \A i \in DOMAIN t : t[i] = s[f(i)]
    BY <2>4, <2>5
  <2> HIDE DEF f
  <2>10. ToSet(t) = ToSet(s) \ {c}
    BY <1>0, <1>2, <2>6, <2>7, <2>9 DEF ToSet
  <2>11. \A i, j \in DOMAIN t : t[i] = t[j] => i = j
    BY <2>6, <2>8, <2>9
  <2> QED BY <2>3, <2>4, <2>10, <2>11
<1> QED BY <1>1, <1>2

-----------------------------------------------------------------------------
(* The registry: register and unregister *)

\* The primary chosen among those who want to be it is one of them.
LEMMA NewestWants ==
  ASSUME NEW s \in Seq(Clients), NEW registered, ToSet(s) = registered
  PROVE  /\ Newest(s, registered) = NoClient <=> registered \cap wants = {}
         /\ Newest(s, registered) # NoClient => Newest(s, registered) \in registered \cap wants
<1> DEFINE wanting == {i \in DOMAIN s : s[i] \in registered \cap wants}
<1>0. Len(s) \in Nat /\ DOMAIN s = 1 .. Len(s) /\ registered \subseteq Clients
  BY LenProperties, ElementOfSeq DEF ToSet
<1>1. wanting = {} <=> registered \cap wants = {}
  BY DEF ToSet
<1>2. wanting # {} => Max(wanting) \in wanting
  BY <1>0, MaxIsGreatest
<1>3. Newest(s, registered) = IF wanting = {} THEN NoClient ELSE s[Max(wanting)]
  BY DEF Newest
<1> HIDE DEF wanting
<1>4. CASE wanting = {}
  BY <1>1, <1>3, <1>4
<1>5. CASE wanting # {}
  <2>1. s[Max(wanting)] \in registered \cap wants
    BY <1>2, <1>5 DEF wanting
  <2> QED BY <1>0, <1>1, <1>3, <1>5, <2>1, NamesAssumption
<1> QED BY <1>4, <1>5

\* The maps agree after a removal, and the client is on its way out.
LEMMA Unregistering ==
  ASSUME TypeOK, Lifecycle, OrderOnce, PrimaryWants, NEW c \in Clients, Unregister(c)
  PROVE  /\ clients' \subseteq clients /\ c \notin clients' /\ order' \in Seq(Clients)
         /\ primary' \in clients' \cup {NoClient} /\ OrderOnce' /\ PrimaryWants'
         /\ \A d \in Clients \ {c} : d \in clients' <=> d \in clients
         /\ leaving' = [leaving EXCEPT ![c] = IF c \in clients THEN "take" ELSE @]
         /\ UNCHANGED <<wants, serves>>
<1>1. /\ clients' = clients \ {c} /\ order' = RemoveFirst(order, c)
      /\ primary' = IF primary = c THEN Newest(order', clients') ELSE primary
      /\ leaving' = [leaving EXCEPT ![c] = IF c \in clients THEN "take" ELSE @]
      /\ UNCHANGED <<wants, serves>>
  BY DEF Unregister
<1>2. order \in Seq(Clients) /\ clients \subseteq Clients
  BY DEF TypeOK, RegistryTypes
<1>3. order' \in Seq(Clients) /\ OrderOnce'
  BY <1>1, <1>2, Removing DEF OrderOnce
<1>4. PrimaryWants' /\ primary' \in clients' \cup {NoClient}
  <2>1. CASE primary = c
    <3>1. ToSet(order') = clients'
      BY <1>3 DEF OrderOnce
    <3>2. /\ Newest(order', clients') = NoClient <=> clients' \cap wants = {}
          /\ Newest(order', clients') # NoClient => Newest(order', clients') \in clients' \cap wants
      BY <1>3, <3>1, NewestWants
    <3> QED BY <1>1, <2>1, <3>2 DEF PrimaryWants
  <2>2. CASE primary # c
    BY <1>1, <2>2 DEF PrimaryWants, TypeOK, RegistryTypes
  <2> QED BY <2>1, <2>2
<1> QED BY <1>1, <1>2, <1>3, <1>4

\* Which steps write what.
LEMMA Writers ==
  ASSUME [Next]_vars
  PROVE  /\ \/ UNCHANGED registryVars
            \/ \E c \in Clients : Register(c) \/ Pong(c) \/ Eof(c)
         /\ \/ UNCHANGED clientVars
            \/ \E c \in Clients : Pong(c) \/ Eof(c) \/ Leave(c) \/ Read(c)
            \/ \E i \in Ids : Invoke(i)
         /\ \/ UNCHANGED connVars
            \/ \E i \in Ids : Send(i)
            \/ \E c \in Clients :
                 \/ Register(c) \/ CutConnection(c) \/ Serve(c) \/ Forward(c) \/ ForwarderEnds(c)
                 \/ GuiReads(c) \/ GuiPublishes(c) \/ GuiLeaves(c)
                 \/ \E q \in Calls : GuiAnswers(c, q)
         /\ \/ UNCHANGED guiVars
            \/ \E c \in Clients : Register(c) \/ CutConnection(c) \/ Window(c)
         /\ \/ UNCHANGED beatVars
            \/ \E c \in Clients : Register(c) \/ Pong(c) \/ HeartbeatEnds(c)
         /\ \/ UNCHANGED invokeVars
            \/ \E i \in Ids : Invoke(i)
            \/ \E q \in Calls : Route(q) \/ Returns(q) \/ Publish(q) \/ Respond(q)
            \/ \E c \in Clients : TakePending(c) \/ Ping(c) \/ Pong(c) \/ Read(c)
         /\ \/ UNCHANGED callVars
            \/ \E q \in Calls : Route(q) \/ Returns(q) \/ Publish(q)
<1> USE DEF registryVars, clientVars, connVars, guiVars, beatVars, invokeVars, callVars
<1>1. ASSUME NEW i \in Ids, Invoke(i)
      PROVE  /\ UNCHANGED <<registryVars, guiVars, beatVars, callVars>>
             /\ UNCHANGED connVars \/ Send(i)
  BY <1>1 DEF Invoke, Insert, Send, TimesOut
<1>2. ASSUME NEW q \in Calls, Route(q) \/ Returns(q) \/ Publish(q) \/ Respond(q)
      PROVE  /\ UNCHANGED <<registryVars, clientVars, connVars, guiVars, beatVars>>
             /\ Respond(q) => UNCHANGED callVars
  BY <1>2 DEF Route, Returns, Publish, Respond
<1>3. ASSUME NEW c \in Clients, Register(c)
      PROVE  UNCHANGED <<clientVars, invokeVars, callVars>>
  BY <1>3 DEF Register
<1>4. ASSUME NEW c \in Clients, Serve(c)
      PROVE  /\ UNCHANGED <<guiVars, beatVars, callVars>>
             /\ Eof(c) \/ UNCHANGED registryVars
             /\ Eof(c) \/ Read(c) \/ UNCHANGED clientVars
             /\ Read(c) \/ UNCHANGED invokeVars
  BY <1>4 DEF Serve, SendAck, StartForwarder, Read, SendReply, Eof, CloseConn
<1>5. ASSUME NEW c \in Clients, Leave(c)
      PROVE  /\ UNCHANGED <<registryVars, beatVars, callVars>>
             /\ CutConnection(c) \/ UNCHANGED <<connVars, guiVars>>
             /\ TakePending(c) \/ UNCHANGED invokeVars
  BY <1>5 DEF Leave, TakePending, CutConnection
<1>6. ASSUME NEW c \in Clients, Ping(c) \/ Pong(c) \/ HeartbeatEnds(c)
      PROVE  /\ UNCHANGED <<connVars, guiVars, callVars>>
             /\ Pong(c) \/ UNCHANGED <<registryVars, clientVars>>
             /\ Ping(c) => UNCHANGED beatVars
             /\ HeartbeatEnds(c) => UNCHANGED invokeVars
  BY <1>6 DEF Ping, Pong, HeartbeatEnds, Unregister
<1>7. ASSUME NEW c \in Clients, Window(c)
      PROVE  /\ UNCHANGED <<registryVars, clientVars, beatVars, invokeVars, callVars>>
             /\ GuiWedges(c) => UNCHANGED connVars
  BY <1>7 DEF Window, GuiReads, GuiPublishes, GuiWedges, GuiLeaves, GuiAnswers
<1>8. ASSUME NEW c \in Clients, Forward(c) \/ ForwarderEnds(c)
      PROVE  UNCHANGED <<registryVars, clientVars, guiVars, beatVars, invokeVars, callVars>>
  BY <1>8 DEF Forward, ForwarderEnds
<1> HIDE DEF registryVars, clientVars, connVars, guiVars, beatVars, invokeVars, callVars
<1>9. CASE UNCHANGED vars
  BY <1>9 DEF vars
<1>10. ASSUME NEW q \in Calls, Route(q) \/ Proxy(q)
       PROVE  Invoke(q) \/ Route(q) \/ Returns(q) \/ Publish(q) \/ Respond(q)
  BY <1>10 DEF Proxy
<1>11. ASSUME NEW c \in Clients, Beat(c)
       PROVE  Ping(c) \/ Pong(c) \/ HeartbeatEnds(c) \/ \E i \in Ids : Invoke(i)
  BY <1>11, PingNames DEF Beat
<1>12. Calls \subseteq Ids
  BY DEF Ids
<1>13. CASE \E i \in Ids : Invoke(i)
  BY <1>1, <1>13
<1>14. CASE \E q \in Calls : Route(q) \/ Returns(q) \/ Publish(q) \/ Respond(q)
  BY <1>2, <1>14
<1>15. CASE \E c \in Clients : Register(c)
  BY <1>3, <1>15
<1>16. CASE \E c \in Clients : Serve(c)
  BY <1>4, <1>16 DEF Serve
<1>17. CASE \E c \in Clients : Leave(c)
  BY <1>5, <1>17 DEF Leave
<1>18. CASE \E c \in Clients : Ping(c) \/ Pong(c) \/ HeartbeatEnds(c)
  BY <1>6, <1>18
<1>19. CASE \E c \in Clients : Window(c)
  BY <1>7, <1>19 DEF Window
<1>20. CASE \E c \in Clients : Forward(c) \/ ForwarderEnds(c)
  BY <1>8, <1>20
<1> QED
  BY <1>9, <1>10, <1>11, <1>12, <1>13, <1>14, <1>15, <1>16, <1>17, <1>18, <1>19, <1>20 DEF Next

\* The maps agree after every step; only register and unregister touch them.
LEMMA RegistryStep ==
  ASSUME IInv, [Next]_vars
  PROVE  OrderOnce' /\ PrimaryWants'
<1> TypeOK /\ Lifecycle /\ OrderOnce /\ PrimaryWants BY DEF IInv
<1>1. ASSUME NEW c \in Clients, Register(c) PROVE OrderOnce' /\ PrimaryWants'
  <2>1. /\ c \notin clients /\ clients' = clients \cup {c} /\ order' = Append(order, c)
        /\ primary' = IF primary = NoClient /\ c \in wants THEN c ELSE primary
        /\ wants' = wants
    BY <1>1 DEF Register, Lifecycle
  <2>2. OrderOnce'
    <3>1. /\ Len(order) \in Nat /\ DOMAIN order = 1 .. Len(order)
          /\ DOMAIN order' = 1 .. Len(order) + 1
          /\ \A i \in 1 .. Len(order) : order'[i] = order[i]
          /\ order'[Len(order) + 1] = c
      BY <2>1, AppendProperties, LenProperties DEF TypeOK, RegistryTypes
    <3>2. \A i \in DOMAIN order : order[i] # c
      BY <2>1 DEF OrderOnce, ToSet
    <3>3. \A i \in 1 .. Len(order) + 1 : i \in 1 .. Len(order) \/ i = Len(order) + 1
      BY <3>1
    <3>4. \A i, j \in DOMAIN order' : order'[i] = order'[j] => i = j
      BY <3>1, <3>2, <3>3 DEF OrderOnce
    <3>5. ToSet(order') = clients'
      <4>1. Len(order) + 1 \in DOMAIN order' /\ \A i \in DOMAIN order : i \in DOMAIN order'
        BY <3>1
      <4> QED BY <2>1, <3>1, <3>3, <4>1 DEF OrderOnce, ToSet
    <3> QED BY <3>4, <3>5 DEF OrderOnce
  <2>3. PrimaryWants'
    BY <2>1, NamesAssumption DEF PrimaryWants
  <2> QED BY <2>2, <2>3
<1>2. ASSUME NEW c \in Clients, Unregister(c) PROVE OrderOnce' /\ PrimaryWants'
  BY <1>2, Unregistering
<1>3. CASE UNCHANGED registryVars
  BY <1>3 DEF registryVars, OrderOnce, PrimaryWants
<1>4. ASSUME NEW c \in Clients, Pong(c) PROVE OrderOnce' /\ PrimaryWants'
  BY <1>2, <1>3, <1>4 DEF Pong
<1>5. ASSUME NEW c \in Clients, Eof(c) PROVE OrderOnce' /\ PrimaryWants'
  BY <1>2, <1>5 DEF Eof
<1> QED
  BY <1>1, <1>3, <1>4, <1>5, Writers

-----------------------------------------------------------------------------
(* Types *)

\* Types of the registry.
LEMMA RegistryTyped ==
  ASSUME IInv, [Next]_vars
  PROVE  RegistryTypes'
<1> RegistryTypes BY DEF IInv, TypeOK
<1>1. ASSUME NEW c \in Clients, Register(c) PROVE RegistryTypes'
  <2>1. order' \in Seq(Clients)
    BY <1>1, AppendProperties DEF Register, RegistryTypes
  <2> QED BY <1>1, <2>1 DEF Register, RegistryTypes
<1>2. CASE UNCHANGED registryVars
  BY <1>2 DEF registryVars, RegistryTypes
<1>3. ASSUME NEW c \in Clients, Unregister(c) PROVE RegistryTypes'
  BY <1>3, Unregistering DEF RegistryTypes, IInv
<1>4. ASSUME NEW c \in Clients, Pong(c) \/ Eof(c) PROVE RegistryTypes'
  BY <1>2, <1>3, <1>4 DEF Pong, Eof
<1> QED BY <1>1, <1>2, <1>4, Writers

\* What the connection thread finds on the socket, and what it does with it.
LEMMA Reading ==
  ASSUME TypeOK, NEW c \in Clients, Read(c)
  PROVE  \/ UNCHANGED <<pending, reply>>
         \/ \E i \in Ids, r \in Replies \ {"none"} :
              /\ c \in clients /\ i \in pending[c]
              /\ pending' = [pending EXCEPT ![c] = @ \ {i}]
              /\ reply' = [reply EXCEPT ![i] = r]
<1>1. CASE Head(socket[c]) = Publication
  BY <1>1 DEF Read
<1>2. CASE Head(socket[c]) # Publication
  <2> DEFINE i == Head(socket[c])
  <2>1. i \in Ids
    <3>1. socket[c] \in Seq(Ids \cup {Publication}) /\ socket[c] # <<>>
      BY DEF Read, TypeOK, ConnTypes
    <3> QED BY <1>2, <3>1, HeadTailProperties
  <2>2. {"ok", "error"} \subseteq Replies \ {"none"}
    BY DEF Replies
  <2>3. \/ UNCHANGED <<pending, reply>>
        \/ /\ c \in clients /\ i \in pending[c]
           /\ pending' = [pending EXCEPT ![c] = @ \ {i}]
           /\ \E r \in {"ok", "error"} : reply' = [reply EXCEPT ![i] = r]
    BY <1>2 DEF Read
  <2> HIDE DEF i
  <2> QED BY <2>1, <2>2, <2>3
<1> QED BY <1>1, <1>2

\* The three steps of an Invoke, in terms of the client it goes to.
LEMMA Invoking ==
  ASSUME TypeOK, PendingExact, NEW i \in Ids, Invoke(i)
  PROVE  /\ To(i) \in Clients /\ leaving' = leaving
         /\ \/ /\ at[i] \in {"insert", "send", "wait"} /\ i \notin pending'[To(i)]
               /\ pending' = [pending EXCEPT ![To(i)] = @ \ {i}]
               /\ at' = [at EXCEPT ![i] = "wait"]
               /\ \E r \in Replies \ {"none"} : reply' = [reply EXCEPT ![i] = r]
            \/ /\ at[i] = "insert" /\ leaving[To(i)] \notin {"cut", "out"}
               /\ pending' = [pending EXCEPT ![To(i)] = @ \cup {i}]
               /\ at' = [at EXCEPT ![i] = "send"] /\ reply' = reply
            \/ /\ at[i] = "send" /\ at' = [at EXCEPT ![i] = "wait"]
               /\ UNCHANGED <<pending, reply>>
<1>0. pending \in [Clients -> SUBSET Ids] /\ at \in [Ids -> CallSteps] /\ reply \in [Ids -> Replies]
  BY DEF TypeOK, ClientTypes, InvokeTypes
<1>1. To(i) \in Clients
  BY UnderWay DEF Invoke, Insert, Send, TimesOut
<1>2. {"gui_disconnected", "gui_timeout"} \subseteq Replies \ {"none"}
  BY DEF Replies
<1>3. CASE Insert(i)
  <2>1. i \notin pending[To(i)]
    BY <1>1, <1>3 DEF Insert, PendingExact
  <2>2. CASE leaving[To(i)] \in {"cut", "out"}
    <3>1. [pending EXCEPT ![To(i)] = @ \ {i}] = pending
      BY <1>0, <1>1, <2>1
    <3> QED BY <1>1, <1>2, <1>3, <2>1, <2>2, <3>1 DEF Insert
  <2>3. CASE leaving[To(i)] \notin {"cut", "out"}
    BY <1>1, <1>3, <2>3 DEF Insert
  <2> QED BY <2>2, <2>3
<1>4. CASE Send(i)
  BY <1>0, <1>1, <1>2, <1>4 DEF Send
<1>5. CASE TimesOut(i)
  <2>1. [at EXCEPT ![i] = "wait"] = at
    BY <1>0, <1>5 DEF TimesOut
  <2> QED BY <1>0, <1>1, <1>2, <1>5, <2>1 DEF TimesOut
<1> QED BY <1>3, <1>4, <1>5 DEF Invoke

\* Types of the registered clients.
LEMMA ClientTyped ==
  ASSUME IInv, [Next]_vars
  PROVE  ClientTypes'
<1>0. TypeOK /\ PendingExact /\ ClientTypes
  BY DEF IInv, TypeOK
<1>1. CASE UNCHANGED clientVars
  BY <1>0, <1>1 DEF clientVars, ClientTypes
<1>2. ASSUME NEW i \in Ids, Invoke(i) PROVE ClientTypes'
  <2>1. /\ To(i) \in Clients /\ leaving' = leaving
        /\ \E T \in SUBSET Ids : pending' = pending \/ pending' = [pending EXCEPT ![To(i)] = T]
    BY <1>0, <1>2, Invoking DEF ClientTypes
  <2> QED BY <1>0, <2>1 DEF ClientTypes
<1>3. ASSUME NEW c \in Clients, Pong(c) \/ Eof(c) PROVE ClientTypes'
  BY <1>0, <1>3 DEF Pong, Eof, Unregister, ClientTypes
<1>4. ASSUME NEW c \in Clients, Leave(c) PROVE ClientTypes'
  BY <1>0, <1>4 DEF Leave, TakePending, CutConnection, ClientTypes
<1>5. ASSUME NEW c \in Clients, Read(c) PROVE ClientTypes'
  BY <1>0, <1>5, Reading DEF Read, ClientTypes
<1> QED BY <1>1, <1>2, <1>3, <1>4, <1>5, Writers

\* A line put into a channel with room stays within its capacity.
LEMMA Enqueued ==
  ASSUME ConnTypes, NEW c \in Clients, NEW line \in Lines, Enqueue(c, line)
  PROVE  /\ writer' \in [Clients -> Seq(Lines)]
         /\ \A d \in Clients : Len(writer'[d]) <= WriterCap
<1>1. CASE Closed(c)
  BY <1>1 DEF Enqueue, ConnTypes
<1>2. CASE ~ Closed(c)
  <2>1. Len(writer[c]) < WriterCap /\ writer' = [writer EXCEPT ![c] = Append(writer[c], line)]
    BY <1>2 DEF Enqueue, Room
  <2>2. /\ writer[c] \in Seq(Lines) /\ Len(writer[c]) \in Nat
        /\ Append(writer[c], line) \in Seq(Lines)
        /\ Len(Append(writer[c], line)) = Len(writer[c]) + 1
    BY AppendProperties, LenProperties DEF ConnTypes
  <2>3. \A n, m \in Nat : n < m => n + 1 <= m
    OBVIOUS
  <2>4. Len(Append(writer[c], line)) <= WriterCap
    BY <2>1, <2>2, <2>3, SizesAssumption
  <2> QED BY <2>1, <2>2, <2>4 DEF ConnTypes
<1> QED BY <1>1, <1>2

\* Types of the connections' threads.
LEMMA ConnTyped ==
  ASSUME IInv, [Next]_vars
  PROVE  ConnTypes'
<1>0. ConnTypes /\ PendingExact
  BY DEF IInv, TypeOK
<1>1. CASE UNCHANGED connVars
  BY <1>0, <1>1 DEF connVars, ConnTypes
<1>2. ASSUME NEW c \in Clients, NEW line \in Lines, Enqueue(c, line),
             socket' = socket, forwarder' \in [Clients -> {"off", "on", "done"}],
             conn' \in [Clients -> ConnSteps]
      PROVE  ConnTypes'
  BY <1>0, <1>2, Enqueued DEF ConnTypes
<1>3. ASSUME NEW c \in Clients, NEW step \in ConnSteps, UNCHANGED <<writer, socket>>,
             forwarder' \in [Clients -> {"off", "on", "done"}],
             conn' = conn \/ conn' = [conn EXCEPT ![c] = step]
      PROVE  ConnTypes'
  BY <1>0, <1>3 DEF ConnTypes
<1>4. ASSUME NEW c \in Clients, NEW line \in Ids \cup {Publication}, UNCHANGED <<writer, conn, forwarder>>,
             socket' = [socket EXCEPT ![c] = Append(@, line)]
      PROVE  ConnTypes'
  <2>1. Append(socket[c], line) \in Seq(Ids \cup {Publication})
    BY <1>0, AppendProperties DEF ConnTypes
  <2> QED BY <1>0, <1>4, <2>1 DEF ConnTypes
<1>5. ASSUME NEW c \in Clients, UNCHANGED <<conn, forwarder>>,
             writer' = [writer EXCEPT ![c] = <<>>],
             socket' = socket \/ socket' = [socket EXCEPT ![c] = <<>>]
      PROVE  ConnTypes'
  <2>1. <<>> \in Seq(Lines) /\ <<>> \in Seq(Ids \cup {Publication}) /\ Len(<<>>) <= WriterCap
    BY SizesAssumption
  <2>2. /\ writer' \in [Clients -> Seq(Lines)]
        /\ \A d \in Clients : writer'[d] = writer[d] \/ writer'[d] = <<>>
    BY <1>0, <1>5, <2>1 DEF ConnTypes
  <2>3. socket' \in [Clients -> Seq(Ids \cup {Publication})]
    BY <1>0, <1>5, <2>1 DEF ConnTypes
  <2>4. \A d \in Clients : Len(writer'[d]) <= WriterCap
    BY <1>0, <2>1, <2>2 DEF ConnTypes
  <2> QED BY <1>0, <1>5, <2>2, <2>3, <2>4 DEF ConnTypes
<1>6. ConnSteps = {"idle", "registered", "acked", "serving", "replying", "closing", "done"}
  BY DEF ConnSteps
<1>7. Ids \cup {Ack, Event, Reply} = Lines /\ Calls \subseteq Ids
  BY DEF Lines, Ids
<1>8. ASSUME NEW i \in Ids, Send(i) PROVE ConnTypes'
  <2>1. Enqueue(To(i), i) \/ writer' = writer
    BY <1>8 DEF Send
  <2>2. To(i) \in Clients
    BY <1>8, UnderWay DEF Send, IInv
  <2> QED BY <1>0, <1>2, <1>3, <1>6, <1>7, <1>8, <2>1, <2>2 DEF Send, ConnTypes
<1>9. ASSUME NEW c \in Clients, Register(c) \/ CloseConn(c) \/ StartForwarder(c) \/ Eof(c) \/ ForwarderEnds(c)
      PROVE  ConnTypes'
  BY <1>0, <1>3, <1>6, <1>9
  DEF Register, CloseConn, StartForwarder, Eof, ForwarderEnds, ConnTypes
<1>10. ASSUME NEW c \in Clients, SendAck(c) \/ SendReply(c) \/ Forward(c) PROVE ConnTypes'
  BY <1>0, <1>2, <1>6, <1>7, <1>10 DEF SendAck, SendReply, Forward, ConnTypes
<1>11. ASSUME NEW c \in Clients, CutConnection(c) \/ GuiLeaves(c) PROVE ConnTypes'
  BY <1>5, <1>11 DEF CutConnection, GuiLeaves
<1>12. ASSUME NEW c \in Clients, Read(c) PROVE ConnTypes'
  <2>1. Tail(socket[c]) \in Seq(Ids \cup {Publication})
    BY <1>0, <1>12, HeadTailProperties DEF Read, ConnTypes
  <2>2. conn' = conn \/ conn' = [conn EXCEPT ![c] = "replying"]
    BY <1>12 DEF Read
  <2> QED BY <1>0, <1>6, <1>12, <2>1, <2>2 DEF Read, ConnTypes
<1>13. ASSUME NEW c \in Clients, GuiPublishes(c) \/ \E q \in Calls : GuiAnswers(c, q) PROVE ConnTypes'
  BY <1>4, <1>7, <1>13 DEF GuiPublishes, GuiAnswers
<1>14. ASSUME NEW c \in Clients, GuiReads(c) PROVE ConnTypes'
  <2> DEFINE line == Head(writer[c])
  <2>1. CASE gui[c] = "registering" /\ line # Ack
    BY <1>5, <1>14, <2>1 DEF GuiReads
  <2>2. CASE ~ (gui[c] = "registering" /\ line # Ack)
    <3>1. /\ writer' = [writer EXCEPT ![c] = Tail(@)] /\ UNCHANGED <<conn, forwarder>>
          /\ socket' = socket \/ (line \in Pings /\ socket' = [socket EXCEPT ![c] = Append(@, line)])
      <4>1. [socket EXCEPT ![c] = @] = socket
        BY <1>0 DEF ConnTypes
      <4> QED BY <1>14, <2>2, <4>1 DEF GuiReads
    <3>2. /\ writer[c] \in Seq(Lines) /\ Tail(writer[c]) \in Seq(Lines)
          /\ Len(Tail(writer[c])) = Len(writer[c]) - 1 /\ Len(writer[c]) \in Nat
      BY <1>0, <1>14, HeadTailProperties, LenProperties DEF GuiReads, ConnTypes
    <3>3. Len(Tail(writer[c])) <= WriterCap
      <4>1. \A n, m \in Nat : n <= m => n - 1 <= m
        OBVIOUS
      <4> QED BY <1>0, <3>2, <4>1, SizesAssumption DEF ConnTypes
    <3>4. line \in Pings => Append(socket[c], line) \in Seq(Ids \cup {Publication})
      BY <1>0, AppendProperties DEF ConnTypes, Ids
    <3> HIDE DEF line
    <3> QED BY <1>0, <3>1, <3>2, <3>3, <3>4 DEF ConnTypes
  <2> QED BY <2>1, <2>2
<1> QED
  BY <1>1, <1>8, <1>9, <1>10, <1>11, <1>12, <1>13, <1>14, Writers DEF Serve

\* Types of the windows.
LEMMA GuiTyped ==
  ASSUME IInv, [Next]_vars
  PROVE  GuiTypes'
<1>0. GuiTypes
  BY DEF IInv, TypeOK
<1>1. CASE UNCHANGED guiVars
  BY <1>0, <1>1 DEF guiVars, GuiTypes
<1>2. ASSUME NEW c \in Clients, Register(c) \/ CutConnection(c) PROVE GuiTypes'
  BY <1>0, <1>2 DEF Register, CutConnection, GuiTypes
<1>3. ASSUME NEW c \in Clients, GuiReads(c) PROVE GuiTypes'
  BY <1>0, <1>3 DEF GuiReads, GuiTypes
<1>4. ASSUME NEW c \in Clients, GuiPublishes(c) \/ GuiWedges(c) \/ GuiLeaves(c)
      PROVE  GuiTypes'
  BY <1>0, <1>4 DEF GuiPublishes, GuiWedges, GuiLeaves, guiVars, GuiTypes
<1>5. ASSUME NEW c \in Clients, NEW q \in Calls, GuiAnswers(c, q) PROVE GuiTypes'
  BY <1>0, <1>5 DEF GuiAnswers, GuiTypes
<1> QED BY <1>1, <1>2, <1>3, <1>4, <1>5, Writers DEF Window

\* Types of the heartbeats.
LEMMA BeatTyped ==
  ASSUME IInv, [Next]_vars
  PROVE  BeatTypes'
<1>0. BeatTypes
  BY DEF IInv, TypeOK
<1>1. CASE UNCHANGED beatVars
  BY <1>0, <1>1 DEF beatVars, BeatTypes
<1>2. ASSUME NEW c \in Clients, Register(c) \/ HeartbeatEnds(c) PROVE BeatTypes'
  BY <1>0, <1>2 DEF Register, HeartbeatEnds, BeatTypes
<1>3. ASSUME NEW c \in Clients, Pong(c) PROVE BeatTypes'
  <2>1. misses[c] \in Nat /\ MaxMisses \in Nat \ {0}
    BY <1>0, SizesAssumption DEF BeatTypes
  <2>2. \E n \in {0, misses[c] + 1} :
          misses' = [misses EXCEPT ![c] = n] /\ (n = 0 \/ ~ (misses[c] + 1 >= MaxMisses))
    BY <1>3 DEF Pong
  <2>3. \A n, m \in Nat : ~ (n + 1 >= m) => n + 1 \in 0 .. m - 1
    OBVIOUS
  <2>4. 0 \in 0 .. MaxMisses - 1
    BY <2>1
  <2>5. misses' \in [Clients -> 0 .. MaxMisses - 1]
    BY <1>0, <2>1, <2>2, <2>3, <2>4 DEF BeatTypes
  <2>6. heartbeat' = heartbeat \/ heartbeat' = [heartbeat EXCEPT ![c] = "done"]
    BY <1>3 DEF Pong
  <2> QED BY <1>0, <2>5, <2>6 DEF BeatTypes
<1> QED BY <1>1, <1>2, <1>3, Writers

\* Types of the invokes under way.
LEMMA InvokeTyped ==
  ASSUME IInv, [Next]_vars
  PROVE  InvokeTypes'
<1>0. TypeOK /\ PendingExact /\ InvokeTypes
  BY DEF IInv, TypeOK
<1>1. CASE UNCHANGED invokeVars
  BY <1>0, <1>1 DEF invokeVars, InvokeTypes
<1>2. ASSUME NEW i \in Ids, NEW step \in CallSteps, NEW r \in Replies,
             at' = at \/ at' = [at EXCEPT ![i] = step],
             reply' = reply \/ reply' = [reply EXCEPT ![i] = r]
      PROVE  InvokeTypes'
  BY <1>0, <1>2 DEF InvokeTypes
<1>3. CallSteps = {"new", "insert", "send", "wait", "publish", "respond", "answered"}
      /\ {"none", "gui_disconnected"} \subseteq Replies
  BY DEF CallSteps, Replies
<1>4. ASSUME NEW i \in Ids, Invoke(i) PROVE InvokeTypes'
  <2>1. \E step \in CallSteps, r \in Replies :
          at' = [at EXCEPT ![i] = step] /\ (reply' = reply \/ reply' = [reply EXCEPT ![i] = r])
    BY <1>0, <1>3, <1>4, Invoking
  <2> QED BY <1>2, <2>1
<1>5. ASSUME NEW q \in Calls, Route(q) \/ Returns(q) \/ Publish(q) \/ Respond(q)
      PROVE  InvokeTypes'
  <2>1. q \in Ids
    BY DEF Ids
  <2> QED BY <1>2, <1>3, <1>5, <2>1 DEF Route, Returns, Publish, Respond
<1>6. ASSUME NEW c \in Clients, TakePending(c) PROVE InvokeTypes'
  BY <1>0, <1>3, <1>6 DEF TakePending, InvokeTypes
<1>7. ASSUME NEW c \in Clients, Ping(c) PROVE InvokeTypes'
  <2> DEFINE fresh == {k \in PingIds : Fresh(<<c, k>>)}
  <2>1. Min(fresh) \in PingIds
    BY <1>7, MinIsLeast, SizesAssumption DEF Ping
  <2>2. at' = [at EXCEPT ![<<c, Min(fresh)>>] = "insert"] /\ reply' = reply
    BY <1>7 DEF Ping
  <2> HIDE DEF fresh
  <2> QED BY <1>2, <1>3, <2>1, <2>2, PingNames
<1>8. ASSUME NEW c \in Clients, Pong(c) PROVE InvokeTypes'
  BY <1>2, <1>3, <1>8, PingNames DEF Pong
<1>9. ASSUME NEW c \in Clients, Read(c) PROVE InvokeTypes'
  <2>1. at' = at
    BY <1>9 DEF Read
  <2>2. \/ reply' = reply
        \/ \E i \in Ids, r \in Replies : reply' = [reply EXCEPT ![i] = r]
    BY <1>0, <1>9, Reading
  <2> QED BY <1>0, <2>1, <2>2 DEF InvokeTypes
<1> QED BY <1>1, <1>4, <1>5, <1>6, <1>7, <1>8, <1>9, Writers

\* Types of the calls.
LEMMA CallTyped ==
  ASSUME IInv, [Next]_vars
  PROVE  CallTypes'
<1>0. CallTypes /\ InvokeTypes /\ RegistryTypes
  BY DEF IInv, TypeOK
<1>1. CASE UNCHANGED callVars
  BY <1>0, <1>1 DEF callVars, CallTypes
<1>2. ASSUME NEW q \in Calls, Route(q) PROVE CallTypes'
  <2>1. Routed(q) \in Clients \/ Routed(q) \in Outcomes
    BY <1>0 DEF Routed, RegistryTypes, Outcomes
  <2> QED BY <1>0, <1>2, <2>1 DEF Route, CallTypes
<1>3. ASSUME NEW q \in Calls, Returns(q) PROVE CallTypes'
  <2>1. reply[q] \in Outcomes
    BY <1>0 DEF InvokeTypes, Ids, Outcomes
  <2> QED BY <1>0, <1>3, <2>1 DEF Returns, CallTypes
<1>4. ASSUME NEW q \in Calls, Publish(q) PROVE CallTypes'
  <2> DEFINE Completion == [req : Calls, action : Methods, kind : {"completed", "failed"}]
             event == [req |-> q, action |-> method[q],
                       kind |-> IF outcome[q] = "ok" THEN "completed" ELSE "failed"]
  <2>1. event \in Completion /\ bus \in Seq(Completion)
    BY <1>0 DEF CallTypes
  <2>2. bus' = bus \/ bus' = Append(bus, event)
    BY <1>4 DEF Publish
  <2>3. bus' \in Seq(Completion)
    <3> HIDE DEF event, Completion
    <3> QED BY <2>1, <2>2, AppendProperties
  <2> QED BY <1>0, <1>4, <2>3 DEF Publish, CallTypes
<1> QED BY <1>1, <1>2, <1>3, <1>4, Writers

\* Every step keeps the types.
LEMMA TypeStep ==
  ASSUME IInv, [Next]_vars
  PROVE  TypeOK'
BY RegistryTyped, ClientTyped, ConnTyped, GuiTyped, BeatTyped, InvokeTyped, CallTyped DEF TypeOK

-----------------------------------------------------------------------------
(* Who waits *)

\* pending holds exactly those who wait, after every step.
LEMMA PendingStep ==
  ASSUME IInv, [Next]_vars
  PROVE  PendingExact'
<1>0. /\ TypeOK /\ PendingExact /\ pending \in [Clients -> SUBSET Ids]
      /\ at \in [Ids -> CallSteps] /\ reply \in [Ids -> Replies]
      /\ to \in [Calls -> Clients \cup {NoClient}]
  BY DEF IInv, TypeOK, ClientTypes, InvokeTypes, CallTypes
<1>1. Calls \subseteq Ids
  BY DEF Ids
<1>2. ASSUME UNCHANGED <<pending, at, reply, to>> PROVE PendingExact'
  BY <1>0, <1>2 DEF PendingExact, To
<1>3. ASSUME NEW i \in Ids, Invoke(i) PROVE PendingExact'
  <2>1. to' = to /\ \A j \in Ids : To(j)' = To(j)
    BY <1>3 DEF Invoke, Insert, Send, TimesOut, callVars, To
  <2>2. at[i] \in {"insert", "send", "wait"} /\ To(i) \in Clients
    BY <1>0, <1>3, UnderWay DEF Invoke, Insert, Send, TimesOut
  <2>3. (\A q \in Calls : at[q] \in {"insert", "send", "wait"} => to[q] \in Clients)'
    BY <1>0, <1>1, <1>3, <2>1, <2>2, Invoking DEF PendingExact
  <2>4. (\A j \in Ids : at[j] \notin {"send", "wait"} => reply[j] = "none")'
    BY <1>0, <1>3, Invoking DEF PendingExact
  <2>5. (\A c \in Clients, j \in Ids :
           j \in pending[c] <=> To(j) = c /\ at[j] \in {"send", "wait"} /\ reply[j] = "none")'
    BY <1>0, <1>3, <2>1, Invoking DEF PendingExact
  <2> QED BY <2>3, <2>4, <2>5 DEF PendingExact
<1>4. ASSUME NEW q \in Calls, Route(q) PROVE PendingExact'
  <2>1. /\ at[q] = "new" /\ UNCHANGED <<pending, reply>>
        /\ \/ at' = [at EXCEPT ![q] = "insert"] /\ \E c \in Clients : to' = [to EXCEPT ![q] = c]
           \/ at' = [at EXCEPT ![q] = "publish"] /\ to' = to
    BY <1>4 DEF Route, clientVars
  <2> QED BY <1>0, <1>1, <2>1 DEF PendingExact, To
<1>5. ASSUME NEW q \in Calls, Returns(q) PROVE PendingExact'
  <2>1. /\ at[q] = "wait" /\ reply[q] # "none" /\ pending' = pending
        /\ at' = [at EXCEPT ![q] = "publish"] /\ to' = [to EXCEPT ![q] = NoClient]
        /\ reply' = [reply EXCEPT ![q] = "none"]
    BY <1>5 DEF Returns, clientVars
  <2> QED BY <1>0, <1>1, <2>1 DEF PendingExact, To
<1>6. ASSUME NEW q \in Calls, Publish(q) \/ Respond(q) PROVE PendingExact'
  <2>1. /\ at[q] \in {"publish", "respond"} /\ UNCHANGED <<pending, reply, to>>
        /\ \E s \in {"respond", "answered"} : at' = [at EXCEPT ![q] = s]
    BY <1>6 DEF Publish, Respond, clientVars, callVars
  <2> QED BY <1>0, <1>1, <2>1 DEF PendingExact, To
<1>7. ASSUME NEW c \in Clients, TakePending(c) PROVE PendingExact'
  BY <1>0, <1>7 DEF TakePending, callVars, PendingExact, To
<1>8. ASSUME NEW c \in Clients, Ping(c) PROVE PendingExact'
  <2> DEFINE fresh == {k \in PingIds : Fresh(<<c, k>>)}
  <2>1. PICK i \in Ids \ Calls : at[i] = "new" /\ at' = [at EXCEPT ![i] = "insert"]
    <3>1. Min(fresh) \in PingIds /\ at' = [at EXCEPT ![<<c, Min(fresh)>>] = "insert"]
      BY <1>8, MinIsLeast, SizesAssumption DEF Ping
    <3>2. \A k \in PingIds : at[<<c, k>>] = "new"
      BY <1>8 DEF Ping
    <3> QED BY <3>1, <3>2, PingNames
  <2>2. UNCHANGED <<pending, reply, to>>
    BY <1>8 DEF Ping, clientVars, callVars
  <2> QED BY <1>0, <1>1, <2>1, <2>2 DEF PendingExact, To
<1>9. ASSUME NEW c \in Clients, Pong(c) PROVE PendingExact'
  <2>1. PICK i \in Ids \ Calls :
          /\ at[i] = "wait" /\ reply[i] # "none"
          /\ at' = [at EXCEPT ![i] = "new"] /\ reply' = [reply EXCEPT ![i] = "none"]
    BY <1>9, PingNames DEF Pong
  <2>2. UNCHANGED <<pending, to>>
    BY <1>9 DEF Pong, callVars
  <2> QED BY <1>0, <1>1, <2>1, <2>2 DEF PendingExact, To
<1>10. ASSUME NEW c \in Clients, Read(c) PROVE PendingExact'
  <2>1. UNCHANGED <<at, to>>
    BY <1>10 DEF Read, callVars
  <2> QED BY <1>0, <1>2, <1>10, <2>1, Reading DEF PendingExact, To
<1>11. UNCHANGED <<clientVars, invokeVars, callVars>> => PendingExact'
  BY <1>2 DEF clientVars, invokeVars, callVars
<1>12. ASSUME NEW c \in Clients, Eof(c) \/ CutConnection(c) PROVE PendingExact'
  BY <1>2, <1>12 DEF Eof, CutConnection, invokeVars, callVars
<1> QED
  BY <1>3, <1>4, <1>5, <1>6, <1>7, <1>8, <1>9, <1>10, <1>11, <1>12, Writers DEF Leave

\* Nobody enters pending once it was taken.
LEMMA TakenStep ==
  ASSUME IInv, [Next]_vars
  PROVE  Taken'
<1>0. /\ TypeOK /\ PendingExact /\ Taken
      /\ pending \in [Clients -> SUBSET Ids]
      /\ leaving \in [Clients -> {"no", "take", "cut", "out"}]
      /\ \A c \in Clients : c \in clients => leaving[c] = "no"
  BY DEF IInv, TypeOK, ClientTypes, Lifecycle
<1>1. CASE UNCHANGED clientVars
  BY <1>0, <1>1 DEF clientVars, Taken
<1>2. ASSUME NEW i \in Ids, Invoke(i) PROVE Taken'
  BY <1>0, <1>2, Invoking DEF Taken
<1>3. ASSUME NEW c \in Clients, Pong(c) \/ Eof(c) PROVE Taken'
  <2>1. /\ pending' = pending
        /\ leaving' = leaving \/ leaving' = [leaving EXCEPT ![c] = IF c \in clients THEN "take" ELSE @]
    BY <1>3 DEF Pong, Eof, Unregister
  <2> QED BY <1>0, <2>1 DEF Taken
<1>4. ASSUME NEW c \in Clients, Leave(c) PROVE Taken'
  BY <1>0, <1>4 DEF Leave, TakePending, CutConnection, Taken
<1>5. ASSUME NEW c \in Clients, Read(c) PROVE Taken'
  <2>1. leaving' = leaving
    BY <1>5 DEF Read
  <2> QED BY <1>0, <1>5, <2>1, Reading DEF Taken
<1> QED BY <1>1, <1>2, <1>3, <1>4, <1>5, Writers

-----------------------------------------------------------------------------
(* Registration and the lines that follow it *)

\* What a client was, and what is on its way to it, changes with its
\* registration, its removal and the steps of its own connection.
LEMMA LifecycleStep ==
  ASSUME IInv, [Next]_vars
  PROVE  Lifecycle'
<1>0. /\ TypeOK /\ Lifecycle /\ OrderOnce /\ PrimaryWants /\ Acked
      /\ clients \subseteq Clients /\ conn \in [Clients -> ConnSteps]
      /\ leaving \in [Clients -> {"no", "take", "cut", "out"}]
      /\ forwarder \in [Clients -> {"off", "on", "done"}]
      /\ gui \in [Clients -> {"away", "registering", "reading", "wedged", "gone"}]
  BY DEF IInv, TypeOK, RegistryTypes, ClientTypes, ConnTypes, GuiTypes
<1>1. CASE UNCHANGED <<clients, leaving, conn, forwarder, gui>>
  BY <1>0, <1>1 DEF Lifecycle
<1>2. ASSUME NEW c \in Clients, conn[c] # "idle", conn'[c] # "idle", gui'[c] # "away",
             \A d \in Clients \ {c} :
               /\ conn'[d] = conn[d] /\ leaving'[d] = leaving[d] /\ forwarder'[d] = forwarder[d]
               /\ gui'[d] = gui[d] /\ (d \in clients' <=> d \in clients),
             c \in clients' => leaving'[c] = "no"
      PROVE  Lifecycle'
  BY <1>0, <1>2 DEF Lifecycle
<1>3. ASSUME NEW i \in Ids, Invoke(i) PROVE Lifecycle'
  BY <1>1, <1>3 DEF Invoke, Insert, Send, TimesOut, registryVars, connVars, guiVars
<1>4. ASSUME NEW c \in Clients, Register(c) PROVE Lifecycle'
  BY <1>0, <1>4 DEF Register, clientVars, Lifecycle
<1>5. ASSUME NEW c \in Clients, Pong(c) PROVE Lifecycle'
  <2>1. CASE UNCHANGED <<registryVars, leaving>>
    BY <1>1, <1>5, <2>1 DEF Pong, registryVars, connVars, guiVars
  <2>2. CASE Unregister(c)
    BY <1>0, <1>5, <2>2, Unregistering DEF Pong, connVars, guiVars, Lifecycle
  <2> QED BY <1>5, <2>1, <2>2 DEF Pong
<1>6. ASSUME NEW c \in Clients, Eof(c) PROVE Lifecycle'
  <2>1. Unregister(c) /\ conn[c] = "serving" /\ conn' = [conn EXCEPT ![c] = "closing"]
        /\ UNCHANGED <<forwarder, gui>>
    BY <1>6 DEF Eof, guiVars
  <2> QED BY <1>0, <2>1, Unregistering DEF Lifecycle
<1>7. ASSUME NEW c \in Clients, TakePending(c) PROVE Lifecycle'
  BY <1>0, <1>7 DEF TakePending, registryVars, connVars, guiVars, Lifecycle
<1>8. ASSUME NEW c \in Clients, CutConnection(c) PROVE Lifecycle'
  BY <1>0, <1>8 DEF CutConnection, registryVars, Lifecycle
<1>9. ASSUME NEW c \in Clients, SendAck(c) \/ StartForwarder(c) \/ SendReply(c) \/ CloseConn(c)
      PROVE  Lifecycle'
  BY <1>0, <1>9 DEF SendAck, StartForwarder, SendReply, CloseConn, registryVars, clientVars,
                    guiVars, Lifecycle
<1>10. ASSUME NEW c \in Clients, Read(c) PROVE Lifecycle'
  <2>1. /\ UNCHANGED <<clients, leaving, forwarder, gui>> /\ conn[c] = "serving"
        /\ conn' = conn \/ conn' = [conn EXCEPT ![c] = "replying"]
    BY <1>10 DEF Read, registryVars, guiVars
  <2> QED BY <1>0, <2>1 DEF Lifecycle
<1>11. ASSUME NEW c \in Clients, Forward(c) \/ ForwarderEnds(c) PROVE Lifecycle'
  BY <1>0, <1>11 DEF Forward, ForwarderEnds, registryVars, clientVars, guiVars, Lifecycle
<1>12. ASSUME NEW c \in Clients, Window(c) PROVE Lifecycle'
  <2>1. /\ UNCHANGED <<clients, leaving, conn, forwarder>> /\ gui[c] # "away"
        /\ gui' = gui \/ \E g \in {"reading", "gone", "wedged"} : gui' = [gui EXCEPT ![c] = g]
    BY <1>12 DEF Window, GuiReads, GuiPublishes, GuiWedges, GuiLeaves, GuiAnswers, registryVars,
                 clientVars, connVars, guiVars
  <2> QED BY <1>0, <2>1 DEF Lifecycle
<1>13. CASE UNCHANGED <<registryVars, clientVars, connVars, guiVars>>
  BY <1>1, <1>13 DEF registryVars, clientVars, connVars, guiVars
<1>14. \A i \in Ids : Send(i) => Invoke(i)
  BY DEF Invoke
<1>15. \A c \in Clients :
         /\ Leave(c) => TakePending(c) \/ CutConnection(c)
         /\ Serve(c) => SendAck(c) \/ StartForwarder(c) \/ SendReply(c) \/ CloseConn(c)
                        \/ Read(c) \/ Eof(c)
         /\ Read(c) => Serve(c)
         /\ GuiReads(c) \/ GuiPublishes(c) \/ GuiLeaves(c) \/ (\E q \in Calls : GuiAnswers(c, q)) =>
              Window(c)
  BY DEF Leave, Serve, Window
<1>16. ASSUME NEW c \in Clients, Leave(c) \/ Serve(c) PROVE Lifecycle'
  BY <1>6, <1>7, <1>8, <1>9, <1>10, <1>15, <1>16
<1>17. \/ UNCHANGED <<registryVars, clientVars, connVars, guiVars>>
       \/ \E i \in Ids : Invoke(i)
       \/ \E c \in Clients : \/ Register(c) \/ Pong(c) \/ Eof(c) \/ Leave(c) \/ Serve(c)
                            \/ CutConnection(c) \/ Window(c) \/ Forward(c) \/ ForwarderEnds(c)
  BY <1>14, <1>15, Writers
<1> QED
  BY <1>3, <1>4, <1>5, <1>6, <1>8, <1>11, <1>12, <1>13, <1>16, <1>17

\* An id is none of the other lines.
LEMMA IdsApart ==
  ASSUME NEW i \in Ids
  PROVE  i # Event /\ i # Ack
<1>1. CASE i \in Calls
  BY <1>1, LinesAssumption
<1>2. ASSUME NEW c \in Clients, NEW k \in PingIds, i = <<c, k>> PROVE i # Event /\ i # Ack
  <2>1. Len(<<c, k>>) = 2 /\ Len(Event) = 1 /\ Len(Ack) = 1
    BY DEF Event, Ack
  <2> QED BY <1>2, <2>1
<1> QED BY <1>1, <1>2 DEF Ids, Pings

\* A line at the end of the others: an event needs an ack before it.
LEMMA Appending ==
  ASSUME NEW lines \in Seq(Lines), NEW line \in Lines
  PROVE  /\ HasAck(lines) => HasAck(Append(lines, line))
         /\ line = Ack => HasAck(Append(lines, line))
         /\ EventsBehindAck(lines) /\ (line = Event => HasAck(lines)) =>
              EventsBehindAck(Append(lines, line))
<1> DEFINE more == Append(lines, line)
<1>1. /\ Len(more) = Len(lines) + 1 /\ Len(lines) \in Nat /\ more[Len(lines) + 1] = line
      /\ \A i \in 1 .. Len(lines) : more[i] = lines[i]
  BY AppendProperties, LenProperties
<1>2. \A n \in Nat :
        /\ n + 1 \in 1 .. n + 1
        /\ \A k \in 1 .. n : k \in 1 .. n + 1
        /\ \A j \in 1 .. n + 1 : j \in 1 .. n \/ j = n + 1
        /\ \A j \in 1 .. n : \A k \in 1 .. j : k \in 1 .. n
  OBVIOUS
<1> HIDE DEF more
<1>3. HasAck(lines) => HasAck(more)
  BY <1>1, <1>2 DEF HasAck
<1>4. line = Ack => HasAck(more)
  BY <1>1, <1>2 DEF HasAck
<1>5. ASSUME EventsBehindAck(lines), line = Event => HasAck(lines)
      PROVE  EventsBehindAck(more)
  <2> SUFFICES ASSUME NEW j \in 1 .. Len(more), more[j] = Event
               PROVE  \E k \in 1 .. j : more[k] = Ack
    BY DEF EventsBehindAck
  <2>1. CASE j \in 1 .. Len(lines)
    <3>1. lines[j] = Event
      BY <1>1, <2>1
    <3>2. PICK k \in 1 .. j : lines[k] = Ack
      BY <1>5, <2>1, <3>1 DEF EventsBehindAck
    <3>3. k \in 1 .. Len(lines)
      BY <1>1, <1>2, <2>1
    <3> QED BY <1>1, <3>2, <3>3
  <2>2. CASE j = Len(lines) + 1
    <3>1. line = Event
      BY <1>1, <2>2
    <3>2. PICK k \in 1 .. Len(lines) : lines[k] = Ack
      BY <1>5, <3>1 DEF HasAck
    <3>3. k \in 1 .. j /\ more[k] = Ack
      BY <1>1, <1>2, <2>2, <3>2
    <3> QED BY <3>3
  <2> QED BY <1>1, <1>2, <2>1, <2>2
<1> QED BY <1>3, <1>4, <1>5 DEF more

\* A line that is queued behind others leaves the order of ack and events as it was.
LEMMA Enqueuing ==
  ASSUME ConnTypes, Acked, NEW c \in Clients, NEW line \in Lines, Enqueue(c, line),
         line = Event => HasAck(writer[c]) \/ gui[c] \notin {"away", "registering"}
  PROVE  \A d \in Clients : gui[d] \in {"away", "registering"} =>
           /\ HasAck(writer[d]) => HasAck(writer'[d])
           /\ d = c /\ line = Ack => HasAck(writer'[d])
           /\ EventsBehindAck(writer'[d])
<1>1. writer \in [Clients -> Seq(Lines)]
  BY DEF ConnTypes
<1>2. CASE Closed(c)
  BY <1>2 DEF Closed, Enqueue, Acked
<1>3. CASE ~ Closed(c)
  <2>1. writer' = [writer EXCEPT ![c] = Append(writer[c], line)]
    BY <1>3 DEF Enqueue
  <2>2. \A d \in Clients \ {c} : writer'[d] = writer[d]
    BY <1>1, <2>1
  <2>3. writer'[c] = Append(writer[c], line) /\ writer[c] \in Seq(Lines)
    BY <1>1, <2>1
  <2>4. CASE gui[c] \in {"away", "registering"}
    BY <2>2, <2>3, <2>4, Appending DEF Acked
  <2>5. CASE gui[c] \notin {"away", "registering"}
    BY <2>2, <2>5 DEF Acked
  <2> QED BY <2>4, <2>5
<1> QED BY <1>2, <1>3

\* The ack goes before the events, after every step.
LEMMA AckedStep ==
  ASSUME IInv, [Next]_vars
  PROVE  Acked'
<1>0. /\ TypeOK /\ Lifecycle /\ PendingExact /\ Acked /\ ConnTypes
      /\ conn \in [Clients -> ConnSteps]
      /\ forwarder \in [Clients -> {"off", "on", "done"}]
      /\ gui \in [Clients -> {"away", "registering", "reading", "wedged", "gone"}]
      /\ writer \in [Clients -> Seq(Lines)]
  BY DEF IInv, TypeOK, ConnTypes, GuiTypes
<1>1. CASE UNCHANGED <<conn, forwarder, gui, writer>>
  BY <1>0, <1>1 DEF Acked
<1>2. Ack \in Lines /\ Event \in Lines /\ Reply \in Lines /\ Ids \subseteq Lines
      /\ Reply # Event /\ Ack # Event
  BY DEF Lines, Ack, Event, Reply
<1>3. ASSUME NEW i \in Ids, Send(i) PROVE Acked'
  <2>1. To(i) \in Clients /\ UNCHANGED <<conn, forwarder, gui>>
    BY <1>0, <1>3, UnderWay DEF Send, guiVars
  <2>2. CASE writer' = writer
    BY <1>1, <2>1, <2>2
  <2>3. CASE Enqueue(To(i), i)
    <3>1. \A d \in Clients : gui[d] \in {"away", "registering"} =>
            (HasAck(writer[d]) => HasAck(writer'[d])) /\ EventsBehindAck(writer'[d])
      BY <1>0, <1>2, <2>1, <2>3, IdsApart, Enqueuing
    <3> QED BY <1>0, <2>1, <3>1 DEF Acked
  <2> QED BY <1>3, <2>2, <2>3 DEF Send
<1>4. ASSUME NEW c \in Clients, Register(c) PROVE Acked'
  <2>1. /\ conn[c] = "idle" /\ gui[c] = "away" /\ forwarder[c] = "off"
        /\ conn' = [conn EXCEPT ![c] = "registered"] /\ gui' = [gui EXCEPT ![c] = "registering"]
        /\ UNCHANGED <<writer, forwarder>>
    BY <1>0, <1>4 DEF Register, Lifecycle
  <2> QED BY <1>0, <2>1 DEF Acked
<1>5. ASSUME NEW c \in Clients, gui'[c] \notin {"away", "registering"}, gui[c] # "away",
             UNCHANGED <<conn, forwarder>>,
             \A d \in Clients \ {c} : gui'[d] = gui[d] /\ writer'[d] = writer[d]
      PROVE  Acked'
  BY <1>0, <1>5 DEF Acked
<1>6. ASSUME NEW c \in Clients, CutConnection(c) PROVE Acked'
  <2>1. gui[c] # "away"
    BY <1>0, <1>6 DEF CutConnection, Lifecycle
  <2> QED BY <1>0, <1>5, <1>6, <2>1 DEF CutConnection
<1>7. ASSUME NEW c \in Clients, SendAck(c) PROVE Acked'
  <2>1. /\ conn[c] = "registered" /\ conn' = [conn EXCEPT ![c] = "acked"]
        /\ UNCHANGED <<forwarder, gui>> /\ Enqueue(c, Ack)
    BY <1>7 DEF SendAck, guiVars
  <2>2. \A d \in Clients : gui[d] \in {"away", "registering"} =>
          /\ HasAck(writer[d]) \/ d = c => HasAck(writer'[d])
          /\ EventsBehindAck(writer'[d])
    BY <1>0, <1>2, <2>1, Enqueuing
  <2> QED BY <1>0, <2>1, <2>2 DEF Acked
<1>8. ASSUME NEW c \in Clients, StartForwarder(c) \/ CloseConn(c) \/ Eof(c) \/ ForwarderEnds(c) PROVE Acked'
  <2>1. UNCHANGED <<gui, writer>>
    BY <1>8 DEF StartForwarder, CloseConn, Eof, ForwarderEnds, guiVars
  <2>2. /\ \/ conn' = conn
           \/ /\ conn[c] \notin {"idle", "registered"}
              /\ \E s \in {"serving", "closing", "done"} : conn' = [conn EXCEPT ![c] = s]
        /\ \/ forwarder' = forwarder \/ forwarder' = [forwarder EXCEPT ![c] = "done"]
           \/ conn'[c] = "serving" /\ forwarder' = [forwarder EXCEPT ![c] = "on"]
    BY <1>0, <1>8 DEF StartForwarder, CloseConn, Eof, ForwarderEnds
  <2> QED BY <1>0, <2>1, <2>2 DEF Acked
<1>9. ASSUME NEW c \in Clients, Read(c) PROVE Acked'
  <2>1. /\ conn[c] = "serving" /\ UNCHANGED <<gui, writer, forwarder>>
        /\ conn' = conn \/ conn' = [conn EXCEPT ![c] = "replying"]
    BY <1>9 DEF Read, guiVars
  <2> QED BY <1>0, <2>1 DEF Acked
<1>10. ASSUME NEW c \in Clients, SendReply(c) \/ Forward(c) PROVE Acked'
  <2>1. PICK line \in Lines : Enqueue(c, line) /\ (line = Event => forwarder[c] = "on")
    BY <1>2, <1>10 DEF SendReply, Forward
  <2>2. /\ UNCHANGED <<forwarder, gui>>
        /\ conn' = conn \/ (conn[c] = "replying" /\ conn' = [conn EXCEPT ![c] = "serving"])
    BY <1>10 DEF SendReply, Forward, guiVars
  <2>3. line = Event => HasAck(writer[c]) \/ gui[c] \notin {"away", "registering"}
    BY <1>0, <2>1 DEF Acked, Lifecycle
  <2>4. \A d \in Clients : gui[d] \in {"away", "registering"} =>
          (HasAck(writer[d]) => HasAck(writer'[d])) /\ EventsBehindAck(writer'[d])
    BY <1>0, <2>1, <2>3, Enqueuing
  <2> QED BY <1>0, <2>2, <2>4 DEF Acked
<1>11. ASSUME NEW c \in Clients, Window(c) PROVE Acked'
  <2>1. CASE GuiReads(c)
    BY <1>0, <1>5, <2>1 DEF GuiReads
  <2>2. CASE GuiWedges(c) \/ GuiLeaves(c)
    BY <1>0, <1>5, <2>2 DEF GuiWedges, GuiLeaves, connVars
  <2>3. CASE GuiPublishes(c) \/ \E q \in Calls : GuiAnswers(c, q)
    BY <1>1, <2>3 DEF GuiPublishes, GuiAnswers, guiVars
  <2> QED BY <1>11, <2>1, <2>2, <2>3 DEF Window
<1>12. CASE UNCHANGED <<connVars, guiVars>>
  BY <1>1, <1>12 DEF connVars, guiVars
<1> QED
  BY <1>3, <1>4, <1>6, <1>7, <1>8, <1>9, <1>10, <1>11, <1>12, Writers DEF Serve, Window

-----------------------------------------------------------------------------
(* The theorems *)

\* The invariant holds initially.
LEMMA InitHolds == Init => IInv
<1> SUFFICES ASSUME Init PROVE IInv
  OBVIOUS
<1>1. /\ RegistryTypes /\ ClientTypes /\ GuiTypes
      /\ BeatTypes /\ InvokeTypes
  BY SizesAssumption DEF Init, RegistryTypes, ClientTypes, GuiTypes, BeatTypes, InvokeTypes,
     CallSteps, Replies
<1>2. ConnTypes
  BY SizesAssumption DEF Init, ConnTypes, ConnSteps
<1>3. CallTypes
  BY DEF Init, CallTypes, Outcomes, Replies
<1>4. Lifecycle /\ Taken
  BY DEF Init, Lifecycle, Taken
<1>5. OrderOnce /\ PrimaryWants
  BY DEF Init, OrderOnce, PrimaryWants, ToSet
<1>6. PendingExact
  BY DEF Init, PendingExact, Ids
<1>7. Acked
  BY DEF Init, Acked, HasAck, EventsBehindAck
<1> QED BY <1>1, <1>2, <1>3, <1>4, <1>5, <1>6, <1>7 DEF IInv, TypeOK

\* The inductive invariant of the registry, its clients and their windows.
THEOREM Invariance == Spec => []IInv
<1>1. IInv /\ [Next]_vars => IInv'
  <2> SUFFICES ASSUME IInv, [Next]_vars PROVE IInv'
    OBVIOUS
  <2> QED BY TypeStep, LifecycleStep, RegistryStep, PendingStep, TakenStep, AckedStep DEF IInv
<1> QED BY InitHolds, <1>1, PTL DEF Spec

\* Every variable keeps to its type; no channel to a writer thread overflows.
THEOREM TypeCorrect == Spec => []TypeOK
  BY Invariance, PTL DEF IInv

\* Whatever way an invoke() ends, by a reply, a timeout, a full channel or the
\* removal of the window, its entry in pending is gone; and nobody waits for a
\* window whose pending calls were taken by fail_all_pending, before or after.
THEOREM NoneWaits == Spec => []NoneWaitsInVain
<1>1. IInv => NoLeftovers
  BY DEF IInv, PendingExact, NoLeftovers
<1>2. IInv => NoneWaitsForTheGone
  BY DEF IInv, PendingExact, Taken, NoneWaitsForTheGone
<1> QED BY <1>1, <1>2, Invariance, PTL DEF NoneWaitsInVain

\* register and unregister keep clients, order and primary together: the
\* order lists each client once, and a client that wants to be primary is.
THEOREM PrimaryStands == Spec => []PrimaryServes
<1>1. ASSUME IInv PROVE PrimaryServes
  <2>1. /\ order \in Seq(Clients) /\ ToSet(order) = clients
        /\ \A i, j \in DOMAIN order : order[i] = order[j] => i = j
        /\ clients \subseteq Clients
    BY <1>1 DEF IInv, TypeOK, RegistryTypes, OrderOnce
  <2>2. Len(order) \in Nat /\ DOMAIN order = 1 .. Len(order)
        /\ order = [i \in 1 .. Len(order) |-> order[i]]
    BY <2>1, LenProperties
  <2>3. order \in Bijection(1 .. Len(order), clients)
    <3>1. order \in [1 .. Len(order) -> clients]
      BY <2>1, <2>2 DEF ToSet
    <3> QED BY <2>1, <2>2, <3>1 DEF Bijection, Injection, Surjection, IsInjective, ToSet
  <2>4. IsFiniteSet(1 .. Len(order)) /\ Cardinality(1 .. Len(order)) = Len(order)
    <3>1. 1 \in Int /\ Len(order) \in Int /\ (IF 1 > Len(order) THEN 0 ELSE Len(order) - 1 + 1) = Len(order)
      BY <2>2
    <3> QED BY <3>1, FS_Interval
  <2>5. Cardinality(clients) = Len(order)
    BY <2>3, <2>4, FS_Bijection DEF ExistsBijection
  <2> QED BY <1>1, <2>1, <2>5 DEF IInv, PrimaryWants, PrimaryServes
<1> QED BY <1>1, Invariance, PTL

\* No event overtakes the ack of the registration on its way to the window.
THEOREM AckBeforeEvents == Spec => []EventsFollowAck
<1>1. IInv => EventsFollowAck
  BY DEF IInv, Acked, EventsBehindAck, EventsFollowAck
<1> QED BY <1>1, Invariance, PTL

\* A call goes to a registered window that asked to be primary, while there is
\* one, and no window reads an event before its ack, however many come and go.
THEOREM Served == Spec => []WindowsAreServed
  BY TypeCorrect, PrimaryStands, AckBeforeEvents, PTL DEF WindowsAreServed
-----------------------------------------------------------------------------
(* A proxied call implements RequestContract *)

\* The initial states are initial states of the contract.
LEMMA ContractInit == Init => Contract!Init
<1> SUFFICES ASSUME Init PROVE Contract!Init
  OBVIOUS
<1>1. method \in [Calls -> Methods] /\ bus = <<>> /\ \A q \in Calls : at[q] = "new"
  BY DEF Init, Ids
<1>2. [q \in Calls |-> ContractStage(q)] = [q \in Calls |-> "new"]
  BY <1>1 DEF ContractStage
<1>3. [q \in Calls |-> at[q] # "new" /\ method[q] \in Silenced] = [q \in Calls |-> FALSE]
  BY <1>1
<1> QED BY <1>1, <1>2, <1>3 DEF Contract!Init

\* Every step is a step of the contract or changes nothing it speaks of.
LEMMA ContractStep ==
  ASSUME IInv, [Next]_vars
  PROVE  [Contract!Next]_(Contract!vars)
<1> DEFINE stages == [q \in Calls |-> ContractStage(q)]
           silences == [q \in Calls |-> at[q] # "new" /\ method[q] \in Silenced]
<1>0. at \in [Ids -> CallSteps] /\ Calls \subseteq Ids /\ method \in [Calls -> Methods]
  BY DEF IInv, TypeOK, InvokeTypes, CallTypes, Ids
<1>1. CASE UNCHANGED <<stages, silences, method, bus>>
  BY <1>1 DEF Contract!vars
<1>2. ASSUME UNCHANGED <<method, bus>>, \A q \in Calls : at'[q] = at[q]
      PROVE  UNCHANGED <<stages, silences, method, bus>>
  BY <1>2 DEF ContractStage
<1>3. ASSUME NEW q \in Calls, Route(q) PROVE Contract!Accept(q)
  <2>1. /\ at[q] = "new" /\ UNCHANGED <<method, bus>>
        /\ \E s \in {"insert", "publish"} : at' = [at EXCEPT ![q] = s]
    BY <1>3 DEF Route
  <2>2. stages[q] = "new" /\ stages' = [stages EXCEPT ![q] = "pending"]
    BY <1>0, <2>1 DEF ContractStage
  <2>3. silences' = [silences EXCEPT ![q] = method[q] \in Silenced]
    <3>1. at'[q] # "new" /\ method' = method /\ \A p \in Calls \ {q} : at'[p] = at[p]
      BY <1>0, <2>1
    <3>2. silences' = [p \in Calls |-> at'[p] # "new" /\ method[p] \in Silenced]
      BY <3>1
    <3>3. \A p \in Calls :
            (at'[p] # "new" /\ method[p] \in Silenced) =
               IF p = q THEN method[q] \in Silenced ELSE at[p] # "new" /\ method[p] \in Silenced
      BY <3>1
    <3> QED BY <3>2, <3>3, Zenon
  <2> QED BY <2>1, <2>2, <2>3 DEF Contract!Accept
<1>4. ASSUME NEW q \in Calls, Invoke(q) \/ Returns(q)
      PROVE  UNCHANGED <<stages, silences, method, bus>>
  <2>1. /\ at[q] \in {"insert", "send", "wait"} /\ UNCHANGED <<method, bus>>
        /\ \E s \in {"send", "wait", "publish"} : at' = [at EXCEPT ![q] = s] \/ at' = at
    BY <1>4 DEF Invoke, Insert, Send, TimesOut, Returns, callVars
  <2> QED BY <1>0, <2>1 DEF ContractStage
<1>5. ASSUME NEW q \in Calls, Publish(q) PROVE Contract!Announce(q)
  <2>1. /\ at[q] = "publish" /\ at' = [at EXCEPT ![q] = "respond"] /\ method' = method
        /\ bus' = IF method[q] \in Silenced THEN bus
                  ELSE Append(bus, [req |-> q, action |-> method[q],
                                    kind |-> IF outcome[q] = "ok" THEN "completed" ELSE "failed"])
    BY <1>5 DEF Publish
  <2>2. stages[q] = "pending" /\ stages' = [stages EXCEPT ![q] = "announced"]
    BY <1>0, <2>1 DEF ContractStage
  <2>3. silences' = silences /\ silences[q] = (method[q] \in Silenced)
    BY <1>0, <2>1
  <2> QED BY <2>1, <2>2, <2>3 DEF Contract!Announce
<1>6. ASSUME NEW q \in Calls, Respond(q) PROVE Contract!Answer(q)
  <2>1. /\ at[q] = "respond" /\ at' = [at EXCEPT ![q] = "answered"] /\ UNCHANGED <<method, bus>>
    BY <1>6 DEF Respond, callVars
  <2>2. stages[q] = "announced" /\ stages' = [stages EXCEPT ![q] = "answered"]
        /\ silences' = silences
    BY <1>0, <2>1 DEF ContractStage
  <2> QED BY <2>1, <2>2 DEF Contract!Answer
<1>7. ASSUME NEW c \in Clients, Beat(c)
      PROVE  UNCHANGED <<stages, silences, method, bus>>
  <2>1. \A k \in PingIds : <<c, k>> \notin Calls
    BY PingNames
  <2>2. ASSUME Ping(c) PROVE UNCHANGED <<method, bus>> /\ \A q \in Calls : at'[q] = at[q]
    <3>1. PICK k : at' = [at EXCEPT ![<<c, k>>] = "insert"] /\ k \in PingIds
      <4> DEFINE fresh == {k \in PingIds : Fresh(<<c, k>>)}
      <4>1. fresh # {} /\ at' = [at EXCEPT ![<<c, Min(fresh)>>] = "insert"]
        BY <2>2 DEF Ping
      <4>2. fresh \in SUBSET Nat /\ fresh \subseteq PingIds
        BY SizesAssumption
      <4> HIDE DEF fresh
      <4> QED BY <4>1, <4>2, MinIsLeast
    <3> QED BY <1>0, <2>1, <2>2, <3>1 DEF Ping, callVars
  <2>3. ASSUME Pong(c) PROVE UNCHANGED <<method, bus>> /\ \A q \in Calls : at'[q] = at[q]
    BY <1>0, <2>1, <2>3 DEF Pong, callVars
  <2>4. ASSUME NEW k \in PingIds, Invoke(<<c, k>>)
        PROVE  UNCHANGED <<method, bus>> /\ \A q \in Calls : at'[q] = at[q]
    BY <1>0, <2>1, <2>4 DEF Invoke, Insert, Send, TimesOut, callVars
  <2>5. CASE HeartbeatEnds(c)
    BY <1>2, <2>5 DEF HeartbeatEnds, invokeVars, callVars
  <2> QED BY <1>2, <1>7, <2>2, <2>3, <2>4, <2>5 DEF Beat
<1>8. ASSUME NEW c \in Clients,
             Register(c) \/ Serve(c) \/ Leave(c) \/ Window(c) \/ Forward(c) \/ ForwarderEnds(c)
      PROVE  UNCHANGED <<at, method, bus>>
  <2>1. CASE Serve(c)
    BY <2>1 DEF Serve, SendAck, StartForwarder, Read, SendReply, Eof, CloseConn, invokeVars, callVars
  <2>2. CASE Window(c)
    BY <2>2 DEF Window, GuiReads, GuiPublishes, GuiWedges, GuiLeaves, GuiAnswers, invokeVars, callVars
  <2>3. CASE Register(c) \/ Leave(c) \/ Forward(c) \/ ForwarderEnds(c)
    BY <2>3 DEF Register, Leave, TakePending, CutConnection, Forward, ForwarderEnds, invokeVars, callVars
  <2> QED BY <1>8, <2>1, <2>2, <2>3
<1>9. ASSUME NEW q \in Calls, Route(q) \/ Proxy(q) PROVE [Contract!Next]_(Contract!vars)
  BY <1>1, <1>3, <1>4, <1>5, <1>6, <1>9 DEF Proxy, Contract!Next, Contract!Settle
<1>10. CASE UNCHANGED vars
  BY <1>1, <1>2, <1>10 DEF vars, invokeVars, callVars
<1>11. ASSUME NEW c \in Clients, Next, Beat(c) PROVE [Contract!Next]_(Contract!vars)
  BY <1>1, <1>7, <1>11
<1>12. CASE UNCHANGED <<at, method, bus>>
  BY <1>1, <1>2, <1>12
<1> QED BY <1>8, <1>9, <1>10, <1>11, <1>12 DEF Next

\* A GUI-owned method proxied to a window is, to its caller, a registered
\* action: announced at most once, and answered only after its announcement.
THEOREM Implementation == Spec => Contract!Spec
<1>1. IInv /\ [Next]_vars => [Contract!Next]_(Contract!vars)
  BY ContractStep
<1> QED BY ContractInit, Invariance, <1>1, PTL DEF Spec, Contract!Spec
=============================================================================
