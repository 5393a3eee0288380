----------------------------- MODULE DiscordPlugin -----------------------------
(***************************************************************************)
(* The discord plugin's gateway loop against Discord: a session that is    *)
(* identified or resumed, dispatches with a sequence number, heartbeats    *)
(* that tell a dead connection from a quiet one.  A connection is one      *)
(* thread that reads with a time limit, so that heartbeats are sent.       *)
(***************************************************************************)
EXTENDS Naturals, Sequences

CONSTANTS
  MaxEvents,   \* bound on what Discord dispatches
  MaxFaults,   \* bound on what goes wrong
  BackoffMax   \* reconnect_max, in steps of the doubling

DiscordAssumption == MaxEvents \in Nat /\ MaxFaults \in Nat /\ BackoffMax \in Nat \ {0}

Kinds == {"own_reaction", "message"}

VARIABLES
  creds,      \* a token is in the environment or in the store
  loop, backoff,
  session,    \* GatewaySession: [id, seq, url, bot]; 0 is None
  inFlight, fresh,   \* a heartbeat is not acknowledged; last_ack is after the last one that was due
  link,       \* "up", "closed", or "dead", which no end is told
  wire,       \* frames of the connection
  owed,       \* heartbeats that Discord acknowledges next
  hosts,      \* the host of resume_gateway_url answers
  server,     \* Discord's session: [id, log, valid, here], the connection being its own
  handled,    \* history: dispatches given to from_dispatch
  spoken,     \* history: kinds that passed the filter
  zombies,    \* history: connections left as zombies, by what they were
  faults

beat == <<inFlight, fresh, owed>>
net == <<link, wire, hosts, server>>
history == <<handled, spoken, zombies>>
vars == <<creds, loop, backoff, session, beat, net, history, faults>>

NoSession == [id |-> 0, seq |-> 0, url |-> FALSE, bot |-> FALSE]
Sequence == 0..MaxEvents + 1
Dispatches == [op : {"dispatch"}, seq : Sequence, kind : Kinds]
Frames == [op : {"hello", "resumed", "reconnect", "prompt", "resumable", "invalid"}]
            \cup [op : {"ready"}, id : 1..MaxFaults + 1] \cup Dispatches

TypeOK ==
  /\ creds \in BOOLEAN /\ loop \in {"credentials", "connect", "hello", "read", "sleep"}
  /\ backoff \in 1..BackoffMax
  /\ session \in [id : 0..MaxFaults + 1, seq : Sequence, url : BOOLEAN, bot : BOOLEAN]
  /\ inFlight \in BOOLEAN /\ fresh \in BOOLEAN /\ owed \in Seq({"due", "prompt"})
  /\ link \in {"up", "closed", "dead"} /\ wire \in Seq(Frames) /\ hosts \in BOOLEAN
  /\ server \in [id : 0..MaxFaults + 1, log : Seq(Kinds), valid : BOOLEAN, here : BOOLEAN]
  /\ handled \in Seq([id : Nat, seq : Sequence]) /\ spoken \subseteq Kinds
  /\ zombies \subseteq {"up", "closed", "dead"} /\ faults \in 0..MaxFaults

Init ==
  /\ creds \in BOOLEAN /\ loop = "credentials" /\ backoff = 1 /\ session = NoSession
  /\ inFlight = FALSE /\ fresh = TRUE /\ owed = <<>> /\ link = "closed" /\ wire = <<>> /\ hosts = TRUE
  /\ server = [id |-> 0, log |-> <<>>, valid |-> FALSE, here |-> FALSE]
  /\ handled = <<>> /\ spoken = {} /\ zombies = {} /\ faults = 0

Fault == faults < MaxFaults /\ faults' = faults + 1

-----------------------------------------------------------------------------
(* run_loop and connect_and_serve *)

CanResume == session.id # 0 /\ session.seq # 0
FullReset == [session EXCEPT !.id = 0, !.seq = 0, !.url = FALSE]

Resolve ==
  /\ loop = "credentials" /\ creds /\ loop' = "connect"
  /\ UNCHANGED <<creds, backoff, session, beat, net, history, faults>>

\* Ok: again at once, with the first delay.  Err: sleep, then the doubling.
Reconnect == loop' = "credentials" /\ backoff' = 1
Error == loop' = "sleep" /\ UNCHANGED backoff

Sleep ==
  /\ loop = "sleep" /\ loop' = "credentials"
  /\ backoff' = IF 2 * backoff > BackoffMax THEN BackoffMax ELSE 2 * backoff
  /\ UNCHANGED <<creds, session, beat, net, history, faults>>

\* The session's own host when there is one to resume at; otherwise the one that
\* /gateway/bot names.
Connect ==
  /\ loop = "connect"
  /\ \/ /\ ~(CanResume /\ session.url) \/ hosts
        /\ loop' = "hello" /\ link' = "up" /\ wire' = <<[op |-> "hello"]>> /\ owed' = <<>>
        /\ server' = [server EXCEPT !.here = FALSE]
        /\ UNCHANGED <<backoff, faults>>
     \/ Fault /\ Error /\ UNCHANGED <<link, wire, owed, server>>
     \/ CanResume /\ session.url /\ ~hosts /\ Error /\ UNCHANGED <<link, wire, owed, server, faults>>
  /\ UNCHANGED <<creds, session, inFlight, fresh, hosts, history>>

\* What Discord answers: the dispatches after the number of the RESUME, or that the
\* session is gone.
Resumed ==
  IF server.valid /\ server.id = session.id
  THEN /\ wire' = [i \in 1..Len(server.log) + 1 - session.seq |->
                     [op |-> "dispatch", seq |-> session.seq + i, kind |-> server.log[session.seq + i - 1]]]
                  \o <<[op |-> "resumed"]>>
       /\ server' = [server EXCEPT !.here = TRUE]
  ELSE wire' = <<[op |-> "invalid"]>> /\ UNCHANGED server

Identified ==
  /\ server' = [id |-> server.id + 1, log |-> <<>>, valid |-> TRUE, here |-> TRUE]
  /\ wire' = <<[op |-> "ready", id |-> server.id + 1]>>

\* HELLO is answered with RESUME or IDENTIFY, and the heartbeats start afresh.
Hello ==
  /\ loop = "hello" /\ link = "up" /\ wire # <<>>
  /\ loop' = "read" /\ inFlight' = FALSE /\ fresh' = TRUE
  /\ IF CanResume THEN Resumed ELSE server.id <= MaxFaults /\ Identified
  /\ UNCHANGED <<creds, backoff, session, owed, link, hosts, history, faults>>

\* Fifteen seconds without one, or the connection ends.
NoHello ==
  /\ loop = "hello" /\ link # "up" /\ Error
  /\ UNCHANGED <<creds, session, beat, net, history, faults>>

-----------------------------------------------------------------------------
(* Heartbeats *)

Mutant_Zombie == inFlight
Zombie == inFlight /\ ~fresh

\* A heartbeat is due.  Where the connection is up, Discord has acknowledged the
\* one before; what it prompted for just now may be on its way.
HeartbeatDue ==
  /\ loop = "read" /\ (link = "up" => owed \in {<<>>, <<"prompt">>})
  /\ IF Zombie THEN /\ Error /\ zombies' = zombies \cup {link} /\ UNCHANGED beat
               ELSE /\ inFlight' = TRUE /\ fresh' = FALSE
                    /\ owed' = IF link = "up" THEN Append(owed, "due") ELSE owed
                    /\ UNCHANGED <<loop, backoff, zombies>>
  /\ UNCHANGED <<creds, session, net, handled, spoken, faults>>

HeartbeatAck ==
  /\ loop = "read" /\ link = "up" /\ owed # <<>>
  /\ owed' = Tail(owed) /\ inFlight' = FALSE /\ fresh' = TRUE
  /\ UNCHANGED <<creds, loop, backoff, session, net, history, faults>>

-----------------------------------------------------------------------------
(* Frames *)

Read(op) == loop = "read" /\ wire # <<>> /\ Head(wire).op = op /\ wire' = Tail(wire)

Ready ==
  /\ Read("ready")
  /\ session' = [id |-> Head(wire).id, seq |-> 1, url |-> TRUE, bot |-> TRUE]
  /\ UNCHANGED <<creds, loop, backoff, beat, link, hosts, server, history, faults>>

Mutant_Seen(s) == session
\* The number is taken from dispatches alone, before the event is published.
Seen(s) == [session EXCEPT !.seq = s]

Passes(kind) == kind # "own_reaction" \/ ~session.bot

Dispatch ==
  /\ Read("dispatch")
  /\ LET f == Head(wire) IN
       /\ session' = Seen(f.seq)
       /\ handled' = Append(handled, [id |-> server.id, seq |-> f.seq])
       /\ spoken' = IF Passes(f.kind) THEN spoken \cup {f.kind} ELSE spoken
  /\ UNCHANGED <<creds, loop, backoff, beat, link, hosts, server, zombies, faults>>

Resume ==
  /\ Read("resumed") /\ UNCHANGED <<creds, loop, backoff, session, beat, link, hosts, server, history, faults>>

\* Discord asks for a heartbeat now: the ones that are due keep their time.
Prompt ==
  /\ Read("prompt") /\ inFlight' = TRUE /\ owed' = IF link = "up" THEN Append(owed, "prompt") ELSE owed
  /\ UNCHANGED <<creds, loop, backoff, session, fresh, link, hosts, server, history, faults>>

Leave(op, s) ==
  /\ Read(op) /\ Reconnect /\ session' = s /\ link' = "closed"
  /\ UNCHANGED <<creds, beat, hosts, server, history, faults>>

ServerReconnect == Leave("reconnect", session)
InvalidSession == Leave("invalid", FullReset) \/ Leave("resumable", session)

\* A close that no RESUME survives, or another end: the session is kept.
Ends ==
  /\ loop = "read" /\ wire = <<>> /\ link = "closed" /\ Error
  /\ session' \in {session, FullReset}
  /\ UNCHANGED <<creds, beat, net, history, faults>>

-----------------------------------------------------------------------------
(* Discord, the network, the user *)

\* Something happens in the session: to be sent now, or at the next RESUME.
Emit ==
  /\ server.valid /\ Len(server.log) < MaxEvents
  /\ \E kind \in Kinds :
       /\ server' = [server EXCEPT !.log = Append(@, kind)]
       /\ wire' = IF server.here /\ link = "up"
                  THEN Append(wire, [op |-> "dispatch", seq |-> Len(server.log) + 2, kind |-> kind]) ELSE wire
  /\ UNCHANGED <<creds, loop, backoff, session, beat, link, hosts, history, faults>>

Ask ==
  /\ Fault /\ server.here /\ link = "up" /\ loop = "read"
  /\ \E op \in {"reconnect", "prompt", "resumable"} : wire' = Append(wire, [op |-> op])
  /\ UNCHANGED <<creds, loop, backoff, session, beat, link, hosts, server, history>>

\* The connection ends, with or without what was on its way, or goes silent.
Break ==
  /\ Fault /\ link = "up" /\ link' \in {"closed", "dead"}
  /\ wire' \in {<<>>, IF link' = "closed" THEN wire ELSE <<>>} /\ owed' = <<>>
  /\ server' = [server EXCEPT !.here = FALSE]
  /\ UNCHANGED <<creds, loop, backoff, session, inFlight, fresh, hosts, history>>

Expire ==
  /\ Fault /\ server.valid /\ ~server.here /\ server' = [server EXCEPT !.valid = FALSE]
  /\ UNCHANGED <<creds, loop, backoff, session, beat, link, wire, hosts, history>>

\* The host that the session was told to resume at is taken out of service.
Rotate ==
  /\ Fault /\ hosts /\ session.url /\ hosts' = FALSE
  /\ UNCHANGED <<creds, loop, backoff, session, beat, link, wire, server, history>>

Auth ==
  /\ ~creds /\ creds' = TRUE
  /\ UNCHANGED <<loop, backoff, session, beat, net, history, faults>>

-----------------------------------------------------------------------------
Frame == Ready \/ Dispatch \/ Resume \/ Prompt \/ ServerReconnect \/ InvalidSession
Work == Resolve \/ Sleep \/ Connect \/ Hello \/ NoHello \/ Frame \/ Ends
Environment == Emit \/ Ask \/ Break \/ Expire \/ Rotate \/ Auth

Next == Work \/ HeartbeatDue \/ HeartbeatAck \/ Environment

Fairness == WF_vars(Work) /\ WF_vars(HeartbeatDue)
Spec == Init /\ [][Next]_vars
FairSpec == Spec /\ Fairness

-----------------------------------------------------------------------------
(* Properties *)

\* However connections end, the dispatches of a session are handled once each, in
\* order and without a gap: the number of the last one is what a RESUME sends.
\* (gateway.rs GatewaySession, handle_text_frame op 0)
EachOnceInOrder ==
  \A i \in DOMAIN handled :
    handled[i].seq = IF i > 1 /\ handled[i - 1].id = handled[i].id THEN handled[i - 1].seq + 1 ELSE 2

\* A connection that Discord answers on is not taken for a zombie, whatever it
\* prompts for between two heartbeats.  (gateway.rs connect_and_serve "zombied connection")
OnlyTheDeadAreZombies == "up" \notin zombies

\* A connection that went silent is left: nothing else would tell.
\* (gateway.rs:31-33 "Zombie detection")
Dead == link = "dead"
StillDead == Dead /\ loop # "sleep"
DeadIsNoticed == Dead ~> ~StillDead

\* The bot's own reactions start no trigger: READY names the bot before a dispatch.
\* (gateway.rs full_reset, events.rs classify_reaction)
OwnAreSilent == "own_reaction" \notin spoken

-----------------------------------------------------------------------------
(* What the code does not keep *)

\* gateway.rs "fall back to bootstrap ... when a server-side rotation invalidated the
\* cached URL": the session that names the host is kept, and with it the host.
FallsBack == creds /\ link # "up" ~> link = "up"
=============================================================================
