------------------------------ MODULE SlackPlugin ------------------------------
(***************************************************************************)
(* The slack plugin's Socket Mode loop against Slack: credentials from one *)
(* source, a connection for each bootstrap URL, envelopes that are         *)
(* acknowledged first and then published as slack.raw and, when they pass  *)
(* the filter, as the event a trigger waits for.                           *)
(***************************************************************************)
EXTENDS Naturals, Sequences, FiniteSets

CONSTANTS
  Envelopes,
  MaxSends,    \* bound on the times Slack sends an envelope
  MaxDrops,    \* bound on what happens to connections and to the plugin
  BackoffMax,  \* reconnect_max, in steps of the doubling
  None

SlackAssumption ==
  {MaxSends, MaxDrops} \subseteq Nat /\ BackoffMax \in Nat \ {0} /\ None \notin Envelopes

\* What an envelope carries: a direct message or mention, a reaction of the bot
\* itself or of another, something that the filter drops.
Contents == {"message", "own_reaction", "reaction", "other"}

VARIABLES
  content,    \* [Envelopes -> Contents]
  env,        \* the tokens of the environment: "both", "one" or "none"
  stored,     \* the store has both tokens, and with them the bot's user
  loop,       \* where the loop is
  knows,      \* the connection's credentials name the bot's user
  backoff,
  line,       \* envelopes in the connection
  link,       \* the connection as it is: "up", "closed", or "dead", which nobody notices
  sent,       \* [Envelopes -> times sent]
  confirmed,  \* envelopes Slack knows to be acknowledged
  handling,   \* the envelope that is acknowledged and not yet published whole
  raw, filtered,   \* history: [Envelopes -> times published]
  acks,       \* history: [Envelopes -> times acknowledged]
  killed,     \* history: [Envelopes -> deaths of the plugin that handled it]
  drops

config == <<content, env>>
slack == <<line, link, sent, confirmed>>
published == <<raw, filtered, acks, killed>>
vars == <<config, stored, loop, knows, backoff, slack, handling, published, drops>>

TypeOK ==
  /\ content \in [Envelopes -> Contents] /\ env \in {"both", "one", "none"} /\ stored \in BOOLEAN
  /\ loop \in {"credentials", "connect", "read", "raw", "filter", "sleep", "gone"}
  /\ knows \in BOOLEAN
  /\ backoff \in 1..BackoffMax /\ line \in Seq(Envelopes) /\ link \in {"up", "closed", "dead"}
  /\ sent \in [Envelopes -> 0..MaxSends] /\ confirmed \subseteq Envelopes
  /\ handling \in Envelopes \cup {None} /\ drops \in 0..MaxDrops
  /\ {raw, filtered, acks} \subseteq [Envelopes -> 0..MaxSends] /\ killed \in [Envelopes -> Nat]

Zero == [e \in Envelopes |-> 0]

Init ==
  /\ content \in [Envelopes -> Contents] /\ env \in {"both", "one", "none"} /\ stored \in BOOLEAN
  /\ loop = "credentials" /\ knows = FALSE /\ backoff = 1 /\ line = <<>> /\ link = "closed"
  /\ sent = Zero /\ confirmed = {} /\ handling = None
  /\ raw = Zero /\ filtered = Zero /\ acks = Zero /\ killed = Zero /\ drops = 0

-----------------------------------------------------------------------------
(* The loop *)

\* Both from the environment or both from the store.
Credentials == env = "both" \/ stored

Mutant_Recheck == loop' = "gone"
\* Without credentials the loop sleeps, and looks again.
Recheck == loop' = "credentials"

Resolve ==
  /\ loop = "credentials"
  /\ IF Credentials THEN loop' = "connect" ELSE Recheck
  /\ knows' = stored     \* lifted to the environment's pair when the bot token is the same
  /\ UNCHANGED <<config, stored, backoff, slack, handling, published, drops>>

\* apps.connections.open and the handshake: a new connection, or an error.
Connect ==
  /\ loop = "connect"
  /\ \/ loop' = "read" /\ link' = "up" /\ line' = <<>> /\ UNCHANGED drops
     \/ drops < MaxDrops /\ drops' = drops + 1 /\ loop' = "sleep" /\ UNCHANGED <<link, line>>
  /\ UNCHANGED <<config, stored, knows, backoff, sent, confirmed, handling, published>>

\* After an error: interruptible_sleep, then the doubling.
Sleep ==
  /\ loop = "sleep" /\ loop' = "credentials"
  /\ backoff' = IF 2 * backoff > BackoffMax THEN BackoffMax ELSE 2 * backoff
  /\ UNCHANGED <<config, stored, knows, slack, handling, published, drops>>

Class(e) == content[e] \in {"message", "reaction"} \/ (content[e] = "own_reaction" /\ ~knows)

\* events_api: the acknowledgement is sent first; where it cannot be, nothing is
\* published.
Handle(e) ==
  IF link = "closed" THEN loop' = "sleep" /\ UNCHANGED <<acks, handling>>
  ELSE acks' = [acks EXCEPT ![e] = @ + 1] /\ handling' = e /\ loop' = "raw"

ReadEnvelope ==
  /\ loop = "read" /\ line # <<>> /\ line' = Tail(line) /\ Handle(Head(line))
  /\ confirmed' = IF link = "up" THEN confirmed \cup {Head(line)} ELSE confirmed
  /\ UNCHANGED <<config, stored, knows, backoff, link, sent, raw, filtered, killed, drops>>

\* slack.raw, then the permalink of a reaction, then the event of the filter.
PublishRaw ==
  /\ loop = "raw" /\ raw' = [raw EXCEPT ![handling] = @ + 1]
  /\ IF Class(handling) THEN loop' = "filter" /\ UNCHANGED handling
                        ELSE loop' = "read" /\ handling' = None
  /\ UNCHANGED <<config, stored, knows, backoff, slack, filtered, acks, killed, drops>>

Mutant_PublishedWith(permalink) == permalink
\* A reaction whose permalink is not found goes without.
PublishedWith(permalink) == TRUE

PublishFiltered ==
  /\ loop = "filter"
  /\ \E permalink \in BOOLEAN :
       filtered' = IF PublishedWith(permalink) THEN [filtered EXCEPT ![handling] = @ + 1] ELSE filtered
  /\ handling' = None /\ loop' = "read"
  /\ UNCHANGED <<config, stored, knows, backoff, slack, raw, acks, killed, drops>>

\* `disconnect': at once, with the first delay again.  Anything else that ends a
\* connection, a frame that cannot be read among them, is an error.
Rotate ==
  /\ loop = "read" /\ line = <<>> /\ link = "up" /\ drops < MaxDrops /\ drops' = drops + 1
  /\ loop' = "credentials" /\ backoff' = 1 /\ link' = "closed"
  /\ UNCHANGED <<config, stored, knows, line, sent, confirmed, handling, published>>

ReadFails ==
  /\ loop = "read" /\ link = "closed" /\ line = <<>> /\ loop' = "sleep"
  /\ UNCHANGED <<config, stored, knows, backoff, slack, handling, published, drops>>

-----------------------------------------------------------------------------
(* Slack, the network, the user *)

\* An envelope is sent until it is acknowledged.
Send(e) ==
  /\ link = "up" /\ loop \in {"read", "raw", "filter"} /\ e \notin confirmed /\ sent[e] < MaxSends
  /\ sent' = [sent EXCEPT ![e] = @ + 1] /\ line' = Append(line, e)
  /\ UNCHANGED <<config, stored, loop, knows, backoff, link, confirmed, handling, published, drops>>

\* The connection is closed, or cut so that no end is told.
Break ==
  /\ link = "up" /\ drops < MaxDrops /\ drops' = drops + 1 /\ link' \in {"closed", "dead"}
  /\ UNCHANGED <<config, stored, loop, knows, backoff, line, sent, confirmed, handling, published>>

\* The plugin dies and is started again: with what it was handling, published or not.
Kill ==
  /\ drops < MaxDrops /\ drops' = drops + 1
  /\ loop' = "credentials" /\ backoff' = 1 /\ line' = <<>> /\ link' = "closed" /\ handling' = None
  /\ killed' = IF handling = None THEN killed ELSE [killed EXCEPT ![handling] = @ + 1]
  /\ UNCHANGED <<config, stored, knows, sent, confirmed, raw, filtered, acks>>

Auth ==
  /\ ~stored /\ stored' = TRUE
  /\ UNCHANGED <<config, loop, knows, backoff, slack, handling, published, drops>>

-----------------------------------------------------------------------------
Work == Resolve \/ Connect \/ Sleep \/ ReadEnvelope \/ PublishRaw \/ PublishFiltered \/ ReadFails

Next == Work \/ Rotate \/ Break \/ Kill \/ Auth \/ \E e \in Envelopes : Send(e)

Fairness == WF_vars(Work)
Spec == Init /\ [][Next]_vars
FairSpec == Spec /\ Fairness

-----------------------------------------------------------------------------
(* Properties *)

\* For every acknowledgement of an envelope slack.raw is published once, and so is the
\* event of what the filter lets through, but for the envelope that is being handled and
\* for one acknowledgement at each death of the plugin while it handled it: nothing else
\* that is acknowledged, and so not sent again, is lost.  What is sent again is published
\* again.  (socket_mode.rs handle_text_frame "ACK FIRST so Slack doesn't retry")
AckedIsPublished ==
  \A e \in Envelopes : handling # e =>
    /\ raw[e] <= acks[e] /\ acks[e] <= raw[e] + killed[e]
    /\ content[e] \in {"message", "reaction"} => filtered[e] <= raw[e] /\ acks[e] <= filtered[e] + killed[e]
    /\ content[e] = "other" => filtered[e] = 0

\* With credentials from one source the loop is connected again after whatever
\* ends a connection that both sides see ended.  (run_loop "only the stop signal exits")
Cut == Credentials /\ link = "closed"
Reconnects == Cut ~> ~Cut

-----------------------------------------------------------------------------
(* What the code does not keep *)

\* socket_mode.rs:9 "hello - the connection is live; reset reconnect backoff": only a
\* rotation resets it.
HelloResetsBackoff == [][loop = "connect" /\ loop' = "read" => backoff' = 1]_vars

\* A connection that is dead is noticed: no read has a time limit.
DeadIsNoticed == link = "dead" ~> link # "dead"

\* What was acknowledged, and so is not sent again, is published in the end: not when the
\* plugin dies in between.
AckedIsNotLost == \A e \in Envelopes : handling # e => raw[e] = acks[e]

\* An envelope is published once: Slack sends again when the acknowledgement is lost,
\* and event_id is not compared with what was seen.
PublishedOnce == \A e \in Envelopes : raw[e] <= 1

\* The bot's own reactions start no trigger.  (socket_mode.rs:46-49)
OwnReactionsAreSilent == \A e \in Envelopes : content[e] = "own_reaction" => filtered[e] = 0
=============================================================================
