----------------------------- MODULE PluginsMC -----------------------------
(***************************************************************************)
(* The plugins: what follows something for as long as it runs, the files and *)
(* polls of the others, what services and the supervisor ask of each other,  *)
(* and one run of a plugin's command.                                        *)
(* They share nothing but the way they are checked: a behaviour is one      *)
(* part's, which `part' names, and v1, v2, ... are its variables in the     *)
(* order in which its module declares them.                                 *)
(***************************************************************************)
EXTENDS Naturals, Sequences, FiniteSets

CONSTANTS
  Nil,
  Todos, Tags, MaxWrites, MaxCrashes, TodoFaults,               \* of TodoPlugin
  Branches, Main, MaxChanges, MaxAdds,                          \* of GitPlugin
  Envelopes, MaxSends, MaxDrops, SlackBackoff,                  \* of SlackPlugin
  MaxDispatches, GatewayFaults, GatewayBackoff,                 \* of DiscordPlugin
  Plugins, MaxCalls, MaxEvents,                                 \* of PluginPipe
  Services, Chains, Odd, WaiterMax, CallFaults,                 \* of ServiceCalls
  PipeCap, OutputCap, MaxBytes,                                 \* of PluginShell
  Processes,                                     \* of KbPlugin, BookmarkPlugin, LlmPlugin
  Documents, KbCalls, MaxFiles,                                 \* of KbPlugin
  Pages, Titles, LastMonth, BookmarkAdds, Foreign,              \* of BookmarkPlugin
  LlmCalls, MaxShorts,                                          \* of LlmPlugin
  Tickets, TicketStates, MaxComments, TicketChanges, Inline, MaxPages, \* of JiraPlugin
  Appointments, Leads, Poll, Minimum, MaxTick, MaxFailed, Lookahead, Horizon, MaxRestarts, \* of CalendarPlugin
  Clients, MaxAuths, MaxRefreshes, MaxLocks, Torn,              \* of Credentials
  Accounts, Cap, MaxMoves                        \* of two of them each

\* A call that comes back to the service it came from, and one on its own.
TwoChains == [c \in {"c1", "c2"} |-> IF c = "c1" THEN <<"A", "B", "A">> ELSE <<"B">>]
\* An answer nobody waits for, a line that is nothing, an unknown request and notification.
Line(ok, id, method) ==
  [ok |-> ok, id |-> id, method |-> method, call |-> <<"c1", 9>>, success |-> TRUE]
OddLines == {Line(TRUE, TRUE, "none"), Line(FALSE, TRUE, "none"), Line(FALSE, TRUE, "odd"),
             Line(FALSE, FALSE, "odd")}

VARIABLES part, v1, v2, v3, v4, v5, v6, v7, v8, v9, v10, v11, v12, v13, v14, v15, v16, v17

vars == <<part, v1, v2, v3, v4, v5, v6, v7, v8, v9, v10, v11, v12, v13, v14, v15, v16, v17>>

\* The variables that a part of less than all of them leaves aside.
From17 == <<v17>>
From16 == <<v16, From17>>
From14 == <<v14, v15, From16>>
From13 == <<v13, From14>>
From12 == <<v12, From13>>
From10 == <<v10, v11, From12>>
From9 == <<v9, From10>>
From8 == <<v8, From9>>
Idle17 == v17 = Nil
Idle16 == v16 = Nil /\ Idle17
Idle14 == v14 = Nil /\ v15 = Nil /\ Idle16
Idle13 == v13 = Nil /\ Idle14
Idle12 == v12 = Nil /\ Idle13
Idle10 == v10 = Nil /\ v11 = Nil /\ Idle12
Idle9 == v9 = Nil /\ Idle10
Idle8 == v8 = Nil /\ Idle9

Todo == INSTANCE TodoPlugin WITH
  MaxFaults <- TodoFaults, None <- Nil, files <- v1, writes <- v2, partial <- v3, op <- v4, watcher <- v5, prev <- v6, seen
  <- v7, unseen <- v8, held <- v9, due <- v10, view <- v11, completed <- v12, finished <- v13,
  crashes <- v14, faults <- v15

Git == INSTANCE GitPlugin WITH
  None <- Nil, head <- v1, loose <- v2, packed <- v3, registered <- v4, present <- v5, changes <- v6, add
  <- v7, adds <- v8, answer <- v9, lived <- v10, watcher <- v11, prev <- v12, curr <- v13, read <- v14,
  view <- v15

Slack == INSTANCE SlackPlugin WITH
  BackoffMax <- SlackBackoff, None <- Nil, content <- v1, env <- v2, stored <- v3, loop <- v4, knows <- v5, backoff <- v6, line <- v7, link
  <- v8, sent <- v9, confirmed <- v10, handling <- v11, raw <- v12, filtered <- v13, acks <-
  v14, killed <- v15, drops <- v16

Discord == INSTANCE DiscordPlugin WITH
  MaxEvents <- MaxDispatches, MaxFaults <- GatewayFaults, BackoffMax <- GatewayBackoff, creds <- v1, loop <- v2, backoff <- v3,
  session <- v4, inFlight <- v5, fresh <- v6, link <- v7, wire <- v8, owed <- v9, hosts <-
  v10, server <- v11, handled <- v12, spoken <- v13, zombies <- v14, faults <- v15

Pipe == INSTANCE PluginPipe WITH
  None <- Nil, plugin <- v1, stdin <- v2, asked <- v3, doing <- v4, initialized <- v5, stopping <- v6,
  background <- v7, lines <- v8, lock <- v9, pipe <- v10, events <- v11, answered <- v12,
  ended <- v13

Calls == INSTANCE ServiceCalls WITH
  MaxFaults <- CallFaults, up <- v1, run <- v2, stdin <- v3, stdout <- v4, at <- v5, outcome <- v6, pending <- v7,
  waiters <- v8, askedBy <- v9, bus <- v10, served <- v11, strays <- v12, faults <- v13

Shell == INSTANCE PluginShell WITH
  child <- v1, op <- v2, toWrite <- v3, wrote
  <- v4, success <- v5, forked <- v6, grandchild <- v7, group <- v8, hit <- v9, pipe <- v10,
  payload <- v11, fed <- v12, got <- v13, done <- v14, caller <- v15, taken <- v16, result
  <- v17

Kb == INSTANCE KbPlugin WITH
  MaxCalls <- KbCalls, None <- Nil, name <- v1, bytes <- v2, made <- v3, temps <- v4, call <- v5,
  served <- v6, answers <- v7, moves <- v8

Bookmarks == INSTANCE BookmarkPlugin WITH
  MaxAdds <- BookmarkAdds, None <- Nil, files <- v1, month <- v2, call <- v3, adds <- v4, kept
  <- v5, replaced <- v6, doubled <- v7

Llm == INSTANCE LlmPlugin WITH
  MaxCalls <- LlmCalls, None <- Nil, fatal <- v1, env <- v2, stored <- v3, log <- v4, call <- v5,
  calls <- v6, paid <- v7, logged <- v8, shorts <- v9

Jira == INSTANCE JiraPlugin WITH
  Statuses <- TicketStates, MaxChanges <- TicketChanges, Pages <- MaxPages, None <- Nil, issue <- v1,
  before <- v2, made <- v3, creds <- v4, identity <- v5, snapshots <- v6, firedComments <- v7, told <- v8, baseline
  <- v9, seen <- v10, announced <- v11, changed <- v12, changes <- v13

Calendar == INSTANCE CalendarPlugin WITH
  Events <- Appointments, None <- Nil, now <- v1, creds <- v2, up <- v3, due <- v4, looked <- v5, fired <- v6,
  failed <- v7, start <- v8, steady <- v9, published <- v10, moves <- v11, restarts <- v12

Secrets == INSTANCE Credentials WITH
  Plugins <- Clients, None <- Nil, plugin <- v1, env <- v2, strict <- v3, keyring <- v4, file <-
  v5, backend <- v6, auth <- v7, client <- v8, status <- v9, expired <- v10, bound <- v11

ASSUME PluginsAssumption ==
  Todo!TodoPluginAssumption /\ Git!GitPluginAssumption /\ Slack!SlackAssumption
  /\ Discord!DiscordAssumption /\ Pipe!PluginsAssumption /\ Calls!ServiceCallsAssumption
  /\ Shell!PluginShellAssumption /\ Kb!KbPluginAssumption /\ Bookmarks!BookmarkAssumption
  /\ Llm!LlmAssumption /\ Jira!JiraAssumption /\ Calendar!CalendarAssumption
  /\ Secrets!CredentialsAssumption

Init ==
  \/ part = "todo" /\ Todo!Init /\ Idle16
  \/ part = "git" /\ Git!Init /\ Idle16
  \/ part = "slack" /\ Slack!Init /\ Idle17
  \/ part = "discord" /\ Discord!Init /\ Idle16
  \/ part = "pipe" /\ Pipe!Init /\ Idle14
  \/ part = "calls" /\ Calls!Init /\ Idle14
  \/ part = "shell" /\ Shell!Init
  \/ part = "kb" /\ Kb!Init /\ Idle9
  \/ part = "bookmark" /\ Bookmarks!Init /\ Idle8
  \/ part = "llm" /\ Llm!Init /\ Idle10
  \/ part = "jira" /\ Jira!Init /\ Idle14
  \/ part = "calendar" /\ Calendar!Init /\ Idle13
  \/ part = "credentials" /\ Secrets!Init /\ Idle12

TodoStep == part = "todo" /\ Todo!Next /\ UNCHANGED <<part, From16>>
GitStep == part = "git" /\ Git!Next /\ UNCHANGED <<part, From16>>
SlackStep == part = "slack" /\ Slack!Next /\ UNCHANGED <<part, From17>>
DiscordStep == part = "discord" /\ Discord!Next /\ UNCHANGED <<part, From16>>
PipeStep == part = "pipe" /\ Pipe!Next /\ UNCHANGED <<part, From14>>
CallsStep == part = "calls" /\ Calls!Next /\ UNCHANGED <<part, From14>>
ShellStep == part = "shell" /\ Shell!Next /\ UNCHANGED part
KbStep == part = "kb" /\ Kb!Next /\ UNCHANGED <<part, From9>>
BookmarksStep == part = "bookmark" /\ Bookmarks!Next /\ UNCHANGED <<part, From8>>
LlmStep == part = "llm" /\ Llm!Next /\ UNCHANGED <<part, From10>>
JiraStep == part = "jira" /\ Jira!Next /\ UNCHANGED <<part, From14>>
CalendarStep == part = "calendar" /\ Calendar!Next /\ UNCHANGED <<part, From13>>
SecretsStep == part = "credentials" /\ Secrets!Next /\ UNCHANGED <<part, From12>>

Next == TodoStep \/ GitStep \/ SlackStep \/ DiscordStep \/ PipeStep \/ CallsStep
        \/ ShellStep \/ KbStep \/ BookmarksStep \/ LlmStep \/ JiraStep
        \/ CalendarStep \/ SecretsStep

\* What each plugin's threads owe, with the fairness of its module.
Fairness ==
  /\ WF_(Todo!vars)(part = "todo" /\ Todo!Watch)
  /\ WF_(Git!vars)(part = "git" /\ Git!Watch)
  /\ WF_(Slack!vars)(part = "slack" /\ Slack!Work)
  /\ WF_(Discord!vars)(part = "discord" /\ Discord!Work)
  /\ WF_(Discord!vars)(part = "discord" /\ Discord!HeartbeatDue)
  /\ \A s \in Services :
       /\ WF_(Calls!vars)(part = "calls" /\ Calls!Reader(s))
       /\ WF_(Calls!vars)(part = "calls" /\ Calls!Process(s))
       /\ WF_(Calls!vars)(part = "calls" /\ Calls!ExitGoesOn(s))
  /\ \A x \in Calls!Calls : WF_(Calls!vars)(part = "calls" /\ Calls!CallGoesOn(x))
  /\ WF_(Shell!vars)(part = "shell" /\ Shell!Child)
  /\ WF_(Shell!vars)(part = "shell" /\ Shell!Helpers)
  /\ WF_(Shell!vars)(part = "shell" /\ (Shell!WaitReturns \/ Shell!WaitTimesOut))
  /\ WF_(Shell!vars)(part = "shell" /\ Shell!KillGroup)
  /\ WF_(Shell!vars)(part = "shell" /\ Shell!Collect)

Spec == Init /\ [][Next]_vars /\ Fairness

-----------------------------------------------------------------------------
\* What a service tells is told as often as it happened.  A todo's completion is
\* announced at most once for each time the file turns to done (watcher.rs).  Slack's
\* events are published once for each acknowledgement, less at most one for each death of
\* the plugin in between: what Slack sends again is published again (socket_mode.rs).  A
\* dispatch of Discord is handled once by a run of the plugin, and none is passed over,
\* across dropped, resumed and zombied connections (gateway.rs).  The event that a service
\* publishes while it serves a call is on the bus before the call's answer is there
\* (service_supervisor.rs handle_inbound).
EachOnce ==
  /\ part = "todo" => Todo!TypeOK /\ Todo!FollowerAgrees /\ Todo!CompletedOnce
  /\ part = "slack" => Slack!TypeOK /\ Slack!AckedIsPublished
  /\ part = "calls" => Calls!TypeOK /\ Calls!EventsBeforeAnswers /\ Calls!WaitersAreCounted
  /\ part = "discord" =>
       Discord!TypeOK /\ Discord!EachOnceInOrder /\ Discord!OnlyTheDeadAreZombies /\ Discord!OwnAreSilent

\* The one pipe of a plugin carries whole lines, the handshake's answer first and an
\* answer to whatever was handled, with two threads that write and a shutdown at any
\* moment.  (main.rs of the plugins: run, handle_frame and the writer)
PipesKeepOrder ==
  part = "pipe" =>
    /\ Pipe!TypeOK /\ Pipe!LinesAreWhole /\ Pipe!HandshakeIsFirst
    /\ Pipe!AnsweredIsWritten /\ Pipe!LastLineIsWhole

\* A command of a plugin is stopped for sleeping alone, its whole group dies with it
\* and nobody else, and what it wrote is returned.  (plugin_exec.rs)
TimeoutHitsSleepers ==
  part = "shell" => Shell!TypeOK /\ Shell!TimeoutHitsSleepers

\* What is written down is what happened.
\* Bookmarks: an acknowledged link is listed until somebody removes it, nothing is
\* replaced, and an add makes no second file of a page, unless another makes, changes or
\* moves one of it meanwhile (store.rs).  The log of llm: no call is counted that was not
\* paid for, and none is missing but one for each write that was cut short (usage.rs).
\* Jira, one run of the plugin: a comment once while the set of those published fits, and
\* each that a search showed as long as a search carries every comment (poller.rs).
\* Calendar, in each run of the plugin: a reminder at most once while the set fits; in time
\* if the failing ticks and the work of each fit into the band (poller.rs).  Credentials:
\* the identity is that of the tokens, and the store is whole (store.rs).
RecordsAreTrue ==
  /\ part = "kb" => Kb!TypeOK
  /\ part = "bookmark" => Bookmarks!TypeOK /\ Bookmarks!AddedIsListed /\ Bookmarks!OnePerPage
  /\ part = "llm" => Llm!TypeOK /\ Llm!UsageIsTrue
  /\ part = "jira" => Jira!TypeOK /\ Jira!OncePerComment /\ Jira!SeenIsAnnounced /\ Jira!MineIsAnnounced
  /\ part = "calendar" => Calendar!TypeOK /\ Calendar!RemindedInTime /\ Calendar!OncePerLead
  /\ part = "credentials" => Secrets!TypeOK /\ Secrets!IdentityIsTheTokens /\ Secrets!StoreIsWhole

\* The calls on documents do what their protocol promises: KbPlugin implements
\* KbContract.  (kb.rs; docs/kb-protocol.md 266-283, 330-347)
KbKeepsContract ==
  /\ part = "kb" => Kb!Contract!Init
  /\ [][part = "kb" => [Kb!Contract!Next]_(Kb!Contract!vars)]_vars

\* git.worktree_add answers with a worktree that is not the primary checkout and was there
\* at some moment of the call, whatever others change between its steps.
\* (git main.rs action_worktree_add 291-410)
LiveWorktree ==
  [][part = "git" => Git!LiveAnswer]_vars

\* Who follows the git events ends up knowing the worktrees and the branch; a todo that
\* was written as done since the watcher looked at it is announced, or reopened, removed or
\* passed over by a scan; a plugin whose connection ended opens another; a command
\* returns.  Who called a service has a result, though the call comes back to the service
\* it came from and no deadline passes: as long as the events that a forwarder is
\* subscribed to keep coming, which the exit of a process that has just been started may
\* have to wait for.  (watcher.rs of todo and git, socket_mode.rs run_loop, gateway.rs run,
\* service_supervisor.rs handle_service_request and handle_exit 893-904, plugin_exec.rs)
NoneIsLeftBehind ==
  /\ \A t \in Todos, n \in 0..MaxWrites - 1 :
       (part = "todo" /\ Todo!DoneUntold(t, n)) ~> (part = "todo" /\ Todo!ToldOrUndone(t, n))
  /\ <>[](part = "git" => \A b \in Branches : Git!Agrees(b))
  /\ (\/ part = "slack" /\ Slack!Cut
      \/ part = "discord" /\ Discord!Dead
      \/ part = "shell"
      \/ part = "calls" /\ Calls!UnderWay)
     ~> (\/ part = "slack" /\ ~Slack!Cut
         \/ part = "discord" /\ ~Discord!StillDead
         \/ part = "shell" /\ Shell!Returned
         \/ part = "calls" /\ ~Calls!UnderWay)
=============================================================================
