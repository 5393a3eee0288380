----------------------------- MODULE PanelBridge -----------------------------
(***************************************************************************)
(* Calls a plugin panel's page makes through window.nestty.call: posted to *)
(* the window's dispatcher, answered by it, by a page's script callback,   *)
(* by a dialog or by a service, and polled for with a deadline of their    *)
(* own.  All of it but the service runs on the window's main thread.       *)
(***************************************************************************)
EXTENDS Naturals, Sequences, FiniteSets

CONSTANTS
  Calls, Panels,
  ActionTimeout,   \* DEFAULT_ACTION_TIMEOUT of the supervisor
  BridgeTimeout,   \* BRIDGE_REQUEST_TIMEOUT
  Horizon          \* bound on time

PanelBridgeAssumption ==
  /\ {ActionTimeout, Horizon} \subseteq Nat \ {0}
  /\ BridgeTimeout \in Nat /\ BridgeTimeout > ActionTimeout

VARIABLES
  open,      \* panels there are
  call,      \* call -> [kind, target, by, phase, posted, taken]
  queue,     \* dispatch_tx: calls not taken yet
  reply,     \* call -> what the page was told
  now

vars == <<open, call, queue, reply, now>>

Kinds == {"window", "script", "dialog", "service"}
None == [kind |-> "none", target |-> "none", by |-> "none", phase |-> "idle", posted |-> 0, taken |-> 0]

Call ==
  [kind : Kinds \cup {"none"}, target : Panels \cup {"none"}, by : Panels \cup {"none"},
   phase : {"idle", "queued", "pending", "answered", "dropped", "done"},
   posted : 0 .. Horizon, taken : 0 .. Horizon]

TypeOK ==
  /\ open \subseteq Panels /\ now \in 0 .. Horizon
  /\ call \in [Calls -> Call] /\ queue \in Seq(Calls)
  /\ reply \in [Calls -> {"none", "response", "error", "timeout", "closed"}]

Init ==
  /\ open = Panels /\ queue = <<>> /\ now = 0
  /\ call = [c \in Calls |-> None] /\ reply = [c \in Calls |-> "none"]

-----------------------------------------------------------------------------
\* postMessage: the handler queues the command and sets up the poll.
Post(c, p) ==
  /\ p \in open /\ call[c].phase = "idle"
  /\ now + BridgeTimeout =< Horizon      \* its deadline lies within the bound
  /\ \E k \in Kinds, t \in Panels :
       /\ k # "script" => t = p
       /\ call' = [call EXCEPT ![c] = [kind |-> k, target |-> t, by |-> p, phase |-> "queued",
                                       posted |-> now, taken |-> now]]
  /\ queue' = Append(queue, c)
  /\ UNCHANGED <<open, reply, now>>

\* A message that is no {method, params} is answered on the spot.
PostBroken(c, p) ==
  /\ p \in open /\ call[c].phase = "idle"
  /\ call' = [call EXCEPT ![c].phase = "done"] /\ reply' = [reply EXCEPT ![c] = "error"]
  /\ UNCHANGED <<open, queue, now>>

\* The dispatcher takes one command: answers it, hands it on, or drops its reply.  A
\* script wants the panel it names; a script callback and a dialog answer later.
Take ==
  /\ queue # <<>>
  /\ queue' = Tail(queue)
  /\ LET c == Head(queue)
         ready == \/ call[c].kind = "window"
                  \/ call[c].kind = "script" /\ call[c].target \notin open
         phases == IF ready THEN {"answered"}
                   ELSE IF call[c].kind = "service" THEN {"pending", "dropped"} ELSE {"pending"}
     IN  \E ph \in phases : call' = [call EXCEPT ![c].phase = ph, ![c].taken = now]
  /\ UNCHANGED <<open, reply, now>>

\* execute_js, get_content, snapshot and run_js_command: the callback publishes the
\* completion and sends the answer; WebKit calls it back with an error for a page that
\* has gone.
Callback(c) ==
  /\ call[c].phase = "pending" /\ call[c].kind = "script"
  /\ call' = [call EXCEPT ![c].phase = "answered"]
  /\ UNCHANGED <<open, queue, reply, now>>

\* agent.approve: the user presses a button, or never does.
UserAnswers(c) ==
  /\ call[c].phase = "pending" /\ call[c].kind = "dialog"
  /\ call' = [call EXCEPT ![c].phase = "answered"]
  /\ UNCHANGED <<open, queue, reply, now>>

\* A service answers, or the supervisor does at its deadline.
ServiceAnswers(c) ==
  /\ call[c].phase = "pending" /\ call[c].kind = "service"
  /\ call' = [call EXCEPT ![c].phase = "answered"]
  /\ UNCHANGED <<open, queue, reply, now>>

Mutant_TimedOut(c) == FALSE

TimedOut(c) == now >= call[c].posted + BridgeTimeout

Mutant_Found(c) ==
  IF TimedOut(c) THEN "timeout"
  ELSE CASE call[c].phase = "answered" -> "response"
         [] call[c].phase = "dropped" -> "closed"
         [] OTHER -> "none"

\* What a poll finds: the channel first, the clock only when the channel is empty.
Found(c) ==
  IF call[c].phase = "answered" THEN "response"
  ELSE IF call[c].phase = "dropped" THEN "closed"
  ELSE IF TimedOut(c) THEN "timeout" ELSE "none"

\* poll_reply; one that finds nothing comes back in 5 ms.
Poll(c) ==
  /\ call[c].phase \in {"queued", "pending", "answered", "dropped"} /\ reply[c] = "none"
  /\ Found(c) # "none"
  /\ reply' = [reply EXCEPT ![c] = Found(c)]
  /\ UNCHANGED <<open, call, queue, now>>

ClosePanel(p) ==
  /\ p \in open /\ open' = open \ {p}
  /\ UNCHANGED <<call, queue, reply, now>>

\* Time passes; a supervisor's deadline is met, the main thread may be late.
Tick ==
  /\ now < Horizon /\ now' = now + 1
  /\ \A c \in Calls : call[c].phase = "pending" /\ call[c].kind = "service" => now < call[c].taken + ActionTimeout
  /\ UNCHANGED <<open, call, queue, reply>>

Next ==
  \/ Take \/ Tick
  \/ \E c \in Calls : Callback(c) \/ UserAnswers(c) \/ ServiceAnswers(c) \/ Poll(c)
                      \/ \E p \in Panels : Post(c, p) \/ PostBroken(c, p)
  \/ \E p \in Panels : ClosePanel(p)

Spec == Init /\ [][Next]_vars

\* The main loop runs its timers, time passes, services end; nobody has to press a
\* button and no page has to finish its script.
FairSpec ==
  /\ Spec /\ WF_vars(Tick) /\ WF_vars(Take)
  /\ \A c \in Calls : WF_vars(Poll(c)) /\ WF_vars(ServiceAnswers(c))

-----------------------------------------------------------------------------
\* "The supervisor's per-action deadline normally fires first": a page is told
\* bridge_timeout about a service's action only if the window kept the call in its queue
\* for the whole margin between the two deadlines.
SupervisorSpeaksFirst ==
  \A c \in Calls :
    reply[c] = "timeout" /\ call[c].kind = "service" =>
      call[c].phase = "queued" \/ call[c].taken - call[c].posted >= BridgeTimeout - ActionTimeout

\* No await hangs forever: a posted call is answered, whoever is wedged.
Posted(c) == call[c].phase = "queued"
Answered(c) == reply[c] # "none"
EveryCallIsAnswered == \A c \in Calls : Posted(c) ~> Answered(c)
=============================================================================
