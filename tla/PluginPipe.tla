------------------------------ MODULE PluginPipe ------------------------------
(***************************************************************************)
(* The program every service plugin is: lines of JSON on its standard       *)
(* input, handled one at a time by the main thread, and lines of JSON on    *)
(* its standard output, from the main thread (answers) and from a thread in *)
(* the background (events: a heartbeat, a watcher, a poller, a gateway).    *)
(* Most plugins write through a channel that one writer thread empties;     *)
(* discord and todo write themselves, under a mutex; todo alone waits for   *)
(* its background thread before it ends.                                    *)
(*                                                                         *)
(* The supervisor on the other side of the pipes is the environment: it     *)
(* sends `initialize`, `initialized` once that was answered, calls, and at  *)
(* the end `shutdown`, the end of the input or a SIGKILL.                   *)
(***************************************************************************)
EXTENDS Naturals, Sequences, FiniteSets

CONSTANTS
  Plugins,    \* the plugins looked at, a subset of DOMAIN Traits
  MaxCalls,   \* bound: calls the supervisor makes
  MaxEvents,  \* bound: events of the background thread
  None        \* the free lock, the main thread without a frame

VARIABLES
  plugin,       \* which of Plugins this process is
  stdin,        \* the frames on their way to the plugin
  asked,        \* what the supervisor has sent: the methods and the calls
  doing,        \* the frame the main thread handles, or None
  initialized,  \* the flag of the same name
  stopping,     \* `shutdown`: the main thread has left its loop
  background,   \* the thread in the background: "none", "waits", "scans" or "ended"
  lines,        \* the lines each thread has to write; the writer's: the channel
  lock,         \* the thread in the middle of a line, or None
  pipe,         \* standard output: the halves of lines, in order
  events,       \* the events produced so far
  answered,     \* the requests whose handler has returned
  ended         \* the process: "no", "itself" or "killed"

vars == <<plugin, stdin, asked, doing, initialized, stopping, background, lines, lock, pipe,
          events, answered, ended>>

-----------------------------------------------------------------------------
(* What tells the plugins apart: whether lines go through a channel and its
   writer thread, whether a thread runs in the background, and whether the
   process waits for it at its end.                                          *)

Channel(busy) == [queued |-> TRUE,  background |-> busy, joins |-> FALSE]
Mutex(waits)  == [queued |-> FALSE, background |-> TRUE, joins |-> waits]

Echo     == Channel(TRUE)     \* a heartbeat
Git      == Channel(TRUE)     \* a watcher per workspace
Kb       == Channel(FALSE)
Bookmark == Channel(FALSE)
Calendar == Channel(TRUE)     \* the poller
Jira     == Channel(TRUE)     \* the poller
Llm      == Channel(FALSE)
Slack    == Channel(TRUE)     \* Socket Mode
Discord  == Mutex(FALSE)      \* the gateway
Todo     == Mutex(TRUE)       \* the watcher

Traits == [echo |-> Echo, git |-> Git, kb |-> Kb, bookmark |-> Bookmark, calendar |-> Calendar,
           jira |-> Jira, llm |-> Llm, slack |-> Slack, discord |-> Discord, todo |-> Todo]

Threads == {"main", "background", "writer"}

PluginsAssumption ==
  Plugins \subseteq DOMAIN Traits /\ {MaxCalls, MaxEvents} \subseteq Nat /\ None \notin Threads

(* A bug: everything goes through the channel, as todo once did. *)
Mutant_Writers == {"writer"}
Writers == IF Traits[plugin].queued THEN {"writer"} ELSE {"main", "background"}

Calls    == 1 .. MaxCalls
Answer(id, ok) == [kind |-> "answer", id |-> id, ok |-> ok]
Event(n)       == [kind |-> "event", id |-> n, ok |-> TRUE]
Lines  == {Answer(id, ok) : id \in 0 .. MaxCalls, ok \in BOOLEAN} \cup {Event(n) : n \in 1 .. MaxEvents}
Methods == {"initialize", "mismatch", "initialized", "action.invoke", "unknown", "noise", "shutdown", "eof"}
Frame(method, id) == [method |-> method, id |-> id]

Running == ended = "no"
Whole(line) == \E i \in DOMAIN pipe : pipe[i] = <<line, "end">>

-----------------------------------------------------------------------------
(* The supervisor. *)

(* A frame on the pipe; it is sent once. *)
SendFrame(frame) ==
  /\ Running
  /\ frame \notin asked
  /\ stdin' = Append(stdin, frame)
  /\ asked' = asked \cup {frame}
  /\ UNCHANGED <<plugin, doing, initialized, stopping, background, lines, lock, pipe, events,
                 answered, ended>>

(* `initialize`, of the protocol version the plugin speaks or of another. *)
SendInitialize ==
  /\ asked = {}
  /\ \E method \in {"initialize", "mismatch"} : SendFrame(Frame(method, 0))

(* `initialized`, when the answer has been read. *)
SendInitialized == Whole(Answer(0, TRUE)) /\ SendFrame(Frame("initialized", 0))

(* A call, a request the plugin does not know, or a line that is no JSON. *)
SendCall ==
  /\ Frame("initialized", 0) \in asked
  /\ \A frame \in asked : frame.method \notin {"shutdown", "eof"}
  /\ \E id \in Calls, method \in {"action.invoke", "unknown", "noise"} :
       /\ \A frame \in asked : frame.id # id
       /\ \A earlier \in 1 .. id - 1 : \E frame \in asked : frame.id = earlier
       /\ SendFrame(Frame(method, id))

(* The end: `shutdown`, or the supervisor closes the pipe or is gone. *)
SendEnd ==
  /\ asked # {}
  /\ \A frame \in asked : frame.method \notin {"shutdown", "eof"}
  /\ \E method \in {"shutdown", "eof"} : SendFrame(Frame(method, 0))

(* SIGKILL: the grace after `shutdown` has run out, or the handshake failed. *)
Kill ==
  /\ Running
  /\ \E frame \in asked : frame.method \in {"shutdown", "mismatch"}
  /\ ended' = "killed"
  /\ UNCHANGED <<plugin, stdin, asked, doing, initialized, stopping, background, lines, lock, pipe,
                 events, answered>>

-----------------------------------------------------------------------------
(* The main thread. *)

(* The next line is read once the one before it was handled and answered. *)
ReadLine ==
  /\ Running /\ ~stopping
  /\ doing = None /\ lines["main"] = <<>> /\ stdin # <<>>
  /\ doing' = Head(stdin)
  /\ stdin' = Tail(stdin)
  /\ UNCHANGED <<plugin, asked, initialized, stopping, background, lines, lock, pipe, events,
                 answered, ended>>

Say(line) == lines' = [lines EXCEPT !["main"] = Append(@, line)]

(* `initialize`: the answer names what the plugin provides, or says that it
   does not speak this version. *)
Initialize ==
  /\ doing.method \in {"initialize", "mismatch"}
  /\ Say(Answer(0, doing.method = "initialize"))
  /\ UNCHANGED <<initialized, stopping, ended>>

(* `initialized`: from here on the background thread may publish. *)
Initialized ==
  /\ doing.method = "initialized"
  /\ initialized' = TRUE
  /\ UNCHANGED <<lines, stopping, ended>>

(* `action.invoke`, answered with a result or an error; a method nobody knows
   is answered with an error because it has an id. *)
Invoke ==
  /\ doing.method \in {"action.invoke", "unknown"}
  /\ \E ok \in IF doing.method = "unknown" THEN {FALSE} ELSE BOOLEAN : Say(Answer(doing.id, ok))
  /\ UNCHANGED <<initialized, stopping, ended>>

(* A line that is not JSON is skipped. *)
SkipLine ==
  /\ doing.method = "noise"
  /\ UNCHANGED <<lines, initialized, stopping, ended>>

(* `shutdown` is process::exit, in todo the way out of the loop; at the end of
   the input main() returns, which ends the process as well. *)
Stop ==
  /\ doing.method \in {"shutdown", "eof"}
  /\ stopping' = TRUE
  /\ ended' = IF Traits[plugin].joins THEN ended ELSE "itself"
  /\ UNCHANGED <<lines, initialized>>

Handle ==
  /\ Running /\ doing # None
  /\ (Initialize \/ Initialized \/ Invoke \/ SkipLine \/ Stop)
  /\ doing' = None
  /\ UNCHANGED <<plugin, stdin, asked, background, lock, pipe, events, answered>>

(* The handler of a request returns when its answer has left the thread: sent
   to the channel, or written. *)
Returned(thread, line) ==
  answered' = IF thread = "main" /\ line.kind = "answer" THEN answered \cup {line} ELSE answered

(* todo's main() joins the watcher and returns. *)
(* A bug: nobody waits for the watcher. *)
Mutant_Joined == TRUE
Joined == background \in {"none", "ended"}
Return ==
  /\ Running /\ stopping /\ Joined
  /\ ended' = "itself"
  /\ UNCHANGED <<plugin, stdin, asked, doing, initialized, stopping, background, lines, lock, pipe,
                 events, answered>>

-----------------------------------------------------------------------------
(* The thread in the background. *)

(* A round begins only after `initialized`, and todo's watcher looks at
   `shutdown` before it. *)
(* A bug: the handshake is not waited for. *)
Mutant_MayScan == ~(Traits[plugin].joins /\ stopping)
MayScan == initialized /\ ~(Traits[plugin].joins /\ stopping)
Scan ==
  /\ Running /\ background = "waits" /\ lines["background"] = <<>>
  /\ MayScan
  /\ events < MaxEvents
  /\ background' = "scans"
  /\ UNCHANGED <<plugin, stdin, asked, doing, initialized, stopping, lines, lock, pipe, events,
                 answered, ended>>

(* It has found something to say, whatever was asked of the plugin since. *)
Publish ==
  /\ Running /\ background = "scans"
  /\ background' = "waits"
  /\ events' = events + 1
  /\ lines' = [lines EXCEPT !["background"] = Append(@, Event(events'))]
  /\ UNCHANGED <<plugin, stdin, asked, doing, initialized, stopping, lock, pipe, answered, ended>>

(* todo's watcher notices `shutdown` between two rounds, and also while it
   still waits for `initialized`. *)
WatcherStops ==
  /\ Running /\ background = "waits" /\ lines["background"] = <<>>
  /\ stopping
  /\ background' = "ended"
  /\ UNCHANGED <<plugin, stdin, asked, doing, initialized, stopping, lines, lock, pipe, events,
                 answered, ended>>

-----------------------------------------------------------------------------
(* Writing. *)

(* tx.send: the line is in the channel. *)
Queue(thread) ==
  /\ Running /\ thread \notin Writers \cup {"writer"} /\ lines[thread] # <<>>
  /\ lines' = [lines EXCEPT ![thread] = Tail(@), !["writer"] = Append(@, Head(lines[thread]))]
  /\ Returned(thread, Head(lines[thread]))
  /\ UNCHANGED <<plugin, stdin, asked, doing, initialized, stopping, background, lock, pipe, events,
                 ended>>

(* writeln!, between taking the lock and the newline. *)
(* A bug: writeln! without the lock. *)
Mutant_Free == TRUE
Free == lock = None
StartLine(thread) ==
  /\ Running /\ thread \in Writers /\ lines[thread] # <<>>
  /\ Free /\ lock # thread
  /\ lock' = thread
  /\ pipe' = Append(pipe, <<Head(lines[thread]), "start">>)
  /\ UNCHANGED <<plugin, stdin, asked, doing, initialized, stopping, background, lines, events,
                 answered, ended>>

(* The newline and flush; the lock is released. *)
EndLine(thread) ==
  /\ Running /\ lock = thread /\ lines[thread] # <<>>
  /\ lock' = None
  /\ pipe' = Append(pipe, <<Head(lines[thread]), "end">>)
  /\ lines' = [lines EXCEPT ![thread] = Tail(@)]
  /\ Returned(thread, Head(lines[thread]))
  /\ UNCHANGED <<plugin, stdin, asked, doing, initialized, stopping, background, events, ended>>

-----------------------------------------------------------------------------
Init ==
  /\ plugin \in Plugins
  /\ stdin = <<>> /\ asked = {} /\ doing = None
  /\ initialized = FALSE /\ stopping = FALSE
  /\ background = IF Traits[plugin].background THEN "waits" ELSE "none"
  /\ lines = [thread \in Threads |-> <<>>]
  /\ lock = None /\ pipe = <<>> /\ events = 0 /\ answered = {}
  /\ ended = "no"

Next ==
  \/ SendInitialize \/ SendInitialized \/ SendCall \/ SendEnd \/ Kill
  \/ ReadLine \/ Handle \/ Return
  \/ Scan \/ Publish \/ WatcherStops
  \/ \E thread \in Threads : Queue(thread) \/ StartLine(thread) \/ EndLine(thread)

Spec == Init /\ [][Next]_vars

-----------------------------------------------------------------------------
TypeOK ==
  /\ plugin \in Plugins
  /\ asked \subseteq [method : Methods, id : 0 .. MaxCalls]
  /\ stdin \in Seq(asked)
  /\ doing \in asked \cup {None}
  /\ initialized \in BOOLEAN /\ stopping \in BOOLEAN
  /\ background \in {"none", "waits", "scans", "ended"}
  /\ lines \in [Threads -> Seq(Lines)]
  /\ lock \in Threads \cup {None}
  /\ pipe \in Seq(Lines \X {"start", "end"})
  /\ events \in 0 .. MaxEvents
  /\ answered \subseteq Lines
  /\ ended \in {"no", "itself", "killed"}

(* Lines are never mixed: whatever writes, and however the process ends, the
   end of a line follows its own start, and nothing comes between them (the
   comments on the writer in every plugin).                                  *)
LinesAreWhole ==
  \A i \in DOMAIN pipe :
    /\ pipe[i][2] = "end"   => i > 1 /\ pipe[i - 1] = <<pipe[i][1], "start">>
    /\ pipe[i][2] = "start" => i = Len(pipe) \/ pipe[i + 1] = <<pipe[i][1], "end">>

(* No event leaves the plugin before the handshake is over: the answer to
   `initialize` is on the pipe ahead of every event (echo, jira, calendar:
   "so events can't race the handshake").                                    *)
HandshakeIsFirst ==
  \A i \in DOMAIN pipe : pipe[i][1].kind = "event" =>
    \E j \in 1 .. i - 1 : pipe[j] = <<Answer(0, TRUE), "end">>

(* In the plugins that write themselves an answered request is on the pipe,
   whatever happens afterwards: no frame is lost because none is queued
   (todo main.rs: "a hard process::exit doesn't have any in-flight frames to
   lose").                                                                   *)
AnsweredIsWritten == ~Traits[plugin].queued => \A line \in answered : Whole(line)

(* A todo process that ends by itself has written, to the newline, every line
   any of its threads began or had ready: that is what the join is for.      *)
LastLineIsWhole ==
  Traits[plugin].joins /\ ended = "itself" =>
    /\ lock = None
    /\ \A thread \in Threads : lines[thread] = <<>>

(* What the plugins with a channel would have to keep to promise what todo
   does; they do not: the writer's lines go with the process.                *)
QueuedIsWritten == \A line \in answered : ~Running => Whole(line)
=============================================================================
