----------------------------- MODULE DaemonProcess -----------------------------
(***************************************************************************)
(* The life of nesttyd processes that share one socket path and one config *)
(* file: the probe of the path, the bind, the plugins, the accept loop and *)
(* the way down, with starts beside each other, failures of every step and *)
(* processes killed at any moment.  A watcher thread of each reloads the   *)
(* triggers when the file's modification time changes.                     *)
(***************************************************************************)
EXTENDS Naturals, FiniteSets

CONSTANTS
  Daemons,     \* processes
  MaxStarts,   \* starts of all of them
  MaxEdits,    \* writes of the config file
  Nothing, Broken, Foreign

DaemonProcessAssumption ==
  /\ IsFiniteSet(Daemons) /\ MaxStarts \in Nat /\ MaxEdits \in Nat
  /\ Nothing \notin Daemons /\ Foreign \notin Daemons /\ Nothing # Broken

VARIABLES
  path,        \* the inode at the socket path: whose socket, another file, none
  stage,       \* how far main() is
  listening,   \* daemons whose listener is open
  children,    \* daemons that have plugin processes
  killed,      \* daemons killed since they last bound
  starts,
  overlapped,  \* history: two of them were on the way up or down at once
  file,        \* the config file: its text and modification time
  sampled,     \* modification time main() has read
  lastMtime,   \* the watcher's last_mtime
  watcher,     \* where the watcher thread is
  engine       \* the trigger set of the engine: the text it came from

process == <<path, stage, listening, children, killed, starts, overlapped>>
config == <<file, sampled, lastMtime, watcher, engine>>
vars == <<process, config>>

Up == {"prepare", "unlink", "sample", "load", "bind", "activate"}
Down == {"join", "shutdown", "cleanup"}
Stages == {"off", "serving"} \cup Up \cup Down
Times == 1..MaxEdits
Texts == 0..MaxEdits       \* the trigger set of each edit; 0 is the empty one

TypeOK ==
  /\ path \in Daemons \cup {Nothing, Foreign}
  /\ stage \in [Daemons -> Stages]
  /\ listening \cup children \cup killed \subseteq Daemons
  /\ starts \in 0..MaxStarts /\ overlapped \in BOOLEAN
  /\ file \in [text : Texts \cup {Broken, Nothing}, mtime : Times \cup {Nothing}]
  /\ {sampled, lastMtime} \subseteq [Daemons -> Times \cup {Nothing}]
  /\ watcher \in [Daemons -> {"none", "asleep", "changed"}]
  /\ engine \in [Daemons -> Texts]

Init ==
  /\ path \in {Nothing, Foreign} /\ stage = [d \in Daemons |-> "off"]
  /\ listening = {} /\ children = {} /\ killed = {} /\ starts = 0
  /\ overlapped = FALSE
  /\ file = [text |-> Nothing, mtime |-> Nothing]
  /\ sampled = [d \in Daemons |-> Nothing] /\ lastMtime = sampled
  /\ watcher = [d \in Daemons |-> "none"] /\ engine = [d \in Daemons |-> 0]

Becomes(d, next) == stage' = [stage EXCEPT ![d] = next]

-----------------------------------------------------------------------------
(* main() up to the accept loop *)

\* Another daemon is between its probe and its bind, or between the loss of its
\* listener and the removal of its socket.
Moving(e) == stage[e] \in Up \cup Down

Start(d) ==
  /\ stage[d] = "off" /\ d \notin children /\ starts < MaxStarts
  /\ starts' = starts + 1 /\ Becomes(d, "prepare")
  /\ overlapped' = (overlapped \/ \E e \in Daemons \ {d} : Moving(e))
  /\ sampled' = [sampled EXCEPT ![d] = Nothing]
  /\ lastMtime' = [lastMtime EXCEPT ![d] = Nothing]
  /\ engine' = [engine EXCEPT ![d] = 0]
  /\ UNCHANGED <<path, listening, children, killed, file, watcher>>

\* What connect() says of a socket: its owner listens, or does not; or something
\* else went wrong (no descriptor left, no permission), which proves nothing.
ProbeSays(answer) ==
  \/ answer = "accepted" /\ path \in listening
  \/ answer = "refused" /\ path \notin listening
  \/ answer = "error"

Mutant_AfterProbe(answer) == IF answer = "accepted" THEN "off" ELSE "unlink"

AfterProbe(answer) == IF answer = "refused" THEN "unlink" ELSE "off"

\* prepare_socket_path
Prepare(d) ==
  /\ stage[d] = "prepare"
  /\ \/ path = Nothing /\ Becomes(d, "sample")
     \/ path = Foreign /\ Becomes(d, "off")
     \/ /\ path \in Daemons
        /\ \E answer \in {"accepted", "refused", "error"} :
             ProbeSays(answer) /\ Becomes(d, AfterProbe(answer))
  /\ UNCHANGED <<path, listening, children, killed, starts, overlapped, config>>

\* The unlink after the probe: whatever is there by now.
Unlink(d) ==
  /\ stage[d] = "unlink" /\ path' = Nothing
  /\ Becomes(d, IF path = Nothing THEN "off" ELSE "sample")
  /\ UNCHANGED <<listening, children, killed, starts, overlapped, config>>

Triggers(text, otherwise) ==
  IF text = Nothing THEN 0 ELSE IF text = Broken THEN otherwise ELSE text

\* load_triggers_config: first the time, then the text.
SampleFirst(d) ==
  /\ stage[d] = "sample" /\ Becomes(d, "load")
  /\ sampled' = [sampled EXCEPT ![d] = file.mtime] /\ UNCHANGED engine

LoadNext(d) ==
  /\ stage[d] = "load" /\ Becomes(d, "bind")
  /\ engine' = [engine EXCEPT ![d] = Triggers(file.text, 0)]
  /\ UNCHANGED sampled

LoadTriggers(d) ==
  /\ SampleFirst(d) \/ LoadNext(d)
  /\ UNCHANGED <<path, listening, children, killed, starts, overlapped>>
  /\ UNCHANGED <<file, lastMtime, watcher>>

\* The plugins' children are spawned before the bind that may fail.
Mutant_Bind(d) ==
  /\ stage[d] = "bind" /\ children' = children \cup {d}
  /\ \/ /\ path # Nothing /\ Becomes(d, "off")
        /\ UNCHANGED <<path, listening, killed>>
     \/ /\ path = Nothing /\ path' = d /\ killed' = killed \ {d}
        /\ listening' = listening \cup {d} /\ Becomes(d, "activate")
  /\ UNCHANGED <<starts, overlapped, config>>

\* bind_listener: the path must be free; a failing chmod removes it again.
Bind(d) ==
  /\ stage[d] = "bind"
  /\ \/ /\ path # Nothing /\ Becomes(d, "off")
        /\ UNCHANGED <<path, listening, killed>>
     \/ /\ path = Nothing /\ path' = d /\ killed' = killed \ {d}
        /\ listening' = listening \cup {d} /\ Becomes(d, "activate")
     \/ /\ path = Nothing /\ Becomes(d, "off")
        /\ UNCHANGED <<path, listening, killed>>
  /\ UNCHANGED <<children, starts, overlapped, config>>

\* The watcher takes a sample of its own.
Mutant_Seed(d) == file.mtime

\* The watcher starts from main()'s sample.
Seed(d) == sampled[d]

\* The plugins, then the pump and the watcher.
Activate(d) ==
  /\ stage[d] = "activate" /\ Becomes(d, "serving")
  /\ children' = children \cup {d}
  /\ watcher' = [watcher EXCEPT ![d] = "asleep"]
  /\ lastMtime' = [lastMtime EXCEPT ![d] = Seed(d)]
  /\ UNCHANGED <<path, listening, killed, starts, overlapped, file, sampled, engine>>

-----------------------------------------------------------------------------
(* config_watcher_loop *)

Edit ==
  /\ \E t \in Times :
       /\ t = (IF file.mtime = Nothing THEN 0 ELSE file.mtime) + 1
       /\ \E text \in {t, 0, Broken} : file' = [text |-> text, mtime |-> t]
  /\ UNCHANGED <<process, sampled, lastMtime, watcher, engine>>

Tick(d) ==
  /\ watcher[d] = "asleep"
  /\ IF file.mtime = lastMtime[d]
     THEN UNCHANGED <<lastMtime, watcher>>
     ELSE /\ lastMtime' = [lastMtime EXCEPT ![d] = file.mtime]
          /\ watcher' = [watcher EXCEPT ![d] = "changed"]
  /\ UNCHANGED <<process, file, sampled, engine>>

\* A file that does not parse leaves the old set in place.
Reload(d) ==
  /\ watcher[d] = "changed" /\ watcher' = [watcher EXCEPT ![d] = "asleep"]
  /\ engine' = [engine EXCEPT ![d] = Triggers(file.text, engine[d])]
  /\ UNCHANGED <<process, file, sampled, lastMtime>>

-----------------------------------------------------------------------------
(* main() after the accept loop *)

\* accept() failed: the loop returns and drops its listener.
AcceptFails(d) ==
  /\ stage[d] = "serving" /\ Becomes(d, "join")
  /\ listening' = listening \ {d}
  /\ overlapped' = (overlapped \/ \E e \in Daemons \ {d} : Moving(e))
  /\ UNCHANGED <<path, children, killed, starts, config>>

\* The watcher looks at its flag after a sleep.
Join(d) ==
  /\ stage[d] = "join" /\ watcher[d] = "asleep"
  /\ watcher' = [watcher EXCEPT ![d] = "none"] /\ Becomes(d, "shutdown")
  /\ UNCHANGED <<path, listening, children, killed, starts, overlapped>>
  /\ UNCHANGED <<file, sampled, lastMtime, engine>>

ShutDown(d) ==
  /\ stage[d] = "shutdown" /\ Becomes(d, "cleanup")
  /\ children' = children \ {d}
  /\ UNCHANGED <<path, listening, killed, starts, overlapped, config>>

\* cleanup_socket: whatever is at the path.
Cleanup(d) ==
  /\ stage[d] = "cleanup" /\ Becomes(d, "off") /\ path' = Nothing
  /\ UNCHANGED <<listening, children, killed, starts, overlapped, config>>

\* A signal: no handler, the kernel closes the listener, the inode stays, and the
\* children see the end of their input.
Kill(d) ==
  /\ stage[d] # "off" /\ Becomes(d, "off") /\ killed' = killed \cup {d}
  /\ listening' = listening \ {d} /\ watcher' = [watcher EXCEPT ![d] = "none"]
  /\ UNCHANGED <<path, children, starts, overlapped, file, sampled, lastMtime, engine>>

ChildrenSeeEof(d) ==
  /\ d \in children \cap killed /\ stage[d] = "off" /\ children' = children \ {d}
  /\ UNCHANGED <<path, stage, listening, killed, starts, overlapped, config>>

-----------------------------------------------------------------------------
Way(d) ==
  \/ Prepare(d) \/ Unlink(d) \/ LoadTriggers(d) \/ Bind(d) \/ Activate(d)
  \/ Join(d) \/ ShutDown(d) \/ Cleanup(d)

Watch(d) == Tick(d) \/ Reload(d)

Next ==
  \/ \E d \in Daemons :
       Way(d) \/ Watch(d) \/ Start(d) \/ AcceptFails(d) \/ Kill(d) \/ ChildrenSeeEof(d)
  \/ Edit

Fairness == \A d \in Daemons : WF_vars(Way(d)) /\ WF_vars(Watch(d))

Spec == Init /\ [][Next]_vars
FairSpec == Spec /\ Fairness

-----------------------------------------------------------------------------
(* Properties *)

\* As long as no daemon starts or stops while another one does, at most one
\* listens, and the path leads to it: kills, failed probes and stale sockets
\* included.  (main.rs 64-91, socket.rs prepare_socket_path)
OneServes ==
  overlapped \/ \A d \in listening : path = d /\ listening = {d}

\* A daemon that came to its own end, a bind that failed included, leaves neither
\* plugin processes nor its socket.  (main.rs "Bind before activating plugins so a
\* bind failure can't orphan eagerly-spawned children", 186-205)
ClosesUp ==
  \A d \in Daemons :
    stage[d] = "off" /\ d \notin killed => d \notin children /\ path # d

\* Once nobody edits the file, a daemon that goes on serving has its triggers:
\* also those written while it was starting or reloading.  (main.rs
\* load_triggers_config, config_watcher_loop)
FollowsFile(d) == stage[d] = "serving" => engine[d] = Triggers(file.text, engine[d])
EditsArrive == \A d \in Daemons : <>[]FollowsFile(d)

-----------------------------------------------------------------------------
(* What the code says and does not keep *)

\* "A live `nesttyd` is already listening - caller must not bind" (socket.rs 162):
\* probe and unlink are two steps, and so are two daemons' ways.
OneListens == Cardinality(listening) <= 1

\* The path of a daemon that serves is not taken from it by the one that ends.
ServesItsPath == \A d \in Daemons : stage[d] = "serving" => path = d
=============================================================================
