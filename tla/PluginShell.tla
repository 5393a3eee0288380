------------------------------ MODULE PluginShell ------------------------------
(***************************************************************************)
(* One run of a plugin's shell command: the child with its three pipes,    *)
(* the threads that feed and drain them, the wait with a timeout, and a    *)
(* grandchild that may outlive the child with the pipes in its hands.      *)
(* Amounts are in units of which a pipe holds PipeCap.                     *)
(***************************************************************************)
EXTENDS Naturals, FiniteSets

CONSTANTS
  PipeCap,     \* what a pipe holds
  OutputCap,   \* MAX_OUTPUT_BYTES
  MaxBytes     \* most the child writes to a stream, and most it is sent

PluginShellAssumption == {PipeCap, OutputCap, MaxBytes} \subseteq Nat \ {0}

Outputs == {"stdout", "stderr"}

VARIABLES
  child,       \* "running", "exited" or "reaped"
  op,          \* the call the child is in
  toWrite,     \* what it will still write to each output
  wrote,       \* history: what it meant to write
  success,     \* its exit status
  forked,      \* a grandchild was started in its group
  grandchild,  \* and is alive
  group,       \* whom the child's process group id means
  hit,         \* history: a group of somebody else was killed
  pipe,        \* what is in each pipe
  payload,     \* what the stdin thread still has to write
  fed,         \* the stdin thread has dropped its end
  got,         \* what each reader thread has read
  done,        \* reader threads that have sent their buffer
  caller,      \* where spawn_plugin_shell is
  taken,       \* what it received of each output
  result

processes == <<child, op, toWrite, wrote, success, forked, grandchild, group, hit>>
threads == <<pipe, payload, fed, got, done>>
call == <<caller, taken, result>>
vars == <<processes, threads, call>>

Amounts == 0..MaxBytes
Ops == {"none", "asleep", "stdin"} \cup Outputs

TypeOK ==
  /\ child \in {"running", "exited", "reaped"} /\ op \in Ops
  /\ {toWrite, wrote} \subseteq [Outputs -> Amounts]
  /\ {success, forked, grandchild, fed, hit} \subseteq BOOLEAN
  /\ group \in {"ours", "free", "another"}
  /\ pipe \in [Outputs \cup {"stdin"} -> 0..PipeCap]
  /\ payload \in Amounts /\ got \in [Outputs -> 0..OutputCap]
  /\ done \subseteq Outputs
  /\ caller \in {"wait", "late", "killed", "stdout", "stderr", "returned"}
  /\ taken \in [Outputs -> 0..OutputCap]
  /\ result \in {"none", "ok", "nonzero", "timeout"}

Init ==
  /\ child = "running" /\ op = "none" /\ toWrite \in [Outputs -> Amounts]
  /\ wrote = toWrite /\ success = FALSE
  /\ forked = FALSE /\ grandchild = FALSE /\ group = "ours" /\ hit = FALSE
  /\ pipe = [s \in Outputs \cup {"stdin"} |-> 0]
  /\ payload \in Amounts /\ fed = FALSE
  /\ got = [s \in Outputs |-> 0] /\ done = {}
  /\ caller = "wait" /\ taken = got /\ result = "none"

Alive == child = "running" \/ grandchild     \* somebody has the child's ends

-----------------------------------------------------------------------------
(* The child: any program *)

Choose ==
  /\ child = "running" /\ op = "none"
  /\ \E next \in Ops \ {"none"} :
       /\ next \in Outputs => toWrite[next] > 0
       /\ next = "stdin" => ~(fed /\ pipe["stdin"] = 0)     \* not after the end
       /\ op' = next
  /\ UNCHANGED <<child, toWrite, wrote, success, forked, grandchild, group, hit>>
  /\ UNCHANGED <<threads, call>>

\* A write waits for room; without a reader it ends the child.
Write ==
  /\ child = "running" /\ op \in Outputs
  /\ \/ /\ op \notin done /\ pipe[op] < PipeCap
        /\ pipe' = [pipe EXCEPT ![op] = @ + 1]
        /\ toWrite' = [toWrite EXCEPT ![op] = @ - 1] /\ op' = "none"
        /\ UNCHANGED child
     \/ /\ op \in done /\ child' = "exited" /\ UNCHANGED <<op, toWrite, pipe>>
  /\ UNCHANGED <<wrote, success, forked, grandchild, group, hit>>
  /\ UNCHANGED <<payload, fed, got, done, call>>

\* A read of stdin waits for a byte or the end of the input.
ReadStdin ==
  /\ child = "running" /\ op = "stdin" /\ op' = "none"
  /\ \/ pipe["stdin"] > 0 /\ pipe' = [pipe EXCEPT !["stdin"] = @ - 1]
     \/ pipe["stdin"] = 0 /\ fed /\ UNCHANGED pipe
  /\ UNCHANGED <<child, toWrite, wrote, success, forked, grandchild, group, hit>>
  /\ UNCHANGED <<payload, fed, got, done, call>>

Fork ==
  /\ child = "running" /\ op = "none" /\ ~forked
  /\ forked' = TRUE /\ grandchild' = TRUE
  /\ UNCHANGED <<child, op, toWrite, wrote, success, group, hit, threads, call>>

Exit ==
  /\ child = "running" /\ op = "none" /\ \A s \in Outputs : toWrite[s] = 0
  /\ child' = "exited" /\ success' \in BOOLEAN
  /\ UNCHANGED <<op, toWrite, wrote, forked, grandchild, group, hit, threads, call>>

GrandchildEnds ==
  /\ grandchild /\ grandchild' = FALSE
  /\ group' = IF child = "reaped" THEN "free" ELSE group
  /\ UNCHANGED <<child, op, toWrite, wrote, success, forked, hit, threads, call>>

\* The kernel gives a free number to somebody else's group.
Reuse ==
  /\ group = "free" /\ group' = "another"
  /\ UNCHANGED <<child, op, toWrite, wrote, success, forked, grandchild, hit>>
  /\ UNCHANGED <<threads, call>>

-----------------------------------------------------------------------------
(* The threads beside the caller *)

FeedStdin ==
  /\ ~fed
  /\ \/ /\ payload > 0 /\ Alive /\ pipe["stdin"] < PipeCap
        /\ pipe' = [pipe EXCEPT !["stdin"] = @ + 1] /\ payload' = payload - 1
        /\ UNCHANGED fed
     \/ /\ payload = 0 \/ ~Alive
        /\ fed' = TRUE /\ UNCHANGED <<pipe, payload>>
  /\ UNCHANGED <<processes, got, done, call>>

\* Stdout to its end before stderr, on one thread.
Mutant_MayRead(s) == s = "stderr" => "stdout" \in done

\* A thread of its own for each output.
MayRead(s) == s \in Outputs

\* read_to_end of take(MAX_OUTPUT_BYTES): to the end, or to the cap.
ReadOutput(s) ==
  /\ s \notin done /\ MayRead(s)
  /\ \/ /\ pipe[s] > 0 /\ got[s] < OutputCap
        /\ pipe' = [pipe EXCEPT ![s] = @ - 1] /\ got' = [got EXCEPT ![s] = @ + 1]
        /\ UNCHANGED done
     \/ /\ got[s] = OutputCap \/ (pipe[s] = 0 /\ ~Alive)
        /\ done' = done \cup {s} /\ UNCHANGED <<pipe, got>>
  /\ UNCHANGED <<processes, payload, fed, call>>

Helpers == FeedStdin \/ \E s \in Outputs : ReadOutput(s)

-----------------------------------------------------------------------------
(* spawn_plugin_shell after the spawn *)

\* The timeout is longer than any program needs that neither sleeps nor waits
\* for one of the pipes in vain.
Stuck ==
  \/ op = "asleep"
  \/ op \in Outputs /\ op \notin done /\ pipe[op] = PipeCap /\ ~MayRead(op)

Reaped == IF grandchild THEN group ELSE "free"

WaitReturns ==
  /\ caller = "wait" /\ child = "exited" /\ caller' = "stdout"
  /\ child' = "reaped" /\ group' = Reaped
  /\ result' = IF success THEN "ok" ELSE "nonzero"
  /\ UNCHANGED <<op, toWrite, wrote, success, forked, grandchild, hit, threads, taken>>

WaitTimesOut ==
  /\ caller = "wait" /\ child = "running" /\ Stuck
  /\ caller' = "late" /\ result' = "timeout"
  /\ UNCHANGED <<processes, threads, taken>>

\* The child is killed and waited for, its group afterwards.
Mutant_KillGroup ==
  /\ \/ /\ caller = "late" /\ caller' = "killed"
        /\ child' = "reaped" /\ group' = Reaped /\ UNCHANGED <<grandchild, hit>>
     \/ /\ caller = "killed" /\ caller' = "stdout" /\ hit' = (group = "another")
        /\ grandchild' = (grandchild /\ group # "ours") /\ UNCHANGED <<child, group>>
  /\ UNCHANGED <<op, toWrite, wrote, success, forked, threads, taken, result>>

\* killpg(SIGKILL), then wait().
KillGroup ==
  /\ \/ /\ caller = "late" /\ caller' = "killed"
        /\ grandchild' = (grandchild /\ group # "ours")
        /\ child' = "exited" /\ hit' = (group = "another") /\ UNCHANGED group
     \/ /\ caller = "killed" /\ caller' = "stdout"
        /\ child' = "reaped" /\ group' = Reaped /\ UNCHANGED <<grandchild, hit>>
  /\ UNCHANGED <<op, toWrite, wrote, success, forked, threads, taken, result>>

\* recv_timeout: what the reader sent; or nothing, when its pipe stays open.
Collect ==
  /\ caller \in Outputs
  /\ \/ caller \in done /\ taken' = [taken EXCEPT ![caller] = got[caller]]
     \/ caller \notin done /\ Alive /\ UNCHANGED taken
  /\ caller' = IF caller = "stdout" THEN "stderr" ELSE "returned"
  /\ UNCHANGED <<processes, threads, result>>

Call == WaitReturns \/ WaitTimesOut \/ KillGroup \/ Collect

Child == Choose \/ Write \/ ReadStdin \/ Fork \/ Exit

Next == Child \/ GrandchildEnds \/ Reuse \/ Helpers \/ Call

Fairness ==
  /\ WF_vars(Child) /\ WF_vars(Helpers)
  /\ WF_vars(WaitReturns \/ WaitTimesOut) /\ WF_vars(KillGroup) /\ WF_vars(Collect)

Spec == Init /\ [][Next]_vars
FairSpec == Spec /\ Fairness

-----------------------------------------------------------------------------
(* Properties *)

\* Only a command that sleeps runs into its timeout: floods of either output and
\* unread input do not stop it.  (plugin_exec.rs "PIPE buffer deadlock", "stdin
\* handoff")
OnlySleepersTimeOut == result = "timeout" => op = "asleep"

\* The group is killed while its number is the child's, and everything in it dies:
\* no other group is hit and a timeout leaves nobody.  (plugin_exec.rs "Grandchild
\* process leak on timeout", "we DO NOT `killpg` on the success path")
TimeoutHitsItsGroup ==
  /\ ~hit
  /\ result = "timeout" /\ caller \in Outputs \cup {"returned"} =>
       ~Alive

\* Without a grandchild, the caller has all its child wrote, up to the cap.
\* (plugin_exec.rs SUCCESS_DRAIN_BACKSTOP)
OutputIsWhole ==
  caller = "returned" /\ result = "ok" /\ ~forked =>
    \A s \in Outputs : taken[s] = IF wrote[s] < OutputCap THEN wrote[s] ELSE OutputCap

\* All of it: what a run of a command promises its caller.  (plugin_exec.rs)
TimeoutHitsSleepers == OnlySleepersTimeOut /\ TimeoutHitsItsGroup /\ OutputIsWhole

\* The call returns, whatever the child does.
Returned == caller = "returned"
Returns == <>Returned
=============================================================================
