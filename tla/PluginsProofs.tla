----------------------------- MODULE PluginsProofs -----------------------------
(***************************************************************************)
(* Safety of the plugins that PluginsMC puts together, for every value of  *)
(* its constants: each part has an inductive invariant of its own, and as  *)
(* a behaviour is one part's, a step keeps the invariants of the others    *)
(* because `part' stays what it is.                                        *)
(***************************************************************************)
EXTENDS PluginsMC, SequenceTheorems, FiniteSetTheorems, WellFoundedInduction, TLAPS

-----------------------------------------------------------------------------
(* The parts *)

\* A step of the composition leaves the part what it is, and is that part's.
LEMMA Parts ==
  ASSUME [Next]_vars
  PROVE  /\ part' = part
         /\ part = "todo" => [Todo!Next]_(Todo!vars)
         /\ part = "git" => [Git!Next]_(Git!vars)
         /\ part = "slack" => [Slack!Next]_(Slack!vars)
         /\ part = "discord" => [Discord!Next]_(Discord!vars)
         /\ part = "pipe" => [Pipe!Next]_(Pipe!vars)
         /\ part = "calls" => [Calls!Next]_(Calls!vars)
         /\ part = "shell" => [Shell!Next]_(Shell!vars)
         /\ part = "kb" => [Kb!Next]_(Kb!vars)
         /\ part = "bookmark" => [Bookmarks!Next]_(Bookmarks!vars)
         /\ part = "llm" => [Llm!Next]_(Llm!vars)
         /\ part = "jira" => [Jira!Next]_(Jira!vars)
         /\ part = "calendar" => [Calendar!Next]_(Calendar!vars)
         /\ part = "credentials" => [Secrets!Next]_(Secrets!vars)
<1> USE DEF vars
<1>1. Next => part' = part
  BY DEF Next, TodoStep, GitStep, SlackStep, DiscordStep, PipeStep, CallsStep, ShellStep,
         KbStep, BookmarksStep, LlmStep, JiraStep, CalendarStep, SecretsStep
<1>2. Next => /\ part = "todo" => Todo!Next
              /\ part = "git" => Git!Next
              /\ part = "slack" => Slack!Next
              /\ part = "discord" => Discord!Next
              /\ part = "pipe" => Pipe!Next
              /\ part = "calls" => Calls!Next
              /\ part = "shell" => Shell!Next
              /\ part = "kb" => Kb!Next
              /\ part = "bookmark" => Bookmarks!Next
              /\ part = "llm" => Llm!Next
              /\ part = "jira" => Jira!Next
              /\ part = "calendar" => Calendar!Next
              /\ part = "credentials" => Secrets!Next
  BY DEF Next, TodoStep, GitStep, SlackStep, DiscordStep, PipeStep, CallsStep, ShellStep,
         KbStep, BookmarksStep, LlmStep, JiraStep, CalendarStep, SecretsStep
<1>3. UNCHANGED vars => UNCHANGED <<Todo!vars, Git!vars, Slack!vars, Discord!vars, Pipe!vars, Calls!vars, Shell!vars>>
  BY DEF Todo!vars, Todo!disk, Todo!scanning, Git!vars, Git!repo, Git!actions, Git!watching, Slack!vars,
         Slack!config, Slack!slack, Slack!published, Discord!vars, Discord!beat, Discord!net, Discord!history,
         Pipe!vars, Calls!vars, Shell!vars, Shell!processes, Shell!threads, Shell!call
<1>4. UNCHANGED vars => UNCHANGED <<Kb!vars, Bookmarks!vars, Llm!vars, Jira!vars, Calendar!vars, Secrets!vars>>
  BY DEF Kb!vars, Bookmarks!vars, Llm!vars, Jira!vars, Jira!jira, Jira!state, Jira!history, Calendar!vars,
         Calendar!counters, Calendar!poller, Secrets!vars
<1> QED
  BY <1>1, <1>2, <1>3, <1>4

-----------------------------------------------------------------------------
(* PluginShell: its variables, as it calls them *)

child == v1
shellOp == v2
toWrite == v3
wrote == v4
success == v5
forked == v6
grandchild == v7
group == v8
hit == v9
pipes == v10
payload == v11
fed == v12
got == v13
done == v14
caller == v15
taken == v16
result == v17

USE DEF child, shellOp, toWrite, wrote, success, forked, grandchild, group, hit, pipes, payload, fed, got, done, caller, taken, result

\* Where the caller is, and what it has done to the child by then.
Stages ==
  /\ caller = "wait" => child # "reaped" /\ result = "none"
  /\ caller = "late" => child = "running" /\ result = "timeout"
  /\ caller = "killed" => child = "exited" /\ ~grandchild /\ result = "timeout"
  /\ caller \in Shell!Outputs \cup {"returned"} =>
       child = "reaped" /\ (result = "timeout" => ~grandchild)
  /\ child # "reaped" => group = "ours"
  /\ grandchild => forked

\* Every byte is still to be written, in the pipe, or with the reader.
Tallies ==
  /\ \A s \in Shell!Outputs : toWrite[s] + pipes[s] + got[s] = wrote[s]
  /\ shellOp \in Shell!Outputs => toWrite[shellOp] > 0

\* A program that succeeds has written everything.
Success ==
  /\ success => child # "running" /\ \A s \in Shell!Outputs : toWrite[s] = 0
  /\ result = "ok" => success

\* A reader ends at its cap, or when nobody can write any more.
Ends == \A s \in done : got[s] = OutputCap \/ (pipes[s] = 0 /\ ~Shell!Alive)

\* The caller has what the readers sent, unless a grandchild kept them reading.
Took ==
  ~forked =>
    /\ caller \in {"stderr", "returned"} => "stdout" \in done /\ taken["stdout"] = got["stdout"]
    /\ caller = "returned" => "stderr" \in done /\ taken["stderr"] = got["stderr"]

ShellInv ==
  /\ Shell!TypeOK /\ Stages /\ Tallies /\ Success /\ Ends /\ Took
  /\ Shell!OnlySleepersTimeOut /\ ~hit

\* The invariant holds initially.
LEMMA ShellInit == Shell!PluginShellAssumption /\ Shell!Init => ShellInv
<1> SUFFICES ASSUME Shell!PluginShellAssumption, Shell!Init PROVE ShellInv
  OBVIOUS
<1> USE DEF Shell!Init, Shell!Outputs
<1>1. Shell!TypeOK
  <2>1. {PipeCap, OutputCap} \subseteq Nat \ {0} /\ 0 \in 0..PipeCap /\ 0 \in 0..OutputCap
    BY DEF Shell!PluginShellAssumption
  <2> QED
    BY <2>1 DEF Shell!TypeOK, Shell!Ops
<1>2. Stages /\ Success /\ Ends /\ Took /\ Shell!OnlySleepersTimeOut /\ ~hit
  BY DEF Stages, Success, Ends, Took, Shell!OnlySleepersTimeOut
<1>3. Tallies
  BY DEF Tallies, Shell!Amounts, Shell!PluginShellAssumption
<1> QED
  BY <1>1, <1>2, <1>3 DEF ShellInv

\* What the child does, and the kernel with its group's number.
LEMMA ShellChildStep ==
  ASSUME Shell!PluginShellAssumption, ShellInv, Shell!Child \/ Shell!GrandchildEnds \/ Shell!Reuse
  PROVE  ShellInv'
<1> USE DEF ShellInv, Shell!Outputs, Shell!processes, Shell!threads, Shell!call
<1>1. CASE Shell!Choose
  <2>1. Shell!TypeOK'
    BY <1>1 DEF Shell!Choose, Shell!TypeOK, Shell!Ops
  <2>2. (Stages /\ Success /\ Ends /\ Took)' /\ ~hit'
    BY <1>1 DEF Shell!Choose, Stages, Success, Ends, Took, Shell!Alive
  <2>3. Tallies' /\ Shell!OnlySleepersTimeOut'
    BY <1>1 DEF Shell!Choose, Tallies, Shell!OnlySleepersTimeOut, Stages, Shell!Ops
  <2> QED
    BY <2>1, <2>2, <2>3
<1>2. CASE Shell!Write
  <2>1. Shell!TypeOK'
    BY <1>2 DEF Shell!Write, Shell!TypeOK, Shell!Ops, Tallies, Shell!Amounts, Shell!PluginShellAssumption
  <2>2. (Stages /\ Success /\ Ends /\ Took)' /\ ~hit'
    <3>1. Stages' /\ Took' /\ Success' /\ ~hit'
      BY <1>2 DEF Shell!Write, Stages, Success, Took, Shell!OnlySleepersTimeOut, Shell!Alive
    <3>2. Ends'
      BY <1>2 DEF Shell!Write, Ends, Shell!Alive, Shell!TypeOK
    <3> QED
      BY <3>1, <3>2
  <2>3. Tallies'
    BY <1>2 DEF Shell!Write, Tallies, Shell!TypeOK, Shell!Amounts, Shell!PluginShellAssumption
  <2>4. Shell!OnlySleepersTimeOut'
    BY <1>2 DEF Shell!Write, Shell!OnlySleepersTimeOut
  <2> QED
    BY <2>1, <2>2, <2>3, <2>4
<1>3. CASE Shell!ReadStdin
  <2>1. Shell!TypeOK'
    BY <1>3 DEF Shell!ReadStdin, Shell!TypeOK, Shell!Ops, Shell!PluginShellAssumption
  <2>2. (Stages /\ Success /\ Ends /\ Took)' /\ ~hit'
    BY <1>3 DEF Shell!ReadStdin, Stages, Success, Ends, Took, Shell!Alive, Shell!TypeOK
  <2>3. Tallies' /\ Shell!OnlySleepersTimeOut'
    BY <1>3 DEF Shell!ReadStdin, Tallies, Shell!OnlySleepersTimeOut, Shell!TypeOK
  <2> QED
    BY <2>1, <2>2, <2>3
<1>4. CASE Shell!Fork
  <2>1. Shell!TypeOK'
    BY <1>4 DEF Shell!Fork, Shell!TypeOK
  <2>2. (Stages /\ Success /\ Ends /\ Took)' /\ ~hit'
    BY <1>4 DEF Shell!Fork, Stages, Success, Ends, Took, Shell!Alive
  <2>3. Tallies' /\ Shell!OnlySleepersTimeOut'
    BY <1>4 DEF Shell!Fork, Tallies, Shell!OnlySleepersTimeOut
  <2> QED
    BY <2>1, <2>2, <2>3
<1>5. CASE Shell!Exit
  <2>1. Shell!TypeOK'
    BY <1>5 DEF Shell!Exit, Shell!TypeOK
  <2>2. (Stages /\ Success /\ Ends /\ Took)' /\ ~hit'
    BY <1>5 DEF Shell!Exit, Stages, Success, Ends, Took, Shell!Alive, Shell!OnlySleepersTimeOut
  <2>3. Tallies' /\ Shell!OnlySleepersTimeOut'
    BY <1>5 DEF Shell!Exit, Tallies, Shell!OnlySleepersTimeOut
  <2> QED
    BY <2>1, <2>2, <2>3
<1>6. CASE Shell!GrandchildEnds
  <2>1. Shell!TypeOK'
    BY <1>6 DEF Shell!GrandchildEnds, Shell!TypeOK
  <2>2. (Stages /\ Success /\ Ends /\ Took)' /\ ~hit'
    <3>1. Stages' /\ ~hit'
      BY <1>6 DEF Shell!GrandchildEnds, Stages, Shell!TypeOK
    <3>2. (Success /\ Ends /\ Took)'
      BY <1>6 DEF Shell!GrandchildEnds, Success, Ends, Took, Shell!Alive
    <3> QED
      BY <3>1, <3>2
  <2>3. Tallies' /\ Shell!OnlySleepersTimeOut'
    BY <1>6 DEF Shell!GrandchildEnds, Tallies, Shell!OnlySleepersTimeOut
  <2> QED
    BY <2>1, <2>2, <2>3
<1>7. CASE Shell!Reuse
  <2>1. Shell!TypeOK'
    BY <1>7 DEF Shell!Reuse, Shell!TypeOK
  <2>2. (Stages /\ Success /\ Ends /\ Took)' /\ ~hit'
    BY <1>7 DEF Shell!Reuse, Stages, Success, Ends, Took, Shell!Alive
  <2>3. Tallies' /\ Shell!OnlySleepersTimeOut'
    BY <1>7 DEF Shell!Reuse, Tallies, Shell!OnlySleepersTimeOut
  <2> QED
    BY <2>1, <2>2, <2>3
<1> QED
  BY <1>1, <1>2, <1>3, <1>4, <1>5, <1>6, <1>7 DEF Shell!Child

\* What the threads beside the caller do.
LEMMA ShellHelperStep ==
  ASSUME Shell!PluginShellAssumption, ShellInv, Shell!Helpers
  PROVE  ShellInv'
<1> USE DEF ShellInv, Shell!Outputs, Shell!processes, Shell!call
<1>1. CASE Shell!FeedStdin
  <2>1. Shell!TypeOK'
    <3>1. payload > 0 => payload - 1 \in Shell!Amounts
      BY DEF Shell!TypeOK, Shell!Amounts, Shell!PluginShellAssumption
    <3>2. pipes["stdin"] < PipeCap => pipes["stdin"] + 1 \in 0..PipeCap
      BY DEF Shell!TypeOK, Shell!PluginShellAssumption
    <3> QED
      BY <1>1, <3>1, <3>2 DEF Shell!FeedStdin, Shell!TypeOK
  <2>2. (Stages /\ Success /\ Ends /\ Took)' /\ ~hit'
    BY <1>1 DEF Shell!FeedStdin, Stages, Success, Ends, Took, Shell!Alive, Shell!TypeOK
  <2>3. Tallies' /\ Shell!OnlySleepersTimeOut'
    BY <1>1 DEF Shell!FeedStdin, Tallies, Shell!OnlySleepersTimeOut, Shell!TypeOK
  <2> QED
    BY <2>1, <2>2, <2>3
<1>2. CASE \E s \in Shell!Outputs : Shell!ReadOutput(s)
  <2> PICK s \in Shell!Outputs : Shell!ReadOutput(s)
    BY <1>2
  <2>1. Shell!TypeOK'
    <3>1. pipes[s] > 0 => pipes[s] - 1 \in 0..PipeCap
      BY DEF Shell!TypeOK, Shell!PluginShellAssumption
    <3>2. got[s] < OutputCap => got[s] + 1 \in 0..OutputCap
      BY DEF Shell!TypeOK, Shell!PluginShellAssumption
    <3>3. pipes' \in [Shell!Outputs \cup {"stdin"} -> 0..PipeCap] /\ got' \in [Shell!Outputs -> 0..OutputCap]
      BY <3>1, <3>2 DEF Shell!ReadOutput, Shell!TypeOK
    <3>4. done' \subseteq Shell!Outputs
      BY DEF Shell!ReadOutput, Shell!TypeOK
    <3> QED
      BY <3>3, <3>4 DEF Shell!ReadOutput, Shell!TypeOK
  <2>2. (Stages /\ Success)' /\ ~hit'
    BY DEF Shell!ReadOutput, Stages, Success
  <2>3. Ends'
    <3> SUFFICES ASSUME NEW z \in done'
                 PROVE  (got[z] = OutputCap \/ (pipes[z] = 0 /\ ~Shell!Alive))'
      BY DEF Ends
    <3>1. CASE z \in done
      BY <3>1 DEF Shell!ReadOutput, Ends, Shell!Alive, Shell!TypeOK
    <3>2. CASE z \notin done
      BY <3>2 DEF Shell!ReadOutput, Shell!Alive, Shell!TypeOK
    <3> QED
      BY <3>1, <3>2
  <2>4. Took'
    BY DEF Shell!ReadOutput, Took, Shell!TypeOK
  <2>5. Tallies' /\ Shell!OnlySleepersTimeOut'
    BY DEF Shell!ReadOutput, Tallies, Shell!OnlySleepersTimeOut, Shell!TypeOK, Shell!PluginShellAssumption, Shell!Amounts
  <2> QED
    BY <2>1, <2>2, <2>3, <2>4, <2>5
<1> QED
  BY <1>1, <1>2 DEF Shell!Helpers

\* What the caller does.
LEMMA ShellCallStep ==
  ASSUME Shell!PluginShellAssumption, ShellInv, Shell!Call
  PROVE  ShellInv'
<1> USE DEF ShellInv, Shell!Outputs, Shell!processes, Shell!threads
<1>1. CASE Shell!WaitReturns
  <2>1. Shell!TypeOK'
    BY <1>1 DEF Shell!WaitReturns, Shell!TypeOK, Shell!Reaped
  <2>2. (Stages /\ Success /\ Ends /\ Took)' /\ ~hit'
    BY <1>1 DEF Shell!WaitReturns, Stages, Success, Ends, Took, Shell!Alive, Shell!TypeOK
  <2>3. Tallies' /\ Shell!OnlySleepersTimeOut'
    BY <1>1 DEF Shell!WaitReturns, Tallies, Shell!OnlySleepersTimeOut
  <2> QED
    BY <2>1, <2>2, <2>3
<1>2. CASE Shell!WaitTimesOut
  <2>1. Shell!TypeOK'
    BY <1>2 DEF Shell!WaitTimesOut, Shell!TypeOK
  <2>2. (Stages /\ Success /\ Ends /\ Took)' /\ ~hit'
    BY <1>2 DEF Shell!WaitTimesOut, Stages, Success, Ends, Took, Shell!Alive
  <2>3. Tallies' /\ Shell!OnlySleepersTimeOut'
    BY <1>2 DEF Shell!WaitTimesOut, Tallies, Shell!OnlySleepersTimeOut, Shell!Stuck, Shell!MayRead
  <2> QED
    BY <2>1, <2>2, <2>3
<1>3. CASE Shell!KillGroup
  <2>1. Shell!TypeOK'
    BY <1>3 DEF Shell!KillGroup, Shell!TypeOK, Shell!Reaped
  <2>2. Stages' /\ ~hit'
    BY <1>3 DEF Shell!KillGroup, Stages, Shell!Reaped, Shell!TypeOK
  <2>3. (Success /\ Ends /\ Took)'
    BY <1>3 DEF Shell!KillGroup, Success, Ends, Took, Shell!Alive, Stages
  <2>4. Tallies' /\ Shell!OnlySleepersTimeOut'
    BY <1>3 DEF Shell!KillGroup, Tallies, Shell!OnlySleepersTimeOut
  <2> QED
    BY <2>1, <2>2, <2>3, <2>4
<1>4. CASE Shell!Collect
  <2>1. Shell!TypeOK'
    BY <1>4 DEF Shell!Collect, Shell!TypeOK
  <2>2. (Stages /\ Success /\ Ends)' /\ ~hit'
    BY <1>4 DEF Shell!Collect, Stages, Success, Ends, Shell!Alive
  <2>3. Took'
    BY <1>4 DEF Shell!Collect, Took, Shell!Alive, Stages, Shell!TypeOK
  <2>4. Tallies' /\ Shell!OnlySleepersTimeOut'
    BY <1>4 DEF Shell!Collect, Tallies, Shell!OnlySleepersTimeOut
  <2> QED
    BY <2>1, <2>2, <2>3, <2>4
<1> QED
  BY <1>1, <1>2, <1>3, <1>4 DEF Shell!Call

\* A call that changes nothing keeps everything.
LEMMA ShellStutter == ASSUME ShellInv, UNCHANGED Shell!vars PROVE ShellInv'
<1> USE DEF ShellInv, Shell!vars, Shell!processes, Shell!threads, Shell!call
<1>1. (Shell!TypeOK /\ Tallies)'
  BY DEF Shell!TypeOK, Tallies
<1>2. (Stages /\ Success /\ Ends /\ Took /\ Shell!OnlySleepersTimeOut)' /\ ~hit'
  BY DEF Stages, Success, Ends, Took, Shell!OnlySleepersTimeOut, Shell!Alive
<1> QED
  BY <1>1, <1>2

\* A step keeps the invariant.
LEMMA ShellNext ==
  ASSUME Shell!PluginShellAssumption, ShellInv, [Shell!Next]_(Shell!vars)
  PROVE  ShellInv'
  BY ShellChildStep, ShellHelperStep, ShellCallStep, ShellStutter DEF Shell!Next

\* What it promises the caller.
LEMMA ShellPromises ==
  ASSUME Shell!PluginShellAssumption, ShellInv
  PROVE  Shell!TypeOK /\ Shell!TimeoutHitsSleepers
<1>1. Shell!OnlySleepersTimeOut /\ Shell!TimeoutHitsItsGroup
  BY DEF ShellInv, Shell!TimeoutHitsItsGroup, Stages, Shell!Alive, Shell!Outputs
<1>2. Shell!OutputIsWhole
  <2> SUFFICES ASSUME caller = "returned", result = "ok", ~forked, NEW s \in Shell!Outputs
               PROVE  taken[s] = IF wrote[s] < OutputCap THEN wrote[s] ELSE OutputCap
    BY DEF Shell!OutputIsWhole
  <2>1. s \in done /\ taken[s] = got[s]
    BY DEF ShellInv, Took, Shell!Outputs
  <2>2. toWrite[s] = 0 /\ toWrite[s] + pipes[s] + got[s] = wrote[s]
    BY DEF ShellInv, Success, Tallies
  <2>3. got[s] = OutputCap \/ pipes[s] = 0
    BY <2>1 DEF ShellInv, Ends
  <2>4. pipes[s] \in Nat /\ got[s] \in 0..OutputCap /\ OutputCap \in Nat
    BY DEF ShellInv, Shell!TypeOK, Shell!PluginShellAssumption, Shell!Outputs
  <2> QED
    BY <2>1, <2>2, <2>3, <2>4
<1> QED
  BY <1>1, <1>2 DEF ShellInv, Shell!TimeoutHitsSleepers

ShellKept == part = "shell" => ShellInv

\* What a run of a command promises its caller holds for pipes, caps and outputs of any
\* size: only sleeping runs into the timeout, the timeout kills the child's own group and
\* all of it, and an untouched output is returned whole.
THEOREM CommandsEnd == Spec => []TimeoutHitsSleepers
<1>1. Init => ShellKept
  BY ShellInit, PluginsAssumption DEF Init, ShellKept, PluginsAssumption
<1>2. ShellKept /\ [Next]_vars => ShellKept'
  BY Parts, ShellNext, PluginsAssumption DEF ShellKept, PluginsAssumption
<1>3. ShellKept => TimeoutHitsSleepers
  BY ShellPromises, PluginsAssumption DEF ShellKept, TimeoutHitsSleepers, PluginsAssumption
<1> QED
  BY <1>1, <1>2, <1>3, PTL DEF Spec

-----------------------------------------------------------------------------
(* GitPlugin *)

head == v1
loose == v2
packed == v3
registered == v4
present == v5
add == v7
answer == v9
lived == v10

USE DEF head, loose, packed, registered, present, add, answer, lived

\* The steps of git.worktree_add that are left to an answer with its branch.
Answering == {"validate", "reply"}

\* What was there at some moment of the call is remembered: what is there now, and the
\* worktree that the answer will name.
GitInv ==
  /\ add \in [branch : Branches, at : {"list", "check", "validate", "create", "reply"}] \cup {Nil}
  /\ add # Nil =>
       /\ present \subseteq lived
       /\ add.at \in Answering => add.branch \in lived

\* What others do leaves the call alone, and what they make is remembered.
LEMMA GitOthers ==
  ASSUME GitInv,
         \/ \E b \in Branches : Git!Branch(b) \/ Git!DeleteBranch(b) \/ Git!Checkout(b) \/ Git!Commit(b)
                                \/ Git!AddByHand(b) \/ Git!RemoveDirectory(b)
         \/ Git!Pack \/ Git!Prune \/ Git!Watch \/ Git!Fails
  PROVE  GitInv' /\ answer' = answer
<1> USE DEF GitInv, Git!Change, Git!repo, Git!actions
<1>1. ASSUME NEW b \in Branches,
             Git!Branch(b) \/ Git!DeleteBranch(b) \/ Git!Checkout(b) \/ Git!Commit(b)
             \/ Git!AddByHand(b) \/ Git!RemoveDirectory(b)
      PROVE  GitInv' /\ answer' = answer
  BY <1>1 DEF Git!Branch, Git!DeleteBranch, Git!Checkout, Git!Commit, Git!AddByHand, Git!RemoveDirectory
<1>2. CASE Git!Pack \/ Git!Prune
  BY <1>2 DEF Git!Pack, Git!Prune
<1>3. CASE Git!Watch \/ Git!Fails
  BY <1>3 DEF Git!Watch, Git!Initialized, Git!Wake, Git!Reading, Git!Baseline, Git!Publish, Git!Fails
<1> QED
  BY <1>1, <1>2, <1>3

\* The steps before the answer: a directory that Check finds is there, and so is what
\* Create has made.
LEMMA GitCall ==
  ASSUME GitInv, Git!List \/ Git!Check \/ Git!Validate \/ Git!Create \/ Git!Reply
  PROVE  GitInv' /\ Git!LiveAnswer
<1> USE DEF GitInv, Git!At, Git!GoTo, Git!Answer, Git!LiveAnswer, Git!repo, Answering
<1>1. CASE Git!List
  BY <1>1 DEF Git!List
<1>2. CASE Git!Check
  BY <1>2 DEF Git!Check, Git!HasWorktree
<1>3. CASE Git!Validate
  BY <1>3 DEF Git!Validate
<1>4. CASE Git!Create
  BY <1>4 DEF Git!Create
<1>5. CASE Git!Reply
  BY <1>5 DEF Git!Reply
<1> QED
  BY <1>1, <1>2, <1>3, <1>4, <1>5

\* A step keeps the invariant, and where it answers, it answers with what was there.
LEMMA GitNext == ASSUME GitInv, [Git!Next]_(Git!vars) PROVE GitInv' /\ Git!LiveAnswer
<1>1. ASSUME NEW b \in Branches, Git!WorktreeAdd(b) \/ Git!WorktreeRemove(b)
      PROVE  GitInv' /\ Git!LiveAnswer
  BY <1>1 DEF Git!WorktreeAdd, Git!WorktreeRemove, Git!repo, Git!actions, GitInv, Git!LiveAnswer, Answering
<1>2. CASE UNCHANGED Git!vars
  BY <1>2 DEF Git!vars, Git!repo, Git!actions, GitInv, Git!LiveAnswer
<1> QED
  BY <1>1, <1>2, GitOthers, GitCall DEF Git!Next, Git!LiveAnswer

GitKept == part = "git" => GitInv

\* git.worktree_add answers with a worktree that is not the primary checkout and whose
\* directory was there at some moment of the call, whatever others do to the repository
\* between its steps: between the listing, the look at the directory, the validation and
\* the answer, or between git's making it and the answer.
THEOREM WorktreeLives == Spec => LiveWorktree
<1>1. Init => GitKept
  BY DEF Init, GitKept, GitInv, Git!Init
<1>2. GitKept /\ [Next]_vars => GitKept'
  BY Parts, GitNext DEF GitKept
<1>3. GitKept /\ [Next]_vars => [part = "git" => Git!LiveAnswer]_vars
  BY Parts, GitNext DEF GitKept
<1> QED
  BY <1>1, <1>2, <1>3, PTL DEF Spec, LiveWorktree

-----------------------------------------------------------------------------
(* PluginPipe *)

plugin == v1
stdin == v2
asked == v3
doing == v4
initialized == v5
stopping == v6
background == v7
lines == v8
lock == v9
pipe == v10
events == v11
answered == v12
ended == v13

USE DEF plugin, stdin, asked, doing, initialized, stopping, background, lines, lock, pipe,
        events, answered, ended

\* Who holds the lock is a writer whose first line has been started, and the last thing on
\* the pipe; while the lock is free no line is open.
OpenLine ==
  /\ \A thread \in Pipe!Threads : lock = thread =>
       /\ thread \in Pipe!Writers /\ lines[thread] # <<>>
       /\ Len(pipe) > 0 /\ pipe[Len(pipe)] = <<Head(lines[thread]), "start">>
  /\ lock = Nil /\ Len(pipe) > 0 => pipe[Len(pipe)][2] = "end"

\* `initialized' comes after the answer to `initialize', and events after it.
Handshake ==
  /\ \A frame \in asked : frame.method = "initialized" => Pipe!Whole(Pipe!Answer(0, TRUE))
  /\ initialized => Pipe!Whole(Pipe!Answer(0, TRUE))
  /\ background = "scans" => initialized /\ events < MaxEvents
  /\ \A thread \in Pipe!Threads : \A i \in 1 .. Len(lines[thread]) :
       lines[thread][i].kind = "event" => initialized

\* Who has nothing to write: the main thread with a frame or out of its loop, a watcher that
\* is not there, the writer of a plugin whose threads write themselves.
Silent ==
  /\ doing # Nil \/ stopping => lines["main"] = <<>>
  /\ stopping => doing = Nil
  /\ background \in {"none", "ended"} => lines["background"] = <<>>
  /\ ~Pipe!Traits[plugin].queued => lines["writer"] = <<>>

PipeInv ==
  /\ Pipe!TypeOK /\ OpenLine /\ Handshake /\ Silent
  /\ Pipe!LinesAreWhole /\ Pipe!HandshakeIsFirst /\ Pipe!AnsweredIsWritten /\ Pipe!LastLineIsWhole

\* What the lines of the threads are, as sequences.
LEMMA LinesOf ==
  ASSUME Pipe!TypeOK
  PROVE  /\ \A thread \in Pipe!Threads :
              /\ lines[thread] \in Seq(Pipe!Lines) /\ Len(lines[thread]) \in Nat
              /\ \A i \in 1 .. Len(lines[thread]) : lines[thread][i] \in Pipe!Lines
              /\ lines[thread] = <<>> <=> Len(lines[thread]) = 0
         /\ Len(pipe) \in Nat /\ DOMAIN pipe = 1 .. Len(pipe)
         /\ \A i \in 1 .. Len(pipe) : pipe[i] \in Pipe!Lines \X {"start", "end"}
  BY LenProperties, ElementOfSeq, EmptySeq DEF Pipe!TypeOK

\* The plugins that wait for their watcher write themselves.
LEMMA JoinersWrite ==
  ASSUME Pipe!PluginsAssumption, plugin \in Plugins
  PROVE  /\ Pipe!Traits[plugin].joins => ~Pipe!Traits[plugin].queued
         /\ Pipe!Traits[plugin].queued \in BOOLEAN
         /\ Pipe!Traits[plugin].queued => Pipe!Writers = {"writer"}
         /\ ~Pipe!Traits[plugin].queued => Pipe!Writers = {"main", "background"}
<1>1. plugin \in {"echo", "git", "kb", "bookmark", "calendar", "jira", "llm", "slack", "discord", "todo"}
  BY DEF Pipe!PluginsAssumption, Pipe!Traits
<1>2. Pipe!Traits[plugin] \in {Pipe!Echo, Pipe!Git, Pipe!Kb, Pipe!Bookmark, Pipe!Calendar,
                             Pipe!Jira, Pipe!Llm, Pipe!Slack, Pipe!Discord, Pipe!Todo}
  BY <1>1 DEF Pipe!Traits
<1>3. Pipe!Traits[plugin] \in {Pipe!Channel(TRUE), Pipe!Channel(FALSE), Pipe!Mutex(TRUE), Pipe!Mutex(FALSE)}
  BY <1>2 DEF Pipe!Echo, Pipe!Git, Pipe!Kb, Pipe!Bookmark, Pipe!Calendar, Pipe!Jira,
       Pipe!Llm, Pipe!Slack, Pipe!Discord, Pipe!Todo
<1>4. \A b : /\ Pipe!Channel(b).queued = TRUE /\ Pipe!Channel(b).joins = FALSE
            /\ Pipe!Mutex(b).queued = FALSE
  BY DEF Pipe!Channel, Pipe!Mutex
<1>5. \/ Pipe!Traits[plugin].queued = TRUE /\ Pipe!Traits[plugin].joins = FALSE
      \/ Pipe!Traits[plugin].queued = FALSE
  BY <1>3, <1>4
<1> QED
  BY <1>5 DEF Pipe!Writers

LEMMA PipeInit == Pipe!PluginsAssumption /\ Pipe!Init => PipeInv
<1> SUFFICES ASSUME Pipe!PluginsAssumption, Pipe!Init PROVE PipeInv
  OBVIOUS
<1> USE DEF Pipe!Init, Pipe!PluginsAssumption
<1>1. <<>> \in Seq(asked) /\ <<>> \in Seq(Pipe!Lines) /\ <<>> \in Seq(Pipe!Lines \X {"start", "end"}) /\ Len(<<>>) = 0
  BY EmptySeq
<1>2. Pipe!TypeOK
  <2>1. lines \in [Pipe!Threads -> Seq(Pipe!Lines)] /\ pipe \in Seq(Pipe!Lines \X {"start", "end"})
    BY <1>1
  <2>2. stdin \in Seq(asked) /\ doing \in asked \cup {Nil}
    BY <1>1
  <2>3. events \in 0 .. MaxEvents
    OBVIOUS
  <2> QED
    BY <2>1, <2>2, <2>3 DEF Pipe!TypeOK
<1>3. pipe = <<>> /\ DOMAIN pipe = {} /\ Len(pipe) = 0
  BY <1>1
<1>4. \A thread \in Pipe!Threads : lines[thread] = <<>>
  OBVIOUS
<1>5. OpenLine
  BY <1>1, <1>3, <1>4 DEF OpenLine
<1>6. Handshake
  <2>1. background # "scans"
    OBVIOUS
  <2>2. \A thread \in Pipe!Threads : 1 .. Len(lines[thread]) = {}
    BY <1>1, <1>4
  <2> QED
    BY <2>1, <2>2 DEF Handshake
<1>7. Silent
  BY <1>4 DEF Silent, Pipe!Threads
<1> QED
  BY <1>2, <1>3, <1>5, <1>6, <1>7 DEF PipeInv, Pipe!LinesAreWhole, Pipe!HandshakeIsFirst, Pipe!AnsweredIsWritten, Pipe!LastLineIsWhole

\* What is on the pipe stays well written when nobody writes, whatever else a step does.
LEMMA PipeKeeps ==
  ASSUME PipeInv, UNCHANGED <<plugin, lines, lock, pipe, answered>>
  PROVE  /\ OpenLine' /\ Pipe!LinesAreWhole' /\ Pipe!HandshakeIsFirst' /\ Pipe!AnsweredIsWritten'
         /\ \A line : Pipe!Whole(line)' <=> Pipe!Whole(line)
  BY DEF PipeInv, OpenLine, Pipe!Writers, Pipe!LinesAreWhole, Pipe!HandshakeIsFirst,
         Pipe!AnsweredIsWritten, Pipe!Whole

\* A thread has one more line to write.
LEMMA Says ==
  ASSUME PipeInv, NEW t \in Pipe!Threads, NEW line \in Pipe!Lines,
         lines' = [lines EXCEPT ![t] = Append(lines[t], line)],
         UNCHANGED <<plugin, lock, pipe, answered>>
  PROVE  /\ lines' \in [Pipe!Threads -> Seq(Pipe!Lines)]
         /\ \A u \in Pipe!Threads : u # t => lines'[u] = lines[u]
         /\ Len(lines'[t]) = Len(lines[t]) + 1 /\ lines'[t][Len(lines[t]) + 1] = line
         /\ \A i \in 1 .. Len(lines[t]) : lines'[t][i] = lines[t][i]
         /\ OpenLine' /\ Pipe!LinesAreWhole' /\ Pipe!HandshakeIsFirst' /\ Pipe!AnsweredIsWritten'
         /\ \A other : Pipe!Whole(other)' <=> Pipe!Whole(other)
<1> DEFINE longer == Append(lines[t], line)
<1>1. lines \in [Pipe!Threads -> Seq(Pipe!Lines)]
  BY DEF PipeInv, Pipe!TypeOK
<1>2. /\ longer \in Seq(Pipe!Lines) /\ Len(longer) = Len(lines[t]) + 1
      /\ longer[Len(lines[t]) + 1] = line
      /\ \A i \in 1 .. Len(lines[t]) : longer[i] = lines[t][i]
  BY <1>1, AppendProperties
<1>3. lines[t] # <<>> => Head(longer) = Head(lines[t]) /\ longer # <<>>
  <2>1. Len(lines[t]) \in Nat /\ (lines[t] = <<>> <=> Len(lines[t]) = 0)
    BY LinesOf DEF PipeInv
  <2> SUFFICES ASSUME lines[t] # <<>> PROVE Head(longer) = Head(lines[t]) /\ longer # <<>>
    OBVIOUS
  <2>2. longer # <<>> /\ 1 \in 1 .. Len(lines[t])
    BY <1>2, <2>1, EmptySeq
  <2> QED
    BY <1>1, <1>2, <2>2, HeadTailProperties
<1>4. lines'[t] = longer /\ \A u \in Pipe!Threads : u # t => lines'[u] = lines[u]
  BY <1>1
<1> HIDE DEF longer
<1>5. lines' \in [Pipe!Threads -> Seq(Pipe!Lines)]
  BY <1>1, <1>2, <1>4
<1>6. OpenLine'
  BY <1>3, <1>4 DEF PipeInv, OpenLine, Pipe!Writers
<1>7. Pipe!LinesAreWhole' /\ Pipe!HandshakeIsFirst' /\ Pipe!AnsweredIsWritten'
      /\ \A other : Pipe!Whole(other)' <=> Pipe!Whole(other)
  BY DEF PipeInv, Pipe!LinesAreWhole, Pipe!HandshakeIsFirst, Pipe!AnsweredIsWritten, Pipe!Whole
<1> QED
  BY <1>2, <1>4, <1>5, <1>6, <1>7

\* The supervisor's steps.
LEMMA SupervisorStep ==
  ASSUME Pipe!PluginsAssumption, PipeInv,
         Pipe!SendInitialize \/ Pipe!SendInitialized \/ Pipe!SendCall \/ Pipe!SendEnd \/ Pipe!Kill
  PROVE  PipeInv'
<1>1. UNCHANGED <<plugin, doing, initialized, stopping, background, lines, lock, pipe, events, answered>>
  BY DEF Pipe!SendInitialize, Pipe!SendInitialized, Pipe!SendCall, Pipe!SendEnd, Pipe!Kill, Pipe!SendFrame
<1>2. OpenLine' /\ Pipe!LinesAreWhole' /\ Pipe!HandshakeIsFirst' /\ Pipe!AnsweredIsWritten'
      /\ Silent'
  BY <1>1, PipeKeeps DEF PipeInv, Silent
<1>3. ASSUME NEW frame, Pipe!SendFrame(frame), frame \in [method : Pipe!Methods, id : 0 .. MaxCalls],
             frame.method = "initialized" => Pipe!Whole(Pipe!Answer(0, TRUE))
      PROVE  PipeInv'
  <2>1. asked' = asked \cup {frame} /\ stdin' = Append(stdin, frame) /\ ended' = ended
    BY <1>3 DEF Pipe!SendFrame
  <2>2. stdin' \in Seq(asked')
    <3>1. stdin \in Seq(asked')
      BY <2>1, SeqMonotonic DEF PipeInv, Pipe!TypeOK
    <3> QED
      BY <2>1, <3>1, AppendProperties
  <2>3. Pipe!TypeOK'
    BY <1>1, <1>3, <2>1, <2>2 DEF PipeInv, Pipe!TypeOK
  <2>4. Handshake'
    BY <1>1, <1>3, <2>1 DEF PipeInv, Handshake, Pipe!Whole
  <2>5. Pipe!LastLineIsWhole'
    BY <1>1, <2>1 DEF PipeInv, Pipe!LastLineIsWhole
  <2> QED
    BY <1>2, <2>3, <2>4, <2>5 DEF PipeInv
<1>a. \A method \in Pipe!Methods, id \in 0 .. MaxCalls :
        /\ Pipe!Frame(method, id) \in [method : Pipe!Methods, id : 0 .. MaxCalls]
        /\ Pipe!Frame(method, id).method = method
  BY DEF Pipe!Frame
<1>b. /\ {"initialize", "mismatch", "initialized", "action.invoke", "unknown", "noise", "shutdown", "eof"}
           = Pipe!Methods
      /\ 0 \in 0 .. MaxCalls
  BY DEF Pipe!Methods, Pipe!PluginsAssumption
<1>4. CASE Pipe!SendInitialize
  <2>1. PICK method \in {"initialize", "mismatch"} : Pipe!SendFrame(Pipe!Frame(method, 0))
    BY <1>4 DEF Pipe!SendInitialize
  <2>2. method \in Pipe!Methods /\ method # "initialized"
    BY <1>b
  <2> QED
    BY <1>3, <1>a, <1>b, <2>1, <2>2
<1>5. CASE Pipe!SendInitialized
  <2>1. Pipe!SendFrame(Pipe!Frame("initialized", 0)) /\ Pipe!Whole(Pipe!Answer(0, TRUE))
    BY <1>5 DEF Pipe!SendInitialized
  <2> QED
    BY <1>3, <1>a, <1>b, <2>1
<1>6. CASE Pipe!SendCall
  <2>1. PICK id \in 1 .. MaxCalls, method \in {"action.invoke", "unknown", "noise"} :
          Pipe!SendFrame(Pipe!Frame(method, id))
    BY <1>6 DEF Pipe!SendCall, Pipe!Calls
  <2>2. id \in 0 .. MaxCalls
    OBVIOUS
  <2>3. method \in Pipe!Methods /\ method # "initialized"
    BY <1>b
  <2> QED
    BY <1>3, <1>a, <2>1, <2>2, <2>3
<1>7. CASE Pipe!SendEnd
  <2>1. PICK method \in {"shutdown", "eof"} : Pipe!SendFrame(Pipe!Frame(method, 0))
    BY <1>7 DEF Pipe!SendEnd
  <2>2. method \in Pipe!Methods /\ method # "initialized"
    BY <1>b
  <2> QED
    BY <1>3, <1>a, <1>b, <2>1, <2>2
<1>8. CASE Pipe!Kill
  <2>1. asked' = asked /\ stdin' = stdin /\ ended' = "killed"
    BY <1>8 DEF Pipe!Kill
  <2>2. Pipe!TypeOK'
    BY <1>1, <2>1 DEF PipeInv, Pipe!TypeOK
  <2>3. Handshake' /\ Pipe!LastLineIsWhole'
    BY <1>1, <2>1 DEF PipeInv, Handshake, Pipe!Whole, Pipe!LastLineIsWhole
  <2> QED
    BY <1>2, <2>2, <2>3 DEF PipeInv
<1> QED
  BY <1>4, <1>5, <1>6, <1>7, <1>8

\* The main thread's.
LEMMA MainStep ==
  ASSUME Pipe!PluginsAssumption, PipeInv, Pipe!ReadLine \/ Pipe!Handle \/ Pipe!Return
  PROVE  PipeInv'
<1> USE DEF PipeInv
<1>1. CASE Pipe!ReadLine
  <2>1. /\ UNCHANGED <<plugin, asked, initialized, stopping, background, lines, lock, pipe, events, answered, ended>>
        /\ ~stopping /\ lines["main"] = <<>> /\ stdin # <<>>
        /\ doing' = Head(stdin) /\ stdin' = Tail(stdin)
    BY <1>1 DEF Pipe!ReadLine
  <2>2. Head(stdin) \in asked /\ Tail(stdin) \in Seq(asked)
    BY <2>1, HeadTailProperties DEF Pipe!TypeOK
  <2>3. Pipe!TypeOK'
    BY <2>1, <2>2 DEF Pipe!TypeOK
  <2>4. Handshake' /\ Silent' /\ Pipe!LastLineIsWhole'
    BY <2>1 DEF Handshake, Silent, Pipe!LastLineIsWhole, Pipe!Whole
  <2> QED
    BY <2>1, <2>3, <2>4, PipeKeeps
<1>2. CASE Pipe!Return
  <2>1. /\ UNCHANGED <<plugin, stdin, asked, doing, initialized, stopping, background, lines, lock, pipe, events, answered>>
        /\ stopping /\ background \in {"none", "ended"} /\ ended' = "itself"
    BY <1>2 DEF Pipe!Return, Pipe!Joined
  <2>2. Pipe!TypeOK'
    BY <2>1 DEF Pipe!TypeOK
  <2>3. Handshake' /\ Silent'
    BY <2>1 DEF Handshake, Silent, Pipe!Whole
  <2>4. Pipe!LastLineIsWhole'
    <3> SUFFICES ASSUME Pipe!Traits[plugin].joins
                 PROVE  lock = Nil /\ \A thread \in Pipe!Threads : lines[thread] = <<>>
      BY <2>1 DEF Pipe!LastLineIsWhole
    <3>1. ~Pipe!Traits[plugin].queued
      BY JoinersWrite DEF Pipe!TypeOK
    <3>2. \A thread \in Pipe!Threads : lines[thread] = <<>>
      BY <2>1, <3>1 DEF Silent, Pipe!Threads
    <3>3. lock = Nil
      BY <3>2 DEF OpenLine, Pipe!TypeOK
    <3> QED
      BY <3>2, <3>3
  <2> QED
    BY <2>1, <2>2, <2>3, <2>4, PipeKeeps
<1>3. CASE Pipe!Handle
  <2>1. /\ UNCHANGED <<plugin, stdin, asked, background, lock, pipe, events, answered>>
        /\ ended = "no" /\ doing # Nil /\ doing' = Nil /\ doing \in asked /\ lines["main"] = <<>> /\ ~stopping
    BY <1>3 DEF Pipe!Handle, Pipe!Running, Pipe!TypeOK, Silent
  <2>2. doing.method \in Pipe!Methods /\ doing.id \in 0 .. MaxCalls
    BY <2>1 DEF Pipe!TypeOK
  <2>3. ASSUME NEW line \in Pipe!Lines, line.kind = "answer", Pipe!Say(line),
               UNCHANGED <<initialized, stopping, ended>>
        PROVE  PipeInv'
    <3>1. "main" \in Pipe!Threads
      BY DEF Pipe!Threads
    <3>2. lines' = [lines EXCEPT !["main"] = Append(lines["main"], line)]
      BY <2>3 DEF Pipe!Say
    <3>3. /\ lines' \in [Pipe!Threads -> Seq(Pipe!Lines)]
          /\ \A u \in Pipe!Threads : u # "main" => lines'[u] = lines[u]
          /\ Len(lines'["main"]) = Len(lines["main"]) + 1
          /\ lines'["main"][Len(lines["main"]) + 1] = line
          /\ \A i \in 1 .. Len(lines["main"]) : lines'["main"][i] = lines["main"][i]
          /\ OpenLine' /\ Pipe!LinesAreWhole' /\ Pipe!HandshakeIsFirst' /\ Pipe!AnsweredIsWritten'
          /\ \A other : Pipe!Whole(other)' <=> Pipe!Whole(other)
      BY <2>1, <3>1, <3>2, Says
    <3>4. Pipe!TypeOK'
      BY <2>1, <2>3, <3>3 DEF Pipe!TypeOK
    <3>5. Handshake'
      <4> SUFFICES ASSUME NEW thread \in Pipe!Threads, NEW i \in 1 .. Len(lines'[thread]),
                          lines'[thread][i].kind = "event"
                   PROVE  initialized
        BY <2>1, <2>3, <3>3 DEF Handshake
      <4>1. CASE thread # "main"
        BY <3>3, <4>1 DEF Handshake
      <4>2. CASE thread = "main"
        <5>1. Len(lines["main"]) \in Nat
          BY <3>1, LinesOf
        <5>2. i \in 1 .. Len(lines["main"])
          BY <2>3, <3>3, <4>2, <5>1
        <5> QED
          BY <3>1, <3>3, <4>2, <5>2 DEF Handshake
      <4> QED
        BY <4>1, <4>2
    <3>6. Silent' /\ Pipe!LastLineIsWhole'
      BY <2>1, <2>3, <3>3 DEF Silent, Pipe!LastLineIsWhole, Pipe!Threads
    <3> QED
      BY <3>3, <3>4, <3>5, <3>6
  <2>4. CASE Pipe!Initialize
    <3>1. \A ok \in BOOLEAN : Pipe!Answer(0, ok) \in Pipe!Lines /\ Pipe!Answer(0, ok).kind = "answer"
      BY DEF Pipe!Answer, Pipe!Lines, Pipe!PluginsAssumption
    <3> QED
      BY <2>3, <2>4, <3>1 DEF Pipe!Initialize
  <2>5. CASE Pipe!Invoke
    <3>1. \A ok \in BOOLEAN : Pipe!Answer(doing.id, ok) \in Pipe!Lines /\ Pipe!Answer(doing.id, ok).kind = "answer"
      BY <2>2 DEF Pipe!Answer, Pipe!Lines
    <3>2. PICK ok \in BOOLEAN : Pipe!Say(Pipe!Answer(doing.id, ok))
      BY <2>5 DEF Pipe!Invoke
    <3> QED
      BY <2>3, <2>5, <3>1, <3>2 DEF Pipe!Invoke
  <2>6. CASE Pipe!Initialized \/ Pipe!SkipLine \/ Pipe!Stop
    <3>1. lines' = lines /\ initialized' \in BOOLEAN /\ stopping' \in BOOLEAN
          /\ (initialized' => initialized \/ doing.method = "initialized") /\ (initialized => initialized')
      <4>1. initialized \in BOOLEAN /\ stopping \in BOOLEAN
        BY DEF Pipe!TypeOK
      <4>2. CASE Pipe!Initialized
        BY <4>1, <4>2 DEF Pipe!Initialized
      <4>3. CASE Pipe!SkipLine
        BY <4>1, <4>3 DEF Pipe!SkipLine
      <4>4. CASE Pipe!Stop
        BY <4>1, <4>4 DEF Pipe!Stop
      <4> QED
        BY <2>6, <4>2, <4>3, <4>4
    <3>2. ended' \in {"no", "itself"} /\ (Pipe!Traits[plugin].joins => ended' = ended)
      BY <2>1, <2>6 DEF Pipe!Initialized, Pipe!SkipLine, Pipe!Stop
    <3>3. Pipe!TypeOK'
      BY <2>1, <3>1, <3>2 DEF Pipe!TypeOK
    <3>4. Handshake'
      BY <2>1, <3>1 DEF Handshake, Pipe!Whole
    <3>5. Silent' /\ Pipe!LastLineIsWhole'
      BY <2>1, <3>1, <3>2 DEF Silent, Pipe!LastLineIsWhole
    <3> QED
      BY <2>1, <3>1, <3>3, <3>4, <3>5, PipeKeeps
  <2> QED
    BY <1>3, <2>4, <2>5, <2>6 DEF Pipe!Handle
<1> QED
  BY <1>1, <1>2, <1>3

\* Those of the thread in the background.
LEMMA BackgroundStep ==
  ASSUME Pipe!PluginsAssumption, PipeInv, Pipe!Scan \/ Pipe!Publish \/ Pipe!WatcherStops
  PROVE  PipeInv'
<1> USE DEF PipeInv
<1>1. CASE Pipe!Scan \/ Pipe!WatcherStops
  <2>1. /\ UNCHANGED <<plugin, stdin, asked, doing, initialized, stopping, lines, lock, pipe, events, answered, ended>>
        /\ background' \in {"scans", "ended"} /\ lines["background"] = <<>>
        /\ (background' = "scans" => initialized /\ events < MaxEvents)
    BY <1>1 DEF Pipe!Scan, Pipe!WatcherStops, Pipe!MayScan
  <2>2. Pipe!TypeOK'
    BY <2>1 DEF Pipe!TypeOK
  <2>3. Handshake' /\ Silent' /\ Pipe!LastLineIsWhole'
    BY <2>1 DEF Handshake, Silent, Pipe!LastLineIsWhole, Pipe!Whole
  <2> QED
    BY <2>1, <2>2, <2>3, PipeKeeps
<1>2. CASE Pipe!Publish
  <2> DEFINE line == Pipe!Event(events + 1)
  <2>1. /\ UNCHANGED <<plugin, stdin, asked, doing, initialized, stopping, lock, pipe, answered, ended>>
        /\ ended = "no" /\ background = "scans" /\ background' = "waits" /\ events' = events + 1
        /\ lines' = [lines EXCEPT !["background"] = Append(lines["background"], line)]
    BY <1>2 DEF Pipe!Publish, Pipe!Running
  <2>2. events + 1 \in 1 .. MaxEvents /\ initialized
    BY <2>1 DEF Handshake, Pipe!TypeOK, Pipe!PluginsAssumption
  <2>3. line \in Pipe!Lines /\ "background" \in Pipe!Threads
    <3>1. line \in {Pipe!Event(n) : n \in 1 .. MaxEvents}
      BY <2>2
    <3>2. {Pipe!Event(n) : n \in 1 .. MaxEvents} \subseteq Pipe!Lines
      BY DEF Pipe!Lines
    <3> QED
      BY <3>1, <3>2 DEF Pipe!Threads
  <2> HIDE DEF line
  <2>4. /\ lines' \in [Pipe!Threads -> Seq(Pipe!Lines)]
        /\ \A u \in Pipe!Threads : u # "background" => lines'[u] = lines[u]
        /\ OpenLine' /\ Pipe!LinesAreWhole' /\ Pipe!HandshakeIsFirst' /\ Pipe!AnsweredIsWritten'
        /\ \A other : Pipe!Whole(other)' <=> Pipe!Whole(other)
    BY <2>1, <2>3, Says
  <2>5. Pipe!TypeOK'
    BY <2>1, <2>2, <2>4 DEF Pipe!TypeOK
  <2>6. Handshake'
    BY <2>1, <2>2, <2>4 DEF Handshake
  <2>7. Silent' /\ Pipe!LastLineIsWhole'
    BY <2>1, <2>4 DEF Silent, Pipe!LastLineIsWhole, Pipe!Threads
  <2> QED
    BY <2>4, <2>5, <2>6, <2>7
<1> QED
  BY <1>1, <1>2

\* The first line a thread has to write; an event is first only once the handshake is over.
LEMMA FirstLine ==
  ASSUME PipeInv, NEW t \in Pipe!Threads, lines[t] # <<>>
  PROVE  /\ Head(lines[t]) \in Pipe!Lines
         /\ Tail(lines[t]) \in Seq(Pipe!Lines) /\ Len(lines[t]) \in Nat
         /\ Len(Tail(lines[t])) = Len(lines[t]) - 1
         /\ \A i \in 1 .. Len(Tail(lines[t])) : Tail(lines[t])[i] = lines[t][i + 1]
         /\ Head(lines[t]).kind = "event" => initialized
<1>1. lines[t] \in Seq(Pipe!Lines) /\ Len(lines[t]) \in Nat /\ Len(lines[t]) # 0
  BY LinesOf DEF PipeInv
<1>2. /\ Head(lines[t]) \in Pipe!Lines /\ Head(lines[t]) = lines[t][1]
      /\ Tail(lines[t]) \in Seq(Pipe!Lines)
      /\ Len(Tail(lines[t])) = Len(lines[t]) - 1
      /\ \A i \in 1 .. Len(Tail(lines[t])) : Tail(lines[t])[i] = lines[t][i + 1]
  BY <1>1, HeadTailProperties
<1>3. 1 \in 1 .. Len(lines[t])
  BY <1>1
<1>4. lines[t][1].kind = "event" => initialized
  BY <1>3 DEF PipeInv, Handshake
<1> QED
  BY <1>1, <1>2, <1>4

\* A line goes into the channel.
LEMMA QueueStep ==
  ASSUME Pipe!PluginsAssumption, PipeInv, NEW t \in Pipe!Threads, Pipe!Queue(t)
  PROVE  PipeInv'
<1> USE DEF PipeInv
<1> DEFINE line == Head(lines[t])
           longer == Append(lines["writer"], line)
<1>1. /\ UNCHANGED <<plugin, stdin, asked, doing, initialized, stopping, background, lock, pipe, events, ended>>
      /\ ended = "no" /\ t \notin Pipe!Writers /\ t # "writer" /\ lines[t] # <<>>
      /\ lines' = [lines EXCEPT ![t] = Tail(lines[t]), !["writer"] = longer]
      /\ answered' \in {answered, answered \cup {line}}
  BY DEF Pipe!Queue, Pipe!Running, Pipe!Returned
<1>2. lines \in [Pipe!Threads -> Seq(Pipe!Lines)] /\ "writer" \in Pipe!Threads
  BY DEF Pipe!TypeOK, Pipe!Threads
<1>3. line \in Pipe!Lines /\ Tail(lines[t]) \in Seq(Pipe!Lines) /\ Len(Tail(lines[t])) = Len(lines[t]) - 1
      /\ \A i \in 1 .. Len(Tail(lines[t])) : Tail(lines[t])[i] = lines[t][i + 1]
  BY <1>1, <1>2, HeadTailProperties
<1>a. line.kind = "event" => initialized
  BY <1>1, FirstLine
<1> HIDE DEF line
<1>4. /\ longer \in Seq(Pipe!Lines) /\ Len(longer) = Len(lines["writer"]) + 1
      /\ longer[Len(lines["writer"]) + 1] = line
      /\ \A i \in 1 .. Len(lines["writer"]) : longer[i] = lines["writer"][i]
  BY <1>2, <1>3, AppendProperties
<1> HIDE DEF longer
<1>5. /\ lines'[t] = Tail(lines[t]) /\ lines'["writer"] = longer
      /\ \A u \in Pipe!Threads : u \notin {t, "writer"} => lines'[u] = lines[u]
      /\ lines' \in [Pipe!Threads -> Seq(Pipe!Lines)]
  BY <1>1, <1>2, <1>3, <1>4
<1>6. Pipe!Traits[plugin].queued
  BY <1>1, JoinersWrite DEF Pipe!TypeOK, Pipe!Threads
<1>7. Pipe!TypeOK'
  BY <1>1, <1>3, <1>5 DEF Pipe!TypeOK
<1>8. Len(lines[t]) \in Nat /\ Len(lines["writer"]) \in Nat /\ Len(lines[t]) > 0
  BY <1>1, <1>2, LinesOf
<1>9. OpenLine'
  <2>1. \A u \in Pipe!Threads : lock = u => u = "writer"
    BY <1>6, JoinersWrite DEF OpenLine, Pipe!TypeOK
  <2>2. ASSUME lines["writer"] # <<>> PROVE longer # <<>> /\ Head(longer) = Head(lines["writer"])
    <3>1. Len(lines["writer"]) > 0
      BY <1>2, <2>2, LinesOf
    <3>2. longer # <<>>
      BY <1>4, <1>8, EmptySeq
    <3> QED
      BY <1>2, <1>4, <1>8, <2>2, <3>1, <3>2, HeadTailProperties
  <2> QED
    BY <1>1, <1>2, <1>5, <2>1, <2>2 DEF OpenLine, Pipe!Writers
<1>10. Handshake'
  <2>1. \A thread \in Pipe!Threads : \A i \in 1 .. Len(lines'[thread]) :
          lines'[thread][i].kind = "event" => initialized
    <3> SUFFICES ASSUME NEW thread \in Pipe!Threads, NEW i \in 1 .. Len(lines'[thread]),
                        lines'[thread][i].kind = "event"
                 PROVE  initialized
      OBVIOUS
    <3>1. CASE thread = t
      <4>1. i + 1 \in 1 .. Len(lines[t]) /\ lines'[t][i] = lines[t][i + 1]
        BY <1>3, <1>5, <1>8, <3>1
      <4> QED
        BY <3>1, <4>1 DEF Handshake
    <3>2. CASE thread = "writer"
      <4>1. CASE i \in 1 .. Len(lines["writer"])
        BY <1>2, <1>4, <1>5, <3>2, <4>1 DEF Handshake
      <4>2. CASE i = Len(lines["writer"]) + 1
        <5>1. lines'["writer"][i] = line
          BY <1>4, <1>5, <4>2
        <5>2. line.kind = "event"
          BY <3>2, <5>1
        <5> QED
          BY <1>a, <5>2
      <4> QED
        BY <1>4, <1>5, <1>8, <3>2, <4>1, <4>2
    <3>3. CASE thread \notin {t, "writer"}
      BY <1>5, <3>3 DEF Handshake
    <3> QED
      BY <3>1, <3>2, <3>3
  <2> QED
    BY <1>1, <2>1 DEF Handshake, Pipe!Whole
<1>11. Silent'
  BY <1>1, <1>5, <1>6 DEF Silent, Pipe!Threads
<1>12. Pipe!LinesAreWhole' /\ Pipe!HandshakeIsFirst'
  BY <1>1 DEF Pipe!LinesAreWhole, Pipe!HandshakeIsFirst
<1>13. Pipe!AnsweredIsWritten' /\ Pipe!LastLineIsWhole'
  BY <1>1, <1>6 DEF Pipe!AnsweredIsWritten, Pipe!LastLineIsWhole
<1> QED
  BY <1>7, <1>9, <1>10, <1>11, <1>12, <1>13

\* The end of the line that answers `initialize'.
Welcome == <<Pipe!Answer(0, TRUE), "end">>

\* Whatever is an event on the pipe has it before it.
LEMMA WelcomeFirst ==
  /\ Pipe!HandshakeIsFirst <=>
       \A i \in DOMAIN pipe : pipe[i][1].kind = "event" => \E j \in 1 .. i - 1 : pipe[j] = Welcome
  /\ Pipe!HandshakeIsFirst' <=>
       \A i \in DOMAIN pipe' : pipe'[i][1].kind = "event" => \E j \in 1 .. i - 1 : pipe'[j] = Welcome
  /\ PipeInv /\ initialized => \E j \in DOMAIN pipe : pipe[j] = Welcome
<1>1. Welcome' = Welcome
  BY DEF Welcome, Pipe!Answer
<1> QED
  BY <1>1 DEF Pipe!HandshakeIsFirst, PipeInv, Handshake, Pipe!Whole, Welcome

\* The pipe with one half of a line more.
LEMMA PipeGrows ==
  ASSUME Pipe!TypeOK, NEW half \in Pipe!Lines \X {"start", "end"}, pipe' = Append(pipe, half)
  PROVE  /\ Len(pipe) \in Nat /\ DOMAIN pipe = 1 .. Len(pipe)
         /\ pipe' \in Seq(Pipe!Lines \X {"start", "end"})
         /\ Len(pipe') = Len(pipe) + 1 /\ DOMAIN pipe' = 1 .. Len(pipe) + 1
         /\ \A i \in 1 .. Len(pipe) : pipe'[i] = pipe[i]
         /\ pipe'[Len(pipe) + 1] = half
         /\ \A line : Pipe!Whole(line) => Pipe!Whole(line)'
<1>1. pipe \in Seq(Pipe!Lines \X {"start", "end"})
  BY DEF Pipe!TypeOK
<1>2. Len(pipe) \in Nat /\ DOMAIN pipe = 1 .. Len(pipe)
  BY <1>1, LenProperties
<1>3. /\ pipe' \in Seq(Pipe!Lines \X {"start", "end"}) /\ Len(pipe') = Len(pipe) + 1
      /\ \A i \in 1 .. Len(pipe) : pipe'[i] = pipe[i]
      /\ pipe'[Len(pipe) + 1] = half
  BY <1>1, AppendProperties
<1>4. DOMAIN pipe' = 1 .. Len(pipe) + 1
  BY <1>3, LenProperties
<1>5. ASSUME NEW line, Pipe!Whole(line) PROVE Pipe!Whole(line)'
  <2>1. PICK i \in 1 .. Len(pipe) : pipe[i] = <<line, "end">>
    BY <1>2, <1>5 DEF Pipe!Whole
  <2>2. i \in DOMAIN pipe' /\ pipe'[i] = <<line, "end">>
    BY <1>2, <1>3, <1>4, <2>1
  <2> QED
    BY <2>2 DEF Pipe!Whole
<1> QED
  BY <1>2, <1>3, <1>4, <1>5

\* A thread takes the lock and begins a line.
LEMMA StartLineStep ==
  ASSUME Pipe!PluginsAssumption, PipeInv, NEW t \in Pipe!Threads, Pipe!StartLine(t)
  PROVE  PipeInv'
<1> DEFINE line == Head(lines[t])
           half == <<line, "start">>
           n == Len(pipe)
<1>1. /\ UNCHANGED <<plugin, stdin, asked, doing, initialized, stopping, background, lines, events, answered, ended>>
      /\ ended = "no" /\ t \in Pipe!Writers /\ lines[t] # <<>>
      /\ lock = Nil /\ lock' = t /\ pipe' = Append(pipe, half)
  BY DEF Pipe!StartLine, Pipe!Running, Pipe!Free
<1>2. line \in Pipe!Lines /\ (line.kind = "event" => initialized)
  BY <1>1, FirstLine
<1>3. half \in Pipe!Lines \X {"start", "end"} /\ half[1] = line /\ half[2] = "start"
  BY <1>2
<1> HIDE DEF half
<1>4. /\ n \in Nat /\ DOMAIN pipe = 1 .. n
      /\ pipe' \in Seq(Pipe!Lines \X {"start", "end"})
      /\ Len(pipe') = n + 1 /\ DOMAIN pipe' = 1 .. n + 1
      /\ \A i \in 1 .. n : pipe'[i] = pipe[i]
      /\ pipe'[n + 1] = half
      /\ \A other : Pipe!Whole(other) => Pipe!Whole(other)'
  BY <1>1, <1>3, PipeGrows DEF PipeInv
<1> HIDE DEF n
<1>5. t # Nil /\ (n > 0 => pipe[n][2] = "end")
  BY <1>1 DEF PipeInv, OpenLine, Pipe!PluginsAssumption, n
<1>6. Pipe!TypeOK'
  BY <1>1, <1>4 DEF PipeInv, Pipe!TypeOK
<1>7. OpenLine'
  <2>1. Len(pipe') > 0 /\ pipe'[Len(pipe')] = <<Head(lines[t]), "start">>
    BY <1>4 DEF half
  <2> QED
    BY <1>1, <1>5, <2>1 DEF OpenLine, Pipe!Writers
<1>8. Handshake' /\ Silent'
  BY <1>1, <1>4 DEF PipeInv, Handshake, Silent
<1>9. Pipe!LinesAreWhole'
  <2> SUFFICES ASSUME NEW i \in 1 .. n + 1
               PROVE  /\ pipe'[i][2] = "end"   => i > 1 /\ pipe'[i - 1] = <<pipe'[i][1], "start">>
                      /\ pipe'[i][2] = "start" => i = n + 1 \/ pipe'[i + 1] = <<pipe'[i][1], "end">>
    BY <1>4 DEF Pipe!LinesAreWhole
  <2>1. CASE i = n + 1
    BY <1>3, <1>4, <2>1
  <2>2. CASE i \in 1 .. n
    <3>1. /\ pipe[i][2] = "end"   => i > 1 /\ pipe[i - 1] = <<pipe[i][1], "start">>
          /\ pipe[i][2] = "start" => i = n \/ pipe[i + 1] = <<pipe[i][1], "end">>
      BY <1>4, <2>2 DEF PipeInv, Pipe!LinesAreWhole, n
    <3>2. i = n => pipe[i][2] = "end"
      BY <1>4, <1>5, <2>2
    <3>3. i > 1 => pipe'[i - 1] = pipe[i - 1]
      BY <1>4, <2>2
    <3>4. i # n => pipe'[i + 1] = pipe[i + 1]
      BY <1>4, <2>2
    <3>5. pipe'[i] = pipe[i]
      BY <1>4, <2>2
    <3> QED
      BY <3>1, <3>2, <3>3, <3>4, <3>5
  <2> QED
    BY <1>4, <2>1, <2>2
<1>10. Pipe!HandshakeIsFirst'
  <2> SUFFICES ASSUME NEW i \in 1 .. n + 1, pipe'[i][1].kind = "event"
               PROVE  \E j \in 1 .. i - 1 : pipe'[j] = Welcome
    BY <1>4, WelcomeFirst
  <2>1. \E j \in 1 .. i - 1 : j \in 1 .. n /\ pipe[j] = Welcome
    <3>1. CASE i = n + 1
      <4>1. initialized
        BY <1>2, <1>3, <1>4, <3>1
      <4>2. PICK j \in 1 .. n : pipe[j] = Welcome
        BY <1>4, <4>1, WelcomeFirst
      <4> QED
        BY <1>4, <3>1, <4>2
    <3>2. CASE i \in 1 .. n
      <4>1. pipe[i][1].kind = "event"
        BY <1>4, <3>2
      <4>2. PICK j \in 1 .. i - 1 : pipe[j] = Welcome
        BY <1>4, <3>2, <4>1, WelcomeFirst DEF PipeInv
      <4>3. j \in 1 .. n
        BY <1>4, <3>2
      <4> QED
        BY <4>2, <4>3
    <3> QED
      BY <1>4, <3>1, <3>2
  <2>2. PICK j \in 1 .. i - 1 : j \in 1 .. n /\ pipe[j] = Welcome
    BY <2>1
  <2>3. pipe'[j] = Welcome
    BY <1>4, <2>2
  <2> QED
    BY <2>3
<1>11. Pipe!AnsweredIsWritten' /\ Pipe!LastLineIsWhole'
  BY <1>1, <1>4 DEF PipeInv, Pipe!AnsweredIsWritten, Pipe!LastLineIsWhole
<1> QED
  BY <1>6, <1>7, <1>8, <1>9, <1>10, <1>11 DEF PipeInv

\* It ends the line and gives the lock back.
LEMMA EndLineStep ==
  ASSUME Pipe!PluginsAssumption, PipeInv, NEW t \in Pipe!Threads, Pipe!EndLine(t)
  PROVE  PipeInv'
<1> DEFINE line == Head(lines[t])
           half == <<line, "end">>
           n == Len(pipe)
<1>1. /\ UNCHANGED <<plugin, stdin, asked, doing, initialized, stopping, background, events, ended>>
      /\ ended = "no" /\ lock = t /\ lines[t] # <<>>
      /\ lock' = Nil /\ pipe' = Append(pipe, half)
      /\ lines' = [lines EXCEPT ![t] = Tail(lines[t])]
      /\ answered' \in {answered, answered \cup {line}}
  BY DEF Pipe!EndLine, Pipe!Running, Pipe!Returned
<1>2. /\ line \in Pipe!Lines /\ (line.kind = "event" => initialized)
      /\ Tail(lines[t]) \in Seq(Pipe!Lines) /\ Len(lines[t]) \in Nat
      /\ Len(Tail(lines[t])) = Len(lines[t]) - 1
      /\ \A i \in 1 .. Len(Tail(lines[t])) : Tail(lines[t])[i] = lines[t][i + 1]
  BY <1>1, FirstLine
<1>3. half \in Pipe!Lines \X {"start", "end"} /\ half[1] = line /\ half[2] = "end"
  BY <1>2
<1>4. /\ n \in Nat /\ DOMAIN pipe = 1 .. n
      /\ pipe' \in Seq(Pipe!Lines \X {"start", "end"})
      /\ Len(pipe') = n + 1 /\ DOMAIN pipe' = 1 .. n + 1
      /\ \A i \in 1 .. n : pipe'[i] = pipe[i]
      /\ pipe'[n + 1] = half
      /\ \A other : Pipe!Whole(other) => Pipe!Whole(other)'
  BY <1>1, <1>3, PipeGrows DEF PipeInv
<1>5. n > 0 /\ pipe[n] = <<line, "start">> /\ t \in Pipe!Writers
  BY <1>1 DEF PipeInv, OpenLine
<1> HIDE DEF n
<1>6. /\ lines'[t] = Tail(lines[t]) /\ \A u \in Pipe!Threads : u # t => lines'[u] = lines[u]
      /\ lines' \in [Pipe!Threads -> Seq(Pipe!Lines)]
  BY <1>1, <1>2 DEF PipeInv, Pipe!TypeOK
<1>7. \E i \in DOMAIN pipe' : pipe'[i] = <<line, "end">>
  BY <1>4
<1> HIDE DEF half, line
<1>8. Pipe!TypeOK'
  BY <1>1, <1>2, <1>4, <1>6 DEF PipeInv, Pipe!TypeOK
<1>9. OpenLine'
  BY <1>1, <1>3, <1>4 DEF OpenLine, Pipe!PluginsAssumption
<1>10. Handshake'
  <2>1. \A thread \in Pipe!Threads : \A i \in 1 .. Len(lines'[thread]) :
          lines'[thread][i].kind = "event" => initialized
    <3> SUFFICES ASSUME NEW thread \in Pipe!Threads, NEW i \in 1 .. Len(lines'[thread]),
                        lines'[thread][i].kind = "event"
                 PROVE  initialized
      OBVIOUS
    <3>1. CASE thread = t
      <4>1. i + 1 \in 1 .. Len(lines[t]) /\ lines'[t][i] = lines[t][i + 1]
        BY <1>2, <1>6, <3>1
      <4> QED
        BY <3>1, <4>1 DEF PipeInv, Handshake
    <3>2. CASE thread # t
      BY <1>6, <3>2 DEF PipeInv, Handshake
    <3> QED
      BY <3>1, <3>2
  <2> QED
    BY <1>1, <1>4, <2>1 DEF PipeInv, Handshake
<1>11. Silent'
  <2>1. \A u \in Pipe!Threads : lines[u] = <<>> => lines'[u] = <<>>
    BY <1>1, <1>6
  <2> QED
    BY <1>1, <2>1 DEF PipeInv, Silent, Pipe!Threads
<1>12. Pipe!LinesAreWhole'
  <2> SUFFICES ASSUME NEW i \in 1 .. n + 1
               PROVE  /\ pipe'[i][2] = "end"   => i > 1 /\ pipe'[i - 1] = <<pipe'[i][1], "start">>
                      /\ pipe'[i][2] = "start" => i = n + 1 \/ pipe'[i + 1] = <<pipe'[i][1], "end">>
    BY <1>4 DEF Pipe!LinesAreWhole
  <2>1. CASE i = n + 1
    <3>1. i > 1 /\ i - 1 = n /\ n \in 1 .. n
      BY <1>4, <1>5, <2>1
    <3>2. pipe'[i - 1] = <<line, "start">>
      BY <1>4, <1>5, <3>1
    <3> QED
      BY <1>3, <1>4, <2>1, <3>1, <3>2
  <2>2. CASE i \in 1 .. n
    <3>1. /\ pipe[i][2] = "end"   => i > 1 /\ pipe[i - 1] = <<pipe[i][1], "start">>
          /\ pipe[i][2] = "start" => i = n \/ pipe[i + 1] = <<pipe[i][1], "end">>
      BY <1>4, <2>2 DEF PipeInv, Pipe!LinesAreWhole, n
    <3>2. i = n => pipe[i] = <<line, "start">> /\ pipe'[i + 1] = <<line, "end">>
      BY <1>4, <1>5, <2>2 DEF half
    <3>3. i > 1 => pipe'[i - 1] = pipe[i - 1]
      BY <1>4, <2>2
    <3>4. i # n => pipe'[i + 1] = pipe[i + 1]
      BY <1>4, <2>2
    <3>5. pipe'[i] = pipe[i]
      BY <1>4, <2>2
    <3> QED
      BY <3>1, <3>2, <3>3, <3>4, <3>5
  <2> QED
    BY <1>4, <2>1, <2>2
<1>13. Pipe!HandshakeIsFirst'
  <2> SUFFICES ASSUME NEW i \in 1 .. n + 1, pipe'[i][1].kind = "event"
               PROVE  \E j \in 1 .. i - 1 : pipe'[j] = Welcome
    BY <1>4, WelcomeFirst
  <2>1. PICK k \in 1 .. n : k <= i /\ pipe[k][1].kind = "event"
    <3>1. CASE i = n + 1
      <4>1. pipe[n][1] = line /\ n \in 1 .. n
        BY <1>4, <1>5
      <4>2. line.kind = "event"
        BY <1>3, <1>4, <3>1
      <4> QED
        BY <1>4, <3>1, <4>1, <4>2
    <3>2. CASE i \in 1 .. n
      BY <1>4, <3>2
    <3> QED
      BY <1>4, <3>1, <3>2
  <2>2. PICK j \in 1 .. k - 1 : pipe[j] = Welcome
    BY <1>4, <2>1, WelcomeFirst DEF PipeInv
  <2>3. j \in 1 .. i - 1 /\ j \in 1 .. n
    BY <1>4, <2>1
  <2>4. pipe'[j] = Welcome
    BY <1>4, <2>2, <2>3
  <2> QED
    BY <2>3, <2>4
<1>14. Pipe!AnsweredIsWritten'
  BY <1>1, <1>4, <1>7 DEF PipeInv, Pipe!AnsweredIsWritten, Pipe!Whole
<1>15. Pipe!LastLineIsWhole'
  BY <1>1 DEF Pipe!LastLineIsWhole
<1> QED
  BY <1>8, <1>9, <1>10, <1>11, <1>12, <1>13, <1>14, <1>15 DEF PipeInv

LEMMA PipeNext == Pipe!PluginsAssumption /\ PipeInv /\ [Pipe!Next]_(Pipe!vars) => PipeInv'
<1> SUFFICES ASSUME Pipe!PluginsAssumption, PipeInv, [Pipe!Next]_(Pipe!vars) PROVE PipeInv'
  OBVIOUS
<1>1. CASE UNCHANGED Pipe!vars
  <2>1. UNCHANGED <<plugin, stdin, asked, doing, initialized, stopping, background, lines, lock, pipe,
                    events, answered, ended>>
    BY <1>1 DEF Pipe!vars
  <2>2. Pipe!TypeOK'
    BY <2>1 DEF PipeInv, Pipe!TypeOK
  <2>3. Handshake' /\ Silent' /\ Pipe!LastLineIsWhole'
    BY <2>1 DEF PipeInv, Handshake, Silent, Pipe!LastLineIsWhole, Pipe!Whole
  <2> QED
    BY <2>1, <2>2, <2>3, PipeKeeps DEF PipeInv
<1>2. CASE Pipe!Next
  BY <1>2, SupervisorStep, MainStep, BackgroundStep, QueueStep, StartLineStep, EndLineStep DEF Pipe!Next
<1> QED
  BY <1>1, <1>2

PipeKept == part = "pipe" => PipeInv

\* Whatever writes, in whatever order and however the process ends: a plugin's lines are whole,
\* no event is ahead of the handshake, an answered request of a plugin that writes itself is on
\* the pipe, and nothing is left when a plugin that joins ends.
THEOREM LinesKeepOrder == Spec => []PipesKeepOrder
<1>1. Init => PipeKept
  BY PipeInit, PluginsAssumption DEF Init, PipeKept, PluginsAssumption
<1>2. PipeKept /\ [Next]_vars => PipeKept'
  BY Parts, PipeNext, PluginsAssumption DEF PipeKept, PluginsAssumption
<1>3. PipeKept => PipesKeepOrder
  BY DEF PipeKept, PipesKeepOrder, PipeInv
<1> QED
  BY <1>1, <1>2, <1>3, PTL DEF Spec

-----------------------------------------------------------------------------
(* Counting what a sequence holds *)

Places(e, s) == {i \in DOMAIN s : s[i] = e}

LEMMA PlacesAreCounted ==
  ASSUME NEW S, NEW s \in Seq(S), NEW e
  PROVE  /\ IsFiniteSet(Places(e, s)) /\ Cardinality(Places(e, s)) \in Nat
         /\ s = <<>> => Cardinality(Places(e, s)) = 0
<1>1. Len(s) \in Nat /\ DOMAIN s = 1 .. Len(s)
  BY LenProperties
<1>2. IsFiniteSet(1 .. Len(s)) /\ Places(e, s) \subseteq 1 .. Len(s)
  BY <1>1, FS_Interval DEF Places
<1>3. IsFiniteSet(Places(e, s))
  BY <1>2, FS_Subset
<1>4. s = <<>> => Places(e, s) = {}
  BY <1>1 DEF Places
<1> QED
  BY <1>3, <1>4, FS_CardinalityType, FS_EmptySet

LEMMA AppendCounts ==
  ASSUME NEW S, NEW s \in Seq(S), NEW x \in S, NEW e
  PROVE  Cardinality(Places(e, Append(s, x))) =
           IF x = e THEN Cardinality(Places(e, s)) + 1 ELSE Cardinality(Places(e, s))
<1>1. Len(s) \in Nat /\ DOMAIN s = 1 .. Len(s)
  BY LenProperties
<1>2. /\ Append(s, x) \in Seq(S) /\ Len(Append(s, x)) = Len(s) + 1
      /\ \A i \in 1 .. Len(s) : Append(s, x)[i] = s[i]
      /\ Append(s, x)[Len(s) + 1] = x
  BY AppendProperties
<1>3. DOMAIN Append(s, x) = 1 .. Len(s) + 1
  BY <1>2, LenProperties
<1> DEFINE t == Append(s, x)
<1> HIDE DEF t
<1>4. IsFiniteSet(Places(e, s))
  BY PlacesAreCounted
<1>5. CASE x = e
  <2>1. Places(e, t) = Places(e, s) \cup {Len(s) + 1}
    BY <1>1, <1>2, <1>3, <1>5 DEF Places, t
  <2>2. Len(s) + 1 \notin Places(e, s)
    BY <1>1 DEF Places
  <2> QED
    BY <1>4, <1>5, <2>1, <2>2, FS_AddElement DEF t
<1>6. CASE x # e
  <2>1. Places(e, t) = Places(e, s)
    BY <1>1, <1>2, <1>3, <1>6 DEF Places, t
  <2> QED
    BY <1>6, <2>1 DEF t
<1> QED
  BY <1>5, <1>6

LEMMA TailCounts ==
  ASSUME NEW S, NEW s \in Seq(S), s # <<>>, NEW e
  PROVE  Cardinality(Places(e, Tail(s))) <=
           IF Head(s) = e THEN Cardinality(Places(e, s)) - 1 ELSE Cardinality(Places(e, s))
<1>1. Len(s) \in Nat /\ Len(s) > 0 /\ DOMAIN s = 1 .. Len(s)
  BY LenProperties, EmptySeq
<1>2. /\ Tail(s) \in Seq(S) /\ Len(Tail(s)) = Len(s) - 1
      /\ \A i \in 1 .. Len(Tail(s)) : Tail(s)[i] = s[i + 1]
      /\ Head(s) = s[1]
  BY HeadTailProperties
<1>3. DOMAIN Tail(s) = 1 .. Len(s) - 1
  BY <1>2, LenProperties
<1> DEFINE t == Tail(s)
           rest == Places(e, s) \ {1}
           f == [i \in Places(e, t) |-> i + 1]
<1>4. \A i \in Places(e, t) : i \in Nat /\ i + 1 \in rest
  BY <1>1, <1>2, <1>3 DEF Places
<1>5. f \in Injection(Places(e, t), rest)
  <2>1. f \in [Places(e, t) -> rest]
    BY <1>4
  <2>2. \A i, j \in Places(e, t) : f[i] = f[j] => i = j
    BY <1>4
  <2> QED
    BY <2>1, <2>2 DEF Injection, IsInjective
<1>6. IsFiniteSet(Places(e, s)) /\ Cardinality(Places(e, s)) \in Nat
  BY PlacesAreCounted
<1>7. /\ IsFiniteSet(rest)
      /\ Cardinality(rest) = IF 1 \in Places(e, s) THEN Cardinality(Places(e, s)) - 1 ELSE Cardinality(Places(e, s))
  BY <1>6, FS_RemoveElement
<1>8. 1 \in Places(e, s) <=> Head(s) = e
  BY <1>1, <1>2 DEF Places
<1> HIDE DEF f, rest
<1>9. Cardinality(Places(e, t)) <= Cardinality(rest)
  BY <1>5, <1>7, FS_Injection
<1> QED
  BY <1>7, <1>8, <1>9

-----------------------------------------------------------------------------
(* SlackPlugin *)

content == v1
env == v2
stored == v3
slackLoop == v4
knows == v5
slackBackoff == v6
envelopes == v7
slackLink == v8
sent == v9
confirmed == v10
handling == v11
raw == v12
filtered == v13
acks == v14
killed == v15
drops == v16

USE DEF content, env, stored, slackLoop, knows, slackBackoff, envelopes, slackLink, sent,
        confirmed, handling, raw, filtered, acks, killed, drops

\* An envelope is handled while the loop publishes, from its acknowledgement on.
Publishing == {"raw", "filter"}
Handled ==
  /\ slackLoop \in Publishing => handling \in Envelopes
  /\ slackLoop \notin Publishing => handling = Nil
  /\ slackLoop = "filter" => Slack!Class(handling)

\* The acknowledgement of the envelope in hand for which nothing is published yet, and
\* the one for which not everything is.
Unpublished(e) == IF handling = e /\ slackLoop = "raw" THEN 1 ELSE 0
Open(e) == IF handling = e THEN 1 ELSE 0

\* What is published of an envelope, against its acknowledgements and the deaths of the
\* plugin that came between the two.
Tally(e) ==
  /\ raw[e] + Unpublished(e) <= acks[e] /\ acks[e] <= raw[e] + killed[e] + Unpublished(e)
  /\ filtered[e] + Open(e) <= raw[e] + Unpublished(e)
  /\ content[e] \in {"message", "reaction"} => acks[e] <= filtered[e] + killed[e] + Open(e)
  /\ content[e] = "other" => filtered[e] = 0

\* Nothing is acknowledged that was not sent, and nothing twice that was sent once.
Sendings == \A e \in Envelopes : acks[e] + Cardinality(Places(e, envelopes)) <= sent[e]

SlackInv ==
  /\ Slack!TypeOK /\ Handled /\ Sendings
  /\ \A e \in Envelopes : Tally(e)

LEMMA SlackInit == Slack!SlackAssumption /\ Slack!Init => SlackInv
<1> SUFFICES ASSUME Slack!SlackAssumption, Slack!Init PROVE SlackInv
  OBVIOUS
<1> USE DEF Slack!Init, Slack!SlackAssumption, Slack!Zero
<1>1. <<>> \in Seq(Envelopes)
  BY EmptySeq
<1>2. Slack!TypeOK
  <2>1. sent \in [Envelopes -> 0 .. MaxSends] /\ raw = sent /\ filtered = sent /\ acks = sent
        /\ killed \in [Envelopes -> Nat]
    OBVIOUS
  <2>2. drops \in 0 .. MaxDrops /\ slackBackoff \in 1 .. SlackBackoff
    OBVIOUS
  <2>3. envelopes \in Seq(Envelopes) /\ confirmed \subseteq Envelopes /\ handling \in Envelopes \cup {Nil}
    BY <1>1
  <2> QED
    BY <2>1, <2>2, <2>3 DEF Slack!TypeOK
<1>3. Handled
  BY DEF Handled, Publishing
<1>4. Sendings
  <2>1. \A e \in Envelopes : Cardinality(Places(e, <<>>)) = 0
    BY <1>1, PlacesAreCounted
  <2> QED
    BY <2>1 DEF Sendings
<1>5. \A e \in Envelopes : Tally(e)
  BY DEF Tally, Unpublished, Open
<1> QED
  BY <1>2, <1>3, <1>4, <1>5 DEF SlackInv

\* The steps that neither acknowledge nor publish nor touch what is on the way.
LEMMA SlackKeeps ==
  ASSUME Slack!SlackAssumption, SlackInv,
         UNCHANGED <<content, env, sent, confirmed, handling, raw, filtered, acks, killed>>,
         stored' \in BOOLEAN, slackBackoff' \in 1 .. SlackBackoff,
         \/ UNCHANGED <<slackLoop, knows>>
         \/ /\ slackLoop \notin Publishing /\ knows' \in BOOLEAN
            /\ slackLoop' \in {"credentials", "connect", "read", "sleep", "gone"},
         envelopes' \in {envelopes, <<>>}, slackLink' \in {"up", "closed", "dead"}, drops' \in 0 .. MaxDrops
  PROVE  SlackInv'
<1>1. <<>> \in Seq(Envelopes)
  BY EmptySeq
<1>2. Slack!TypeOK'
  BY <1>1 DEF SlackInv, Slack!TypeOK
<1>3. Handled' /\ \A e \in Envelopes : Unpublished(e)' = Unpublished(e) /\ Open(e)' = Open(e)
  BY DEF SlackInv, Handled, Publishing, Slack!Class, Slack!SlackAssumption, Unpublished, Open
<1>4. Sendings'
  <2> SUFFICES ASSUME NEW e \in Envelopes
               PROVE  acks[e] + Cardinality(Places(e, envelopes')) <= sent[e]
    BY DEF Sendings
  <2>1. acks[e] \in Nat /\ sent[e] \in Nat /\ acks[e] + Cardinality(Places(e, envelopes)) <= sent[e]
    BY DEF SlackInv, Sendings, Slack!TypeOK, Slack!SlackAssumption
  <2>2. Cardinality(Places(e, <<>>)) = 0 /\ Cardinality(Places(e, envelopes)) \in Nat
    BY <1>1, PlacesAreCounted DEF SlackInv, Slack!TypeOK
  <2>3. envelopes' = envelopes \/ envelopes' = <<>>
    OBVIOUS
  <2> QED
    BY <2>1, <2>2, <2>3
<1>5. \A e \in Envelopes : Tally(e)'
  BY <1>3 DEF SlackInv, Tally
<1> QED
  BY <1>2, <1>3, <1>4, <1>5 DEF SlackInv

\* What is published or forgotten of the envelope in hand.
LEMMA SlackPublishes ==
  ASSUME Slack!SlackAssumption, SlackInv, Slack!PublishRaw \/ Slack!PublishFiltered \/ Slack!Kill
  PROVE  SlackInv'
<1> USE DEF Slack!config, Slack!slack, Slack!published
<1> DEFINE e == handling
<1>t. /\ raw \in [Envelopes -> 0 .. MaxSends] /\ filtered \in [Envelopes -> 0 .. MaxSends]
      /\ acks \in [Envelopes -> 0 .. MaxSends] /\ killed \in [Envelopes -> Nat]
      /\ sent \in [Envelopes -> 0 .. MaxSends] /\ handling \in Envelopes \cup {Nil}
      /\ MaxSends \in Nat /\ MaxDrops \in Nat /\ Nil \notin Envelopes
  BY DEF SlackInv, Slack!TypeOK, Slack!SlackAssumption
<1>1. CASE Slack!PublishRaw
  <2>1. /\ UNCHANGED <<content, knows, envelopes, sent, filtered, acks, killed>>
        /\ slackLoop = "raw" /\ raw' = [raw EXCEPT ![e] = raw[e] + 1]
        /\ IF Slack!Class(e) THEN slackLoop' = "filter" /\ handling' = e ELSE slackLoop' = "read" /\ handling' = Nil
    BY <1>1 DEF Slack!PublishRaw
  <2>2. e \in Envelopes /\ Tally(e) /\ Unpublished(e) = 1 /\ Open(e) = 1
    BY <2>1 DEF SlackInv, Handled, Publishing, Unpublished, Open
  <2>3. /\ raw'[e] = raw[e] + 1 /\ raw[e] + 1 \in 0 .. MaxSends
        /\ \A x \in Envelopes : x # e => raw'[x] = raw[x]
    BY <1>t, <2>1, <2>2 DEF Tally
  <2>4. raw' \in [Envelopes -> 0 .. MaxSends]
    BY <1>t, <2>1, <2>3
  <2>5. Slack!TypeOK'
    BY <1>1, <1>t, <2>1, <2>4 DEF SlackInv, Slack!TypeOK, Slack!PublishRaw
  <2>6. Handled' /\ Sendings'
    BY <1>t, <2>1, <2>2 DEF SlackInv, Handled, Publishing, Sendings, Slack!Class
  <2>7. ASSUME NEW x \in Envelopes PROVE Tally(x)'
    <3>1. Tally(x) /\ (x # e => Unpublished(x) = 0 /\ Open(x) = 0)
      BY DEF SlackInv, Unpublished, Open
    <3>2. Unpublished(x)' = 0 /\ Open(x)' = IF x = e /\ Slack!Class(e) THEN 1 ELSE 0
      BY <1>t, <2>1, <2>2 DEF Unpublished, Open
    <3>3. content[e] \in {"message", "reaction"} => Slack!Class(e)
      BY DEF Slack!Class
    <3>4. CASE x = e
      BY <1>t, <2>1, <2>2, <2>3, <3>2, <3>3, <3>4 DEF Tally
    <3>5. CASE x # e
      BY <2>1, <2>3, <3>1, <3>2, <3>5 DEF Tally
    <3> QED
      BY <3>4, <3>5
  <2> QED
    BY <2>5, <2>6, <2>7 DEF SlackInv
<1>2. CASE Slack!PublishFiltered
  <2>1. /\ UNCHANGED <<content, knows, envelopes, sent, raw, acks, killed>>
        /\ slackLoop = "filter" /\ filtered' = [filtered EXCEPT ![e] = filtered[e] + 1]
        /\ handling' = Nil /\ slackLoop' = "read"
    BY <1>2 DEF Slack!PublishFiltered, Slack!PublishedWith
  <2>2. e \in Envelopes /\ Tally(e) /\ Slack!Class(e) /\ Unpublished(e) = 0 /\ Open(e) = 1
    BY <2>1 DEF SlackInv, Handled, Publishing, Unpublished, Open
  <2>3. /\ filtered'[e] = filtered[e] + 1 /\ filtered[e] + 1 \in 0 .. MaxSends
        /\ \A x \in Envelopes : x # e => filtered'[x] = filtered[x]
    BY <1>t, <2>1, <2>2 DEF Tally
  <2>4. filtered' \in [Envelopes -> 0 .. MaxSends]
    BY <1>t, <2>1, <2>3
  <2>5. Slack!TypeOK'
    BY <1>2, <1>t, <2>1, <2>4 DEF SlackInv, Slack!TypeOK, Slack!PublishFiltered
  <2>6. Handled' /\ Sendings'
    BY <2>1 DEF SlackInv, Handled, Publishing, Sendings
  <2>7. ASSUME NEW x \in Envelopes PROVE Tally(x)'
    <3>1. Tally(x) /\ (x # e => Unpublished(x) = 0 /\ Open(x) = 0)
      BY DEF SlackInv, Unpublished, Open
    <3>2. Unpublished(x)' = 0 /\ Open(x)' = 0
      BY <1>t, <2>1 DEF Unpublished, Open
    <3>3. content[e] # "other"
      BY <2>2 DEF Slack!Class
    <3>4. CASE x = e
      BY <1>t, <2>1, <2>2, <2>3, <3>2, <3>3, <3>4 DEF Tally
    <3>5. CASE x # e
      BY <2>1, <2>3, <3>1, <3>2, <3>5 DEF Tally
    <3> QED
      BY <3>4, <3>5
  <2> QED
    BY <2>5, <2>6, <2>7 DEF SlackInv
<1>3. CASE Slack!Kill
  <2>1. /\ UNCHANGED <<content, env, stored, knows, sent, confirmed, raw, filtered, acks>>
        /\ slackLoop' = "credentials" /\ slackBackoff' = 1 /\ envelopes' = <<>> /\ slackLink' = "closed"
        /\ handling' = Nil /\ drops < MaxDrops /\ drops' = drops + 1
        /\ killed' = IF e = Nil THEN killed ELSE [killed EXCEPT ![e] = killed[e] + 1]
    BY <1>3 DEF Slack!Kill
  <2>2. /\ killed' \in [Envelopes -> Nat] /\ drops' \in 0 .. MaxDrops /\ 1 \in 1 .. SlackBackoff
        /\ \A x \in Envelopes : killed'[x] = IF x = e THEN killed[x] + 1 ELSE killed[x]
    BY <1>t, <2>1 DEF SlackInv, Slack!TypeOK, Slack!SlackAssumption
  <2>3. <<>> \in Seq(Envelopes) /\ \A x \in Envelopes : Cardinality(Places(x, <<>>)) = 0
    BY EmptySeq, PlacesAreCounted
  <2>4. Slack!TypeOK'
    BY <2>1, <2>2, <2>3 DEF SlackInv, Slack!TypeOK
  <2>5. Handled'
    BY <2>1 DEF Handled, Publishing
  <2>6. Sendings'
    <3> SUFFICES ASSUME NEW x \in Envelopes PROVE acks[x] + 0 <= sent[x]
      BY <2>1, <2>3 DEF Sendings
    <3>1. /\ acks[x] \in Nat /\ sent[x] \in Nat /\ acks[x] + Cardinality(Places(x, envelopes)) <= sent[x]
          /\ Cardinality(Places(x, envelopes)) \in Nat
      BY <1>t, PlacesAreCounted DEF SlackInv, Sendings, Slack!TypeOK
    <3> QED
      BY <3>1
  <2>7. ASSUME NEW x \in Envelopes PROVE Tally(x)'
    <3>1. Tally(x) /\ (x # e => Unpublished(x) = 0 /\ Open(x) = 0) /\ Unpublished(x) \in {0, 1} /\ Open(x) \in {0, 1}
          /\ Unpublished(x) <= Open(x)
      BY DEF SlackInv, Unpublished, Open
    <3>2. Unpublished(x)' = 0 /\ Open(x)' = 0
      BY <1>t, <2>1 DEF Unpublished, Open
    <3>3. /\ raw[x] \in Nat /\ acks[x] \in Nat /\ filtered[x] \in Nat /\ killed[x] \in Nat
          /\ killed'[x] = IF x = e THEN killed[x] + 1 ELSE killed[x]
      BY <1>t, <2>2
    <3>4. CASE x # e
      BY <2>1, <3>1, <3>2, <3>3, <3>4 DEF Tally
    <3>5. CASE x = e
      <4>1. killed'[x] = killed[x] + 1 /\ raw'[x] = raw[x] /\ acks'[x] = acks[x] /\ filtered'[x] = filtered[x]
        BY <2>1, <3>3, <3>5
      <4>2. \A r, a, f, k \in Nat, i, o \in {0, 1} :
              /\ r + i <= a /\ a <= r + k + i /\ f + o <= r + i /\ i <= o =>
                   r + 0 <= a /\ a <= r + (k + 1) + 0 /\ f + 0 <= r + 0
              /\ a <= f + k + o => a <= f + (k + 1) + 0
        OBVIOUS
      <4>3. content'[x] = content[x]
        BY <2>1
      <4> QED
        BY <3>1, <3>2, <3>3, <4>1, <4>2, <4>3 DEF Tally
    <3> QED
      BY <3>4, <3>5
  <2> QED
    BY <2>4, <2>5, <2>6, <2>7 DEF SlackInv
<1> QED
  BY <1>1, <1>2, <1>3

\* An envelope is read and, where its acknowledgement can be sent, taken in hand.
LEMMA SlackReads ==
  ASSUME Slack!SlackAssumption, SlackInv, Slack!ReadEnvelope
  PROVE  SlackInv'
<1> DEFINE e == Head(envelopes)
<1>t. /\ raw \in [Envelopes -> 0 .. MaxSends] /\ filtered \in [Envelopes -> 0 .. MaxSends]
      /\ acks \in [Envelopes -> 0 .. MaxSends] /\ killed \in [Envelopes -> Nat]
      /\ sent \in [Envelopes -> 0 .. MaxSends] /\ handling \in Envelopes \cup {Nil}
      /\ envelopes \in Seq(Envelopes) /\ MaxSends \in Nat /\ Nil \notin Envelopes
  BY DEF SlackInv, Slack!TypeOK, Slack!SlackAssumption
<1>1. /\ UNCHANGED <<content, env, stored, knows, slackBackoff, slackLink, sent, raw, filtered, killed, drops>>
      /\ slackLoop = "read" /\ envelopes # <<>> /\ envelopes' = Tail(envelopes)
      /\ \/ slackLoop' = "sleep" /\ acks' = acks /\ handling' = handling
         \/ acks' = [acks EXCEPT ![e] = acks[e] + 1] /\ handling' = e /\ slackLoop' = "raw"
      /\ confirmed' \in {confirmed, confirmed \cup {e}}
  BY DEF Slack!ReadEnvelope, Slack!Handle, Slack!config
<1>2. e \in Envelopes /\ Tail(envelopes) \in Seq(Envelopes)
  BY <1>t, <1>1, HeadTailProperties
<1>3. handling = Nil
  BY <1>1 DEF SlackInv, Handled, Publishing
<1>4. \A x \in Envelopes :
        /\ Cardinality(Places(x, envelopes)) \in Nat
        /\ Cardinality(Places(x, Tail(envelopes))) \in Nat
        /\ Cardinality(Places(x, Tail(envelopes))) <=
             IF e = x THEN Cardinality(Places(x, envelopes)) - 1 ELSE Cardinality(Places(x, envelopes))
  BY <1>t, <1>1, <1>2, TailCounts, PlacesAreCounted
<1> HIDE DEF e
<1>5. \A x \in Envelopes : acks'[x] \in Nat /\ acks'[x] + Cardinality(Places(x, Tail(envelopes))) <= sent[x]
  <2> SUFFICES ASSUME NEW x \in Envelopes
               PROVE  acks'[x] \in Nat /\ acks'[x] + Cardinality(Places(x, Tail(envelopes))) <= sent[x]
    OBVIOUS
  <2>1. acks'[x] = acks[x] \/ (x = e /\ acks'[x] = acks[x] + 1)
    BY <1>t, <1>1
  <2>2. acks[x] \in Nat /\ sent[x] \in Nat /\ acks[x] + Cardinality(Places(x, envelopes)) <= sent[x]
    BY <1>t DEF SlackInv, Sendings
  <2> QED
    BY <1>4, <2>1, <2>2
<1>6. acks' \in [Envelopes -> 0 .. MaxSends]
  <2>1. \A x \in Envelopes : acks'[x] \in 0 .. MaxSends
    <3> TAKE x \in Envelopes
    <3>1. sent[x] \in Nat /\ sent[x] <= MaxSends
      BY <1>t
    <3> QED
      BY <1>t, <1>4, <1>5, <3>1
  <2>2. acks' \in [Envelopes -> Nat]
    BY <1>t, <1>1, <1>5
  <2> QED
    BY <2>1, <2>2
<1>7. Slack!TypeOK'
  BY <1>1, <1>2, <1>6 DEF SlackInv, Slack!TypeOK
<1>8. Sendings'
  BY <1>1, <1>5 DEF Sendings
<1>9. Handled'
  BY <1>1, <1>2, <1>3 DEF Handled, Publishing
<1>10. ASSUME NEW x \in Envelopes PROVE Tally(x)'
  <2>1. Tally(x) /\ Unpublished(x) = 0 /\ Open(x) = 0
    BY <1>t, <1>3 DEF SlackInv, Unpublished, Open
  <2>2. CASE handling' = Nil
    <3>1. Unpublished(x)' = 0 /\ Open(x)' = 0 /\ acks' = acks
      BY <1>t, <1>1, <1>2, <2>2 DEF Unpublished, Open
    <3> QED
      BY <1>1, <2>1, <3>1 DEF Tally
  <2>3. CASE handling' = e
    <3>1. /\ Unpublished(x)' = (IF x = e THEN 1 ELSE 0) /\ Open(x)' = (IF x = e THEN 1 ELSE 0)
          /\ acks'[x] = IF x = e THEN acks[x] + 1 ELSE acks[x]
      BY <1>t, <1>1, <1>2, <1>3, <2>3 DEF Unpublished, Open
    <3>2. raw[x] \in Nat /\ acks[x] \in Nat /\ filtered[x] \in Nat /\ killed[x] \in Nat
      BY <1>t
    <3> QED
      BY <1>1, <2>1, <3>1, <3>2 DEF Tally
  <2> QED
    BY <1>1, <1>3, <2>2, <2>3
<1> QED
  BY <1>7, <1>8, <1>9, <1>10 DEF SlackInv

LEMMA SlackNext == Slack!SlackAssumption /\ SlackInv /\ [Slack!Next]_(Slack!vars) => SlackInv'
<1> SUFFICES ASSUME Slack!SlackAssumption, SlackInv, [Slack!Next]_(Slack!vars) PROVE SlackInv'
  OBVIOUS
<1> USE DEF Slack!config, Slack!slack, Slack!published, Publishing
<1>t. /\ stored \in BOOLEAN /\ knows \in BOOLEAN /\ slackBackoff \in 1 .. SlackBackoff
      /\ envelopes \in Seq(Envelopes) /\ slackLink \in {"up", "closed", "dead"}
      /\ sent \in [Envelopes -> 0 .. MaxSends] /\ drops \in 0 .. MaxDrops
      /\ acks \in [Envelopes -> 0 .. MaxSends]
  BY DEF SlackInv, Slack!TypeOK
<1>n. /\ MaxSends \in Nat /\ MaxDrops \in Nat /\ SlackBackoff \in Nat /\ SlackBackoff >= 1 /\ Nil \notin Envelopes
  BY DEF Slack!SlackAssumption
<1>1. CASE Slack!Resolve \/ Slack!ReadFails \/ Slack!Auth \/ UNCHANGED Slack!vars
  BY <1>1, <1>t, <1>n, SlackKeeps DEF Slack!Resolve, Slack!Recheck, Slack!ReadFails, Slack!Auth, Slack!vars
<1>2. CASE Slack!Connect \/ Slack!Rotate \/ Slack!Break
  <2>1. drops' \in 0 .. MaxDrops
    <3>1. drops' = drops \/ (drops < MaxDrops /\ drops' = drops + 1)
      BY <1>2 DEF Slack!Connect, Slack!Rotate, Slack!Break
    <3> QED
      BY <1>t, <1>n, <3>1
  <2>2. 1 \in 1 .. SlackBackoff
    BY <1>n
  <2> QED
    BY <1>2, <1>t, <1>n, <2>1, <2>2, SlackKeeps DEF Slack!Connect, Slack!Rotate, Slack!Break
<1>3. CASE Slack!Sleep
  <2>1. slackBackoff' \in 1 .. SlackBackoff
    BY <1>3, <1>t, <1>n DEF Slack!Sleep
  <2> QED
    BY <1>3, <1>t, <1>n, <2>1, SlackKeeps DEF Slack!Sleep
<1>4. ASSUME NEW e \in Envelopes, Slack!Send(e) PROVE SlackInv'
  <2>1. /\ UNCHANGED <<content, env, stored, slackLoop, knows, slackBackoff, slackLink, confirmed, handling, raw, filtered, acks, killed, drops>>
        /\ sent[e] < MaxSends /\ sent' = [sent EXCEPT ![e] = sent[e] + 1]
        /\ envelopes' = Append(envelopes, e)
    BY <1>4 DEF Slack!Send
  <2>2. envelopes' \in Seq(Envelopes)
    BY <1>t, <2>1, AppendProperties
  <2>3. sent' \in [Envelopes -> 0 .. MaxSends]
    BY <1>t, <1>n, <2>1
  <2>4. Slack!TypeOK'
    BY <1>t, <2>1, <2>2, <2>3 DEF SlackInv, Slack!TypeOK
  <2>5. Sendings'
    <3> SUFFICES ASSUME NEW x \in Envelopes
                 PROVE  acks[x] + Cardinality(Places(x, Append(envelopes, e))) <= sent'[x]
      BY <2>1 DEF Sendings
    <3>1. /\ acks[x] \in Nat /\ sent[x] \in Nat
          /\ acks[x] + Cardinality(Places(x, envelopes)) <= sent[x]
      BY <1>t, <1>n DEF SlackInv, Sendings
    <3>2. Cardinality(Places(x, envelopes)) \in Nat
      BY <1>t, PlacesAreCounted
    <3>3. Cardinality(Places(x, Append(envelopes, e))) =
            IF e = x THEN Cardinality(Places(x, envelopes)) + 1 ELSE Cardinality(Places(x, envelopes))
      BY <1>t, AppendCounts
    <3>4. sent'[x] = IF e = x THEN sent[x] + 1 ELSE sent[x]
      BY <1>t, <2>1
    <3> QED
      BY <3>1, <3>2, <3>3, <3>4
  <2>6. Handled' /\ \A x \in Envelopes : Tally(x)'
    BY <2>1 DEF SlackInv, Handled, Slack!Class, Tally, Unpublished, Open
  <2> QED
    BY <2>4, <2>5, <2>6 DEF SlackInv
<1> QED
  BY <1>1, <1>2, <1>3, <1>4, SlackPublishes, SlackReads DEF Slack!Next, Slack!Work

\* What the tallies say of an envelope that is not in hand.
LEMMA SlackPromises ==
  ASSUME Slack!SlackAssumption, SlackInv
  PROVE  Slack!TypeOK /\ Slack!AckedIsPublished
<1>1. ASSUME NEW e \in Envelopes, handling # e
      PROVE  /\ raw[e] <= acks[e] /\ acks[e] <= raw[e] + killed[e]
             /\ content[e] \in {"message", "reaction"} => filtered[e] <= raw[e] /\ acks[e] <= filtered[e] + killed[e]
             /\ content[e] = "other" => filtered[e] = 0
  <2>1. Tally(e) /\ Unpublished(e) = 0 /\ Open(e) = 0
    BY <1>1 DEF SlackInv, Unpublished, Open
  <2>2. raw[e] \in Nat /\ acks[e] \in Nat /\ filtered[e] \in Nat /\ killed[e] \in Nat
    BY DEF SlackInv, Slack!TypeOK, Slack!SlackAssumption
  <2> QED
    BY <2>1, <2>2 DEF Tally
<1> QED
  BY <1>1 DEF SlackInv, Slack!AckedIsPublished

-----------------------------------------------------------------------------
(* TodoPlugin *)

files == v1
writes == v2
partial == v3
step == v4
follower == v5
prev == v6
seen == v7
unseen == v8
held == v9
due == v10
view == v11
completed == v12
finished == v13
todoCrashes == v14
todoFaults == v15

USE DEF files, writes, partial, step, follower, prev, seen, unseen, held, due, view, completed, finished,
        todoCrashes, todoFaults

\* A stamp is the number of the write that made it.
Stamped ==
  \A t \in Todos :
    /\ files[t] # Nil => files[t].stamp <= writes
    /\ prev[t] # Nil => prev[t].stamp <= writes
    /\ seen[t] # Nil => seen[t].stamp <= writes

\* What the watcher holds it has read, in the scan it is at.
Holding == held # Nil => follower \in {"first", "scanning"} /\ held \in Todos /\ seen[held] # Nil

Owed(t) == IF <<t, "completed">> \in due THEN 1 ELSE 0
Told(t) == completed[t] + Owed(t)

\* Each todo.completed, published or due, is paid for by a turn to done of its own: one that
\* came after the scan that saw the todo open.
Paid ==
  \A t \in Todos :
    /\ Told(t) <= finished[t]
    /\ prev[t] # Nil /\ prev[t].status # "done" /\ Todo!IsDone(files[t]) => Told(t) < finished[t]
    /\ follower \in {"first", "scanning"} /\ t \notin unseen /\ seen[t] # Nil =>
         /\ seen[t].status # "done" /\ Todo!IsDone(files[t]) => Told(t) < finished[t]
         /\ follower = "scanning" /\ prev[t] # Nil /\ prev[t].status # "done" /\ seen[t].status = "done" =>
              Told(t) < finished[t]

\* What the follower knows of a todo is what its file holds, unless the file was written since
\* the watcher last looked.
Known(t) ==
  prev[t] # Nil /\ files[t] # Nil /\ files[t].stamp = prev[t].stamp => view[t] = Todo!Content(files[t])

Followed ==
  /\ follower \in {"asleep", "scanning"} => \A t \in Todos : Known(t) /\ (prev[t] = Nil => view[t] = Nil)
  /\ follower = "publishing" => \A t \in Todos :
       /\ Known(t) \/ <<t, "created">> \in due \/ <<t, "changed">> \in due
       /\ prev[t] = Nil => view[t] = Nil \/ <<t, "deleted">> \in due
       /\ prev[t] = Nil => \A d \in due : d[1] = t => d[2] = "deleted"
       /\ prev[t] # Nil => <<t, "deleted">> \notin due
  /\ follower \in {"waiting", "first", "gone"} => \A t \in Todos : view[t] = Nil

TodoInv == Todo!TypeOK /\ Stamped /\ Holding /\ Paid /\ Followed

LEMMA TodoInit == Todo!TodoPluginAssumption /\ Todo!Init => TodoInv
<1> SUFFICES ASSUME Todo!TodoPluginAssumption, Todo!Init PROVE TodoInv
  OBVIOUS
<1> USE DEF Todo!Init, Todo!TodoPluginAssumption, Todo!Nothing
<1>1. Todo!TypeOK
  <2>1. files \in [Todos -> Todo!File \cup {Nil}]
    <3>1. [status : Todo!Statuses, tags : {{}}, stamp : {0}] \subseteq Todo!File
      BY DEF Todo!File
    <3> QED
      BY <3>1
  <2>2. writes \in 0 .. MaxWrites /\ todoCrashes \in 0 .. MaxCrashes /\ todoFaults \in 0 .. TodoFaults
    OBVIOUS
  <2>3. prev \in [Todos -> Todo!Snapshots \cup {Nil}] /\ seen = prev
    OBVIOUS
  <2>4. view \in [Todos -> Todo!Contents \cup {Nil, Todo!Bare}]
    OBVIOUS
  <2>5. completed \in [Todos -> Nat] /\ finished = completed
    OBVIOUS
  <2> QED
    BY <2>1, <2>2, <2>3, <2>4, <2>5 DEF Todo!TypeOK
<1>2. Stamped
  <2>1. \A t \in Todos : files[t] # Nil => files[t].stamp = 0
    OBVIOUS
  <2> QED
    BY <2>1 DEF Stamped
<1>3. Paid
  BY DEF Paid, Told, Owed
<1>4. Followed
  BY DEF Followed
<1>5. Holding
  BY DEF Holding
<1> QED
  BY <1>1, <1>2, <1>3, <1>4, <1>5 DEF TodoInv

\* What the types say, one by one.
LEMMA TodoTypes ==
  ASSUME Todo!TodoPluginAssumption, TodoInv
  PROVE  /\ MaxWrites \in Nat /\ MaxCrashes \in Nat /\ TodoFaults \in Nat
         /\ files \in [Todos -> Todo!File \cup {Nil}] /\ writes \in 0 .. MaxWrites /\ writes \in Nat
         /\ partial \subseteq Todos /\ step \in Todo!Steps \cup {Nil}
         /\ prev \in [Todos -> Todo!Snapshots \cup {Nil}] /\ seen \in [Todos -> Todo!Snapshots \cup {Nil}]
         /\ view \in [Todos -> Todo!Contents \cup {Nil, Todo!Bare}]
         /\ completed \in [Todos -> Nat] /\ finished \in [Todos -> Nat]
         /\ todoCrashes \in 0 .. MaxCrashes /\ todoFaults \in 0 .. TodoFaults
         /\ \A t \in Todos : Told(t) \in Nat
  BY DEF Todo!TodoPluginAssumption, TodoInv, Todo!TypeOK, Told, Owed

\* Whatever leaves the files and the watcher alone.
LEMMA TodoKeeps ==
  ASSUME Todo!TodoPluginAssumption, TodoInv,
         UNCHANGED <<files, writes, finished, follower, prev, seen, unseen, held, due, view, completed>>,
         partial' \subseteq Todos, step' \in Todo!Steps \cup {Nil},
         todoCrashes' = todoCrashes, todoFaults' = todoFaults
  PROVE  TodoInv'
<1>1. Todo!TypeOK'
  BY DEF TodoInv, Todo!TypeOK
<1>2. Stamped' /\ Followed' /\ Holding'
  BY DEF TodoInv, Stamped, Followed, Known, Holding, Todo!Content
<1>3. Paid'
  BY DEF TodoInv, Paid, Told, Owed, Todo!IsDone
<1> QED
  BY <1>1, <1>2, <1>3 DEF TodoInv

\* A file is written.
LEMMA WriteStep ==
  ASSUME Todo!TodoPluginAssumption, TodoInv, NEW t \in Todos, NEW c \in Todo!Contents, Todo!Write(t, c),
         UNCHANGED <<follower, prev, unseen, due, view, completed>>,
         Todo!Unlinked(t) \/ Todo!Restamped(t) \/ UNCHANGED <<seen, held>>,
         partial' \subseteq Todos, step' \in Todo!Steps \cup {Nil},
         todoCrashes' = todoCrashes, todoFaults' = todoFaults
  PROVE  TodoInv'
<1> DEFINE file == [status |-> c.status, tags |-> c.tags, stamp |-> writes + 1]
<1>1. /\ writes < MaxWrites /\ writes' = writes + 1 /\ files' = [files EXCEPT ![t] = file]
      /\ finished' = IF c.status = "done" /\ ~Todo!IsDone(files[t])
                     THEN [finished EXCEPT ![t] = finished[t] + 1] ELSE finished
  BY DEF Todo!Write
<1>t. /\ MaxWrites \in Nat /\ writes \in Nat /\ files \in [Todos -> Todo!File \cup {Nil}]
      /\ finished \in [Todos -> Nat] /\ completed \in [Todos -> Nat]
      /\ prev \in [Todos -> Todo!Snapshots \cup {Nil}] /\ seen \in [Todos -> Todo!Snapshots \cup {Nil}]
      /\ \A u \in Todos : Told(u) \in Nat
  BY TodoTypes
<1>2. writes + 1 \in 0 .. MaxWrites
  BY <1>1, <1>t
<1>3. file \in Todo!File /\ file.status = c.status /\ file.stamp = writes + 1
  BY <1>2 DEF Todo!File, Todo!Contents
<1> HIDE DEF file
<1>4. /\ files'[t] = file /\ \A u \in Todos : u # t => files'[u] = files[u]
      /\ files' \in [Todos -> Todo!File \cup {Nil}]
  BY <1>1, <1>t, <1>3
<1>5. /\ finished' \in [Todos -> Nat]
      /\ \A u \in Todos : finished'[u] = finished[u] \/ finished'[u] = finished[u] + 1
      /\ c.status = "done" /\ ~Todo!IsDone(files[t]) => finished'[t] = finished[t] + 1
  BY <1>1, <1>t
<1>h. held' \in {held, Nil}
  BY DEF Todo!Unlinked, Todo!Restamped
<1>s. /\ seen' \in [Todos -> Todo!Snapshots \cup {Nil}]
      /\ \A u \in Todos : seen'[u] = Nil <=> seen[u] = Nil
      /\ \A u \in Todos : seen[u] # Nil => /\ seen'[u].status = seen[u].status
                                           /\ seen'[u].stamp \in {seen[u].stamp, writes + 1}
  <2>1. CASE seen' = seen
    BY <1>t, <2>1
  <2>2. CASE held = t /\ seen' = [seen EXCEPT ![t].stamp = writes']
    <3>1. t \in Todos /\ t # Nil /\ seen[t] # Nil
      BY <2>2 DEF TodoInv, Holding, Todo!TodoPluginAssumption
    <3>2. seen[t] \in Todo!Snapshots
      BY <1>t, <3>1
    <3> DEFINE new == [seen[t] EXCEPT !.stamp = writes + 1]
    <3>3. new \in Todo!Snapshots /\ new.status = seen[t].status /\ new.stamp = writes + 1
      BY <1>2, <3>2 DEF Todo!Snapshots
    <3>4. new # Nil
      BY <3>3 DEF Todo!TodoPluginAssumption
    <3>5. seen' = [seen EXCEPT ![t] = new]
      BY <1>1, <2>2
    <3> HIDE DEF new
    <3>6. seen'[t] = new /\ \A u \in Todos : u # t => seen'[u] = seen[u]
      BY <1>t, <3>5
    <3>7. seen' \in [Todos -> Todo!Snapshots \cup {Nil}]
      BY <1>t, <3>3, <3>5
    <3> QED
      BY <3>1, <3>3, <3>4, <3>6, <3>7
  <2> QED
    BY <2>1, <2>2 DEF Todo!Unlinked, Todo!Restamped
<1>6. Todo!TypeOK'
  <2>1. held' \in Todos \cup {Nil}
    BY <1>h DEF TodoInv, Todo!TypeOK
  <2> QED
    BY <1>1, <1>2, <1>4, <1>5, <1>s, <2>1 DEF TodoInv, Todo!TypeOK
<1>0. Holding'
  BY <1>h, <1>s DEF TodoInv, Holding
<1>7. Stamped'
  <2> SUFFICES ASSUME NEW u \in Todos
               PROVE  /\ files'[u] # Nil => files'[u].stamp <= writes + 1
                      /\ prev[u] # Nil => prev[u].stamp <= writes + 1
                      /\ seen'[u] # Nil => seen'[u].stamp <= writes + 1
    BY <1>1 DEF Stamped
  <2>1. /\ prev[u] # Nil => prev[u].stamp <= writes /\ prev[u].stamp \in Nat
        /\ seen[u] # Nil => seen[u].stamp <= writes /\ seen[u].stamp \in Nat
    BY <1>t DEF TodoInv, Stamped, Todo!Snapshots
  <2>2. u # t /\ files[u] # Nil => files[u].stamp <= writes /\ files[u].stamp \in Nat
    BY <1>t DEF TodoInv, Stamped, Todo!File
  <2>3. files'[u] # Nil => files'[u].stamp <= writes + 1
    BY <1>t, <1>3, <1>4, <2>2
  <2> QED
    BY <1>t, <1>s, <2>1, <2>3
<1>8. Paid'
  <2>1. \A u \in Todos : Told(u)' = Told(u)
    BY DEF Told, Owed
  <2>2. \A u \in Todos : Todo!IsDone(files'[u]) =>
          \/ Todo!IsDone(files[u]) /\ finished'[u] >= finished[u]
          \/ finished'[u] = finished[u] + 1
    <3> SUFFICES ASSUME NEW u \in Todos, Todo!IsDone(files'[u])
                 PROVE  \/ Todo!IsDone(files[u]) /\ finished'[u] >= finished[u]
                        \/ finished'[u] = finished[u] + 1
      OBVIOUS
    <3>1. finished[u] \in Nat /\ finished'[u] >= finished[u]
      BY <1>5, <1>t
    <3>2. CASE u = t
      BY <1>3, <1>4, <1>5, <3>1, <3>2 DEF Todo!IsDone
    <3>3. CASE u # t
      BY <1>4, <3>1, <3>3
    <3> QED
      BY <3>2, <3>3
  <2>3. \A u \in Todos : finished[u] \in Nat /\ finished'[u] \in Nat /\ finished'[u] >= finished[u] /\ Told(u) <= finished[u]
    BY <1>5, <1>t DEF TodoInv, Paid
  <2>4. \A u \in Todos : finished'[u] = finished[u] + 1 => Told(u) < finished'[u]
    BY <1>t, <2>3
  <2>5. \A u \in Todos : Told(u) < finished[u] => Told(u) < finished'[u]
    BY <1>t, <2>3
  <2>6. \A u \in Todos : Told(u) <= finished'[u]
    BY <1>t, <2>3
  <2> SUFFICES ASSUME NEW u \in Todos
               PROVE  /\ prev[u] # Nil /\ prev[u].status # "done" /\ Todo!IsDone(files'[u]) => Told(u) < finished'[u]
                      /\ follower \in {"first", "scanning"} /\ u \notin unseen /\ seen[u] # Nil =>
                           /\ seen[u].status # "done" /\ Todo!IsDone(files'[u]) => Told(u) < finished'[u]
                           /\ follower = "scanning" /\ prev[u] # Nil /\ prev[u].status # "done" /\ seen[u].status = "done" =>
                                Told(u) < finished'[u]
    <3>1. \A u \in Todos : (seen'[u] = Nil <=> seen[u] = Nil) /\ (seen[u] # Nil => seen'[u].status = seen[u].status)
      BY <1>s
    <3> QED
      BY <2>1, <2>6, <3>1 DEF Paid, Todo!IsDone
  <2> QED
    BY <2>2, <2>4, <2>5 DEF TodoInv, Paid
<1>9. Followed'
  <2>1. \A u \in Todos : Known(u) => Known(u)'
    <3> SUFFICES ASSUME NEW u \in Todos, Known(u), prev[u] # Nil, files'[u] # Nil, files'[u].stamp = prev[u].stamp
                 PROVE  view[u] = Todo!Content(files'[u])
      BY DEF Known, Todo!Content
    <3>1. prev[u].stamp <= writes /\ prev[u].stamp \in Nat
      BY <1>t DEF TodoInv, Stamped, Todo!Snapshots
    <3>2. u # t
      BY <1>3, <1>4, <1>t, <3>1
    <3> QED
      BY <1>4, <3>2 DEF Known
  <2> QED
    BY <2>1 DEF TodoInv, Followed
<1> QED
  BY <1>0, <1>6, <1>7, <1>8, <1>9 DEF TodoInv

\* A file is removed.
LEMMA RemoveStep ==
  ASSUME Todo!TodoPluginAssumption, TodoInv, NEW t \in Todos, Todo!Remove(t)
  PROVE  TodoInv'
<1>1. /\ files' = [files EXCEPT ![t] = Nil] /\ partial' = partial \ {t}
      /\ UNCHANGED <<writes, finished, step, follower, prev, seen, unseen, due, view, completed, todoCrashes, todoFaults>>
      /\ held' \in {held, Nil}
  BY DEF Todo!Remove, Todo!Unlinked, Todo!watched
<1>2. files \in [Todos -> Todo!File \cup {Nil}] /\ partial \subseteq Todos
  BY TodoTypes
<1>3. files'[t] = Nil /\ \A u \in Todos : u # t => files'[u] = files[u]
  BY <1>1, <1>2
<1>4. Todo!TypeOK'
  BY <1>1, <1>2 DEF TodoInv, Todo!TypeOK
<1>5. Stamped' /\ Holding'
  BY <1>1, <1>3 DEF TodoInv, Stamped, Holding
<1>6. Paid'
  BY <1>1, <1>3 DEF TodoInv, Paid, Told, Owed, Todo!IsDone
<1>7. Followed'
  BY <1>1, <1>3 DEF TodoInv, Followed, Known, Todo!Content
<1> QED
  BY <1>4, <1>5, <1>6, <1>7 DEF TodoInv

\* The user's writes and the plugin's own.
LEMMA FilesStep ==
  ASSUME Todo!TodoPluginAssumption, TodoInv,
         \/ \E t \in Todos : Todo!Save(t) \/ Todo!Empty(t) \/ Todo!Fill(t) \/ Todo!Remove(t)
         \/ Todo!Commit
  PROVE  TodoInv'
<1> USE DEF Todo!watched, Todo!disk
<1>t. step \in Todo!Steps \cup {Nil} /\ partial \subseteq Todos
  BY TodoTypes
<1>0. [status |-> "open", tags |-> {}] \in Todo!Contents
  BY DEF Todo!Contents, Todo!Statuses
<1>1. ASSUME NEW t \in Todos, Todo!Save(t) PROVE TodoInv'
  <2>1. PICK c \in Todo!Contents : Todo!Write(t, c)
    BY <1>1 DEF Todo!Save
  <2> QED
    BY <1>1, <1>t, <2>1, WriteStep DEF Todo!Save
<1>2. ASSUME NEW t \in Todos, Todo!Empty(t) PROVE TodoInv'
  BY <1>0, <1>2, <1>t, WriteStep DEF Todo!Empty
<1>3. ASSUME NEW t \in Todos, Todo!Fill(t) PROVE TodoInv'
  <2>1. PICK c \in Todo!Contents : Todo!Write(t, c)
    BY <1>3 DEF Todo!Fill
  <2> QED
    BY <1>3, <1>t, <2>1, WriteStep DEF Todo!Fill
<1>4. CASE Todo!Commit
  <2>1. /\ step # Nil /\ step.does \in {"create", "replace"} /\ step' = Nil
        /\ partial' \in {partial, partial \ {step.todo}}
        /\ UNCHANGED <<follower, prev, unseen, due, view, completed, todoCrashes, todoFaults>>
        /\ IF step.does = "replace" THEN Todo!Unlinked(step.todo) ELSE UNCHANGED <<seen, held>>
    BY <1>4 DEF Todo!Commit
  <2>2. partial' \subseteq Todos /\ step.todo \in Todos /\ (step.does = "replace" => step.with \in Todo!Contents)
    BY <1>t, <2>1 DEF Todo!Steps
  <2>3. CASE step.does = "replace"
    <3>1. Todo!Write(step.todo, step.with)
      BY <1>4, <2>3 DEF Todo!Commit
    <3> QED
      BY <2>1, <2>2, <2>3, <3>1, WriteStep
  <2>4. CASE step.does # "replace" /\ files[step.todo] = Nil
    <3>1. Todo!Write(step.todo, [status |-> "open", tags |-> {}])
      BY <1>4, <2>4 DEF Todo!Commit
    <3> QED
      BY <1>0, <2>1, <2>2, <3>1, WriteStep
  <2>5. CASE step.does # "replace" /\ files[step.todo] # Nil
    <3>1. UNCHANGED <<files, writes, finished>>
      BY <1>4, <2>5 DEF Todo!Commit
    <3> QED
      BY <2>1, <2>2, <2>5, <3>1, TodoKeeps
  <2> QED
    BY <2>3, <2>4, <2>5
<1> QED
  BY <1>1, <1>2, <1>3, <1>4, RemoveStep

\* The first steps of the plugin's actions.
LEMMA ActionsStep ==
  ASSUME Todo!TodoPluginAssumption, TodoInv,
         \/ \E t \in Todos : \/ Todo!Create(t) \/ \E s \in Todo!Statuses : Todo!SetStatus(t, s)
                             \/ \E tags \in SUBSET Todo!AllTags : Todo!Update(t, tags)
                             \/ Todo!RenderLoopPrompt(t)
         \/ Todo!TagLoop
  PROVE  TodoInv'
<1> USE DEF Todo!scanning, Todo!disk
<1>t. files \in [Todos -> Todo!File \cup {Nil}] /\ step \in Todo!Steps \cup {Nil} /\ partial \subseteq Todos
  BY TodoTypes
<1>f. \A t \in Todos : files[t] # Nil => files[t].status \in Todo!Statuses /\ files[t].tags \in SUBSET Todo!AllTags
  BY <1>t DEF Todo!File
<1>1. ASSUME NEW next \in Todo!Steps, Todo!Begin(next) PROVE TodoInv'
  BY <1>1, <1>t, TodoKeeps DEF Todo!Begin
<1>2. ASSUME NEW t \in Todos, NEW status \in Todo!Statuses, NEW tags \in SUBSET Todo!AllTags
      PROVE  [does |-> "replace", todo |-> t, with |-> [status |-> status, tags |-> tags]] \in Todo!Steps
  BY DEF Todo!Steps, Todo!Contents
<1>3. ASSUME NEW t \in Todos, Todo!Create(t) PROVE TodoInv'
  <2>1. [does |-> "create", todo |-> t] \in Todo!Steps
    BY DEF Todo!Steps
  <2> QED
    BY <1>1, <1>3, <2>1 DEF Todo!Create
<1>4. ASSUME NEW t \in Todos, NEW s \in Todo!Statuses, Todo!SetStatus(t, s) PROVE TodoInv'
  BY <1>1, <1>2, <1>4, <1>f DEF Todo!SetStatus
<1>5. ASSUME NEW t \in Todos, NEW tags \in SUBSET Todo!AllTags, Todo!Update(t, tags) PROVE TodoInv'
  BY <1>1, <1>2, <1>5, <1>f DEF Todo!Update
<1>6. ASSUME NEW t \in Todos, Todo!RenderLoopPrompt(t) PROVE TodoInv'
  <2>1. files[t].tags \cup {"loop"} \in SUBSET Todo!AllTags
    BY <1>6, <1>f DEF Todo!RenderLoopPrompt, Todo!AllTags
  <2>2. [does |-> "tag", todo |-> t, tags |-> files[t].tags \cup {"loop"}] \in Todo!Steps
    BY <2>1 DEF Todo!Steps
  <2> QED
    BY <1>1, <1>6, <2>2 DEF Todo!RenderLoopPrompt
<1>7. CASE Todo!TagLoop
  <2>1. step # Nil /\ step.does = "tag"
    BY <1>7 DEF Todo!TagLoop
  <2>2. step.todo \in Todos /\ step.tags \in SUBSET Todo!AllTags
    BY <1>t, <2>1 DEF Todo!Steps
  <2>3. step' \in Todo!Steps \cup {Nil}
    BY <1>2, <1>7, <1>f, <2>2 DEF Todo!TagLoop
  <2> QED
    BY <1>7, <1>t, <2>3, TodoKeeps DEF Todo!TagLoop
<1> QED
  BY <1>3, <1>4, <1>5, <1>6, <1>7

\* A scan: begun, of one file, given up.
LEMMA ScanStep ==
  ASSUME Todo!TodoPluginAssumption, TodoInv,
         \/ Todo!Initialized \/ Todo!Wake \/ Todo!Published \/ Todo!Restart \/ Todo!ScanFails \/ Todo!StatFile
         \/ \E t \in Todos : Todo!ReadFile(t)
         \/ \E skipped \in SUBSET Todos : Todo!ScanSkips(skipped)
  PROVE  TodoInv'
<1> USE DEF Todo!disk, Todo!Nothing
<1>t. /\ files \in [Todos -> Todo!File \cup {Nil}] /\ writes \in Nat
      /\ prev \in [Todos -> Todo!Snapshots \cup {Nil}] /\ seen \in [Todos -> Todo!Snapshots \cup {Nil}]
      /\ todoFaults \in 0 .. TodoFaults /\ TodoFaults \in Nat
  BY TodoTypes
<1>1. CASE Todo!Initialized \/ Todo!Wake
  <2>1. /\ UNCHANGED <<files, writes, partial, finished, step, prev, held, due, view, completed, todoCrashes, todoFaults>>
        /\ unseen' = Todos /\ seen' = [t \in Todos |-> Nil]
        /\ \/ follower = "waiting" /\ follower' = "first"
           \/ follower = "asleep" /\ follower' = "scanning"
    BY <1>1 DEF Todo!Initialized, Todo!Wake
  <2>2. Todo!TypeOK'
    BY <2>1 DEF TodoInv, Todo!TypeOK
  <2>3. Stamped' /\ Followed' /\ Holding'
    BY <2>1 DEF TodoInv, Stamped, Followed, Known, Holding, Todo!Content
  <2>4. Paid'
    BY <2>1 DEF TodoInv, Paid, Told, Owed, Todo!IsDone
  <2> QED
    BY <2>2, <2>3, <2>4 DEF TodoInv
<1>2. CASE Todo!Published \/ Todo!Restart
  <2>1. /\ UNCHANGED <<files, writes, partial, finished, step, prev, seen, unseen, held, due, view, completed, todoCrashes, todoFaults>>
        /\ \/ follower = "publishing" /\ follower' = "asleep" /\ due = {}
           \/ follower = "gone" /\ follower' = "waiting"
    BY <1>2 DEF Todo!Published, Todo!Restart
  <2>2. Todo!TypeOK'
    BY <2>1 DEF TodoInv, Todo!TypeOK
  <2>3. Stamped' /\ Followed' /\ Holding'
    BY <2>1 DEF TodoInv, Stamped, Followed, Known, Holding, Todo!Content
  <2>4. Paid'
    BY <2>1 DEF TodoInv, Paid, Told, Owed, Todo!IsDone
  <2> QED
    BY <2>2, <2>3, <2>4 DEF TodoInv
<1>3. CASE Todo!ScanFails
  <2>1. /\ UNCHANGED <<files, writes, partial, finished, step, seen, held, due, view, completed, todoCrashes>> /\ held = Nil
        /\ follower \in {"first", "scanning"} /\ follower' = "asleep" /\ unseen' = {}
        /\ prev' = IF follower = "first" THEN [t \in Todos |-> Nil] ELSE prev
        /\ todoFaults < TodoFaults /\ todoFaults' = todoFaults + 1
    BY <1>3 DEF Todo!ScanFails, Todo!Scans, Todo!AfterFault
  <2>2. prev' \in [Todos -> Todo!Snapshots \cup {Nil}] /\ todoFaults' \in 0 .. TodoFaults
    BY <1>t, <2>1
  <2>3. Todo!TypeOK'
    BY <2>1, <2>2 DEF TodoInv, Todo!TypeOK
  <2>4. Stamped' /\ Followed' /\ Holding'
    BY <2>1 DEF TodoInv, Stamped, Followed, Known, Holding, Todo!Content
  <2>5. Paid'
    BY <2>1 DEF TodoInv, Paid, Told, Owed, Todo!IsDone
  <2> QED
    BY <2>3, <2>4, <2>5 DEF TodoInv
<1>4. ASSUME NEW t \in Todos, Todo!ReadFile(t) PROVE TodoInv'
  <2> DEFINE look == IF files[t] = Nil THEN Nil ELSE Todo!Snapshot(files[t])
  <2>1. /\ UNCHANGED <<files, writes, partial, finished, step, follower, prev, due, view, completed, todoCrashes, todoFaults>>
        /\ follower \in {"first", "scanning"} /\ t \in unseen /\ unseen' = unseen \ {t}
        /\ seen' = [seen EXCEPT ![t] = look] /\ held' = IF files[t] = Nil THEN Nil ELSE t
    BY <1>4 DEF Todo!ReadFile, Todo!Scans
  <2>2. /\ files[t] = Nil => look = Nil
        /\ files[t] # Nil => look \in Todo!Snapshots /\ look # Nil /\ look.status = files[t].status /\ look.stamp = files[t].stamp
    BY <1>t DEF Todo!Snapshot, Todo!File, Todo!Snapshots, Todo!TodoPluginAssumption
  <2> HIDE DEF look
  <2>3. seen'[t] = look /\ (\A u \in Todos : u # t => seen'[u] = seen[u]) /\ seen' \in [Todos -> Todo!Snapshots \cup {Nil}]
    BY <1>t, <2>1, <2>2
  <2>4. Todo!TypeOK'
    BY <2>1, <2>3 DEF TodoInv, Todo!TypeOK
  <2>5. Stamped' /\ Holding'
    BY <2>1, <2>2, <2>3 DEF TodoInv, Stamped, Holding
  <2>6. Followed'
    BY <2>1 DEF TodoInv, Followed, Known, Todo!Content
  <2>7. Paid'
    <3>1. \A u \in Todos : Told(u)' = Told(u)
      BY <2>1 DEF Told, Owed
    <3>2. \A u \in Todos : u # t => (u \in unseen' <=> u \in unseen)
      BY <2>1
    <3>3. seen'[t] # Nil => (seen'[t].status = "done" <=> Todo!IsDone(files[t]))
      BY <2>2, <2>3 DEF Todo!IsDone
    <3> QED
      BY <2>1, <2>3, <3>1, <3>2, <3>3 DEF TodoInv, Paid, Todo!IsDone
  <2> QED
    BY <2>4, <2>5, <2>6, <2>7 DEF TodoInv
<1>5. CASE Todo!StatFile
  <2>1. /\ UNCHANGED <<files, writes, partial, finished, step, follower, prev, seen, unseen, due, view, completed>>
        /\ UNCHANGED <<todoCrashes, todoFaults>> /\ held' = Nil
    BY <1>5 DEF Todo!StatFile, Todo!Scans
  <2>2. Todo!TypeOK'
    BY <2>1 DEF TodoInv, Todo!TypeOK
  <2>3. Stamped' /\ Followed' /\ Holding'
    BY <2>1 DEF TodoInv, Stamped, Followed, Known, Holding, Todo!Content
  <2>4. Paid'
    BY <2>1 DEF TodoInv, Paid, Told, Owed, Todo!IsDone
  <2> QED
    BY <2>2, <2>3, <2>4 DEF TodoInv
<1>6. ASSUME NEW skipped \in SUBSET Todos, Todo!ScanSkips(skipped) PROVE TodoInv'
  <2>1. /\ UNCHANGED <<files, writes, partial, finished, step, follower, prev, due, view, completed, todoCrashes>>
        /\ held' = Nil /\ unseen' = unseen \ skipped
        /\ seen' = [t \in Todos |-> IF t \in skipped THEN Nil ELSE seen[t]]
        /\ todoFaults < TodoFaults /\ todoFaults' = todoFaults + 1
    BY <1>6 DEF Todo!ScanSkips, Todo!Scans
  <2>2. /\ seen' \in [Todos -> Todo!Snapshots \cup {Nil}] /\ todoFaults' \in 0 .. TodoFaults
        /\ \A t \in Todos : seen'[t] # Nil => t \notin skipped /\ seen'[t] = seen[t]
    BY <1>t, <2>1
  <2>3. Todo!TypeOK'
    BY <2>1, <2>2 DEF TodoInv, Todo!TypeOK
  <2>4. Stamped' /\ Followed' /\ Holding'
    BY <2>1, <2>2 DEF TodoInv, Stamped, Followed, Known, Holding, Todo!Content
  <2>5. Paid'
    <3>1. \A t \in Todos : Told(t)' = Told(t)
      BY <2>1 DEF Told, Owed
    <3>2. \A t \in Todos : seen'[t] # Nil => seen'[t] = seen[t] /\ (t \in unseen' <=> t \in unseen)
      BY <2>1, <2>2
    <3> QED
      BY <2>1, <3>1, <3>2 DEF TodoInv, Paid, Todo!IsDone
  <2> QED
    BY <2>3, <2>4, <2>5 DEF TodoInv
<1> QED
  BY <1>1, <1>2, <1>3, <1>4, <1>5, <1>6

\* The baseline, the comparison of two scans, and what is published of it.
LEMMA BaselineStep ==
  ASSUME Todo!TodoPluginAssumption, TodoInv, Todo!Baseline
  PROVE  TodoInv'
<1> USE DEF Todo!disk
<1>1. /\ UNCHANGED <<files, writes, partial, finished, step, seen, unseen, held, due, completed, todoCrashes, todoFaults>>
      /\ follower = "first" /\ unseen = {} /\ held = Nil /\ follower' = "asleep" /\ prev' = seen
      /\ view' = [t \in Todos |-> IF files[t] = Nil \/ seen[t] = Nil THEN Nil ELSE Todo!Content(files[t])]
  BY DEF Todo!Baseline, Todo!Scanned
<1>t. files \in [Todos -> Todo!File \cup {Nil}] /\ seen \in [Todos -> Todo!Snapshots \cup {Nil}]
  BY TodoTypes
<1>2. \A t \in Todos : files[t] # Nil => Todo!Content(files[t]) \in Todo!Contents
  BY <1>t DEF Todo!Content, Todo!File, Todo!Contents
<1>3. view' \in [Todos -> Todo!Contents \cup {Nil, Todo!Bare}]
  BY <1>1, <1>2
<1>4. Todo!TypeOK'
  BY <1>1, <1>t, <1>3 DEF TodoInv, Todo!TypeOK
<1>5. Stamped' /\ Holding'
  BY <1>1 DEF TodoInv, Stamped, Holding
<1>6. Paid'
  <2>1. \A t \in Todos : Told(t)' = Told(t)
    BY <1>1 DEF Told, Owed
  <2> QED
    BY <1>1, <2>1 DEF TodoInv, Paid, Todo!IsDone
<1>7. Followed'
  <2>1. \A t \in Todos : /\ seen[t] = Nil => view'[t] = Nil
                         /\ seen[t] # Nil /\ files[t] # Nil => view'[t] = Todo!Content(files[t])
    BY <1>1
  <2>2. \A t \in Todos : Known(t)' /\ (prev'[t] = Nil => view'[t] = Nil)
    BY <1>1, <2>1 DEF Known, Todo!Content
  <2> QED
    BY <1>1, <2>2 DEF Followed
<1> QED
  BY <1>4, <1>5, <1>6, <1>7 DEF TodoInv

LEMMA CompareStep ==
  ASSUME Todo!TodoPluginAssumption, TodoInv, Todo!Compare
  PROVE  TodoInv'
<1> USE DEF Todo!disk
<1>1. /\ UNCHANGED <<files, writes, partial, finished, step, seen, unseen, held, view, completed, todoCrashes, todoFaults>>
      /\ follower = "scanning" /\ unseen = {} /\ held = Nil /\ follower' = "publishing" /\ prev' = seen
  BY DEF Todo!Compare, Todo!Scanned
<1>t. /\ files \in [Todos -> Todo!File \cup {Nil}] /\ finished \in [Todos -> Nat] /\ completed \in [Todos -> Nat]
      /\ prev \in [Todos -> Todo!Snapshots \cup {Nil}] /\ seen \in [Todos -> Todo!Snapshots \cup {Nil}]
      /\ \A t \in Todos : Told(t) \in Nat
  BY TodoTypes
<1>2. due' \subseteq Todos \X {"created", "changed", "completed", "deleted"}
  BY DEF Todo!Compare
<1>3. \A t \in Todos :
        /\ <<t, "created">> \in due' <=> prev[t] = Nil /\ seen[t] # Nil
        /\ <<t, "deleted">> \in due' <=> prev[t] # Nil /\ seen[t] = Nil
        /\ <<t, "changed">> \in due' <=> prev[t] # Nil /\ seen[t] # Nil /\ prev[t].stamp # seen[t].stamp
        /\ <<t, "completed">> \in due' =>
             prev[t] # Nil /\ seen[t] # Nil /\ prev[t].status # "done" /\ seen[t].status = "done"
  BY DEF Todo!Compare, Todo!Both, Todo!Changed, Todo!Completes
<1>4. Todo!TypeOK'
  BY <1>1, <1>2, <1>t DEF TodoInv, Todo!TypeOK
<1>5. Stamped' /\ Holding'
  BY <1>1 DEF TodoInv, Stamped, Holding
<1>6. Paid'
  <2> SUFFICES ASSUME NEW t \in Todos
               PROVE  /\ Told(t)' <= finished[t]
                      /\ seen[t] # Nil /\ seen[t].status # "done" /\ Todo!IsDone(files[t]) => Told(t)' < finished[t]
    BY <1>1 DEF Paid, Todo!IsDone
  <2>1. completed[t] \in Nat /\ finished[t] \in Nat /\ Told(t) \in Nat /\ completed[t] <= Told(t) /\ Told(t) <= finished[t]
    BY <1>t DEF TodoInv, Paid, Told, Owed
  <2>2. CASE <<t, "completed">> \in due'
    <3>1. Told(t)' = completed[t] + 1
      BY <1>1, <2>2 DEF Told, Owed
    <3>2. Told(t) < finished[t] /\ seen[t].status = "done"
      BY <1>1, <1>3, <2>2 DEF TodoInv, Paid
    <3> QED
      BY <2>1, <3>1, <3>2
  <2>3. CASE <<t, "completed">> \notin due'
    <3>1. Told(t)' = completed[t]
      BY <1>1, <1>t, <2>3 DEF Told, Owed
    <3>2. seen[t] # Nil /\ seen[t].status # "done" /\ Todo!IsDone(files[t]) => Told(t) < finished[t]
      BY <1>1 DEF TodoInv, Paid
    <3> QED
      BY <2>1, <3>1, <3>2
  <2> QED
    BY <2>2, <2>3
<1>7. Followed'
  <2> SUFFICES ASSUME NEW t \in Todos
               PROVE  /\ Known(t)' \/ <<t, "created">> \in due' \/ <<t, "changed">> \in due'
                      /\ seen[t] = Nil => view[t] = Nil \/ <<t, "deleted">> \in due'
                      /\ seen[t] = Nil => \A d \in due' : d[1] = t => d[2] = "deleted"
                      /\ seen[t] # Nil => <<t, "deleted">> \notin due'
    BY <1>1 DEF Followed
  <2>1. Known(t) /\ (prev[t] = Nil => view[t] = Nil)
    BY <1>1 DEF TodoInv, Followed
  <2>2. Known(t)' \/ <<t, "created">> \in due' \/ <<t, "changed">> \in due'
    BY <1>1, <1>3, <2>1 DEF Known, Todo!Content
  <2>3. seen[t] = Nil => \A d \in due' : d[1] = t => d[2] = "deleted"
    <3> SUFFICES ASSUME seen[t] = Nil, NEW d \in due', d[1] = t PROVE d[2] = "deleted"
      OBVIOUS
    <3>1. d = <<t, d[2]>> /\ d[2] \in {"created", "changed", "completed", "deleted"}
      BY <1>2
    <3> QED
      BY <1>3, <3>1
  <2> QED
    BY <1>3, <2>1, <2>2, <2>3
<1> QED
  BY <1>4, <1>5, <1>6, <1>7 DEF TodoInv

LEMMA PublishStep ==
  ASSUME Todo!TodoPluginAssumption, TodoInv, NEW t \in Todos,
         NEW kind \in {"created", "changed", "completed", "deleted"}, Todo!Publish(t, kind)
  PROVE  TodoInv'
<1> USE DEF Todo!disk
<1>1. /\ UNCHANGED <<files, writes, partial, finished, step, follower, prev, seen, unseen, held, todoCrashes, todoFaults>>
      /\ follower = "publishing" /\ <<t, kind>> \in due
      /\ kind = "completed" => <<t, "changed">> \notin due
      /\ due' = due \ {<<t, kind>>}
      /\ view' = [view EXCEPT ![t] = Todo!Payload(t, kind)]
      /\ completed' = IF kind = "completed" THEN [completed EXCEPT ![t] = completed[t] + 1] ELSE completed
  BY DEF Todo!Publish
<1>t. /\ files \in [Todos -> Todo!File \cup {Nil}] /\ finished \in [Todos -> Nat] /\ completed \in [Todos -> Nat]
      /\ view \in [Todos -> Todo!Contents \cup {Nil, Todo!Bare}]
  BY TodoTypes
<1>2. /\ Todo!Payload(t, kind) \in Todo!Contents \cup {Nil, Todo!Bare}
      /\ kind = "deleted" => Todo!Payload(t, kind) = Nil
      /\ kind # "deleted" /\ files[t] # Nil => Todo!Payload(t, kind) = Todo!Content(files[t])
  BY <1>t DEF Todo!Payload, Todo!Content, Todo!File, Todo!Contents
<1>3. /\ view'[t] = Todo!Payload(t, kind) /\ \A u \in Todos : u # t => view'[u] = view[u]
      /\ view' \in [Todos -> Todo!Contents \cup {Nil, Todo!Bare}]
  BY <1>1, <1>t, <1>2
<1>4. completed' \in [Todos -> Nat]
  BY <1>1, <1>t
<1>5. Todo!TypeOK'
  BY <1>1, <1>3, <1>4 DEF TodoInv, Todo!TypeOK
<1>6. Stamped' /\ Holding'
  BY <1>1 DEF TodoInv, Stamped, Holding
<1>7. Paid'
  <2>1. \A u \in Todos : Told(u)' = Told(u)
    <3> TAKE u \in Todos
    <3>1. CASE u = t /\ kind = "completed"
      <4>1. <<t, "completed">> \in due /\ <<t, "completed">> \notin due' /\ completed'[t] = completed[t] + 1 /\ completed[t] \in Nat
        BY <1>1, <1>t, <3>1
      <4> QED
        BY <3>1, <4>1 DEF Told, Owed
    <3>2. CASE ~(u = t /\ kind = "completed")
      <4>1. <<u, "completed">> \in due' <=> <<u, "completed">> \in due
        BY <1>1, <3>2
      <4>2. completed'[u] = completed[u]
        BY <1>1, <1>t, <3>2
      <4> QED
        BY <4>1, <4>2 DEF Told, Owed
    <3> QED
      BY <3>1, <3>2
  <2> QED
    BY <1>1, <2>1 DEF TodoInv, Paid, Todo!IsDone
<1>8. Followed'
  <2> SUFFICES ASSUME NEW u \in Todos
               PROVE  /\ Known(u)' \/ <<u, "created">> \in due' \/ <<u, "changed">> \in due'
                      /\ prev[u] = Nil => view'[u] = Nil \/ <<u, "deleted">> \in due'
                      /\ prev[u] = Nil => \A d \in due' : d[1] = u => d[2] = "deleted"
                      /\ prev[u] # Nil => <<u, "deleted">> \notin due'
    BY <1>1 DEF Followed
  <2>1. /\ Known(u) \/ <<u, "created">> \in due \/ <<u, "changed">> \in due
        /\ prev[u] = Nil => view[u] = Nil \/ <<u, "deleted">> \in due
        /\ prev[u] = Nil => \A d \in due : d[1] = u => d[2] = "deleted"
        /\ prev[u] # Nil => <<u, "deleted">> \notin due
    BY <1>1 DEF TodoInv, Followed
  <2>2. CASE u # t
    <3>1. view'[u] = view[u] /\ \A k : <<u, k>> \in due' <=> <<u, k>> \in due
      BY <1>1, <1>3, <2>2
    <3>2. Known(u)' <=> Known(u)
      BY <1>1, <3>1 DEF Known, Todo!Content
    <3> QED
      BY <1>1, <2>1, <3>1, <3>2
  <2>3. CASE u = t
    <3>1. CASE kind = "deleted"
      <4>1. prev[t] = Nil /\ view'[t] = Nil
        BY <1>1, <1>2, <1>3, <2>1, <2>3, <3>1
      <4>2. Known(t)'
        BY <1>1, <4>1 DEF Known
      <4> QED
        BY <1>1, <2>1, <2>3, <4>1, <4>2
    <3>2. CASE kind # "deleted"
      <4>1. prev[t] # Nil
        <5>1. <<t, kind>>[1] = t /\ <<t, kind>>[2] = kind
          OBVIOUS
        <5> QED
          BY <1>1, <2>1, <2>3, <3>2, <5>1
      <4>2. files[t] # Nil => view'[t] = Todo!Content(files[t])
        BY <1>2, <1>3, <3>2
      <4>3. Known(t)'
        BY <1>1, <4>2 DEF Known, Todo!Content
      <4> QED
        BY <1>1, <2>1, <2>3, <4>1, <4>3
    <3> QED
      BY <3>1, <3>2
  <2> QED
    BY <2>2, <2>3
<1> QED
  BY <1>5, <1>6, <1>7, <1>8 DEF TodoInv

\* The plugin ends, and its next run begins anew; the files stay.
LEMMA CrashStep ==
  ASSUME Todo!TodoPluginAssumption, TodoInv, Todo!Crash
  PROVE  TodoInv'
<1> USE DEF Todo!disk, Todo!Nothing
<1>1. /\ UNCHANGED <<files, writes, partial, finished, completed, todoFaults>> /\ step' = Nil
      /\ todoCrashes < MaxCrashes /\ todoCrashes' = todoCrashes + 1
      /\ follower' = "gone" /\ unseen' = {} /\ held' = Nil /\ due' = {} /\ prev' = [t \in Todos |-> Nil] /\ seen' = prev' /\ view' = prev'
  BY DEF Todo!Crash
<1>t. /\ completed \in [Todos -> Nat] /\ finished \in [Todos -> Nat]
      /\ todoCrashes \in 0 .. MaxCrashes /\ MaxCrashes \in Nat /\ \A t \in Todos : Told(t) \in Nat
  BY TodoTypes
<1>2. todoCrashes' \in 0 .. MaxCrashes
  BY <1>1, <1>t
<1>3. /\ prev' \in [Todos -> Todo!Snapshots \cup {Nil}] /\ seen' \in [Todos -> Todo!Snapshots \cup {Nil}]
      /\ view' \in [Todos -> Todo!Contents \cup {Nil, Todo!Bare}]
      /\ \A t \in Todos : prev'[t] = Nil /\ seen'[t] = Nil /\ view'[t] = Nil
  BY <1>1
<1>4. Todo!TypeOK'
  BY <1>1, <1>2, <1>3 DEF TodoInv, Todo!TypeOK
<1>5. Stamped' /\ Holding'
  BY <1>1, <1>3 DEF TodoInv, Stamped, Holding
<1>6. Paid'
  <2>1. \A t \in Todos : Told(t)' <= finished[t]
    <3> TAKE t \in Todos
    <3>1. Told(t)' = completed[t] + 0 /\ completed[t] <= Told(t) /\ completed[t] \in Nat
      BY <1>1, <1>t DEF Told, Owed
    <3>2. Told(t) <= finished[t]
      BY DEF TodoInv, Paid
    <3> QED
      BY <1>t, <3>1, <3>2
  <2> QED
    BY <1>1, <1>3, <2>1 DEF Paid
<1>7. Followed'
  BY <1>1, <1>3 DEF Followed
<1> QED
  BY <1>4, <1>5, <1>6, <1>7 DEF TodoInv

LEMMA TodoNext == Todo!TodoPluginAssumption /\ TodoInv /\ [Todo!Next]_(Todo!vars) => TodoInv'
<1> SUFFICES ASSUME Todo!TodoPluginAssumption, TodoInv, [Todo!Next]_(Todo!vars) PROVE TodoInv'
  OBVIOUS
<1>1. CASE UNCHANGED Todo!vars
  BY <1>1, TodoKeeps, TodoTypes DEF Todo!vars, Todo!disk, Todo!scanning
<1>2. CASE Todo!Next
  BY <1>2, FilesStep, ActionsStep, ScanStep, BaselineStep, CompareStep, PublishStep, CrashStep
  DEF Todo!Next, Todo!Watch
<1> QED
  BY <1>1, <1>2

LEMMA TodoPromises ==
  ASSUME Todo!TodoPluginAssumption, TodoInv
  PROVE  Todo!TypeOK /\ Todo!FollowerAgrees /\ Todo!CompletedOnce
<1>t. /\ files \in [Todos -> Todo!File \cup {Nil}] /\ view \in [Todos -> Todo!Contents \cup {Nil, Todo!Bare}]
      /\ completed \in [Todos -> Nat] /\ finished \in [Todos -> Nat]
  BY TodoTypes
<1>1. Todo!CompletedOnce
  <2> SUFFICES ASSUME NEW t \in Todos PROVE completed[t] <= finished[t]
    BY DEF Todo!CompletedOnce
  <2>1. Told(t) <= finished[t] /\ completed[t] \in Nat /\ finished[t] \in Nat
    BY <1>t DEF TodoInv, Paid
  <2> QED
    BY <2>1 DEF Told, Owed
<1>2. Todo!FollowerAgrees
  <2> SUFFICES ASSUME follower = "asleep", prev = Todo!Stamps
               PROVE  view = [t \in Todos |-> IF files[t] = Nil THEN Nil ELSE Todo!Content(files[t])]
    BY DEF Todo!FollowerAgrees
  <2> SUFFICES ASSUME NEW t \in Todos
               PROVE  view[t] = IF files[t] = Nil THEN Nil ELSE Todo!Content(files[t])
    BY <1>t
  <2>1. prev[t] = IF files[t] = Nil THEN Nil ELSE Todo!Snapshot(files[t])
    BY DEF Todo!Stamps
  <2>2. Known(t) /\ (prev[t] = Nil => view[t] = Nil)
    BY DEF TodoInv, Followed
  <2>3. files[t] # Nil => Todo!Snapshot(files[t]) # Nil /\ Todo!Snapshot(files[t]).stamp = files[t].stamp
    <3>1. files[t] # Nil => Todo!Snapshot(files[t]) \in Todo!Snapshots
      BY <1>t DEF Todo!Snapshot, Todo!File, Todo!Snapshots
    <3> QED
      BY <3>1 DEF Todo!Snapshot, Todo!TodoPluginAssumption
  <2> QED
    BY <2>1, <2>2, <2>3 DEF Known
<1> QED
  BY <1>1, <1>2 DEF TodoInv

-----------------------------------------------------------------------------
(* DiscordPlugin *)

creds == v1
gateway == v2
retry == v3
session == v4
inFlight == v5
fresh == v6
socket == v7
wire == v8
owed == v9
hosts == v10
server == v11
handled == v12
spoken == v13
zombies == v14
mishaps == v15

USE DEF creds, gateway, retry, session, inFlight, fresh, socket, wire, owed, hosts, server,
        handled, spoken, zombies, mishaps

\* The number of a session is that of its last dispatch, or READY's; a dispatch counts for the
\* session it is handled in.
Remembered ==
  /\ session.id = 0 <=> session.seq = 0
  /\ session.id # 0 => session.bot
  /\ \A i \in 1 .. Len(handled) : handled[i].id <= server.id
  /\ session.id # 0 /\ session.id = server.id =>
       /\ session.seq <= Len(server.log) + 1
       /\ session.seq = IF Len(handled) > 0 /\ handled[Len(handled)].id = server.id
                        THEN handled[Len(handled)].seq ELSE 1

Plain(op) == op # "dispatch" /\ op # "ready"

\* n[i] is the number of the session once i frames of the connection are read: the dispatches
\* on it come in order, without a gap from the session's number on, and up to the last one of
\* the log where Discord sends what happens to this connection.
Numbered(n) ==
  /\ n \in [0 .. Len(wire) -> Nat] /\ n[0] = session.seq
  /\ \A i \in 1 .. Len(wire) :
       /\ n[i] <= Len(server.log) + 1
       /\ wire[i].op = "dispatch" => n[i - 1] # 0 /\ n[i] = n[i - 1] + 1 /\ wire[i].seq = n[i]
       /\ wire[i].op = "ready" => i = 1 /\ n[i] = 1
       /\ Plain(wire[i].op) => n[i] = n[i - 1]
  /\ server.here /\ socket = "up" => n[Len(wire)] = Len(server.log) + 1

\* A connection that identified waits for READY, one that resumed or has read it is of the
\* session, and on any other nothing of a session comes.
Identifying ==
  /\ session.id = 0 /\ Len(wire) > 0 /\ wire[1].op = "ready" /\ wire[1].id = server.id
  /\ server.id # 0 /\ \A i \in 1 .. Len(handled) : handled[i].id # server.id
  /\ \E n : Numbered(n)
Live ==
  /\ session.id # 0 /\ session.id = server.id /\ \A i \in 1 .. Len(wire) : wire[i].op # "ready"
  /\ \E n : Numbered(n)
Bare == ~server.here /\ \A i \in 1 .. Len(wire) : Plain(wire[i].op)
OnWire == gateway = "read" => Identifying \/ Live \/ Bare

\* Without an acknowledgement since the last heartbeat that was due, that one is still owed.
Beats == gateway = "read" /\ socket = "up" /\ ~fresh => \E i \in 1 .. Len(owed) : owed[i] = "due"

\* Nothing of a session comes on a connection that waits for HELLO.
Quiet == gateway = "hello" => ~server.here

DiscordInv ==
  /\ Discord!TypeOK /\ Len(server.log) <= MaxDispatches
  /\ Remembered /\ OnWire /\ Quiet /\ Beats
  /\ Discord!EachOnceInOrder /\ Discord!OnlyTheDeadAreZombies /\ Discord!OwnAreSilent

\* What the types say.
LEMMA DiscordTypes ==
  ASSUME Discord!DiscordAssumption, Discord!TypeOK
  PROVE  /\ MaxDispatches \in Nat /\ GatewayFaults \in Nat /\ GatewayBackoff \in Nat /\ GatewayBackoff >= 1
         /\ session \in [id : 0 .. GatewayFaults + 1, seq : 0 .. MaxDispatches + 1, url : BOOLEAN, bot : BOOLEAN]
         /\ session.id \in Nat /\ session.seq \in Nat
         /\ wire \in Seq(Discord!Frames) /\ Len(wire) \in Nat
         /\ owed \in Seq({"due", "prompt"}) /\ Len(owed) \in Nat
         /\ server \in [id : 0 .. GatewayFaults + 1, log : Seq(Discord!Kinds), valid : BOOLEAN, here : BOOLEAN]
         /\ server.id \in Nat /\ server.log \in Seq(Discord!Kinds) /\ Len(server.log) \in Nat
         /\ handled \in Seq([id : Nat, seq : 0 .. MaxDispatches + 1]) /\ Len(handled) \in Nat
         /\ DOMAIN handled = 1 .. Len(handled)
         /\ \A i \in 1 .. Len(handled) : handled[i].id \in Nat /\ handled[i].seq \in Nat
         /\ mishaps \in 0 .. GatewayFaults /\ retry \in 1 .. GatewayBackoff
<1> USE DEF Discord!DiscordAssumption, Discord!TypeOK, Discord!Sequence
<1>1. /\ Len(wire) \in Nat /\ Len(owed) \in Nat /\ server.log \in Seq(Discord!Kinds) /\ Len(server.log) \in Nat
      /\ Len(handled) \in Nat /\ DOMAIN handled = 1 .. Len(handled)
  BY LenProperties
<1>2. \A i \in 1 .. Len(handled) : handled[i] \in [id : Nat, seq : 0 .. MaxDispatches + 1]
  BY ElementOfSeq
<1>3. \A i \in 1 .. Len(handled) : handled[i].id \in Nat /\ handled[i].seq \in Nat
  BY <1>2
<1>4. /\ MaxDispatches \in Nat /\ GatewayFaults \in Nat /\ GatewayBackoff \in Nat /\ GatewayBackoff >= 1
  OBVIOUS
<1>5. /\ session \in [id : 0 .. GatewayFaults + 1, seq : 0 .. MaxDispatches + 1, url : BOOLEAN, bot : BOOLEAN]
      /\ server \in [id : 0 .. GatewayFaults + 1, log : Seq(Discord!Kinds), valid : BOOLEAN, here : BOOLEAN]
      /\ handled \in Seq([id : Nat, seq : 0 .. MaxDispatches + 1])
      /\ wire \in Seq(Discord!Frames) /\ owed \in Seq({"due", "prompt"})
      /\ mishaps \in 0 .. GatewayFaults /\ retry \in 1 .. GatewayBackoff
  OBVIOUS
<1>6. session.id \in Nat /\ session.seq \in Nat /\ server.id \in Nat
  BY <1>4, <1>5
<1> QED
  BY <1>1, <1>3, <1>4, <1>5, <1>6

LEMMA DiscordInit == Discord!DiscordAssumption /\ Discord!Init => DiscordInv
<1> SUFFICES ASSUME Discord!DiscordAssumption, Discord!Init PROVE DiscordInv
  OBVIOUS
<1> USE DEF Discord!Init, Discord!DiscordAssumption
<1>1. \A S : <<>> \in Seq(S) /\ Len(<<>>) = 0
  BY EmptySeq
<1>2. Discord!TypeOK
  <2>1. session \in [id : 0 .. GatewayFaults + 1, seq : 0 .. MaxDispatches + 1, url : BOOLEAN, bot : BOOLEAN]
    BY DEF Discord!NoSession
  <2>2. server \in [id : 0 .. GatewayFaults + 1, log : Seq(Discord!Kinds), valid : BOOLEAN, here : BOOLEAN]
    BY <1>1
  <2>3. mishaps \in 0 .. GatewayFaults /\ retry \in 1 .. GatewayBackoff
    OBVIOUS
  <2>4. wire \in Seq(Discord!Frames) /\ owed \in Seq({"due", "prompt"}) /\ handled \in Seq([id : Nat, seq : Discord!Sequence])
    BY <1>1
  <2> QED
    BY <2>1, <2>2, <2>3, <2>4 DEF Discord!TypeOK, Discord!Sequence
<1>3. Len(server.log) = 0 /\ Len(handled) = 0 /\ 1 .. 0 = {} /\ DOMAIN handled = {}
  BY <1>1
<1>4. Remembered
  BY <1>3 DEF Remembered, Discord!NoSession
<1>5. OnWire /\ Quiet /\ Beats
  BY DEF OnWire, Quiet, Beats
<1>6. Discord!EachOnceInOrder /\ Discord!OnlyTheDeadAreZombies /\ Discord!OwnAreSilent
  BY <1>3 DEF Discord!EachOnceInOrder, Discord!OnlyTheDeadAreZombies, Discord!OwnAreSilent
<1> QED
  BY <1>2, <1>3, <1>4, <1>5, <1>6 DEF DiscordInv

\* A step that does not end in reading, forgets the session at most, and handles nothing.
LEMMA Leaves ==
  ASSUME Discord!DiscordAssumption, DiscordInv, Discord!TypeOK', gateway' # "read",
         gateway' = "hello" => ~server'.here,
         session' \in {session, [session EXCEPT !.id = 0, !.seq = 0, !.url = FALSE]},
         server'.id = server.id, server'.log = server.log, handled' = handled, spoken' = spoken,
         "up" \notin zombies'
  PROVE  DiscordInv'
<1>1. /\ session \in [id : 0 .. GatewayFaults + 1, seq : 0 .. MaxDispatches + 1, url : BOOLEAN, bot : BOOLEAN]
  BY DiscordTypes DEF DiscordInv
<1>2. \/ session' = session
      \/ session'.id = 0 /\ session'.seq = 0
  BY <1>1
<1>3. Remembered'
  BY <1>2 DEF DiscordInv, Remembered
<1>4. OnWire' /\ Quiet' /\ Beats'
  BY DEF OnWire, Quiet, Beats
<1>5. Discord!EachOnceInOrder' /\ Discord!OnlyTheDeadAreZombies' /\ Discord!OwnAreSilent'
  BY DEF DiscordInv, Discord!EachOnceInOrder, Discord!OnlyTheDeadAreZombies, Discord!OwnAreSilent
<1> QED
  BY <1>3, <1>4, <1>5 DEF DiscordInv

LEMMA LeavingStep ==
  ASSUME Discord!DiscordAssumption, DiscordInv,
         \/ Discord!Resolve \/ Discord!Sleep \/ Discord!Connect \/ Discord!NoHello
         \/ Discord!ServerReconnect \/ Discord!InvalidSession \/ Discord!Ends
  PROVE  DiscordInv'
<1> USE DEF Discord!beat, Discord!net, Discord!history, Discord!Error, Discord!Reconnect, Discord!FullReset
<1>t. Discord!TypeOK /\ "up" \notin zombies
  BY DEF DiscordInv, Discord!OnlyTheDeadAreZombies
<1>s. /\ GatewayFaults \in Nat /\ GatewayBackoff \in Nat /\ GatewayBackoff >= 1 /\ MaxDispatches \in Nat
      /\ session \in [id : 0 .. GatewayFaults + 1, seq : 0 .. MaxDispatches + 1, url : BOOLEAN, bot : BOOLEAN]
      /\ wire \in Seq(Discord!Frames)
      /\ server \in [id : 0 .. GatewayFaults + 1, log : Seq(Discord!Kinds), valid : BOOLEAN, here : BOOLEAN]
      /\ mishaps \in 0 .. GatewayFaults /\ retry \in 1 .. GatewayBackoff
  BY <1>t, DiscordTypes
<1>f. [session EXCEPT !.id = 0, !.seq = 0, !.url = FALSE]
        \in [id : 0 .. GatewayFaults + 1, seq : 0 .. MaxDispatches + 1, url : BOOLEAN, bot : BOOLEAN]
  <2>1. 0 \in 0 .. GatewayFaults + 1 /\ 0 \in 0 .. MaxDispatches + 1
    BY <1>s
  <2> QED
    BY <1>s, <2>1
<1>1. CASE Discord!Resolve \/ Discord!NoHello
  <2>1. /\ UNCHANGED <<creds, retry, session, inFlight, fresh, owed, socket, wire, hosts, server, handled, spoken, zombies, mishaps>>
        /\ gateway' \in {"connect", "sleep"}
    BY <1>1 DEF Discord!Resolve, Discord!NoHello
  <2>2. Discord!TypeOK'
    BY <1>t, <2>1 DEF Discord!TypeOK
  <2> QED
    BY <1>t, <2>1, <2>2, Leaves
<1>2. CASE Discord!Sleep
  <2>1. /\ UNCHANGED <<creds, session, inFlight, fresh, owed, socket, wire, hosts, server, handled, spoken, zombies, mishaps>>
        /\ gateway' = "credentials" /\ retry' = IF 2 * retry > GatewayBackoff THEN GatewayBackoff ELSE 2 * retry
    BY <1>2 DEF Discord!Sleep
  <2>2. retry' \in 1 .. GatewayBackoff
    BY <1>s, <2>1
  <2>3. Discord!TypeOK'
    BY <1>t, <2>1, <2>2 DEF Discord!TypeOK
  <2> QED
    BY <1>t, <2>1, <2>3, Leaves
<1>3. CASE Discord!Connect
  <2>1. /\ UNCHANGED <<creds, session, inFlight, fresh, hosts, handled, spoken, zombies>>
        /\ \/ /\ gateway' = "hello" /\ socket' = "up" /\ wire' = <<[op |-> "hello"]>> /\ owed' = <<>>
              /\ server' = [server EXCEPT !.here = FALSE] /\ UNCHANGED <<retry, mishaps>>
           \/ gateway' = "sleep" /\ UNCHANGED <<retry, socket, wire, owed, server>>
              /\ (mishaps' = mishaps \/ (mishaps < GatewayFaults /\ mishaps' = mishaps + 1))
    BY <1>3 DEF Discord!Connect, Discord!Fault
  <2>2. mishaps' \in 0 .. GatewayFaults
    BY <1>s, <2>1
  <2>3. wire' \in Seq(Discord!Frames) /\ owed' \in Seq({"due", "prompt"})
    <3>1. [op |-> "hello"] \in Discord!Frames
      BY DEF Discord!Frames
    <3>2. <<[op |-> "hello"]>> \in Seq(Discord!Frames) /\ <<>> \in Seq({"due", "prompt"})
      BY <3>1, EmptySeq
    <3> QED
      BY <1>s, <1>t, <2>1, <3>2 DEF Discord!TypeOK
  <2>4. /\ server' \in [id : 0 .. GatewayFaults + 1, log : Seq(Discord!Kinds), valid : BOOLEAN, here : BOOLEAN]
        /\ server'.id = server.id /\ server'.log = server.log
        /\ gateway' = "hello" => ~server'.here
    BY <1>s, <2>1
  <2>5. retry' \in 1 .. GatewayBackoff
    BY <1>s, <2>1
  <2>6. Discord!TypeOK'
    BY <1>t, <2>1, <2>2, <2>3, <2>4, <2>5 DEF Discord!TypeOK
  <2> QED
    BY <1>t, <2>1, <2>4, <2>6, Leaves
<1>4. CASE Discord!ServerReconnect \/ Discord!InvalidSession
  <2>1. /\ UNCHANGED <<creds, inFlight, fresh, owed, hosts, server, handled, spoken, zombies, mishaps>>
        /\ wire # <<>> /\ wire' = Tail(wire) /\ gateway' = "credentials" /\ retry' = 1 /\ socket' = "closed"
        /\ session' \in {session, [session EXCEPT !.id = 0, !.seq = 0, !.url = FALSE]}
    BY <1>4 DEF Discord!ServerReconnect, Discord!InvalidSession, Discord!Leave, Discord!Read
  <2>2. wire' \in Seq(Discord!Frames)
    BY <1>s, <2>1, HeadTailProperties
  <2>3. session' \in [id : 0 .. GatewayFaults + 1, seq : 0 .. MaxDispatches + 1, url : BOOLEAN, bot : BOOLEAN]
    BY <1>s, <1>f, <2>1
  <2>4. retry' \in 1 .. GatewayBackoff
    BY <1>s, <2>1
  <2>5. Discord!TypeOK'
    BY <1>t, <2>1, <2>2, <2>3, <2>4 DEF Discord!TypeOK, Discord!Sequence
  <2> QED
    BY <1>t, <2>1, <2>5, Leaves
<1>5. CASE Discord!Ends
  <2>1. /\ UNCHANGED <<creds, retry, inFlight, fresh, owed, socket, wire, hosts, server, handled, spoken, zombies, mishaps>>
        /\ gateway' = "sleep"
        /\ session' \in {session, [session EXCEPT !.id = 0, !.seq = 0, !.url = FALSE]}
    BY <1>5 DEF Discord!Ends
  <2>2. session' \in [id : 0 .. GatewayFaults + 1, seq : 0 .. MaxDispatches + 1, url : BOOLEAN, bot : BOOLEAN]
    BY <1>s, <1>f, <2>1
  <2>3. Discord!TypeOK'
    BY <1>t, <2>1, <2>2 DEF Discord!TypeOK, Discord!Sequence
  <2> QED
    BY <1>t, <2>1, <2>3, Leaves
<1> QED
  BY <1>1, <1>2, <1>3, <1>4, <1>5

\* Heartbeats.
LEMMA HeartbeatStep ==
  ASSUME Discord!DiscordAssumption, DiscordInv, Discord!HeartbeatDue \/ Discord!HeartbeatAck
  PROVE  DiscordInv'
<1> USE DEF Discord!beat, Discord!net, Discord!history, Discord!Error
<1>t. Discord!TypeOK /\ owed \in Seq({"due", "prompt"}) /\ Len(owed) \in Nat
  BY DiscordTypes DEF DiscordInv
<1>k. ASSUME UNCHANGED <<gateway, session, wire, socket, server, handled>>
      PROVE  Remembered' /\ OnWire' /\ Quiet' /\ Discord!EachOnceInOrder' /\ (Len(server.log) <= MaxDispatches)'
  <2>1. \A n : Numbered(n)' <=> Numbered(n)
    BY <1>k DEF Numbered
  <2>2. (Identifying' <=> Identifying) /\ (Live' <=> Live) /\ (Bare' <=> Bare)
    BY <1>k, <2>1 DEF Identifying, Live, Bare
  <2> QED
    BY <1>k, <2>2 DEF DiscordInv, Remembered, OnWire, Quiet, Discord!EachOnceInOrder
<1>1. CASE Discord!HeartbeatDue /\ Discord!Zombie
  <2>1. /\ UNCHANGED <<creds, retry, session, inFlight, fresh, owed, socket, wire, hosts, server, handled, spoken, mishaps>>
        /\ gateway = "read" /\ gateway' = "sleep" /\ zombies' = zombies \cup {socket}
        /\ socket = "up" => owed = <<>> \/ owed = <<"prompt">>
        /\ ~fresh
    BY <1>1 DEF Discord!HeartbeatDue, Discord!Zombie
  <2>2. socket # "up"
    <3> SUFFICES ASSUME socket = "up" PROVE FALSE
      OBVIOUS
    <3>1. PICK i \in 1 .. Len(owed) : owed[i] = "due"
      BY <2>1 DEF DiscordInv, Beats
    <3>2. Len(<<>>) = 0 /\ Len(<<"prompt">>) = 1 /\ <<"prompt">>[1] = "prompt"
      OBVIOUS
    <3>3. i = 1 /\ owed = <<"prompt">>
      BY <2>1, <3>1, <3>2
    <3> QED
      BY <3>1, <3>2, <3>3
  <2>3. Discord!TypeOK'
    BY <1>t, <2>1 DEF Discord!TypeOK
  <2>4. "up" \notin zombies'
    BY <2>1, <2>2 DEF DiscordInv, Discord!OnlyTheDeadAreZombies
  <2> QED
    BY <2>1, <2>3, <2>4, Leaves
<1>2. CASE Discord!HeartbeatDue /\ ~Discord!Zombie
  <2>1. /\ UNCHANGED <<creds, gateway, retry, session, socket, wire, hosts, server, handled, spoken, zombies, mishaps>>
        /\ inFlight' = TRUE /\ fresh' = FALSE
        /\ owed' = IF socket = "up" THEN Append(owed, "due") ELSE owed
    BY <1>2 DEF Discord!HeartbeatDue
  <2>2. /\ owed' \in Seq({"due", "prompt"})
        /\ socket = "up" => Len(owed') = Len(owed) + 1 /\ owed'[Len(owed) + 1] = "due"
    BY <1>t, <2>1, AppendProperties
  <2>3. Discord!TypeOK'
    BY <1>t, <2>1, <2>2 DEF Discord!TypeOK
  <2>4. Beats'
    BY <1>t, <2>1, <2>2 DEF Beats
  <2> QED
    BY <1>k, <2>1, <2>3, <2>4 DEF DiscordInv, Discord!OnlyTheDeadAreZombies, Discord!OwnAreSilent
<1>3. CASE Discord!HeartbeatAck
  <2>1. /\ UNCHANGED <<creds, gateway, retry, session, socket, wire, hosts, server, handled, spoken, zombies, mishaps>>
        /\ inFlight' = FALSE /\ fresh' = TRUE /\ owed # <<>> /\ owed' = Tail(owed)
    BY <1>3 DEF Discord!HeartbeatAck
  <2>2. owed' \in Seq({"due", "prompt"})
    BY <1>t, <2>1, HeadTailProperties
  <2>3. Discord!TypeOK'
    BY <1>t, <2>1, <2>2 DEF Discord!TypeOK
  <2>4. Beats'
    BY <2>1 DEF Beats
  <2> QED
    BY <1>k, <2>1, <2>3, <2>4 DEF DiscordInv, Discord!OnlyTheDeadAreZombies, Discord!OwnAreSilent
<1> QED
  BY <1>1, <1>2, <1>3

\* A frame less, a frame more: the numbers of the rest stay.
LEMMA TailNumbered ==
  ASSUME Discord!DiscordAssumption, Discord!TypeOK, NEW n, Numbered(n), wire # <<>>, wire' = Tail(wire),
         session'.seq = n[1], session'.id = session.id \/ \A i \in 2 .. Len(wire) : wire[i].op # "ready",
         UNCHANGED <<server, socket>>
  PROVE  /\ \E m : Numbered(m)'
         /\ Len(wire') = Len(wire) - 1 /\ Len(wire) > 0
         /\ \A i \in 1 .. Len(wire') : wire'[i] = wire[i + 1] /\ wire'[i].op # "ready"
<1>1. wire \in Seq(Discord!Frames) /\ Len(wire) \in Nat /\ Len(wire) > 0
  BY DiscordTypes, EmptySeq
<1>2. Len(wire') = Len(wire) - 1 /\ \A i \in 1 .. Len(wire') : wire'[i] = wire[i + 1]
  BY <1>1, HeadTailProperties
<1>3. n \in [0 .. Len(wire) -> Nat]
  BY DEF Numbered
<1>4. PICK m \in [0 .. Len(wire') -> Nat] : \A i \in 0 .. Len(wire') : m[i] = n[i + 1]
  <2> DEFINE g == [i \in 0 .. Len(wire') |-> n[i + 1]]
  <2>1. g \in [0 .. Len(wire') -> Nat] /\ \A i \in 0 .. Len(wire') : g[i] = n[i + 1]
    BY <1>1, <1>2, <1>3
  <2> QED
    BY <2>1
<1>5. m[0] = n[1] /\ m[Len(wire')] = n[Len(wire)]
  BY <1>1, <1>2, <1>4
<1>6. ASSUME NEW i \in 1 .. Len(wire')
      PROVE  /\ m[i] <= Len(server.log) + 1
             /\ wire'[i].op = "dispatch" => m[i - 1] # 0 /\ m[i] = m[i - 1] + 1 /\ wire'[i].seq = m[i]
             /\ wire'[i].op # "ready"
             /\ Plain(wire'[i].op) => m[i] = m[i - 1]
  <2>1. i + 1 \in 1 .. Len(wire) /\ i - 1 \in 0 .. Len(wire') /\ i \in 0 .. Len(wire') /\ i + 1 # 1
    BY <1>1, <1>2
  <2>2. m[i] = n[i + 1] /\ m[i - 1] = n[(i + 1) - 1] /\ wire'[i] = wire[i + 1]
    BY <1>2, <1>4, <2>1
  <2> QED
    BY <2>1, <2>2 DEF Numbered
<1>7. Numbered(m)'
  BY <1>4, <1>5, <1>6 DEF Numbered
<1> QED
  BY <1>1, <1>2, <1>6, <1>7

LEMMA AppendNumbered ==
  ASSUME Discord!DiscordAssumption, Discord!TypeOK, NEW n, Numbered(n), NEW f \in Discord!Frames, f.op # "ready",
         wire' = Append(wire, f), session' = session, socket' = socket,
         Len(server.log) <= Len(server'.log), Len(server'.log) \in Nat,
         n[Len(wire)] = Len(server.log) + 1,
         \/ f.op = "dispatch" /\ f.seq = Len(server.log) + 2 /\ Len(server'.log) = Len(server.log) + 1
         \/ Plain(f.op) /\ Len(server'.log) = Len(server.log)
  PROVE  /\ \E m : Numbered(m)'
         /\ Len(wire') = Len(wire) + 1 /\ wire'[Len(wire) + 1] = f
         /\ \A i \in 1 .. Len(wire) : wire'[i] = wire[i]
<1>1. wire \in Seq(Discord!Frames) /\ Len(wire) \in Nat /\ Len(server.log) \in Nat
  BY DiscordTypes
<1>2. Len(wire') = Len(wire) + 1 /\ wire'[Len(wire) + 1] = f /\ \A i \in 1 .. Len(wire) : wire'[i] = wire[i]
  BY <1>1, AppendProperties
<1> DEFINE last == Len(server'.log) + 1
<1>3. n \in [0 .. Len(wire) -> Nat]
  BY DEF Numbered
<1>4. PICK m \in [0 .. Len(wire') -> Nat] : m[Len(wire) + 1] = last /\ \A i \in 0 .. Len(wire) : m[i] = n[i]
  <2> DEFINE g == [i \in 0 .. Len(wire') |-> IF i = Len(wire) + 1 THEN last ELSE n[i]]
  <2>1. g \in [0 .. Len(wire') -> Nat] /\ g[Len(wire) + 1] = last /\ \A i \in 0 .. Len(wire) : g[i] = n[i]
    BY <1>1, <1>2, <1>3
  <2> QED
    BY <2>1
<1>5. m[0] = session'.seq /\ m[Len(wire')] = last
  BY <1>1, <1>2, <1>4 DEF Numbered
<1>6. ASSUME NEW i \in 1 .. Len(wire')
      PROVE  /\ m[i] <= Len(server'.log) + 1
             /\ wire'[i].op = "dispatch" => m[i - 1] # 0 /\ m[i] = m[i - 1] + 1 /\ wire'[i].seq = m[i]
             /\ wire'[i].op = "ready" => i = 1 /\ m[i] = 1
             /\ Plain(wire'[i].op) => m[i] = m[i - 1]
  <2>1. CASE i \in 1 .. Len(wire)
    <3>1. m[i] = n[i] /\ m[i - 1] = n[i - 1] /\ wire'[i] = wire[i] /\ n[i] \in Nat
      BY <1>1, <1>2, <1>3, <1>4, <2>1
    <3>2. n[i] <= Len(server.log) + 1
      BY <2>1 DEF Numbered
    <3>3. n[i] <= Len(server'.log) + 1
      BY <1>1, <3>1, <3>2
    <3> QED
      BY <2>1, <3>1, <3>3 DEF Numbered
  <2>2. CASE i = Len(wire) + 1
    <3>0. i - 1 = Len(wire) /\ Len(wire) \in 0 .. Len(wire)
      BY <1>1, <2>2
    <3>1. m[i] = last /\ m[i - 1] = Len(server.log) + 1 /\ wire'[i] = f
      BY <1>2, <1>4, <2>2, <3>0
    <3>2. m[i] \in Nat /\ m[i] <= last
      BY <3>1
    <3>3. CASE f.op = "dispatch" /\ f.seq = Len(server.log) + 2 /\ Len(server'.log) = Len(server.log) + 1
      BY <1>1, <3>1, <3>3 DEF Plain
    <3>4. CASE Plain(f.op) /\ Len(server'.log) = Len(server.log)
      BY <1>1, <3>1, <3>4 DEF Plain
    <3> QED
      BY <3>3, <3>4
  <2>3. i \in 1 .. Len(wire) \/ i = Len(wire) + 1
    BY <1>1, <1>2
  <2> QED
    BY <2>1, <2>2, <2>3
<1>7. Numbered(m)'
  BY <1>4, <1>5, <1>6 DEF Numbered
<1> QED
  BY <1>2, <1>7

\* The next frame is the session's, or Discord's wish.
LEMMA ReadStep ==
  ASSUME Discord!DiscordAssumption, DiscordInv,
         Discord!Ready \/ Discord!Dispatch \/ Discord!Resume \/ Discord!Prompt
  PROVE  DiscordInv'
<1> USE DEF Discord!beat, Discord!net, Discord!history
<1>t. Discord!TypeOK
  BY DEF DiscordInv
<1>s. /\ session \in [id : 0 .. GatewayFaults + 1, seq : 0 .. MaxDispatches + 1, url : BOOLEAN, bot : BOOLEAN]
      /\ session.id \in Nat /\ session.seq \in Nat
      /\ wire \in Seq(Discord!Frames) /\ Len(wire) \in Nat
      /\ owed \in Seq({"due", "prompt"}) /\ Len(owed) \in Nat
      /\ server.id \in Nat /\ Len(server.log) \in Nat /\ MaxDispatches \in Nat /\ GatewayFaults \in Nat
      /\ handled \in Seq([id : Nat, seq : 0 .. MaxDispatches + 1]) /\ Len(handled) \in Nat
      /\ DOMAIN handled = 1 .. Len(handled)
      /\ \A i \in 1 .. Len(handled) : handled[i].id \in Nat /\ handled[i].seq \in Nat
  BY <1>t, DiscordTypes
<1> DEFINE f == Head(wire)
<1>1. /\ UNCHANGED <<creds, gateway, retry, socket, hosts, server, zombies, mishaps>>
      /\ gateway = "read" /\ wire # <<>> /\ wire' = Tail(wire)
  BY DEF Discord!Ready, Discord!Dispatch, Discord!Resume, Discord!Prompt, Discord!Read
<1>2. f = wire[1] /\ f \in Discord!Frames /\ wire' \in Seq(Discord!Frames) /\ Len(wire) > 0
      /\ Len(wire') = Len(wire) - 1 /\ \A i \in 1 .. Len(wire') : wire'[i] = wire[i + 1]
  BY <1>1, <1>s, HeadTailProperties, EmptySeq
<1> HIDE DEF f
<1>3. 1 \in 1 .. Len(wire)
  BY <1>2, <1>s
<1>o. Identifying \/ Live \/ Bare
  BY <1>1 DEF DiscordInv, OnWire
\* The frames behind the first are never READY.
<1>4. ASSUME NEW n, Numbered(n) PROVE \A i \in 2 .. Len(wire) : wire[i].op # "ready"
  BY <1>s, <1>4 DEF Numbered
<1>5. CASE Discord!Ready
  <2>1. /\ UNCHANGED <<inFlight, fresh, owed, handled, spoken>> /\ f.op = "ready"
        /\ session' = [id |-> f.id, seq |-> 1, url |-> TRUE, bot |-> TRUE]
    BY <1>5 DEF Discord!Ready, Discord!Read, f
  <2>2. Identifying
    BY <1>2, <1>3, <1>o, <2>1 DEF Live, Bare, Plain
  <2>3. PICK n : Numbered(n)
    BY <2>2 DEF Identifying
  <2>4. session'.id = server.id /\ session'.seq = 1 /\ n[1] = 1 /\ session'.bot /\ server.id # 0
    BY <1>2, <1>3, <2>1, <2>2, <2>3 DEF Identifying, Numbered
  <2>5. \A i \in 2 .. Len(wire) : wire[i].op # "ready"
    BY <1>4, <2>3
  <2>6. (\E m : Numbered(m)') /\ \A i \in 1 .. Len(wire') : wire'[i].op # "ready"
    BY <1>1, <1>t, <2>3, <2>4, <2>5, TailNumbered
  <2>7. Live' /\ OnWire'
    BY <1>1, <2>4, <2>6 DEF Live, OnWire
  <2>8. session' \in [id : 0 .. GatewayFaults + 1, seq : 0 .. MaxDispatches + 1, url : BOOLEAN, bot : BOOLEAN]
    <3>1. f.id \in 0 .. GatewayFaults + 1
      <4>1. f.id = server.id
        BY <1>2, <2>2 DEF Identifying
      <4> QED
        BY <1>t, <4>1 DEF Discord!TypeOK
    <3>2. 1 \in 0 .. MaxDispatches + 1
      BY <1>s
    <3> QED
      BY <2>1, <3>1, <3>2
  <2>9. Discord!TypeOK'
    BY <1>1, <1>2, <1>t, <2>1, <2>8 DEF Discord!TypeOK, Discord!Sequence
  <2>10. Remembered'
    <3>1. Len(handled) > 0 => handled[Len(handled)].id # server.id
      BY <1>s, <2>2 DEF Identifying
    <3> QED
      BY <1>1, <1>s, <2>1, <2>4, <3>1 DEF DiscordInv, Remembered
  <2>11. Beats' /\ Discord!EachOnceInOrder' /\ Discord!OnlyTheDeadAreZombies' /\ Discord!OwnAreSilent'
    BY <1>1, <2>1 DEF DiscordInv, Beats, Discord!EachOnceInOrder, Discord!OnlyTheDeadAreZombies, Discord!OwnAreSilent
  <2> QED
    BY <1>1, <2>7, <2>9, <2>10, <2>11 DEF DiscordInv, Quiet
<1>6. CASE Discord!Dispatch
  <2> DEFINE entry == [id |-> server.id, seq |-> f.seq]
  <2>1. /\ UNCHANGED <<inFlight, fresh, owed>> /\ f.op = "dispatch"
        /\ session' = [session EXCEPT !.seq = f.seq]
        /\ handled' = Append(handled, entry)
        /\ spoken' = IF Discord!Passes(f.kind) THEN spoken \cup {f.kind} ELSE spoken
    BY <1>6 DEF Discord!Dispatch, Discord!Read, Discord!Seen, f
  <2>2. Live
    BY <1>2, <1>3, <1>o, <2>1 DEF Identifying, Bare, Plain
  <2>3. PICK n : Numbered(n)
    BY <2>2 DEF Live
  <2>4. n[1] = session.seq + 1 /\ f.seq = n[1] /\ n[1] <= Len(server.log) + 1 /\ session.seq # 0
    <3>1. /\ wire[1].op = "dispatch" => n[1 - 1] # 0 /\ n[1] = n[1 - 1] + 1 /\ wire[1].seq = n[1]
          /\ n[1] <= Len(server.log) + 1 /\ n[0] = session.seq
      BY <1>3, <2>3 DEF Numbered
    <3> QED
      BY <1>2, <2>1, <3>1
  <2>5. /\ session'.id = session.id /\ session'.seq = session.seq + 1 /\ session'.bot = session.bot
        /\ session.id # 0 /\ session.id = server.id /\ session.bot
    BY <1>s, <2>1, <2>2, <2>4 DEF Live, DiscordInv, Remembered
  <2>6. (\E m : Numbered(m)') /\ \A i \in 1 .. Len(wire') : wire'[i].op # "ready"
    BY <1>1, <1>t, <2>3, <2>4, <2>5, TailNumbered
  <2>7. Live' /\ OnWire'
    BY <1>1, <2>5, <2>6 DEF Live, OnWire
  <2>8. f.seq \in 0 .. MaxDispatches + 1 /\ f.kind \in Discord!Kinds
    <3>1. f \in Discord!Dispatches
      BY <1>2, <2>1 DEF Discord!Frames, Discord!Dispatches
    <3> QED
      BY <3>1 DEF Discord!Dispatches, Discord!Sequence
  <2>9. session' \in [id : 0 .. GatewayFaults + 1, seq : 0 .. MaxDispatches + 1, url : BOOLEAN, bot : BOOLEAN]
    BY <1>s, <2>1, <2>8
  <2>10. entry \in [id : Nat, seq : 0 .. MaxDispatches + 1] /\ entry.id = server.id /\ entry.seq = f.seq
    BY <1>s, <2>8
  <2> HIDE DEF entry
  <2>11. /\ handled' \in Seq([id : Nat, seq : 0 .. MaxDispatches + 1]) /\ Len(handled') = Len(handled) + 1
         /\ DOMAIN handled' = 1 .. Len(handled) + 1
         /\ handled'[Len(handled) + 1] = entry /\ \A i \in 1 .. Len(handled) : handled'[i] = handled[i]
    <3>1. /\ handled' \in Seq([id : Nat, seq : 0 .. MaxDispatches + 1]) /\ Len(handled') = Len(handled) + 1
          /\ handled'[Len(handled) + 1] = entry /\ \A i \in 1 .. Len(handled) : handled'[i] = handled[i]
      BY <1>s, <2>1, <2>10, AppendProperties
    <3> QED
      BY <3>1, LenProperties
  <2>12. spoken' \subseteq Discord!Kinds
    BY <1>t, <2>1, <2>8 DEF Discord!TypeOK
  <2>13. Discord!TypeOK'
    BY <1>1, <1>2, <1>t, <2>1, <2>9, <2>11, <2>12 DEF Discord!TypeOK, Discord!Sequence
  <2>14. Remembered'
    <3>1. \A i \in 1 .. Len(handled') : handled'[i].id <= server.id
      <4> TAKE i \in 1 .. Len(handled')
      <4>1. CASE i = Len(handled) + 1
        BY <1>s, <2>10, <2>11, <4>1
      <4>2. CASE i \in 1 .. Len(handled)
        BY <2>11, <4>2 DEF DiscordInv, Remembered
      <4> QED
        BY <1>s, <2>11, <4>1, <4>2
    <3>2. handled'[Len(handled')].id = server.id /\ handled'[Len(handled')].seq = session'.seq /\ Len(handled') > 0
      BY <1>s, <2>4, <2>5, <2>10, <2>11
    <3>3. session'.seq # 0 /\ session'.seq <= Len(server.log) + 1
      BY <1>s, <2>4, <2>5
    <3> QED
      BY <1>1, <2>5, <3>1, <3>2, <3>3 DEF Remembered
  <2>15. Discord!EachOnceInOrder'
    <3> SUFFICES ASSUME NEW i \in 1 .. Len(handled) + 1
                 PROVE  handled'[i].seq = IF i > 1 /\ handled'[i - 1].id = handled'[i].id
                                          THEN handled'[i - 1].seq + 1 ELSE 2
      BY <2>11 DEF Discord!EachOnceInOrder
    <3>1. CASE i \in 1 .. Len(handled)
      <4>0. i > 1 => i - 1 \in 1 .. Len(handled)
        BY <1>s, <3>1
      <4>1. handled'[i] = handled[i] /\ (i > 1 => handled'[i - 1] = handled[i - 1])
        BY <2>11, <3>1, <4>0
      <4>2. handled[i].seq = IF i > 1 /\ handled[i - 1].id = handled[i].id THEN handled[i - 1].seq + 1 ELSE 2
        BY <1>s, <3>1 DEF DiscordInv, Discord!EachOnceInOrder
      <4> QED
        BY <4>1, <4>2
    <3>2. CASE i = Len(handled) + 1
      <4>1. handled'[i].id = server.id /\ handled'[i].seq = session.seq + 1
        BY <2>4, <2>10, <2>11, <3>2
      <4>2. session.seq = IF Len(handled) > 0 /\ handled[Len(handled)].id = server.id
                          THEN handled[Len(handled)].seq ELSE 1
        BY <2>5 DEF DiscordInv, Remembered
      <4>3. i > 1 => i - 1 = Len(handled) /\ handled'[i - 1] = handled[Len(handled)] /\ Len(handled) > 0
        <5>1. i > 1 => i - 1 = Len(handled) /\ Len(handled) \in 1 .. Len(handled)
          BY <1>s, <3>2
        <5>2. i > 1 => handled'[Len(handled)] = handled[Len(handled)]
          BY <2>11, <5>1
        <5> QED
          BY <1>s, <5>1, <5>2
      <4>4. i > 1 <=> Len(handled) > 0
        BY <1>s, <3>2
      <4> QED
        BY <4>1, <4>2, <4>3, <4>4
    <3> QED
      BY <1>s, <3>1, <3>2
  <2>16. Discord!OwnAreSilent'
    BY <2>1, <2>5 DEF DiscordInv, Discord!OwnAreSilent, Discord!Passes
  <2>17. Beats' /\ Discord!OnlyTheDeadAreZombies'
    BY <1>1, <2>1 DEF DiscordInv, Beats, Discord!OnlyTheDeadAreZombies
  <2> QED
    BY <1>1, <2>7, <2>13, <2>14, <2>15, <2>16, <2>17 DEF DiscordInv, Quiet
<1>7. CASE Discord!Resume \/ Discord!Prompt
  <2>1. /\ UNCHANGED <<session, fresh, handled, spoken>> /\ f.op \in {"resumed", "prompt"}
        /\ inFlight' \in BOOLEAN /\ (owed' = owed \/ owed' = Append(owed, "prompt"))
    BY <1>7, <1>t DEF Discord!Resume, Discord!Prompt, Discord!Read, f, Discord!TypeOK
  <2>2. Plain(f.op) /\ f.op # "ready"
    BY <2>1 DEF Plain
  <2>3. ASSUME NEW n, Numbered(n) PROVE (\E m : Numbered(m)') /\ \A i \in 1 .. Len(wire') : wire'[i].op # "ready"
    <3>1. n[1] = n[1 - 1] /\ n[0] = session.seq
      BY <1>2, <1>3, <2>2, <2>3 DEF Numbered
    <3>2. session'.seq = n[1]
      BY <2>1, <3>1
    <3> QED
      BY <1>1, <1>t, <2>1, <2>3, <3>2, TailNumbered
  <2>4. OnWire'
    <3>1. CASE Live
      BY <1>1, <2>1, <2>3, <3>1 DEF Live, OnWire
    <3>2. CASE Bare
      <4>1. \A i \in 1 .. Len(wire') : Plain(wire'[i].op)
        <5> TAKE i \in 1 .. Len(wire')
        <5>1. i + 1 \in 1 .. Len(wire) /\ wire'[i] = wire[i + 1]
          BY <1>2, <1>s
        <5> QED
          BY <3>2, <5>1 DEF Bare
      <4> QED
        BY <1>1, <3>2, <4>1 DEF Bare, OnWire
    <3> QED
      BY <1>2, <1>o, <2>2, <3>1, <3>2 DEF Identifying
  <2>5. /\ owed' \in Seq({"due", "prompt"}) /\ Len(owed') >= Len(owed)
        /\ \A i \in 1 .. Len(owed) : owed'[i] = owed[i] /\ i \in 1 .. Len(owed')
    <3>1. /\ Append(owed, "prompt") \in Seq({"due", "prompt"}) /\ Len(Append(owed, "prompt")) = Len(owed) + 1
          /\ \A i \in 1 .. Len(owed) : Append(owed, "prompt")[i] = owed[i]
      BY <1>s, AppendProperties
    <3>2. CASE owed' = owed
      BY <1>s, <3>2
    <3>3. CASE owed' = Append(owed, "prompt")
      BY <1>s, <3>1, <3>3
    <3> QED
      BY <2>1, <3>2, <3>3
  <2>6. Discord!TypeOK'
    BY <1>1, <1>2, <1>t, <2>1, <2>5 DEF Discord!TypeOK
  <2>7. Beats'
    BY <1>1, <2>1, <2>5 DEF DiscordInv, Beats
  <2>8. Remembered' /\ Discord!EachOnceInOrder' /\ Discord!OnlyTheDeadAreZombies' /\ Discord!OwnAreSilent'
    BY <1>1, <2>1 DEF DiscordInv, Remembered, Discord!EachOnceInOrder, Discord!OnlyTheDeadAreZombies, Discord!OwnAreSilent
  <2> QED
    BY <1>1, <2>4, <2>6, <2>7, <2>8 DEF DiscordInv, Quiet
<1> QED
  BY <1>5, <1>6, <1>7

\* HELLO: the session is resumed, or Discord knows none, or a new one begins.
LEMMA HelloStep ==
  ASSUME Discord!DiscordAssumption, DiscordInv, Discord!Hello
  PROVE  DiscordInv'
<1> USE DEF Discord!beat, Discord!net, Discord!history
<1>t. Discord!TypeOK
  BY DEF DiscordInv
<1>s. /\ session \in [id : 0 .. GatewayFaults + 1, seq : 0 .. MaxDispatches + 1, url : BOOLEAN, bot : BOOLEAN]
      /\ session.id \in Nat /\ session.seq \in Nat
      /\ server \in [id : 0 .. GatewayFaults + 1, log : Seq(Discord!Kinds), valid : BOOLEAN, here : BOOLEAN]
      /\ server.id \in Nat /\ server.log \in Seq(Discord!Kinds) /\ Len(server.log) \in Nat
      /\ MaxDispatches \in Nat /\ GatewayFaults \in Nat /\ Len(server.log) <= MaxDispatches
      /\ Len(handled) \in Nat
      /\ \A i \in 1 .. Len(handled) : handled[i].id \in Nat /\ handled[i].seq \in Nat
  BY <1>t, DiscordTypes DEF DiscordInv
<1>1. /\ UNCHANGED <<creds, retry, session, owed, socket, hosts, handled, spoken, zombies, mishaps>>
      /\ gateway = "hello" /\ socket = "up" /\ gateway' = "read" /\ inFlight' = FALSE /\ fresh' = TRUE
      /\ IF Discord!CanResume THEN Discord!Resumed ELSE server.id <= GatewayFaults /\ Discord!Identified
  BY DEF Discord!Hello
<1>2. Beats' /\ Discord!EachOnceInOrder' /\ Discord!OnlyTheDeadAreZombies' /\ Discord!OwnAreSilent'
  BY <1>1 DEF DiscordInv, Beats, Discord!EachOnceInOrder, Discord!OnlyTheDeadAreZombies, Discord!OwnAreSilent
<1>3. CASE ~Discord!CanResume
  <2>1. /\ server.id <= GatewayFaults
        /\ server' = [id |-> server.id + 1, log |-> <<>>, valid |-> TRUE, here |-> TRUE]
        /\ wire' = <<[op |-> "ready", id |-> server.id + 1]>>
    BY <1>1, <1>3 DEF Discord!Identified
  <2>2. session.id = 0 /\ session.seq = 0
    BY <1>3 DEF Discord!CanResume, DiscordInv, Remembered
  <2>3. [op |-> "ready", id |-> server.id + 1] \in Discord!Frames /\ server.id + 1 \in 0 .. GatewayFaults + 1
    BY <1>s, <2>1 DEF Discord!Frames
  <2>4. wire' \in Seq(Discord!Frames) /\ Len(wire') = 1 /\ wire'[1].op = "ready" /\ wire'[1].id = server.id + 1
    BY <2>1, <2>3
  <2>5. <<>> \in Seq(Discord!Kinds) /\ Len(<<>>) = 0
    BY EmptySeq
  <2>6. server' \in [id : 0 .. GatewayFaults + 1, log : Seq(Discord!Kinds), valid : BOOLEAN, here : BOOLEAN]
        /\ server'.id = server.id + 1 /\ Len(server'.log) = 0
    BY <2>1, <2>3, <2>5
  <2>7. Discord!TypeOK'
    BY <1>1, <1>t, <2>4, <2>6 DEF Discord!TypeOK
  <2>8. \A i \in 1 .. Len(handled) : handled[i].id <= server.id
    BY DEF DiscordInv, Remembered
  <2>9. Remembered'
    BY <1>1, <1>s, <2>2, <2>6, <2>8 DEF Remembered
  <2>10. Identifying'
    <3>1. PICK m \in [0 .. 1 -> Nat] : m[0] = 0 /\ m[1] = 1
      <4> DEFINE g == [i \in 0 .. 1 |-> i]
      <4>1. g \in [0 .. 1 -> Nat] /\ g[0] = 0 /\ g[1] = 1
        OBVIOUS
      <4> QED
        BY <4>1
    <3>2. Numbered(m)'
      <4>1. 0 .. Len(wire') = 0 .. 1 /\ \A i \in 1 .. Len(wire') : i = 1
        BY <2>4
      <4> QED
        BY <1>1, <2>2, <2>4, <2>6, <3>1, <4>1 DEF Numbered, Plain
    <3> QED
      BY <1>1, <1>s, <2>2, <2>4, <2>6, <2>8, <3>2 DEF Identifying
  <2> QED
    BY <1>1, <1>2, <1>s, <2>6, <2>7, <2>9, <2>10 DEF DiscordInv, OnWire, Quiet
<1>4. CASE Discord!CanResume /\ ~(server.valid /\ server.id = session.id)
  <2>1. wire' = <<[op |-> "invalid"]>> /\ server' = server
    BY <1>1, <1>4 DEF Discord!Resumed
  <2>2. [op |-> "invalid"] \in Discord!Frames
    BY DEF Discord!Frames
  <2>3. wire' \in Seq(Discord!Frames) /\ Len(wire') = 1 /\ wire'[1].op = "invalid"
    BY <2>1, <2>2
  <2>4. Discord!TypeOK'
    BY <1>1, <1>t, <2>1, <2>3 DEF Discord!TypeOK
  <2>5. Remembered'
    BY <1>1, <2>1 DEF DiscordInv, Remembered
  <2>6. ~server.here
    BY <1>1 DEF DiscordInv, Quiet
  <2>7. Bare'
    BY <2>1, <2>3, <2>6 DEF Bare, Plain
  <2> QED
    BY <1>1, <1>2, <1>s, <2>1, <2>4, <2>5, <2>7 DEF DiscordInv, OnWire, Quiet
<1>5. CASE Discord!CanResume /\ server.valid /\ server.id = session.id
  <2> DEFINE k == Len(server.log) + 1 - session.seq
             F(i) == [op |-> "dispatch", seq |-> session.seq + i, kind |-> server.log[session.seq + i - 1]]
             missed == [i \in 1 .. k |-> F(i)]
             tail == <<[op |-> "resumed"]>>
  <2>1. wire' = missed \o tail /\ server' = [server EXCEPT !.here = TRUE]
    BY <1>1, <1>5 DEF Discord!Resumed
  <2>2. session.id # 0 /\ session.seq # 0 /\ session.seq <= Len(server.log) + 1
    BY <1>5 DEF Discord!CanResume, DiscordInv, Remembered
  <2>3. k \in Nat /\ session.seq + k = Len(server.log) + 1
    BY <1>s, <2>2
  <2>4. \A i \in 1 .. k : F(i) \in Discord!Frames
    <3> TAKE i \in 1 .. k
    <3>0. i \in Nat /\ i >= 1 /\ session.seq + i <= Len(server.log) + 1 /\ session.seq >= 1
      BY <1>s, <2>2, <2>3
    <3>1. session.seq + i \in 0 .. MaxDispatches + 1 /\ session.seq + i - 1 \in 1 .. Len(server.log)
      <4> HIDE DEF k
      <4>1. session.seq + i <= MaxDispatches + 1 /\ session.seq + i \in Nat
        BY <1>s, <3>0
      <4>2. session.seq + i - 1 \in Nat /\ session.seq + i - 1 >= 1 /\ session.seq + i - 1 <= Len(server.log)
        BY <1>s, <3>0
      <4> QED
        BY <1>s, <4>1, <4>2
    <3>2. server.log[session.seq + i - 1] \in Discord!Kinds
      BY <1>s, <3>1, ElementOfSeq
    <3>3. F(i) \in Discord!Dispatches
      BY <3>1, <3>2 DEF Discord!Dispatches, Discord!Sequence
    <3> QED
      BY <3>3 DEF Discord!Frames
  <2>5. missed \in Seq(Discord!Frames) /\ Len(missed) = k /\ \A i \in 1 .. k : missed[i] = F(i)
    <3> HIDE DEF k, F
    <3> QED
      BY <2>3, <2>4
  <2>6. tail \in Seq(Discord!Frames) /\ Len(tail) = 1 /\ tail[1].op = "resumed"
    <3>1. [op |-> "resumed"] \in Discord!Frames
      BY DEF Discord!Frames
    <3> QED
      BY <3>1
  <2>7. \A i \in 1 .. k : F(i).op = "dispatch" /\ F(i).seq = session.seq + i
    OBVIOUS
  <2> HIDE DEF missed, tail, F
  <2>8. /\ wire' \in Seq(Discord!Frames) /\ Len(wire') = k + 1
        /\ \A i \in 1 .. k : wire'[i].op = "dispatch" /\ wire'[i].seq = session.seq + i
        /\ wire'[k + 1].op = "resumed"
    <3>1. /\ wire' \in Seq(Discord!Frames) /\ Len(wire') = k + 1
          /\ \A i \in 1 .. k + 1 : wire'[i] = IF i <= k THEN missed[i] ELSE tail[i - k]
      <4> HIDE DEF k
      <4>1. /\ missed \o tail \in Seq(Discord!Frames) /\ Len(missed \o tail) = Len(missed) + Len(tail)
            /\ \A i \in 1 .. Len(missed) + Len(tail) :
                 (missed \o tail)[i] = IF i <= Len(missed) THEN missed[i] ELSE tail[i - Len(missed)]
        BY <2>5, <2>6, ConcatProperties
      <4>2. Len(missed) = k /\ Len(tail) = 1
        BY <2>5, <2>6
      <4> QED
        BY <2>1, <4>1, <4>2
    <3>2. \A i \in 1 .. k : wire'[i] = F(i)
      BY <2>3, <2>5, <3>1
    <3>3. wire'[k + 1] = tail[1]
      BY <2>3, <3>1
    <3> QED
      BY <2>6, <2>7, <3>1, <3>2, <3>3
  <2>9. /\ server' \in [id : 0 .. GatewayFaults + 1, log : Seq(Discord!Kinds), valid : BOOLEAN, here : BOOLEAN]
        /\ server'.id = server.id /\ server'.log = server.log
    BY <1>s, <2>1
  <2>10. Discord!TypeOK'
    BY <1>1, <1>t, <2>8, <2>9 DEF Discord!TypeOK
  <2>11. Remembered'
    BY <1>1, <2>9 DEF DiscordInv, Remembered
  <2> HIDE DEF k
  <2>12. Live'
    <3>1. PICK m \in [0 .. k + 1 -> Nat] : m[k + 1] = session.seq + k /\ \A i \in 0 .. k : m[i] = session.seq + i
      <4> DEFINE g == [i \in 0 .. k + 1 |-> IF i = k + 1 THEN session.seq + k ELSE session.seq + i]
      <4>1. g \in [0 .. k + 1 -> Nat] /\ g[k + 1] = session.seq + k /\ \A i \in 0 .. k : g[i] = session.seq + i
        BY <1>s, <2>3
      <4> QED
        BY <4>1
    <3>2. ASSUME NEW i \in 1 .. k + 1
          PROVE  /\ m[i] <= Len(server.log) + 1
                 /\ wire'[i].op = "dispatch" => m[i - 1] # 0 /\ m[i] = m[i - 1] + 1 /\ wire'[i].seq = m[i]
                 /\ wire'[i].op # "ready"
                 /\ Plain(wire'[i].op) => m[i] = m[i - 1]
      <4>1. CASE i \in 1 .. k
        <5>1. i - 1 \in 0 .. k /\ i \in 0 .. k
          BY <2>3, <4>1
        <5>2. m[i] = session.seq + i /\ m[i - 1] = session.seq + (i - 1) /\ wire'[i].op = "dispatch" /\ wire'[i].seq = session.seq + i
          BY <2>8, <3>1, <4>1, <5>1
        <5>3. session.seq + i \in Nat /\ session.seq + (i - 1) # 0 /\ session.seq + i = (session.seq + (i - 1)) + 1
          BY <1>s, <2>2, <4>1
        <5>4. session.seq + i <= Len(server.log) + 1
          BY <1>s, <2>3, <4>1
        <5> QED
          BY <5>2, <5>3, <5>4 DEF Plain
      <4>2. CASE i = k + 1
        <5>1. i - 1 = k /\ k \in 0 .. k
          BY <2>3, <4>2
        <5>2. m[i] = session.seq + k /\ m[i - 1] = session.seq + k /\ wire'[i].op = "resumed"
          BY <2>8, <3>1, <4>2, <5>1
        <5>3. session.seq + k <= Len(server.log) + 1
          BY <1>s, <2>3
        <5>4. m[i] <= Len(server.log) + 1
          BY <5>2, <5>3
        <5>5. wire'[i].op # "dispatch" /\ wire'[i].op # "ready" /\ m[i] = m[i - 1]
          BY <5>2
        <5> QED
          BY <5>4, <5>5
      <4> QED
        BY <2>3, <4>1, <4>2
    <3>3. m[0] = session.seq /\ m[Len(wire')] = Len(server.log) + 1
      BY <1>s, <2>3, <2>8, <3>1
    <3>4. Numbered(m)'
      BY <1>1, <2>8, <2>9, <3>1, <3>2, <3>3 DEF Numbered
    <3> QED
      BY <1>1, <1>5, <2>2, <2>8, <2>9, <3>2, <3>4 DEF Live
  <2> QED
    BY <1>1, <1>2, <1>s, <2>9, <2>10, <2>11, <2>12 DEF DiscordInv, OnWire, Quiet
<1> QED
  BY <1>3, <1>4, <1>5

\* Discord, the network, the user: what they change of the connection leaves it as it is
\* understood, and no session is resumed to what it has handled.
LEMMA EnvironmentStep ==
  ASSUME Discord!DiscordAssumption, DiscordInv, Discord!Environment
  PROVE  DiscordInv'
<1> USE DEF Discord!beat, Discord!net, Discord!history
<1>t. Discord!TypeOK
  BY DEF DiscordInv
<1>s. /\ session \in [id : 0 .. GatewayFaults + 1, seq : 0 .. MaxDispatches + 1, url : BOOLEAN, bot : BOOLEAN]
      /\ session.id \in Nat /\ session.seq \in Nat
      /\ wire \in Seq(Discord!Frames) /\ Len(wire) \in Nat
      /\ owed \in Seq({"due", "prompt"}) /\ Len(owed) \in Nat
      /\ server \in [id : 0 .. GatewayFaults + 1, log : Seq(Discord!Kinds), valid : BOOLEAN, here : BOOLEAN]
      /\ server.id \in Nat /\ server.log \in Seq(Discord!Kinds) /\ Len(server.log) \in Nat
      /\ MaxDispatches \in Nat /\ GatewayFaults \in Nat /\ mishaps \in 0 .. GatewayFaults
  BY <1>t, DiscordTypes
<1>1. UNCHANGED <<gateway, retry, session, inFlight, fresh, handled, spoken, zombies>>
  BY DEF Discord!Environment, Discord!Emit, Discord!Ask, Discord!Break, Discord!Expire, Discord!Rotate, Discord!Auth
<1>2. Discord!EachOnceInOrder' /\ Discord!OnlyTheDeadAreZombies' /\ Discord!OwnAreSilent'
  BY <1>1 DEF DiscordInv, Discord!EachOnceInOrder, Discord!OnlyTheDeadAreZombies, Discord!OwnAreSilent
<1>m. ASSUME Discord!Fault PROVE mishaps' \in 0 .. GatewayFaults
  BY <1>m, <1>s DEF Discord!Fault
<1>o. gateway = "read" => Identifying \/ Live \/ Bare
  BY DEF DiscordInv, OnWire
\* A frame behind the others.
<1>a. ASSUME NEW fr \in Discord!Frames, fr.op # "ready", wire' = Append(wire, fr), socket' = "up", socket = "up",
             server.here, server'.here, server'.id = server.id, Len(server'.log) \in Nat,
             \/ fr.op = "dispatch" /\ fr.seq = Len(server.log) + 2 /\ Len(server'.log) = Len(server.log) + 1
             \/ Plain(fr.op) /\ Len(server'.log) = Len(server.log)
      PROVE  OnWire' /\ wire' \in Seq(Discord!Frames)
  <2>1. wire' \in Seq(Discord!Frames)
    BY <1>a, <1>s, AppendProperties
  <2>2. SUFFICES ASSUME gateway = "read" PROVE OnWire'
    BY <1>1, <2>1 DEF OnWire
  <2>3. ~Bare
    BY <1>a DEF Bare
  <2>4. PICK n : Numbered(n)
    BY <1>o, <2>2, <2>3 DEF Identifying, Live
  <2>5. n[Len(wire)] = Len(server.log) + 1
    BY <1>a, <2>4 DEF Numbered
  <2>6. Len(server.log) <= Len(server'.log)
    BY <1>a, <1>s
  <2>7. /\ \E m : Numbered(m)'
        /\ Len(wire') = Len(wire) + 1 /\ wire'[Len(wire) + 1] = fr
        /\ \A i \in 1 .. Len(wire) : wire'[i] = wire[i]
    BY <1>1, <1>a, <1>t, <2>4, <2>5, <2>6, AppendNumbered
  <2>8. CASE Identifying
    <3>1. 1 \in 1 .. Len(wire) /\ Len(wire') > 0 /\ wire'[1] = wire[1]
      BY <1>s, <2>7, <2>8 DEF Identifying
    <3> QED
      BY <1>1, <1>a, <2>7, <2>8, <3>1 DEF Identifying, OnWire
  <2>9. CASE Live
    <3>1. \A i \in 1 .. Len(wire') : wire'[i].op # "ready"
      <4> TAKE i \in 1 .. Len(wire')
      <4>1. CASE i \in 1 .. Len(wire)
        BY <2>7, <2>9, <4>1 DEF Live
      <4>2. CASE i = Len(wire) + 1
        BY <1>a, <2>7, <4>2
      <4> QED
        BY <1>s, <2>7, <4>1, <4>2
    <3> QED
      BY <1>1, <1>a, <2>7, <2>9, <3>1 DEF Live, OnWire
  <2> QED
    BY <1>o, <2>2, <2>3, <2>8, <2>9
\* The frames stay, or nothing but the connection's last ones; the log may grow where nobody is sent it.
<1>b. ASSUME wire' = wire, server'.id = server.id, Len(server'.log) \in Nat, Len(server.log) <= Len(server'.log),
             server'.here /\ socket' = "up" => server.here /\ socket = "up" /\ Len(server'.log) = Len(server.log),
             server'.here => server.here
      PROVE  OnWire'
  <2>1. ASSUME NEW n, Numbered(n) PROVE Numbered(n)'
    <3>1. \A i \in 1 .. Len(wire) : n[i] <= Len(server'.log) + 1
      <4> TAKE i \in 1 .. Len(wire)
      <4>0. i \in 0 .. Len(wire) /\ n \in [0 .. Len(wire) -> Nat] /\ n[i] <= Len(server.log) + 1
        BY <1>s, <2>1 DEF Numbered
      <4>1. n[i] \in Nat /\ n[i] <= Len(server.log) + 1
        BY <4>0
      <4> QED
        BY <1>b, <1>s, <4>1
    <3>2. n \in [0 .. Len(wire) -> Nat] /\ n[0] = session.seq
      BY <2>1 DEF Numbered
    <3>3. server'.here /\ socket' = "up" => n[Len(wire)] = Len(server'.log) + 1
      BY <1>b, <2>1 DEF Numbered
    <3> QED
      BY <1>1, <1>b, <2>1, <3>1, <3>2, <3>3 DEF Numbered
  <2>2. Identifying => Identifying'
    <3> SUFFICES ASSUME Identifying PROVE Identifying'
      OBVIOUS
    <3>1. PICK n : Numbered(n)
      BY DEF Identifying
    <3>2. Numbered(n)'
      BY <2>1, <3>1
    <3> QED
      BY <1>1, <1>b, <3>2 DEF Identifying
  <2>3. Live => Live'
    <3> SUFFICES ASSUME Live PROVE Live'
      OBVIOUS
    <3>1. PICK n : Numbered(n)
      BY DEF Live
    <3>2. Numbered(n)'
      BY <2>1, <3>1
    <3> QED
      BY <1>1, <1>b, <3>2 DEF Live
  <2>4. Bare => Bare'
    BY <1>b DEF Bare
  <2> QED
    BY <1>1, <1>o, <2>2, <2>3, <2>4 DEF OnWire
\* A log that grows keeps what the session remembers.
<1>r. ASSUME server'.id = server.id, Len(server'.log) \in Nat, Len(server.log) <= Len(server'.log)
      PROVE  Remembered'
  <2>1. session.id # 0 /\ session.id = server.id => session.seq <= Len(server'.log) + 1
    <3>1. session.id # 0 /\ session.id = server.id => session.seq <= Len(server.log) + 1
      BY DEF DiscordInv, Remembered
    <3> QED
      BY <1>r, <1>s, <3>1
  <2> QED
    BY <1>1, <1>r, <2>1 DEF DiscordInv, Remembered
<1>3. CASE Discord!Emit
  <2>1. PICK kind \in Discord!Kinds :
          /\ server' = [server EXCEPT !.log = Append(@, kind)]
          /\ wire' = IF server.here /\ socket = "up"
                     THEN Append(wire, [op |-> "dispatch", seq |-> Len(server.log) + 2, kind |-> kind]) ELSE wire
    BY <1>3 DEF Discord!Emit
  <2>2. UNCHANGED <<creds, owed, socket, hosts, mishaps>> /\ Len(server.log) < MaxDispatches
    BY <1>3 DEF Discord!Emit
  <2>3. /\ Append(server.log, kind) \in Seq(Discord!Kinds) /\ Len(Append(server.log, kind)) = Len(server.log) + 1
    BY <1>s, AppendProperties
  <2>4. /\ server' \in [id : 0 .. GatewayFaults + 1, log : Seq(Discord!Kinds), valid : BOOLEAN, here : BOOLEAN]
        /\ server'.id = server.id /\ server'.here = server.here /\ Len(server'.log) = Len(server.log) + 1
    BY <1>s, <2>1, <2>3
  <2>5. Len(server'.log) \in Nat /\ Len(server'.log) <= MaxDispatches /\ Len(server.log) <= Len(server'.log)
    BY <1>s, <2>2, <2>4
  <2>6. OnWire' /\ wire' \in Seq(Discord!Frames)
    <3> DEFINE fr == [op |-> "dispatch", seq |-> Len(server.log) + 2, kind |-> kind]
    <3>1. fr \in Discord!Frames /\ fr.op = "dispatch" /\ fr.seq = Len(server.log) + 2
      <4>1. Len(server.log) + 2 \in 0 .. MaxDispatches + 1
        BY <1>s, <2>2
      <4> QED
        BY <4>1 DEF Discord!Frames, Discord!Dispatches, Discord!Sequence
    <3>2. CASE server.here /\ socket = "up"
      <4>1. wire' = Append(wire, fr)
        BY <2>1, <3>2
      <4> HIDE DEF fr
      <4> QED
        BY <1>a, <2>2, <2>4, <2>5, <3>1, <3>2, <4>1
    <3>3. CASE ~(server.here /\ socket = "up")
      BY <1>b, <1>s, <2>1, <2>2, <2>4, <2>5, <3>3
    <3> QED
      BY <3>2, <3>3
  <2>7. Remembered'
    BY <1>r, <2>4, <2>5
  <2>8. Quiet' /\ Beats'
    BY <1>1, <2>2, <2>4 DEF DiscordInv, Quiet, Beats
  <2>9. Discord!TypeOK'
    BY <1>1, <1>t, <2>2, <2>4, <2>6 DEF Discord!TypeOK
  <2> QED
    BY <1>2, <2>5, <2>6, <2>7, <2>8, <2>9 DEF DiscordInv
<1>4. CASE Discord!Ask
  <2>1. PICK op \in {"reconnect", "prompt", "resumable"} : wire' = Append(wire, [op |-> op])
    BY <1>4 DEF Discord!Ask
  <2>2. /\ UNCHANGED <<creds, owed, socket, hosts, server>> /\ server.here /\ socket = "up"
        /\ mishaps' \in 0 .. GatewayFaults
    BY <1>4, <1>m DEF Discord!Ask
  <2> DEFINE fr == [op |-> op]
  <2>3. fr \in Discord!Frames /\ Plain(fr.op)
    BY DEF Discord!Frames, Plain
  <2>4. wire' = Append(wire, fr)
    BY <2>1
  <2> HIDE DEF fr
  <2>5. OnWire' /\ wire' \in Seq(Discord!Frames)
    BY <1>a, <1>s, <2>2, <2>3, <2>4 DEF Plain
  <2>6. Remembered' /\ Quiet' /\ Beats'
    BY <1>1, <2>2 DEF DiscordInv, Remembered, Quiet, Beats
  <2>7. Discord!TypeOK'
    BY <1>1, <1>t, <2>2, <2>5 DEF Discord!TypeOK
  <2> QED
    BY <1>2, <2>2, <2>5, <2>6, <2>7 DEF DiscordInv
<1>5. CASE Discord!Break
  <2>1. /\ UNCHANGED <<creds, hosts>> /\ mishaps' \in 0 .. GatewayFaults /\ owed' = <<>>
        /\ socket' \in {"closed", "dead"} /\ (wire' = <<>> \/ wire' = wire)
        /\ server' = [server EXCEPT !.here = FALSE]
    BY <1>5, <1>m DEF Discord!Break
  <2>2. /\ server' \in [id : 0 .. GatewayFaults + 1, log : Seq(Discord!Kinds), valid : BOOLEAN, here : BOOLEAN]
        /\ server'.id = server.id /\ ~server'.here /\ server'.log = server.log
    BY <1>s, <2>1
  <2>3. <<>> \in Seq(Discord!Frames) /\ <<>> \in Seq({"due", "prompt"}) /\ Len(<<>>) = 0
    BY EmptySeq
  <2>4. OnWire'
    <3>1. CASE wire' = wire
      BY <1>b, <1>s, <2>1, <2>2, <3>1
    <3>2. CASE wire' = <<>>
      BY <2>2, <2>3, <3>2 DEF Bare, OnWire
    <3> QED
      BY <2>1, <3>1, <3>2
  <2>5. Remembered'
    BY <1>r, <1>s, <2>2
  <2>6. Quiet' /\ Beats'
    BY <2>1, <2>2 DEF Quiet, Beats
  <2>7. Discord!TypeOK'
    BY <1>1, <1>t, <2>1, <2>2, <2>3 DEF Discord!TypeOK
  <2> QED
    BY <1>2, <2>2, <2>4, <2>5, <2>6, <2>7 DEF DiscordInv
<1>6. CASE Discord!Expire \/ Discord!Rotate \/ Discord!Auth
  <2>1. /\ UNCHANGED <<owed, socket, wire>> /\ creds' \in BOOLEAN /\ hosts' \in BOOLEAN
        /\ mishaps' \in 0 .. GatewayFaults
        /\ server' = server \/ server' = [server EXCEPT !.valid = FALSE]
    BY <1>6, <1>m, <1>s, <1>t DEF Discord!Expire, Discord!Rotate, Discord!Auth, Discord!TypeOK
  <2>2. /\ server' \in [id : 0 .. GatewayFaults + 1, log : Seq(Discord!Kinds), valid : BOOLEAN, here : BOOLEAN]
        /\ server'.id = server.id /\ server'.here = server.here /\ server'.log = server.log
    BY <1>s, <2>1
  <2>3. OnWire' /\ Remembered'
    BY <1>b, <1>r, <1>s, <2>1, <2>2
  <2>4. Quiet' /\ Beats'
    BY <1>1, <2>1, <2>2 DEF DiscordInv, Quiet, Beats
  <2>5. Discord!TypeOK'
    BY <1>1, <1>t, <2>1, <2>2 DEF Discord!TypeOK
  <2> QED
    BY <1>2, <2>2, <2>3, <2>4, <2>5 DEF DiscordInv
<1> QED
  BY <1>3, <1>4, <1>5, <1>6 DEF Discord!Environment

LEMMA DiscordStutters ==
  ASSUME DiscordInv, UNCHANGED Discord!vars PROVE DiscordInv'
<1> USE DEF Discord!vars, Discord!beat, Discord!net, Discord!history
<1>1. UNCHANGED <<creds, gateway, retry, session, inFlight, fresh, socket, wire, owed, hosts, server,
                  handled, spoken, zombies, mishaps>>
  OBVIOUS
<1>2. \A n : Numbered(n)' <=> Numbered(n)
  BY <1>1 DEF Numbered
<1>3. (Identifying' <=> Identifying) /\ (Live' <=> Live) /\ (Bare' <=> Bare)
  BY <1>1, <1>2 DEF Identifying, Live, Bare
<1> QED
  BY <1>1, <1>3 DEF DiscordInv, Discord!TypeOK, Remembered, OnWire, Quiet, Beats, Discord!EachOnceInOrder,
                    Discord!OnlyTheDeadAreZombies, Discord!OwnAreSilent

LEMMA DiscordNext ==
  ASSUME Discord!DiscordAssumption, DiscordInv, [Discord!Next]_(Discord!vars) PROVE DiscordInv'
<1>1. CASE UNCHANGED Discord!vars
  BY <1>1, DiscordStutters
<1>2. CASE Discord!Environment
  BY <1>2, EnvironmentStep
<1>3. CASE Discord!HeartbeatDue \/ Discord!HeartbeatAck
  BY <1>3, HeartbeatStep
<1>4. CASE Discord!Hello
  BY <1>4, HelloStep
<1>5. CASE Discord!Ready \/ Discord!Dispatch \/ Discord!Resume \/ Discord!Prompt
  BY <1>5, ReadStep
<1>6. CASE \/ Discord!Resolve \/ Discord!Sleep \/ Discord!Connect \/ Discord!NoHello
           \/ Discord!ServerReconnect \/ Discord!InvalidSession \/ Discord!Ends
  BY <1>6, LeavingStep
<1> QED
  BY <1>1, <1>2, <1>3, <1>4, <1>5, <1>6 DEF Discord!Next, Discord!Work, Discord!Frame

-----------------------------------------------------------------------------
(* ServiceCalls *)

alive == v1
runs == v2
toServe == v3
said == v4
stage == v5
outcomes == v6
awaited == v7
waiters == v8
callers == v9
bus == v10
served == v11
strays == v12
setbacks == v13

USE DEF alive, runs, toServe, said, stage, outcomes, awaited, waiters, callers, bus, served, strays, setbacks

CallLines == Calls!Lines(Calls!Calls)
CallStages == {"new", "asked", "worker", "waiting", "answered", "done", "over"}
ProcessStates == {"up", "dead", "joining", "deaf", "down"}
Results == {"none", "ok", "error", "timeout"}

\* A call was sent to its service, or had its answer without.
Past(x) == stage[x] \in {"waiting", "answered", "done", "over"}
Has(x) == stage[x] \in {"answered", "done", "over"}

\* On a service's input: a request that it has not seen, or the result of a request of its own.
InLine(l, s) ==
  /\ l.call \in Calls!Calls
  /\ IF l.ok THEN /\ ~Calls!IsFirst(l.call) /\ Calls!Caller(l.call) = s /\ stage[l.call] = "over"
                  /\ l.success => outcomes[l.call] = "ok"
             ELSE l = Calls!Ask(l.call) /\ Calls!Callee(l.call) = s /\ served[l.call] = 0 /\ Past(l.call)

\* On its output: an answer to what it served, a request that is not taken up, an event, or a
\* line that is nothing.
OutLine(l, s) ==
  l.call \in Calls!Calls =>
    IF l.ok THEN /\ Calls!Callee(l.call) = s /\ served[l.call] = 1
                 /\ l = Calls!Answer(l.call, l.success)
                 /\ l.success /\ ~Calls!IsLast(l.call) => outcomes[Calls!Child(l.call)] = "ok"
    ELSE IF l.id THEN /\ l = Calls!Ask(l.call) /\ ~Calls!IsFirst(l.call) /\ Calls!Caller(l.call) = s
                      /\ stage[l.call] = "asked"
    ELSE l = Calls!Publish(l.call)

\* A call is asked for by one line at most.
Requests(l) == ~l.ok /\ l.id /\ l.call \in Calls!Calls
Single(q) == \A i, j \in 1 .. Len(q) : Requests(q[i]) /\ Requests(q[j]) /\ q[i].call = q[j].call => i = j

\* The event of a call is on the bus, or ahead of its answer.
Heard(q, n, x) == x \in bus \/ \E j \in 1 .. n : q[j] = Calls!Publish(x)
Announced(q) == \A i \in 1 .. Len(q) : q[i].ok /\ q[i].call \in Calls!Calls => Heard(q, i - 1, q[i].call)

OneCall(x) ==
  /\ served[x] \in {0, 1}
  /\ served[x] = 1 => Past(x) /\ Heard(said[Calls!Callee(x)], Len(said[Calls!Callee(x)]), x)
  /\ served[x] = 0 /\ ~Calls!IsLast(x) => stage[Calls!Child(x)] = "new"
  /\ outcomes[x] = "ok" => served[x] = 1 /\ x \in bus /\ Has(x)
  /\ outcomes[x] = "ok" /\ ~Calls!IsLast(x) => outcomes[Calls!Child(x)] = "ok"
  /\ x \in awaited[Calls!Callee(x)] <=> stage[x] = "waiting"

Waits == {x \in Calls!Calls : stage[x] \in {"waiting", "answered"}}

InputsMean == \A s \in Services : Single(toServe[s]) /\ \A i \in 1 .. Len(toServe[s]) : InLine(toServe[s][i], s)
OutputsMean ==
  \A s \in Services : /\ Single(said[s]) /\ Announced(said[s])
                      /\ \A i \in 1 .. Len(said[s]) : OutLine(said[s][i], s)
EachCall == \A x \in Calls!Calls : OneCall(x)
Counted == IsFiniteSet(Waits) /\ waiters = Cardinality(Waits)

CallsInv == Calls!TypeOK /\ InputsMean /\ OutputsMean /\ EachCall /\ Counted

\* What the chains say of a call.
LEMMA CallFacts ==
  ASSUME Calls!ServiceCallsAssumption, NEW x \in Calls!Calls
  PROVE  /\ Calls!Callee(x) \in Services
         /\ ~Calls!IsLast(x) => /\ Calls!Child(x) \in Calls!Calls /\ ~Calls!IsFirst(Calls!Child(x))
                                /\ Calls!Parent(Calls!Child(x)) = x /\ Calls!Child(x) # x
                                /\ Calls!Caller(Calls!Child(x)) = Calls!Callee(x)
         /\ ~Calls!IsFirst(x) => /\ Calls!Parent(x) \in Calls!Calls /\ ~Calls!IsLast(Calls!Parent(x))
                                 /\ Calls!Child(Calls!Parent(x)) = x
                                 /\ Calls!Callee(Calls!Parent(x)) = Calls!Caller(x)
         /\ \A y \in Calls!Calls : Calls!Child(y) = Calls!Child(x) => x = y
<1>1. ASSUME NEW y \in Calls!Calls
      PROVE  y = <<y[1], y[2]>> /\ y[1] \in DOMAIN Chains /\ Chains[y[1]] \in Seq(Services)
             /\ Len(Chains[y[1]]) \in Nat /\ y[2] \in 1 .. Len(Chains[y[1]])
  <2>1. PICK c \in DOMAIN Chains : y \in {c} \X DOMAIN Chains[c]
    BY DEF Calls!Calls
  <2>2. Chains[c] \in Seq(Services)
    BY DEF Calls!ServiceCallsAssumption
  <2>3. DOMAIN Chains[c] = 1 .. Len(Chains[c]) /\ Len(Chains[c]) \in Nat
    BY <2>2, LenProperties
  <2> QED
    BY <2>1, <2>2, <2>3
<1>2. ASSUME NEW c \in DOMAIN Chains, NEW k \in 1 .. Len(Chains[c]) PROVE <<c, k>> \in Calls!Calls
  <2>1. Chains[c] \in Seq(Services)
    BY DEF Calls!ServiceCallsAssumption
  <2>2. k \in DOMAIN Chains[c]
    BY <2>1, LenProperties
  <2> QED
    BY <2>2 DEF Calls!Calls
<1> DEFINE c == x[1]
           k == x[2]
<1>3. c \in DOMAIN Chains /\ k \in 1 .. Len(Chains[c]) /\ Len(Chains[c]) \in Nat /\ x = <<c, k>>
  BY <1>1
<1>4. Calls!Callee(x) \in Services
  <2>1. Chains[c] \in Seq(Services)
    BY <1>1
  <2>2. Chains[c][k] \in Services
    BY <1>3, <2>1, ElementOfSeq
  <2> QED
    BY <2>2 DEF Calls!Callee
<1>5. ASSUME ~Calls!IsLast(x)
      PROVE  /\ Calls!Child(x) \in Calls!Calls /\ ~Calls!IsFirst(Calls!Child(x))
             /\ Calls!Parent(Calls!Child(x)) = x /\ Calls!Child(x) # x
             /\ Calls!Caller(Calls!Child(x)) = Calls!Callee(x)
  <2>1. k # Len(Chains[c])
    BY <1>5 DEF Calls!IsLast
  <2>2. k + 1 \in 1 .. Len(Chains[c]) /\ k + 1 # 1 /\ (k + 1) - 1 = k /\ k + 1 # k
    BY <1>3, <2>1
  <2>3. Calls!Child(x) = <<c, k + 1>>
    BY DEF Calls!Child
  <2>4. Calls!Parent(Calls!Child(x)) = x
    BY <1>3, <2>2, <2>3 DEF Calls!Parent
  <2> QED
    BY <1>2, <1>3, <2>2, <2>3, <2>4 DEF Calls!IsFirst, Calls!Caller
<1>6. ASSUME ~Calls!IsFirst(x)
      PROVE  /\ Calls!Parent(x) \in Calls!Calls /\ ~Calls!IsLast(Calls!Parent(x))
             /\ Calls!Child(Calls!Parent(x)) = x
             /\ Calls!Callee(Calls!Parent(x)) = Calls!Caller(x)
  <2>1. k # 1
    BY <1>6 DEF Calls!IsFirst
  <2>2. k - 1 \in 1 .. Len(Chains[c]) /\ k - 1 # Len(Chains[c]) /\ (k - 1) + 1 = k
    BY <1>3, <2>1
  <2>3. Calls!Parent(x) = <<c, k - 1>>
    BY DEF Calls!Parent
  <2>4. Calls!Child(Calls!Parent(x)) = x
    BY <1>3, <2>2, <2>3 DEF Calls!Child
  <2> QED
    BY <1>2, <1>3, <2>2, <2>3, <2>4 DEF Calls!IsLast, Calls!Caller
<1>7. \A y \in Calls!Calls : Calls!Child(y) = Calls!Child(x) => x = y
  <2> SUFFICES ASSUME NEW y \in Calls!Calls, Calls!Child(y) = Calls!Child(x) PROVE x = y
    OBVIOUS
  <2>1. y = <<y[1], y[2]>> /\ y[2] \in Nat /\ k \in Nat
    BY <1>1, <1>3
  <2>2. <<y[1], y[2] + 1>> = <<c, k + 1>>
    BY DEF Calls!Child
  <2>3. y[1] = c /\ y[2] + 1 = k + 1
    BY <2>2
  <2> QED
    BY <1>3, <2>1, <2>3
<1> QED
  BY <1>4, <1>5, <1>6, <1>7

\* A line less, a line more.
LEMMA TailSingle ==
  ASSUME NEW S, NEW q \in Seq(S), q # <<>>, Single(q)
  PROVE  /\ Single(Tail(q)) /\ Tail(q) \in Seq(S) /\ Len(q) \in Nat /\ Len(q) > 0 /\ Len(Tail(q)) = Len(q) - 1
         /\ Head(q) = q[1] /\ \A i \in 1 .. Len(Tail(q)) : Tail(q)[i] = q[i + 1] /\ i + 1 \in 1 .. Len(q) /\ i + 1 # 1
         /\ \A i \in 1 .. Len(Tail(q)) : Requests(q[1]) /\ Requests(Tail(q)[i]) => Tail(q)[i].call # q[1].call
<1>1. /\ Tail(q) \in Seq(S) /\ Len(q) \in Nat /\ Len(q) > 0 /\ Len(Tail(q)) = Len(q) - 1
      /\ \A i \in 1 .. Len(Tail(q)) : Tail(q)[i] = q[i + 1]
  BY HeadTailProperties, EmptySeq, LenProperties
<1>2. Head(q) = q[1] /\ 1 \in 1 .. Len(q)
  BY <1>1
<1>3. \A i \in 1 .. Len(Tail(q)) : i + 1 \in 1 .. Len(q) /\ i + 1 # 1
  BY <1>1
<1>4. Single(Tail(q))
  <2> SUFFICES ASSUME NEW i \in 1 .. Len(Tail(q)), NEW j \in 1 .. Len(Tail(q)),
                      Requests(Tail(q)[i]), Requests(Tail(q)[j]), Tail(q)[i].call = Tail(q)[j].call
               PROVE  i = j
    BY DEF Single
  <2>1. i + 1 = j + 1
    BY <1>1, <1>3 DEF Single
  <2> QED
    BY <2>1
<1>5. \A i \in 1 .. Len(Tail(q)) : Requests(q[1]) /\ Requests(Tail(q)[i]) => Tail(q)[i].call # q[1].call
  BY <1>1, <1>2, <1>3 DEF Single
<1> QED
  BY <1>1, <1>2, <1>3, <1>4, <1>5

LEMMA AppendSingle ==
  ASSUME NEW S, NEW q \in Seq(S), NEW l \in S, Single(q),
         Requests(l) => \A i \in 1 .. Len(q) : Requests(q[i]) => q[i].call # l.call
  PROVE  /\ Single(Append(q, l)) /\ Append(q, l) \in Seq(S) /\ Len(q) \in Nat /\ Len(Append(q, l)) = Len(q) + 1
         /\ \A i \in 1 .. Len(q) : Append(q, l)[i] = q[i]
         /\ Append(q, l)[Len(q) + 1] = l
         /\ \A i \in 1 .. Len(Append(q, l)) : i \in 1 .. Len(q) \/ i = Len(q) + 1
<1> DEFINE r == Append(q, l)
<1>1. /\ r \in Seq(S) /\ Len(q) \in Nat /\ Len(r) = Len(q) + 1
      /\ \A i \in 1 .. Len(q) : r[i] = q[i]
      /\ r[Len(q) + 1] = l
  BY AppendProperties, LenProperties
<1> HIDE DEF r
<1>2. \A i \in 1 .. Len(r) : i \in 1 .. Len(q) \/ i = Len(q) + 1
  BY <1>1
<1>3. Single(r)
  <2> SUFFICES ASSUME NEW i \in 1 .. Len(r), NEW j \in 1 .. Len(r),
                      Requests(r[i]), Requests(r[j]), r[i].call = r[j].call
               PROVE  i = j
    BY DEF Single
  <2>1. CASE i \in 1 .. Len(q) /\ j \in 1 .. Len(q)
    BY <1>1, <2>1 DEF Single
  <2>2. CASE i = Len(q) + 1 /\ j = Len(q) + 1
    BY <2>2
  <2>3. CASE i \in 1 .. Len(q) /\ j = Len(q) + 1
    BY <1>1, <2>3
  <2>4. CASE i = Len(q) + 1 /\ j \in 1 .. Len(q)
    BY <1>1, <2>4
  <2> QED
    BY <1>2, <2>1, <2>2, <2>3, <2>4
<1> QED
  BY <1>1, <1>2, <1>3 DEF r

\* What a line is.
LEMMA LineFacts ==
  ASSUME NEW x \in Calls!Calls, NEW b \in BOOLEAN
  PROVE  /\ Calls!Ask(x) \in CallLines /\ ~Calls!Ask(x).ok /\ Calls!Ask(x).id /\ Calls!Ask(x).call = x
         /\ Calls!Publish(x) \in CallLines /\ ~Calls!Publish(x).ok /\ ~Calls!Publish(x).id /\ Calls!Publish(x).call = x
         /\ Calls!Answer(x, b) \in CallLines /\ Calls!Answer(x, b).ok /\ Calls!Answer(x, b).call = x
         /\ Calls!Answer(x, b).success = b
         /\ Calls!parse_inbound(Calls!Ask(x)) = "Request" /\ Calls!parse_inbound(Calls!Answer(x, b)) = "Response"
         /\ Calls!parse_inbound(Calls!Publish(x)) = "Notification" /\ Calls!Publish(x).method = "event.publish"
<1> USE DEF Calls!Raw
<1>1. Calls!Ask(x) \in CallLines /\ ~Calls!Ask(x).ok /\ Calls!Ask(x).id /\ Calls!Ask(x).call = x /\ Calls!Ask(x).method = "action.invoke"
  <2>1. Calls!Ask(x) = [ok |-> FALSE, id |-> TRUE, method |-> "action.invoke", call |-> x, success |-> FALSE]
    BY DEF Calls!Ask
  <2> QED
    BY <2>1 DEF CallLines, Calls!Lines
<1>2. Calls!Publish(x) \in CallLines /\ ~Calls!Publish(x).ok /\ ~Calls!Publish(x).id /\ Calls!Publish(x).call = x
      /\ Calls!Publish(x).method = "event.publish"
  <2>1. Calls!Publish(x) = [ok |-> FALSE, id |-> FALSE, method |-> "event.publish", call |-> x, success |-> FALSE]
    BY DEF Calls!Publish
  <2> QED
    BY <2>1 DEF CallLines, Calls!Lines
<1>3. Calls!Answer(x, b) \in CallLines /\ Calls!Answer(x, b).ok /\ Calls!Answer(x, b).call = x /\ Calls!Answer(x, b).success = b
  <2>1. Calls!Answer(x, b) = [ok |-> TRUE, id |-> TRUE, method |-> "none", call |-> x, success |-> b]
    BY DEF Calls!Answer
  <2> QED
    BY <2>1 DEF CallLines, Calls!Lines
<1>4. /\ Calls!parse_inbound(Calls!Ask(x)) = "Request" /\ Calls!parse_inbound(Calls!Answer(x, b)) = "Response"
      /\ Calls!parse_inbound(Calls!Publish(x)) = "Notification"
  BY <1>1, <1>2, <1>3 DEF Calls!parse_inbound
<1> QED
  BY <1>1, <1>2, <1>3, <1>4

LEMMA CallTypes ==
  ASSUME Calls!ServiceCallsAssumption, Calls!TypeOK
  PROVE  /\ WaiterMax \in Nat /\ CallFaults \in Nat /\ waiters \in Nat /\ waiters <= WaiterMax
         /\ toServe \in [Services -> Seq(CallLines)] /\ said \in [Services -> Seq(CallLines \cup Odd)]
         /\ \A s \in Services : toServe[s] \in Seq(CallLines) /\ said[s] \in Seq(CallLines \cup Odd)
                                /\ Len(toServe[s]) \in Nat /\ Len(said[s]) \in Nat
         /\ stage \in [Calls!Calls -> CallStages] /\ outcomes \in [Calls!Calls -> Results]
         /\ awaited \in [Services -> SUBSET Calls!Calls]
         /\ setbacks \in 0 .. CallFaults
<1>1. /\ toServe \in [Services -> Seq(CallLines)] /\ said \in [Services -> Seq(CallLines \cup Odd)]
  BY DEF Calls!TypeOK, CallLines
<1>2. \A s \in Services : toServe[s] \in Seq(CallLines) /\ said[s] \in Seq(CallLines \cup Odd)
  BY <1>1
<1>3. \A s \in Services : Len(toServe[s]) \in Nat /\ Len(said[s]) \in Nat
  BY <1>2, LenProperties
<1> QED
  BY <1>1, <1>2, <1>3 DEF Calls!TypeOK, Calls!ServiceCallsAssumption, CallStages, Results

\* A call goes on, and what was said of it stays true.
Onward(y) ==
  /\ stage[y] = "new" /\ ~Calls!IsFirst(y) => stage'[y] = "new"
  /\ (Past(y) => Past(y)') /\ (Has(y) => Has(y)') /\ (stage[y] = "over" => stage'[y] = "over")
  /\ outcomes[y] = "ok" => outcomes'[y] = "ok"
  /\ outcomes'[y] = "ok" => /\ served[y] = 1 /\ y \in bus' /\ Has(y)'
                            /\ ~Calls!IsLast(y) => outcomes[Calls!Child(y)] = "ok"
  /\ y \in awaited'[Calls!Callee(y)] <=> stage'[y] = "waiting"
  /\ served[y] = 1 => Heard(said[Calls!Callee(y)], Len(said[Calls!Callee(y)]), y)'

LEMMA Moves ==
  ASSUME Calls!ServiceCallsAssumption, CallsInv, served' = served, \A y \in Calls!Calls : Onward(y)
  PROVE  /\ EachCall'
         /\ \A l, s : InLine(l, s) => InLine(l, s)'
         /\ \A l, s : OutLine(l, s) /\ (Requests(l) => stage'[l.call] = "asked") => OutLine(l, s)'
<1>1. ASSUME NEW y \in Calls!Calls PROVE OneCall(y)'
  <2>1. OneCall(y)
    BY DEF CallsInv, EachCall
  <2>2. ~Calls!IsLast(y) => Calls!Child(y) \in Calls!Calls /\ ~Calls!IsFirst(Calls!Child(y))
    BY CallFacts
  <2>3. Onward(y) /\ (~Calls!IsLast(y) => Onward(Calls!Child(y)))
    BY <2>2
  <2> QED
    BY <2>1, <2>2, <2>3 DEF OneCall, Onward
<1>2. ASSUME NEW l, NEW s, InLine(l, s) PROVE InLine(l, s)'
  <2>1. l.call \in Calls!Calls /\ Onward(l.call)
    BY <1>2 DEF InLine
  <2> QED
    BY <1>2, <2>1 DEF InLine, Onward
<1>3. ASSUME NEW l, NEW s, OutLine(l, s), Requests(l) => stage'[l.call] = "asked" PROVE OutLine(l, s)'
  <2> SUFFICES ASSUME l.call \in Calls!Calls PROVE OutLine(l, s)'
    BY DEF OutLine
  <2>1. ~Calls!IsLast(l.call) => Onward(Calls!Child(l.call))
    BY CallFacts
  <2>2. CASE l.ok
    BY <1>3, <2>1, <2>2 DEF OutLine, Onward
  <2>3. CASE ~l.ok
    BY <1>3, <2>3 DEF OutLine, Requests
  <2> QED
    BY <2>2, <2>3
<1> QED
  BY <1>1, <1>2, <1>3 DEF EachCall

LEMMA InputsStay ==
  ASSUME Calls!ServiceCallsAssumption, CallsInv, \A l, s : InLine(l, s) => InLine(l, s)',
         \A s \in Services :
           \/ toServe'[s] = toServe[s] \/ toServe'[s] = <<>>
           \/ \E l \in CallLines :
                /\ toServe'[s] = Append(toServe[s], l) /\ InLine(l, s)'
                /\ Requests(l) => \A i \in 1 .. Len(toServe[s]) : Requests(toServe[s][i]) => toServe[s][i].call # l.call
  PROVE  InputsMean'
<1> SUFFICES ASSUME NEW s \in Services
             PROVE  Single(toServe'[s]) /\ \A i \in 1 .. Len(toServe'[s]) : InLine(toServe[s][i], s)'
  BY DEF InputsMean
<1>1. toServe[s] \in Seq(CallLines) /\ Single(toServe[s]) /\ \A i \in 1 .. Len(toServe[s]) : InLine(toServe[s][i], s)
  BY CallTypes DEF CallsInv, InputsMean
<1>2. \A i \in 1 .. Len(toServe[s]) : \A l : l = toServe[s][i] => InLine(l, s)'
  BY <1>1
<1>3. CASE toServe'[s] = toServe[s]
  BY <1>1, <1>2, <1>3
<1>4. CASE toServe'[s] = <<>>
  <2>1. Len(toServe'[s]) = 0 /\ 1 .. 0 = {}
    BY <1>4, EmptySeq
  <2> QED
    BY <2>1 DEF Single
<1>5. ASSUME NEW l \in CallLines, toServe'[s] = Append(toServe[s], l), InLine(l, s)',
             Requests(l) => \A i \in 1 .. Len(toServe[s]) : Requests(toServe[s][i]) => toServe[s][i].call # l.call
      PROVE  Single(toServe'[s]) /\ \A i \in 1 .. Len(toServe'[s]) : InLine(toServe[s][i], s)'
  <2>1. /\ Single(toServe'[s]) /\ Len(toServe[s]) \in Nat /\ Len(toServe'[s]) = Len(toServe[s]) + 1
        /\ \A i \in 1 .. Len(toServe[s]) : toServe'[s][i] = toServe[s][i]
        /\ toServe'[s][Len(toServe[s]) + 1] = l
        /\ \A i \in 1 .. Len(toServe'[s]) : i \in 1 .. Len(toServe[s]) \/ i = Len(toServe[s]) + 1
    BY <1>1, <1>5, AppendSingle
  <2>2. ASSUME NEW i \in 1 .. Len(toServe'[s]) PROVE InLine(toServe[s][i], s)'
    <3>1. CASE i \in 1 .. Len(toServe[s])
      BY <1>2, <2>1, <3>1
    <3>2. CASE i = Len(toServe[s]) + 1
      BY <1>5, <2>1, <3>2
    <3> QED
      BY <2>1, <3>1, <3>2
  <2> QED
    BY <2>1, <2>2
<1> QED
  BY <1>3, <1>4, <1>5

LEMMA OutputsStay ==
  ASSUME CallsInv, said' = said, bus \subseteq bus',
         \A l, s : OutLine(l, s) /\ (Requests(l) => stage'[l.call] = "asked") => OutLine(l, s)',
         \A y \in Calls!Calls : stage[y] = "asked" => stage'[y] = "asked"
  PROVE  OutputsMean'
<1> SUFFICES ASSUME NEW s \in Services
             PROVE  /\ Single(said[s]) /\ Announced(said[s])'
                    /\ \A i \in 1 .. Len(said[s]) : OutLine(said[s][i], s)'
  BY DEF OutputsMean
<1>1. Single(said[s]) /\ Announced(said[s]) /\ \A i \in 1 .. Len(said[s]) : OutLine(said[s][i], s)
  BY DEF CallsInv, OutputsMean
<1>2. Announced(said[s])'
  BY <1>1 DEF Announced, Heard
<1>3. ASSUME NEW i \in 1 .. Len(said[s]) PROVE OutLine(said[s][i], s)'
  <2> DEFINE l == said[s][i]
  <2>1. PICK m : m = l
    OBVIOUS
  <2>2. OutLine(m, s)
    BY <1>1, <2>1
  <2>3. Requests(m) => stage'[m.call] = "asked"
    BY <2>2 DEF OutLine, Requests
  <2>4. OutLine(m, s)'
    BY <2>2, <2>3
  <2> QED
    BY <2>1, <2>4
<1> QED
  BY <1>1, <1>2, <1>3

\* Who is counted.
LEMMA Counting ==
  ASSUME Calls!ServiceCallsAssumption, CallsInv, NEW x,
         \/ Waits' = Waits /\ waiters' = waiters
         \/ x \notin Waits /\ Waits' = Waits \cup {x} /\ waiters' = waiters + 1 /\ waiters < WaiterMax
         \/ x \in Waits /\ Waits' = Waits \ {x} /\ waiters' = waiters - 1
  PROVE  Counted' /\ waiters' \in 0 .. WaiterMax
<1>1. IsFiniteSet(Waits) /\ waiters = Cardinality(Waits) /\ waiters \in Nat /\ waiters <= WaiterMax /\ WaiterMax \in Nat
  BY CallTypes DEF CallsInv, Counted
<1>2. CASE Waits' = Waits /\ waiters' = waiters
  BY <1>1, <1>2 DEF Counted
<1>3. CASE x \notin Waits /\ Waits' = Waits \cup {x} /\ waiters' = waiters + 1 /\ waiters < WaiterMax
  <2>1. IsFiniteSet(Waits \cup {x}) /\ Cardinality(Waits \cup {x}) = Cardinality(Waits) + 1
    BY <1>1, <1>3, FS_AddElement
  <2>2. waiters' = Cardinality(Waits') /\ IsFiniteSet(Waits')
    BY <1>1, <1>3, <2>1
  <2>3. waiters' \in 0 .. WaiterMax
    BY <1>1, <1>3
  <2> QED
    BY <2>2, <2>3 DEF Counted
<1>4. CASE x \in Waits /\ Waits' = Waits \ {x} /\ waiters' = waiters - 1
  <2>1. IsFiniteSet(Waits \ {x}) /\ Cardinality(Waits \ {x}) = Cardinality(Waits) - 1
    BY <1>1, <1>4, FS_RemoveElement
  <2>2. waiters' = Cardinality(Waits') /\ IsFiniteSet(Waits')
    BY <1>1, <1>4, <2>1
  <2>3. Cardinality(Waits) # 0
    BY <1>1, <1>4, FS_EmptySet
  <2>4. waiters' \in 0 .. WaiterMax
    BY <1>1, <1>4, <2>3
  <2> QED
    BY <2>2, <2>4 DEF Counted
<1> QED
  BY <1>2, <1>3, <1>4

\* One call takes a step, and gains no success by it.
LEMMA OneMoves ==
  ASSUME Calls!ServiceCallsAssumption, CallsInv, NEW x \in Calls!Calls, NEW b \in CallStages,
         stage' = [stage EXCEPT ![x] = b], b # "new", stage[x] = "new" => Calls!IsFirst(x),
         Past(x) => b \in {"waiting", "answered", "done", "over"},
         Has(x) => b \in {"answered", "done", "over"}, stage[x] = "over" => b = "over",
         outcomes[x] = "ok" <=> outcomes'[x] = "ok", \A y \in Calls!Calls : y # x => outcomes'[y] = outcomes[y],
         \A y \in Calls!Calls : y # x => (y \in awaited'[Calls!Callee(y)] <=> y \in awaited[Calls!Callee(y)]),
         x \in awaited'[Calls!Callee(x)] <=> b = "waiting",
         UNCHANGED <<said, bus>>
  PROVE  \A y \in Calls!Calls : Onward(y)
<1> SUFFICES ASSUME NEW y \in Calls!Calls PROVE Onward(y)
  OBVIOUS
<1>1. OneCall(y) /\ stage \in [Calls!Calls -> CallStages]
  BY CallTypes DEF CallsInv, EachCall
<1>2. Heard(said[Calls!Callee(y)], Len(said[Calls!Callee(y)]), y)' <=> Heard(said[Calls!Callee(y)], Len(said[Calls!Callee(y)]), y)
  BY DEF Heard
<1>3. CASE y = x
  <2>1. stage'[y] = b
    BY <1>1, <1>3
  <2> QED
    BY <1>1, <1>2, <1>3, <2>1 DEF OneCall, Onward, Past, Has
<1>4. CASE y # x
  <2>1. stage'[y] = stage[y] /\ outcomes'[y] = outcomes[y]
    BY <1>1, <1>4
  <2> QED
    BY <1>1, <1>2, <1>4, <2>1 DEF OneCall, Onward, Past, Has
<1> QED
  BY <1>3, <1>4

\* A call starts, is refused or sent, has its answer or gives it up, and returns.
LEMMA CallStepKeeps ==
  ASSUME Calls!ServiceCallsAssumption, CallsInv, NEW x \in Calls!Calls, Calls!CallStep(x)
  PROVE  CallsInv'
<1>t. Calls!TypeOK /\ OneCall(x)
  BY DEF CallsInv, EachCall
<1>s. /\ WaiterMax \in Nat /\ CallFaults \in Nat /\ waiters \in Nat /\ waiters <= WaiterMax /\ setbacks \in 0 .. CallFaults
      /\ stage \in [Calls!Calls -> CallStages] /\ outcomes \in [Calls!Calls -> Results]
      /\ awaited \in [Services -> SUBSET Calls!Calls] /\ Calls!Callee(x) \in Services
      /\ \A s \in Services : \A y \in awaited[s] : Calls!Callee(y) = s
      /\ toServe \in [Services -> Seq(CallLines)] /\ \A s \in Services : toServe[s] \in Seq(CallLines)
  BY <1>t, CallTypes, CallFacts DEF Calls!TypeOK
<1>1. UNCHANGED <<alive, runs, said, callers, bus, served, strays>>
  BY DEF Calls!CallStep, Calls!Start, Calls!Refuse, Calls!Dispatch, Calls!Waiter, Calls!WaiterTimesOut, Calls!Return, Calls!Settle
\* Who moves, and where to.
<1>2. \E b \in CallStages :
        /\ stage' = [stage EXCEPT ![x] = b] /\ b \notin {"new", "asked"}
        /\ \/ stage[x] = "new" /\ Calls!IsFirst(x) /\ b = "worker"
           \/ stage[x] = "worker" /\ b \in {"done", "waiting"}
           \/ stage[x] = "waiting" /\ b = "done"
           \/ stage[x] = "answered" /\ b = "done"
           \/ stage[x] = "done" /\ b = "over"
  <2>1. CASE Calls!Start(x)
    BY <2>1 DEF Calls!Start, CallStages
  <2>2. CASE Calls!Refuse(x)
    BY <2>2 DEF Calls!Refuse, Calls!Settle, CallStages
  <2>3. CASE Calls!Dispatch(x)
    BY <2>3 DEF Calls!Dispatch, CallStages
  <2>4. CASE Calls!Waiter(x)
    BY <2>4 DEF Calls!Waiter, CallStages
  <2>5. CASE Calls!WaiterTimesOut(x)
    BY <2>5 DEF Calls!WaiterTimesOut, Calls!Settle, CallStages
  <2>6. CASE Calls!Return(x)
    BY <2>6 DEF Calls!Return, CallStages
  <2> QED
    BY <2>1, <2>2, <2>3, <2>4, <2>5, <2>6 DEF Calls!CallStep
<1>3. PICK b \in CallStages :
        /\ stage' = [stage EXCEPT ![x] = b] /\ b \notin {"new", "asked"}
        /\ \/ stage[x] = "new" /\ Calls!IsFirst(x) /\ b = "worker"
           \/ stage[x] = "worker" /\ b \in {"done", "waiting"}
           \/ stage[x] = "waiting" /\ b = "done"
           \/ stage[x] = "answered" /\ b = "done"
           \/ stage[x] = "done" /\ b = "over"
  BY <1>2
<1>4. stage'[x] = b /\ stage' \in [Calls!Calls -> CallStages] /\ \A y \in Calls!Calls : y # x => stage'[y] = stage[y]
  BY <1>3, <1>s
<1>5. \/ outcomes' = outcomes
      \/ stage[x] \in {"worker", "waiting"} /\ \E r \in {"error", "timeout"} : outcomes' = [outcomes EXCEPT ![x] = r]
  BY DEF Calls!CallStep, Calls!Start, Calls!Refuse, Calls!Dispatch, Calls!Waiter, Calls!WaiterTimesOut, Calls!Return, Calls!Settle
<1>6. /\ outcomes' \in [Calls!Calls -> Results] /\ \A y \in Calls!Calls : y # x => outcomes'[y] = outcomes[y]
      /\ outcomes[x] = "ok" <=> outcomes'[x] = "ok"
  <2>1. stage[x] \in {"worker", "waiting"} => outcomes[x] # "ok"
    BY <1>t DEF OneCall, Has
  <2>2. CASE outcomes' = outcomes
    BY <1>s, <2>2
  <2>3. ASSUME NEW r \in {"error", "timeout"}, outcomes' = [outcomes EXCEPT ![x] = r], stage[x] \in {"worker", "waiting"}
        PROVE  /\ outcomes' \in [Calls!Calls -> Results] /\ \A y \in Calls!Calls : y # x => outcomes'[y] = outcomes[y]
               /\ outcomes[x] = "ok" <=> outcomes'[x] = "ok"
    BY <1>s, <2>1, <2>3 DEF Results
  <2> QED
    BY <1>5, <2>2, <2>3
<1>7. \/ awaited' = awaited /\ b # "waiting" /\ stage[x] # "waiting"
      \/ awaited' = [awaited EXCEPT ![Calls!Callee(x)] = @ \cup {x}] /\ b = "waiting"
      \/ awaited' = [awaited EXCEPT ![Calls!Callee(x)] = @ \ {x}] /\ b # "waiting"
  <2>1. CASE Calls!Start(x) \/ Calls!Refuse(x) \/ Calls!Waiter(x) \/ Calls!Return(x)
    <3>1. awaited' = awaited /\ stage'[x] # "waiting" /\ stage[x] # "waiting"
      BY <1>s, <2>1 DEF Calls!Start, Calls!Refuse, Calls!Waiter, Calls!Return, Calls!Settle
    <3> QED
      BY <1>4, <3>1
  <2>2. CASE Calls!Dispatch(x)
    <3>1. awaited' = [awaited EXCEPT ![Calls!Callee(x)] = @ \cup {x}] /\ stage'[x] = "waiting"
      BY <1>s, <2>2 DEF Calls!Dispatch
    <3> QED
      BY <1>4, <3>1
  <2>3. CASE Calls!WaiterTimesOut(x)
    <3>1. awaited' = [awaited EXCEPT ![Calls!Callee(x)] = @ \ {x}] /\ stage'[x] = "done"
      BY <1>s, <2>3 DEF Calls!WaiterTimesOut, Calls!Settle
    <3> QED
      BY <1>4, <3>1
  <2> QED
    BY <2>1, <2>2, <2>3 DEF Calls!CallStep
<1>8. /\ awaited' \in [Services -> SUBSET Calls!Calls] /\ \A s \in Services : \A y \in awaited'[s] : Calls!Callee(y) = s
      /\ x \in awaited'[Calls!Callee(x)] <=> b = "waiting"
      /\ \A y \in Calls!Calls : y # x => (y \in awaited'[Calls!Callee(y)] <=> y \in awaited[Calls!Callee(y)])
  <2>0. \A y \in Calls!Calls : Calls!Callee(y) \in Services
    BY CallFacts
  <2>1. CASE awaited' = awaited /\ b # "waiting" /\ stage[x] # "waiting"
    BY <1>s, <1>t, <2>1 DEF OneCall
  <2>2. CASE awaited' = [awaited EXCEPT ![Calls!Callee(x)] = @ \cup {x}] /\ b = "waiting"
    BY <1>s, <2>0, <2>2
  <2>3. CASE awaited' = [awaited EXCEPT ![Calls!Callee(x)] = @ \ {x}] /\ b # "waiting"
    BY <1>s, <2>0, <2>3
  <2> QED
    BY <1>7, <2>1, <2>2, <2>3
<1>9. \A y \in Calls!Calls : Onward(y)
  <2>1. /\ stage[x] = "new" => Calls!IsFirst(x)
        /\ Past(x) => b \in {"waiting", "answered", "done", "over"}
        /\ Has(x) => b \in {"answered", "done", "over"}
        /\ stage[x] = "over" => b = "over"
    BY <1>3 DEF Past, Has
  <2> QED
    BY <1>1, <1>3, <1>6, <1>8, <2>1, OneMoves
<1>10. /\ EachCall' /\ \A l, s : InLine(l, s) => InLine(l, s)'
       /\ \A l, s : OutLine(l, s) /\ (Requests(l) => stage'[l.call] = "asked") => OutLine(l, s)'
  BY <1>1, <1>9, Moves
<1>11. OutputsMean'
  <2>1. \A y \in Calls!Calls : stage[y] = "asked" => stage'[y] = "asked"
    BY <1>3, <1>4
  <2>2. bus \subseteq bus' /\ said' = said
    BY <1>1
  <2> QED
    BY <1>10, <2>1, <2>2, OutputsStay
<1>12. toServe' \in [Services -> Seq(CallLines)] /\ InputsMean'
  <2>1. CASE toServe' = toServe
    BY <1>10, <1>s, <2>1, InputsStay
  <2>2. ASSUME NEW s \in Services, NEW l \in CallLines, toServe' = [toServe EXCEPT ![s] = Append(@, l)], InLine(l, s)',
               Requests(l) => l.call = x /\ ~Past(x)
        PROVE  toServe' \in [Services -> Seq(CallLines)] /\ InputsMean'
    <3>1. Append(toServe[s], l) \in Seq(CallLines)
      BY <1>s, AppendProperties
    <3>2. \A t \in Services : t # s => toServe'[t] = toServe[t]
      BY <1>s, <2>2
    <3>3. toServe'[s] = Append(toServe[s], l)
      BY <1>s, <2>2
    <3>4. Requests(l) => \A i \in 1 .. Len(toServe[s]) : Requests(toServe[s][i]) => toServe[s][i].call # l.call
      <4> SUFFICES ASSUME Requests(l), NEW i \in 1 .. Len(toServe[s]), Requests(toServe[s][i]), toServe[s][i].call = l.call
                   PROVE  FALSE
        OBVIOUS
      <4>1. InLine(toServe[s][i], s)
        BY DEF CallsInv, InputsMean
      <4> QED
        BY <2>2, <4>1 DEF InLine, Requests
    <3>5. InputsMean'
      <4>1. ASSUME NEW t \in Services
            PROVE  \/ toServe'[t] = toServe[t] \/ toServe'[t] = <<>>
                   \/ \E m \in CallLines :
                        /\ toServe'[t] = Append(toServe[t], m) /\ InLine(m, t)'
                        /\ Requests(m) => \A i \in 1 .. Len(toServe[t]) : Requests(toServe[t][i]) => toServe[t][i].call # m.call
        BY <2>2, <3>2, <3>3, <3>4
      <4> QED
        BY <1>10, <4>1, InputsStay
    <3> QED
      BY <1>s, <2>2, <3>1, <3>5
  <2>3. CASE Calls!Start(x) \/ Calls!Refuse(x) \/ Calls!Waiter(x) \/ Calls!WaiterTimesOut(x)
    <3>1. toServe' = toServe
      BY <2>3 DEF Calls!Start, Calls!Refuse, Calls!Waiter, Calls!WaiterTimesOut, Calls!Settle
    <3> QED
      BY <2>1, <3>1
  <2>4. CASE Calls!Dispatch(x)
    <3> DEFINE l == Calls!Ask(x)
               s == Calls!Callee(x)
    <3>1. toServe' = toServe \/ toServe' = [toServe EXCEPT ![s] = Append(@, l)]
      BY <2>4 DEF Calls!Dispatch, Calls!Sent
    <3>2. stage[x] = "worker" /\ stage'[x] = "waiting" /\ ~Past(x) /\ Past(x)'
      BY <1>s, <2>4 DEF Calls!Dispatch, Past
    <3>3. l \in CallLines /\ ~l.ok /\ l.id /\ l.call = x
      BY LineFacts
    <3>4. served[x] = 0
      BY <1>t, <3>2 DEF OneCall
    <3>5. PICK m : m = l
      OBVIOUS
    <3>6. InLine(m, s)'
      BY <1>1, <3>2, <3>3, <3>4, <3>5 DEF InLine
    <3>7. m \in CallLines /\ (Requests(m) => m.call = x /\ ~Past(x))
      BY <3>2, <3>3, <3>5
    <3>8. toServe' = toServe \/ toServe' = [toServe EXCEPT ![s] = Append(@, m)]
      BY <3>1, <3>5
    <3> QED
      BY <1>s, <2>1, <2>2, <3>6, <3>7, <3>8
  <2>5. CASE Calls!Return(x)
    <3> DEFINE l == Calls!Answer(x, outcomes[x] = "ok")
               s == Calls!Caller(x)
    <3>1. toServe' = toServe \/ (~Calls!IsFirst(x) /\ toServe' = [toServe EXCEPT ![s] = Append(@, l)])
      BY <2>5 DEF Calls!Return, Calls!Sent
    <3>2. stage'[x] = "over" /\ outcomes' = outcomes
      BY <1>s, <2>5 DEF Calls!Return
    <3>3. PICK ok \in BOOLEAN : ok = (outcomes[x] = "ok")
      OBVIOUS
    <3>4. PICK m : m = Calls!Answer(x, ok)
      OBVIOUS
    <3>5. m \in CallLines /\ m.ok /\ m.call = x /\ m.success = ok
      BY <3>4, LineFacts
    <3>6. toServe' = toServe \/ (~Calls!IsFirst(x) /\ toServe' = [toServe EXCEPT ![s] = Append(@, m)])
      BY <3>1, <3>3, <3>4
    <3>7. ~Calls!IsFirst(x) => InLine(m, s)' /\ s \in Services
      <4>1. ~Calls!IsFirst(x) => s \in Services
        BY CallFacts
      <4>2. ok => outcomes'[x] = "ok"
        BY <3>2, <3>3
      <4> QED
        BY <3>2, <3>5, <4>1, <4>2 DEF InLine
    <3>8. ~Requests(m)
      BY <3>5 DEF Requests
    <3> QED
      BY <2>1, <2>2, <3>5, <3>6, <3>7, <3>8
  <2> QED
    BY <2>3, <2>4, <2>5 DEF Calls!CallStep
<1>13. Counted' /\ waiters' \in 0 .. WaiterMax
  <2>1. CASE Calls!Start(x) \/ Calls!Refuse(x) \/ Calls!Return(x)
    <3>1. waiters' = waiters /\ stage[x] \notin {"waiting", "answered"} /\ stage'[x] \notin {"waiting", "answered"}
      BY <1>s, <2>1 DEF Calls!Start, Calls!Refuse, Calls!Return, Calls!Settle, Calls!Kept
    <3>2. Waits' = Waits
      BY <1>4, <3>1 DEF Waits
    <3> QED
      BY <3>1, <3>2, Counting
  <2>2. CASE Calls!Dispatch(x)
    <3>1. waiters' = waiters + 1 /\ waiters < WaiterMax /\ stage[x] = "worker" /\ stage'[x] = "waiting"
      BY <1>s, <2>2 DEF Calls!Dispatch, Calls!Refused
    <3>2. x \notin Waits /\ Waits' = Waits \cup {x}
      BY <1>4, <3>1 DEF Waits
    <3> QED
      BY <3>1, <3>2, Counting
  <2>3. CASE Calls!Waiter(x) \/ Calls!WaiterTimesOut(x)
    <3>1. waiters' = waiters - 1 /\ stage[x] \in {"waiting", "answered"} /\ stage'[x] = "done"
      BY <1>s, <2>3 DEF Calls!Waiter, Calls!WaiterTimesOut, Calls!Settle
    <3>2. x \in Waits /\ Waits' = Waits \ {x}
      BY <1>4, <3>1 DEF Waits
    <3> QED
      BY <3>1, <3>2, Counting
  <2> QED
    BY <2>1, <2>2, <2>3 DEF Calls!CallStep
<1>14. setbacks' \in 0 .. CallFaults
  <2>1. setbacks' = setbacks \/ (setbacks < CallFaults /\ setbacks' = setbacks + 1)
    BY DEF Calls!CallStep, Calls!Start, Calls!Refuse, Calls!Dispatch, Calls!Waiter, Calls!WaiterTimesOut, Calls!Return, Calls!Settle
  <2> QED
    BY <1>s, <2>1
<1>15. Calls!TypeOK'
  BY <1>1, <1>4, <1>6, <1>8, <1>12, <1>13, <1>14, <1>t DEF Calls!TypeOK, CallLines, CallStages, Results
<1> QED
  BY <1>10, <1>11, <1>12, <1>13, <1>15 DEF CallsInv

\* An output that grows by a line.
LEMMA SayingMore ==
  ASSUME NEW o \in Seq(CallLines \cup Odd), NEW l \in CallLines \cup Odd, Single(o), Announced(o),
         Requests(l) => \A i \in 1 .. Len(o) : Requests(o[i]) => o[i].call # l.call,
         l.ok /\ l.call \in Calls!Calls => Heard(o, Len(o), l.call)
  PROVE  /\ Append(o, l) \in Seq(CallLines \cup Odd) /\ Len(Append(o, l)) = Len(o) + 1 /\ Len(o) \in Nat
         /\ Single(Append(o, l)) /\ Announced(Append(o, l))
         /\ Append(o, l)[Len(o) + 1] = l
         /\ \A i \in 1 .. Len(o) : Append(o, l)[i] = o[i] /\ i \in 1 .. Len(Append(o, l))
         /\ \A i \in 1 .. Len(Append(o, l)) : i \in 1 .. Len(o) \/ i = Len(o) + 1
<1> DEFINE q == Append(o, l)
<1>1. /\ Single(q) /\ q \in Seq(CallLines \cup Odd) /\ Len(o) \in Nat /\ Len(q) = Len(o) + 1
      /\ \A i \in 1 .. Len(o) : q[i] = o[i]
      /\ q[Len(o) + 1] = l
      /\ \A i \in 1 .. Len(q) : i \in 1 .. Len(o) \/ i = Len(o) + 1
  BY AppendSingle
<1> HIDE DEF q
<1>2. ASSUME NEW i \in 1 .. Len(q), q[i].ok, q[i].call \in Calls!Calls PROVE Heard(q, i - 1, q[i].call)
  <2>1. CASE i \in 1 .. Len(o)
    <3>1. Heard(o, i - 1, q[i].call)
      BY <1>1, <1>2, <2>1 DEF Announced
    <3>2. \A j \in 1 .. i - 1 : j \in 1 .. Len(o) /\ q[j] = o[j]
      BY <1>1, <2>1
    <3> QED
      BY <3>1, <3>2 DEF Heard
  <2>2. CASE i = Len(o) + 1
    <3>1. Heard(o, Len(o), q[i].call) /\ i - 1 = Len(o)
      BY <1>1, <1>2, <2>2
    <3> QED
      BY <1>1, <3>1 DEF Heard
  <2> QED
    BY <1>1, <2>1, <2>2
<1>3. Announced(q)
  BY <1>2 DEF Announced
<1>4. \A i \in 1 .. Len(o) : i \in 1 .. Len(q)
  BY <1>1
<1> QED
  BY <1>1, <1>3, <1>4 DEF q

\* A process ends, its end is seen, the forwarders are joined, it is started again.
LEMMA ProcessEndsStep ==
  ASSUME Calls!ServiceCallsAssumption, CallsInv, NEW s \in Services,
         Calls!Exit(s) \/ Calls!HandleExit(s) \/ Calls!NextEvent(s) \/ Calls!Restart(s)
  PROVE  CallsInv'
<1>t. Calls!TypeOK
  BY DEF CallsInv
<1>s. /\ CallFaults \in Nat /\ setbacks \in 0 .. CallFaults
      /\ toServe \in [Services -> Seq(CallLines)]
  BY <1>t, CallTypes
<1>1. UNCHANGED <<said, stage, outcomes, awaited, waiters, callers, bus, served, strays>>
  BY DEF Calls!Exit, Calls!Restart, Calls!HandleExit, Calls!NextEvent, Calls!Becomes
<1>2. \A t \in Services : toServe'[t] = toServe[t] \/ toServe'[t] = <<>>
  BY <1>s DEF Calls!Exit, Calls!Restart, Calls!HandleExit, Calls!NextEvent, Calls!Becomes
<1>3. toServe' \in [Services -> Seq(CallLines)]
  <2>1. <<>> \in Seq(CallLines)
    BY EmptySeq
  <2> QED
    BY <1>s, <2>1 DEF Calls!Exit, Calls!Restart, Calls!HandleExit, Calls!NextEvent, Calls!Becomes
<1>4. \A y \in Calls!Calls : Onward(y)
  BY <1>1 DEF CallsInv, EachCall, OneCall, Onward, Past, Has, Heard
<1>5. /\ EachCall' /\ \A l, t : InLine(l, t) => InLine(l, t)'
      /\ \A l, t : OutLine(l, t) /\ (Requests(l) => stage'[l.call] = "asked") => OutLine(l, t)'
  BY <1>1, <1>4, Moves
<1>6. InputsMean'
  BY <1>2, <1>5, InputsStay
<1>7. OutputsMean'
  BY <1>1, <1>5, OutputsStay
<1>8. Counted'
  BY <1>1 DEF CallsInv, Counted, Waits
<1>9. /\ alive' \in [Services -> ProcessStates] /\ runs' \in [Services -> Nat]
      /\ setbacks' \in 0 .. CallFaults
  <2>0. alive \in [Services -> ProcessStates] /\ runs \in [Services -> Nat]
    BY <1>t DEF Calls!TypeOK, ProcessStates
  <2>1. CASE Calls!Exit(s)
    <3>1. alive' = [alive EXCEPT ![s] = "dead"] /\ runs' = runs /\ setbacks < CallFaults /\ setbacks' = setbacks + 1
      BY <2>1 DEF Calls!Exit
    <3> QED
      BY <1>s, <2>0, <3>1 DEF ProcessStates
  <2>2. CASE Calls!Restart(s)
    <3>1. alive' = [alive EXCEPT ![s] = "up"] /\ runs' = [runs EXCEPT ![s] = runs[s] + 1] /\ setbacks' = setbacks
      BY <2>0, <2>2 DEF Calls!Restart
    <3>2. runs[s] + 1 \in Nat
      BY <2>0
    <3> QED
      BY <1>s, <2>0, <3>1, <3>2 DEF ProcessStates
  <2>3. CASE Calls!HandleExit(s) \/ Calls!NextEvent(s)
    <3>1. /\ alive' = [alive EXCEPT ![s] = "joining"] \/ alive' = [alive EXCEPT ![s] = "deaf"]
          /\ runs' = runs /\ setbacks' = setbacks
      BY <2>3 DEF Calls!HandleExit, Calls!NextEvent, Calls!Becomes
    <3> QED
      BY <1>s, <2>0, <3>1 DEF ProcessStates
  <2> QED
    BY <2>1, <2>2, <2>3
<1>10. Calls!TypeOK'
  BY <1>1, <1>3, <1>9, <1>t DEF Calls!TypeOK, CallLines, ProcessStates
<1> QED
  BY <1>5, <1>6, <1>7, <1>8, <1>10 DEF CallsInv

\* The calls that wait for a process that ended get their answer.
LEMMA FailPendingStep ==
  ASSUME Calls!ServiceCallsAssumption, CallsInv, NEW s \in Services, Calls!FailPending(s)
  PROVE  CallsInv'
<1>t. Calls!TypeOK
  BY DEF CallsInv
<1>s. /\ stage \in [Calls!Calls -> CallStages] /\ outcomes \in [Calls!Calls -> Results]
      /\ awaited \in [Services -> SUBSET Calls!Calls] /\ \A t \in Services : \A y \in awaited[t] : Calls!Callee(y) = t
  BY <1>t, CallTypes DEF Calls!TypeOK
<1>1. /\ UNCHANGED <<runs, toServe, said, waiters, callers, bus, served, strays, setbacks>>
      /\ alive' = [alive EXCEPT ![s] = "down"]
      /\ stage' = [x \in Calls!Calls |-> IF x \in awaited[s] THEN "answered" ELSE stage[x]]
      /\ outcomes' = [x \in Calls!Calls |-> IF x \in awaited[s] THEN "error" ELSE outcomes[x]]
      /\ awaited' = [awaited EXCEPT ![s] = {}]
  BY DEF Calls!FailPending, Calls!Becomes, Calls!Failed
<1>2. ASSUME NEW y \in Calls!Calls
      PROVE  /\ y \in awaited[s] => stage[y] = "waiting" /\ Calls!Callee(y) = s
             /\ stage[y] = "waiting" <=> y \in awaited[Calls!Callee(y)]
             /\ Calls!Callee(y) \in Services
             /\ stage'[y] = IF y \in awaited[s] THEN "answered" ELSE stage[y]
             /\ outcomes'[y] = IF y \in awaited[s] THEN "error" ELSE outcomes[y]
             /\ awaited'[Calls!Callee(y)] = IF Calls!Callee(y) = s THEN {} ELSE awaited[Calls!Callee(y)]
  <2>1. Calls!Callee(y) \in Services
    BY CallFacts
  <2>2. stage[y] = "waiting" <=> y \in awaited[Calls!Callee(y)]
    BY DEF CallsInv, EachCall, OneCall
  <2> QED
    BY <1>1, <1>s, <2>1, <2>2
<1>3. ASSUME NEW y \in Calls!Calls PROVE Onward(y)
  <2>1. Heard(said[Calls!Callee(y)], Len(said[Calls!Callee(y)]), y)' <=> Heard(said[Calls!Callee(y)], Len(said[Calls!Callee(y)]), y)
    BY <1>1 DEF Heard
  <2>2. OneCall(y)
    BY DEF CallsInv, EachCall
  <2>3. CASE y \in awaited[s]
    BY <1>1, <1>2, <2>1, <2>2, <2>3 DEF OneCall, Onward, Past, Has
  <2>4. CASE y \notin awaited[s]
    BY <1>1, <1>2, <2>1, <2>2, <2>4 DEF OneCall, Onward, Past, Has
  <2> QED
    BY <2>3, <2>4
<1>4. /\ EachCall' /\ \A l, t : InLine(l, t) => InLine(l, t)'
      /\ \A l, t : OutLine(l, t) /\ (Requests(l) => stage'[l.call] = "asked") => OutLine(l, t)'
  BY <1>1, <1>3, Moves
<1>5. InputsMean'
  BY <1>1, <1>4, InputsStay
<1>6. OutputsMean'
  <2>1. \A y \in Calls!Calls : stage[y] = "asked" => stage'[y] = "asked"
    BY <1>2
  <2> QED
    BY <1>1, <1>4, <2>1, OutputsStay
<1>7. Counted'
  <2>1. Waits' = Waits
    BY <1>2 DEF Waits
  <2> QED
    BY <1>1, <2>1 DEF CallsInv, Counted
<1>8. stage' \in [Calls!Calls -> CallStages] /\ outcomes' \in [Calls!Calls -> Results]
  BY <1>1, <1>s DEF CallStages, Results
<1>9. awaited' \in [Services -> SUBSET Calls!Calls] /\ \A t \in Services : \A y \in awaited'[t] : Calls!Callee(y) = t
  BY <1>1, <1>s
<1>10. Calls!TypeOK'
  BY <1>1, <1>8, <1>9, <1>t DEF Calls!TypeOK, CallStages, Results
<1> QED
  BY <1>4, <1>5, <1>6, <1>7, <1>10 DEF CallsInv

\* One output is replaced, the calls having gone on.
LEMMA OneOutput ==
  ASSUME CallsInv, NEW s \in Services, NEW q, said' = [said EXCEPT ![s] = q], said \in [Services -> Seq(CallLines \cup Odd)],
         bus \subseteq bus', Single(q), Announced(q)', \A i \in 1 .. Len(q) : OutLine(q[i], s)',
         \A l, t : t # s /\ t \in Services /\ OutLine(l, t) => OutLine(l, t)'
  PROVE  OutputsMean'
<1> SUFFICES ASSUME NEW t \in Services
             PROVE  /\ Single(said'[t]) /\ Announced(said[t])'
                    /\ \A i \in 1 .. Len(said'[t]) : OutLine(said[t][i], t)'
  BY DEF OutputsMean
<1>1. CASE t = s
  <2>1. said'[t] = q
    BY <1>1
  <2> QED
    BY <1>1, <2>1 DEF Announced
<1>2. CASE t # s
  <2>1. said'[t] = said[t]
    BY <1>2
  <2>2. Single(said[t]) /\ Announced(said[t]) /\ \A i \in 1 .. Len(said[t]) : OutLine(said[t][i], t)
    BY DEF CallsInv, OutputsMean
  <2>3. Announced(said[t])'
    BY <2>1, <2>2 DEF Announced, Heard
  <2>4. \A i \in 1 .. Len(said[t]) : \A l : l = said[t][i] => OutLine(l, t)'
    BY <1>2, <2>2
  <2> QED
    BY <2>1, <2>2, <2>3, <2>4
<1> QED
  BY <1>1, <1>2

LEMMA BlurtStep ==
  ASSUME Calls!ServiceCallsAssumption, CallsInv, NEW s \in Services, Calls!Blurt(s)
  PROVE  CallsInv'
<1>t. Calls!TypeOK
  BY DEF CallsInv
<1>s. /\ CallFaults \in Nat /\ setbacks \in 0 .. CallFaults
      /\ said \in [Services -> Seq(CallLines \cup Odd)] /\ said[s] \in Seq(CallLines \cup Odd)
  BY <1>t, CallTypes
<1>1. /\ UNCHANGED <<alive, runs, toServe, stage, outcomes, awaited, waiters, callers, bus, served, strays>>
      /\ setbacks < CallFaults /\ setbacks' = setbacks + 1
  BY DEF Calls!Blurt
<1>2. PICK l \in Odd : said' = [said EXCEPT ![s] = Append(said[s], l)]
  BY <1>s DEF Calls!Blurt
<1>3. l.call \notin Calls!Calls
  BY DEF Calls!ServiceCallsAssumption
<1> DEFINE r == Append(said[s], l)
<1>4. PICK q : q = r
  OBVIOUS
<1>5. /\ q \in Seq(CallLines \cup Odd) /\ Len(q) = Len(said[s]) + 1 /\ Len(said[s]) \in Nat
      /\ Single(q) /\ Announced(q) /\ \A i \in 1 .. Len(q) : OutLine(q[i], s)
      /\ \A i \in 1 .. Len(said[s]) : q[i] = said[s][i]
  <2>1. OutLine(l, s) /\ ~Requests(l)
    BY <1>3 DEF OutLine, Requests
  <2>2. Single(said[s]) /\ Announced(said[s]) /\ \A i \in 1 .. Len(said[s]) : OutLine(said[s][i], s)
    BY DEF CallsInv, OutputsMean
  <2>3. /\ q \in Seq(CallLines \cup Odd) /\ Len(q) = Len(said[s]) + 1 /\ Len(said[s]) \in Nat
        /\ Single(q) /\ Announced(q) /\ q[Len(said[s]) + 1] = l
        /\ \A i \in 1 .. Len(said[s]) : q[i] = said[s][i]
        /\ \A i \in 1 .. Len(q) : i \in 1 .. Len(said[s]) \/ i = Len(said[s]) + 1
    BY <1>3, <1>4, <1>s, <2>1, <2>2, SayingMore
  <2> QED
    BY <2>1, <2>2, <2>3
<1>6. said' = [said EXCEPT ![s] = q] /\ said' \in [Services -> Seq(CallLines \cup Odd)]
  BY <1>2, <1>4, <1>5, <1>s
<1>7. ASSUME NEW y \in Calls!Calls PROVE Onward(y)
  <2>1. OneCall(y) /\ Calls!Callee(y) \in Services
    BY CallFacts DEF CallsInv, EachCall
  <2>2. served[y] = 1 => Heard(said[Calls!Callee(y)], Len(said[Calls!Callee(y)]), y)'
    <3> SUFFICES ASSUME Heard(said[Calls!Callee(y)], Len(said[Calls!Callee(y)]), y)
                 PROVE  Heard(said[Calls!Callee(y)], Len(said[Calls!Callee(y)]), y)'
      BY <2>1 DEF OneCall
    <3>1. CASE Calls!Callee(y) = s
      <4>1. said'[s] = q
        BY <1>6, <1>s
      <4>2. \A j \in 1 .. Len(said[s]) : j \in 1 .. Len(q) /\ q[j] = said[s][j]
        BY <1>5
      <4> QED
        BY <1>1, <3>1, <4>1, <4>2 DEF Heard
    <3>2. CASE Calls!Callee(y) # s
      <4>1. said'[Calls!Callee(y)] = said[Calls!Callee(y)]
        BY <1>6, <1>s, <2>1, <3>2
      <4> QED
        BY <1>1, <4>1 DEF Heard
    <3> QED
      BY <3>1, <3>2
  <2> QED
    BY <1>1, <2>1, <2>2 DEF OneCall, Onward, Past, Has
<1>8. /\ EachCall' /\ \A m, t : InLine(m, t) => InLine(m, t)'
      /\ \A m, t : OutLine(m, t) /\ (Requests(m) => stage'[m.call] = "asked") => OutLine(m, t)'
  BY <1>1, <1>7, Moves
<1>9. \A m, t : OutLine(m, t) => OutLine(m, t)'
  BY <1>1 DEF OutLine
<1>10. InputsMean'
  BY <1>1, <1>8, InputsStay
<1>11. OutputsMean'
  <2>1. Announced(q)'
    BY <1>1, <1>5 DEF Announced, Heard
  <2>2. \A i \in 1 .. Len(q) : OutLine(q[i], s)'
    BY <1>5, <1>9
  <2> QED
    BY <1>1, <1>5, <1>6, <1>9, <1>s, <2>1, <2>2, OneOutput
<1>12. Counted'
  BY <1>1 DEF CallsInv, Counted, Waits
<1>13. Calls!TypeOK'
  BY <1>1, <1>6, <1>s, <1>t DEF Calls!TypeOK, CallLines
<1> QED
  BY <1>8, <1>10, <1>11, <1>12, <1>13 DEF CallsInv

\* The reader takes up a line: an answer that is waited for, a request, an event, or nothing.
LEMMA ReaderStep ==
  ASSUME Calls!ServiceCallsAssumption, CallsInv, NEW s \in Services, Calls!Reader(s)
  PROVE  CallsInv'
<1>t. Calls!TypeOK
  BY DEF CallsInv
<1>s. /\ said \in [Services -> Seq(CallLines \cup Odd)] /\ said[s] \in Seq(CallLines \cup Odd)
      /\ stage \in [Calls!Calls -> CallStages] /\ outcomes \in [Calls!Calls -> Results]
      /\ awaited \in [Services -> SUBSET Calls!Calls] /\ \A t \in Services : \A y \in awaited[t] : Calls!Callee(y) = t
      /\ bus \subseteq Calls!Calls
  BY <1>t, CallTypes DEF Calls!TypeOK
<1>q. Single(said[s]) /\ Announced(said[s]) /\ \A i \in 1 .. Len(said[s]) : OutLine(said[s][i], s)
  BY DEF CallsInv, OutputsMean
<1> DEFINE heard == Head(said[s])
           x == heard.call
<1>1. /\ UNCHANGED <<alive, runs, toServe, waiters, callers, served, strays, setbacks>>
      /\ said[s] # <<>> /\ said' = [said EXCEPT ![s] = Tail(said[s])]
  BY <1>s DEF Calls!Reader
<1>2. PICK q : q = Tail(said[s])
  OBVIOUS
<1>3. /\ Single(q) /\ q \in Seq(CallLines \cup Odd) /\ Len(said[s]) \in Nat /\ Len(said[s]) > 0 /\ Len(q) = Len(said[s]) - 1
      /\ heard = said[s][1] /\ heard \in CallLines \cup Odd
      /\ \A i \in 1 .. Len(q) : q[i] = said[s][i + 1] /\ i + 1 \in 1 .. Len(said[s]) /\ i + 1 # 1
      /\ \A i \in 1 .. Len(q) : Requests(heard) /\ Requests(q[i]) => q[i].call # x
  BY <1>1, <1>2, <1>q, <1>s, TailSingle, HeadTailProperties
<1>4. 1 \in 1 .. Len(said[s]) /\ OutLine(heard, s)
  BY <1>3, <1>q
<1>6. /\ Calls!parse_inbound(heard) = "Response" => Calls!TakeAnswer(s, x, heard.success)
      /\ Calls!parse_inbound(heard) = "Request" => Calls!TakeRequest(x)
      /\ Calls!parse_inbound(heard) = "Notification" => Calls!TakeNotification(heard)
      /\ \/ Calls!parse_inbound(heard) = "Response" \/ Calls!parse_inbound(heard) = "Request"
         \/ Calls!parse_inbound(heard) = "Notification" \/ UNCHANGED <<stage, outcomes, awaited, bus>>
  <2> HIDE DEF heard
  <2> QED
    BY DEF Calls!Reader, heard
<1> HIDE DEF heard, x
\* What the line does.
<1>7. \/ /\ UNCHANGED <<stage, outcomes, awaited, bus>> /\ \A y \in Calls!Calls : heard # Calls!Publish(y)
         /\ ~Requests(heard)
      \/ /\ x \in Calls!Calls /\ x \in awaited[s] /\ bus' = bus /\ ~Requests(heard)
         /\ stage' = [stage EXCEPT ![x] = "answered"]
         /\ outcomes' = [outcomes EXCEPT ![x] = IF heard.success THEN "ok" ELSE "error"]
         /\ awaited' = [awaited EXCEPT ![s] = awaited[s] \ {x}]
         /\ heard.success => served[x] = 1 /\ x \in bus /\ (~Calls!IsLast(x) => outcomes[Calls!Child(x)] = "ok")
         /\ \A y \in Calls!Calls : heard # Calls!Publish(y)
      \/ /\ x \in Calls!Calls /\ stage[x] = "asked" /\ stage' = [stage EXCEPT ![x] = "worker"]
         /\ UNCHANGED <<outcomes, awaited, bus>> /\ Calls!Caller(x) = s /\ Requests(heard)
         /\ \A y \in Calls!Calls : heard # Calls!Publish(y)
      \/ /\ x \in Calls!Calls /\ UNCHANGED <<stage, outcomes, awaited>> /\ bus' = bus \cup {x} /\ ~Requests(heard)
         /\ \A y \in Calls!Calls : heard = Calls!Publish(y) => y = x
  <2>1. CASE x \notin Calls!Calls
    <3>1. heard.method # "event.publish"
      <4>1. heard \notin CallLines
        BY <2>1 DEF CallLines, Calls!Lines, x
      <4> QED
        BY <1>3, <4>1 DEF Calls!ServiceCallsAssumption
    <3>2. x \notin awaited[s]
      BY <1>s, <2>1
    <3>3. UNCHANGED <<stage, outcomes, awaited, bus>>
      BY <1>6, <2>1, <3>1, <3>2 DEF Calls!TakeAnswer, Calls!TakeRequest, Calls!TakeNotification
    <3>4. \A y \in Calls!Calls : heard # Calls!Publish(y)
      <4> SUFFICES ASSUME NEW y \in Calls!Calls, heard = Calls!Publish(y) PROVE FALSE
        OBVIOUS
      <4>1. Calls!Publish(y).call = y
        BY LineFacts
      <4> QED
        BY <2>1, <4>1 DEF x
    <3> QED
      BY <2>1, <3>3, <3>4 DEF Requests, x
  <2>2. CASE x \in Calls!Calls /\ heard.ok
    <3>1. /\ Calls!Callee(x) = s /\ served[x] = 1 /\ heard = Calls!Answer(x, heard.success)
          /\ heard.success /\ ~Calls!IsLast(x) => outcomes[Calls!Child(x)] = "ok"
      BY <1>4, <2>2 DEF OutLine, x
    <3>2. Calls!parse_inbound(heard) = "Response"
      BY <2>2 DEF Calls!parse_inbound
    <3>3. Calls!TakeAnswer(s, x, heard.success)
      BY <1>6, <3>2
    <3>4. x \in bus
      <4>1. Heard(said[s], 1 - 1, x)
        BY <1>3, <1>4, <1>q, <2>2 DEF Announced, x
      <4> QED
        BY <4>1 DEF Heard
    <3>5. (\A y \in Calls!Calls : heard # Calls!Publish(y)) /\ ~Requests(heard)
      BY <2>2, LineFacts DEF Requests
    <3>6. CASE x \in awaited[s]
      <4>1. /\ stage' = [stage EXCEPT ![x] = "answered"] /\ bus' = bus
            /\ outcomes' = [outcomes EXCEPT ![x] = IF heard.success THEN "ok" ELSE "error"]
            /\ awaited' = [awaited EXCEPT ![s] = awaited[s] \ {x}]
        BY <1>s, <3>3, <3>6 DEF Calls!TakeAnswer
      <4> QED
        BY <2>2, <3>1, <3>4, <3>5, <3>6, <4>1
    <3>7. CASE x \notin awaited[s]
      BY <3>3, <3>5, <3>7 DEF Calls!TakeAnswer
    <3> QED
      BY <3>6, <3>7
  <2>3. CASE x \in Calls!Calls /\ ~heard.ok /\ heard.id
    <3>1. heard = Calls!Ask(x) /\ Calls!Caller(x) = s /\ stage[x] = "asked"
      BY <1>4, <2>3 DEF OutLine, x
    <3>2. Calls!parse_inbound(heard) = "Request"
      BY <2>3, <3>1, LineFacts
    <3>3. Calls!TakeRequest(x)
      BY <1>6, <3>2
    <3>4. \A y \in Calls!Calls : heard # Calls!Publish(y)
      <4> SUFFICES ASSUME NEW y \in Calls!Calls, heard = Calls!Publish(y) PROVE FALSE
        OBVIOUS
      <4>1. ~Calls!Publish(y).id
        BY LineFacts
      <4> QED
        BY <2>3, <4>1
    <3>5. Requests(heard)
      BY <2>3 DEF Requests, x
    <3> QED
      BY <2>3, <3>1, <3>3, <3>4, <3>5 DEF Calls!TakeRequest
  <2>4. CASE x \in Calls!Calls /\ ~heard.ok /\ ~heard.id
    <3>1. heard = Calls!Publish(x)
      BY <1>4, <2>4 DEF OutLine, x
    <3>2. Calls!parse_inbound(heard) = "Notification" /\ heard.method = "event.publish"
      BY <2>4, <3>1, LineFacts
    <3>3. Calls!TakeNotification(heard)
      BY <1>6, <3>2
    <3>4. \A y \in Calls!Calls : heard = Calls!Publish(y) => y = x
      <4> SUFFICES ASSUME NEW y \in Calls!Calls, heard = Calls!Publish(y) PROVE y = x
        OBVIOUS
      <4>1. Calls!Publish(y).call = y
        BY LineFacts
      <4> QED
        BY <4>1 DEF x
    <3> QED
      BY <2>4, <3>2, <3>3, <3>4 DEF Calls!TakeNotification, Requests, x
  <2> QED
    BY <2>1, <2>2, <2>3, <2>4
<1>8. bus \subseteq bus' /\ \A y \in Calls!Calls : heard = Calls!Publish(y) => y \in bus'
  BY <1>7
<1>9. said' = [said EXCEPT ![s] = q] /\ said' \in [Services -> Seq(CallLines \cup Odd)] /\ said'[s] = q
  BY <1>1, <1>2, <1>3, <1>s
\* An event that was ahead is still, or is on the bus.
<1>10. ASSUME NEW n \in 0 .. Len(q), NEW y \in Calls!Calls, Heard(said[s], n + 1, y) PROVE Heard(q, n, y)'
  <2>1. CASE y \in bus
    BY <1>8, <2>1 DEF Heard
  <2>2. CASE y \notin bus
    <3>1. PICK j \in 1 .. n + 1 : said[s][j] = Calls!Publish(y)
      BY <1>10, <2>2 DEF Heard
    <3>2. CASE j = 1
      BY <1>3, <1>8, <3>1, <3>2 DEF Heard
    <3>3. CASE j # 1
      <4>1. j - 1 \in 1 .. n /\ j - 1 \in 1 .. Len(q) /\ (j - 1) + 1 = j
        BY <1>3, <3>3
      <4>2. q[j - 1] = Calls!Publish(y)
        BY <1>3, <3>1, <4>1
      <4> QED
        BY <4>1, <4>2 DEF Heard
    <3> QED
      BY <3>2, <3>3
  <2> QED
    BY <2>1, <2>2
<1>11. ASSUME NEW y \in Calls!Calls PROVE Onward(y)
  <2>1. OneCall(y) /\ Calls!Callee(y) \in Services
    BY CallFacts DEF CallsInv, EachCall
  <2>2. served[y] = 1 => Heard(said[Calls!Callee(y)], Len(said[Calls!Callee(y)]), y)'
    <3> SUFFICES ASSUME Heard(said[Calls!Callee(y)], Len(said[Calls!Callee(y)]), y)
                 PROVE  Heard(said[Calls!Callee(y)], Len(said[Calls!Callee(y)]), y)'
      BY <2>1 DEF OneCall
    <3>1. CASE Calls!Callee(y) = s
      <4>1. Len(q) \in 0 .. Len(q) /\ Len(q) + 1 = Len(said[s])
        BY <1>3
      <4>2. Heard(q, Len(q), y)'
        BY <1>10, <3>1, <4>1
      <4> QED
        BY <1>9, <3>1, <4>2 DEF Heard
    <3>2. CASE Calls!Callee(y) # s
      <4>1. said'[Calls!Callee(y)] = said[Calls!Callee(y)]
        BY <1>9, <1>s, <2>1, <3>2
      <4> QED
        BY <1>8, <4>1 DEF Heard
    <3> QED
      BY <3>1, <3>2
  <2>3. y \in awaited[s] => Calls!Callee(y) = s
    BY <1>s
  <2>4. CASE UNCHANGED <<stage, outcomes, awaited>>
    BY <1>8, <2>1, <2>2, <2>4 DEF OneCall, Onward, Past, Has
  <2>5. CASE /\ x \in Calls!Calls /\ x \in awaited[s] /\ bus' = bus
             /\ stage' = [stage EXCEPT ![x] = "answered"]
             /\ outcomes' = [outcomes EXCEPT ![x] = IF heard.success THEN "ok" ELSE "error"]
             /\ awaited' = [awaited EXCEPT ![s] = awaited[s] \ {x}]
             /\ heard.success => served[x] = 1 /\ x \in bus /\ (~Calls!IsLast(x) => outcomes[Calls!Child(x)] = "ok")
    <3>1. CASE y = x
      <4>1. stage'[y] = "answered" /\ outcomes'[y] = IF heard.success THEN "ok" ELSE "error"
        BY <1>s, <2>5, <3>1
      <4>2. stage[y] = "waiting" /\ Calls!Callee(y) = s /\ y \notin awaited'[Calls!Callee(y)]
        BY <1>s, <2>1, <2>3, <2>5, <3>1 DEF OneCall
      <4>3. outcomes'[y] = "ok" => heard.success
        BY <4>1
      <4>4. outcomes[y] # "ok"
        BY <2>1, <4>2 DEF OneCall, Has
      <4> QED
        BY <2>2, <2>5, <3>1, <4>1, <4>2, <4>3, <4>4 DEF Onward, Past, Has
    <3>2. CASE y # x
      <4>1. stage'[y] = stage[y] /\ outcomes'[y] = outcomes[y]
        BY <1>s, <2>5, <3>2
      <4>2. y \in awaited'[Calls!Callee(y)] <=> y \in awaited[Calls!Callee(y)]
        BY <1>s, <2>1, <2>5, <3>2
      <4> QED
        BY <2>1, <2>2, <2>5, <4>1, <4>2 DEF OneCall, Onward, Past, Has
    <3> QED
      BY <3>1, <3>2
  <2>6. CASE /\ x \in Calls!Calls /\ stage[x] = "asked" /\ stage' = [stage EXCEPT ![x] = "worker"]
             /\ UNCHANGED <<outcomes, awaited, bus>>
    <3>1. CASE y = x
      <4>1. stage'[y] = "worker" /\ stage[y] = "asked"
        BY <1>s, <2>6, <3>1
      <4> QED
        BY <2>1, <2>2, <2>6, <4>1 DEF OneCall, Onward, Past, Has
    <3>2. CASE y # x
      <4>1. stage'[y] = stage[y]
        BY <1>s, <2>6, <3>2
      <4> QED
        BY <2>1, <2>2, <2>6, <4>1 DEF OneCall, Onward, Past, Has
    <3> QED
      BY <3>1, <3>2
  <2> QED
    BY <1>7, <2>4, <2>5, <2>6
<1>12. /\ EachCall' /\ \A l, t : InLine(l, t) => InLine(l, t)'
       /\ \A l, t : OutLine(l, t) /\ (Requests(l) => stage'[l.call] = "asked") => OutLine(l, t)'
  BY <1>1, <1>11, Moves
<1>13. InputsMean'
  BY <1>1, <1>12, InputsStay
\* Who is still to be taken up.
<1>14. \A y \in Calls!Calls : stage[y] = "asked" => stage'[y] = "asked" \/ (Requests(heard) /\ y = x /\ Calls!Caller(y) = s)
  <2> SUFFICES ASSUME NEW y \in Calls!Calls, stage[y] = "asked", stage'[y] # "asked"
               PROVE  Requests(heard) /\ y = x /\ Calls!Caller(y) = s
    OBVIOUS
  <2>1. OneCall(y) /\ (y \in awaited[s] => Calls!Callee(y) = s)
    BY <1>s DEF CallsInv, EachCall
  <2>2. y \notin awaited[s]
    BY <2>1 DEF OneCall
  <2> QED
    BY <1>7, <1>s, <2>2
<1>15. \A i \in 1 .. Len(q) : OutLine(q[i], s)'
  <2> TAKE i \in 1 .. Len(q)
  <2>1. PICK l : l = q[i]
    OBVIOUS
  <2>2. OutLine(l, s) /\ (Requests(heard) /\ Requests(l) => l.call # x)
    BY <1>3, <1>q, <2>1
  <2>3. Requests(l) => stage'[l.call] = "asked"
    BY <1>14, <2>2 DEF OutLine, Requests
  <2> QED
    BY <1>12, <2>1, <2>2, <2>3
<1>16. \A l, t : t # s /\ t \in Services /\ OutLine(l, t) => OutLine(l, t)'
  <2> SUFFICES ASSUME NEW l, NEW t \in Services, t # s, OutLine(l, t) PROVE OutLine(l, t)'
    OBVIOUS
  <2>1. Requests(l) => stage'[l.call] = "asked"
    BY <1>14 DEF OutLine, Requests
  <2> QED
    BY <1>12, <2>1
<1>17. Announced(q)'
  <2> SUFFICES ASSUME NEW i \in 1 .. Len(q), q[i].ok, q[i].call \in Calls!Calls PROVE Heard(q, i - 1, q[i].call)'
    BY DEF Announced
  <2>1. Heard(said[s], (i + 1) - 1, q[i].call)
    BY <1>3, <1>q DEF Announced
  <2>2. i - 1 \in 0 .. Len(q) /\ (i - 1) + 1 = (i + 1) - 1
    BY <1>3
  <2>3. PICK y \in Calls!Calls : y = q[i].call
    OBVIOUS
  <2>4. Heard(said[s], (i - 1) + 1, y)
    BY <2>1, <2>2, <2>3
  <2>5. Heard(q, i - 1, y)'
    BY <1>10, <2>2, <2>4
  <2> QED
    BY <2>3, <2>5
<1>18. OutputsMean'
  BY <1>3, <1>8, <1>9, <1>15, <1>16, <1>17, <1>s, OneOutput
<1>19. Counted'
  <2>1. Waits' = Waits
    <3> SUFFICES ASSUME NEW y \in Calls!Calls
                 PROVE  stage'[y] \in {"waiting", "answered"} <=> stage[y] \in {"waiting", "answered"}
      BY DEF Waits
    <3>1. OneCall(y) /\ (y \in awaited[s] => Calls!Callee(y) = s)
      BY <1>s DEF CallsInv, EachCall
    <3>2. y \in awaited[s] => stage[y] = "waiting"
      BY <3>1 DEF OneCall
    <3> QED
      BY <1>7, <1>s, <3>2
  <2> QED
    BY <1>1, <2>1 DEF CallsInv, Counted
<1>20. /\ stage' \in [Calls!Calls -> CallStages] /\ outcomes' \in [Calls!Calls -> Results] /\ bus' \subseteq Calls!Calls
       /\ awaited' \in [Services -> SUBSET Calls!Calls] /\ \A t \in Services : \A y \in awaited'[t] : Calls!Callee(y) = t
  <2>1. stage' = stage \/ \E b \in CallStages : stage' = [stage EXCEPT ![x] = b]
    BY <1>7 DEF CallStages
  <2>2. outcomes' = outcomes \/ \E b \in Results : outcomes' = [outcomes EXCEPT ![x] = b]
    BY <1>7 DEF Results
  <2>3. bus' \subseteq Calls!Calls
    BY <1>7, <1>s
  <2>4. awaited' = awaited \/ awaited' = [awaited EXCEPT ![s] = awaited[s] \ {x}]
    BY <1>7
  <2>5. awaited' \in [Services -> SUBSET Calls!Calls] /\ \A t \in Services : \A y \in awaited'[t] : Calls!Callee(y) = t
    BY <1>s, <2>4
  <2> QED
    BY <1>s, <2>1, <2>2, <2>3, <2>5
<1>21. Calls!TypeOK'
  BY <1>1, <1>9, <1>20, <1>t DEF Calls!TypeOK, CallLines, CallStages, Results
<1> QED
  BY <1>12, <1>13, <1>18, <1>19, <1>21 DEF CallsInv

\* The service has the result of a request of its own, and answers what it serves.
LEMMA ResumeStep ==
  ASSUME Calls!ServiceCallsAssumption, CallsInv, NEW s \in Services, Calls!Process(s), Head(toServe[s]).ok
  PROVE  CallsInv'
<1>t. Calls!TypeOK
  BY DEF CallsInv
<1>s. /\ said \in [Services -> Seq(CallLines \cup Odd)] /\ said[s] \in Seq(CallLines \cup Odd)
      /\ toServe \in [Services -> Seq(CallLines)] /\ toServe[s] \in Seq(CallLines)
  BY <1>t, CallTypes
<1>q. /\ Single(said[s]) /\ Announced(said[s]) /\ \A i \in 1 .. Len(said[s]) : OutLine(said[s][i], s)
      /\ Single(toServe[s]) /\ \A i \in 1 .. Len(toServe[s]) : InLine(toServe[s][i], s)
  BY DEF CallsInv, OutputsMean, InputsMean
<1>0. PICK line : line = Head(toServe[s])
  OBVIOUS
<1> DEFINE x == line.call
           p == Calls!Parent(x)
<1>1. /\ UNCHANGED <<alive, runs, stage, outcomes, awaited, waiters, callers, bus, served, setbacks>>
      /\ toServe[s] # <<>> /\ toServe' = [toServe EXCEPT ![s] = Tail(toServe[s])]
      /\ \/ said' = [said EXCEPT ![s] = Append(said[s], Calls!Answer(p, line.success))] /\ strays' = strays
         \/ strays' = strays \cup {x} /\ said' = said
  BY <1>0, <1>s DEF Calls!Process, Calls!Resume
<1>2. PICK r : r = Tail(toServe[s])
  OBVIOUS
<1>3. /\ Single(r) /\ r \in Seq(CallLines) /\ line = toServe[s][1] /\ line \in CallLines
      /\ Len(toServe[s]) \in Nat /\ Len(toServe[s]) > 0
      /\ \A i \in 1 .. Len(r) : r[i] = toServe[s][i + 1] /\ i + 1 \in 1 .. Len(toServe[s])
  BY <1>0, <1>1, <1>2, <1>q, <1>s, TailSingle, HeadTailProperties
<1>4. /\ x \in Calls!Calls /\ ~Calls!IsFirst(x) /\ Calls!Caller(x) = s /\ stage[x] = "over"
      /\ line.success => outcomes[x] = "ok"
  <2>1. InLine(line, s)
    <3>1. 1 \in 1 .. Len(toServe[s])
      BY <1>3
    <3> QED
      BY <1>3, <1>q, <3>1
  <2> QED
    BY <1>0, <2>1 DEF InLine
<1>5. p \in Calls!Calls /\ ~Calls!IsLast(p) /\ Calls!Child(p) = x /\ Calls!Callee(p) = s
  BY <1>4, CallFacts
<1>6. served[p] = 1 /\ Heard(said[s], Len(said[s]), p)
  <2>1. OneCall(p)
    BY <1>5 DEF CallsInv, EachCall
  <2> QED
    BY <1>4, <1>5, <2>1 DEF OneCall
<1> HIDE DEF x, p
<1>7. line.success \in BOOLEAN
  BY <1>3 DEF CallLines, Calls!Lines
<1>8. PICK l : l = Calls!Answer(p, line.success)
  OBVIOUS
<1>9. l \in CallLines /\ l.ok /\ l.call = p /\ l.success = line.success
  BY <1>5, <1>7, <1>8, LineFacts
<1>10. ~Requests(l)
  BY <1>9 DEF Requests
<1>11. OutLine(l, s)
  BY <1>4, <1>5, <1>6, <1>8, <1>9 DEF OutLine
<1>12. PICK q : q = Append(said[s], l)
  OBVIOUS
<1>13. /\ q \in Seq(CallLines \cup Odd) /\ Single(q) /\ Announced(q)
       /\ \A i \in 1 .. Len(said[s]) : q[i] = said[s][i] /\ i \in 1 .. Len(q)
       /\ \A i \in 1 .. Len(q) : OutLine(q[i], s)
  <2>1. /\ q \in Seq(CallLines \cup Odd) /\ Len(q) = Len(said[s]) + 1 /\ Len(said[s]) \in Nat
        /\ Single(q) /\ Announced(q) /\ q[Len(said[s]) + 1] = l
        /\ \A i \in 1 .. Len(said[s]) : q[i] = said[s][i] /\ i \in 1 .. Len(q)
        /\ \A i \in 1 .. Len(q) : i \in 1 .. Len(said[s]) \/ i = Len(said[s]) + 1
    <3>1. l \in CallLines \cup Odd
      BY <1>9
    <3>2. l.ok /\ l.call \in Calls!Calls => Heard(said[s], Len(said[s]), l.call)
      BY <1>6, <1>9
    <3> QED
      BY <1>10, <1>12, <1>q, <1>s, <3>1, <3>2, SayingMore
  <2> QED
    BY <1>11, <1>q, <2>1
<1>14. said' = said \/ said' = [said EXCEPT ![s] = q]
  BY <1>1, <1>8, <1>12 DEF p, x
<1>15. said' \in [Services -> Seq(CallLines \cup Odd)]
  BY <1>13, <1>14, <1>s
<1>16. ASSUME NEW y \in Calls!Calls PROVE Onward(y)
  <2>1. OneCall(y) /\ Calls!Callee(y) \in Services
    BY CallFacts DEF CallsInv, EachCall
  <2>2. served[y] = 1 => Heard(said[Calls!Callee(y)], Len(said[Calls!Callee(y)]), y)'
    <3> SUFFICES ASSUME Heard(said[Calls!Callee(y)], Len(said[Calls!Callee(y)]), y)
                 PROVE  Heard(said[Calls!Callee(y)], Len(said[Calls!Callee(y)]), y)'
      BY <2>1 DEF OneCall
    <3>1. CASE said' = [said EXCEPT ![s] = q] /\ Calls!Callee(y) = s
      <4>1. said'[s] = q
        BY <1>s, <3>1
      <4> QED
        BY <1>1, <1>13, <3>1, <4>1 DEF Heard
    <3>2. CASE said' = said \/ Calls!Callee(y) # s
      <4>1. said'[Calls!Callee(y)] = said[Calls!Callee(y)]
        BY <1>14, <1>s, <2>1, <3>2
      <4> QED
        BY <1>1, <4>1 DEF Heard
    <3> QED
      BY <1>14, <3>1, <3>2
  <2> QED
    BY <1>1, <2>1, <2>2 DEF OneCall, Onward, Past, Has
<1>17. /\ EachCall' /\ \A m, t : InLine(m, t) => InLine(m, t)'
       /\ \A m, t : OutLine(m, t) /\ (Requests(m) => stage'[m.call] = "asked") => OutLine(m, t)'
  BY <1>1, <1>16, Moves
<1>18. \A m, t : OutLine(m, t) => OutLine(m, t)'
  BY <1>1 DEF OutLine
<1>19. OutputsMean'
  <2>1. CASE said' = said
    BY <1>1, <1>17, <2>1, OutputsStay
  <2>2. CASE said' = [said EXCEPT ![s] = q]
    <3>1. Announced(q)'
      BY <1>1, <1>13 DEF Announced, Heard
    <3>2. \A i \in 1 .. Len(q) : OutLine(q[i], s)'
      BY <1>13, <1>18
    <3> QED
      BY <1>1, <1>13, <1>18, <1>s, <2>2, <3>1, <3>2, OneOutput
  <2> QED
    BY <1>14, <2>1, <2>2
<1>20. toServe' = [toServe EXCEPT ![s] = r] /\ toServe' \in [Services -> Seq(CallLines)]
  BY <1>1, <1>2, <1>3, <1>s
<1>21. InputsMean'
  <2> SUFFICES ASSUME NEW t \in Services
               PROVE  Single(toServe'[t]) /\ \A i \in 1 .. Len(toServe'[t]) : InLine(toServe[t][i], t)'
    BY DEF InputsMean
  <2>1. CASE t = s
    <3>1. toServe'[t] = r
      BY <1>20, <1>s, <2>1
    <3>2. \A i \in 1 .. Len(r) : \A m : m = r[i] => InLine(m, s)'
      BY <1>3, <1>17, <1>q
    <3> QED
      BY <1>3, <2>1, <3>1, <3>2
  <2>2. CASE t # s
    <3>1. toServe'[t] = toServe[t]
      BY <1>20, <1>s, <2>2
    <3>2. Single(toServe[t]) /\ \A i \in 1 .. Len(toServe[t]) : InLine(toServe[t][i], t)
      BY DEF CallsInv, InputsMean
    <3>3. \A i \in 1 .. Len(toServe[t]) : \A m : m = toServe[t][i] => InLine(m, t)'
      BY <1>17, <3>2
    <3> QED
      BY <3>1, <3>2, <3>3
  <2> QED
    BY <2>1, <2>2
<1>22. Counted'
  BY <1>1 DEF CallsInv, Counted, Waits
<1>23. strays' \subseteq Calls!Calls
  <2>1. strays' = strays \/ strays' = strays \cup {x}
    BY <1>1 DEF x
  <2> QED
    BY <1>4, <1>t, <2>1 DEF Calls!TypeOK
<1>24. Calls!TypeOK'
  BY <1>1, <1>15, <1>20, <1>23, <1>t DEF Calls!TypeOK, CallLines
<1> QED
  BY <1>17, <1>19, <1>21, <1>22, <1>24 DEF CallsInv

LEMMA TwoMore ==
  ASSUME NEW S, NEW q \in Seq(S), NEW a \in S, NEW b \in S
  PROVE  q \o <<a, b>> = Append(Append(q, a), b)
<1>1. <<a, b>> \in Seq(S) /\ Len(<<a, b>>) = 2 /\ <<a, b>>[1] = a /\ <<a, b>>[2] = b
  OBVIOUS
<1>2. PICK two : two = <<a, b>>
  OBVIOUS
<1>3. PICK m : m = Append(q, a)
  OBVIOUS
<1>4. PICK n : n = Append(m, b)
  OBVIOUS
<1>5. PICK r : r = q \o two
  OBVIOUS
<1>6. Len(q) \in Nat /\ m \in Seq(S) /\ Len(m) = Len(q) + 1 /\ m[Len(q) + 1] = a /\ \A i \in 1 .. Len(q) : m[i] = q[i]
  BY <1>3, AppendProperties, LenProperties
<1>7. n \in Seq(S) /\ Len(n) = Len(m) + 1 /\ n[Len(m) + 1] = b /\ \A i \in 1 .. Len(m) : n[i] = m[i]
  BY <1>4, <1>6, AppendProperties
<1>8. /\ r \in Seq(S) /\ Len(r) = Len(q) + Len(two)
      /\ \A i \in 1 .. Len(q) + Len(two) : r[i] = IF i <= Len(q) THEN q[i] ELSE two[i - Len(q)]
  BY <1>1, <1>2, <1>5, ConcatProperties
<1>9. Len(two) = 2 /\ two[1] = a /\ two[2] = b
  BY <1>1, <1>2
<1>10. ASSUME NEW i \in 1 .. Len(n) PROVE n[i] = r[i]
  <2>1. CASE i \in 1 .. Len(q)
    <3>1. i \in 1 .. Len(m) /\ i \in 1 .. Len(q) + Len(two) /\ i <= Len(q)
      BY <1>6, <1>9, <2>1
    <3> QED
      BY <1>6, <1>7, <1>8, <2>1, <3>1
  <2>2. CASE i = Len(q) + 1
    <3>1. i \in 1 .. Len(m) /\ i \in 1 .. Len(q) + Len(two) /\ ~(i <= Len(q)) /\ i - Len(q) = 1
      BY <1>6, <1>9, <2>2
    <3> QED
      BY <1>6, <1>7, <1>8, <1>9, <2>2, <3>1
  <2>3. CASE i = Len(q) + 2
    <3>1. i = Len(m) + 1 /\ i \in 1 .. Len(q) + Len(two) /\ ~(i <= Len(q)) /\ i - Len(q) = 2
      BY <1>6, <1>9, <2>3
    <3> QED
      BY <1>7, <1>8, <1>9, <3>1
  <2> QED
    BY <1>6, <1>7, <2>1, <2>2, <2>3
<1>11. Len(n) = Len(r)
  BY <1>6, <1>7, <1>8, <1>9
<1>12. n = r
  BY <1>7, <1>8, <1>10, <1>11, SeqEqual
<1> QED
  BY <1>2, <1>3, <1>4, <1>5, <1>12

\* The service has a request: its event, and then the answer or a request of its own.
LEMMA ServeStep ==
  ASSUME Calls!ServiceCallsAssumption, CallsInv, NEW s \in Services, Calls!Process(s), ~Head(toServe[s]).ok
  PROVE  CallsInv'
<1>t. Calls!TypeOK
  BY DEF CallsInv
<1>s. /\ said \in [Services -> Seq(CallLines \cup Odd)] /\ said[s] \in Seq(CallLines \cup Odd)
      /\ toServe \in [Services -> Seq(CallLines)] /\ toServe[s] \in Seq(CallLines)
      /\ stage \in [Calls!Calls -> CallStages] /\ served \in [Calls!Calls -> Nat]
      /\ callers \in [Calls!Calls -> Nat] /\ runs \in [Services -> Nat]
  BY <1>t, CallTypes DEF Calls!TypeOK
<1>q. /\ Single(said[s]) /\ Announced(said[s]) /\ \A i \in 1 .. Len(said[s]) : OutLine(said[s][i], s)
      /\ Single(toServe[s]) /\ \A i \in 1 .. Len(toServe[s]) : InLine(toServe[s][i], s)
  BY DEF CallsInv, OutputsMean, InputsMean
<1>0. PICK line : line = Head(toServe[s])
  OBVIOUS
<1>x. PICK x : x = line.call
  OBVIOUS
<1>c. PICK c : c = Calls!Child(x)
  OBVIOUS
<1> DEFINE last == Calls!IsLast(x)
<1>1. /\ UNCHANGED <<alive, runs, outcomes, awaited, waiters, bus, strays, setbacks>>
      /\ toServe[s] # <<>> /\ toServe' = [toServe EXCEPT ![s] = Tail(toServe[s])]
      /\ served' = [served EXCEPT ![x] = served[x] + 1]
      /\ said' = [said EXCEPT ![s] = said[s] \o (IF last THEN <<Calls!Publish(x), Calls!Answer(x, TRUE)>>
                                                ELSE <<Calls!Publish(x), Calls!Ask(c)>>)]
      /\ stage' = IF last THEN stage ELSE [stage EXCEPT ![c] = "asked"]
      /\ callers' = IF last THEN callers ELSE [callers EXCEPT ![c] = runs[s]]
  <2>1. Calls!Serve(s, x) /\ UNCHANGED <<alive, runs, outcomes, awaited, waiters, bus, setbacks>>
        /\ toServe[s] # <<>> /\ toServe' = [toServe EXCEPT ![s] = Tail(toServe[s])]
    BY <1>0, <1>s, <1>x DEF Calls!Process
  <2>2. x \in Calls!Calls
    <3>1. 1 \in 1 .. Len(toServe[s]) /\ Head(toServe[s]) = toServe[s][1]
      BY <1>q, <1>s, <2>1, TailSingle
    <3> QED
      BY <1>0, <1>q, <1>x, <3>1 DEF InLine
  <2> QED
    BY <1>c, <1>s, <2>1, <2>2 DEF Calls!Serve
<1>2. PICK r : r = Tail(toServe[s])
  OBVIOUS
<1>3. /\ Single(r) /\ r \in Seq(CallLines) /\ line = toServe[s][1] /\ line \in CallLines
      /\ Len(toServe[s]) \in Nat /\ Len(toServe[s]) > 0
      /\ \A i \in 1 .. Len(r) : r[i] = toServe[s][i + 1] /\ i + 1 \in 1 .. Len(toServe[s])
      /\ \A i \in 1 .. Len(r) : Requests(line) /\ Requests(r[i]) => r[i].call # x
  BY <1>0, <1>1, <1>2, <1>q, <1>s, <1>x, TailSingle, HeadTailProperties
<1>4. x \in Calls!Calls /\ Calls!Callee(x) = s /\ served[x] = 0 /\ Past(x) /\ Requests(line)
  <2>1. InLine(line, s)
    <3>1. 1 \in 1 .. Len(toServe[s])
      BY <1>3
    <3> QED
      BY <1>3, <1>q, <3>1
  <2>2. ~line.ok /\ x \in Calls!Calls /\ line = Calls!Ask(x) /\ Calls!Callee(x) = s /\ served[x] = 0 /\ Past(x)
    BY <1>0, <1>x, <2>1 DEF InLine
  <2> QED
    BY <1>x, <2>2, LineFacts DEF Requests
<1>5. /\ ~last => c \in Calls!Calls /\ ~Calls!IsFirst(c) /\ c # x /\ Calls!Caller(c) = s /\ stage[c] = "new"
      /\ \A y \in Calls!Calls : Calls!Child(y) = c => y = x
  <2>1. OneCall(x)
    BY <1>4 DEF CallsInv, EachCall
  <2> QED
    BY <1>4, <1>c, <2>1, CallFacts DEF OneCall
<1>6. served'[x] = 1 /\ \A y \in Calls!Calls : y # x => served'[y] = served[y]
  BY <1>1, <1>4, <1>s
<1>7. \A y \in Calls!Calls : stage'[y] = IF ~last /\ y = c THEN "asked" ELSE stage[y]
  BY <1>1, <1>5, <1>s
<1> HIDE DEF last
\* What the service writes.
<1>8. PICK a : a = Calls!Publish(x)
  OBVIOUS
<1>9. a \in CallLines /\ ~a.ok /\ ~a.id /\ a.call = x /\ ~Requests(a)
  BY <1>4, <1>8, LineFacts DEF Requests
<1>10. PICK b : b = IF last THEN Calls!Answer(x, TRUE) ELSE Calls!Ask(c)
  OBVIOUS
<1>11. b \in CallLines /\ (last => b.ok /\ b.call = x /\ b.success = TRUE) /\ (~last => ~b.ok /\ b.id /\ b.call = c)
  BY <1>4, <1>5, <1>10, LineFacts
<1>12. PICK m : m = Append(said[s], a)
  OBVIOUS
<1>13. PICK q : q = Append(m, b)
  OBVIOUS
<1>14. said' = [said EXCEPT ![s] = q]
  <2>1. a \in CallLines \cup Odd /\ b \in CallLines \cup Odd
    BY <1>9, <1>11
  <2>2. said[s] \o <<a, b>> = q
    BY <1>12, <1>13, <1>s, <2>1, TwoMore
  <2>3. (IF last THEN <<Calls!Publish(x), Calls!Answer(x, TRUE)>> ELSE <<Calls!Publish(x), Calls!Ask(c)>>) = <<a, b>>
    BY <1>8, <1>10
  <2> QED
    BY <1>1, <2>2, <2>3
<1>15. /\ m \in Seq(CallLines \cup Odd) /\ Len(m) = Len(said[s]) + 1 /\ Len(said[s]) \in Nat
       /\ Single(m) /\ Announced(m) /\ m[Len(said[s]) + 1] = a
       /\ \A i \in 1 .. Len(said[s]) : m[i] = said[s][i] /\ i \in 1 .. Len(m)
       /\ \A i \in 1 .. Len(m) : i \in 1 .. Len(said[s]) \/ i = Len(said[s]) + 1
  <2>1. a \in CallLines \cup Odd
    BY <1>9
  <2>2. Requests(a) => \A i \in 1 .. Len(said[s]) : Requests(said[s][i]) => said[s][i].call # a.call
    BY <1>9
  <2>3. a.ok /\ a.call \in Calls!Calls => Heard(said[s], Len(said[s]), a.call)
    BY <1>9
  <2> QED
    <3>1. said[s] \in Seq(CallLines \cup Odd) /\ Single(said[s]) /\ Announced(said[s])
      BY <1>q, <1>s
    <3>2. PICK o : o = said[s]
      OBVIOUS
    <3> HIDE DEF said
    <3> QED
      BY <1>12, <2>1, <2>2, <2>3, <3>1, <3>2, SayingMore
<1>16. /\ q \in Seq(CallLines \cup Odd) /\ Len(q) = Len(m) + 1 /\ Len(m) \in Nat
       /\ Single(q) /\ Announced(q) /\ q[Len(m) + 1] = b
       /\ \A i \in 1 .. Len(m) : q[i] = m[i] /\ i \in 1 .. Len(q)
       /\ \A i \in 1 .. Len(q) : i \in 1 .. Len(m) \/ i = Len(m) + 1
  <2>1. Heard(m, Len(m), x)
    <3>1. Len(m) \in 1 .. Len(m) /\ m[Len(m)] = Calls!Publish(x)
      BY <1>8, <1>15
    <3> QED
      BY <3>1 DEF Heard
  <2>2. Requests(b) => \A i \in 1 .. Len(m) : Requests(m[i]) => m[i].call # b.call
    <3> SUFFICES ASSUME Requests(b), NEW i \in 1 .. Len(m), Requests(m[i]) PROVE m[i].call # b.call
      OBVIOUS
    <3>1. ~last
      BY <1>11 DEF Requests
    <3>2. i \in 1 .. Len(said[s]) /\ m[i] = said[s][i]
      BY <1>9, <1>15
    <3>3. stage[m[i].call] = "asked"
      BY <1>q, <3>2 DEF OutLine, Requests
    <3> QED
      BY <1>5, <1>11, <3>1, <3>3
  <2>3. b.ok => b.call = x
    BY <1>11
  <2> QED
    BY <1>11, <1>13, <1>15, <2>1, <2>2, <2>3, SayingMore
<1>17. /\ said' \in [Services -> Seq(CallLines \cup Odd)] /\ said'[s] = q
       /\ \A t \in Services : t # s => said'[t] = said[t]
  BY <1>14, <1>16, <1>s
\* The lines that are under way.
<1>18. ASSUME NEW l, NEW t, OutLine(l, t) PROVE OutLine(l, t)'
  <2> SUFFICES ASSUME l.call \in Calls!Calls PROVE OutLine(l, t)'
    BY DEF OutLine
  <2>1. CASE l.ok
    BY <1>1, <1>4, <1>6, <1>18, <2>1 DEF OutLine
  <2>2. CASE ~l.ok /\ l.id
    BY <1>5, <1>7, <1>18, <2>2 DEF OutLine
  <2>3. CASE ~l.ok /\ ~l.id
    BY <1>18, <2>3 DEF OutLine
  <2> QED
    BY <2>1, <2>2, <2>3
<1>19. ASSUME NEW l, NEW t, InLine(l, t), ~l.ok => l.call # x PROVE InLine(l, t)'
  <2>1. l.call \in Calls!Calls
    BY <1>19 DEF InLine
  <2>2. CASE l.ok
    BY <1>1, <1>5, <1>7, <1>19, <2>1, <2>2 DEF InLine
  <2>3. CASE ~l.ok
    BY <1>5, <1>6, <1>7, <1>19, <2>1, <2>3 DEF InLine, Past
  <2> QED
    BY <2>2, <2>3
<1>20. OutputsMean'
  <2>1. ASSUME NEW i \in 1 .. Len(q) PROVE OutLine(q[i], s)'
    <3>1. CASE i \in 1 .. Len(said[s])
      <4>1. q[i] = said[s][i]
        BY <1>15, <1>16, <3>1
      <4>2. \A l : l = said[s][i] => OutLine(l, s)'
        BY <1>18, <1>q, <3>1
      <4> QED
        BY <4>1, <4>2
    <3>2. CASE i = Len(said[s]) + 1
      <4>1. q[i] = a
        BY <1>15, <1>16, <3>2
      <4>2. OutLine(a, s)'
        BY <1>8, <1>9 DEF OutLine
      <4> QED
        BY <4>1, <4>2
    <3>3. CASE i = Len(m) + 1
      <4>1. q[i] = b
        BY <1>16, <3>3
      <4>2. OutLine(b, s)'
        <5>1. CASE last
          <6>1. b = Calls!Answer(x, TRUE) /\ b = Calls!Answer(b.call, b.success) /\ Calls!IsLast(x)
            BY <1>10, <1>11, <5>1 DEF last
          <6> QED
            BY <1>4, <1>6, <1>11, <5>1, <6>1 DEF OutLine
        <5>2. CASE ~last
          BY <1>5, <1>7, <1>10, <1>11, <5>2 DEF OutLine
        <5> QED
          BY <5>1, <5>2
      <4> QED
        BY <4>1, <4>2
    <3> QED
      BY <1>15, <1>16, <3>1, <3>2, <3>3
  <2>2. Announced(q)'
    BY <1>1, <1>16 DEF Announced, Heard
  <2> QED
    BY <1>1, <1>14, <1>16, <1>18, <1>s, <2>1, <2>2, OneOutput
<1>21. toServe' = [toServe EXCEPT ![s] = r] /\ toServe' \in [Services -> Seq(CallLines)]
  BY <1>1, <1>2, <1>3, <1>s
<1>22. InputsMean'
  <2> SUFFICES ASSUME NEW t \in Services
               PROVE  Single(toServe'[t]) /\ \A i \in 1 .. Len(toServe'[t]) : InLine(toServe[t][i], t)'
    BY DEF InputsMean
  <2>1. CASE t = s
    <3>1. toServe'[t] = r
      BY <1>21, <1>s, <2>1
    <3>2. ASSUME NEW i \in 1 .. Len(r), NEW l, l = r[i] PROVE InLine(l, s)'
      <4>1. InLine(l, s)
        BY <1>3, <1>q, <3>2
      <4>2. ~l.ok => l.call # x
        <5> SUFFICES ASSUME ~l.ok PROVE l.call # x
          OBVIOUS
        <5>1. l = Calls!Ask(l.call) /\ l.call \in Calls!Calls
          BY <4>1 DEF InLine
        <5>2. Requests(l)
          BY <5>1, LineFacts DEF Requests
        <5> QED
          BY <1>3, <1>4, <3>2, <5>2
      <4> QED
        BY <1>19, <4>1, <4>2
    <3> QED
      BY <1>3, <2>1, <3>1, <3>2
  <2>2. CASE t # s
    <3>1. toServe'[t] = toServe[t]
      BY <1>21, <1>s, <2>2
    <3>2. Single(toServe[t]) /\ \A i \in 1 .. Len(toServe[t]) : InLine(toServe[t][i], t)
      BY DEF CallsInv, InputsMean
    <3>3. ASSUME NEW i \in 1 .. Len(toServe[t]), NEW l, l = toServe[t][i] PROVE InLine(l, t)'
      <4>1. InLine(l, t)
        BY <3>2, <3>3
      <4>2. ~l.ok => l.call # x
        BY <1>4, <2>2, <4>1 DEF InLine
      <4> QED
        BY <1>19, <4>1, <4>2
    <3> QED
      BY <3>1, <3>2, <3>3
  <2> QED
    BY <2>1, <2>2
<1>23. EachCall'
  <2> SUFFICES ASSUME NEW y \in Calls!Calls PROVE OneCall(y)'
    BY DEF EachCall
  <2>1. OneCall(y) /\ Calls!Callee(y) \in Services
    BY CallFacts DEF CallsInv, EachCall
  <2>2. ~Calls!IsLast(y) => Calls!Child(y) \in Calls!Calls
    BY CallFacts
  <2>3. served'[y] = 1 => Heard(said[Calls!Callee(y)], Len(said[Calls!Callee(y)]), y)'
    <3>1. CASE y = x
      <4>1. Len(m) \in 1 .. Len(q) /\ q[Len(m)] = Calls!Publish(y)
        BY <1>8, <1>15, <1>16, <3>1
      <4> QED
        BY <1>4, <1>17, <3>1, <4>1 DEF Heard
    <3>2. CASE y # x /\ Calls!Callee(y) = s
      <4>1. \A j \in 1 .. Len(said[s]) : j \in 1 .. Len(q) /\ q[j] = said[s][j]
        BY <1>15, <1>16
      <4> QED
        BY <1>1, <1>6, <1>17, <2>1, <3>2, <4>1 DEF Heard, OneCall
    <3>3. CASE y # x /\ Calls!Callee(y) # s
      BY <1>1, <1>6, <1>17, <2>1, <3>3 DEF Heard, OneCall
    <3> QED
      BY <3>1, <3>2, <3>3
  <2>4. served[y] = 1 => Past(y)
    BY <2>1 DEF OneCall
  <2>5. ~last /\ y = c => served[y] = 0 /\ stage[y] = "new" /\ stage'[y] = "asked"
    BY <1>5, <1>7, <2>1, <2>4 DEF Past, OneCall
  <2>6. Past(y) => Past(y)' /\ (Has(y) => Has(y)')
    BY <1>7, <2>5 DEF Past, Has
  <2>7. Has(y) => Has(y)'
    BY <1>7, <2>5 DEF Has
  <2>8. y # x /\ ~Calls!IsLast(y) => stage'[Calls!Child(y)] = stage[Calls!Child(y)]
    BY <1>5, <1>7, <2>2
  <2>9. stage'[y] = "waiting" <=> stage[y] = "waiting"
    BY <1>7, <2>5
  <2>10. outcomes'[y] = "ok" => y # x
    BY <1>1, <1>4, <2>1 DEF OneCall
  <2>11. CASE y = x
    BY <1>1, <1>4, <1>6, <2>1, <2>3, <2>6, <2>9, <2>10, <2>11 DEF OneCall
  <2>12. CASE y # x
    BY <1>1, <1>6, <2>1, <2>3, <2>6, <2>7, <2>8, <2>9, <2>12 DEF OneCall
  <2> QED
    BY <2>11, <2>12
<1>24. Counted'
  <2>1. Waits' = Waits
    BY <1>5, <1>7 DEF Waits
  <2> QED
    BY <1>1, <2>1 DEF CallsInv, Counted
<1>25. /\ stage' \in [Calls!Calls -> CallStages] /\ served' \in [Calls!Calls -> Nat]
       /\ callers' \in [Calls!Calls -> Nat]
  <2>1. runs[s] \in Nat /\ served[x] + 1 \in Nat /\ "asked" \in CallStages
    BY <1>4, <1>s DEF CallStages
  <2>2. stage' \in [Calls!Calls -> CallStages]
    BY <1>1, <1>s, <2>1
  <2>3. served' \in [Calls!Calls -> Nat]
    BY <1>1, <1>s, <2>1
  <2>4. callers' \in [Calls!Calls -> Nat]
    BY <1>1, <1>s, <2>1
  <2> QED
    BY <2>2, <2>3, <2>4
<1>26. Calls!TypeOK'
  BY <1>1, <1>17, <1>21, <1>25, <1>t DEF Calls!TypeOK, CallLines, CallStages
<1> QED
  BY <1>20, <1>22, <1>23, <1>24, <1>26 DEF CallsInv

LEMMA CallsInit == Calls!ServiceCallsAssumption /\ Calls!Init => CallsInv
<1> SUFFICES ASSUME Calls!ServiceCallsAssumption, Calls!Init PROVE CallsInv
  OBVIOUS
<1> USE DEF Calls!Init
<1>1. \A S : <<>> \in Seq(S) /\ Len(<<>>) = 0
  BY EmptySeq
<1>2. \A s \in Services : toServe[s] = <<>> /\ said[s] = <<>> /\ awaited[s] = {}
  OBVIOUS
<1>3. Calls!TypeOK
  <2>1. toServe \in [Services -> Seq(Calls!Lines(Calls!Calls))] /\ said \in [Services -> Seq(Calls!Lines(Calls!Calls) \cup Odd)]
    BY <1>1
  <2>2. waiters \in 0 .. WaiterMax /\ setbacks \in 0 .. CallFaults
    BY DEF Calls!ServiceCallsAssumption
  <2> QED
    BY <1>2, <2>1, <2>2 DEF Calls!TypeOK
<1>4. InputsMean /\ OutputsMean
  <2>1. 1 .. 0 = {}
    OBVIOUS
  <2> QED
    BY <1>1, <1>2, <2>1 DEF InputsMean, OutputsMean, Single, Announced
<1>5. EachCall
  <2> SUFFICES ASSUME NEW x \in Calls!Calls PROVE OneCall(x)
    BY DEF EachCall
  <2>1. Calls!Callee(x) \in Services /\ (~Calls!IsLast(x) => Calls!Child(x) \in Calls!Calls)
    BY CallFacts
  <2> QED
    BY <1>2, <2>1 DEF OneCall
<1>6. Counted
  <2>1. Waits = {}
    BY DEF Waits
  <2> QED
    BY <2>1, FS_EmptySet DEF Counted
<1> QED
  BY <1>3, <1>4, <1>5, <1>6 DEF CallsInv

LEMMA CallsStutter == ASSUME CallsInv, UNCHANGED Calls!vars PROVE CallsInv'
<1>1. UNCHANGED <<alive, runs, toServe, said, stage, outcomes, awaited, waiters, callers, bus, served, strays, setbacks>>
  BY DEF Calls!vars
<1>2. Calls!TypeOK'
  BY <1>1 DEF CallsInv, Calls!TypeOK
<1>3. InputsMean' /\ OutputsMean'
  BY <1>1 DEF CallsInv, InputsMean, OutputsMean, InLine, OutLine, Announced, Heard, Past
<1>4. EachCall' /\ Counted'
  BY <1>1 DEF CallsInv, EachCall, OneCall, Heard, Past, Has, Counted, Waits
<1> QED
  BY <1>2, <1>3, <1>4 DEF CallsInv

LEMMA CallsNext ==
  ASSUME Calls!ServiceCallsAssumption, CallsInv, [Calls!Next]_(Calls!vars) PROVE CallsInv'
<1>1. CASE UNCHANGED Calls!vars
  BY <1>1, CallsStutter
<1>2. ASSUME NEW s \in Services, Calls!ServiceStep(s) PROVE CallsInv'
  <2>1. CASE Calls!Process(s)
    BY <2>1, ResumeStep, ServeStep
  <2>2. CASE Calls!Blurt(s)
    BY <2>2, BlurtStep
  <2>3. CASE Calls!Reader(s)
    BY <2>3, ReaderStep
  <2>4. CASE Calls!FailPending(s)
    BY <2>4, FailPendingStep
  <2>5. CASE Calls!Exit(s) \/ Calls!HandleExit(s) \/ Calls!NextEvent(s) \/ Calls!Restart(s)
    BY <2>5, ProcessEndsStep
  <2> QED
    BY <1>2, <2>1, <2>2, <2>3, <2>4, <2>5 DEF Calls!ServiceStep, Calls!ExitGoesOn
<1>3. ASSUME NEW x \in Calls!Calls, Calls!CallStep(x) PROVE CallsInv'
  BY <1>3, CallStepKeeps
<1> QED
  BY <1>1, <1>2, <1>3 DEF Calls!Next

\* What the runs check of it.
LEMMA CallsPromises == CallsInv => Calls!EventsBeforeAnswers /\ Calls!WaitersAreCounted
<1> SUFFICES ASSUME CallsInv PROVE Calls!EventsBeforeAnswers /\ Calls!WaitersAreCounted
  OBVIOUS
<1>1. \A x \in Calls!Calls : OneCall(x)
  BY DEF CallsInv, EachCall
<1>2. Calls!EventsBeforeAnswers
  <2> SUFFICES ASSUME NEW x \in Calls!Calls
               PROVE  /\ served[x] <= 1
                      /\ outcomes[x] = "ok" => served[x] = 1 /\ x \in bus
                      /\ (outcomes[x] = "ok" /\ ~Calls!IsLast(x)) => outcomes[Calls!Child(x)] = "ok"
    BY DEF Calls!EventsBeforeAnswers
  <2>1. served[x] <= 1
    BY <1>1 DEF OneCall
  <2> QED
    BY <1>1, <2>1 DEF OneCall
<1>3. Calls!WaitersAreCounted
  <2>1. waiters = Cardinality(Waits)
    BY DEF CallsInv, Counted
  <2> QED
    BY <2>1 DEF Waits, Calls!WaitersAreCounted, Cardinality, Calls!Cardinality
<1> QED
  BY <1>2, <1>3

-----------------------------------------------------------------------------
TodoKept == part = "todo" => TodoInv
SlackKept == part = "slack" => SlackInv
DiscordKept == part = "discord" => DiscordInv
CallsKept == part = "calls" => CallsInv

EachKept == TodoKept /\ SlackKept /\ DiscordKept /\ CallsKept

\* Whatever crashes, is cut off, times out or is repeated, and however many todos, envelopes,
\* dispatches and chains of calls there are: a todo's completion is announced at most once
\* for each time it is done; Slack's events are published once for each acknowledgement,
\* less at most one for each death of the plugin in between; a run of the plugin handles a
\* dispatch of Discord once and passes none over; and a service's event is on the bus
\* before the answer that follows it.
THEOREM NothingTwice == Spec => []EachOnce
<1>1. Init => EachKept
  <2> SUFFICES ASSUME Init PROVE EachKept
    OBVIOUS
  <2>1. TodoKept
    BY TodoInit, PluginsAssumption DEF Init, TodoKept, PluginsAssumption
  <2>2. SlackKept
    BY SlackInit, PluginsAssumption DEF Init, SlackKept, PluginsAssumption
  <2>3. DiscordKept
    BY DiscordInit, PluginsAssumption DEF Init, DiscordKept, PluginsAssumption
  <2>4. CallsKept
    BY CallsInit, PluginsAssumption DEF Init, CallsKept, PluginsAssumption
  <2> QED
    BY <2>1, <2>2, <2>3, <2>4 DEF EachKept
<1>2. EachKept /\ [Next]_vars => EachKept'
  <2> SUFFICES ASSUME EachKept, [Next]_vars PROVE EachKept'
    OBVIOUS
  <2>1. TodoKept'
    BY Parts, TodoNext, PluginsAssumption DEF EachKept, TodoKept, PluginsAssumption
  <2>2. SlackKept'
    BY Parts, SlackNext, PluginsAssumption DEF EachKept, SlackKept, PluginsAssumption
  <2>3. DiscordKept'
    BY Parts, DiscordNext, PluginsAssumption DEF EachKept, DiscordKept, PluginsAssumption
  <2>4. CallsKept'
    BY Parts, CallsNext, PluginsAssumption DEF EachKept, CallsKept, PluginsAssumption
  <2> QED
    BY <2>1, <2>2, <2>3, <2>4 DEF EachKept
<1>3. EachKept => EachOnce
  <2> SUFFICES ASSUME EachKept PROVE EachOnce
    OBVIOUS
  <2>1. part = "todo" => Todo!TypeOK /\ Todo!FollowerAgrees /\ Todo!CompletedOnce
    BY TodoPromises, PluginsAssumption DEF EachKept, TodoKept, PluginsAssumption
  <2>2. part = "slack" => Slack!TypeOK /\ Slack!AckedIsPublished
    BY SlackPromises, PluginsAssumption DEF EachKept, SlackKept, PluginsAssumption
  <2>3. part = "discord" =>
          Discord!TypeOK /\ Discord!EachOnceInOrder /\ Discord!OnlyTheDeadAreZombies /\ Discord!OwnAreSilent
    BY DEF EachKept, DiscordKept, DiscordInv
  <2>4. part = "calls" => Calls!TypeOK /\ Calls!EventsBeforeAnswers /\ Calls!WaitersAreCounted
    BY CallsPromises DEF EachKept, CallsKept, CallsInv
  <2> QED
    BY <2>1, <2>2, <2>3, <2>4 DEF EachOnce
<1> QED
  BY <1>1, <1>2, <1>3, PTL DEF Spec

-----------------------------------------------------------------------------
(* KbPlugin *)

directory == v1
kbFiles == v2
filesMade == v3
temps == v4
serving == v5
begun == v6
kbAnswers == v7
removals == v8

USE DEF directory, kbFiles, filesMade, temps, serving, begun, kbAnswers, removals

\* Files are made one after the other: what is named or a temporary file was made, and
\* what is still to be made is empty.
Made ==
  /\ \A f \in Kb!Files : f > filesMade => kbFiles[f].whole = <<>>
  /\ \A f \in temps : f <= filesMade
  /\ \A d \in Documents : directory[d] # Nil => directory[d] <= filesMade /\ directory[d] \notin temps

\* A payload that is still to be brought, and the one of a call under way, has no reply.
Unanswered ==
  \A p \in Processes, n \in 1 .. KbCalls, does \in Kb!Calls :
    n > begun[p] \/ (n = begun[p] /\ serving[p] # Nil) => kbAnswers[<<p, n, does>>] = Nil

\* A call that makes a document has a temporary file of its own, which is nobody's
\* document and from its filling on holds what the call brings.
Making(p) ==
  LET c == serving[p] IN
  /\ c.at \in {"temp", "fill", "rename"} => c.does # "append"
  /\ c.at \in {"fill", "rename"} =>
       /\ c.file \in temps
       /\ \A q \in Processes \ {p} :
            serving[q] # Nil /\ serving[q].at \in {"fill", "rename"} => serving[q].file # c.file
  /\ c.at = "rename" => kbFiles[c.file].whole = <<Kb!Payload(p)>>

\* A call that writes has a file that is its document, or was until the user took it away.
Writing(p) ==
  LET c == serving[p] IN
  /\ c.at \in {"open", "write", "writing"} => c.does # "ensure"
  /\ c.at \in {"write", "writing"} =>
       /\ c.file \in Kb!Files /\ c.file <= filesMade /\ c.file \notin temps
       /\ \A d \in Documents : directory[d] = c.file => d = c.doc
       /\ directory[c.doc] # c.file => removals[c.doc] > 0

Served ==
  \A p \in Processes : serving[p] # Nil => begun[p] > 0 /\ Making(p) /\ Writing(p)

KbInv == Kb!TypeOK /\ Made /\ Unanswered /\ Served

LEMMA KbInit == Kb!KbPluginAssumption /\ Kb!Init => KbInv
<1> SUFFICES ASSUME Kb!KbPluginAssumption, Kb!Init PROVE KbInv
  OBVIOUS
<1> USE DEF Kb!KbPluginAssumption, Kb!Init
<1>1. Kb!TypeOK
  BY DEF Kb!TypeOK, Kb!Files
<1>2. Made
  BY DEF Made
<1>3. Unanswered
  BY DEF Unanswered, Kb!Payloads
<1>4. Served
  BY DEF Served
<1> QED
  BY <1>1, <1>2, <1>3, <1>4 DEF KbInv

\* What is in a call.
LEMMA ServingFacts ==
  ASSUME Kb!KbPluginAssumption, KbInv, NEW p \in Processes, serving[p] # Nil
  PROVE  /\ serving[p].does \in Kb!Calls /\ serving[p].doc \in Documents
         /\ serving[p].file \in Kb!Files \cup {Nil}
         /\ serving[p].at \in {"check", "temp", "fill", "rename", "open", "write", "writing"}
         /\ begun[p] \in 1 .. KbCalls /\ Kb!Payload(p) \in Kb!Payloads
         /\ Kb!Payload(p) = <<p, begun[p], serving[p].does>>
         /\ kbAnswers[Kb!Payload(p)] = Nil
         /\ Making(p) /\ Writing(p)
<1>1. Kb!TypeOK /\ Served /\ Unanswered
  BY DEF KbInv
<1>2. /\ serving[p].does \in Kb!Calls /\ serving[p].doc \in Documents
      /\ serving[p].file \in Kb!Files \cup {Nil}
      /\ serving[p].at \in {"check", "temp", "fill", "rename", "open", "write", "writing"}
      /\ begun[p] \in 0 .. KbCalls /\ Kb!Payload(p) = <<p, begun[p], serving[p].does>>
  BY <1>1 DEF Kb!TypeOK, Kb!Payload
<1>3. begun[p] > 0 /\ Making(p) /\ Writing(p)
  BY <1>1 DEF Served
<1>4. begun[p] \in 1 .. KbCalls
  BY <1>2, <1>3 DEF Kb!KbPluginAssumption
<1> QED
  BY <1>1, <1>2, <1>3, <1>4 DEF Unanswered, Kb!Payloads

\* What a reader of the documents sees.
KbText == [d \in Documents |-> IF directory[d] = Nil THEN Nil ELSE kbFiles[directory[d]].whole]

LEMMA KbTextChanges ==
  ASSUME NEW d \in Documents, NEW text, KbText'[d] = text, \A e \in Documents \ {d} : KbText'[e] = KbText[e]
  PROVE  KbText' = [KbText EXCEPT ![d] = text]
BY DEF KbText

\* A call is begun, goes on, is answered or killed; what others read stays as it is.
LEMMA KbGoesOn ==
  ASSUME Kb!KbPluginAssumption, KbInv, NEW p \in Processes,
         UNCHANGED <<directory, filesMade, temps, removals>>,
         Kb!TypeOK', Unanswered',
         \A q \in Processes \ {p} : serving'[q] = serving[q] /\ begun'[q] = begun[q],
         \A f \in Kb!Files : kbFiles'[f].whole = kbFiles[f].whole,
         serving'[p] # Nil =>
           /\ begun'[p] > 0 /\ Making(p)' /\ Writing(p)'
           /\ serving'[p].at \in {"fill", "rename"} =>
                serving[p] # Nil /\ serving[p].at \in {"fill", "rename"} /\ serving'[p].file = serving[p].file
  PROVE  KbInv' /\ UNCHANGED KbText
<1>1. Made'
  BY DEF KbInv, Made
<1>2. ASSUME NEW q \in Processes, serving'[q] # Nil PROVE begun'[q] > 0 /\ Making(q)' /\ Writing(q)'
  <2>1. CASE q = p
    BY <1>2, <2>1
  <2>2. CASE q # p
    <3>1. serving'[q] = serving[q] /\ begun'[q] = begun[q] /\ serving[q] # Nil
      BY <1>2, <2>2
    <3>2. begun[q] > 0 /\ Making(q) /\ Writing(q) /\ serving[q].file \in Kb!Files \cup {Nil}
      BY <3>1, ServingFacts DEF KbInv, Served
    <3>3. Kb!Payload(q)' = Kb!Payload(q)
      BY <3>1 DEF Kb!Payload
    <3>4. Making(q)'
      <4>1. serving[q].at = "rename" => kbFiles'[serving[q].file].whole = <<Kb!Payload(q)>>
        BY <3>2 DEF Making, KbInv, Kb!TypeOK
      <4> QED
        BY <2>2, <3>1, <3>2, <3>3, <4>1 DEF Making
    <3>5. Writing(q)'
      BY <3>1, <3>2 DEF Writing
    <3> QED
      BY <3>1, <3>2, <3>4, <3>5
  <2> QED
    BY <2>1, <2>2
<1>3. Served'
  BY <1>2 DEF Served
<1>4. ASSUME NEW d \in Documents, directory[d] # Nil
      PROVE  kbFiles'[directory[d]].whole = kbFiles[directory[d]].whole
  BY <1>4 DEF KbInv, Kb!TypeOK
<1> QED
  BY <1>1, <1>3, <1>4 DEF KbInv, KbText

Steps == {"check", "temp", "fill", "rename", "open", "write", "writing"}
KbCalling == [does : Kb!Calls, doc : Documents, file : Kb!Files \cup {Nil}, at : Steps]

\* A call goes on, with the file it has or with another.
LEMMA KbOn ==
  ASSUME KbInv, NEW p \in Processes, serving[p] # Nil, NEW place \in Steps, Kb!Goes(p, place)
  PROVE  /\ serving' \in [Processes -> KbCalling \cup {Nil}]
         /\ \A q \in Processes \ {p} : serving'[q] = serving[q]
         /\ serving'[p].at = place /\ serving'[p].does = serving[p].does
         /\ serving'[p].doc = serving[p].doc /\ serving'[p].file = serving[p].file
<1>1. serving \in [Processes -> KbCalling \cup {Nil}] /\ serving[p] \in KbCalling
  BY DEF KbInv, Kb!TypeOK, KbCalling, Steps
<1> DEFINE c == [serving[p] EXCEPT !.at = place]
<1>2. /\ c \in KbCalling /\ c.at = place /\ c.does = serving[p].does /\ c.doc = serving[p].doc
      /\ c.file = serving[p].file
  BY <1>1 DEF KbCalling
<1>3. serving' = [serving EXCEPT ![p] = c]
  BY <1>1 DEF Kb!Goes
<1> HIDE DEF c
<1> QED
  BY <1>1, <1>2, <1>3

LEMMA KbOnWith ==
  ASSUME KbInv, NEW p \in Processes, serving[p] # Nil, NEW place \in Steps, NEW file \in Kb!Files,
         Kb!GoesWith(p, place, file)
  PROVE  /\ serving' \in [Processes -> KbCalling \cup {Nil}]
         /\ \A q \in Processes \ {p} : serving'[q] = serving[q]
         /\ serving'[p].at = place /\ serving'[p].does = serving[p].does
         /\ serving'[p].doc = serving[p].doc /\ serving'[p].file = file
<1>1. serving \in [Processes -> KbCalling \cup {Nil}] /\ serving[p] \in KbCalling
  BY DEF KbInv, Kb!TypeOK, KbCalling, Steps
<1> DEFINE c == [serving[p] EXCEPT !.at = place, !.file = file]
<1>2. /\ c \in KbCalling /\ c.at = place /\ c.does = serving[p].does /\ c.doc = serving[p].doc
      /\ c.file = file
  BY <1>1 DEF KbCalling
<1>3. serving' = [serving EXCEPT ![p] = c]
  BY <1>1 DEF Kb!GoesWith
<1> HIDE DEF c
<1> QED
  BY <1>1, <1>2, <1>3

LEMMA KbBeginStep ==
  ASSUME Kb!KbPluginAssumption, KbInv, NEW p \in Processes, NEW does \in Kb!Calls, NEW d \in Documents,
         Kb!Begin(p, does, d)
  PROVE  KbInv' /\ UNCHANGED Kb!Contract!vars
<1> USE DEF Kb!Begin
<1>1. Kb!TypeOK /\ Unanswered /\ begun[p] \in 0 .. KbCalls
  BY DEF KbInv, Kb!TypeOK
<1>2. Kb!TypeOK'
  BY <1>1 DEF Kb!TypeOK, Kb!KbPluginAssumption
<1>3. Unanswered'
  BY <1>1 DEF Unanswered, Kb!TypeOK, Kb!KbPluginAssumption
<1>4. serving'[p] = [does |-> does, doc |-> d, at |-> "check", file |-> Nil] /\ begun'[p] = begun[p] + 1
  BY <1>1 DEF Kb!TypeOK
<1>5. Making(p)' /\ Writing(p)'
  BY <1>4 DEF Making, Writing
<1>6. \A q \in Processes \ {p} : serving'[q] = serving[q] /\ begun'[q] = begun[q]
  BY <1>1 DEF Kb!TypeOK
<1> QED
  BY <1>1, <1>2, <1>3, <1>4, <1>5, <1>6, KbGoesOn DEF Kb!Contract!vars, KbText

LEMMA KbKillStep ==
  ASSUME Kb!KbPluginAssumption, KbInv, NEW p \in Processes, Kb!Kill(p)
  PROVE  KbInv' /\ UNCHANGED Kb!Contract!vars
<1> USE DEF Kb!Kill
<1>1. Kb!TypeOK /\ Unanswered
  BY DEF KbInv
<1>2. Kb!TypeOK'
  BY <1>1 DEF Kb!TypeOK
<1>3. Unanswered'
  BY <1>1 DEF Unanswered, Kb!TypeOK
<1>4. serving'[p] = Nil /\ \A q \in Processes \ {p} : serving'[q] = serving[q] /\ begun'[q] = begun[q]
  BY <1>1 DEF Kb!TypeOK
<1> QED
  BY <1>1, <1>2, <1>3, <1>4, KbGoesOn DEF Kb!Contract!vars, KbText

\* A call is answered by one place of the contract.
LEMMA KbAnswered ==
  ASSUME Kb!KbPluginAssumption, KbInv, NEW p \in Processes, serving[p] # Nil,
         NEW reply \in {"created", "existed", "appended", "not_found", "io_error"}, Kb!Answers(p, reply),
         UNCHANGED begun
  PROVE  /\ serving'[p] = Nil /\ \A q \in Processes \ {p} : serving'[q] = serving[q] /\ begun'[q] = begun[q]
         /\ kbAnswers' = [kbAnswers EXCEPT ![Kb!Payload(p)] = reply]
         /\ Unanswered'
         /\ serving' \in [Processes -> [does : Kb!Calls, doc : Documents, file : Kb!Files \cup {Nil},
                            at : {"check", "temp", "fill", "rename", "open", "write", "writing"}] \cup {Nil}]
         /\ kbAnswers' \in [Kb!Payloads -> {Nil, "created", "existed", "appended", "not_found", "io_error"}]
<1> USE DEF Kb!Answers
<1>1. Kb!TypeOK /\ Unanswered
  BY DEF KbInv
<1>2. serving'[p] = Nil /\ \A q \in Processes \ {p} : serving'[q] = serving[q] /\ begun'[q] = begun[q]
  BY <1>1 DEF Kb!TypeOK
<1>3. Kb!Payload(p) \in Kb!Payloads /\ Kb!Payload(p) = <<p, begun[p], serving[p].does>> /\ begun[p] \in Nat
  BY ServingFacts DEF Kb!KbPluginAssumption
<1>4. ASSUME NEW q \in Processes, NEW n \in 1 .. KbCalls, NEW does \in Kb!Calls,
             n > begun'[q] \/ (n = begun'[q] /\ serving'[q] # Nil)
      PROVE  kbAnswers'[<<q, n, does>>] = Nil
  <2>1. <<q, n, does>> # Kb!Payload(p)
    BY <1>2, <1>3, <1>4 DEF Kb!KbPluginAssumption
  <2>2. kbAnswers[<<q, n, does>>] = Nil
    BY <1>1, <1>2, <1>4 DEF Unanswered
  <2>3. <<q, n, does>> \in Kb!Payloads
    BY DEF Kb!Payloads
  <2> QED
    BY <1>1, <2>1, <2>2, <2>3 DEF Kb!TypeOK
<1> QED
  BY <1>1, <1>2, <1>3, <1>4 DEF Unanswered, Kb!TypeOK


LEMMA KbCheckStep ==
  ASSUME Kb!KbPluginAssumption, KbInv, NEW p \in Processes, Kb!Check(p)
  PROVE  KbInv' /\ [Kb!Contract!Next]_(Kb!Contract!vars)
<1> USE DEF Kb!Check, Kb!At, Kb!Doc
<1>1. Kb!TypeOK /\ Unanswered /\ serving[p] # Nil /\ UNCHANGED begun
  BY DEF KbInv
<1> DEFINE b == Kb!Payload(p)  d == serving[p].doc
<1>2. d \in Documents /\ b \in Kb!Payloads /\ Kb!Contract!Asks(b) = serving[p].does /\ kbAnswers[b] = Nil
      /\ serving[p].does \in Kb!Calls
  BY <1>1, ServingFacts DEF Kb!Contract!Asks
<1> HIDE DEF b
<1>3. CASE \E place \in {"open", "temp"} :
             /\ Kb!Goes(p, place) /\ UNCHANGED kbAnswers
             /\ place = "open" => serving[p].does # "ensure"
             /\ place = "temp" => serving[p].does # "append"
  <2>1. PICK place \in {"open", "temp"} :
             /\ Kb!Goes(p, place) /\ UNCHANGED kbAnswers
             /\ place = "open" => serving[p].does # "ensure"
             /\ place = "temp" => serving[p].does # "append"
    BY <1>3
  <2>2. /\ serving' \in [Processes -> KbCalling \cup {Nil}]
        /\ \A q \in Processes \ {p} : serving'[q] = serving[q]
        /\ serving'[p].at = place /\ serving'[p].does = serving[p].does
    BY <1>1, <2>1, KbOn DEF Steps
  <2>3. Kb!TypeOK'
    BY <1>1, <2>1, <2>2 DEF Kb!TypeOK, KbCalling, Steps
  <2>4. Unanswered'
    BY <1>1, <2>1, <2>2 DEF Unanswered
  <2>5. Making(p)' /\ Writing(p)'
    BY <2>1, <2>2 DEF Making, Writing
  <2>6. begun[p] > 0
    BY <1>1 DEF KbInv, Served
  <2> QED
    BY <1>1, <2>1, <2>2, <2>3, <2>4, <2>5, <2>6, KbGoesOn DEF Kb!Contract!vars, KbText
<1>4. CASE \E reply \in {"existed", "not_found"} :
             /\ Kb!Answers(p, reply)
             /\ reply = "existed" => serving[p].does = "ensure" /\ directory[d] # Nil
             /\ reply = "not_found" => serving[p].does = "append" /\ directory[d] = Nil
  <2>1. PICK reply \in {"existed", "not_found"} :
             /\ Kb!Answers(p, reply)
             /\ reply = "existed" => serving[p].does = "ensure" /\ directory[d] # Nil
             /\ reply = "not_found" => serving[p].does = "append" /\ directory[d] = Nil
    BY <1>4
  <2>2. /\ serving'[p] = Nil /\ \A q \in Processes \ {p} : serving'[q] = serving[q]
        /\ kbAnswers' = [kbAnswers EXCEPT ![b] = reply] /\ Unanswered' /\ Kb!TypeOK'
    BY <1>1, <2>1, KbAnswered DEF Kb!TypeOK, b
  <2>3. KbInv' /\ UNCHANGED KbText
    BY <1>1, <2>2, KbGoesOn
  <2>4. Kb!Contract!Answer(b, reply)
    BY <1>2, <2>2 DEF Kb!Contract!Answer
  <2>5. (IF directory[d] = Nil THEN Nil ELSE kbFiles[directory[d]].whole) = Nil <=> directory[d] = Nil
    BY <1>1, <1>2 DEF Kb!TypeOK, Kb!KbPluginAssumption
  <2>6. Kb!Contract!Existed(d, b) \/ Kb!Contract!NotFound(d, b)
    BY <1>2, <2>1, <2>3, <2>4, <2>5 DEF Kb!Contract!Existed, Kb!Contract!NotFound, KbText
  <2> QED
    BY <1>2, <2>3, <2>6 DEF Kb!Contract!Next
<1> QED
  BY <1>1, <1>2, <1>3, <1>4 DEF Kb!Calls

LEMMA KbOpenStep ==
  ASSUME Kb!KbPluginAssumption, KbInv, NEW p \in Processes, Kb!Open(p)
  PROVE  KbInv' /\ [Kb!Contract!Next]_(Kb!Contract!vars)
<1> USE DEF Kb!Open, Kb!At, Kb!Doc
<1>1. Kb!TypeOK /\ Unanswered /\ serving[p] # Nil /\ UNCHANGED begun
  BY DEF KbInv
<1> DEFINE b == Kb!Payload(p)  d == serving[p].doc
<1>2. d \in Documents /\ b \in Kb!Payloads /\ kbAnswers[b] = Nil /\ serving[p].does # "ensure"
  BY <1>1, ServingFacts DEF Writing
<1> HIDE DEF b
<1>3. CASE directory[d] # Nil
  <2>1. directory[d] \in Kb!Files /\ directory[d] <= filesMade /\ directory[d] \notin temps
    BY <1>1, <1>2, <1>3 DEF KbInv, Made, Kb!TypeOK
  <2>2. /\ serving' \in [Processes -> KbCalling \cup {Nil}] /\ UNCHANGED kbAnswers
        /\ \A q \in Processes \ {p} : serving'[q] = serving[q]
        /\ serving'[p].at = "write" /\ serving'[p].does = serving[p].does /\ serving'[p].doc = d
        /\ serving'[p].file = directory[d]
    BY <1>1, <1>3, <2>1, KbOnWith DEF Steps
  <2>3. Kb!TypeOK'
    BY <1>1, <2>2 DEF Kb!TypeOK, KbCalling, Steps
  <2>4. Unanswered'
    BY <1>1, <2>2 DEF Unanswered
  <2>6. Making(p)' /\ Writing(p)'
    BY <1>1, <1>2, <1>3, <2>1, <2>2 DEF Making, Writing, Kb!TypeOK
  <2>7. begun[p] > 0
    BY <1>1 DEF KbInv, Served
  <2> QED
    BY <1>1, <2>2, <2>3, <2>4, <2>6, <2>7, KbGoesOn DEF Kb!Contract!vars, KbText
<1>4. CASE directory[d] = Nil
  <2>2. /\ serving'[p] = Nil /\ \A q \in Processes \ {p} : serving'[q] = serving[q]
        /\ kbAnswers' = [kbAnswers EXCEPT ![b] = "io_error"] /\ Unanswered' /\ Kb!TypeOK'
    BY <1>1, <1>4, KbAnswered DEF Kb!TypeOK, b
  <2>3. KbInv' /\ UNCHANGED KbText
    BY <1>1, <2>2, KbGoesOn
  <2>4. Kb!Contract!Failed(b)
    BY <1>2, <2>2, <2>3 DEF Kb!Contract!Answer, Kb!Contract!Failed, KbText
  <2> QED
    BY <1>2, <2>3, <2>4 DEF Kb!Contract!Next
<1> QED
  BY <1>3, <1>4

\* Half of a payload is in the file: the whole ones are what they were.
LEMMA KbBeginWriteStep ==
  ASSUME Kb!KbPluginAssumption, KbInv, NEW p \in Processes, Kb!BeginWrite(p)
  PROVE  KbInv' /\ UNCHANGED Kb!Contract!vars
<1> USE DEF Kb!BeginWrite, Kb!At
<1>1. Kb!TypeOK /\ Unanswered /\ serving[p] # Nil /\ UNCHANGED begun
  BY DEF KbInv
<1>2. serving[p].file \in Kb!Files /\ Writing(p) /\ Kb!Payload(p) \in Kb!Payloads
  BY <1>1, ServingFacts DEF Writing
<1>3. /\ kbFiles' \in [Kb!Files -> [whole : Seq(Kb!Payloads), torn : SUBSET Kb!Payloads]]
      /\ \A f \in Kb!Files : kbFiles'[f].whole = kbFiles[f].whole
  BY <1>1, <1>2 DEF Kb!TypeOK
<1>4. /\ serving' \in [Processes -> KbCalling \cup {Nil}] /\ UNCHANGED kbAnswers
      /\ \A q \in Processes \ {p} : serving'[q] = serving[q]
      /\ serving'[p].at = "writing" /\ serving'[p].does = serving[p].does
      /\ serving'[p].doc = serving[p].doc /\ serving'[p].file = serving[p].file
  BY <1>1, KbOn DEF Steps
<1>5. Kb!TypeOK'
  BY <1>1, <1>3, <1>4 DEF Kb!TypeOK, KbCalling, Steps
<1>6. Unanswered'
  BY <1>1, <1>4 DEF Unanswered
<1>8. Making(p)' /\ Writing(p)'
  BY <1>1, <1>2, <1>4, ServingFacts DEF Making, Writing
<1>9. begun[p] > 0
  BY <1>1 DEF KbInv, Served
<1> QED
  BY <1>1, <1>3, <1>4, <1>5, <1>6, <1>8, <1>9, KbGoesOn DEF Kb!Contract!vars, KbText

\* A new file, empty and nobody's.
LEMMA KbMakeTempStep ==
  ASSUME Kb!KbPluginAssumption, KbInv, NEW p \in Processes, Kb!MakeTemp(p)
  PROVE  KbInv' /\ UNCHANGED Kb!Contract!vars
<1> USE DEF Kb!MakeTemp, Kb!At
<1>1. Kb!TypeOK /\ Unanswered /\ Made /\ Served /\ serving[p] # Nil /\ serving[p].at = "temp"
  BY DEF KbInv
<1>2. /\ filesMade \in Nat /\ filesMade' \in Kb!Files /\ filesMade' \in 0 .. MaxFiles /\ filesMade' = filesMade + 1
      /\ \A f \in Kb!Files : f \in Nat
  BY <1>1 DEF Kb!TypeOK, Kb!Files, Kb!KbPluginAssumption
<1>3. /\ serving' \in [Processes -> KbCalling \cup {Nil}]
      /\ \A q \in Processes \ {p} : serving'[q] = serving[q]
      /\ serving'[p].at = "fill" /\ serving'[p].does = serving[p].does /\ serving'[p].file = filesMade'
  BY <1>1, <1>2, KbOnWith DEF Steps
<1>4. Kb!TypeOK'
  BY <1>1, <1>2, <1>3 DEF Kb!TypeOK, KbCalling, Steps
<1>5. Unanswered'
  BY <1>1, <1>3 DEF Unanswered
<1>6. Made'
  <2>1. ASSUME NEW d \in Documents, directory[d] # Nil
        PROVE  directory[d] <= filesMade' /\ directory[d] \notin temps'
    <3>1. directory[d] \in Kb!Files /\ directory[d] <= filesMade /\ directory[d] \notin temps
      BY <1>1, <2>1 DEF Made, Kb!TypeOK
    <3>2. temps' = temps \cup {filesMade'}
      OBVIOUS
    <3>3. directory[d] \in Nat /\ filesMade \in Nat /\ filesMade' = filesMade + 1
      BY <1>2, <3>1
    <3>4. directory[d] <= filesMade' /\ directory[d] # filesMade'
      BY <3>1, <3>3
    <3> QED
      BY <3>1, <3>2, <3>4
  <2>2. \A f \in temps' : f <= filesMade'
    <3>1. \A f \in temps : f \in Nat /\ f <= filesMade
      BY <1>1, <1>2 DEF Made, Kb!TypeOK
    <3>2. temps' = temps \cup {filesMade'}
      OBVIOUS
    <3>3. filesMade \in Nat /\ filesMade' = filesMade + 1
      BY <1>2
    <3> SUFFICES ASSUME NEW f \in temps' PROVE f <= filesMade'
      OBVIOUS
    <3>4. CASE f \in temps
      BY <3>1, <3>3, <3>4
    <3>5. CASE f = filesMade'
      BY <3>3, <3>5
    <3> QED
      BY <3>2, <3>4, <3>5
  <2>3. \A f \in Kb!Files : f > filesMade' => kbFiles'[f].whole = <<>>
    BY <1>1, <1>2 DEF Made
  <2> QED
    BY <2>1, <2>2, <2>3 DEF Made
<1>7. ASSUME NEW q \in Processes, serving'[q] # Nil PROVE begun'[q] > 0 /\ Making(q)' /\ Writing(q)'
  <2>1. CASE q = p
    <3>1. \A r \in Processes \ {p} :
            serving'[r] # Nil /\ serving'[r].at \in {"fill", "rename"} => serving'[r].file # filesMade'
      <4> SUFFICES ASSUME NEW r \in Processes \ {p}, serving[r] # Nil, serving[r].at \in {"fill", "rename"}
                   PROVE  serving[r].file # filesMade'
        BY <1>3
      <4>1. serving[r].file \in temps
        BY <1>1 DEF Served, Making
      <4>2. serving[r].file <= filesMade /\ serving[r].file \in Kb!Files
        BY <1>1, <4>1 DEF Made, Kb!TypeOK
      <4> QED
        BY <1>2, <4>2
    <3> QED
      BY <1>1, <1>3, <2>1, <3>1, ServingFacts DEF Making, Writing
  <2>2. CASE q # p
    <3>1. serving'[q] = serving[q] /\ serving[q] # Nil /\ begun[q] > 0 /\ Making(q) /\ Writing(q)
      BY <1>1, <1>3, <1>7, <2>2 DEF Served
    <3>2. serving[q].at \in {"fill", "rename"} => serving[q].file # filesMade'
      <4> SUFFICES ASSUME serving[q].at \in {"fill", "rename"} PROVE serving[q].file # filesMade'
        OBVIOUS
      <4>1. serving[q].file \in temps
        BY <3>1 DEF Making
      <4>2. serving[q].file <= filesMade /\ serving[q].file \in Kb!Files
        BY <1>1, <4>1 DEF Made, Kb!TypeOK
      <4> QED
        BY <1>2, <4>2
    <3>3. Making(q)'
      BY <1>3, <2>2, <3>1, <3>2 DEF Making, Kb!Payload
    <3>4. serving[q].at \in {"write", "writing"} => serving[q].file \in Kb!Files /\ serving[q].file <= filesMade
      BY <3>1 DEF Writing
    <3>5. serving[q].at \in {"write", "writing"} => serving[q].file <= filesMade' /\ serving[q].file # filesMade'
      <4> SUFFICES ASSUME serving[q].at \in {"write", "writing"}
                   PROVE  serving[q].file <= filesMade' /\ serving[q].file # filesMade'
        OBVIOUS
      <4>1. serving[q].file \in Nat /\ serving[q].file <= filesMade
        BY <1>2, <3>4
      <4> QED
        BY <1>2, <4>1
    <3>6. Writing(q)'
      BY <3>1, <3>4, <3>5 DEF Writing
    <3> QED
      BY <3>1, <3>3, <3>6
  <2> QED
    BY <2>1, <2>2
<1>8. Served'
  BY <1>7 DEF Served
<1> QED
  BY <1>4, <1>5, <1>6, <1>8 DEF KbInv, Kb!Contract!vars

LEMMA KbFillStep ==
  ASSUME Kb!KbPluginAssumption, KbInv, NEW p \in Processes, Kb!FillTemp(p)
  PROVE  KbInv' /\ [Kb!Contract!Next]_(Kb!Contract!vars)
<1> USE DEF Kb!FillTemp, Kb!At
<1> DEFINE b == Kb!Payload(p)  file == serving[p].file
<1>1. Kb!TypeOK /\ Unanswered /\ Made /\ Served /\ serving[p] # Nil /\ serving[p].at = "fill" /\ UNCHANGED begun
  BY DEF KbInv
<1>2. /\ b \in Kb!Payloads /\ kbAnswers[b] = Nil /\ file \in temps /\ file \in Kb!Files /\ file <= filesMade
      /\ \A q \in Processes \ {p} :
           serving[q] # Nil /\ serving[q].at \in {"fill", "rename"} => serving[q].file # file
      /\ begun[p] > 0 /\ serving[p].does # "append"
  BY <1>1, ServingFacts DEF Making, Made, Kb!TypeOK, Served
<1>3. \A d \in Documents : directory[d] # file
  BY <1>1, <1>2 DEF Made, Kb!TypeOK, Kb!KbPluginAssumption, Kb!Files
<1> HIDE DEF b
<1>4. CASE /\ kbFiles' = [kbFiles EXCEPT ![file].whole = <<b>>]
           /\ Kb!Goes(p, "rename") /\ UNCHANGED kbAnswers
  <2>1. /\ kbFiles' \in [Kb!Files -> [whole : Seq(Kb!Payloads), torn : SUBSET Kb!Payloads]]
        /\ \A f \in Kb!Files : f # file => kbFiles'[f] = kbFiles[f]
        /\ kbFiles'[file].whole = <<b>>
    <3> DEFINE r == [kbFiles[file] EXCEPT !.whole = <<b>>]
    <3>1. r \in [whole : Seq(Kb!Payloads), torn : SUBSET Kb!Payloads] /\ r.whole = <<b>>
      <4>1. kbFiles[file] \in [whole : Seq(Kb!Payloads), torn : SUBSET Kb!Payloads]
        BY <1>1, <1>2 DEF Kb!TypeOK
      <4>2. <<b>> \in Seq(Kb!Payloads)
        BY <1>2
      <4> QED
        BY <4>1, <4>2
    <3>2. kbFiles' = [kbFiles EXCEPT ![file] = r]
      BY <1>1, <1>2, <1>4 DEF Kb!TypeOK
    <3> HIDE DEF r
    <3> QED
      BY <1>1, <1>2, <3>1, <3>2 DEF Kb!TypeOK
  <2>2. /\ serving' \in [Processes -> KbCalling \cup {Nil}]
        /\ \A q \in Processes \ {p} : serving'[q] = serving[q]
        /\ serving'[p].at = "rename" /\ serving'[p].does = serving[p].does
        /\ serving'[p].file = file
    BY <1>1, <1>4, KbOn DEF Steps
  <2>3. Kb!TypeOK'
    BY <1>1, <1>4, <2>1, <2>2 DEF Kb!TypeOK, KbCalling, Steps
  <2>4. Unanswered'
    BY <1>1, <1>4, <2>2 DEF Unanswered
  <2>5. Made'
    <3>1. \A f \in Kb!Files : f > filesMade' => kbFiles'[f].whole = <<>>
      <4> SUFFICES ASSUME NEW f \in Kb!Files, f > filesMade PROVE kbFiles'[f].whole = <<>>
        OBVIOUS
      <4>1. f # file
        BY <1>1, <1>2 DEF Kb!TypeOK, Kb!Files
      <4> QED
        BY <1>1, <2>1, <4>1 DEF Made
    <3> QED
      BY <1>1, <3>1 DEF Made
  <2>6. ASSUME NEW q \in Processes, serving'[q] # Nil PROVE begun'[q] > 0 /\ Making(q)' /\ Writing(q)'
    <3>1. CASE q = p
      <4>1. b' = b
        BY <2>2 DEF b, Kb!Payload
      <4> QED
        BY <1>1, <1>2, <2>1, <2>2, <3>1, <4>1 DEF Making, Writing, b
    <3>2. CASE q # p
      <4>1. serving'[q] = serving[q] /\ serving[q] # Nil /\ begun[q] > 0 /\ Making(q) /\ Writing(q)
        BY <1>1, <2>2, <2>6, <3>2 DEF Served
      <4>2. serving[q].at = "rename" => kbFiles'[serving[q].file] = kbFiles[serving[q].file]
        BY <1>1, <1>2, <2>1, <3>2, <4>1 DEF Making, Kb!TypeOK
      <4>3. Kb!Payload(q)' = Kb!Payload(q)
        BY <4>1 DEF Kb!Payload
      <4>4. Making(q)'
        BY <1>2, <2>2, <3>2, <4>1, <4>2, <4>3 DEF Making
      <4>5. Writing(q)'
        BY <4>1 DEF Writing
      <4> QED
        BY <4>1, <4>4, <4>5
    <3> QED
      BY <3>1, <3>2
  <2>7. Served'
    BY <2>6 DEF Served
  <2>8. KbText' = KbText
    BY <1>1, <1>3, <2>1 DEF KbText, Kb!TypeOK
  <2> QED
    BY <1>4, <2>3, <2>4, <2>5, <2>7, <2>8 DEF KbInv, Kb!Contract!vars, KbText
<1>5. CASE kbFiles' = [kbFiles EXCEPT ![file].torn = {b}] /\ Kb!Answers(p, "io_error")
  <2>1. /\ kbFiles' \in [Kb!Files -> [whole : Seq(Kb!Payloads), torn : SUBSET Kb!Payloads]]
        /\ \A f \in Kb!Files : kbFiles'[f].whole = kbFiles[f].whole
    <3> DEFINE r == [kbFiles[file] EXCEPT !.torn = {b}]
    <3>1. r \in [whole : Seq(Kb!Payloads), torn : SUBSET Kb!Payloads] /\ r.whole = kbFiles[file].whole
      <4>1. kbFiles[file] \in [whole : Seq(Kb!Payloads), torn : SUBSET Kb!Payloads]
        BY <1>1, <1>2 DEF Kb!TypeOK
      <4> QED
        BY <1>2, <4>1
    <3>2. kbFiles' = [kbFiles EXCEPT ![file] = r]
      BY <1>1, <1>2, <1>5 DEF Kb!TypeOK
    <3> HIDE DEF r
    <3> QED
      BY <1>1, <1>2, <3>1, <3>2 DEF Kb!TypeOK
  <2>2. /\ serving'[p] = Nil /\ \A q \in Processes \ {p} : serving'[q] = serving[q]
        /\ kbAnswers' = [kbAnswers EXCEPT ![b] = "io_error"] /\ Unanswered' /\ Kb!TypeOK'
    BY <1>1, <1>5, <2>1, KbAnswered DEF Kb!TypeOK, b
  <2>3. KbInv' /\ UNCHANGED KbText
    BY <1>1, <2>1, <2>2, KbGoesOn
  <2>4. Kb!Contract!Failed(b)
    BY <1>2, <2>2, <2>3 DEF Kb!Contract!Answer, Kb!Contract!Failed, KbText
  <2> QED
    BY <1>2, <2>3, <2>4 DEF Kb!Contract!Next
<1> QED
  BY <1>4, <1>5 DEF b

\* A temporary file becomes the document, or goes away: nobody else has anything of it.
LEMMA KbRenameStep ==
  ASSUME Kb!KbPluginAssumption, KbInv, NEW p \in Processes, Kb!Rename(p)
  PROVE  KbInv' /\ [Kb!Contract!Next]_(Kb!Contract!vars)
<1> USE DEF Kb!Rename, Kb!At, Kb!Doc
<1> DEFINE b == Kb!Payload(p)  file == serving[p].file  d == serving[p].doc
<1>1. /\ Kb!TypeOK /\ Unanswered /\ Made /\ Served /\ serving[p] # Nil /\ serving[p].at = "rename" /\ UNCHANGED begun
      /\ temps' = temps \ {file} /\ UNCHANGED <<kbFiles, filesMade, removals>>
  BY DEF KbInv
<1>2. /\ b \in Kb!Payloads /\ kbAnswers[b] = Nil /\ file \in temps /\ file \in Kb!Files /\ file <= filesMade
      /\ \A q \in Processes \ {p} :
           serving[q] # Nil /\ serving[q].at \in {"fill", "rename"} => serving[q].file # file
      /\ begun[p] > 0 /\ serving[p].does # "append" /\ kbFiles[file].whole = <<b>> /\ d \in Documents
      /\ serving[p].does \in Kb!Calls /\ Kb!Contract!Asks(b) = serving[p].does
  BY <1>1, ServingFacts DEF Making, Made, Kb!TypeOK, Served, Kb!Contract!Asks
<1>3. \A e \in Documents : directory[e] # file
  BY <1>1, <1>2 DEF Made, Kb!TypeOK, Kb!KbPluginAssumption, Kb!Files
<1> HIDE DEF b
\* The others.
<1>4. ASSUME \A q \in Processes \ {p} : serving'[q] = serving[q],
             serving'[p] # Nil => serving'[p].at = "open",
             directory' = directory
             \/ (directory[d] = Nil /\ directory' = [directory EXCEPT ![d] = file]),
             NEW q \in Processes \ {p}, serving[q] # Nil
      PROVE  begun'[q] > 0 /\ Making(q)' /\ Writing(q)'
  <2>1. serving'[q] = serving[q] /\ begun[q] > 0 /\ Making(q) /\ Writing(q)
    BY <1>1, <1>4 DEF Served
  <2>2. Kb!Payload(q)' = Kb!Payload(q)
    BY <1>1, <2>1 DEF Kb!Payload
  <2>3. Making(q)'
    <3>1. serving[q].at \in {"fill", "rename"} => serving[q].file \in temps'
      BY <1>1, <1>2, <1>4, <2>1 DEF Making
    <3>2. ASSUME serving[q].at \in {"fill", "rename"}, NEW o \in Processes \ {q},
                 serving'[o] # Nil, serving'[o].at \in {"fill", "rename"}
          PROVE  serving'[o].file # serving[q].file
      BY <1>4, <2>1, <3>2 DEF Making
    <3> QED
      BY <1>1, <2>1, <2>2, <3>1, <3>2 DEF Making
  <2>4. Writing(q)'
    <3> SUFFICES ASSUME serving[q].at \in {"write", "writing"}
                 PROVE  /\ \A e \in Documents : directory'[e] = serving[q].file => e = serving[q].doc
                        /\ directory'[serving[q].doc] # serving[q].file => removals[serving[q].doc] > 0
      BY <1>1, <2>1 DEF Writing
    <3>1. serving[q].file # file
      BY <1>2, <2>1 DEF Writing
    <3>0. serving[q].doc \in Documents
      BY <1>4, ServingFacts
    <3>2. \A e \in Documents : directory'[e] = directory[e] \/ (directory[e] = Nil /\ directory'[e] = file)
      BY <1>1, <1>2, <1>4 DEF Kb!TypeOK
    <3>3. serving[q].file # Nil
      BY <2>1 DEF Writing, Kb!Files, Kb!KbPluginAssumption
    <3> QED
      BY <2>1, <3>0, <3>1, <3>2, <3>3 DEF Writing
  <2> QED
    BY <1>1, <2>1, <2>3, <2>4
<1>5. CASE directory[d] = Nil
  <2>1. directory' = [directory EXCEPT ![d] = file] /\ Kb!Answers(p, "created")
    BY <1>5
  <2>2. /\ serving'[p] = Nil /\ \A q \in Processes \ {p} : serving'[q] = serving[q]
        /\ kbAnswers' = [kbAnswers EXCEPT ![b] = "created"] /\ Unanswered'
        /\ serving' \in [Processes -> KbCalling \cup {Nil}]
        /\ kbAnswers' \in [Kb!Payloads -> {Nil, "created", "existed", "appended", "not_found", "io_error"}]
    BY <1>1, <2>1, KbAnswered DEF b, KbCalling, Steps
  <2>3. /\ directory' \in [Documents -> Kb!Files \cup {Nil}] /\ directory'[d] = file
        /\ \A e \in Documents \ {d} : directory'[e] = directory[e]
    BY <1>1, <1>2, <2>1 DEF Kb!TypeOK
  <2>4. Kb!TypeOK'
    <3>1. \A e, g \in Documents : directory'[e] # Nil /\ directory'[e] = directory'[g] => e = g
      BY <1>1, <1>3, <2>3 DEF Kb!TypeOK
    <3> QED
      BY <1>1, <2>2, <2>3, <3>1 DEF Kb!TypeOK, KbCalling, Steps
  <2>5. Made'
    <3>1. ASSUME NEW e \in Documents, directory'[e] # Nil
          PROVE  directory'[e] <= filesMade /\ directory'[e] \notin temps'
      <4>1. CASE e = d
        BY <1>1, <1>2, <2>3, <4>1
      <4>2. CASE e # d
        BY <1>1, <2>3, <3>1, <4>2 DEF Made
      <4> QED
        BY <4>1, <4>2
    <3> QED
      BY <1>1, <3>1 DEF Made
  <2>6. Served'
    BY <1>4, <2>1, <1>5, <2>2 DEF Served
  <2>7. KbText' = [KbText EXCEPT ![d] = <<b>>] /\ KbText[d] = Nil
    <3>1. KbText'[d] = <<b>> /\ KbText[d] = Nil
      BY <1>1, <1>2, <1>5, <2>3 DEF KbText, Kb!KbPluginAssumption, Kb!Files
    <3>2. \A e \in Documents \ {d} : KbText'[e] = KbText[e]
      BY <1>1, <2>3 DEF KbText
    <3> QED
      BY <3>1, <3>2, <1>2 DEF KbText
  <2>8. PICK e \in Documents, x \in Kb!Payloads : e = d /\ x = b
    BY <1>2
  <2>9. Kb!Contract!Create(e, x)
    BY <1>1, <1>2, <2>2, <2>7, <2>8 DEF Kb!Contract!Create, Kb!Contract!Answer, KbText
  <2>10. Kb!Contract!Next
    BY <2>9 DEF Kb!Contract!Next
  <2> QED
    BY <2>2, <2>4, <2>5, <2>6, <2>10 DEF KbInv
<1>6. CASE directory[d] # Nil
  <2>1. Kb!Lost(p) /\ UNCHANGED directory
    BY <1>6
  <2>2. Made'
    BY <1>1, <2>1 DEF Made
  <2>3. UNCHANGED KbText
    BY <1>1, <2>1 DEF KbText
  <2>4. CASE serving[p].does = "ensure"
    <3>1. Kb!Answers(p, "existed")
      BY <2>1, <2>4 DEF Kb!Lost
    <3>2. /\ serving'[p] = Nil /\ \A q \in Processes \ {p} : serving'[q] = serving[q]
          /\ kbAnswers' = [kbAnswers EXCEPT ![b] = "existed"] /\ Unanswered' /\ Kb!TypeOK'
      BY <1>1, <2>1, <3>1, KbAnswered DEF Kb!TypeOK, b
    <3>3. Served'
      BY <1>4, <2>1, <3>2 DEF Served
    <3>4. KbText[d] # Nil
      BY <1>1, <1>2, <1>6 DEF KbText, Kb!TypeOK, Kb!KbPluginAssumption
    <3>5. Kb!Contract!Existed(d, b)
      BY <1>1, <1>2, <2>3, <2>4, <3>2, <3>4 DEF Kb!Contract!Existed, Kb!Contract!Answer, KbText
    <3> QED
      BY <1>2, <2>2, <3>2, <3>3, <3>5 DEF KbInv, Kb!Contract!Next
  <2>5. CASE serving[p].does # "ensure"
    <3>1. Kb!Goes(p, "open") /\ UNCHANGED kbAnswers
      BY <2>1, <2>5 DEF Kb!Lost
    <3>2. /\ serving' \in [Processes -> KbCalling \cup {Nil}]
          /\ \A q \in Processes \ {p} : serving'[q] = serving[q]
          /\ serving'[p].at = "open" /\ serving'[p].does = serving[p].does
      BY <1>1, <3>1, KbOn DEF Steps
    <3>3. Kb!TypeOK'
      BY <1>1, <2>1, <3>1, <3>2 DEF Kb!TypeOK, KbCalling, Steps
    <3>4. Unanswered'
      BY <1>1, <3>1, <3>2 DEF Unanswered
    <3>5. Making(p)' /\ Writing(p)' /\ begun'[p] > 0
      BY <1>1, <1>2, <2>5, <3>2 DEF Making, Writing
    <3>6. Served'
      BY <1>4, <2>1, <3>2, <3>5 DEF Served
    <3> QED
      BY <1>1, <2>2, <2>3, <3>1, <3>3, <3>4, <3>6 DEF KbInv, Kb!Contract!vars, KbText
  <2> QED
    BY <2>4, <2>5
<1> QED
  BY <1>5, <1>6

\* The rest of the payload is in the file, which is the document or was.
LEMMA KbEndWriteStep ==
  ASSUME Kb!KbPluginAssumption, KbInv, NEW p \in Processes, Kb!EndWrite(p)
  PROVE  KbInv' /\ [Kb!Contract!Next]_(Kb!Contract!vars)
<1> USE DEF Kb!EndWrite, Kb!At
<1> DEFINE b == Kb!Payload(p)  file == serving[p].file  d == serving[p].doc
<1>1. /\ Kb!TypeOK /\ Unanswered /\ Made /\ Served /\ serving[p] # Nil /\ serving[p].at = "writing"
      /\ UNCHANGED <<begun, directory, filesMade, temps, removals>>
  BY DEF KbInv
<1>2. /\ b \in Kb!Payloads /\ kbAnswers[b] = Nil /\ file \in Kb!Files /\ file <= filesMade /\ file \notin temps
      /\ d \in Documents /\ serving[p].does # "ensure" /\ Kb!Contract!Asks(b) = serving[p].does
      /\ \A e \in Documents : directory[e] = file => e = d
      /\ directory[d] # file => removals[d] > 0
  BY <1>1, ServingFacts DEF Writing, Kb!Contract!Asks
<1> HIDE DEF b
<1>3. CASE UNCHANGED kbFiles /\ Kb!Answers(p, "io_error")
  <2>2. /\ serving'[p] = Nil /\ \A q \in Processes \ {p} : serving'[q] = serving[q]
        /\ kbAnswers' = [kbAnswers EXCEPT ![b] = "io_error"] /\ Unanswered' /\ Kb!TypeOK'
    BY <1>1, <1>3, KbAnswered DEF Kb!TypeOK, b
  <2>3. KbInv' /\ UNCHANGED KbText
    BY <1>1, <1>3, <2>2, KbGoesOn
  <2>4. Kb!Contract!Failed(b)
    BY <1>1, <1>2, <2>2, <2>3 DEF Kb!Contract!Answer, Kb!Contract!Failed, KbText
  <2> QED
    BY <1>2, <2>3, <2>4 DEF Kb!Contract!Next
<1>4. CASE /\ kbFiles' = [kbFiles EXCEPT ![file] =
                  [whole |-> Append(kbFiles[file].whole, b), torn |-> kbFiles[file].torn \ {b}]]
           /\ Kb!Answers(p, "appended")
  <2>1. /\ kbFiles' \in [Kb!Files -> [whole : Seq(Kb!Payloads), torn : SUBSET Kb!Payloads]]
        /\ \A f \in Kb!Files : f # file => kbFiles'[f] = kbFiles[f]
        /\ kbFiles'[file].whole = Append(kbFiles[file].whole, b)
    <3> DEFINE r == [whole |-> Append(kbFiles[file].whole, b), torn |-> kbFiles[file].torn \ {b}]
    <3>1. kbFiles[file] \in [whole : Seq(Kb!Payloads), torn : SUBSET Kb!Payloads]
      BY <1>1, <1>2 DEF Kb!TypeOK
    <3>2. Append(kbFiles[file].whole, b) \in Seq(Kb!Payloads)
      BY <1>2, <3>1
    <3>3. r \in [whole : Seq(Kb!Payloads), torn : SUBSET Kb!Payloads] /\ r.whole = Append(kbFiles[file].whole, b)
      BY <3>1, <3>2
    <3> HIDE DEF r
    <3>4. kbFiles' = [kbFiles EXCEPT ![file] = r]
      BY <1>4 DEF r
    <3> QED
      BY <1>1, <1>2, <3>3, <3>4 DEF Kb!TypeOK
  <2>2. /\ serving'[p] = Nil /\ \A q \in Processes \ {p} : serving'[q] = serving[q]
        /\ kbAnswers' = [kbAnswers EXCEPT ![b] = "appended"] /\ Unanswered' /\ Kb!TypeOK'
    BY <1>1, <1>4, <2>1, KbAnswered DEF Kb!TypeOK, b
  <2>3. Made'
    <3>1. \A f \in Kb!Files : f > filesMade => kbFiles'[f].whole = <<>>
      <4> SUFFICES ASSUME NEW f \in Kb!Files, f > filesMade PROVE kbFiles'[f].whole = <<>>
        OBVIOUS
      <4>1. f # file
        BY <1>1, <1>2 DEF Kb!TypeOK, Kb!Files
      <4> QED
        BY <1>1, <2>1, <4>1 DEF Made
    <3> QED
      BY <1>1, <3>1 DEF Made
  <2>4. ASSUME NEW q \in Processes, serving'[q] # Nil PROVE begun'[q] > 0 /\ Making(q)' /\ Writing(q)'
    <3>1. q # p /\ serving'[q] = serving[q] /\ serving[q] # Nil
      BY <2>2, <2>4
    <3>2. begun[q] > 0 /\ Making(q) /\ Writing(q)
      BY <1>1, <3>1 DEF Served
    <3>3. serving[q].at = "rename" => kbFiles'[serving[q].file] = kbFiles[serving[q].file]
      BY <1>1, <1>2, <2>1, <3>2 DEF Making, Kb!TypeOK
    <3>4. Kb!Payload(q)' = Kb!Payload(q)
      BY <1>1, <3>1 DEF Kb!Payload
    <3>5. Making(q)'
      BY <1>1, <2>2, <3>1, <3>2, <3>3, <3>4 DEF Making
    <3>6. Writing(q)'
      BY <1>1, <3>1, <3>2 DEF Writing
    <3> QED
      BY <1>1, <3>2, <3>5, <3>6
  <2>5. KbInv'
    BY <2>2, <2>3, <2>4 DEF KbInv, Served
  <2>6. Kb!Contract!Answer(b, "appended")
    BY <1>2, <2>2 DEF Kb!Contract!Answer
  <2>7. CASE directory[d] = file
    <3>1. \A e \in Documents \ {d} : KbText'[e] = KbText[e]
      BY <1>1, <1>2, <2>1 DEF KbText, Kb!TypeOK
    <3>2. KbText[d] = kbFiles[file].whole /\ KbText'[d] = Append(KbText[d], b) /\ KbText[d] # Nil
      <4>1. file # Nil /\ kbFiles[file].whole # Nil
        BY <1>1, <1>2 DEF Kb!TypeOK, Kb!KbPluginAssumption, Kb!Files
      <4> QED
        BY <1>1, <1>2, <2>1, <2>7, <4>1 DEF KbText
    <3>3. KbText' = [KbText EXCEPT ![d] = Append(KbText[d], b)]
      BY <1>1, <3>1, <3>2 DEF KbText
    <3>4. PICK e \in Documents, x \in Kb!Payloads : e = d /\ x = b
      BY <1>2
    <3>5. Kb!Contract!Append_(e, x)
      BY <1>1, <1>2, <2>6, <3>2, <3>3, <3>4 DEF Kb!Contract!Append_, KbText
    <3>6. Kb!Contract!Next
      BY <3>5 DEF Kb!Contract!Next
    <3> QED
      BY <2>5, <3>6
  <2>8. CASE directory[d] # file
    <3>1. KbText' = KbText
      <4>1. \A e \in Documents : directory[e] # file
        BY <1>2, <2>8
      <4> QED
        BY <1>1, <2>1, <4>1 DEF KbText, Kb!TypeOK
    <3>2. Kb!Contract!AppendElsewhere(d, b)
      BY <1>1, <1>2, <2>6, <2>8, <3>1 DEF Kb!Contract!AppendElsewhere, KbText
    <3>3. d \in Documents /\ b \in Kb!Payloads
      BY <1>2
    <3> QED
      BY <2>5, <3>2, <3>3 DEF Kb!Contract!Next
  <2> QED
    BY <2>7, <2>8
<1> QED
  BY <1>3, <1>4 DEF b

\* The user writes a document of his own, in the file it has or in a new one, or removes it.
LEMMA KbUserStep ==
  ASSUME Kb!KbPluginAssumption, KbInv, NEW d \in Documents,
         Kb!SaveInPlace(d) \/ Kb!SaveNew(d) \/ Kb!Remove(d)
  PROVE  KbInv' /\ [Kb!Contract!Next]_(Kb!Contract!vars)
<1>1. Kb!TypeOK /\ Unanswered /\ Made /\ Served
  BY DEF KbInv
<1>2. CASE Kb!SaveInPlace(d)
  <2> USE DEF Kb!SaveInPlace
  <2> DEFINE file == directory[d]
  <2>1. /\ UNCHANGED <<directory, filesMade, temps, serving, begun, kbAnswers, removals>>
        /\ file # Nil /\ kbFiles' = [kbFiles EXCEPT ![file] = [whole |-> <<>>, torn |-> {}]]
    BY <1>2
  <2>2. file \in Kb!Files /\ file \notin temps
    BY <1>1, <2>1 DEF Kb!TypeOK, Made
  <2>3. /\ kbFiles' \in [Kb!Files -> [whole : Seq(Kb!Payloads), torn : SUBSET Kb!Payloads]]
        /\ \A f \in Kb!Files : f # file => kbFiles'[f] = kbFiles[f]
        /\ kbFiles'[file].whole = <<>>
    <3> DEFINE r == [whole |-> <<>>, torn |-> {}]
    <3>1. <<>> \in Seq(Kb!Payloads)
      OBVIOUS
    <3>2. r \in [whole : Seq(Kb!Payloads), torn : SUBSET Kb!Payloads] /\ r.whole = <<>>
      BY <3>1
    <3> HIDE DEF r
    <3>3. kbFiles' = [kbFiles EXCEPT ![file] = r]
      BY <2>1 DEF r
    <3> QED
      BY <1>1, <2>2, <3>2, <3>3 DEF Kb!TypeOK
  <2>4. Kb!TypeOK'
    BY <1>1, <2>1, <2>3 DEF Kb!TypeOK
  <2>5. Made' /\ Unanswered'
    BY <1>1, <2>1, <2>2, <2>3 DEF Made, Unanswered
  <2>6. ASSUME NEW q \in Processes, serving'[q] # Nil PROVE begun'[q] > 0 /\ Making(q)' /\ Writing(q)'
    <3>1. begun[q] > 0 /\ Making(q) /\ Writing(q)
      BY <1>1, <2>1, <2>6 DEF Served
    <3>2. serving[q].at = "rename" => kbFiles'[serving[q].file] = kbFiles[serving[q].file]
      BY <1>1, <2>2, <2>3, <3>1 DEF Making, Kb!TypeOK
    <3>3. Kb!Payload(q)' = Kb!Payload(q)
      BY <2>1 DEF Kb!Payload
    <3> QED
      BY <2>1, <3>1, <3>2, <3>3 DEF Making, Writing
  <2>7. \A e \in Documents \ {d} : KbText'[e] = KbText[e]
    BY <1>1, <2>1, <2>2, <2>3 DEF KbText, Kb!TypeOK
  <2>8. KbText' = [KbText EXCEPT ![d] = <<>>]
    <3>1. KbText'[d] = <<>>
      BY <2>1, <2>3 DEF KbText
    <3> QED
      BY <2>7, <3>1, KbTextChanges
  <2>9. Kb!Contract!Save(d)
    BY <2>1, <2>8 DEF Kb!Contract!Save, KbText
  <2>10. KbInv'
    BY <2>4, <2>5, <2>6 DEF KbInv, Served
  <2>11. Kb!Contract!Next
    BY <2>9 DEF Kb!Contract!Next
  <2> QED
    BY <2>10, <2>11
\* The document has another file, or none.
<1>3. ASSUME directory' = [directory EXCEPT ![d] = directory'[d]],
             directory'[d] = Nil
             \/ (directory'[d] = filesMade + 1 /\ filesMade' = filesMade + 1 /\ filesMade + 1 \in Kb!Files),
             filesMade' \in {filesMade, filesMade + 1},
             directory[d] # Nil => removals'[d] > 0,
             \A e \in Documents \ {d} : removals'[e] = removals[e],
             directory[d] = Nil => removals' = removals,
             UNCHANGED <<kbFiles, temps, serving, begun, kbAnswers>>
      PROVE  Made' /\ Unanswered' /\ Served'
  <2>0. /\ filesMade \in Nat /\ \A f \in Kb!Files : f \in Nat
        /\ directory \in [Documents -> Kb!Files \cup {Nil}]
    BY <1>1 DEF Kb!TypeOK, Kb!Files
  <2>1. \A e \in Documents \ {d} : directory'[e] = directory[e]
    BY <1>3, <2>0
  <2>2. Made'
    <3>1. \A f \in Kb!Files : f > filesMade' => kbFiles'[f].whole = <<>>
      BY <1>1, <1>3, <2>0 DEF Made
    <3>2. \A f \in temps : f \in Nat /\ f <= filesMade
      BY <1>1, <2>0 DEF Made, Kb!TypeOK
    <3>3. \A f \in temps' : f <= filesMade'
      BY <1>3, <2>0, <3>2
    <3>4. ASSUME NEW e \in Documents, directory'[e] # Nil
          PROVE  directory'[e] <= filesMade' /\ directory'[e] \notin temps'
      <4>1. CASE e = d
        BY <1>3, <2>0, <3>2, <3>4, <4>1
      <4>2. CASE e # d
        <5>1. directory'[e] = directory[e] /\ directory[e] \in Nat /\ directory[e] <= filesMade /\ directory[e] \notin temps
          BY <1>1, <2>0, <2>1, <3>4, <4>2 DEF Made
        <5> QED
          BY <1>3, <2>0, <5>1
      <4> QED
        BY <4>1, <4>2
    <3> QED
      BY <3>1, <3>3, <3>4 DEF Made
  <2>3. Unanswered'
    BY <1>1, <1>3 DEF Unanswered
  <2>4. ASSUME NEW q \in Processes, serving'[q] # Nil PROVE begun'[q] > 0 /\ Making(q)' /\ Writing(q)'
    <3>1. serving[q] # Nil /\ begun[q] > 0 /\ Making(q) /\ Writing(q)
      BY <1>1, <1>3, <2>4 DEF Served
    <3>2. Making(q)'
      BY <1>3, <3>1 DEF Making, Kb!Payload
    <3>3. Writing(q)'
      <4> SUFFICES ASSUME serving[q].at \in {"write", "writing"}
                   PROVE  /\ serving[q].file <= filesMade'
                          /\ \A e \in Documents : directory'[e] = serving[q].file => e = serving[q].doc
                          /\ directory'[serving[q].doc] # serving[q].file => removals'[serving[q].doc] > 0
        BY <1>3, <3>1 DEF Writing
      <4>1. serving[q].file \in Nat /\ serving[q].file <= filesMade /\ serving[q].file # Nil
        BY <2>0, <3>1 DEF Writing, Kb!KbPluginAssumption
      <4>2. serving[q].file # directory'[d] /\ serving[q].file <= filesMade'
        BY <1>3, <2>0, <4>1
      <4>3. serving[q].doc \in Documents
        BY <3>1, ServingFacts
      <4> QED
        BY <1>3, <2>1, <3>1, <4>1, <4>2, <4>3 DEF Writing
    <3> QED
      BY <1>3, <3>1, <3>2, <3>3
  <2> QED
    BY <2>2, <2>3, <2>4 DEF Served
<1>4. CASE Kb!SaveNew(d)
  <2>0. filesMade \in Nat /\ removals \in [Documents -> 0 .. MaxMoves] /\ removals[d] \in Nat
        /\ directory \in [Documents -> Kb!Files \cup {Nil}] /\ filesMade + 1 \in Kb!Files /\ MaxMoves \in Nat
    BY <1>1, <1>4 DEF Kb!TypeOK, Kb!SaveNew, Kb!Files, Kb!KbPluginAssumption
  <2>1. /\ filesMade' = filesMade + 1 /\ directory' = [directory EXCEPT ![d] = filesMade + 1]
        /\ UNCHANGED <<kbFiles, temps, serving, begun, kbAnswers>> /\ filesMade < MaxFiles
        /\ IF directory[d] = Nil THEN UNCHANGED removals
           ELSE removals[d] < MaxMoves /\ removals' = [removals EXCEPT ![d] = @ + 1]
    BY <1>4 DEF Kb!SaveNew
  <2>2. directory'[d] = filesMade + 1 /\ \A e \in Documents \ {d} : directory'[e] = directory[e]
    BY <2>0, <2>1
  <2>3. Made' /\ Unanswered' /\ Served'
    BY <1>3, <2>0, <2>1, <2>2
  <2>4. Kb!TypeOK'
    <3>1. \A e \in Documents : directory[e] # filesMade + 1
      BY <1>1, <2>0 DEF Made, Kb!KbPluginAssumption
    <3>2. \A e, g \in Documents : directory'[e] # Nil /\ directory'[e] = directory'[g] => e = g
      BY <1>1, <2>2, <3>1 DEF Kb!TypeOK
    <3>3. /\ directory' \in [Documents -> Kb!Files \cup {Nil}] /\ filesMade' \in 0 .. MaxFiles
          /\ removals' \in [Documents -> 0 .. MaxMoves]
      BY <2>0, <2>1 DEF Kb!KbPluginAssumption
    <3> QED
      BY <1>1, <2>1, <3>2, <3>3 DEF Kb!TypeOK
  <2>5. \A e \in Documents \ {d} : KbText'[e] = KbText[e]
    BY <2>1, <2>2 DEF KbText
  <2>6. KbText'[d] = <<>>
    <3>1. filesMade + 1 # Nil /\ kbFiles[filesMade + 1].whole = <<>>
      BY <1>1, <2>0 DEF Made, Kb!KbPluginAssumption
    <3> QED
      BY <2>1, <2>2, <3>1 DEF KbText
  <2>7. KbText' = [KbText EXCEPT ![d] = <<>>]
    BY <2>5, <2>6, KbTextChanges, Zenon
  <2>8. Kb!Contract!Save(d)
    BY <2>1, <2>7 DEF Kb!Contract!Save, KbText
  <2> QED
    BY <2>3, <2>4, <2>8 DEF KbInv, Kb!Contract!Next
<1>5. CASE Kb!Remove(d)
  <2>0. filesMade \in Nat /\ removals \in [Documents -> 0 .. MaxMoves] /\ removals[d] \in Nat
        /\ directory \in [Documents -> Kb!Files \cup {Nil}]
    BY <1>1 DEF Kb!TypeOK
  <2>1. /\ filesMade' = filesMade /\ directory' = [directory EXCEPT ![d] = Nil]
        /\ UNCHANGED <<kbFiles, temps, serving, begun, kbAnswers>> /\ directory[d] # Nil
        /\ removals[d] < MaxMoves /\ removals' = [removals EXCEPT ![d] = @ + 1]
    BY <1>5 DEF Kb!Remove
  <2>2. directory'[d] = Nil /\ \A e \in Documents \ {d} : directory'[e] = directory[e]
    BY <2>0, <2>1
  <2>3. Made' /\ Unanswered' /\ Served'
    BY <1>3, <2>0, <2>1, <2>2
  <2>4. Kb!TypeOK'
    <3>1. /\ directory' \in [Documents -> Kb!Files \cup {Nil}] /\ removals' \in [Documents -> 0 .. MaxMoves]
      BY <2>0, <2>1 DEF Kb!KbPluginAssumption
    <3> QED
      BY <1>1, <2>1, <2>2, <3>1 DEF Kb!TypeOK
  <2>5. \A e \in Documents \ {d} : KbText'[e] = KbText[e]
    BY <2>1, <2>2 DEF KbText
  <2>6. KbText' = [KbText EXCEPT ![d] = Nil]
    BY <2>2, <2>5 DEF KbText
  <2>7. Kb!Contract!Remove(d)
    BY <2>1, <2>6 DEF Kb!Contract!Remove, KbText
  <2> QED
    BY <2>3, <2>4, <2>7 DEF KbInv, Kb!Contract!Next
<1> QED
  BY <1>2, <1>4, <1>5

LEMMA KbNext ==
  ASSUME Kb!KbPluginAssumption, KbInv, [Kb!Next]_(Kb!vars)
  PROVE  KbInv' /\ [Kb!Contract!Next]_(Kb!Contract!vars)
<1>1. CASE UNCHANGED Kb!vars
  BY <1>1 DEF Kb!vars, KbInv, Kb!TypeOK, Made, Unanswered, Served, Making, Writing, Kb!Payload, Kb!Contract!vars
<1>2. ASSUME NEW p \in Processes, NEW d \in Documents, NEW does \in Kb!Calls, Kb!Begin(p, does, d)
      PROVE  KbInv' /\ [Kb!Contract!Next]_(Kb!Contract!vars)
  BY <1>2, KbBeginStep
<1>3. ASSUME NEW p \in Processes, Kb!Work(p) \/ Kb!Kill(p)
      PROVE  KbInv' /\ [Kb!Contract!Next]_(Kb!Contract!vars)
  BY <1>3, KbCheckStep, KbMakeTempStep, KbFillStep, KbRenameStep, KbOpenStep, KbBeginWriteStep, KbEndWriteStep,
     KbKillStep DEF Kb!Work
<1>4. ASSUME NEW d \in Documents, Kb!SaveInPlace(d) \/ Kb!SaveNew(d) \/ Kb!Remove(d)
      PROVE  KbInv' /\ [Kb!Contract!Next]_(Kb!Contract!vars)
  BY <1>4, KbUserStep
<1> QED
  BY <1>1, <1>2, <1>3, <1>4 DEF Kb!Next

KbKept == part = "kb" => KbInv

\* However many processes serve the same documents, whatever the user does to them and
\* wherever a process is killed: a document is made by one call and whole, and what was
\* acknowledged as appended is in it once, unless the user took the document away.
THEOREM KbImplements == Spec => KbKeepsContract
<1>1. Init => KbKept /\ (part = "kb" => Kb!Contract!Init)
  <2> SUFFICES ASSUME Init, part = "kb" PROVE KbInv /\ Kb!Contract!Init
    BY DEF KbKept
  <2>1. Kb!Init /\ Kb!KbPluginAssumption
    BY PluginsAssumption DEF Init, PluginsAssumption
  <2> QED
    BY <2>1, KbInit DEF Kb!Contract!Init, Kb!Init
<1>2. KbKept /\ [Next]_vars => KbKept' /\ (part = "kb" => [Kb!Contract!Next]_(Kb!Contract!vars))
  <2> SUFFICES ASSUME KbKept, [Next]_vars, part = "kb"
               PROVE  KbInv' /\ [Kb!Contract!Next]_(Kb!Contract!vars)
    BY Parts DEF KbKept
  <2>1. Kb!KbPluginAssumption /\ KbInv /\ [Kb!Next]_(Kb!vars)
    BY Parts, PluginsAssumption DEF KbKept, PluginsAssumption
  <2> QED
    BY <2>1, KbNext
<1>3. KbKept => (part = "kb" => Kb!TypeOK)
  BY DEF KbKept, KbInv
<1> QED
  BY <1>1, <1>2, PTL DEF Spec, KbKeepsContract

-----------------------------------------------------------------------------
(* BookmarkPlugin *)

bookmarks == v1
month == v2
adding == v3
asks == v4
kept == v5
replaced == v6
doubled == v7

USE DEF bookmarks, month, adding, asks, kept, replaced, doubled

Asking == [at : {"look", "write"}, link : Bookmarks!Links, raced : BOOLEAN, name : Bookmarks!Names]

BookTypes ==
  /\ bookmarks \in [Bookmarks!Names -> Bookmarks!Links \cup {Foreign, Nil}]
  /\ month \in 1 .. LastMonth /\ adding \in [Processes -> Asking \cup {Nil}]
  /\ asks \in [Processes -> 0 .. BookmarkAdds]
  /\ kept \subseteq Bookmarks!Links /\ replaced = FALSE /\ doubled = FALSE

\* A call writes to a name with the hash of its link, which is canonical.
Filed ==
  \A p \in Processes : adding[p] # Nil =>
    adding[p].name.id = adding[p].link /\ Bookmarks!Canonical(adding[p].link) = adding[p].link

Listing == \A l \in kept : \E n \in Bookmarks!Listed : n.id = l

\* A call that is about to write has found no file of its page, and there is none yet
\* unless somebody made, changed or moved one since the call began.
Unmet ==
  \A p \in Processes : adding[p] # Nil /\ adding[p].at = "write" /\ ~adding[p].raced =>
    \A n \in Bookmarks!Listed : n.id # adding[p].link

BookInv == BookTypes /\ Filed /\ Listing /\ Unmet

LEMMA BookInit == Bookmarks!BookmarkAssumption /\ Bookmarks!Init => BookInv
<1> SUFFICES ASSUME Bookmarks!BookmarkAssumption, Bookmarks!Init PROVE BookInv
  OBVIOUS
<1> USE DEF Bookmarks!BookmarkAssumption, Bookmarks!Init
<1>1. BookTypes
  BY DEF BookTypes
<1> QED
  BY <1>1 DEF BookInv, Filed, Listing, Unmet

\* The canonical link of a link, and what has the same page.
LEMMA Canonicals ==
  ASSUME NEW l \in Bookmarks!Links
  PROVE  /\ Bookmarks!Canonical(l) \in Bookmarks!Links
         /\ Bookmarks!Canonical(Bookmarks!Canonical(l)) = Bookmarks!Canonical(l)
         /\ \A k \in Bookmarks!Links :
              k.page = l.page => Bookmarks!Canonical(k) = Bookmarks!Canonical(l)
BY DEF Bookmarks!Links, Bookmarks!Canonical

\* A file's name holds a canonical link.
LEMMA NamesAreCanonical ==
  ASSUME NEW n \in Bookmarks!Names
  PROVE  n.id \in Bookmarks!Links /\ Bookmarks!Canonical(n.id) = n.id
<1>1. PICK l \in Bookmarks!Links : n.id = Bookmarks!Canonical(l)
  BY DEF Bookmarks!Names
<1> QED
  BY <1>1, Canonicals

\* What somebody else's file of the same id does to the calls: they may miss it.
LEMMA RacedCalls ==
  ASSUME NEW c \in [Processes -> Asking \cup {Nil}], NEW id
  PROVE  /\ Bookmarks!Raced(c, id) \in [Processes -> Asking \cup {Nil}]
         /\ \A p \in Processes : Bookmarks!Raced(c, id)[p] # Nil =>
              /\ c[p] # Nil /\ Bookmarks!Raced(c, id)[p].link = c[p].link
              /\ Bookmarks!Raced(c, id)[p].name = c[p].name
              /\ Bookmarks!Raced(c, id)[p].at = c[p].at
              /\ ~Bookmarks!Raced(c, id)[p].raced => ~c[p].raced /\ c[p].link # id
<1>1. ASSUME NEW p \in Processes, c[p] # Nil
      PROVE  LET r == [c[p] EXCEPT !.raced = TRUE]
             IN  r \in Asking /\ r.link = c[p].link /\ r.name = c[p].name /\ r.at = c[p].at /\ r.raced
  BY <1>1 DEF Asking
<1>2. \A p \in Processes : c[p] # Nil => Bookmarks!Raced(c, id)[p] =
                              IF c[p].link = id THEN [c[p] EXCEPT !.raced = TRUE] ELSE c[p]
  BY DEF Bookmarks!Raced
<1>3. \A p \in Processes : c[p] = Nil => Bookmarks!Raced(c, id)[p] = Nil
  BY DEF Bookmarks!Raced
<1> QED
  BY <1>1, <1>2, <1>3 DEF Bookmarks!Raced

\* A process goes on with its call, or is done with it; the files stay.
LEMMA BookGoesOn ==
  ASSUME BookInv, NEW p \in Processes, adding[p] # Nil, UNCHANGED <<bookmarks, month, asks, replaced, doubled>>,
         \/ adding' = [adding EXCEPT ![p] = Nil]
         \/ /\ adding' = [adding EXCEPT ![p].at = "write"]
            /\ adding[p].raced \/ \A n \in Bookmarks!Listed : n.id # adding[p].link,
         kept' = kept \/ (/\ kept' = kept \cup {adding[p].link}
                          /\ \E n \in Bookmarks!Listed : n.id = adding[p].link)
  PROVE  BookInv'
<1>1. BookTypes /\ Filed /\ Listing /\ Unmet
  BY DEF BookInv
<1>2. Bookmarks!Listed' = Bookmarks!Listed
  BY DEF Bookmarks!Listed
<1>3. adding[p] \in Asking /\ adding \in [Processes -> Asking \cup {Nil}]
  BY <1>1 DEF BookTypes
<1>4. /\ adding' \in [Processes -> Asking \cup {Nil}]
      /\ \A q \in Processes \ {p} : adding'[q] = adding[q]
      /\ adding'[p] # Nil => /\ adding'[p].link = adding[p].link /\ adding'[p].name = adding[p].name
                             /\ adding'[p].raced \/ \A n \in Bookmarks!Listed : n.id # adding[p].link
  <2>1. CASE adding' = [adding EXCEPT ![p] = Nil]
    BY <1>3, <2>1
  <2>2. CASE /\ adding' = [adding EXCEPT ![p].at = "write"]
             /\ adding[p].raced \/ \A n \in Bookmarks!Listed : n.id # adding[p].link
    <3> DEFINE c == [adding[p] EXCEPT !.at = "write"]
    <3>1. c \in Asking /\ c.link = adding[p].link /\ c.name = adding[p].name /\ c.raced = adding[p].raced
      BY <1>3 DEF Asking
    <3>2. adding' = [adding EXCEPT ![p] = c]
      BY <1>3, <2>2
    <3> HIDE DEF c
    <3> QED
      BY <1>3, <2>2, <3>1, <3>2
  <2> QED
    BY <2>1, <2>2
<1>5. BookTypes'
  BY <1>1, <1>3, <1>4 DEF BookTypes, Asking
<1>6. Filed'
  BY <1>1, <1>2, <1>4 DEF Filed
<1>7. Listing'
  BY <1>1, <1>2 DEF Listing
<1>8. Unmet'
  BY <1>1, <1>2, <1>4 DEF Unmet
<1> QED
  BY <1>5, <1>6, <1>7, <1>8 DEF BookInv

LEMMA BookAddStep ==
  ASSUME Bookmarks!BookmarkAssumption, BookInv, NEW p \in Processes, NEW l \in Bookmarks!Links, NEW t \in Titles,
         Bookmarks!Add(p, l, t)
  PROVE  BookInv'
<1>1. BookTypes /\ Filed /\ Listing /\ Unmet
  BY DEF BookInv
<1> DEFINE k == Bookmarks!Canonical(l)
           c == [at |-> "look", link |-> k, raced |-> FALSE, name |-> [month |-> month, id |-> k, title |-> t]]
<1>2. c \in Asking
  BY <1>1, Canonicals DEF Asking, BookTypes, Bookmarks!Names
<1>3. /\ asks[p] < BookmarkAdds /\ asks' = [asks EXCEPT ![p] = @ + 1] /\ adding' = [adding EXCEPT ![p] = c]
      /\ UNCHANGED <<bookmarks, month, kept, replaced, doubled>>
  BY DEF Bookmarks!Add
<1>4. Bookmarks!Canonical(k) = k /\ c.at # "write" /\ c.link = k /\ c.name.id = k
  BY Canonicals
<1>5. BookTypes'
  BY <1>1, <1>2, <1>3 DEF BookTypes, Bookmarks!BookmarkAssumption
<1>6. /\ adding'[p] = c /\ Bookmarks!Listed' = Bookmarks!Listed
      /\ \A q \in Processes \ {p} : adding'[q] = adding[q]
  BY <1>1, <1>3 DEF BookTypes, Bookmarks!Listed
<1> HIDE DEF c
<1>7. Filed' /\ Unmet'
  BY <1>1, <1>4, <1>6 DEF Filed, Unmet
<1>8. Listing'
  BY <1>1, <1>3, <1>6 DEF Listing
<1> QED
  BY <1>5, <1>7, <1>8 DEF BookInv

LEMMA BookLookStep ==
  ASSUME BookInv, NEW p \in Processes, Bookmarks!Look(p) \/ Bookmarks!Kill(p)
  PROVE  BookInv'
<1>1. CASE Bookmarks!Kill(p)
  BY <1>1, BookGoesOn DEF Bookmarks!Kill
<1>2. CASE Bookmarks!Look(p)
  <2>1. adding[p] # Nil /\ UNCHANGED <<bookmarks, month, asks, replaced, doubled>>
    BY <1>2 DEF Bookmarks!Look
  <2>2. CASE Bookmarks!Found(adding[p].link) # {} /\ Bookmarks!Existed(p)
    <3>1. \E n \in Bookmarks!Listed : n.id = adding[p].link
      BY <2>2 DEF Bookmarks!Found
    <3> QED
      BY <2>1, <2>2, <3>1, BookGoesOn DEF Bookmarks!Existed
  <2>3. CASE /\ Bookmarks!Found(adding[p].link) = {} \/ adding[p].raced
             /\ adding' = [adding EXCEPT ![p].at = "write"] /\ UNCHANGED kept
    <3>1. adding[p].raced \/ \A n \in Bookmarks!Listed : n.id # adding[p].link
      BY <2>3 DEF Bookmarks!Found
    <3> QED
      BY <2>1, <2>3, <3>1, BookGoesOn
  <2> QED
    BY <1>2, <2>2, <2>3 DEF Bookmarks!Look
<1> QED
  BY <1>1, <1>2

\* The files change, and a call that may miss a new one, or another, knows.
LEMMA BookFilesStep ==
  ASSUME BookInv, UNCHANGED <<month, asks, replaced, doubled>>,
         bookmarks' \in [Bookmarks!Names -> Bookmarks!Links \cup {Foreign, Nil}],
         adding' \in [Processes -> Asking \cup {Nil}],
         \A p \in Processes : adding'[p] # Nil =>
           /\ adding[p] # Nil /\ adding'[p].link = adding[p].link /\ adding'[p].name = adding[p].name
           /\ adding'[p].at = adding[p].at
           /\ ~adding'[p].raced =>
                ~adding[p].raced /\ \A n \in Bookmarks!Listed' \ Bookmarks!Listed : n.id # adding[p].link,
         kept' \subseteq Bookmarks!Links, Listing'
  PROVE  BookInv'
<1>1. BookTypes /\ Filed /\ Unmet
  BY DEF BookInv
<1>2. BookTypes'
  BY <1>1 DEF BookTypes, Asking
<1>3. Filed'
  BY <1>1 DEF Filed
<1>4. Unmet'
  BY <1>1 DEF Unmet
<1> QED
  BY <1>2, <1>3, <1>4 DEF BookInv

LEMMA BookWriteStep ==
  ASSUME Bookmarks!BookmarkAssumption, BookInv, NEW p \in Processes, Bookmarks!Write(p)
  PROVE  BookInv'
<1>1. /\ BookTypes /\ Filed /\ Listing /\ Unmet
      /\ adding[p] # Nil /\ adding[p].at = "write" /\ UNCHANGED <<month, asks>>
  BY DEF BookInv, Bookmarks!Write
<1> DEFINE link == adding[p].link  name == adding[p].name
<1>2. link \in Bookmarks!Links /\ name \in Bookmarks!Names /\ name.id = link /\ Bookmarks!Canonical(link) = link
  BY <1>1 DEF BookTypes, Filed, Asking
<1>3. CASE UNCHANGED <<bookmarks, doubled>> /\ (Bookmarks!Lost(p) \/ Bookmarks!Fails(p))
  <2>1. replaced' = replaced
    BY <1>1, <1>3 DEF Bookmarks!Write, BookTypes
  <2>2. CASE Bookmarks!Found(link) # {} /\ Bookmarks!Existed(p)
    <3>1. \E n \in Bookmarks!Listed : n.id = link
      BY <2>2 DEF Bookmarks!Found
    <3> QED
      BY <1>1, <1>3, <2>1, <2>2, <3>1, BookGoesOn DEF Bookmarks!Existed
  <2>3. CASE Bookmarks!Fails(p)
    BY <1>1, <1>3, <2>1, <2>3, BookGoesOn DEF Bookmarks!Fails
  <2> QED
    BY <1>3, <2>2, <2>3 DEF Bookmarks!Lost
<1>4. CASE bookmarks[name] = Nil /\ Bookmarks!Makes(p, name)
           /\ adding' = [Bookmarks!Raced(adding, name.id) EXCEPT ![p] = Nil] /\ kept' \in {kept, kept \cup {link}}
  <2>1. /\ bookmarks'[name] = link /\ \A n \in Bookmarks!Names \ {name} : bookmarks'[n] = bookmarks[n]
        /\ bookmarks' \in [Bookmarks!Names -> Bookmarks!Links \cup {Foreign, Nil}]
    BY <1>1, <1>2, <1>4 DEF BookTypes, Bookmarks!Makes
  <2>2. replaced' = replaced
    BY <1>1, <1>4 DEF Bookmarks!Write, BookTypes
  <2>3. Bookmarks!Listed' = Bookmarks!Listed \cup {name}
    BY <1>2, <1>4, <2>1 DEF Bookmarks!Listed, Bookmarks!BookmarkAssumption
  <2>4. doubled' = doubled
    <3> SUFFICES ASSUME NEW n \in Bookmarks!Listed, n.id.page = link.page, ~adding[p].raced PROVE FALSE
      BY <1>1, <1>4 DEF Bookmarks!Makes, Bookmarks!Of, BookTypes
    <3>1. n.id = link
      BY <1>2, Canonicals, NamesAreCanonical DEF Bookmarks!Listed
    <3> QED
      BY <1>1, <3>1 DEF Unmet
  <2>5. Listing' /\ kept' \subseteq Bookmarks!Links
    BY <1>1, <1>2, <1>4, <2>3 DEF Listing, BookTypes
  <2>6. /\ adding' \in [Processes -> Asking \cup {Nil}]
        /\ \A q \in Processes : adding'[q] # Nil =>
             /\ adding[q] # Nil /\ adding'[q].link = adding[q].link /\ adding'[q].name = adding[q].name
             /\ adding'[q].at = adding[q].at
             /\ ~adding'[q].raced => ~adding[q].raced /\ adding[q].link # name.id
    <3> DEFINE R == Bookmarks!Raced(adding, name.id)
    <3>1. /\ R \in [Processes -> Asking \cup {Nil}]
          /\ \A q \in Processes : R[q] # Nil =>
               /\ adding[q] # Nil /\ R[q].link = adding[q].link /\ R[q].name = adding[q].name
               /\ R[q].at = adding[q].at
               /\ ~R[q].raced => ~adding[q].raced /\ adding[q].link # name.id
      BY <1>1, RacedCalls DEF BookTypes
    <3> HIDE DEF R
    <3> QED
      BY <1>4, <3>1 DEF R
  <2>7. \A n \in Bookmarks!Listed' \ Bookmarks!Listed : n.id = name.id
    BY <2>3
  <2> QED
    BY <1>1, <2>1, <2>2, <2>4, <2>5, <2>6, <2>7, BookFilesStep
<1> QED
  BY <1>1, <1>2, <1>3, <1>4 DEF Bookmarks!Write, Bookmarks!WriteNew

\* What has no file any more is forgotten, so the rest is listed.
LEMMA Forgets ==
  ASSUME BookInv, Bookmarks!Forget
  PROVE  Listing' /\ kept' \subseteq Bookmarks!Links
BY DEF BookInv, BookTypes, Listing, Bookmarks!Forget, Bookmarks!Listed

\* The user or an action takes a file away, or makes it something else or another's.
LEMMA BookEditStep ==
  ASSUME Bookmarks!BookmarkAssumption, BookInv, NEW n \in Bookmarks!Names,
         NEW what \in Bookmarks!Links \cup {Nil, Foreign},
         bookmarks' = [bookmarks EXCEPT ![n] = what], Bookmarks!Forget,
         UNCHANGED <<month, asks, replaced, doubled>>,
         IF what \in Bookmarks!Links THEN adding' = Bookmarks!Raced(adding, n.id) ELSE UNCHANGED adding
  PROVE  BookInv'
<1>1. BookTypes /\ Filed /\ Listing /\ Unmet
  BY DEF BookInv
<1>2. /\ bookmarks'[n] = what /\ \A m \in Bookmarks!Names \ {n} : bookmarks'[m] = bookmarks[m]
      /\ bookmarks' \in [Bookmarks!Names -> Bookmarks!Links \cup {Foreign, Nil}]
  BY <1>1 DEF BookTypes
<1>3. Listing' /\ kept' \subseteq Bookmarks!Links
  BY Forgets
<1>4. CASE what \notin Bookmarks!Links
  <2>1. Bookmarks!Listed' \subseteq Bookmarks!Listed
    BY <1>2, <1>4 DEF Bookmarks!Listed
  <2> QED
    BY <1>1, <1>2, <1>3, <1>4, <2>1, BookFilesStep DEF BookTypes
<1>5. CASE what \in Bookmarks!Links
  <2>1. \A m \in Bookmarks!Listed' \ Bookmarks!Listed : m = n
    BY <1>2 DEF Bookmarks!Listed
  <2> QED
    BY <1>1, <1>2, <1>3, <1>5, <2>1, RacedCalls, BookFilesStep DEF BookTypes, Bookmarks!BookmarkAssumption
<1> QED
  BY <1>4, <1>5

\* The user moves a file to another month: its name keeps the hash.
LEMMA BookMoveStep ==
  ASSUME Bookmarks!BookmarkAssumption, BookInv, NEW n \in Bookmarks!Names, NEW m \in 1 .. LastMonth,
         Bookmarks!Move(n, m)
  PROVE  BookInv'
<1>1. BookTypes /\ Filed /\ Listing /\ Unmet
  BY DEF BookInv
<1> DEFINE to == [n EXCEPT !.month = m]
<1>2. to \in Bookmarks!Names /\ to.id = n.id
  BY DEF Bookmarks!Names
<1>3. /\ n \in Bookmarks!Listed /\ bookmarks[to] = Nil
      /\ bookmarks' = [bookmarks EXCEPT ![n] = Nil, ![to] = bookmarks[n]]
      /\ adding' = Bookmarks!Raced(adding, n.id) /\ UNCHANGED <<month, asks, kept, replaced, doubled>>
  BY DEF Bookmarks!Move
<1> HIDE DEF to
<1>4. to # n /\ to \notin Bookmarks!Listed
  BY <1>3 DEF Bookmarks!Listed, Bookmarks!BookmarkAssumption
<1>5. /\ bookmarks'[n] = Nil /\ bookmarks'[to] = bookmarks[n]
      /\ \A o \in Bookmarks!Names \ {n, to} : bookmarks'[o] = bookmarks[o]
      /\ bookmarks' \in [Bookmarks!Names -> Bookmarks!Links \cup {Foreign, Nil}]
  BY <1>1, <1>2, <1>3, <1>4 DEF BookTypes
<1>6. Bookmarks!Listed' = (Bookmarks!Listed \ {n}) \cup {to}
  BY <1>2, <1>3, <1>5 DEF Bookmarks!Listed, Bookmarks!BookmarkAssumption
<1>7. Listing' /\ kept' \subseteq Bookmarks!Links
  BY <1>1, <1>2, <1>3, <1>6 DEF Listing, BookTypes
<1>8. \A o \in Bookmarks!Listed' \ Bookmarks!Listed : o.id = n.id
  BY <1>2, <1>6
<1>9. /\ adding' \in [Processes -> Asking \cup {Nil}]
      /\ \A p \in Processes : adding'[p] # Nil =>
           /\ adding[p] # Nil /\ adding'[p].link = adding[p].link /\ adding'[p].name = adding[p].name
           /\ adding'[p].at = adding[p].at
           /\ ~adding'[p].raced => ~adding[p].raced /\ adding[p].link # n.id
  BY <1>1, <1>3, RacedCalls DEF BookTypes
<1> QED
  BY <1>3, <1>5, <1>7, <1>8, <1>9, BookFilesStep

LEMMA BookNext ==
  ASSUME Bookmarks!BookmarkAssumption, BookInv, [Bookmarks!Next]_(Bookmarks!vars)
  PROVE  BookInv'
<1>1. CASE UNCHANGED Bookmarks!vars
  BY <1>1 DEF Bookmarks!vars, BookInv, BookTypes, Filed, Listing, Unmet, Bookmarks!Listed, Asking
<1>2. CASE Bookmarks!NextMonth
  <2>1. UNCHANGED <<bookmarks, adding, asks, kept, replaced, doubled>> /\ month' \in 1 .. LastMonth
    BY <1>2 DEF Bookmarks!NextMonth, BookInv, BookTypes, Bookmarks!BookmarkAssumption
  <2> QED
    BY <2>1 DEF BookInv, BookTypes, Filed, Listing, Unmet, Bookmarks!Listed, Asking
<1>3. ASSUME NEW n \in Bookmarks!Names, Bookmarks!Delete(n)
      PROVE  BookInv'
  BY <1>3, BookEditStep DEF Bookmarks!Delete, Bookmarks!BookmarkAssumption
<1>4. ASSUME NEW n \in Bookmarks!Names, Bookmarks!Edit(n)
      PROVE  BookInv'
  BY <1>4, BookEditStep DEF Bookmarks!Edit, Bookmarks!BookmarkAssumption
<1> QED
  BY <1>1, <1>2, <1>3, <1>4, BookAddStep, BookLookStep, BookWriteStep, BookMoveStep DEF Bookmarks!Next

LEMMA BookPromises ==
  ASSUME BookInv
  PROVE  Bookmarks!TypeOK /\ Bookmarks!AddedIsListed /\ Bookmarks!OnePerPage
BY DEF BookInv, BookTypes, Asking, Listing, Bookmarks!TypeOK, Bookmarks!AddedIsListed, Bookmarks!OnePerPage

-----------------------------------------------------------------------------
(* LlmPlugin *)

fatal == v1
usage == v4
completing == v5
completions == v6
paid == v7
logged == v8
shorts == v9

USE DEF fatal, env, stored, usage, completing, completions, paid, logged, shorts

Records == (Processes \X Nat) \X Llm!Pieces

\* What is in the log, whole or in half, was paid for, and so is what is to be logged.
OfPaid ==
  /\ \A p \in Processes : completing[p] = "append" => Llm!Id(p) \in paid
  /\ \A i \in 1 .. Len(usage) : \A j \in 1 .. Len(usage[i]) : usage[i][j][1] \in paid

\* Of the lines that were written whole one is missing for each write that was cut short
\* but for the last, if the line that it left is still the last one: no record is on it yet.
Missed ==
  /\ IsFiniteSet(logged)
  /\ Len(usage[Len(usage)]) = 1 => usage[Len(usage)][1][2] = "half"
  /\ Cardinality(logged \ Llm!Counted) + (IF usage[Len(usage)] = <<>> THEN 0 ELSE 1) <= shorts

LlmInv == Llm!TypeOK /\ Len(usage) >= 1 /\ OfPaid /\ Missed

LEMMA LlmInit == Llm!LlmAssumption /\ Llm!Init => LlmInv
<1> SUFFICES ASSUME Llm!LlmAssumption, Llm!Init PROVE LlmInv
  OBVIOUS
<1> USE DEF Llm!LlmAssumption, Llm!Init
<1>1. usage = <<<<>>>> /\ Len(usage) = 1 /\ usage[1] = <<>>
  OBVIOUS
<1>2. usage \in Seq(Seq(Records))
  <2>1. <<>> \in Seq(Records)
    OBVIOUS
  <2> QED
    BY <1>1, <2>1
<1>3. Llm!TypeOK
  BY <1>2 DEF Llm!TypeOK, Records
<1>4. Missed
  <2>1. logged \ Llm!Counted = {} /\ logged = {}
    OBVIOUS
  <2>2. IsFiniteSet({}) /\ Cardinality({}) = 0
    BY FS_EmptySet
  <2>3. usage[Len(usage)] = <<>> /\ Len(usage[Len(usage)]) = 0 /\ shorts = 0
    BY <1>1
  <2> HIDE DEF usage, logged, shorts
  <2> QED
    BY <2>1, <2>2, <2>3 DEF Missed
<1> QED
  BY <1>1, <1>3, <1>4 DEF LlmInv, OfPaid

\* One write to the log: the last line grows, and after a whole record another begins.
LEMMA Grows ==
  ASSUME NEW S, NEW log \in Seq(Seq(S)), Len(log) >= 1, NEW piece \in S,
         NEW grown, grown = [log EXCEPT ![Len(log)] = Append(log[Len(log)], piece)]
  PROVE  /\ grown \in Seq(Seq(S)) /\ Len(grown) = Len(log)
         /\ \A i \in 1 .. Len(log) - 1 : grown[i] = log[i]
         /\ grown[Len(log)] = Append(log[Len(log)], piece)
<1> DEFINE T == Seq(S)
<1>1. log \in Seq(T) /\ Len(log) \in 1 .. Len(log) /\ log[Len(log)] \in T
  OBVIOUS
<1>2. Append(log[Len(log)], piece) \in T
  BY <1>1
<1> HIDE DEF T
<1>3. /\ grown \in Seq(T) /\ Len(grown) = Len(log)
      /\ \A j \in 1 .. Len(log) : grown[j] = IF j = Len(log) THEN Append(log[Len(log)], piece) ELSE log[j]
  BY <1>1, <1>2, ExceptSeq
<1>4. \A n \in Nat : n >= 1 => n \in 1 .. n /\ \A i \in 1 .. n - 1 : i \in 1 .. n /\ i # n
  OBVIOUS
<1>5. Len(log) \in Nat
  BY <1>1
<1>6. ASSUME NEW i \in 1 .. Len(log) - 1 PROVE grown[i] = log[i]
  <2>1. i \in 1 .. Len(log) /\ i # Len(log)
    BY <1>4, <1>5
  <2> QED
    BY <1>3, <2>1
<1>7. grown[Len(log)] = Append(log[Len(log)], piece)
  BY <1>1, <1>3
<1> QED
  BY <1>3, <1>6, <1>7 DEF T

\* A step that writes nothing to the log.
LEMMA LlmGoesOn ==
  ASSUME Llm!LlmAssumption, LlmInv, NEW p \in Processes,
         NEW place \in {Nil, "resolve", "request", "append", "answer"}, Llm!Goes(p, place),
         UNCHANGED <<fatal, env, stored, usage, logged, shorts>>,
         paid' \in {paid, paid \cup {Llm!Id(p)}},
         place = "append" => Llm!Id(p) \in paid',
         \/ UNCHANGED completions
         \/ /\ place # "append" /\ completions[p] < LlmCalls
            /\ completions' = [completions EXCEPT ![p] = @ + 1]
  PROVE  LlmInv'
<1>1. Llm!TypeOK /\ OfPaid /\ Missed /\ Len(usage) >= 1
  BY DEF LlmInv
<1>2. completions \in [Processes -> 0 .. LlmCalls] /\ LlmCalls \in Nat
  BY <1>1 DEF Llm!TypeOK, Llm!LlmAssumption
<1>3. completions' \in [Processes -> 0 .. LlmCalls]
  BY <1>2
<1>4. Llm!TypeOK'
  BY <1>1, <1>3 DEF Llm!TypeOK, Llm!Goes
<1>5. completing'[p] = place /\ \A q \in Processes \ {p} : completing'[q] = completing[q] /\ completions'[q] = completions[q]
  BY <1>1, <1>2 DEF Llm!TypeOK, Llm!Goes
<1>6. ASSUME NEW q \in Processes, completing'[q] = "append" PROVE Llm!Id(q)' \in paid'
  <2>1. CASE q = p
    <3>1. UNCHANGED completions
      BY <1>5, <1>6, <2>1
    <3> QED
      BY <1>5, <1>6, <2>1, <3>1 DEF Llm!Id
  <2>2. CASE q # p
    BY <1>1, <1>5, <1>6, <2>2 DEF OfPaid, Llm!Id
  <2> QED
    BY <2>1, <2>2
<1>7. OfPaid'
  BY <1>1, <1>6 DEF OfPaid
<1> QED
  BY <1>1, <1>4, <1>7 DEF LlmInv, Missed, Llm!Counted

LEMMA LlmLogStep ==
  ASSUME Llm!LlmAssumption, LlmInv, NEW p \in Processes, Llm!Log(p)
  PROVE  LlmInv'
<1>1. Llm!TypeOK /\ OfPaid /\ Missed /\ Len(usage) >= 1
  BY DEF LlmInv
<1>2. completing[p] = "append" /\ UNCHANGED <<fatal, env, stored, completions, paid>>
  BY DEF Llm!Log, Llm!At
<1> DEFINE c == Llm!Id(p)
<1>3. c \in paid /\ c \in Processes \X Nat
  BY <1>1, <1>2 DEF OfPaid, Llm!Id, Llm!TypeOK, Llm!LlmAssumption
<1> HIDE DEF c
<1>4. CASE Llm!NotWritten(p)
  BY <1>2, <1>4, LlmGoesOn DEF Llm!NotWritten
<1>5. usage \in Seq(Seq(Records)) /\ Len(usage) \in Nat
  BY <1>1 DEF Llm!TypeOK, Records
<1>6. ASSUME NEW what \in Llm!Pieces, Llm!Goes(p, "answer"), usage' = Llm!Written(<<c, what>>),
             shorts' \in 0 .. MaxShorts, logged' \subseteq paid,
             IF what = "whole" THEN shorts' = shorts /\ logged' = logged \cup {c}
                               ELSE shorts' = shorts + 1 /\ logged' = logged
      PROVE  LlmInv'
  <2>0. PICK n : n = Len(usage)
    OBVIOUS
  <2>1. PICK grown : grown = [usage EXCEPT ![Len(usage)] = Append(usage[Len(usage)], <<c, what>>)]
    OBVIOUS
  <2>2. usage' = IF what = "whole" THEN Append(grown, <<>>) ELSE grown
    BY <1>6, <2>1 DEF Llm!Written
  <2>3. /\ n \in Nat /\ n >= 1 /\ grown \in Seq(Seq(Records)) /\ Len(grown) = n
        /\ \A i \in 1 .. n - 1 : grown[i] = usage[i]
        /\ grown[n] = Append(usage[n], <<c, what>>)
    <3>1. <<c, what>> \in Records
      BY <1>3, <1>6 DEF Records
    <3> HIDE DEF usage
    <3>2. /\ grown \in Seq(Seq(Records)) /\ Len(grown) = Len(usage)
          /\ \A i \in 1 .. Len(usage) - 1 : grown[i] = usage[i]
          /\ grown[Len(usage)] = Append(usage[Len(usage)], <<c, what>>)
      BY <1>1, <1>5, <2>1, <3>1, Grows
    <3> QED
      BY <1>1, <1>5, <2>0, <3>2
  <2>4. Append(grown, <<>>) \in Seq(Seq(Records)) /\ Len(Append(grown, <<>>)) = n + 1
        /\ Append(grown, <<>>)[n + 1] = <<>> /\ \A i \in 1 .. n : Append(grown, <<>>)[i] = grown[i]
    <3>1. <<>> \in Seq(Records)
      OBVIOUS
    <3> QED
      BY <2>3, <3>1, AppendProperties
  <2>5. /\ usage' \in Seq(Seq(Records)) /\ Len(usage') \in {n, n + 1}
        /\ \A i \in 1 .. n : usage'[i] = grown[i]
        /\ Len(usage') = n + 1 => usage'[n + 1] = <<>>
        /\ Len(usage') = IF what = "whole" THEN n + 1 ELSE n
    BY <2>2, <2>3, <2>4
  <2>6. completing' \in [Processes -> {Nil, "resolve", "request", "append", "answer"}]
        /\ completing'[p] = "answer" /\ \A q \in Processes \ {p} : completing'[q] = completing[q]
    BY <1>1, <1>6 DEF Llm!TypeOK, Llm!Goes
  <2>7. Llm!TypeOK'
    BY <1>1, <1>2, <1>6, <2>5, <2>6 DEF Llm!TypeOK, Records
  <2>n. n \in Nat /\ n >= 1
    BY <2>3
  <2>8. ASSUME NEW i \in 1 .. n - 1 PROVE usage'[i] = usage[i] /\ i \in 1 .. n
    <3>1. i \in 1 .. n
      BY <2>n
    <3>2. grown[i] = usage[i]
      BY <2>3
    <3>3. usage'[i] = grown[i]
      BY <2>5, <3>1
    <3> QED
      BY <3>1, <3>2, <3>3
  <2>9. usage'[n] = Append(usage[n], <<c, what>>) /\ usage[n] \in Seq(Records)
    <3>1. n \in 1 .. n
      BY <2>n
    <3>2. usage[n] \in Seq(Records)
      BY <1>5, <2>0, <3>1
    <3>3. usage'[n] = grown[n]
      BY <2>5, <3>1
    <3>4. grown[n] = Append(usage[n], <<c, what>>)
      BY <2>3
    <3> QED
      BY <3>2, <3>3, <3>4
  <2>10. OfPaid'
    <3>1. \A q \in Processes : completing'[q] = "append" => Llm!Id(q)' \in paid'
      BY <1>1, <1>2, <2>6 DEF OfPaid, Llm!Id
    <3>2. ASSUME NEW i \in 1 .. Len(usage'), NEW j \in 1 .. Len(usage'[i]) PROVE usage'[i][j][1] \in paid
      <4>1. CASE i \in 1 .. n - 1
        <5>1. usage'[i] = usage[i] /\ i \in 1 .. Len(usage)
          BY <2>0, <2>8, <4>1
        <5> QED
          BY <1>1, <3>2, <5>1 DEF OfPaid
      <4>2. CASE i = n
        <5>1. usage'[i] = Append(usage[n], <<c, what>>) /\ n \in 1 .. Len(usage)
          BY <2>0, <2>3, <2>9, <4>2
        <5>2. CASE j = Len(usage[n]) + 1
          BY <1>3, <2>9, <5>1, <5>2
        <5>3. CASE j \in 1 .. Len(usage[n])
          <6>1. usage[n][j][1] \in paid
            BY <1>1, <5>1, <5>3 DEF OfPaid
          <6> QED
            BY <2>9, <5>1, <5>3, <6>1
        <5> QED
          BY <2>9, <3>2, <5>1, <5>2, <5>3
      <4>3. CASE i = n + 1
        BY <2>3, <2>5, <3>2, <4>3
      <4> QED
        BY <2>3, <2>5, <4>1, <4>2, <4>3
    <3> QED
      BY <1>2, <3>1, <3>2 DEF OfPaid
  <2>11. Missed'
    <3>1. /\ IsFiniteSet(logged) /\ (Len(usage[n]) = 1 => usage[n][1][2] = "half")
          /\ Cardinality(logged \ Llm!Counted) + (IF usage[n] = <<>> THEN 0 ELSE 1) <= shorts
      BY <1>1, <2>0 DEF Missed
    <3>2. Llm!Counted \subseteq Llm!Counted'
      <4> SUFFICES ASSUME NEW i \in 1 .. n, Len(usage[i]) = 1, usage[i][1][2] # "half"
                   PROVE  usage[i][1][1] \in Llm!Counted'
        BY <1>5, <2>0 DEF Llm!Counted
      <4>1. i \in 1 .. n - 1
        BY <2>n, <3>1
      <4>2. usage'[i] = usage[i] /\ i \in DOMAIN usage'
        BY <2>5, <2>8, <2>n, <4>1
      <4> QED
        BY <4>2 DEF Llm!Counted
    <3>3. IsFiniteSet(logged') /\ shorts \in Nat
      <4>1. IsFiniteSet(logged \cup {c})
        BY <3>1, FS_AddElement
      <4>2. IsFiniteSet(logged')
        BY <1>6, <3>1, <4>1
      <4>3. shorts \in Nat
        BY <1>1 DEF Llm!TypeOK, Llm!LlmAssumption
      <4> QED
        BY <4>2, <4>3
    <3> DEFINE lost == logged \ Llm!Counted
    <3>4. IsFiniteSet(lost) /\ Cardinality(lost) \in Nat
      BY <3>1, FS_Subset, FS_CardinalityType
    <3>5. CASE what = "half"
      <4>1. Len(usage') = n /\ usage'[n] = Append(usage[n], <<c, "half">>) /\ usage[n] \in Seq(Records)
        BY <2>5, <2>9, <3>5
      <4>2. Len(usage'[n]) = Len(usage[n]) + 1 /\ usage'[n] # <<>> /\ usage'[n][Len(usage[n]) + 1] = <<c, "half">>
        BY <4>1
      <4>3. Len(usage'[n]) = 1 => usage'[n][1][2] = "half"
        BY <4>1, <4>2
      <4>4. logged' \ Llm!Counted' \subseteq lost
        BY <1>6, <3>2, <3>5
      <4>5. Cardinality(logged' \ Llm!Counted') <= Cardinality(lost) /\ Cardinality(logged' \ Llm!Counted') \in Nat
        BY <3>4, <4>4, FS_Subset, FS_CardinalityType
      <4>6. shorts' = shorts + 1 /\ Cardinality(lost) <= shorts
        BY <1>6, <3>1, <3>3, <3>4, <3>5
      <4> HIDE DEF lost
      <4>7. Cardinality(logged' \ Llm!Counted') + 1 <= shorts'
        BY <3>3, <3>4, <4>5, <4>6
      <4> QED
        BY <3>3, <4>1, <4>2, <4>3, <4>7 DEF Missed
    <3>6. CASE what = "whole"
      <4>1. /\ Len(usage') = n + 1 /\ usage'[n + 1] = <<>>
            /\ usage'[n] = Append(usage[n], <<c, "whole">>) /\ usage[n] \in Seq(Records)
        BY <2>5, <2>9, <3>6
      <4>2. logged' = logged \cup {c} /\ shorts' = shorts
        BY <1>6, <3>6
      <4>3. ASSUME usage[n] = <<>> PROVE Cardinality(logged' \ Llm!Counted') <= shorts'
        <5>1. Len(usage'[n]) = 1 /\ usage'[n][1] = <<c, "whole">> /\ n \in DOMAIN usage'
          BY <2>n, <2>5, <4>1, <4>3
        <5>2. c \in Llm!Counted'
          BY <5>1 DEF Llm!Counted
        <5>3. logged' \ Llm!Counted' \subseteq lost
          BY <3>2, <4>2, <5>2
        <5>4. Cardinality(logged' \ Llm!Counted') <= Cardinality(lost) /\ Cardinality(logged' \ Llm!Counted') \in Nat
          BY <3>4, <5>3, FS_Subset, FS_CardinalityType
        <5>5. Cardinality(lost) <= shorts
          BY <3>1, <3>4, <4>3
        <5> QED
          BY <3>3, <3>4, <4>1, <4>2, <5>4, <5>5
      <4>4. ASSUME usage[n] # <<>> PROVE Cardinality(logged' \ Llm!Counted') <= shorts'
        <5>1. logged' \ Llm!Counted' \subseteq lost \cup {c}
          BY <3>2, <4>2
        <5>2. /\ IsFiniteSet(lost \cup {c})
              /\ Cardinality(lost \cup {c}) = Cardinality(lost) \/ Cardinality(lost \cup {c}) = Cardinality(lost) + 1
          BY <3>4, FS_AddElement
        <5>3. /\ Cardinality(logged' \ Llm!Counted') <= Cardinality(lost \cup {c})
              /\ Cardinality(logged' \ Llm!Counted') \in Nat
          BY <5>1, <5>2, FS_Subset, FS_CardinalityType
        <5>4. Cardinality(lost) + 1 <= shorts
          BY <3>1, <4>4
        <5> QED
          BY <3>3, <3>4, <4>1, <4>2, <5>2, <5>3, <5>4
      <4>5. Cardinality(logged' \ Llm!Counted') <= shorts' /\ Cardinality(logged' \ Llm!Counted') \in Nat
        <5>1. IsFiniteSet(logged' \ Llm!Counted')
          BY <3>3, FS_Subset
        <5> HIDE DEF lost
        <5>2. Cardinality(logged' \ Llm!Counted') \in Nat
          BY <5>1, FS_CardinalityType
        <5> QED
          BY <4>2, <4>3, <4>4, <5>2
      <4>6. usage'[Len(usage')] = <<>> /\ Len(usage'[Len(usage')]) = 0 /\ shorts' \in Nat
        BY <3>3, <4>1, <4>2
      <4> QED
        BY <3>3, <4>5, <4>6 DEF Missed
    <3> QED
      BY <3>5, <3>6 DEF Llm!Pieces
  <2>12. Len(usage') >= 1
    BY <2>3, <2>5
  <2> QED
    BY <2>7, <2>10, <2>11, <2>12 DEF LlmInv
<1>7. CASE Llm!Append_(p)
  BY <1>1, <1>3, <1>6, <1>7 DEF Llm!Append_, Llm!Pieces, Llm!TypeOK, c
<1>8. CASE Llm!ShortWrite(p)
  BY <1>1, <1>6, <1>8 DEF Llm!ShortWrite, Llm!Pieces, Llm!TypeOK, Llm!LlmAssumption, c
<1> QED
  BY <1>4, <1>7, <1>8 DEF Llm!Log

LEMMA LlmNext ==
  ASSUME Llm!LlmAssumption, LlmInv, [Llm!Next]_(Llm!vars)
  PROVE  LlmInv'
<1>1. CASE UNCHANGED Llm!vars
  BY <1>1 DEF Llm!vars, LlmInv, Llm!TypeOK, OfPaid, Missed, Llm!Counted, Llm!Id
<1>2. CASE Llm!Auth \/ Llm!Revoke
  <2>1. UNCHANGED <<fatal, env, usage, completing, completions, paid, logged, shorts>> /\ stored' \in {"good", "revoked"}
    BY <1>2 DEF Llm!Auth, Llm!Revoke
  <2> QED
    BY <2>1 DEF LlmInv, Llm!TypeOK, OfPaid, Missed, Llm!Counted, Llm!Id
<1>3. ASSUME NEW p \in Processes, Llm!Complete(p) PROVE LlmInv'
  <2>1. PICK place \in {"answer", "resolve"} : Llm!Goes(p, place)
    BY <1>3 DEF Llm!Complete
  <2>2. /\ completions[p] < LlmCalls /\ completions' = [completions EXCEPT ![p] = @ + 1]
        /\ UNCHANGED <<fatal, env, stored, usage, paid, logged, shorts>>
    BY <1>3 DEF Llm!Complete
  <2>3. place \in {Nil, "resolve", "request", "append", "answer"} /\ place # "append"
    BY <2>1
  <2>4. paid' \in {paid, paid \cup {Llm!Id(p)}}
    BY <2>2
  <2>5. place = "append" => Llm!Id(p) \in paid'
    BY <2>3
  <2>6. /\ place # "append" /\ completions[p] < LlmCalls
        /\ completions' = [completions EXCEPT ![p] = @ + 1]
    BY <2>2, <2>3
  <2> HIDE DEF fatal, env, stored, usage, completing, completions, paid, logged, shorts
  <2> QED
    BY <2>1, <2>2, <2>3, <2>4, <2>5, <2>6, LlmGoesOn
<1>4. ASSUME NEW p \in Processes, Llm!Resolve(p) \/ Llm!Answer(p) \/ Llm!Kill(p) PROVE LlmInv'
  <2>1. PICK place \in {Nil, "request", "answer"} : Llm!Goes(p, place)
    BY <1>4 DEF Llm!Resolve, Llm!Answer, Llm!Kill
  <2>2. UNCHANGED <<fatal, env, stored, usage, completions, paid, logged, shorts>>
    BY <1>4 DEF Llm!Resolve, Llm!Answer, Llm!Kill
  <2>3. place # "append" \/ Llm!Id(p) \in paid'
    <3>1. Nil # "append"
      BY DEF Llm!LlmAssumption
    <3> QED
      BY <3>1
  <2>4. place \in {Nil, "resolve", "request", "append", "answer"} /\ paid' \in {paid, paid \cup {Llm!Id(p)}}
    BY <2>2
  <2> QED
    BY <2>1, <2>2, <2>3, <2>4, LlmGoesOn
<1>5. ASSUME NEW p \in Processes, Llm!Request(p) PROVE LlmInv'
  BY <1>5, LlmGoesOn DEF Llm!Request
<1> QED
  BY <1>1, <1>2, <1>3, <1>4, <1>5, LlmLogStep DEF Llm!Next

LEMMA LlmPromises ==
  ASSUME LlmInv
  PROVE  Llm!TypeOK /\ Llm!UsageIsTrue
<1>1. Llm!TypeOK /\ OfPaid /\ Missed
  BY DEF LlmInv
<1>2. usage \in Seq(Seq(Records)) /\ DOMAIN usage = 1 .. Len(usage)
  BY <1>1 DEF Llm!TypeOK, Records
<1>3. Llm!Counted \subseteq paid
  <2> SUFFICES ASSUME NEW i \in 1 .. Len(usage), Len(usage[i]) = 1 PROVE usage[i][1][1] \in paid
    BY <1>2 DEF Llm!Counted
  <2> QED
    BY <1>1 DEF OfPaid
<1>4. Cardinality(logged \ Llm!Counted) <= shorts
  <2>1. IsFiniteSet(logged \ Llm!Counted)
    BY <1>1, FS_Subset DEF Missed
  <2>2. Cardinality(logged \ Llm!Counted) \in Nat /\ shorts \in Nat
    BY <1>1, <2>1, FS_CardinalityType DEF Llm!TypeOK
  <2> QED
    BY <1>1, <2>2 DEF Missed
<1>5. Llm!Cardinality(logged \ Llm!Counted) = Cardinality(logged \ Llm!Counted)
  BY DEF Llm!Cardinality, Cardinality
<1> QED
  BY <1>1, <1>3, <1>4, <1>5 DEF Llm!UsageIsTrue

\* A set of naturals that is not empty has a least element.
LEMMA LeastNatural ==
  ASSUME NEW T \in SUBSET Nat, T # {}
  PROVE  \E x \in T : \A y \in T : x <= y
<1>1. PICK x \in T : \A y \in T : ~ (<<y, x>> \in OpToRel(<, Nat))
  BY NatLessThanWellFounded, WFMin
<1>2. \A y \in T : ~ (y < x)
  BY <1>1 DEF OpToRel
<1> QED BY <1>2

-----------------------------------------------------------------------------
(* JiraPlugin *)

tickets == v1
earlier == v2
comments == v3
account == v4
identity == v5
snapshots == v6
firedComments == v7
told == v8
baseline == v9
shown == v10
announced == v11
statuses == v12
edits == v13

USE DEF tickets, earlier, comments, account, identity, snapshots, firedComments, told, baseline, shown,
        announced, statuses, edits

\* No comment is known that was not made, and those that a change added are the latest.
Written ==
  /\ \A t \in Tickets : /\ tickets[t].comments \subseteq 1 .. comments /\ earlier[t].comments \subseteq 1 .. comments
                        /\ shown[t] \subseteq 1 .. comments
                        /\ snapshots[t] # Nil => snapshots[t].water <= comments
  /\ firedComments \subseteq 1 .. comments

Latest ==
  \A t \in Tickets : \A c \in tickets[t].comments \ earlier[t].comments : \A d \in earlier[t].comments : d < c

\* What is remembered as published was, and what was is remembered while nothing is dropped.
Remembers ==
  /\ \A c \in firedComments : announced[c] > 0
  /\ comments <= Cap => \A c \in Jira!Comments : announced[c] <= 1 /\ (announced[c] > 0 => c \in firedComments)

\* A comment below the watermark or shown, that is still there and later than those of
\* the first sight, was published.
Aware ==
  comments <= Inline => \A t \in Tickets : snapshots[t] # Nil => \A c \in tickets[t].comments :
    c > baseline[t] /\ (c <= snapshots[t].water \/ c \in shown[t]) => announced[c] > 0

JiraInv == Jira!TypeOK /\ Written /\ Latest /\ Remembers /\ Aware /\ Jira!MineIsAnnounced

LEMMA JiraInit == Jira!JiraAssumption /\ Jira!Init => JiraInv
<1> SUFFICES ASSUME Jira!JiraAssumption, Jira!Init PROVE JiraInv
  OBVIOUS
<1>1. MaxComments \in Nat /\ TicketChanges \in Nat
  BY DEF Jira!JiraAssumption
<1>2. /\ tickets \in [Tickets -> [status : TicketStates, assignee : Accounts \cup {Nil}, comments : {{}}, recent : BOOLEAN]]
      /\ earlier = tickets /\ comments = 0 /\ account \in Accounts \cup {Nil} /\ identity = Nil
      /\ snapshots = [t \in Tickets |-> Nil] /\ firedComments = {}
      /\ told = [t \in Tickets |-> Nil] /\ baseline = [t \in Tickets |-> 0]
      /\ shown = [t \in Tickets |-> {}] /\ announced = [c \in Jira!Comments |-> 0]
      /\ statuses = [t \in Tickets |-> Nil] /\ edits = 0
  BY DEF Jira!Init
<1>3. \A t \in Tickets : tickets[t] \in Jira!Issues /\ tickets[t].comments = {}
  BY <1>2 DEF Jira!Issues
<1>4. tickets \in [Tickets -> Jira!Issues]
  BY <1>2, <1>3
<1>5. 0 \in 0 .. MaxComments /\ 0 \in 0 .. TicketChanges
  BY <1>1
<1>6. Jira!TypeOK
  BY <1>2, <1>4, <1>5 DEF Jira!TypeOK
<1> QED
  BY <1>2, <1>3, <1>6 DEF JiraInv, Written, Latest, Remembers, Aware, Jira!MineIsAnnounced

\* The instance counts as the library does.
LEMMA JiraCounts ==
  ASSUME NEW S
  PROVE  Jira!Cardinality(S) = Cardinality(S)
BY DEF Jira!Cardinality, Cardinality, Jira!IsFiniteSet, IsFiniteSet

\* The latest of some comments is one of them, and none is later.
LEMMA LatestIsLatest ==
  ASSUME NEW n \in Nat, NEW some \in SUBSET (1 .. n)
  PROVE  /\ Jira!LatestOf(some) \in 0 .. n
         /\ \A c \in some : c <= Jira!LatestOf(some)
         /\ some # {} => Jira!LatestOf(some) \in some
<1>1. CASE some = {}
  BY <1>1 DEF Jira!LatestOf
<1>2. CASE some # {}
  <2> DEFINE below == {k \in 0 .. n : n - k \in some}
  <2>1. below \in SUBSET Nat
    OBVIOUS
  <2>2. below # {}
    <3>1. PICK x \in some : TRUE
      BY <1>2
    <3>2. n - x \in 0 .. n /\ n - (n - x) = x
      OBVIOUS
    <3> QED BY <3>1, <3>2
  <2>3. PICK k \in below : \A j \in below : k <= j
    BY <2>1, <2>2, LeastNatural
  <2>4. ASSUME NEW y \in some PROVE n - k >= y
    <3>1. n - y \in 0 .. n /\ n - (n - y) = y
      OBVIOUS
    <3>2. k <= n - y
      BY <2>3, <3>1
    <3> QED BY <3>2
  <2>5. n - k \in some
    OBVIOUS
  <2>6. Jira!LatestOf(some) \in some /\ \A c \in some : Jira!LatestOf(some) >= c
    BY <1>2, <2>4, <2>5 DEF Jira!LatestOf, Jira!Max
  <2> HIDE DEF below
  <2>7. PICK latest : latest = Jira!LatestOf(some)
    OBVIOUS
  <2>8. latest \in 1 .. n /\ \A c \in some : c \in 1 .. n /\ latest >= c
    BY <2>6, <2>7
  <2>9. latest \in 0 .. n /\ \A c \in some : c <= latest
    BY <2>8
  <2> QED
    BY <2>6, <2>7, <2>9
<1> QED
  BY <1>1, <1>2

\* As many comments as a search carries, it shows all.
LEMMA AllAreShown ==
  ASSUME NEW n \in Nat, Inline \in Nat, n <= Inline, NEW i, i.comments \subseteq 1 .. n
  PROVE  Jira!Shown(i) = i.comments
<1> SUFFICES ASSUME NEW c \in i.comments PROVE Jira!Cardinality({d \in i.comments : d > c}) < Inline
  BY DEF Jira!Shown
<1>1. IsFiniteSet(2 .. n) /\ Cardinality(2 .. n) = IF 2 > n THEN 0 ELSE n - 2 + 1
  <2>1. 2 \in Int /\ n \in Int
    OBVIOUS
  <2> QED
    BY <2>1, FS_Interval
<1>2. {d \in i.comments : d > c} \in SUBSET (2 .. n)
  OBVIOUS
<1>3. Cardinality({d \in i.comments : d > c}) <= Cardinality(2 .. n)
  BY <1>1, <1>2, FS_Subset
<1>4. IsFiniteSet({d \in i.comments : d > c})
  BY <1>1, <1>2, FS_Subset
<1>5. Cardinality({d \in i.comments : d > c}) \in Nat
  BY <1>4, FS_CardinalityType
<1>6. n >= 1
  OBVIOUS
<1> QED
  BY <1>1, <1>3, <1>5, <1>6, JiraCounts

\* A search that answers, without which tickets it found.
News(at, found) == UNION {Jira!NewComments(at[t], Jira!Kept[t]) : t \in found}
Answers(at, found) ==
  /\ identity' = account
  /\ snapshots' = [t \in Tickets |->
       IF t \in found THEN IF Jira!Kept[t] = Nil THEN Jira!First(at[t]) ELSE Jira!Again(at[t], Jira!Kept[t])
       ELSE IF found = {u \in Tickets : at[u].recent} THEN Nil ELSE Jira!Kept[t]]
  /\ firedComments' = IF Jira!Cardinality(firedComments \cup News(at, found)) > Cap THEN {} ELSE firedComments \cup News(at, found)
  /\ announced' = [c \in Jira!Comments |-> announced[c] + (IF c \in News(at, found) THEN 1 ELSE 0)]
  /\ told' = [t \in Tickets |->
       IF t \notin found THEN told[t]
       ELSE IF Jira!Assigns(at[t], Jira!Kept[t]) THEN account
       ELSE IF at[t].assignee # account THEN Nil ELSE told[t]]
  /\ baseline' = [t \in Tickets |->
       IF t \in found /\ Jira!Kept[t] = Nil THEN Jira!LatestOf(Jira!Shown(at[t])) ELSE baseline[t]]
  /\ shown' = [t \in Tickets |->
       IF t \notin found THEN shown[t]
       ELSE IF Jira!Kept[t] = Nil THEN Jira!Shown(at[t]) ELSE shown[t] \cup Jira!Shown(at[t])]
  /\ statuses' = [t \in Tickets |-> IF t \in found THEN at[t].status ELSE statuses[t]]

\* A tick is a search that answers with each ticket as it is or as it was.
LEMMA TickAnswers ==
  ASSUME Jira!Tick
  PROVE  /\ account # Nil /\ UNCHANGED <<tickets, earlier, comments, account, edits>>
         /\ \E v \in [Tickets -> BOOLEAN], found \in SUBSET Tickets :
              Answers([t \in Tickets |-> IF v[t] THEN tickets[t] ELSE earlier[t]], found)
<1>1. account # Nil /\ UNCHANGED <<tickets, earlier, comments, account, edits>>
  BY DEF Jira!Tick, Jira!jira
<1>2. \E v \in [Tickets -> BOOLEAN] :
        LET at == [t \in Tickets |-> IF v[t] THEN tickets[t] ELSE earlier[t]]
            listed == {t \in Tickets : at[t].recent}
        IN \E found \in {f \in SUBSET listed : Jira!Cardinality(f) = Jira!Min({MaxPages, Jira!Cardinality(listed)})} :
             Answers(at, found)
  BY DEF Jira!Tick, Answers, News
<1> QED
  BY <1>1, <1>2

\* What a search shows of a ticket, as it is or as it was.
LEMMA AnswerFacts ==
  ASSUME Jira!JiraAssumption, JiraInv, NEW i \in Jira!Issues, i.comments \subseteq 1 .. comments
  PROVE  /\ comments \in Nat /\ comments <= MaxComments /\ Jira!Shown(i) \subseteq i.comments
         /\ Jira!LatestOf(Jira!Shown(i)) \in 0 .. comments
         /\ \A c \in Jira!Shown(i) : c <= Jira!LatestOf(Jira!Shown(i))
         /\ Jira!Shown(i) # {} => Jira!LatestOf(Jira!Shown(i)) \in Jira!Shown(i)
         /\ comments <= Inline => Jira!Shown(i) = i.comments
<1>1. comments \in Nat /\ comments <= MaxComments /\ Inline \in Nat
  BY DEF JiraInv, Jira!TypeOK, Jira!JiraAssumption
<1>2. Jira!Shown(i) \subseteq i.comments
  BY DEF Jira!Shown
<1> QED
  BY <1>1, <1>2, LatestIsLatest, AllAreShown

\* What the next snapshot of a ticket is.
LEMMA SnapshotFacts ==
  ASSUME NEW i \in Jira!Issues, NEW s \in Jira!Snapshots, NEW n \in Nat, n <= MaxComments, MaxComments \in Nat,
         Jira!LatestOf(Jira!Shown(i)) \in 0 .. n, s.water \in 0 .. n
  PROVE  /\ Jira!First(i) \in Jira!Snapshots /\ Jira!First(i).water = Jira!LatestOf(Jira!Shown(i))
         /\ Jira!First(i).assignee = i.assignee
         /\ Jira!Again(i, s) \in Jira!Snapshots /\ Jira!Again(i, s).water \in 0 .. n
         /\ Jira!Again(i, s).water = IF Jira!Shown(i) = {} THEN s.water ELSE Jira!LatestOf(Jira!Shown(i))
         /\ Jira!Again(i, s).assignee = i.assignee
<1>1. i.status \in TicketStates /\ i.assignee \in Accounts \cup {Nil}
  BY DEF Jira!Issues
<1>2. PICK latest \in 0 .. n : latest = Jira!LatestOf(Jira!Shown(i))
  OBVIOUS
<1>3. PICK water \in 0 .. n : water = IF Jira!Shown(i) = {} THEN s.water ELSE Jira!LatestOf(Jira!Shown(i))
  OBVIOUS
<1>4. Jira!First(i) = [status |-> i.status, assignee |-> i.assignee, water |-> latest]
  BY <1>2 DEF Jira!First
<1>5. Jira!Again(i, s) = [status |-> i.status, assignee |-> i.assignee, water |-> water]
  BY <1>3 DEF Jira!Again
<1>6. latest \in 0 .. MaxComments /\ water \in 0 .. MaxComments
  OBVIOUS
<1> QED
  BY <1>1, <1>2, <1>3, <1>4, <1>5, <1>6 DEF Jira!Snapshots

LEMMA JiraTickStep ==
  ASSUME Jira!JiraAssumption, JiraInv, Jira!Tick
  PROVE  JiraInv'
<1>1. Jira!TypeOK /\ Written /\ Latest /\ Remembers /\ Aware /\ Jira!MineIsAnnounced
  BY DEF JiraInv
<1>2. account # Nil /\ UNCHANGED <<tickets, earlier, comments, account, edits>>
  BY TickAnswers
<1>3. PICK v \in [Tickets -> BOOLEAN], found \in SUBSET Tickets :
        Answers([t \in Tickets |-> IF v[t] THEN tickets[t] ELSE earlier[t]], found)
  BY TickAnswers
<1>4. PICK at : at = [t \in Tickets |-> IF v[t] THEN tickets[t] ELSE earlier[t]]
  OBVIOUS
<1>5. Answers(at, found)
  BY <1>3, <1>4
<1>6. \A t \in Tickets : at[t] \in {tickets[t], earlier[t]}
  BY <1>4
<1>7. /\ tickets \in [Tickets -> Jira!Issues] /\ earlier \in [Tickets -> Jira!Issues]
      /\ comments \in Nat /\ comments <= MaxComments /\ MaxComments \in Nat
      /\ \A t \in Tickets : snapshots[t] \in Jira!Snapshots \cup {Nil}
  BY <1>1 DEF Jira!TypeOK, Jira!JiraAssumption
<1>8. \A t \in Tickets : at[t] \in Jira!Issues /\ at[t].comments \subseteq 1 .. comments
  BY <1>1, <1>6, <1>7 DEF Written
<1>9. \A t \in Tickets : /\ Jira!Shown(at[t]) \subseteq at[t].comments
                         /\ Jira!LatestOf(Jira!Shown(at[t])) \in 0 .. comments
                         /\ \A c \in Jira!Shown(at[t]) : c <= Jira!LatestOf(Jira!Shown(at[t]))
                         /\ Jira!Shown(at[t]) # {} => Jira!LatestOf(Jira!Shown(at[t])) \in Jira!Shown(at[t])
                         /\ comments <= Inline => Jira!Shown(at[t]) = at[t].comments
  BY <1>8, AnswerFacts
<1>10. \A t \in Tickets : /\ Jira!Kept[t] \in {Nil, snapshots[t]}
                          /\ Jira!Kept[t] # Nil => identity = account /\ snapshots[t] # Nil /\ Jira!Kept[t] = snapshots[t]
  BY DEF Jira!Kept
<1>11. \A c \in News(at, found) : c \in 1 .. comments /\ c \in Jira!Comments /\ c \notin firedComments
  <2> SUFFICES ASSUME NEW t \in found, NEW c \in Jira!NewComments(at[t], Jira!Kept[t])
               PROVE  c \in 1 .. comments /\ c \in Jira!Comments /\ c \notin firedComments
    BY DEF News
  <2>1. c \in Jira!Shown(at[t]) /\ c \notin firedComments
    BY DEF Jira!NewComments, Jira!IsNew
  <2>2. c \in 1 .. comments
    BY <1>8, <1>9, <2>1
  <2> QED
    BY <1>7, <2>1, <2>2 DEF Jira!Comments
<1>12. \A t \in found : \A c \in Jira!Shown(at[t]) :
         Jira!Kept[t] # Nil /\ c > snapshots[t].water => c \in firedComments \/ c \in News(at, found)
  BY <1>10 DEF News, Jira!NewComments, Jira!IsNew
<1>13. /\ announced \in [Jira!Comments -> Nat] /\ announced' \in [Jira!Comments -> Nat]
       /\ \A c \in Jira!Comments : announced'[c] = announced[c] + (IF c \in News(at, found) THEN 1 ELSE 0)
  <2>1. announced \in [Jira!Comments -> Nat]
    BY <1>1 DEF Jira!TypeOK
  <2>2. announced' = [c \in Jira!Comments |-> announced[c] + (IF c \in News(at, found) THEN 1 ELSE 0)]
    BY <1>5 DEF Answers
  <2> QED
    BY <2>1, <2>2
<1>14. \A c \in 1 .. comments : c \in Jira!Comments
  BY <1>7 DEF Jira!Comments
<1>15. ASSUME NEW t \in found, Jira!Kept[t] = Nil
       PROVE  /\ snapshots'[t] = Jira!First(at[t]) /\ baseline'[t] = Jira!LatestOf(Jira!Shown(at[t]))
              /\ shown'[t] = Jira!Shown(at[t])
  BY <1>5, <1>15 DEF Answers
<1>16. ASSUME NEW t \in found, Jira!Kept[t] # Nil
       PROVE  /\ snapshots'[t] = Jira!Again(at[t], snapshots[t]) /\ baseline'[t] = baseline[t]
              /\ shown'[t] = shown[t] \cup Jira!Shown(at[t])
  BY <1>5, <1>10, <1>16 DEF Answers
<1>17. ASSUME NEW t \in Tickets \ found
       PROVE  /\ snapshots'[t] \in {Nil, Jira!Kept[t]} /\ baseline'[t] = baseline[t] /\ shown'[t] = shown[t]
  BY <1>5 DEF Answers
<1>18. \A t \in Tickets : snapshots[t] # Nil => snapshots[t] \in Jira!Snapshots /\ snapshots[t].water \in 0 .. comments
  BY <1>1, <1>7 DEF Written, Jira!Snapshots
<1>19. ASSUME NEW t \in found
       PROVE  /\ snapshots'[t] \in Jira!Snapshots /\ snapshots'[t].water \in 0 .. comments
              /\ snapshots'[t].assignee = at[t].assignee
              /\ Jira!Kept[t] = Nil => snapshots'[t].water = Jira!LatestOf(Jira!Shown(at[t]))
              /\ Jira!Kept[t] # Nil => snapshots'[t].water =
                   IF Jira!Shown(at[t]) = {} THEN snapshots[t].water ELSE Jira!LatestOf(Jira!Shown(at[t]))
  <2>1. Jira!LatestOf(Jira!Shown(at[t])) \in 0 .. comments /\ at[t] \in Jira!Issues
    BY <1>8, <1>9
  <2>2. CASE Jira!Kept[t] = Nil
    <3>1. PICK s \in Jira!Snapshots : s.water = 0
      <4>1. [status |-> at[t].status, assignee |-> at[t].assignee, water |-> 0] \in Jira!Snapshots
        BY <1>7, <2>1 DEF Jira!Snapshots, Jira!Issues
      <4> QED
        BY <4>1
    <3>2. s.water \in 0 .. comments
      BY <1>7, <3>1
    <3> QED
      BY <1>7, <1>15, <2>1, <2>2, <3>2, SnapshotFacts
  <2>3. CASE Jira!Kept[t] # Nil
    <3>1. snapshots[t] \in Jira!Snapshots /\ snapshots[t].water \in 0 .. comments
      BY <1>10, <1>18, <2>3
    <3> QED
      BY <1>7, <1>16, <2>1, <2>3, <3>1, SnapshotFacts
  <2> QED
    BY <2>2, <2>3
<1>20. \A t \in Tickets : snapshots'[t] # Nil => snapshots'[t] \in Jira!Snapshots /\ snapshots'[t].water \in 0 .. comments
  BY <1>10, <1>17, <1>18, <1>19
<1>21. Jira!TypeOK'
  <2>1. snapshots' \in [Tickets -> Jira!Snapshots \cup {Nil}]
    BY <1>5, <1>20 DEF Answers
  <2>2. firedComments' \subseteq Jira!Comments
    BY <1>1, <1>5, <1>11 DEF Answers, Jira!TypeOK
  <2>3. told' \in [Tickets -> Accounts \cup {Nil}] /\ {account, identity'} \subseteq Accounts \cup {Nil}
    BY <1>1, <1>5 DEF Answers, Jira!TypeOK
  <2>4. baseline' \in [Tickets -> 0 .. MaxComments]
    <3>1. \A t \in Tickets : baseline[t] \in 0 .. MaxComments /\ Jira!LatestOf(Jira!Shown(at[t])) \in 0 .. MaxComments
      BY <1>1, <1>7, <1>9 DEF Jira!TypeOK
    <3>2. baseline' = [t \in Tickets |->
            IF t \in found /\ Jira!Kept[t] = Nil THEN Jira!LatestOf(Jira!Shown(at[t])) ELSE baseline[t]]
      BY <1>5 DEF Answers
    <3> QED
      BY <3>1, <3>2
  <2>5. shown' \in [Tickets -> SUBSET Jira!Comments]
    <3>1. \A t \in Tickets : shown[t] \subseteq Jira!Comments /\ Jira!Shown(at[t]) \subseteq Jira!Comments
      BY <1>1, <1>8, <1>9, <1>14 DEF Jira!TypeOK
    <3>2. shown' = [t \in Tickets |->
            IF t \notin found THEN shown[t]
            ELSE IF Jira!Kept[t] = Nil THEN Jira!Shown(at[t]) ELSE shown[t] \cup Jira!Shown(at[t])]
      BY <1>5 DEF Answers
    <3> QED
      BY <3>1, <3>2
  <2>6. statuses' \in [Tickets -> TicketStates \cup {Nil}]
    <3>1. \A t \in Tickets : at[t].status \in TicketStates /\ statuses[t] \in TicketStates \cup {Nil}
      BY <1>1, <1>8 DEF Jira!TypeOK, Jira!Issues
    <3>2. statuses' = [t \in Tickets |-> IF t \in found THEN at[t].status ELSE statuses[t]]
      BY <1>5 DEF Answers
    <3> QED
      BY <3>1, <3>2
  <2> QED
    BY <1>1, <1>2, <1>13, <2>1, <2>2, <2>3, <2>4, <2>5, <2>6 DEF Jira!TypeOK
<1>22. Written'
  <2>1. firedComments' \subseteq 1 .. comments
    BY <1>1, <1>5, <1>11 DEF Answers, Written
  <2>2. ASSUME NEW t \in Tickets PROVE shown'[t] \subseteq 1 .. comments
    <3>1. shown[t] \subseteq 1 .. comments /\ Jira!Shown(at[t]) \subseteq 1 .. comments
      BY <1>1, <1>8, <1>9 DEF Written
    <3> QED
      BY <1>15, <1>16, <1>17, <3>1
  <2>3. ASSUME NEW t \in Tickets PROVE snapshots'[t] # Nil => snapshots'[t].water <= comments
    BY <1>7, <1>20
  <2>4. \A t \in Tickets : tickets'[t].comments \subseteq 1 .. comments /\ earlier'[t].comments \subseteq 1 .. comments
    BY <1>1, <1>2 DEF Written
  <2> QED
    BY <1>2, <2>1, <2>2, <2>3, <2>4 DEF Written
<1>23. Latest'
  BY <1>1, <1>2 DEF Latest
<1>24. Remembers'
  <2>1. firedComments' \subseteq firedComments \cup News(at, found)
    BY <1>5 DEF Answers
  <2>2. ASSUME NEW c \in firedComments' PROVE announced'[c] > 0
    <3>1. c \in Jira!Comments /\ announced[c] \in Nat
      BY <1>1, <1>11, <1>13, <2>1 DEF Jira!TypeOK
    <3>2. c \in firedComments => announced[c] > 0
      BY <1>1 DEF Remembers
    <3>3. announced'[c] = announced[c] + (IF c \in News(at, found) THEN 1 ELSE 0)
      BY <1>13, <3>1
    <3> QED
      BY <2>1, <3>1, <3>2, <3>3
  <2>3. ASSUME comments <= Cap PROVE firedComments' = firedComments \cup News(at, found)
    <3> DEFINE all == firedComments \cup News(at, found)
    <3>1. all \in SUBSET (1 .. comments)
      BY <1>1, <1>11 DEF Written
    <3> HIDE DEF all
    <3>2. IsFiniteSet(1 .. comments) /\ Cardinality(1 .. comments) = comments
      <4>1. 1 \in Int /\ comments \in Int
        BY <1>7
      <4>2. IsFiniteSet(1 .. comments) /\ Cardinality(1 .. comments) = IF 1 > comments THEN 0 ELSE comments - 1 + 1
        BY <4>1, FS_Interval
      <4> QED
        BY <1>7, <4>2
    <3>3. IsFiniteSet(all) /\ Cardinality(all) <= comments
      BY <3>1, <3>2, FS_Subset
    <3>4. Cardinality(all) \in Nat /\ Cap \in Nat
      BY <3>3, FS_CardinalityType DEF Jira!JiraAssumption
    <3>5. ~(Jira!Cardinality(all) > Cap)
      BY <1>7, <2>3, <3>3, <3>4, JiraCounts
    <3>6. firedComments' = IF Jira!Cardinality(all) > Cap THEN {} ELSE all
      BY <1>5 DEF Answers, all
    <3> QED
      BY <3>5, <3>6 DEF all
  <2>4. ASSUME comments <= Cap, NEW c \in Jira!Comments
        PROVE  announced'[c] <= 1 /\ (announced'[c] > 0 => c \in firedComments')
    <3>1. announced[c] \in Nat /\ announced[c] <= 1 /\ (announced[c] > 0 => c \in firedComments)
      BY <1>1, <1>13, <2>4 DEF Remembers
    <3>2. announced'[c] = announced[c] + (IF c \in News(at, found) THEN 1 ELSE 0)
      BY <1>13
    <3>3. CASE c \in News(at, found)
      <4>1. announced[c] = 0
        BY <1>11, <3>1, <3>3
      <4> QED
        BY <2>3, <2>4, <3>2, <3>3, <4>1
    <3>4. CASE c \notin News(at, found)
      BY <2>3, <2>4, <3>1, <3>2, <3>4
    <3> QED
      BY <3>3, <3>4
  <2> QED
    BY <1>2, <2>2, <2>4 DEF Remembers, Jira!Comments
<1>25. Aware'
  <2> SUFFICES ASSUME comments <= Inline, NEW t \in Tickets, snapshots'[t] # Nil, NEW c \in tickets[t].comments,
                      c > baseline'[t], c <= snapshots'[t].water \/ c \in shown'[t]
               PROVE  announced'[c] > 0
    BY <1>2 DEF Aware
  <2>1. c \in 1 .. comments /\ c \in Jira!Comments /\ announced[c] \in Nat
    BY <1>1, <1>13, <1>14 DEF Written
  <2>2. announced'[c] >= announced[c] /\ (c \in News(at, found) => announced'[c] > 0)
    BY <1>13, <2>1
  <2>3. c \in firedComments => announced[c] > 0
    BY <1>1 DEF Remembers
  <2>4. ASSUME announced[c] > 0 PROVE announced'[c] > 0
    BY <1>13, <2>1, <2>2, <2>4
  <2>5. CASE t \notin found
    <3>1. snapshots'[t] = snapshots[t] /\ snapshots[t] # Nil /\ baseline'[t] = baseline[t] /\ shown'[t] = shown[t]
      BY <1>10, <1>17, <2>5
    <3>2. announced[c] > 0
      BY <1>1, <3>1 DEF Aware
    <3> QED
      BY <2>4, <3>2
  <2>6. CASE t \in found /\ Jira!Kept[t] = Nil
    <3>1. c \in shown'[t] => c <= baseline'[t]
      BY <1>9, <1>15, <2>6
    <3>2. snapshots'[t].water = baseline'[t]
      BY <1>15, <1>19, <2>6
    <3>3. baseline'[t] \in 0 .. comments
      BY <1>9, <1>15, <2>6
    <3> QED
      BY <2>1, <3>1, <3>2, <3>3
  <2>7. CASE t \in found /\ Jira!Kept[t] # Nil
    <3>1. /\ snapshots[t] # Nil /\ snapshots'[t] = Jira!Again(at[t], snapshots[t]) /\ baseline'[t] = baseline[t]
          /\ shown'[t] = shown[t] \cup Jira!Shown(at[t]) /\ Jira!Shown(at[t]) = at[t].comments
      BY <1>9, <1>10, <1>16, <2>7
    <3>2. snapshots[t].water \in 0 .. comments
      BY <1>18, <3>1
    <3>3. ASSUME c <= snapshots[t].water \/ c \in shown[t] PROVE announced'[c] > 0
      <4>1. announced[c] > 0
        BY <1>1, <3>1, <3>3 DEF Aware
      <4> QED
        BY <2>4, <4>1
    <3>4. ASSUME c \in Jira!Shown(at[t]) PROVE announced'[c] > 0
      <4>1. CASE c > snapshots[t].water
        BY <1>12, <2>2, <2>3, <2>4, <2>7, <3>4, <4>1
      <4>2. CASE c <= snapshots[t].water
        BY <3>3, <4>2
      <4> QED
        BY <2>1, <3>2, <4>1, <4>2
    <3>5. CASE c \in at[t].comments
      BY <3>1, <3>4, <3>5
    <3>6. CASE c \notin at[t].comments /\ at[t].comments = {}
      <4>1. snapshots'[t].water = snapshots[t].water
        BY <1>19, <2>7, <3>1, <3>6
      <4> QED
        BY <3>1, <3>3, <3>6, <4>1
    <3>7. CASE c \notin at[t].comments /\ at[t].comments # {}
      <4>1. at[t] = earlier[t]
        BY <1>6, <3>7
      <4>2. \A d \in at[t].comments : d < c
        BY <1>1, <3>7, <4>1 DEF Latest
      <4>3. snapshots'[t].water = Jira!LatestOf(Jira!Shown(at[t])) /\ Jira!LatestOf(Jira!Shown(at[t])) \in at[t].comments
        BY <1>9, <1>19, <2>7, <3>1, <3>7
      <4>4. snapshots'[t].water < c /\ snapshots'[t].water \in 1 .. comments
        BY <1>8, <4>2, <4>3
      <4>5. c \in shown[t]
        BY <2>1, <3>1, <3>7, <4>4
      <4> QED
        BY <3>3, <4>5
    <3> QED
      BY <3>5, <3>6, <3>7
  <2> QED
    BY <2>5, <2>6, <2>7
<1>26. Jira!MineIsAnnounced'
  <2> SUFFICES ASSUME NEW t \in Tickets, snapshots'[t] # Nil, snapshots'[t].assignee = account PROVE told'[t] = account
    BY <1>5 DEF Answers, Jira!MineIsAnnounced
  <2>1. CASE t \in found
    <3>1. snapshots'[t].assignee = at[t].assignee
      BY <1>19, <2>1
    <3>2. told'[t] = IF Jira!Assigns(at[t], Jira!Kept[t]) THEN account
                     ELSE IF at[t].assignee # account THEN Nil ELSE told[t]
      BY <1>5, <2>1 DEF Answers
    <3>3. CASE Jira!Assigns(at[t], Jira!Kept[t])
      BY <3>2, <3>3
    <3>4. CASE ~Jira!Assigns(at[t], Jira!Kept[t])
      <4>1. Jira!Kept[t] # Nil /\ Jira!Kept[t].assignee = account /\ told'[t] = told[t]
        BY <3>1, <3>2, <3>4 DEF Jira!Assigns
      <4> QED
        BY <1>1, <1>2, <1>10, <4>1 DEF Jira!MineIsAnnounced
    <3> QED
      BY <3>3, <3>4
  <2>2. CASE t \notin found
    <3>1. told'[t] = told[t] /\ snapshots'[t] = snapshots[t] /\ snapshots[t] # Nil /\ identity = account
      BY <1>5, <1>10, <1>17, <2>2 DEF Answers
    <3> QED
      BY <1>1, <1>2, <3>1 DEF Jira!MineIsAnnounced
  <2> QED
    BY <2>1, <2>2
<1> QED
  BY <1>21, <1>22, <1>23, <1>24, <1>25, <1>26 DEF JiraInv

\* The steps of Jira: one ticket changes, and was before what it is.
LEMMA JiraChangeStep ==
  ASSUME Jira!JiraAssumption, JiraInv, NEW t \in Tickets, NEW i \in Jira!Issues, Jira!Change(t, i),
         comments' \in comments .. MaxComments, edits' \in 0 .. TicketChanges,
         UNCHANGED <<account, identity, snapshots, firedComments, told, baseline, shown, announced, statuses>>,
         i.comments \subseteq tickets[t].comments \cup ((comments + 1) .. comments')
  PROVE  JiraInv'
<1>1. Jira!TypeOK /\ Written /\ Latest /\ Remembers /\ Aware /\ Jira!MineIsAnnounced
  BY DEF JiraInv
<1>2. /\ tickets \in [Tickets -> Jira!Issues] /\ earlier \in [Tickets -> Jira!Issues]
      /\ comments \in Nat /\ MaxComments \in Nat /\ comments' \in Nat /\ comments <= comments' /\ comments' <= MaxComments
  BY <1>1 DEF Jira!TypeOK, Jira!JiraAssumption
<1>3. /\ tickets' \in [Tickets -> Jira!Issues] /\ earlier' \in [Tickets -> Jira!Issues]
      /\ tickets'[t] = i /\ earlier'[t] = tickets[t]
      /\ \A u \in Tickets \ {t} : tickets'[u] = tickets[u] /\ earlier'[u] = earlier[u]
  BY <1>2 DEF Jira!Change
<1>4. Jira!TypeOK'
  BY <1>1, <1>2, <1>3 DEF Jira!TypeOK
<1>5. ASSUME NEW some, some \subseteq 1 .. comments PROVE some \subseteq 1 .. comments'
  BY <1>2, <1>5
<1>6. ASSUME NEW u \in Tickets
      PROVE  /\ tickets[u].comments \subseteq 1 .. comments /\ earlier[u].comments \subseteq 1 .. comments
             /\ shown[u] \subseteq 1 .. comments /\ (snapshots[u] # Nil => snapshots[u].water <= comments)
  BY <1>1 DEF Written
<1>7. \A u \in Tickets : snapshots[u] # Nil => snapshots[u].water \in Nat
  BY <1>1, <1>2 DEF Jira!TypeOK, Jira!Snapshots
<1>8. Written'
  <2>1. i.comments \subseteq 1 .. comments'
    BY <1>2, <1>6
  <2>2. ASSUME NEW u \in Tickets
        PROVE  /\ tickets'[u].comments \subseteq 1 .. comments' /\ earlier'[u].comments \subseteq 1 .. comments'
               /\ shown[u] \subseteq 1 .. comments' /\ (snapshots[u] # Nil => snapshots[u].water <= comments')
    <3>1. snapshots[u] # Nil => snapshots[u].water <= comments'
      BY <1>2, <1>6, <1>7
    <3>2. tickets'[u].comments \subseteq 1 .. comments'
      BY <1>3, <1>5, <1>6, <2>1
    <3>3. earlier'[u].comments \subseteq 1 .. comments'
      BY <1>3, <1>5, <1>6
    <3> QED
      BY <1>5, <1>6, <3>1, <3>2, <3>3
  <2>3. firedComments \subseteq 1 .. comments'
    BY <1>1, <1>5 DEF Written
  <2> QED
    BY <2>2, <2>3 DEF Written
<1>9. Latest'
  <2> SUFFICES ASSUME NEW u \in Tickets, NEW c \in tickets'[u].comments \ earlier'[u].comments, NEW d \in earlier'[u].comments
               PROVE  d < c
    BY DEF Latest
  <2>1. CASE u = t
    <3>1. c \in (comments + 1) .. comments' /\ d \in 1 .. comments
      BY <1>3, <1>6, <2>1
    <3> QED
      BY <1>2, <3>1
  <2>2. CASE u # t
    BY <1>1, <1>3, <2>2 DEF Latest
  <2> QED
    BY <2>1, <2>2
<1>10. Remembers'
  <2>1. comments' <= Cap => comments <= Cap
    BY <1>2 DEF Jira!JiraAssumption
  <2> QED
    BY <1>1, <2>1 DEF Remembers, Jira!Comments
<1>11. Aware'
  <2> SUFFICES ASSUME comments' <= Inline, NEW u \in Tickets, snapshots[u] # Nil, NEW c \in tickets'[u].comments,
                      c > baseline[u], c <= snapshots[u].water \/ c \in shown[u]
               PROVE  announced[c] > 0
    BY DEF Aware
  <2>1. comments <= Inline
    BY <1>2 DEF Jira!JiraAssumption
  <2>2. c <= comments
    BY <1>2, <1>6, <1>7, <1>8 DEF Written
  <2>3. c \in tickets[u].comments
    BY <1>2, <1>3, <2>2
  <2> QED
    BY <1>1, <2>1, <2>3 DEF Aware
<1>12. Jira!MineIsAnnounced'
  BY <1>1 DEF Jira!MineIsAnnounced
<1> QED
  BY <1>4, <1>8, <1>9, <1>10, <1>11, <1>12 DEF JiraInv

LEMMA JiraNext ==
  ASSUME Jira!JiraAssumption, JiraInv, [Jira!Next]_(Jira!vars)
  PROVE  JiraInv'
<1>1. Jira!TypeOK /\ Written /\ Latest /\ Remembers /\ Aware /\ Jira!MineIsAnnounced
  BY DEF JiraInv
<1>2. /\ tickets \in [Tickets -> Jira!Issues] /\ comments \in 0 .. MaxComments /\ edits \in 0 .. TicketChanges
      /\ MaxComments \in Nat /\ TicketChanges \in Nat
  BY <1>1 DEF Jira!TypeOK, Jira!JiraAssumption
<1>3. CASE UNCHANGED Jira!vars
  BY <1>1, <1>3 DEF Jira!vars, Jira!jira, Jira!state, Jira!history, JiraInv, Jira!TypeOK, Written, Latest, Remembers, Aware,
                    Jira!MineIsAnnounced, Jira!Comments
<1>4. CASE Jira!Tick
  BY <1>4, JiraTickStep
<1>5. CASE Jira!Auth
  <2>1. /\ edits < TicketChanges /\ edits' = edits + 1 /\ account' \in Accounts
        /\ UNCHANGED <<tickets, earlier, comments, identity, snapshots, firedComments, told, baseline, shown, announced, statuses>>
    BY <1>5 DEF Jira!Auth, Jira!jira, Jira!state, Jira!history
  <2>2. edits' \in 0 .. TicketChanges
    BY <1>2, <2>1
  <2>3. Jira!TypeOK'
    BY <1>1, <2>1, <2>2 DEF Jira!TypeOK
  <2> QED
    BY <1>1, <2>1, <2>3 DEF JiraInv, Written, Latest, Remembers, Aware, Jira!MineIsAnnounced, Jira!Comments
<1>6. ASSUME NEW t \in Tickets, Jira!Comment(t) PROVE JiraInv'
  <2> DEFINE i == [tickets[t] EXCEPT !.comments = @ \cup {comments + 1}, !.recent = TRUE]
  <2>1. /\ comments < MaxComments /\ comments' = comments + 1 /\ Jira!Change(t, i)
        /\ UNCHANGED <<account, identity, snapshots, firedComments, told, baseline, shown, announced, statuses, edits>>
    BY <1>6 DEF Jira!Comment, Jira!state, Jira!history
  <2>2. comments' \in comments .. MaxComments /\ comments + 1 \in Jira!Comments /\ (comments + 1) .. comments' = {comments + 1}
    BY <1>2, <2>1 DEF Jira!Comments
  <2>3. tickets[t] \in Jira!Issues
    BY <1>2
  <2>4. i \in Jira!Issues /\ i.comments = tickets[t].comments \cup {comments + 1}
    BY <2>2, <2>3 DEF Jira!Issues
  <2> HIDE DEF i
  <2>5. edits' \in 0 .. TicketChanges
    BY <1>2, <2>1
  <2> QED
    BY <2>1, <2>2, <2>4, <2>5, JiraChangeStep
<1>7. ASSUME NEW t \in Tickets, Jira!Edit(t) PROVE JiraInv'
  <2>1. tickets[t] \in Jira!Issues
    BY <1>2
  <2>2. /\ edits < TicketChanges /\ edits' = edits + 1
        /\ UNCHANGED <<comments, account, identity, snapshots, firedComments, told, baseline, shown, announced, statuses>>
    BY <1>7 DEF Jira!Edit, Jira!state, Jira!history
  <2>3. edits' \in 0 .. TicketChanges /\ comments' \in comments .. MaxComments
    BY <1>2, <2>2
  <2>4. PICK i \in Jira!Issues : Jira!Change(t, i) /\ i.comments \subseteq tickets[t].comments
    <3>1. CASE \E s \in TicketStates : Jira!Change(t, [tickets[t] EXCEPT !.status = s, !.recent = TRUE])
      <4>1. PICK s \in TicketStates : Jira!Change(t, [tickets[t] EXCEPT !.status = s, !.recent = TRUE])
        BY <3>1
      <4> DEFINE i == [tickets[t] EXCEPT !.status = s, !.recent = TRUE]
      <4>2. i \in Jira!Issues /\ i.comments \subseteq tickets[t].comments
        BY <2>1 DEF Jira!Issues
      <4>3. Jira!Change(t, i)
        BY <4>1
      <4> HIDE DEF i
      <4> QED
        BY <4>2, <4>3
    <3>2. CASE \E a \in Accounts \cup {Nil} : Jira!Change(t, [tickets[t] EXCEPT !.assignee = a, !.recent = TRUE])
      <4>1. PICK a \in Accounts \cup {Nil} : Jira!Change(t, [tickets[t] EXCEPT !.assignee = a, !.recent = TRUE])
        BY <3>2
      <4> DEFINE i == [tickets[t] EXCEPT !.assignee = a, !.recent = TRUE]
      <4>2. i \in Jira!Issues /\ i.comments \subseteq tickets[t].comments
        BY <2>1 DEF Jira!Issues
      <4>3. Jira!Change(t, i)
        BY <4>1
      <4> HIDE DEF i
      <4> QED
        BY <4>2, <4>3
    <3>3. CASE \E c \in tickets[t].comments : Jira!Change(t, [tickets[t] EXCEPT !.comments = @ \ {c}, !.recent = TRUE])
      <4>1. PICK c \in tickets[t].comments : Jira!Change(t, [tickets[t] EXCEPT !.comments = @ \ {c}, !.recent = TRUE])
        BY <3>3
      <4> DEFINE i == [tickets[t] EXCEPT !.comments = @ \ {c}, !.recent = TRUE]
      <4>2. i \in Jira!Issues /\ i.comments \subseteq tickets[t].comments
        BY <2>1 DEF Jira!Issues
      <4>3. Jira!Change(t, i)
        BY <4>1
      <4> HIDE DEF i
      <4> QED
        BY <4>2, <4>3
    <3>4. CASE Jira!Change(t, [tickets[t] EXCEPT !.recent = FALSE])
      <4>1. Jira!Change(t, [tickets[t] EXCEPT !.recent = FALSE])
        BY <3>4
      <4> DEFINE i == [tickets[t] EXCEPT !.recent = FALSE]
      <4>2. i \in Jira!Issues /\ i.comments \subseteq tickets[t].comments
        BY <2>1 DEF Jira!Issues
      <4>3. Jira!Change(t, i)
        BY <4>1
      <4> HIDE DEF i
      <4> QED
        BY <4>2, <4>3
    <3> QED
      BY <1>7, <3>1, <3>2, <3>3, <3>4 DEF Jira!Edit
  <2> QED
    BY <2>2, <2>3, <2>4, JiraChangeStep
<1> QED
  BY <1>3, <1>4, <1>5, <1>6, <1>7 DEF Jira!Next

LEMMA JiraPromises ==
  ASSUME JiraInv
  PROVE  Jira!TypeOK /\ Jira!OncePerComment /\ Jira!SeenIsAnnounced /\ Jira!MineIsAnnounced
<1>1. Jira!TypeOK /\ Remembers /\ Aware /\ Jira!MineIsAnnounced
  BY DEF JiraInv
<1>2. Jira!OncePerComment
  BY <1>1 DEF Remembers, Jira!OncePerComment
<1>3. Jira!SeenIsAnnounced
  BY <1>1 DEF Aware, Jira!SeenIsAnnounced
<1> QED
  BY <1>1, <1>2, <1>3

-----------------------------------------------------------------------------
(* CalendarPlugin *)

clock == v1
tokens == v2
polling == v3
nextTick == v4
looking == v5
reminded == v6
misses == v7
starts == v8
since == v9
reminders == v10
shifts == v11
stops == v12

USE DEF clock, tokens, polling, nextTick, looking, reminded, misses, starts, since, reminders, shifts, stops

\* A tick is under way for no longer than its work takes, or the next one is ahead by no
\* more than an interval.
Ticking ==
  /\ looking # Nil => polling /\ tokens /\ looking <= clock /\ clock <= looking + MaxTick
  /\ looking = Nil /\ polling => clock <= nextTick /\ nextTick <= clock + Poll
  /\ ~polling => looking = Nil

\* The leads the calendar promises, and when a steady event waits for one of them.
Promised == {l \in Leads : l >= Calendar!Band /\ l <= Lookahead}
Steady(e, l) ==
  polling /\ tokens /\ starts[e] # Nil /\ since[e] < Calendar!FiringTime(e, l) /\ <<e, l>> \notin reminded

\* The time that the tick under way, or else the next one, goes by, and how far behind the
\* firing time of what waits it can be after so many ticks that failed.
Look == IF looking = Nil THEN nextTick ELSE looking
Late(m) == (m + 1) * (Poll + MaxTick)

\* What waits is not behind the next look by more than the failed ticks account for.
Awaited ==
  Calendar!Fits /\ Calendar!Timely => \A e \in Appointments, l \in Promised :
    Steady(e, l) => Look < Calendar!FiringTime(e, l) + Late(misses)

\* What this run published is in the set of what was published, and no later run did yet.
Deduped ==
  Calendar!Fits => \A x \in Calendar!Pairs, r \in Calendar!Runs :
    /\ reminders[<<x, r>>] <= 1
    /\ r > stops => reminders[<<x, r>>] = 0
    /\ r = stops /\ reminders[<<x, r>>] > 0 => polling /\ x \in reminded

CalInv == Calendar!TypeOK /\ Ticking /\ Awaited /\ Deduped

\* What the constants are.
LEMMA CalConstants ==
  ASSUME Calendar!CalendarAssumption
  PROVE  /\ Poll \in Nat \ {0} /\ Lookahead \in Nat \ {0} /\ Minimum \in Nat /\ MaxTick \in Nat /\ MaxFailed \in Nat
         /\ Horizon \in Nat /\ MaxMoves \in Nat /\ MaxRestarts \in Nat /\ Nil \notin Nat
         /\ \A l \in Promised : l \in Leads /\ l \in Nat \ {0} /\ l >= Calendar!Band /\ l <= Lookahead
         /\ Calendar!Band \in Nat /\ Calendar!Band >= 2 * Poll
<1>1. Poll \in Nat \ {0} /\ Minimum \in Nat
  BY DEF Calendar!CalendarAssumption
<1>2. Calendar!Band \in Nat /\ Calendar!Band >= 2 * Poll
  BY <1>1 DEF Calendar!Band
<1> QED
  BY <1>2 DEF Calendar!CalendarAssumption, Promised

\* One more failed tick is one more interval and its work.
LEMMA CalLate ==
  ASSUME Calendar!CalendarAssumption, NEW m \in Nat
  PROVE  /\ Late(m) \in Nat /\ Late(m) >= Poll + MaxTick /\ Late(m + 1) = Late(m) + Poll + MaxTick /\ Late(0) = Poll + MaxTick
         /\ m <= MaxFailed /\ Calendar!Timely => Late(m) <= Calendar!Band
<1> DEFINE P == Poll + MaxTick
<1>1. P \in Nat /\ MaxFailed \in Nat
  BY CalConstants
<1>2. \A p, k, n \in Nat : /\ (k + 1) * p \in Nat /\ (k + 1) * p >= p /\ (k + 2) * p = (k + 1) * p + p
                           /\ k <= n => (k + 1) * p <= (n + 1) * p
  <2> SUFFICES ASSUME NEW p \in Nat, NEW k \in Nat, NEW n \in Nat
               PROVE  /\ (k + 1) * p \in Nat /\ (k + 1) * p >= p /\ (k + 2) * p = (k + 1) * p + p
                      /\ k <= n => (k + 1) * p <= (n + 1) * p
    OBVIOUS
  <2>1. k * p \in Nat /\ (k + 1) * p = k * p + p /\ (k + 2) * p = k * p + p + p
    OBVIOUS
  <2>2. ASSUME k <= n PROVE (k + 1) * p <= (n + 1) * p
    <3>1. n - k \in Nat /\ (n - k) * p \in Nat
      BY <2>2
    <3>2. (n + 1) * p = (k + 1) * p + (n - k) * p
      OBVIOUS
    <3> QED
      BY <2>1, <3>1, <3>2
  <2> QED
    BY <2>1, <2>2
<1>3. Late(m) = (m + 1) * P /\ Late(m + 1) = (m + 2) * P /\ Late(0) = P
  <2>1. (m + 1) + 1 = m + 2 /\ 1 * P = P /\ 0 + 1 = 1
    BY <1>1
  <2> QED
    BY <2>1 DEF Late
<1>4. (m + 1) * P \in Nat /\ (m + 1) * P >= P /\ (m + 2) * P = (m + 1) * P + P
  BY <1>1, <1>2
<1>5. ASSUME m <= MaxFailed, Calendar!Timely PROVE Late(m) <= Calendar!Band
  <2>1. (m + 1) * P <= (MaxFailed + 1) * P
    BY <1>1, <1>2, <1>5
  <2>2. (MaxFailed + 1) * P <= Calendar!Band
    BY <1>5 DEF Calendar!Timely
  <2>3. (MaxFailed + 1) * P \in Nat /\ Calendar!Band \in Nat
    BY <1>1, <1>2, CalConstants
  <2> QED
    BY <1>3, <1>4, <2>1, <2>2, <2>3
<1>6. Poll \in Nat /\ MaxTick \in Nat /\ P = Poll + MaxTick
  BY CalConstants
<1> HIDE DEF P
<1>7. Late(m) \in Nat /\ Late(m) >= Poll + MaxTick /\ Late(m + 1) = Late(m) + Poll + MaxTick /\ Late(0) = Poll + MaxTick
  BY <1>1, <1>3, <1>4, <1>6
<1> QED
  BY <1>5, <1>7

LEMMA CalInit == Calendar!CalendarAssumption /\ Calendar!Init => CalInv
<1> SUFFICES ASSUME Calendar!CalendarAssumption, Calendar!Init PROVE CalInv
  OBVIOUS
<1>1. Horizon \in Nat /\ Poll \in Nat /\ MaxFailed \in Nat /\ MaxMoves \in Nat /\ MaxRestarts \in Nat
  BY CalConstants
<1>2. /\ clock = 0 /\ tokens \in BOOLEAN /\ polling = FALSE /\ nextTick = 0 /\ looking = Nil /\ reminded = {} /\ misses = 0
      /\ starts \in [Appointments -> Calendar!Time \cup {Nil}] /\ since = [e \in Appointments |-> 0]
      /\ reminders = [x \in Calendar!Pairs \X Calendar!Runs |-> 0] /\ shifts = 0 /\ stops = 0
  BY DEF Calendar!Init
<1>3. 0 \in Calendar!Time /\ 0 \in 0 .. Horizon + Poll /\ 0 \in 0 .. MaxMoves /\ 0 \in 0 .. MaxRestarts /\ 0 \in 0 .. MaxFailed
  BY <1>1 DEF Calendar!Time
<1>4. Calendar!TypeOK
  BY <1>2, <1>3 DEF Calendar!TypeOK
<1>5. Deduped
  BY <1>2 DEF Deduped
<1> QED
  BY <1>2, <1>4, <1>5 DEF CalInv, Ticking, Awaited, Steady

\* The instance counts as the library does.
LEMMA CalCounts ==
  ASSUME NEW S
  PROVE  (Calendar!IsFiniteSet(S) <=> IsFiniteSet(S)) /\ Calendar!Cardinality(S) = Cardinality(S)
<1>1. Calendar!IsFiniteSet(S) <=> IsFiniteSet(S)
  BY DEF Calendar!IsFiniteSet, IsFiniteSet
<1>2. Calendar!Cardinality(S) = Cardinality(S)
  BY DEF Calendar!Cardinality, Cardinality, Calendar!IsFiniteSet, IsFiniteSet
<1> QED
  BY <1>1, <1>2

LEMMA PairsAreFinite ==
  ASSUME Calendar!CalendarAssumption, Calendar!Fits, NEW pairs \in SUBSET Calendar!Pairs
  PROVE  Calendar!Collected(pairs) = pairs
<1>1. IsFiniteSet(Calendar!Pairs)
  <2>1. IsFiniteSet(Appointments) /\ IsFiniteSet(Leads)
    BY CalCounts DEF Calendar!CalendarAssumption
  <2>2. IsFiniteSet(Appointments \X Leads)
    BY <2>1, FS_Product
  <2> QED
    BY <2>2 DEF Calendar!Pairs
<1>2. Cardinality(pairs) <= Cardinality(Calendar!Pairs) /\ IsFiniteSet(pairs)
  BY <1>1, FS_Subset
<1>3. Cardinality(pairs) \in Nat /\ Cardinality(Calendar!Pairs) \in Nat
  BY <1>1, <1>2, FS_CardinalityType
<1>4. Cap \in Nat /\ Cardinality(Calendar!Pairs) <= Cap
  BY CalCounts DEF Calendar!CalendarAssumption, Calendar!Fits
<1>5. ~(Cardinality(pairs) > Cap)
  BY <1>2, <1>3, <1>4
<1> QED
  BY <1>5, CalCounts DEF Calendar!Collected

\* The events that changed, or that the plugin's change concerns, wait from now on.
LEMMA CalUnsteady ==
  ASSUME Calendar!CalendarAssumption, CalInv, NEW those, Calendar!Unsteady(those), NEW e \in Appointments
  PROVE  since' \in [Appointments -> Calendar!Time] /\ since'[e] = IF e \in those THEN clock ELSE since[e]
BY DEF CalInv, Calendar!TypeOK, Calendar!Unsteady

LEMMA CalBeginsStep ==
  ASSUME Calendar!CalendarAssumption, CalInv, Calendar!TickBegins
  PROVE  CalInv'
<1>1. Calendar!TypeOK /\ Ticking /\ Awaited /\ Deduped
  BY DEF CalInv
<1>2. /\ polling /\ looking = Nil /\ clock = nextTick
      /\ UNCHANGED <<clock, tokens, polling, reminded, misses, starts, since, reminders, shifts, stops>>
  BY DEF Calendar!TickBegins, Calendar!counters
<1>3. clock \in 0 .. Horizon /\ clock \in Nat /\ Poll \in Nat \ {0} /\ Horizon \in Nat /\ MaxTick \in Nat /\ Nil \notin Nat
  BY <1>1, CalConstants DEF Calendar!TypeOK, Calendar!Time
<1>4. Deduped'
  BY <1>1, <1>2 DEF Deduped, Calendar!Fits, Calendar!Pairs, Calendar!Runs
<1>5. CASE tokens /\ looking' = clock /\ UNCHANGED nextTick
  <2>1. Calendar!TypeOK' /\ Ticking'
    BY <1>1, <1>2, <1>3, <1>5 DEF Calendar!TypeOK, Calendar!Time, Ticking
  <2>2. Look' = Look
    BY <1>2, <1>3, <1>5 DEF Look
  <2>3. Awaited'
    BY <1>1, <1>2, <2>2 DEF Awaited, Steady, Calendar!FiringTime, Calendar!Fits, Calendar!Timely, Calendar!Band, Calendar!Pairs, Promised, Late
  <2> QED
    BY <1>4, <2>1, <2>3 DEF CalInv
<1>6. CASE ~tokens /\ nextTick' = clock + Poll /\ UNCHANGED looking
  <2>1. nextTick' \in 0 .. Horizon + Poll
    BY <1>3, <1>6
  <2>2. Calendar!TypeOK'
    BY <1>1, <1>2, <1>6, <2>1 DEF Calendar!TypeOK
  <2>3. Ticking'
    BY <1>2, <1>3, <1>6 DEF Ticking
  <2>4. Awaited'
    BY <1>2, <1>6 DEF Awaited, Steady
  <2> QED
    BY <1>4, <2>2, <2>3, <2>4 DEF CalInv
<1> QED
  BY <1>5, <1>6 DEF Calendar!TickBegins

LEMMA CalEndsStep ==
  ASSUME Calendar!CalendarAssumption, CalInv, Calendar!TickEnds
  PROVE  CalInv'
<1>1. Calendar!TypeOK /\ Ticking /\ Awaited /\ Deduped
  BY DEF CalInv
<1>2. /\ looking # Nil /\ looking' = Nil /\ nextTick' = clock + Poll
      /\ UNCHANGED <<clock, tokens, polling, starts, since, shifts, stops>>
  BY DEF Calendar!TickEnds, Calendar!counters
<1>3. /\ clock \in 0 .. Horizon /\ clock \in Nat /\ looking \in Nat /\ Poll \in Nat \ {0} /\ Horizon \in Nat /\ MaxTick \in Nat
      /\ Lookahead \in Nat /\ misses \in 0 .. MaxFailed /\ misses \in Nat /\ MaxFailed \in Nat
  BY <1>1, <1>2, CalConstants DEF Calendar!TypeOK, Calendar!Time
<1>4. Ticking' /\ nextTick' \in 0 .. Horizon + Poll /\ Look' = nextTick' /\ nextTick' <= looking + Poll + MaxTick
  BY <1>1, <1>2, <1>3 DEF Ticking, Look
<1>5. ASSUME Calendar!Fits, Calendar!Timely, NEW e \in Appointments, NEW l \in Promised, Steady(e, l)
      PROVE  /\ starts[e] \in Nat /\ l \in Nat /\ Calendar!FiringTime(e, l) = starts[e] - l
             /\ Calendar!FiringTime(e, l)' = starts[e] - l /\ looking < starts[e] - l + Late(misses)
  <2>1. starts[e] \in Nat /\ l \in Nat
    BY <1>1, <1>5, CalConstants DEF Steady, Calendar!TypeOK, Calendar!Time
  <2>2. Calendar!FiringTime(e, l) = starts[e] - l /\ Calendar!FiringTime(e, l)' = starts[e] - l
    BY <1>2 DEF Calendar!FiringTime
  <2>3. Look = looking
    BY <1>2 DEF Look
  <2> QED
    BY <1>1, <1>5, <2>1, <2>2, <2>3 DEF Awaited
<1>6. CASE /\ misses' = 0
           /\ reminders' = [x \in Calendar!Pairs \X Calendar!Runs |->
                reminders[x] + (IF x[1] \in Calendar!ShouldFire /\ x[2] = stops THEN 1 ELSE 0)]
           /\ reminded' = Calendar!Collected(reminded \cup Calendar!ShouldFire)
  <2>1. Calendar!ShouldFire \subseteq Calendar!Pairs
    BY DEF Calendar!ShouldFire, Calendar!Listed, Calendar!Pairs
  <2>2. reminded' \subseteq Calendar!Pairs
    BY <1>1, <1>6, <2>1 DEF Calendar!Collected, Calendar!TypeOK
  <2>3. reminders' \in [Calendar!Pairs \X Calendar!Runs -> Nat]
    <3>1. \A x \in Calendar!Pairs \X Calendar!Runs : reminders[x] \in Nat
      BY <1>1 DEF Calendar!TypeOK
    <3> QED
      BY <1>6, <3>1
  <2>4. misses' \in 0 .. MaxFailed
    BY <1>3, <1>6
  <2>5. Calendar!TypeOK'
    BY <1>1, <1>2, <1>4, <2>2, <2>3, <2>4 DEF Calendar!TypeOK, Calendar!Runs
  <2>6. Calendar!Fits => reminded' = reminded \cup Calendar!ShouldFire
    BY <1>1, <1>6, <2>1, PairsAreFinite DEF Calendar!TypeOK
  <2>7. Awaited'
    <3> SUFFICES ASSUME Calendar!Fits, Calendar!Timely, NEW e \in Appointments, NEW l \in Promised, Steady(e, l)'
                 PROVE  Look' < Calendar!FiringTime(e, l)' + Late(misses')
      BY DEF Awaited, Calendar!Fits, Calendar!Timely, Calendar!Band, Calendar!Pairs, Promised, Late
    <3>1. Steady(e, l) /\ <<e, l>> \notin Calendar!ShouldFire
      BY <1>2, <2>6 DEF Steady, Calendar!FiringTime
    <3>2. /\ starts[e] \in Nat /\ l \in Nat /\ Calendar!FiringTime(e, l) = starts[e] - l
          /\ Calendar!FiringTime(e, l)' = starts[e] - l /\ looking < starts[e] - l + Late(misses)
      BY <1>5, <3>1
    <3>3. Late(misses) \in Nat /\ Late(misses) <= Calendar!Band /\ Late(0) = Poll + MaxTick /\ Calendar!Band \in Nat
      BY <1>3, CalLate, CalConstants
    <3>4. l \in Leads /\ l >= Calendar!Band /\ l <= Lookahead
      BY CalConstants
    <3>5. CASE looking < starts[e] - l
      <4>1. looking + Poll + MaxTick < starts[e] - l + (Poll + MaxTick)
        BY <1>3, <3>2, <3>5
      <4>2. nextTick' \in Int
        BY <1>4, <1>3
      <4> QED
        BY <1>3, <1>4, <1>6, <3>2, <3>3, <4>1, <4>2
    <3>6. CASE looking >= starts[e] - l
      <4>1. looking <= starts[e] - l + Calendar!Band /\ looking < starts[e]
        BY <1>3, <3>2, <3>3, <3>4
      <4>2. Calendar!InBand(e, l)
        BY <3>2, <3>6, <4>1 DEF Calendar!InBand
      <4>3. starts[e] <= looking + Lookahead /\ starts[e] >= looking - l
        BY <1>3, <3>2, <3>4, <3>6, <4>1
      <4>4. e \in Calendar!Listed
        BY <3>1, <3>4, <4>3 DEF Calendar!Listed, Steady
      <4> QED
        BY <3>1, <3>4, <4>2, <4>4 DEF Calendar!ShouldFire, Steady
    <3> QED
      BY <1>3, <3>2, <3>5, <3>6
  <2>8. Deduped'
    <3> SUFFICES ASSUME Calendar!Fits, NEW x \in Calendar!Pairs, NEW r \in Calendar!Runs
                 PROVE  /\ reminders'[<<x, r>>] <= 1
                        /\ r > stops => reminders'[<<x, r>>] = 0
                        /\ r = stops /\ reminders'[<<x, r>>] > 0 => x \in reminded'
      BY <1>1, <1>2 DEF Deduped, Calendar!Fits, Calendar!Pairs, Calendar!Runs, Ticking
    <3>1. /\ reminders[<<x, r>>] \in Nat /\ reminders[<<x, r>>] <= 1 /\ (r > stops => reminders[<<x, r>>] = 0)
          /\ (r = stops /\ reminders[<<x, r>>] > 0 => x \in reminded)
      BY <1>1 DEF Deduped, Calendar!TypeOK
    <3>2. x \in Calendar!ShouldFire => x \notin reminded
      BY DEF Calendar!ShouldFire
    <3>3. reminders'[<<x, r>>] = reminders[<<x, r>>] + (IF x \in Calendar!ShouldFire /\ r = stops THEN 1 ELSE 0)
      <4>1. <<x, r>> \in Calendar!Pairs \X Calendar!Runs
        OBVIOUS
      <4> QED
        BY <1>6, <4>1
    <3>4. r \in Nat /\ stops \in Nat
      BY <1>1, CalConstants DEF Calendar!TypeOK, Calendar!Runs
    <3> QED
      BY <2>6, <3>1, <3>2, <3>3, <3>4
  <2> QED
    BY <1>4, <2>5, <2>7, <2>8 DEF CalInv
<1>7. CASE misses < MaxFailed /\ misses' = misses + 1 /\ UNCHANGED <<reminded, reminders>>
  <2>1. misses' \in 0 .. MaxFailed
    BY <1>3, <1>7
  <2>2. Calendar!TypeOK'
    BY <1>1, <1>2, <1>4, <1>7, <2>1 DEF Calendar!TypeOK
  <2>3. Awaited'
    <3> SUFFICES ASSUME Calendar!Fits, Calendar!Timely, NEW e \in Appointments, NEW l \in Promised, Steady(e, l)'
                 PROVE  Look' < Calendar!FiringTime(e, l)' + Late(misses')
      BY DEF Awaited, Calendar!Fits, Calendar!Timely, Calendar!Band, Calendar!Pairs, Promised, Late
    <3>1. Steady(e, l)
      BY <1>2, <1>7 DEF Steady, Calendar!FiringTime
    <3>2. /\ starts[e] \in Nat /\ l \in Nat /\ Calendar!FiringTime(e, l)' = starts[e] - l
          /\ looking < starts[e] - l + Late(misses)
      BY <1>5, <3>1
    <3>3. Late(misses) \in Nat /\ Late(misses') = Late(misses) + Poll + MaxTick
      BY <1>3, <1>7, CalLate
    <3>4. nextTick' \in Int
      BY <1>4, <1>3
    <3> QED
      BY <1>3, <1>4, <3>2, <3>3, <3>4
  <2>4. Deduped'
    BY <1>1, <1>2, <1>7 DEF Deduped, Calendar!Fits, Calendar!Pairs, Calendar!Runs
  <2> QED
    BY <1>4, <2>2, <2>3, <2>4 DEF CalInv
<1> QED
  BY <1>2, <1>6, <1>7 DEF Calendar!TickEnds

\* A step after which the events it concerns wait from now on, and that leaves the poller alone.
LEMMA CalChanges ==
  ASSUME Calendar!CalendarAssumption, CalInv, NEW those, Calendar!Unsteady(those), Calendar!TypeOK',
         polling', clock' = clock, reminders' = reminders, stops' = stops,
         UNCHANGED <<looking, reminded, misses>>, tokens => tokens',
         \/ UNCHANGED <<polling, nextTick>> /\ (tokens' # tokens => those = Appointments)
         \/ those = Appointments /\ nextTick' = clock /\ ~polling,
         \A e \in Appointments : e \notin those => starts'[e] = starts[e]
  PROVE  CalInv'
<1>1. Calendar!TypeOK /\ Ticking /\ Awaited /\ Deduped
  BY DEF CalInv
<1>2. clock \in Nat /\ Poll \in Nat \ {0} /\ MaxTick \in Nat /\ nextTick \in Int /\ (looking # Nil => looking \in Nat) /\ misses \in Nat
  BY <1>1, CalConstants DEF Calendar!TypeOK, Calendar!Time
<1>3. Ticking' /\ Look' <= clock + Poll /\ Look' \in Int
  <2>1. CASE UNCHANGED <<polling, nextTick>>
    <3>1. polling /\ Look' = Look /\ (looking' = looking) /\ clock' = clock
      BY <2>1 DEF Look
    <3>2. Ticking'
      BY <1>1, <2>1, <3>1 DEF Ticking
    <3>3. CASE looking = Nil
      BY <1>1, <1>2, <3>1, <3>2, <3>3 DEF Ticking, Look
    <3>4. CASE looking # Nil
      BY <1>1, <1>2, <3>1, <3>2, <3>4 DEF Ticking, Look
    <3> QED
      BY <3>3, <3>4
  <2>2. CASE nextTick' = clock /\ ~polling
    BY <1>1, <1>2, <2>2 DEF Ticking, Look
  <2> QED
    BY <2>1, <2>2
<1>4. Awaited'
  <2> SUFFICES ASSUME Calendar!Fits, Calendar!Timely, NEW e \in Appointments, NEW l \in Promised, Steady(e, l)'
               PROVE  Look' < Calendar!FiringTime(e, l)' + Late(misses)
    BY DEF Awaited, Calendar!Fits, Calendar!Timely, Calendar!Band, Calendar!Pairs, Promised, Late
  <2>1. starts'[e] \in Nat /\ l \in Nat /\ Calendar!FiringTime(e, l)' = starts'[e] - l
    BY CalConstants DEF Steady, Calendar!TypeOK, Calendar!Time, Calendar!FiringTime
  <2>2. since'[e] < starts'[e] - l
    BY <2>1 DEF Steady
  <2>3. CASE e \in those
    <3>1. clock < starts'[e] - l
      BY <2>2, <2>3, CalUnsteady
    <3>2. Late(misses) \in Nat /\ Late(misses) >= Poll + MaxTick
      BY <1>2, CalLate
    <3> QED
      BY <1>2, <1>3, <2>1, <3>1, <3>2
  <2>4. CASE e \notin those
    <3>1. UNCHANGED <<polling, nextTick, tokens>> /\ starts'[e] = starts[e] /\ since'[e] = since[e]
      BY <2>4, CalUnsteady
    <3>2. Steady(e, l) /\ Calendar!FiringTime(e, l)' = Calendar!FiringTime(e, l) /\ Look' = Look
      BY <3>1 DEF Steady, Calendar!FiringTime, Look
    <3> QED
      BY <1>1, <3>1, <3>2 DEF Awaited
  <2> QED
    BY <2>3, <2>4
<1>5. Deduped'
  <2> SUFFICES ASSUME Calendar!Fits, NEW x \in Calendar!Pairs, NEW r \in Calendar!Runs
               PROVE  /\ reminders[<<x, r>>] <= 1
                      /\ r > stops => reminders[<<x, r>>] = 0
                      /\ r = stops /\ reminders[<<x, r>>] > 0 => x \in reminded'
    BY DEF Deduped, Calendar!Fits, Calendar!Pairs, Calendar!Runs
  <2> QED
    BY <1>1 DEF Deduped
<1> QED
  BY <1>3, <1>4, <1>5 DEF CalInv

LEMMA CalNext ==
  ASSUME Calendar!CalendarAssumption, CalInv, [Calendar!Next]_(Calendar!vars)
  PROVE  CalInv'
<1>1. Calendar!TypeOK /\ Ticking /\ Awaited /\ Deduped
  BY DEF CalInv
<1>2. CASE UNCHANGED Calendar!vars
  BY <1>1, <1>2 DEF Calendar!vars, Calendar!counters, Calendar!poller, CalInv, Calendar!TypeOK, Ticking, Awaited, Deduped, Steady,
                    Calendar!FiringTime, Calendar!Fits, Calendar!Timely, Calendar!Band, Calendar!Pairs, Calendar!Runs,
                    Promised, Look, Late
<1>3. CASE Calendar!Start
  <2>1. ~polling /\ polling' /\ nextTick' = clock /\ Calendar!Unsteady(Appointments)
        /\ UNCHANGED <<clock, tokens, looking, reminded, misses, starts, reminders, shifts, stops>>
    BY <1>3 DEF Calendar!Start, Calendar!counters
  <2>2. since' \in [Appointments -> Calendar!Time] /\ clock \in 0 .. Horizon /\ polling' \in BOOLEAN
    BY <1>1, <1>3, <2>1 DEF Calendar!Unsteady, Calendar!TypeOK, Calendar!Time, Calendar!Start
  <2>3. nextTick' \in 0 .. Horizon + Poll
    BY <2>1, <2>2 DEF Calendar!CalendarAssumption
  <2>4. Calendar!TypeOK'
    BY <1>1, <2>1, <2>2, <2>3 DEF Calendar!TypeOK
  <2> QED
    BY <2>1, <2>4, CalChanges
<1>4. CASE Calendar!TickBegins
  BY <1>4, CalBeginsStep
<1>9. CASE Calendar!TickEnds
  BY <1>9, CalEndsStep
<1>5. CASE Calendar!Pass
  <2>1. /\ clock < Horizon /\ clock' = clock + 1 /\ (polling => IF looking = Nil THEN clock < nextTick ELSE clock < looking + MaxTick)
        /\ UNCHANGED <<tokens, polling, nextTick, looking, reminded, misses, starts, since, reminders, shifts, stops>>
    BY <1>5 DEF Calendar!Pass, Calendar!counters, Calendar!poller
  <2>2. /\ clock \in Nat /\ nextTick \in Nat /\ Horizon \in Nat /\ Poll \in Nat /\ MaxTick \in Nat /\ clock' \in 0 .. Horizon
        /\ (looking # Nil => looking \in Nat)
    BY <1>1, <2>1, CalConstants DEF Calendar!TypeOK, Calendar!Time
  <2>3. Calendar!TypeOK'
    BY <1>1, <2>1, <2>2 DEF Calendar!TypeOK, Calendar!Time
  <2>4. Ticking'
    BY <1>1, <2>1, <2>2 DEF Ticking
  <2>5. Awaited' /\ Deduped'
    BY <1>1, <2>1 DEF Awaited, Deduped, Steady, Calendar!FiringTime, Calendar!Fits, Calendar!Timely, Calendar!Band,
                      Calendar!Pairs, Calendar!Runs, Promised, Look, Late
  <2> QED
    BY <2>3, <2>4, <2>5 DEF CalInv
<1>6. CASE Calendar!Auth
  <2>1. /\ tokens' = TRUE /\ Calendar!Unsteady(Appointments)
        /\ UNCHANGED <<clock, polling, nextTick, looking, reminded, misses, starts, reminders, shifts, stops>>
    BY <1>6 DEF Calendar!Auth, Calendar!counters, Calendar!poller
  <2>2. since' \in [Appointments -> Calendar!Time]
    BY <1>1, <2>1 DEF Calendar!Unsteady, Calendar!TypeOK
  <2>3. Calendar!TypeOK'
    BY <1>1, <2>1, <2>2 DEF Calendar!TypeOK
  <2>4. CASE polling'
    BY <2>1, <2>3, <2>4, CalChanges
  <2>5. CASE ~polling'
    BY <1>1, <2>1, <2>3, <2>5 DEF CalInv, Ticking, Awaited, Deduped, Steady, Calendar!Fits, Calendar!Pairs, Calendar!Runs
  <2> QED
    BY <2>4, <2>5
<1>7. CASE Calendar!Stop
  <2>1. /\ stops < MaxRestarts /\ stops' = stops + 1 /\ polling' = FALSE /\ nextTick' = 0 /\ looking' = Nil
        /\ reminded' = {} /\ misses' = 0
        /\ UNCHANGED <<clock, tokens, starts, since, reminders, shifts>>
    BY <1>7 DEF Calendar!Stop
  <2>2. stops \in Nat /\ stops' \in 0 .. MaxRestarts /\ 0 \in 0 .. Horizon + Poll /\ 0 \in 0 .. MaxFailed
    BY <1>1, <2>1, CalConstants DEF Calendar!TypeOK
  <2>3. Calendar!TypeOK'
    BY <1>1, <2>1, <2>2 DEF Calendar!TypeOK
  <2>4. Deduped'
    <3> SUFFICES ASSUME Calendar!Fits, NEW x \in Calendar!Pairs, NEW r \in Calendar!Runs
                 PROVE  /\ reminders'[<<x, r>>] <= 1
                        /\ r > stops' => reminders'[<<x, r>>] = 0
                        /\ r = stops' /\ reminders'[<<x, r>>] > 0 => polling' /\ x \in reminded'
      BY DEF Deduped, Calendar!Fits, Calendar!Pairs, Calendar!Runs
    <3>1. r \in Nat
      BY DEF Calendar!Runs
    <3>2. reminders[<<x, r>>] <= 1 /\ (r > stops => reminders[<<x, r>>] = 0)
      BY <1>1 DEF Deduped
    <3>3. reminders' = reminders /\ stops' = stops + 1
      BY <2>1
    <3> QED
      BY <2>2, <3>1, <3>2, <3>3
  <2> QED
    BY <2>1, <2>3, <2>4 DEF CalInv, Ticking, Awaited, Steady
<1>8. ASSUME NEW e \in Appointments, Calendar!Move(e) PROVE CalInv'
  <2>1. PICK t \in Calendar!Time \cup {Nil} : starts' = [starts EXCEPT ![e] = t]
    BY <1>8 DEF Calendar!Move
  <2>2. /\ shifts < MaxMoves /\ shifts' = shifts + 1 /\ Calendar!Unsteady({e})
        /\ UNCHANGED <<clock, tokens, polling, nextTick, looking, reminded, misses, reminders, stops>>
    BY <1>8 DEF Calendar!Move, Calendar!poller
  <2>3. shifts' \in 0 .. MaxMoves
    BY <1>1, <2>2 DEF Calendar!TypeOK, Calendar!CalendarAssumption
  <2>4. since' \in [Appointments -> Calendar!Time]
    BY <1>1, <2>2 DEF Calendar!Unsteady, Calendar!TypeOK
  <2>5. starts' \in [Appointments -> Calendar!Time \cup {Nil}] /\ \A d \in Appointments \ {e} : starts'[d] = starts[d]
    BY <1>1, <2>1 DEF Calendar!TypeOK
  <2>6. Calendar!TypeOK'
    BY <1>1, <2>2, <2>3, <2>4, <2>5 DEF Calendar!TypeOK
  <2>7. CASE polling'
    BY <2>2, <2>5, <2>6, <2>7, CalChanges
  <2>8. CASE ~polling'
    BY <1>1, <2>2, <2>6, <2>8 DEF CalInv, Ticking, Awaited, Deduped, Steady, Calendar!Fits, Calendar!Pairs, Calendar!Runs
  <2> QED
    BY <2>7, <2>8
<1> QED
  BY <1>2, <1>3, <1>4, <1>5, <1>6, <1>7, <1>8, <1>9 DEF Calendar!Next

LEMMA CalPromises ==
  ASSUME Calendar!CalendarAssumption, CalInv
  PROVE  Calendar!TypeOK /\ Calendar!RemindedInTime /\ Calendar!OncePerLead
<1>1. Calendar!TypeOK /\ Ticking /\ Awaited /\ Deduped
  BY DEF CalInv
<1>2. Calendar!OncePerLead
  <2> SUFFICES ASSUME Calendar!Fits, NEW x \in Calendar!Pairs \X Calendar!Runs PROVE reminders[x] <= 1
    BY DEF Calendar!OncePerLead
  <2>1. PICK p \in Calendar!Pairs, r \in Calendar!Runs : x = <<p, r>>
    OBVIOUS
  <2> QED
    BY <1>1, <2>1 DEF Deduped
<1>3. ASSUME Calendar!Fits, Calendar!Timely, NEW e \in Appointments, NEW l \in Promised,
             polling, tokens, looking = Nil, starts[e] # Nil, since[e] < Calendar!FiringTime(e, l), Calendar!Over(e, l),
             <<e, l>> \notin reminded
      PROVE  FALSE
  <2>1. /\ starts[e] \in Nat /\ l \in Nat /\ l >= Calendar!Band /\ Calendar!Band \in Nat /\ clock \in Nat /\ nextTick \in Nat
        /\ misses \in Nat /\ misses <= MaxFailed /\ MaxFailed \in Nat
    BY <1>1, <1>3, CalConstants DEF Calendar!TypeOK, Calendar!Time
  <2>2. Calendar!FiringTime(e, l) = starts[e] - l
    BY DEF Calendar!FiringTime
  <2>3. nextTick < starts[e] - l + Late(misses)
    BY <1>1, <1>3, <2>1, <2>2 DEF Awaited, Steady, Look
  <2>4. clock <= nextTick
    BY <1>1, <1>3 DEF Ticking
  <2>5. Late(misses) \in Nat /\ Late(misses) <= Calendar!Band
    BY <1>3, <2>1, CalLate
  <2> QED
    BY <1>3, <2>1, <2>2, <2>3, <2>4, <2>5 DEF Calendar!Over
<1> QED
  BY <1>1, <1>2, <1>3 DEF Calendar!RemindedInTime, Promised
-----------------------------------------------------------------------------
(* Credentials *)

strict == v3
keyring == v4
tokenFile == v5
backend == v6
auth == v7
client == v8
status == v9
expired == v10
bound == v11

USE DEF plugin, env, strict, keyring, tokenFile, backend, auth, client, status, expired, bound

\* Tokens with the identity the service reported for them.
Own == {t \in Secrets!Tokens : t.id = t.token}
Backends == {"keyring", "plaintext", "broken"}
AuthPhases == {"off", "opened", "valid", "written", "ok", "failed"}
ClientPhases == {"idle", "loaded", "asking", "due", "refreshed", "written", "retry"}

\* What is stored is whole, and in no file where that is forbidden.
Store ==
  /\ keyring \in [up : BOOLEAN, entry : Own \cup {Nil}] /\ tokenFile \in Own \cup {Nil}
  /\ backend \in Backends /\ (strict => tokenFile = Nil /\ backend # "plaintext")

\* What a run of auth is about to store.
Authorising ==
  /\ auth \in [phase : AuthPhases, backend : Backends \cup {Nil}, tokens : Own \cup {Nil}]
  /\ auth.phase \in {"opened", "valid"} =>
       auth.backend \in Backends /\ (strict => auth.backend # "plaintext") /\ bound.auths >= 1
  /\ auth.phase \in {"valid", "written"} => auth.tokens \in Own
  /\ auth.phase = "written" => ~strict

\* What a call is about to store.
Calling ==
  /\ client \in [phase : ClientPhases, tokens : Own \cup {Nil}, fresh : Own \cup {Nil},
                 then : {"asking", "retry", Nil}]
  /\ client.phase # "idle" => client.tokens \in Own
  /\ client.phase \in {"refreshed", "written"} => client.fresh \in Own
  /\ client.phase \in {"due", "refreshed", "written"} => client.then \in {"asking", "retry"}
  /\ client.phase = "written" => ~strict

Telling ==
  /\ status = [phase |-> status.phase, resolved |-> status.resolved, identity |-> status.identity]
  /\ status.phase \in {"quiet", "resolved", "loaded", "reported"}

Budget == bound \in [auths : 0 .. MaxAuths, refreshes : 0 .. MaxRefreshes, locks : 0 .. MaxLocks]

SecretsInv == plugin \in Clients /\ Store /\ Authorising /\ Calling /\ Telling /\ Budget

LEMMA SecretsInit == Secrets!CredentialsAssumption /\ Secrets!Init => SecretsInv
BY DEF Secrets!CredentialsAssumption, Secrets!Init, SecretsInv, Store, Authorising, Calling, Telling, Budget,
       Backends, AuthPhases, ClientPhases, Secrets!open_store, Secrets!Off, Secrets!Idle, Secrets!Quiet

LEMMA Opened ==
  ASSUME Store
  PROVE  Secrets!open_store \in Backends /\ (strict => Secrets!open_store # "plaintext")
BY DEF Store, Backends, Secrets!open_store

\* A token set just validated.
LEMMA Valid ==
  ASSUME Secrets!CredentialsAssumption, Budget, NEW t \in Accounts, NEW n \in 1 .. MaxAuths
  PROVE  [token |-> t, app |-> t, id |-> t, grant |-> n, access |-> 0] \in Own
BY DEF Secrets!CredentialsAssumption, Own, Secrets!Tokens

LEMMA AuthStep ==
  ASSUME Secrets!CredentialsAssumption, SecretsInv, Secrets!Auth
  PROVE  SecretsInv'
<1> USE DEF Secrets!AuthUnchanged
<1>1. /\ Store /\ Authorising /\ Calling /\ Telling /\ Budget /\ plugin \in Clients
      /\ Calling' /\ Telling' /\ plugin' \in Clients
  <2>1. UNCHANGED <<plugin, strict, client, status>>
    BY DEF Secrets!Auth, Secrets!AuthOpens, Secrets!AuthFails, Secrets!AuthSaves, Secrets!AuthRenames,
           Secrets!AuthKilled, Secrets!SlackValidates, Secrets!JiraValidates, Secrets!LlmValidates,
           Secrets!DiscordValidates, Secrets!DeviceFlow
  <2> QED
    BY <2>1 DEF SecretsInv, Calling, Telling
<1>2. CASE Secrets!AuthOpens
  <2>1. Store' /\ Budget'
    BY <1>1, <1>2 DEF Secrets!AuthOpens, Secrets!MayAuth, Store, Budget, Secrets!CredentialsAssumption
  <2>2. Authorising'
    BY <1>1, <1>2, Opened DEF Secrets!AuthOpens, Secrets!MayAuth, Authorising, AuthPhases, Budget
  <2> QED
    BY <1>1, <2>1, <2>2 DEF SecretsInv
<1>3. CASE Secrets!AuthFails \/ Secrets!AuthKilled
  BY <1>1, <1>3 DEF SecretsInv, Secrets!AuthFails, Secrets!AuthKilled, Store, Authorising, AuthPhases, Budget
<1>4. ASSUME NEW t \in Accounts, NEW app \in Accounts, Secrets!SlackValidates(t, app)
      PROVE  SecretsInv'
  <2>1. Store' /\ Budget'
    BY <1>1, <1>4 DEF Secrets!SlackValidates, Store, Budget
  <2>2. Authorising'
    <3>1. CASE t = app
      <4>1. Secrets!Validated(t, app) \in Own
        BY <1>1, <1>4, <3>1, Valid DEF Secrets!SlackValidates, Secrets!Validated, Authorising, Budget
      <4> QED
        BY <1>1, <1>4, <3>1, <4>1 DEF Secrets!SlackValidates, Authorising, AuthPhases
    <3>2. CASE t # app
      BY <1>1, <1>4, <3>2 DEF Secrets!SlackValidates, Authorising, AuthPhases
    <3> QED
      BY <3>1, <3>2
  <2> QED
    BY <1>1, <2>1, <2>2 DEF SecretsInv
<1>5. ASSUME NEW t \in Accounts, Secrets!JiraValidates(t) \/ Secrets!LlmValidates(t) \/ Secrets!DeviceFlow(t)
      PROVE  SecretsInv'
  <2>1. /\ auth.phase = "opened" /\ auth' = [auth EXCEPT !.phase = "valid", !.tokens = Secrets!Validated(t, t)]
        /\ UNCHANGED <<strict, keyring, tokenFile, backend, bound>>
    BY <1>5 DEF Secrets!JiraValidates, Secrets!LlmValidates, Secrets!DeviceFlow
  <2>2. Store' /\ Budget'
    BY <1>1, <2>1 DEF Store, Budget
  <2>3. Secrets!Validated(t, t) \in Own
    BY <1>1, <2>1, Valid DEF Secrets!Validated, Authorising, Budget
  <2>4. Authorising'
    BY <1>1, <2>1, <2>3 DEF Authorising, AuthPhases
  <2> QED
    BY <1>1, <2>2, <2>4 DEF SecretsInv
<1>6. ASSUME NEW t \in Accounts, Secrets!DiscordValidates(t)
      PROVE  SecretsInv'
  <2>1. Store' /\ Budget'
    BY <1>1, <1>6 DEF Secrets!DiscordValidates, Secrets!MayAuth, Store, Budget, Secrets!CredentialsAssumption
  <2>2. [Secrets!Validated(t, t) EXCEPT !.grant = bound.auths + 1] \in Own
    <3>1. bound.auths + 1 \in 1 .. MaxAuths
      BY <1>1, <1>6 DEF Secrets!DiscordValidates, Secrets!MayAuth, Budget, Secrets!CredentialsAssumption
    <3>2. [Secrets!Validated(t, t) EXCEPT !.grant = bound.auths + 1]
          = [token |-> t, app |-> t, id |-> t, grant |-> bound.auths + 1, access |-> 0]
      BY DEF Secrets!Validated
    <3> QED
      BY <1>1, <3>1, <3>2, Valid
  <2>3. Authorising'
    BY <1>1, <1>6, <2>2, Opened DEF Secrets!DiscordValidates, Secrets!MayAuth, Authorising, AuthPhases, Budget
  <2> QED
    BY <1>1, <2>1, <2>3 DEF SecretsInv
<1>7. CASE Secrets!AuthSaves
  <2>1. Store' /\ Budget'
    BY <1>1, <1>7 DEF Secrets!AuthSaves, Secrets!SaveSecret, Secrets!WriteTemp, Store, Authorising, Budget
  <2>2. Authorising'
    BY <1>1, <1>7 DEF Secrets!AuthSaves, Authorising, AuthPhases
  <2> QED
    BY <1>1, <2>1, <2>2 DEF SecretsInv
<1>8. CASE Secrets!AuthRenames
  BY <1>1, <1>8 DEF SecretsInv, Secrets!AuthRenames, Secrets!Rename, Store, Authorising, AuthPhases, Budget
<1> QED
  BY <1>2, <1>3, <1>4, <1>5, <1>6, <1>7, <1>8 DEF Secrets!Auth

LEMMA IdleCalls == ASSUME client' = Secrets!Idle PROVE Calling'
BY DEF Secrets!Idle, Calling, ClientPhases

LEMMA CallStep ==
  ASSUME Secrets!CredentialsAssumption, SecretsInv, Secrets!Call
  PROVE  SecretsInv'
<1> USE DEF Secrets!CallUnchanged
<1>1. /\ Store /\ Authorising /\ Calling /\ Telling /\ Budget /\ plugin \in Clients
      /\ Telling' /\ plugin' \in Clients
  BY DEF SecretsInv, Secrets!Call, Secrets!NewClient, Secrets!EnsureFresh, Secrets!GetRaw, Secrets!Refresh,
         Secrets!SaveRefreshed, Secrets!RenameRefreshed, Telling
<1>2. Authorising' /\ Budget'
  <2>1. UNCHANGED <<auth, strict, backend>> /\ bound'.auths = bound.auths /\ Budget'
    BY <1>1 DEF Secrets!Call, Secrets!NewClient, Secrets!EnsureFresh, Secrets!GetRaw, Secrets!Refresh,
         Secrets!SaveRefreshed, Secrets!RenameRefreshed, Budget, Secrets!CredentialsAssumption
  <2> QED
    BY <1>1, <2>1 DEF Authorising
<1>3. CASE Secrets!NewClient
  <2>1. Secrets!Load(backend) \in Own
    BY <1>1, <1>3 DEF Secrets!NewClient, Secrets!Load, Store, Backends
  <2>2. Store'
    BY <1>1, <1>3 DEF Secrets!NewClient, Store
  <2>3. client' = [phase |-> "loaded", tokens |-> Secrets!Load(backend), fresh |-> Nil, then |-> Nil]
    BY <1>3 DEF Secrets!NewClient, Secrets!Idle
  <2>4. Calling'
    BY <2>1, <2>3 DEF Calling, ClientPhases
  <2> QED
    BY <1>1, <1>2, <2>2, <2>4 DEF SecretsInv
<1>4. CASE Secrets!EnsureFresh \/ Secrets!GetRaw
  <2>1. Store'
    BY <1>1, <1>4 DEF Secrets!EnsureFresh, Secrets!GetRaw, Store
  <2>2. /\ client.phase \in {"loaded", "asking", "retry"}
        /\ \/ client' = [client EXCEPT !.phase = "asking"]
           \/ client' = [client EXCEPT !.phase = "due", !.then = "asking"]
           \/ client' = [client EXCEPT !.phase = "due", !.then = "retry"]
           \/ client' = Secrets!Idle
    BY <1>4 DEF Secrets!EnsureFresh, Secrets!GetRaw
  <2>3. Calling'
    <3>1. CASE client' = [client EXCEPT !.phase = "asking"]
      BY <1>1, <2>2, <3>1 DEF Calling, ClientPhases
    <3>2. ASSUME NEW then \in {"asking", "retry"}, client' = [client EXCEPT !.phase = "due", !.then = then]
          PROVE  Calling'
      BY <1>1, <2>2, <3>2 DEF Calling, ClientPhases
    <3> QED
      BY <2>2, <3>1, <3>2, IdleCalls
  <2> QED
    BY <1>1, <1>2, <2>1, <2>3 DEF SecretsInv
<1>5. CASE Secrets!Refresh
  <2>1. bound.refreshes < MaxRefreshes => [client.tokens EXCEPT !.access = bound.refreshes + 1] \in Own
    BY <1>1, <1>5 DEF Secrets!Refresh, Calling, Own, Secrets!Tokens, Budget, Secrets!CredentialsAssumption
  <2>2. Store'
    BY <1>1, <1>5 DEF Secrets!Refresh, Store
  <2> DEFINE t == [client.tokens EXCEPT !.access = bound.refreshes + 1]
  <2>3. /\ client.phase = "due"
        /\ \/ t \in Own /\ client' = [client EXCEPT !.phase = "refreshed", !.fresh = t]
           \/ client' = Secrets!Idle
    BY <1>5, <2>1 DEF Secrets!Refresh
  <2> HIDE DEF t
  <2>4. Calling'
    <3>1. CASE t \in Own /\ client' = [client EXCEPT !.phase = "refreshed", !.fresh = t]
      BY <1>1, <2>3, <3>1 DEF Calling, ClientPhases
    <3> QED
      BY <2>3, <3>1, IdleCalls
  <2> QED
    BY <1>1, <1>2, <2>2, <2>4 DEF SecretsInv
<1>6. CASE Secrets!SaveRefreshed
  <2>1. Store'
    BY <1>1, <1>6 DEF Secrets!SaveRefreshed, Secrets!SaveSecret, Secrets!WriteTemp, Store, Calling
  <2>2. /\ client.phase = "refreshed"
        /\ \/ client' = [client EXCEPT !.phase = client.then, !.tokens = client.fresh, !.fresh = Nil]
           \/ client' = [client EXCEPT !.phase = "written"] /\ ~strict
           \/ client' = Secrets!Idle
        /\ UNCHANGED strict
    BY <1>1, <1>6 DEF Secrets!SaveRefreshed, Secrets!Refreshed, Store
  <2>3. Calling'
    <3>1. CASE client' = [client EXCEPT !.phase = client.then, !.tokens = client.fresh, !.fresh = Nil]
      BY <1>1, <2>2, <3>1 DEF Calling, ClientPhases
    <3>2. CASE client' = [client EXCEPT !.phase = "written"] /\ ~strict
      BY <1>1, <2>2, <3>2 DEF Calling, ClientPhases
    <3> QED
      BY <2>2, <3>1, <3>2, IdleCalls
  <2> QED
    BY <1>1, <1>2, <2>1, <2>3 DEF SecretsInv
<1>7. CASE Secrets!RenameRefreshed
  <2>1. Store'
    BY <1>1, <1>7 DEF Secrets!RenameRefreshed, Secrets!Rename, Store, Calling
  <2>2. Calling'
    BY <1>1, <1>7 DEF Secrets!RenameRefreshed, Secrets!Refreshed, Calling, ClientPhases
  <2> QED
    BY <1>1, <1>2, <2>1, <2>2 DEF SecretsInv
<1> QED
  BY <1>3, <1>4, <1>5, <1>6, <1>7 DEF Secrets!Call

LEMMA SecretsNext ==
  ASSUME Secrets!CredentialsAssumption, SecretsInv, [Secrets!Next]_(Secrets!vars)
  PROVE  SecretsInv'
<1>1. CASE UNCHANGED Secrets!vars
  BY <1>1 DEF Secrets!vars, SecretsInv, Store, Authorising, Calling, Telling, Budget
<1>2. CASE \/ Secrets!StatusResolves \/ Secrets!StatusReports \/ Secrets!LlmStatusLoads
           \/ Secrets!LlmStatusReports \/ Secrets!StatusDone
  <2>1. UNCHANGED <<plugin, env, strict, keyring, tokenFile, backend, auth, client, expired, bound>>
    BY <1>2 DEF Secrets!StatusUnchanged, Secrets!StatusResolves, Secrets!StatusReports, Secrets!LlmStatusLoads,
                Secrets!LlmStatusReports, Secrets!StatusDone
  <2>2. \E phase \in {"quiet", "resolved", "loaded", "reported"} : \E resolved, whose :
          status' = [phase |-> phase, resolved |-> resolved, identity |-> whose]
    <3>1. status = [phase |-> status.phase, resolved |-> status.resolved, identity |-> status.identity]
      BY DEF SecretsInv, Telling
    <3>2. Secrets!StatusReports => status' = [phase |-> "reported", resolved |-> status.resolved,
                                               identity |-> Secrets!Identity]
      BY <3>1 DEF Secrets!StatusReports
    <3> QED
      BY <1>2, <3>2 DEF Secrets!StatusResolves, Secrets!LlmStatusLoads, Secrets!LlmStatusReports,
                        Secrets!StatusDone, Secrets!Quiet
  <2>3. Telling'
    BY <2>2 DEF Telling
  <2> QED
    BY <2>1, <2>3 DEF SecretsInv, Store, Authorising, Calling, Budget
<1>3. CASE Secrets!Lock
  <2>1. /\ keyring \in [up : BOOLEAN, entry : Own \cup {Nil}] /\ keyring' = [keyring EXCEPT !.up = ~keyring.up]
        /\ UNCHANGED <<plugin, strict, tokenFile, backend, auth, client, status>>
    BY <1>3 DEF Secrets!Lock, SecretsInv, Store
  <2>2. keyring' \in [up : BOOLEAN, entry : Own \cup {Nil}]
    <3>1. (~keyring.up) \in BOOLEAN
      OBVIOUS
    <3> QED
      BY <2>1, <3>1
  <2>3. Budget' /\ bound'.auths = bound.auths
    BY <1>3 DEF Secrets!Lock, SecretsInv, Budget, Secrets!CredentialsAssumption
  <2>4. Store' /\ Authorising'
    BY <2>1, <2>2, <2>3 DEF SecretsInv, Store, Authorising
  <2> QED
    BY <2>1, <2>3, <2>4 DEF SecretsInv, Calling, Telling
<1>4. CASE Secrets!Expire
  BY <1>4 DEF Secrets!Expire, SecretsInv, Store, Authorising, Calling, Telling, Budget
<1>5. CASE Secrets!Restart
  BY <1>5, Opened DEF Secrets!Restart, SecretsInv, Store, Authorising, Calling, Telling, Budget, Secrets!Idle,
     Secrets!Quiet, ClientPhases
<1> QED
  BY <1>1, <1>2, <1>3, <1>4, <1>5, AuthStep, CallStep DEF Secrets!Next

LEMMA SecretsPromises ==
  ASSUME Secrets!CredentialsAssumption, SecretsInv
  PROVE  Secrets!TypeOK /\ Secrets!IdentityIsTheTokens /\ Secrets!StoreIsWhole
<1>1. Secrets!TypeOK
  BY DEF SecretsInv, Store, Authorising, Calling, Telling, Own, Backends, AuthPhases, ClientPhases, Secrets!TypeOK
<1>2. Secrets!StoreIsWhole
  BY DEF SecretsInv, Store, Own, Secrets!CredentialsAssumption, Secrets!StoreIsWhole
<1>3. Secrets!Load(backend) = Nil \/ Secrets!Load(backend).id = Secrets!Load(backend).token
  BY DEF SecretsInv, Store, Own, Backends, Secrets!Load
<1>4. Secrets!IdentityIsTheTokens
  BY <1>3 DEF SecretsInv, Secrets!CredentialsAssumption, Secrets!IdentityIsTheTokens, Secrets!Resolved,
     Secrets!SlackCredentials, Secrets!DiscordCredentials, Secrets!LlmKey, Secrets!JiraCredentials,
     Secrets!CalendarCredentials
<1> QED
  BY <1>1, <1>2, <1>4

-----------------------------------------------------------------------------
(* What is kept of the records *)

BookKept == part = "bookmark" => BookInv
LlmKept == part = "llm" => LlmInv
JiraKept == part = "jira" => JiraInv
CalKept == part = "calendar" => CalInv
SecretsKept == part = "credentials" => SecretsInv

RecordsKept == KbKept /\ BookKept /\ LlmKept /\ JiraKept /\ CalKept /\ SecretsKept

\* What RecordsAreTrue says of each record, and no more, however many processes, pages,
\* calls, tickets, comments, events and accounts there are: of bookmarks, for any number
\* of processes that list, add, change and remove; of the log of llm, but for the writes
\* that were cut short; of Jira, for one run of the plugin; of the calendar, for each run,
\* while the set of what was published fits and the failing ticks and their work fit into
\* the band; of an account, that what is stored is whole and its own.
THEOREM RecordsTrue == Spec => []RecordsAreTrue
<1>1. Init => RecordsKept
  <2> SUFFICES ASSUME Init PROVE RecordsKept
    OBVIOUS
  <2>1. KbKept
    BY KbInit, PluginsAssumption DEF Init, KbKept, PluginsAssumption
  <2>2. BookKept
    BY BookInit, PluginsAssumption DEF Init, BookKept, PluginsAssumption
  <2>3. LlmKept
    BY LlmInit, PluginsAssumption DEF Init, LlmKept, PluginsAssumption
  <2>4. JiraKept
    BY JiraInit, PluginsAssumption DEF Init, JiraKept, PluginsAssumption
  <2>5. CalKept
    BY CalInit, PluginsAssumption DEF Init, CalKept, PluginsAssumption
  <2>6. SecretsKept
    BY SecretsInit, PluginsAssumption DEF Init, SecretsKept, PluginsAssumption
  <2> QED
    BY <2>1, <2>2, <2>3, <2>4, <2>5, <2>6 DEF RecordsKept
<1>2. RecordsKept /\ [Next]_vars => RecordsKept'
  <2> SUFFICES ASSUME RecordsKept, [Next]_vars PROVE RecordsKept'
    OBVIOUS
  <2>1. KbKept'
    BY Parts, KbNext, PluginsAssumption DEF RecordsKept, KbKept, PluginsAssumption
  <2>2. BookKept'
    BY Parts, BookNext, PluginsAssumption DEF RecordsKept, BookKept, PluginsAssumption
  <2>3. LlmKept'
    BY Parts, LlmNext, PluginsAssumption DEF RecordsKept, LlmKept, PluginsAssumption
  <2>4. JiraKept'
    BY Parts, JiraNext, PluginsAssumption DEF RecordsKept, JiraKept, PluginsAssumption
  <2>5. CalKept'
    BY Parts, CalNext, PluginsAssumption DEF RecordsKept, CalKept, PluginsAssumption
  <2>6. SecretsKept'
    BY Parts, SecretsNext, PluginsAssumption DEF RecordsKept, SecretsKept, PluginsAssumption
  <2> QED
    BY <2>1, <2>2, <2>3, <2>4, <2>5, <2>6 DEF RecordsKept
<1>3. RecordsKept => RecordsAreTrue
  <2> SUFFICES ASSUME RecordsKept PROVE RecordsAreTrue
    OBVIOUS
  <2>1. part = "kb" => Kb!TypeOK
    BY DEF RecordsKept, KbKept, KbInv
  <2>2. part = "bookmark" => Bookmarks!TypeOK /\ Bookmarks!AddedIsListed /\ Bookmarks!OnePerPage
    BY BookPromises DEF RecordsKept, BookKept
  <2>3. part = "llm" => Llm!TypeOK /\ Llm!UsageIsTrue
    BY LlmPromises DEF RecordsKept, LlmKept
  <2>4. part = "jira" => Jira!TypeOK /\ Jira!OncePerComment /\ Jira!SeenIsAnnounced /\ Jira!MineIsAnnounced
    BY JiraPromises DEF RecordsKept, JiraKept
  <2>5. part = "calendar" => Calendar!TypeOK /\ Calendar!RemindedInTime /\ Calendar!OncePerLead
    BY CalPromises, PluginsAssumption DEF RecordsKept, CalKept, PluginsAssumption
  <2>6. part = "credentials" => Secrets!TypeOK /\ Secrets!IdentityIsTheTokens /\ Secrets!StoreIsWhole
    BY SecretsPromises, PluginsAssumption DEF RecordsKept, SecretsKept, PluginsAssumption
  <2> QED
    BY <2>1, <2>2, <2>3, <2>4, <2>5, <2>6 DEF RecordsAreTrue
<1> QED
  BY <1>1, <1>2, <1>3, PTL DEF Spec

=============================================================================
