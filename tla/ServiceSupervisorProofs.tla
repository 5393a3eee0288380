------------------------ MODULE ServiceSupervisorProofs ------------------------
(***************************************************************************)
(* Safety of ServiceSupervisor for any number of children, calls, places   *)
(* and spawn requests, and any policy; and what holds besides of a service *)
(* that nothing but its start at startup and the supervisor starts.        *)
(***************************************************************************)
EXTENDS ServiceSupervisor, FiniteSetTheorems, SequenceTheorems,
        WellFoundedInduction, TLAPS

\* Where the spawner has a child that is not Running yet, and where that child
\* has its channel and its wait thread.
ForkedSteps == {"wire", "insert", "initialize", "await", "initialized", "transition"}
WiredSteps == ForkedSteps \ {"wire"}
StartSteps == ForkedSteps \cup {"claim", "fork"}

\* The fields of the handle are one child's from the fork on, unless an exit or
\* a failure takes the state away.
Wiring ==
  /\ outgoing # None => waitAt[outgoing] = "waiting"
  /\ spawnerAt \in ForkedSteps \cup {"reset", "forward"} => starting # None
  /\ state = "Starting" => spawnerAt \in ForkedSteps \cup {"fork", "fail"}
  /\ state = "Starting" /\ spawnerAt \in ForkedSteps => childPid = starting
  /\ state = "Starting" /\ spawnerAt \in WiredSteps => outgoing = starting
  /\ state = "Running" => spawnerAt \notin ForkedSteps \cup {"fork", "fail", "close", "flush"}
  /\ RunningIsWired

\* How far a call is, and what there is of it elsewhere.
Untried == {"new", "route", "buffered", "admit"}
Follows(v) ==
  /\ callAt[v] \in Untried =>
       waiter[v] = "none" /\ response[v] = "none" /\ v \notin pendingResponses
  /\ callAt[v] \in Untried \cup {"send"} => sentTo[v] = None
  /\ v \in pendingResponses => waiter[v] = "waiting" /\ response[v] = "none"
Calls == \A v \in Invocations : Follows(v)

\* The buffer holds each of its calls once.
Buffer ==
  /\ \A k \in DOMAIN pendingInvocations : callAt[pendingInvocations[k]] = "buffered"
  /\ \A j, k \in DOMAIN pendingInvocations :
       pendingInvocations[j] = pendingInvocations[k] => j = k

\* A Running service has calls in its buffer until the drain only.
Served ==
  /\ BufferedHasServer
  /\ pendingInvocations # <<>> /\ state = "Running" =>
       spawnerAt \in {"reset", "forward", "drain"}

Slots == WaiterActive <= WaiterMax

IInv ==
  TypeOK /\ Wiring /\ Calls /\ Buffer /\ Served /\ Slots /\ NoneWaitsForTheDead
-----------------------------------------------------------------------------
\* From here on: a service of which one start is under way at a time.

\* Seen to exit while it was Running, and not decided about yet.
Exiting(i) == wasRunning[i] /\ waitAt[i] \in {"stop", "take", "join", "fail", "decide"}
Undone(i) == proc[i] # "absent" /\ waitAt[i] # "done"

\* There is one start: asked for, under way, Running, or to be repeated.
OneStart ==
  /\ spawnRequests + timers \in {0, 1}
  /\ spawnRequests + timers = 1 => spawnerAt \notin StartSteps /\ state # "Running"
  /\ spawnerAt \in StartSteps => state # "Running"
  /\ \A i \in Instances : Exiting(i) =>
       spawnRequests + timers = 0 /\ spawnerAt \notin StartSteps /\ state # "Running"

\* A wait thread has nothing left to do when the next child is forked.
OneUndone ==
  /\ \A i, j \in Instances : Undone(i) /\ Undone(j) => i = j
  /\ spawnRequests + timers = 1 \/ spawnerAt \in {"claim", "fork"} =>
       \A i \in Instances : ~ Undone(i)
  /\ spawnerAt \in ForkedSteps => \A i \in Instances : Undone(i) => i = starting

\* The child that may be alive is on record.
OnRecord(i) ==
  /\ waitAt[i] = "none" <=> proc[i] = "absent" \/ (spawnerAt = "wire" /\ i = starting)
  /\ waitAt[i] \notin {"none", "waiting"} => Dead(i)
  /\ proc[i] # "absent" /\ waitAt[i] \in {"none", "waiting"} => childPid = i
Recorded ==
  /\ spawnerAt \in ForkedSteps => proc[starting] # "absent"
  /\ \A i \in Instances : OnRecord(i)

Swept ==
  /\ shutdownAt \in {"sweep", "done"} => spawnerAt = "exited"
  /\ SweepKillsAll

\* An initialize that is not answered is the last start's.
Unasked(x) == proc[x] = "absent" \/ (spawnerAt \in {"wire", "insert"} /\ x = starting)
NoneAfter(x) ==
  /\ spawnRequests + timers = 0 /\ state # "Running"
  /\ spawnerAt \notin StartSteps \ {"initialize", "await"}
  /\ spawnerAt \in {"initialize", "await"} => x = starting
  /\ \A i \in Instances : ~ Exiting(i) /\ (Undone(i) => i = x)
LastStart ==
  \A x \in Instances :
    /\ Unasked(x) => response[x] = "none" /\ x \notin pendingResponses
    /\ x \in pendingResponses => response[x] = "none" /\ NoneAfter(x)

SentToForked == \A v \in Invocations : sentTo[v] # None => proc[sentTo[v]] # "absent"

SInv ==
  IInv /\ OneStart /\ OneUndone /\ Recorded /\ Swept /\ LastStart /\ SentToForked
-----------------------------------------------------------------------------
(* Which steps write which variables *)

\* Who writes the handle ...
LEMMA HandleSteps ==
  ASSUME [Next]_vars
  PROVE  \/ UNCHANGED handleVars
         \/ Claim \/ Fork \/ Wire \/ Transition \/ ResetInstance \/ StartFails \/
            CloseOutgoing
         \/ \E i \in Instances : ExitSeen(i) \/ DecideRestart(i)
         \/ ShutdownMarks
<1>1. CASE UNCHANGED vars
  BY <1>1 DEF vars, callVars, childVars, forwarderVars, handleVars, requestVars,
     shutdownVars, spawnerVars, timerVars, waitVars
<1>2. CASE Spawner
  BY <1>2 DEF Spawner, SpawnerTakes, SpawnerExits, ForkFails, InsertInitialize,
     SendInitialize, InitializeAnswered, InitializeTimesOut, SendInitialized,
     SpawnForwarders, DrainOne, DrainEnds, FlushBuffer, Recheck, callVars, childVars,
     forwarderVars, handleVars, requestVars, shutdownVars, spawnerVars, timerVars,
     waitVars, elsewhere
<1>3. CASE \E i \in Instances : Child(i) \/ Read(i)
  BY <1>3 DEF Child, ChildReplies, ChildDies, Read, callVars, childVars, forwarderVars,
     handleVars, requestVars, shutdownVars, spawnerVars, timerVars, waitVars
<1>4. CASE \E i \in Instances : WaitThread(i)
  BY <1>4 DEF WaitThread, StopForwarders, TakeForwarders, JoinForwarders, FailPending,
     callVars, childVars, forwarderVars, handleVars, requestVars, shutdownVars,
     spawnerVars, timerVars, waitVars
<1>5. CASE \E i \in Instances : ForwarderStops(i) \/ ForwarderFails(i)
  BY <1>5 DEF ForwarderStops, ForwarderFails, callVars, childVars, forwarderVars,
     handleVars, requestVars, shutdownVars, spawnerVars, timerVars, waitVars
<1>6. CASE RestartTimerFires \/ ActivationEvent
  BY <1>6 DEF RestartTimerFires, ActivationEvent, callVars, childVars, forwarderVars,
     handleVars, requestVars, shutdownVars, spawnerVars, timerVars, waitVars
<1>7. CASE \E v \in Invocations : Caller(v) \/ Timeout(v)
  BY <1>7 DEF Caller, Timeout, Invoke, Route, Admit, SendFails, SendInvoke,
     WaiterSpawnFails, WaiterAnswers, WaiterTimesOut, Deadline, CallerTimesOut,
     callVars, childVars, forwarderVars, handleVars, requestVars, shutdownVars,
     spawnerVars, timerVars, waitVars, Sends
<1>8. CASE Shutdown
  BY <1>8 DEF Shutdown, ShutdownStep, ShutdownBegins, ShutdownNotifies,
     ShutdownClosesSpawner, ShutdownJoinsSpawner, ShutdownSweeps, callVars, childVars,
     forwarderVars, handleVars, requestVars, shutdownVars, spawnerVars, timerVars,
     waitVars
<1> QED BY <1>1, <1>2, <1>3, <1>4, <1>5, <1>6, <1>7, <1>8 DEF Next

\* ... where the spawner is ...
LEMMA SpawnerMoves ==
  ASSUME [Next]_vars
  PROVE  \/ UNCHANGED spawnerVars
         \/ Spawner
<1>1. CASE UNCHANGED vars
  BY <1>1 DEF vars, callVars, childVars, forwarderVars, handleVars, requestVars,
     shutdownVars, spawnerVars, timerVars, waitVars
<1>2. CASE \E i \in Instances : Child(i) \/ Read(i)
  BY <1>2 DEF Child, ChildReplies, ChildDies, Read, callVars, childVars, forwarderVars,
     handleVars, requestVars, shutdownVars, spawnerVars, timerVars, waitVars
<1>3. CASE \E i \in Instances : WaitThread(i)
  BY <1>3 DEF WaitThread, ExitSeen, StopForwarders, TakeForwarders, JoinForwarders,
     FailPending, DecideRestart, callVars, childVars, forwarderVars, handleVars,
     requestVars, shutdownVars, spawnerVars, timerVars, waitVars
<1>4. CASE \E i \in Instances : ForwarderStops(i) \/ ForwarderFails(i)
  BY <1>4 DEF ForwarderStops, ForwarderFails, callVars, childVars, forwarderVars,
     handleVars, requestVars, shutdownVars, spawnerVars, timerVars, waitVars
<1>5. CASE RestartTimerFires \/ ActivationEvent
  BY <1>5 DEF RestartTimerFires, ActivationEvent, callVars, childVars, forwarderVars,
     handleVars, requestVars, shutdownVars, spawnerVars, timerVars, waitVars
<1>6. CASE \E v \in Invocations : Caller(v) \/ Timeout(v)
  BY <1>6 DEF Caller, Timeout, Invoke, Route, Admit, SendFails, SendInvoke,
     WaiterSpawnFails, WaiterAnswers, WaiterTimesOut, Deadline, CallerTimesOut,
     callVars, childVars, forwarderVars, handleVars, requestVars, shutdownVars,
     spawnerVars, timerVars, waitVars, Sends
<1>7. CASE Shutdown
  BY <1>7 DEF Shutdown, ShutdownStep, ShutdownBegins, ShutdownNotifies, ShutdownMarks,
     ShutdownClosesSpawner, ShutdownJoinsSpawner, ShutdownSweeps, callVars, childVars,
     forwarderVars, handleVars, requestVars, shutdownVars, spawnerVars, timerVars,
     waitVars
<1> QED BY <1>1, <1>2, <1>3, <1>4, <1>5, <1>6, <1>7 DEF Next

\* ... where the wait threads are ...
LEMMA WaitThreadSteps ==
  ASSUME [Next]_vars
  PROVE  \/ UNCHANGED waitVars
         \/ Wire
         \/ \E i \in Instances : WaitThread(i)
<1>1. CASE UNCHANGED vars
  BY <1>1 DEF vars, callVars, childVars, forwarderVars, handleVars, requestVars,
     shutdownVars, spawnerVars, timerVars, waitVars
<1>2. CASE Spawner
  BY <1>2 DEF Spawner, SpawnerTakes, SpawnerExits, Claim, ForkFails, Fork,
     InsertInitialize, SendInitialize, InitializeAnswered, InitializeTimesOut,
     SendInitialized, Transition, ResetInstance, SpawnForwarders, DrainOne, DrainEnds,
     StartFails, CloseOutgoing, FlushBuffer, Recheck, callVars, childVars,
     forwarderVars, handleVars, requestVars, shutdownVars, spawnerVars, timerVars,
     waitVars, elsewhere
<1>3. CASE \E i \in Instances : Child(i) \/ Read(i)
  BY <1>3 DEF Child, ChildReplies, ChildDies, Read, callVars, childVars, forwarderVars,
     handleVars, requestVars, shutdownVars, spawnerVars, timerVars, waitVars
<1>4. CASE \E i \in Instances : ForwarderStops(i) \/ ForwarderFails(i)
  BY <1>4 DEF ForwarderStops, ForwarderFails, callVars, childVars, forwarderVars,
     handleVars, requestVars, shutdownVars, spawnerVars, timerVars, waitVars
<1>5. CASE RestartTimerFires \/ ActivationEvent
  BY <1>5 DEF RestartTimerFires, ActivationEvent, callVars, childVars, forwarderVars,
     handleVars, requestVars, shutdownVars, spawnerVars, timerVars, waitVars
<1>6. CASE \E v \in Invocations : Caller(v) \/ Timeout(v)
  BY <1>6 DEF Caller, Timeout, Invoke, Route, Admit, SendFails, SendInvoke,
     WaiterSpawnFails, WaiterAnswers, WaiterTimesOut, Deadline, CallerTimesOut,
     callVars, childVars, forwarderVars, handleVars, requestVars, shutdownVars,
     spawnerVars, timerVars, waitVars, Sends
<1>7. CASE Shutdown
  BY <1>7 DEF Shutdown, ShutdownStep, ShutdownBegins, ShutdownNotifies, ShutdownMarks,
     ShutdownClosesSpawner, ShutdownJoinsSpawner, ShutdownSweeps, callVars, childVars,
     forwarderVars, handleVars, requestVars, shutdownVars, spawnerVars, timerVars,
     waitVars
<1> QED BY <1>1, <1>2, <1>3, <1>4, <1>5, <1>6, <1>7 DEF Next

\* ... what runs and what it offers ...
LEMMA ProcessSteps ==
  ASSUME [Next]_vars
  PROVE  \/ UNCHANGED <<proc, offers>>
         \/ Fork \/ InitializeAnswered \/ InitializeTimesOut \/ Recheck
         \/ \E i \in Instances : ChildDies(i)
         \/ ShutdownSweeps
<1>1. CASE UNCHANGED vars
  BY <1>1 DEF vars, callVars, childVars, forwarderVars, handleVars, requestVars,
     shutdownVars, spawnerVars, timerVars, waitVars
<1>2. CASE Spawner
  BY <1>2 DEF Spawner, SpawnerTakes, SpawnerExits, Claim, ForkFails, Wire,
     InsertInitialize, SendInitialize, SendInitialized, Transition, ResetInstance,
     SpawnForwarders, DrainOne, DrainEnds, StartFails, CloseOutgoing, FlushBuffer,
     callVars, childVars, forwarderVars, handleVars, requestVars, shutdownVars,
     spawnerVars, timerVars, waitVars, elsewhere
<1>3. CASE \E i \in Instances : Child(i) \/ Read(i)
  BY <1>3 DEF Child, ChildReplies, Read, callVars, childVars, forwarderVars, handleVars,
     requestVars, shutdownVars, spawnerVars, timerVars, waitVars
<1>4. CASE \E i \in Instances : WaitThread(i)
  BY <1>4 DEF WaitThread, ExitSeen, StopForwarders, TakeForwarders, JoinForwarders,
     FailPending, DecideRestart, callVars, childVars, forwarderVars, handleVars,
     requestVars, shutdownVars, spawnerVars, timerVars, waitVars
<1>5. CASE \E i \in Instances : ForwarderStops(i) \/ ForwarderFails(i)
  BY <1>5 DEF ForwarderStops, ForwarderFails, callVars, childVars, forwarderVars,
     handleVars, requestVars, shutdownVars, spawnerVars, timerVars, waitVars
<1>6. CASE RestartTimerFires \/ ActivationEvent
  BY <1>6 DEF RestartTimerFires, ActivationEvent, callVars, childVars, forwarderVars,
     handleVars, requestVars, shutdownVars, spawnerVars, timerVars, waitVars
<1>7. CASE \E v \in Invocations : Caller(v) \/ Timeout(v)
  BY <1>7 DEF Caller, Timeout, Invoke, Route, Admit, SendFails, SendInvoke,
     WaiterSpawnFails, WaiterAnswers, WaiterTimesOut, Deadline, CallerTimesOut,
     callVars, childVars, forwarderVars, handleVars, requestVars, shutdownVars,
     spawnerVars, timerVars, waitVars, Sends
<1>8. CASE Shutdown
  BY <1>8 DEF Shutdown, ShutdownStep, ShutdownBegins, ShutdownNotifies, ShutdownMarks,
     ShutdownClosesSpawner, ShutdownJoinsSpawner, callVars, childVars, forwarderVars,
     handleVars, requestVars, shutdownVars, spawnerVars, timerVars, waitVars
<1> QED BY <1>1, <1>2, <1>3, <1>4, <1>5, <1>6, <1>7, <1>8 DEF Next

\* ... the pipes of the children ...
LEMMA PipeSteps ==
  ASSUME [Next]_vars
  PROVE  \/ UNCHANGED <<stdin, stdout>>
         \/ SendInitialize
         \/ \E i \in Instances : ChildReplies(i) \/ ChildDies(i) \/ Read(i)
         \/ \E v \in Invocations : SendInvoke(v) \/ WaiterSpawnFails(v)
<1>1. CASE UNCHANGED vars
  BY <1>1 DEF vars, callVars, childVars, forwarderVars, handleVars, requestVars,
     shutdownVars, spawnerVars, timerVars, waitVars
<1>2. CASE Spawner
  BY <1>2 DEF Spawner, SpawnerTakes, SpawnerExits, Claim, ForkFails, Fork, Wire,
     InsertInitialize, InitializeAnswered, InitializeTimesOut, SendInitialized,
     Transition, ResetInstance, SpawnForwarders, DrainOne, DrainEnds, StartFails,
     CloseOutgoing, FlushBuffer, Recheck, callVars, childVars, forwarderVars,
     handleVars, requestVars, shutdownVars, spawnerVars, timerVars, waitVars, elsewhere
<1>3. CASE \E i \in Instances : Child(i) \/ Read(i)
  BY <1>3 DEF Child, callVars, childVars, forwarderVars, handleVars, requestVars,
     shutdownVars, spawnerVars, timerVars, waitVars
<1>4. CASE \E i \in Instances : WaitThread(i)
  BY <1>4 DEF WaitThread, ExitSeen, StopForwarders, TakeForwarders, JoinForwarders,
     FailPending, DecideRestart, callVars, childVars, forwarderVars, handleVars,
     requestVars, shutdownVars, spawnerVars, timerVars, waitVars
<1>5. CASE \E i \in Instances : ForwarderStops(i) \/ ForwarderFails(i)
  BY <1>5 DEF ForwarderStops, ForwarderFails, callVars, childVars, forwarderVars,
     handleVars, requestVars, shutdownVars, spawnerVars, timerVars, waitVars
<1>6. CASE RestartTimerFires \/ ActivationEvent
  BY <1>6 DEF RestartTimerFires, ActivationEvent, callVars, childVars, forwarderVars,
     handleVars, requestVars, shutdownVars, spawnerVars, timerVars, waitVars
<1>7. CASE \E v \in Invocations : Caller(v) \/ Timeout(v)
  BY <1>7 DEF Caller, Timeout, Invoke, Route, Admit, SendFails, WaiterAnswers,
     WaiterTimesOut, Deadline, CallerTimesOut, callVars, childVars, forwarderVars,
     handleVars, requestVars, shutdownVars, spawnerVars, timerVars, waitVars
<1>8. CASE Shutdown
  BY <1>8 DEF Shutdown, ShutdownStep, ShutdownBegins, ShutdownNotifies, ShutdownMarks,
     ShutdownClosesSpawner, ShutdownJoinsSpawner, ShutdownSweeps, callVars, childVars,
     forwarderVars, handleVars, requestVars, shutdownVars, spawnerVars, timerVars,
     waitVars
<1> QED BY <1>1, <1>2, <1>3, <1>4, <1>5, <1>6, <1>7, <1>8 DEF Next

\* ... who waits for a response ...
LEMMA ResponseSteps ==
  ASSUME [Next]_vars
  PROVE  \/ UNCHANGED <<pendingResponses, response>>
         \/ InsertInitialize \/ InitializeTimesOut
         \/ \E i \in Instances : Read(i) \/ FailPending(i)
         \/ \E v \in Invocations : Admit(v) \/ SendFails(v) \/ WaiterSpawnFails(v) \/ WaiterTimesOut(v)
<1>1. CASE UNCHANGED vars
  BY <1>1 DEF vars, callVars, childVars, forwarderVars, handleVars, requestVars,
     shutdownVars, spawnerVars, timerVars, waitVars
<1>2. CASE Spawner
  BY <1>2 DEF Spawner, SpawnerTakes, SpawnerExits, Claim, ForkFails, Fork, Wire,
     SendInitialize, InitializeAnswered, SendInitialized, Transition, ResetInstance,
     SpawnForwarders, DrainOne, DrainEnds, StartFails, CloseOutgoing, FlushBuffer,
     Recheck, callVars, childVars, forwarderVars, handleVars, requestVars, shutdownVars,
     spawnerVars, timerVars, waitVars, elsewhere
<1>3. CASE \E i \in Instances : Child(i) \/ Read(i)
  BY <1>3 DEF Child, ChildReplies, ChildDies, callVars, childVars, forwarderVars,
     handleVars, requestVars, shutdownVars, spawnerVars, timerVars, waitVars
<1>4. CASE \E i \in Instances : WaitThread(i)
  BY <1>4 DEF WaitThread, ExitSeen, StopForwarders, TakeForwarders, JoinForwarders,
     DecideRestart, callVars, childVars, forwarderVars, handleVars, requestVars,
     shutdownVars, spawnerVars, timerVars, waitVars
<1>5. CASE \E i \in Instances : ForwarderStops(i) \/ ForwarderFails(i)
  BY <1>5 DEF ForwarderStops, ForwarderFails, callVars, childVars, forwarderVars,
     handleVars, requestVars, shutdownVars, spawnerVars, timerVars, waitVars
<1>6. CASE RestartTimerFires \/ ActivationEvent
  BY <1>6 DEF RestartTimerFires, ActivationEvent, callVars, childVars, forwarderVars,
     handleVars, requestVars, shutdownVars, spawnerVars, timerVars, waitVars
<1>7. CASE \E v \in Invocations : Caller(v) \/ Timeout(v)
  BY <1>7 DEF Caller, Timeout, Invoke, Route, SendInvoke, WaiterAnswers, Deadline,
     CallerTimesOut, callVars, childVars, forwarderVars, handleVars, requestVars,
     shutdownVars, spawnerVars, timerVars, waitVars, Sends
<1>8. CASE Shutdown
  BY <1>8 DEF Shutdown, ShutdownStep, ShutdownBegins, ShutdownNotifies, ShutdownMarks,
     ShutdownClosesSpawner, ShutdownJoinsSpawner, ShutdownSweeps, callVars, childVars,
     forwarderVars, handleVars, requestVars, shutdownVars, spawnerVars, timerVars,
     waitVars
<1> QED BY <1>1, <1>2, <1>3, <1>4, <1>5, <1>6, <1>7, <1>8 DEF Next

\* ... the buffer ...
LEMMA BufferSteps ==
  ASSUME [Next]_vars
  PROVE  \/ UNCHANGED pendingInvocations
         \/ DrainOne \/ FlushBuffer
         \/ \E v \in Invocations : Route(v)
<1>1. CASE UNCHANGED vars
  BY <1>1 DEF vars, callVars, childVars, forwarderVars, handleVars, requestVars,
     shutdownVars, spawnerVars, timerVars, waitVars
<1>2. CASE Spawner
  BY <1>2 DEF Spawner, SpawnerTakes, SpawnerExits, Claim, ForkFails, Fork, Wire,
     InsertInitialize, SendInitialize, InitializeAnswered, InitializeTimesOut,
     SendInitialized, Transition, ResetInstance, SpawnForwarders, DrainEnds, StartFails,
     CloseOutgoing, Recheck, callVars, childVars, forwarderVars, handleVars,
     requestVars, shutdownVars, spawnerVars, timerVars, waitVars, elsewhere
<1>3. CASE \E i \in Instances : Child(i) \/ Read(i)
  BY <1>3 DEF Child, ChildReplies, ChildDies, Read, callVars, childVars, forwarderVars,
     handleVars, requestVars, shutdownVars, spawnerVars, timerVars, waitVars
<1>4. CASE \E i \in Instances : WaitThread(i)
  BY <1>4 DEF WaitThread, ExitSeen, StopForwarders, TakeForwarders, JoinForwarders,
     FailPending, DecideRestart, callVars, childVars, forwarderVars, handleVars,
     requestVars, shutdownVars, spawnerVars, timerVars, waitVars
<1>5. CASE \E i \in Instances : ForwarderStops(i) \/ ForwarderFails(i)
  BY <1>5 DEF ForwarderStops, ForwarderFails, callVars, childVars, forwarderVars,
     handleVars, requestVars, shutdownVars, spawnerVars, timerVars, waitVars
<1>6. CASE RestartTimerFires \/ ActivationEvent
  BY <1>6 DEF RestartTimerFires, ActivationEvent, callVars, childVars, forwarderVars,
     handleVars, requestVars, shutdownVars, spawnerVars, timerVars, waitVars
<1>7. CASE \E v \in Invocations : Caller(v) \/ Timeout(v)
  BY <1>7 DEF Caller, Timeout, Invoke, Admit, SendFails, SendInvoke, WaiterSpawnFails,
     WaiterAnswers, WaiterTimesOut, Deadline, CallerTimesOut, callVars, childVars,
     forwarderVars, handleVars, requestVars, shutdownVars, spawnerVars, timerVars,
     waitVars, Sends
<1>8. CASE Shutdown
  BY <1>8 DEF Shutdown, ShutdownStep, ShutdownBegins, ShutdownNotifies, ShutdownMarks,
     ShutdownClosesSpawner, ShutdownJoinsSpawner, ShutdownSweeps, callVars, childVars,
     forwarderVars, handleVars, requestVars, shutdownVars, spawnerVars, timerVars,
     waitVars
<1> QED BY <1>1, <1>2, <1>3, <1>4, <1>5, <1>6, <1>7, <1>8 DEF Next

\* ... what is asked of the spawner and what will be ...
LEMMA RequestSteps ==
  ASSUME [Next]_vars
  PROVE  \/ UNCHANGED <<spawnRequests, timerVars>>
         \/ SpawnerTakes
         \/ \E i \in Instances : DecideRestart(i)
         \/ RestartTimerFires \/ ActivationEvent
         \/ \E v \in Invocations : Route(v)
<1>1. CASE UNCHANGED vars
  BY <1>1 DEF vars, callVars, childVars, forwarderVars, handleVars, requestVars,
     shutdownVars, spawnerVars, timerVars, waitVars
<1>2. CASE Spawner
  BY <1>2 DEF Spawner, SpawnerExits, Claim, ForkFails, Fork, Wire, InsertInitialize,
     SendInitialize, InitializeAnswered, InitializeTimesOut, SendInitialized,
     Transition, ResetInstance, SpawnForwarders, DrainOne, DrainEnds, StartFails,
     CloseOutgoing, FlushBuffer, Recheck, callVars, childVars, forwarderVars,
     handleVars, requestVars, shutdownVars, spawnerVars, timerVars, waitVars, elsewhere
<1>3. CASE \E i \in Instances : Child(i) \/ Read(i)
  BY <1>3 DEF Child, ChildReplies, ChildDies, Read, callVars, childVars, forwarderVars,
     handleVars, requestVars, shutdownVars, spawnerVars, timerVars, waitVars
<1>4. CASE \E i \in Instances : WaitThread(i)
  BY <1>4 DEF WaitThread, ExitSeen, StopForwarders, TakeForwarders, JoinForwarders,
     FailPending, callVars, childVars, forwarderVars, handleVars, requestVars,
     shutdownVars, spawnerVars, timerVars, waitVars
<1>5. CASE \E i \in Instances : ForwarderStops(i) \/ ForwarderFails(i)
  BY <1>5 DEF ForwarderStops, ForwarderFails, callVars, childVars, forwarderVars,
     handleVars, requestVars, shutdownVars, spawnerVars, timerVars, waitVars
<1>6. CASE RestartTimerFires \/ ActivationEvent
  BY <1>6 DEF callVars, childVars, forwarderVars, handleVars, requestVars, shutdownVars,
     spawnerVars, timerVars, waitVars
<1>7. CASE \E v \in Invocations : Caller(v) \/ Timeout(v)
  BY <1>7 DEF Caller, Timeout, Invoke, Admit, SendFails, SendInvoke, WaiterSpawnFails,
     WaiterAnswers, WaiterTimesOut, Deadline, CallerTimesOut, callVars, childVars,
     forwarderVars, handleVars, requestVars, shutdownVars, spawnerVars, timerVars,
     waitVars, Sends
<1>8. CASE Shutdown
  BY <1>8 DEF Shutdown, ShutdownStep, ShutdownBegins, ShutdownNotifies, ShutdownMarks,
     ShutdownClosesSpawner, ShutdownJoinsSpawner, ShutdownSweeps, callVars, childVars,
     forwarderVars, handleVars, requestVars, shutdownVars, spawnerVars, timerVars,
     waitVars
<1> QED BY <1>1, <1>2, <1>3, <1>4, <1>5, <1>6, <1>7, <1>8 DEF Next

\* ... the forwarders ...
LEMMA ForwarderSteps ==
  ASSUME [Next]_vars
  PROVE  \/ UNCHANGED forwarderVars
         \/ ResetInstance \/ SpawnForwarders
         \/ \E i \in Instances : StopForwarders(i) \/ TakeForwarders(i) \/ ForwarderStops(i) \/ ForwarderFails(i)
<1>1. CASE UNCHANGED vars
  BY <1>1 DEF vars, callVars, childVars, forwarderVars, handleVars, requestVars,
     shutdownVars, spawnerVars, timerVars, waitVars
<1>2. CASE Spawner
  BY <1>2 DEF Spawner, SpawnerTakes, SpawnerExits, Claim, ForkFails, Fork, Wire,
     InsertInitialize, SendInitialize, InitializeAnswered, InitializeTimesOut,
     SendInitialized, Transition, DrainOne, DrainEnds, StartFails, CloseOutgoing,
     FlushBuffer, Recheck, callVars, childVars, forwarderVars, handleVars, requestVars,
     shutdownVars, spawnerVars, timerVars, waitVars, elsewhere
<1>3. CASE \E i \in Instances : Child(i) \/ Read(i)
  BY <1>3 DEF Child, ChildReplies, ChildDies, Read, callVars, childVars, forwarderVars,
     handleVars, requestVars, shutdownVars, spawnerVars, timerVars, waitVars
<1>4. CASE \E i \in Instances : WaitThread(i)
  BY <1>4 DEF WaitThread, ExitSeen, JoinForwarders, FailPending, DecideRestart,
     callVars, childVars, forwarderVars, handleVars, requestVars, shutdownVars,
     spawnerVars, timerVars, waitVars
<1>5. CASE \E i \in Instances : ForwarderStops(i) \/ ForwarderFails(i)
  BY <1>5 DEF callVars, childVars, forwarderVars, handleVars, requestVars, shutdownVars,
     spawnerVars, timerVars, waitVars
<1>6. CASE RestartTimerFires \/ ActivationEvent
  BY <1>6 DEF RestartTimerFires, ActivationEvent, callVars, childVars, forwarderVars,
     handleVars, requestVars, shutdownVars, spawnerVars, timerVars, waitVars
<1>7. CASE \E v \in Invocations : Caller(v) \/ Timeout(v)
  BY <1>7 DEF Caller, Timeout, Invoke, Route, Admit, SendFails, SendInvoke,
     WaiterSpawnFails, WaiterAnswers, WaiterTimesOut, Deadline, CallerTimesOut,
     callVars, childVars, forwarderVars, handleVars, requestVars, shutdownVars,
     spawnerVars, timerVars, waitVars, Sends
<1>8. CASE Shutdown
  BY <1>8 DEF Shutdown, ShutdownStep, ShutdownBegins, ShutdownNotifies, ShutdownMarks,
     ShutdownClosesSpawner, ShutdownJoinsSpawner, ShutdownSweeps, callVars, childVars,
     forwarderVars, handleVars, requestVars, shutdownVars, spawnerVars, timerVars,
     waitVars
<1> QED BY <1>1, <1>2, <1>3, <1>4, <1>5, <1>6, <1>7, <1>8 DEF Next

\* ... the callers ...
LEMMA CallerSteps ==
  ASSUME [Next]_vars
  PROVE  \/ UNCHANGED callVars
         \/ DrainOne \/ FlushBuffer
         \/ \E v \in Invocations : Caller(v) \/ Timeout(v)
<1>1. CASE UNCHANGED vars
  BY <1>1 DEF vars, callVars, childVars, forwarderVars, handleVars, requestVars,
     shutdownVars, spawnerVars, timerVars, waitVars
<1>2. CASE Spawner
  BY <1>2 DEF Spawner, SpawnerTakes, SpawnerExits, Claim, ForkFails, Fork, Wire,
     InsertInitialize, SendInitialize, InitializeAnswered, InitializeTimesOut,
     SendInitialized, Transition, ResetInstance, SpawnForwarders, DrainEnds, StartFails,
     CloseOutgoing, Recheck, callVars, childVars, forwarderVars, handleVars,
     requestVars, shutdownVars, spawnerVars, timerVars, waitVars, elsewhere
<1>3. CASE \E i \in Instances : Child(i) \/ Read(i)
  BY <1>3 DEF Child, ChildReplies, ChildDies, Read, callVars, childVars, forwarderVars,
     handleVars, requestVars, shutdownVars, spawnerVars, timerVars, waitVars
<1>4. CASE \E i \in Instances : WaitThread(i)
  BY <1>4 DEF WaitThread, ExitSeen, StopForwarders, TakeForwarders, JoinForwarders,
     FailPending, DecideRestart, callVars, childVars, forwarderVars, handleVars,
     requestVars, shutdownVars, spawnerVars, timerVars, waitVars
<1>5. CASE \E i \in Instances : ForwarderStops(i) \/ ForwarderFails(i)
  BY <1>5 DEF ForwarderStops, ForwarderFails, callVars, childVars, forwarderVars,
     handleVars, requestVars, shutdownVars, spawnerVars, timerVars, waitVars
<1>6. CASE RestartTimerFires \/ ActivationEvent
  BY <1>6 DEF RestartTimerFires, ActivationEvent, callVars, childVars, forwarderVars,
     handleVars, requestVars, shutdownVars, spawnerVars, timerVars, waitVars
<1>7. CASE Shutdown
  BY <1>7 DEF Shutdown, ShutdownStep, ShutdownBegins, ShutdownNotifies, ShutdownMarks,
     ShutdownClosesSpawner, ShutdownJoinsSpawner, ShutdownSweeps, callVars, childVars,
     forwarderVars, handleVars, requestVars, shutdownVars, spawnerVars, timerVars,
     waitVars
<1> QED BY <1>1, <1>2, <1>3, <1>4, <1>5, <1>6, <1>7 DEF Next

\* ... and how far shutdown_all is.
LEMMA ShutdownSteps ==
  ASSUME [Next]_vars
  PROVE  \/ UNCHANGED shutdownVars
         \/ Shutdown
<1>1. CASE UNCHANGED vars
  BY <1>1 DEF vars, callVars, childVars, forwarderVars, handleVars, requestVars,
     shutdownVars, spawnerVars, timerVars, waitVars
<1>2. CASE Spawner
  BY <1>2 DEF Spawner, SpawnerTakes, SpawnerExits, Claim, ForkFails, Fork, Wire,
     InsertInitialize, SendInitialize, InitializeAnswered, InitializeTimesOut,
     SendInitialized, Transition, ResetInstance, SpawnForwarders, DrainOne, DrainEnds,
     StartFails, CloseOutgoing, FlushBuffer, Recheck, callVars, childVars,
     forwarderVars, handleVars, requestVars, shutdownVars, spawnerVars, timerVars,
     waitVars, elsewhere
<1>3. CASE \E i \in Instances : Child(i) \/ Read(i)
  BY <1>3 DEF Child, ChildReplies, ChildDies, Read, callVars, childVars, forwarderVars,
     handleVars, requestVars, shutdownVars, spawnerVars, timerVars, waitVars
<1>4. CASE \E i \in Instances : WaitThread(i)
  BY <1>4 DEF WaitThread, ExitSeen, StopForwarders, TakeForwarders, JoinForwarders,
     FailPending, DecideRestart, callVars, childVars, forwarderVars, handleVars,
     requestVars, shutdownVars, spawnerVars, timerVars, waitVars
<1>5. CASE \E i \in Instances : ForwarderStops(i) \/ ForwarderFails(i)
  BY <1>5 DEF ForwarderStops, ForwarderFails, callVars, childVars, forwarderVars,
     handleVars, requestVars, shutdownVars, spawnerVars, timerVars, waitVars
<1>6. CASE RestartTimerFires \/ ActivationEvent
  BY <1>6 DEF RestartTimerFires, ActivationEvent, callVars, childVars, forwarderVars,
     handleVars, requestVars, shutdownVars, spawnerVars, timerVars, waitVars
<1>7. CASE \E v \in Invocations : Caller(v) \/ Timeout(v)
  BY <1>7 DEF Caller, Timeout, Invoke, Route, Admit, SendFails, SendInvoke,
     WaiterSpawnFails, WaiterAnswers, WaiterTimesOut, Deadline, CallerTimesOut,
     callVars, childVars, forwarderVars, handleVars, requestVars, shutdownVars,
     spawnerVars, timerVars, waitVars, Sends
<1> QED BY <1>1, <1>2, <1>3, <1>4, <1>5, <1>6, <1>7 DEF Next
-----------------------------------------------------------------------------
(* Types *)



\* Types of the service's handle.
LEMMA HandleTyped ==
  ASSUME TypeOK, Wiring, [Next]_vars
  PROVE  HandleTypes'
<1> USE DEF TypeOK, HandleTypes, States
<1>1. CASE UNCHANGED handleVars
  BY <1>1 DEF handleVars
<1>2. CASE Claim \/ StartFails \/ ShutdownMarks
  BY <1>2 DEF Claim, StartFails, ShutdownMarks, ShutdownStep
<1>3. CASE Fork
  BY <1>3 DEF Fork
<1>4. CASE Wire \/ CloseOutgoing
  BY <1>4 DEF Wire, CloseOutgoing, SpawnerTypes
<1>5. CASE Transition
  <2>1. starting \in Instances
    BY <1>5 DEF Transition, SpawnerTypes, Wiring, ForkedSteps
  <2>2. offers[starting] \in SUBSET Actions
    BY <2>1 DEF ChildTypes
  <2>3. runtimeProvides' = runtimeProvides \/ runtimeProvides' = {offers[starting]}
    BY <1>5 DEF Transition
  <2>4. runtimeProvides' \subseteq SUBSET Actions
    BY <2>2, <2>3
  <2>5. Cardinality({offers[starting]}) = 1
    BY FS_Singleton
  <2>6. Cardinality(runtimeProvides') <= 1
    <3>1. CASE runtimeProvides' = runtimeProvides
      BY <3>1
    <3>2. CASE runtimeProvides' = {offers[starting]}
      <4>1. Cardinality(runtimeProvides') = 1
        BY <2>5, <3>2, Zenon
      <4> QED BY <4>1
    <3> QED BY <2>3, <3>1, <3>2
  <2> QED BY <1>5, <2>4, <2>6 DEF Transition
<1>6. CASE ResetInstance
  BY <1>6 DEF ResetInstance
<1>7. ASSUME NEW i \in Instances, ExitSeen(i) PROVE HandleTypes'
  <2>1. Cardinality(runtimeProvides') <= 1 /\ runtimeProvides' \subseteq SUBSET Actions
    BY <1>7, FS_EmptySet DEF ExitSeen
  <2> QED BY <1>7, <2>1 DEF ExitSeen
<1>8. ASSUME NEW i \in Instances, DecideRestart(i) PROVE HandleTypes'
  BY <1>8 DEF DecideRestart, timerVars
<1> QED BY <1>1, <1>2, <1>3, <1>4, <1>5, <1>6, <1>7, <1>8, HandleSteps

\* Types of the children.
LEMMA ProcessTyped ==
  ASSUME TypeOK, [Next]_vars
  PROVE  proc' \in [Instances -> Processes] /\ offers' \in [Instances -> SUBSET Actions]
<1> USE DEF TypeOK, ChildTypes, Processes
<1>1. CASE UNCHANGED <<proc, offers>>
  BY <1>1
<1>2. CASE Fork
  BY <1>2, OffersAssumption DEF Fork
<1>3. CASE InitializeAnswered \/ InitializeTimesOut \/ Recheck \/ ShutdownSweeps
  BY <1>3 DEF InitializeAnswered, InitializeTimesOut, Recheck, ShutdownSweeps, ShutdownStep,
     Killed
<1>4. ASSUME NEW i \in Instances, ChildDies(i)
      PROVE  proc' \in [Instances -> Processes] /\ offers' \in [Instances -> SUBSET Actions]
  BY <1>4 DEF ChildDies
<1> QED BY <1>1, <1>2, <1>3, <1>4, ProcessSteps

\* Types of their pipes.
LEMMA PipesTyped ==
  ASSUME TypeOK, Wiring, [Next]_vars
  PROVE  /\ stdin' \in [Instances -> SUBSET Ids]
         /\ stdout' \in [Instances -> SUBSET (Ids \X {"ok", "error"})]
<1> USE DEF TypeOK, ChildTypes
<1>1. CASE UNCHANGED <<stdin, stdout>>
  BY <1>1
<1>2. CASE SendInitialize
  <2>1. starting \in Ids
    BY <1>2 DEF SendInitialize, SpawnerTypes, Wiring, ForkedSteps, Ids
  <2> QED BY <1>2, <2>1 DEF SendInitialize, Deliver
<1>3. ASSUME NEW i \in Instances, ChildReplies(i) \/ ChildDies(i) \/ Read(i)
      PROVE  /\ stdin' \in [Instances -> SUBSET Ids]
             /\ stdout' \in [Instances -> SUBSET (Ids \X {"ok", "error"})]
  BY <1>3 DEF ChildReplies, ChildDies, Read
<1>4. ASSUME NEW v \in Invocations, SendInvoke(v) \/ WaiterSpawnFails(v)
      PROVE  /\ stdin' \in [Instances -> SUBSET Ids]
             /\ stdout' \in [Instances -> SUBSET (Ids \X {"ok", "error"})]
  <2>1. v \in Ids
    BY DEF Ids
  <2> QED BY <1>4, <2>1 DEF SendInvoke, WaiterSpawnFails, Sends, Deliver
<1> QED BY <1>1, <1>2, <1>3, <1>4, PipeSteps

\* Types of the pending responses.
LEMMA ResponsesTyped ==
  ASSUME TypeOK, Wiring, [Next]_vars
  PROVE  pendingResponses' \subseteq Ids /\ response' \in [Ids -> Responses]
<1> USE DEF TypeOK, RequestTypes, Responses
<1>1. CASE UNCHANGED <<pendingResponses, response>>
  BY <1>1
<1>2. CASE InsertInitialize
  <2>1. starting \in Ids
    BY <1>2 DEF InsertInitialize, SpawnerTypes, Wiring, ForkedSteps, Ids
  <2> QED BY <1>2, <2>1 DEF InsertInitialize
<1>3. CASE InitializeTimesOut
  BY <1>3 DEF InitializeTimesOut
<1>4. ASSUME NEW i \in Instances, Read(i) \/ FailPending(i)
      PROVE  pendingResponses' \subseteq Ids /\ response' \in [Ids -> Responses]
  BY <1>4 DEF Read, FailPending, ChildTypes
<1>5. ASSUME NEW v \in Invocations, Admit(v) \/ SendFails(v) \/ WaiterSpawnFails(v)
                                    \/ WaiterTimesOut(v)
      PROVE  pendingResponses' \subseteq Ids /\ response' \in [Ids -> Responses]
  <2>1. v \in Ids
    BY DEF Ids
  <2> QED BY <1>5, <2>1 DEF Admit, SendFails, WaiterSpawnFails, WaiterTimesOut
<1> QED BY <1>1, <1>2, <1>3, <1>4, <1>5, ResponseSteps

\* Type of the buffer.
LEMMA BufferTyped ==
  ASSUME TypeOK, [Next]_vars
  PROVE  pendingInvocations' \in Seq(Invocations)
<1> USE DEF TypeOK, RequestTypes
<1>1. CASE UNCHANGED pendingInvocations
  BY <1>1
<1>2. CASE DrainOne \/ FlushBuffer
  BY <1>2, HeadTailProperties, EmptySeq DEF DrainOne, FlushBuffer
<1>3. ASSUME NEW v \in Invocations, Route(v) PROVE pendingInvocations' \in Seq(Invocations)
  BY <1>3, AppendProperties DEF Route, Buffers
<1> QED BY <1>1, <1>2, <1>3, BufferSteps

\* BackoffState::next_delay is a number of seconds.
LEMMA Delay == ASSUME TypeOK PROVE BackoffDelay \in Nat
<1>1. Least(failures, 6) \in 0 .. 6
  BY DEF TypeOK, HandleTypes, Least
<1>2. \A n \in 0 .. 6 : 2 ^ n \in Nat
  <2> TAKE n \in 0 .. 6
  <2>1. n = 0 \/ n = 1 \/ n = 2 \/ n = 3 \/ n = 4 \/ n = 5 \/ n = 6
    OBVIOUS
  <2>2. /\ 2 ^ 0 = 1 /\ 2 ^ 1 = 2 /\ 2 ^ 2 = 4 /\ 2 ^ 3 = 8 /\ 2 ^ 4 = 16 /\ 2 ^ 5 = 32
        /\ 2 ^ 6 = 64
    OBVIOUS
  <2>3. n = 0 => 2 ^ n \in Nat
    BY <2>2
  <2>4. n = 1 => 2 ^ n \in Nat
    BY <2>2
  <2>5. n = 2 => 2 ^ n \in Nat
    BY <2>2
  <2>6. n = 3 => 2 ^ n \in Nat
    BY <2>2
  <2>7. n = 4 => 2 ^ n \in Nat
    BY <2>2
  <2>8. n = 5 => 2 ^ n \in Nat
    BY <2>2
  <2>9. n = 6 => 2 ^ n \in Nat
    BY <2>2
  <2> QED BY <2>1, <2>3, <2>4, <2>5, <2>6, <2>7, <2>8, <2>9
<1>3. 2 ^ Least(failures, 6) \in Nat
  BY <1>1, <1>2
<1> QED BY <1>3 DEF BackoffDelay, Least

\* Types of the requests to start and the timers behind them.
LEMMA SpawnRequestsTyped ==
  ASSUME TypeOK, [Next]_vars
  PROVE  spawnRequests' \in Nat /\ timers' \in Nat /\ delays' \in Seq(Nat)
<1> USE DEF TypeOK, RequestTypes, ThreadTypes
<1>1. CASE UNCHANGED <<spawnRequests, timerVars>>
  BY <1>1 DEF timerVars
<1>2. CASE SpawnerTakes
  BY <1>2 DEF SpawnerTakes, elsewhere, timerVars
<1>3. ASSUME NEW i \in Instances, DecideRestart(i)
      PROVE  spawnRequests' \in Nat /\ timers' \in Nat /\ delays' \in Seq(Nat)
  <2>1. Append(delays, BackoffDelay) \in Seq(Nat)
    BY Delay, AppendProperties
  <2>2. spawnRequests' = spawnRequests
    BY <1>3 DEF DecideRestart, requestVars
  <2>3. \/ timers' = timers + 1 /\ delays' = Append(delays, BackoffDelay)
        \/ timers' = timers /\ delays' = delays
    BY <1>3 DEF DecideRestart, timerVars
  <2>4. delays' \in Seq(Nat)
    BY <2>1, <2>3, Zenon
  <2>5. timers' \in Nat
    BY <2>3
  <2> QED BY <2>2, <2>4, <2>5
<1>4. CASE RestartTimerFires \/ ActivationEvent
  BY <1>4 DEF RestartTimerFires, ActivationEvent, RequestSpawn, timerVars
<1>5. ASSUME NEW v \in Invocations, Route(v)
      PROVE  spawnRequests' \in Nat /\ timers' \in Nat /\ delays' \in Seq(Nat)
  BY <1>5 DEF Route, RequestSpawn, timerVars
<1> QED BY <1>1, <1>2, <1>3, <1>4, <1>5, RequestSteps

\* Types of the spawner thread.
LEMMA SpawnerTyped ==
  ASSUME TypeOK, [Next]_vars
  PROVE  SpawnerTypes'
<1> USE DEF TypeOK, SpawnerTypes, SpawnerSteps
<1>1. CASE UNCHANGED spawnerVars
  BY <1>1 DEF spawnerVars
<1>2. CASE Fork
  BY <1>2 DEF Fork
<1>3. CASE DrainOne
  <2>1. pendingInvocations # <<>> => Head(pendingInvocations) \in Invocations
    BY HeadTailProperties DEF RequestTypes
  <2> QED BY <1>3, <2>1 DEF DrainOne
<1>4. CASE SpawnerTakes \/ SpawnerExits \/ Claim \/ ForkFails \/ Wire \/ InsertInitialize
           \/ SendInitialize \/ InitializeAnswered \/ InitializeTimesOut \/ SendInitialized
  BY <1>4 DEF SpawnerTakes, SpawnerExits, Claim, ForkFails, Wire, InsertInitialize,
     SendInitialize, InitializeAnswered, InitializeTimesOut, SendInitialized
<1>5. CASE Transition \/ ResetInstance \/ SpawnForwarders \/ DrainEnds \/ StartFails
           \/ CloseOutgoing \/ FlushBuffer \/ Recheck
  BY <1>5 DEF Transition, ResetInstance, SpawnForwarders, DrainEnds, StartFails,
     CloseOutgoing, FlushBuffer, Recheck
<1> QED BY <1>1, <1>2, <1>3, <1>4, <1>5, SpawnerMoves DEF Spawner

\* Types of the wait threads.
LEMMA ThreadsTyped ==
  ASSUME TypeOK, Wiring, [Next]_vars
  PROVE  /\ waitAt' \in [Instances -> WaitSteps] /\ wasRunning' \in [Instances -> BOOLEAN]
         /\ joining' \in [Instances -> SUBSET Instances]
<1> USE DEF TypeOK, ThreadTypes, WaitSteps
<1>1. CASE UNCHANGED waitVars
  BY <1>1 DEF waitVars
<1>2. CASE Wire
  BY <1>2 DEF Wire
<1>3. ASSUME NEW i \in Instances, WaitThread(i)
      PROVE  /\ waitAt' \in [Instances -> WaitSteps] /\ wasRunning' \in [Instances -> BOOLEAN]
             /\ joining' \in [Instances -> SUBSET Instances]
  BY <1>3 DEF WaitThread, ExitSeen, StopForwarders, TakeForwarders, JoinForwarders,
     FailPending, DecideRestart
<1> QED BY <1>1, <1>2, <1>3, WaitThreadSteps

\* Types of the forwarders.
LEMMA ForwardersTyped ==
  ASSUME TypeOK, Wiring, [Next]_vars
  PROVE  /\ forwarderStop' \in BOOLEAN /\ forwarderHandles' \subseteq Instances
         /\ forwarder' \in [Instances -> {"none", "on", "gone"}]
<1> USE DEF TypeOK, ThreadTypes
<1>1. CASE UNCHANGED forwarderVars
  BY <1>1 DEF forwarderVars
<1>2. CASE ResetInstance
  BY <1>2 DEF ResetInstance
<1>3. CASE SpawnForwarders
  <2>1. starting \in Instances
    BY <1>3 DEF SpawnerTypes, SpawnForwarders, Wiring
  <2> QED BY <1>3, <2>1 DEF SpawnForwarders
<1>4. ASSUME NEW i \in Instances, StopForwarders(i) \/ TakeForwarders(i) \/ ForwarderStops(i)
                                  \/ ForwarderFails(i)
      PROVE  /\ forwarderStop' \in BOOLEAN /\ forwarderHandles' \subseteq Instances
             /\ forwarder' \in [Instances -> {"none", "on", "gone"}]
  BY <1>4 DEF StopForwarders, TakeForwarders, ForwarderStops, ForwarderFails
<1> QED BY <1>1, <1>2, <1>3, <1>4, ForwarderSteps

\* Types of the calls.
LEMMA CallsTyped ==
  ASSUME TypeOK, [Next]_vars
  PROVE  CallTypes'
<1> USE DEF TypeOK, CallTypes, CallSteps, Results, Reply
<1>1. CASE UNCHANGED callVars
  BY <1>1 DEF callVars
<1>2. CASE DrainOne
  BY <1>2 DEF DrainOne
<1>3. CASE FlushBuffer
  BY <1>3 DEF FlushBuffer
<1>4. ASSUME NEW v \in Invocations, Invoke(v) \/ Route(v) \/ Admit(v) PROVE CallTypes'
  BY <1>4 DEF Invoke, Route, Buffers, Admit
<1>5. ASSUME NEW v \in Invocations, SendFails(v) \/ SendInvoke(v) \/ WaiterSpawnFails(v)
      PROVE  CallTypes'
  BY <1>5 DEF SendFails, SendInvoke, WaiterSpawnFails, Sends, HandleTypes
<1>6. ASSUME NEW v \in Invocations, WaiterAnswers(v) PROVE CallTypes'
  <2>1. response[v] \in Responses \ {"none"}
    BY <1>6 DEF WaiterAnswers, RequestTypes, Ids
  <2>2. ResultOf(response[v]) \in Results
    BY <2>1 DEF ResultOf, Responses
  <2> QED BY <1>6, <2>2 DEF WaiterAnswers
<1>7. ASSUME NEW v \in Invocations, WaiterTimesOut(v) PROVE CallTypes'
  BY <1>7 DEF WaiterTimesOut
<1>8. ASSUME NEW v \in Invocations, Deadline(v) PROVE CallTypes'
  BY <1>8 DEF Deadline
<1>9. ASSUME NEW v \in Invocations, CallerTimesOut(v) PROVE CallTypes'
  BY <1>9 DEF CallerTimesOut
<1> HIDE DEF TypeOK, CallTypes
<1> QED BY <1>1, <1>2, <1>3, <1>4, <1>5, <1>6, <1>7, <1>8, <1>9, CallerSteps
   DEF Caller, Timeout

\* Types of the shutdown.
LEMMA ShutdownTyped ==
  ASSUME TypeOK, [Next]_vars
  PROVE  ShutdownTypes'
<1>1. CASE UNCHANGED shutdownVars
  BY <1>1 DEF TypeOK, ShutdownTypes, shutdownVars
<1>2. CASE Shutdown
  BY <1>2 DEF TypeOK, ShutdownTypes, Shutdown, ShutdownStep, ShutdownBegins,
     ShutdownNotifies, ShutdownMarks, ShutdownClosesSpawner, ShutdownJoinsSpawner,
     ShutdownSweeps
<1> QED BY <1>1, <1>2, ShutdownSteps

\* Types of all variables.
LEMMA TypeStep ==
  ASSUME TypeOK, Wiring, [Next]_vars
  PROVE  TypeOK'
BY HandleTyped, ProcessTyped, PipesTyped, ResponsesTyped, BufferTyped, SpawnRequestsTyped,
   SpawnerTyped, ThreadsTyped, ForwardersTyped, CallsTyped, ShutdownTyped
   DEF TypeOK, RequestTypes, ChildTypes, ThreadTypes
-----------------------------------------------------------------------------
(* One child behind all the fields *)

\* The channel leads to a child whose exit nobody has seen.
LEMMA ChannelStep ==
  ASSUME TypeOK, Wiring, [Next]_vars
  PROVE  outgoing' # None => waitAt'[outgoing'] = "waiting"
<1> USE DEF TypeOK, HandleTypes, ThreadTypes, Wiring
<1>1. CASE Wire
  BY <1>1 DEF Wire, ForkedSteps, SpawnerTypes
<1>2. ASSUME NEW i \in Instances, WaitThread(i)
      PROVE  outgoing' # None => waitAt'[outgoing'] = "waiting"
  BY <1>2 DEF WaitThread, ExitSeen, StopForwarders, TakeForwarders, JoinForwarders,
     FailPending, DecideRestart, handleVars
<1>3. CASE UNCHANGED waitVars /\ (UNCHANGED outgoing \/ outgoing' = None)
  BY <1>3 DEF waitVars
<1>4. \/ UNCHANGED outgoing \/ outgoing' = None
      \/ Wire \/ \E i \in Instances : WaitThread(i)
  BY HandleSteps DEF handleVars, Claim, Fork, Transition, ResetInstance, StartFails,
     CloseOutgoing, ShutdownMarks, ShutdownStep, WaitThread
<1> HIDE DEF TypeOK, Wiring
<1> QED BY <1>1, <1>2, <1>3, <1>4, WaitThreadSteps

\* What the spawner's step does to the fields of the handle.
LEMMA WiringSpawner ==
  ASSUME TypeOK, Wiring, Spawner
  PROVE  Wiring' \/ ~ (outgoing' # None => waitAt'[outgoing'] = "waiting")
<1> SUFFICES ASSUME outgoing' # None => waitAt'[outgoing'] = "waiting" PROVE Wiring'
  OBVIOUS
<1> USE DEF TypeOK, HandleTypes, SpawnerTypes, ChildTypes, Wiring, RunningIsWired, ForkedSteps,
        WiredSteps, handleVars, childVars, elsewhere
<1>1. CASE SpawnerTakes \/ SpawnerExits \/ ForkFails
  BY <1>1 DEF SpawnerTakes, SpawnerExits, ForkFails, waitVars
<1>2. CASE Fork
  <2>1. None \notin Instances
    BY BoundsAssumption DEF None, Instances
  <2> QED BY <1>2, <2>1 DEF Fork, waitVars
<1>3. CASE Wire
  BY <1>3 DEF Wire
<1>4. CASE InsertInitialize \/ SendInitialize \/ InitializeAnswered \/ InitializeTimesOut
           \/ SendInitialized
  BY <1>4 DEF InsertInitialize, SendInitialize, InitializeAnswered, InitializeTimesOut,
     SendInitialized, waitVars
<1>5. CASE Transition
  BY <1>5 DEF Transition, waitVars
<1>6. CASE ResetInstance \/ SpawnForwarders \/ DrainOne \/ DrainEnds
  BY <1>6 DEF ResetInstance, SpawnForwarders, DrainOne, DrainEnds, waitVars, Draining
<1>7. CASE StartFails \/ CloseOutgoing \/ FlushBuffer \/ Recheck
  BY <1>7 DEF StartFails, CloseOutgoing, FlushBuffer, Recheck, waitVars
<1>8. CASE Claim
  BY <1>8 DEF Claim, waitVars
<1> HIDE DEF TypeOK, Wiring
<1> QED BY <1>1, <1>2, <1>3, <1>4, <1>5, <1>6, <1>7, <1>8 DEF Spawner

\* The channel, pid and threads of the service stay those of one child.
LEMMA WiringStep ==
  ASSUME TypeOK, Wiring, [Next]_vars
  PROVE  Wiring'
<1>1. CASE Spawner
  BY <1>1, ChannelStep, WiringSpawner
<1>2. ASSUME NEW i \in Instances, ExitSeen(i), UNCHANGED spawnerVars, UNCHANGED <<proc, offers>>
      PROVE  Wiring'
  BY <1>2, ChannelStep DEF ExitSeen, Wiring, RunningIsWired, spawnerVars
<1>3. CASE UNCHANGED handleVars /\ UNCHANGED spawnerVars
  <2>1. state' = "Running" => UNCHANGED offers
    BY <1>3, ProcessSteps DEF Wiring, handleVars, Fork, InitializeAnswered, InitializeTimesOut,
       Recheck, ChildDies, ShutdownSweeps, ShutdownStep
  <2> QED BY <1>3, <2>1, ChannelStep DEF Wiring, RunningIsWired, handleVars, spawnerVars
<1>4. CASE ShutdownMarks
  BY <1>4, ChannelStep DEF ShutdownMarks, ShutdownStep, Wiring, RunningIsWired, spawnerVars
<1>5. ASSUME NEW i \in Instances, DecideRestart(i)
      PROVE  Wiring'
  BY <1>5, ChannelStep DEF DecideRestart, Wiring, RunningIsWired, spawnerVars, childVars
<1>6. \A i \in Instances : ExitSeen(i) => UNCHANGED <<proc, offers>> /\ UNCHANGED spawnerVars
  BY DEF ExitSeen, childVars
<1>7. Claim \/ Fork \/ Wire \/ Transition \/ ResetInstance \/ StartFails \/ CloseOutgoing
      => Spawner
  BY DEF Spawner
<1> QED BY <1>1, <1>2, <1>3, <1>4, <1>5, <1>6, <1>7, HandleSteps, SpawnerMoves
-----------------------------------------------------------------------------
(* The calls and their buffer *)

\* An instance's number is no call.
LEMMA Apart == ASSUME NEW v \in Invocations PROVE v \notin Instances
  BY InvocationsAssumption DEF Instances

\* The first call of the buffer is one that waits there.
LEMMA Buffered ==
  ASSUME TypeOK, Buffer, pendingInvocations # <<>>
  PROVE  /\ Head(pendingInvocations) \in Invocations
         /\ callAt[Head(pendingInvocations)] = "buffered"
<1>1. Head(pendingInvocations) \in Invocations
  BY HeadTailProperties DEF TypeOK, RequestTypes
<1>2. 1 \in DOMAIN pendingInvocations
  BY EmptySeq DEF TypeOK, RequestTypes
<1>3. Head(pendingInvocations) = pendingInvocations[1]
  BY <1>2 DEF TypeOK, RequestTypes
<1> QED BY <1>1, <1>2, <1>3 DEF Buffer

\* A caller's step, or one of its timeouts, is about that call alone.
LEMMA CallersFollow ==
  ASSUME TypeOK, Calls, NEW v \in Invocations, Caller(v) \/ Timeout(v)
  PROVE  Calls'
<1> SUFFICES ASSUME NEW w \in Invocations PROVE Follows(w)'
  BY DEF Calls
<1> USE DEF TypeOK, CallTypes, RequestTypes, Ids, Reply
<1>0. Follows(v) /\ Follows(w)
  BY DEF Calls
<1>1. CASE Invoke(v)
  BY <1>0, <1>1 DEF Follows, Untried, Invoke, requestVars
<1>2. CASE Route(v)
  BY <1>0, <1>2 DEF Follows, Untried, Route, Buffers
<1>3. CASE Admit(v)
  BY <1>0, <1>3 DEF Follows, Untried, Admit
<1>4. CASE SendFails(v)
  BY <1>0, <1>4 DEF Follows, Untried, SendFails
<1>5. CASE SendInvoke(v)
  BY <1>0, <1>5 DEF Follows, Untried, SendInvoke, Sends, requestVars
<1>6. CASE WaiterSpawnFails(v)
  BY <1>0, <1>6 DEF Follows, Untried, WaiterSpawnFails, Sends
<1>7. CASE WaiterAnswers(v)
  BY <1>0, <1>7 DEF Follows, Untried, WaiterAnswers, requestVars
<1>8. CASE WaiterTimesOut(v)
  BY <1>0, <1>8 DEF Follows, Untried, WaiterTimesOut
<1>9. CASE Deadline(v) \/ CallerTimesOut(v)
  BY <1>0, <1>9 DEF Follows, Untried, Deadline, CallerTimesOut, requestVars
<1> QED BY <1>1, <1>2, <1>3, <1>4, <1>5, <1>6, <1>7, <1>8, <1>9 DEF Caller, Timeout

\* A call that is under way has its entry, its waiter and its place in the pipes.
LEMMA CallsStep ==
  ASSUME TypeOK, Wiring, Calls, Buffer, [Next]_vars
  PROVE  Calls'
<1>1. CASE \E v \in Invocations : Caller(v) \/ Timeout(v)
  BY <1>1, CallersFollow
<1>2. CASE UNCHANGED callVars
  <2> SUFFICES ASSUME NEW w \in Invocations, Follows(w) PROVE Follows(w)'
    BY DEF Calls
  <2> USE <1>2 DEF Follows, callVars
  <2>1. CASE UNCHANGED <<pendingResponses, response>>
    BY <2>1
  <2>2. CASE InsertInitialize
    <3>1. starting # w
      BY <2>2, Apart DEF InsertInitialize, TypeOK, SpawnerTypes, Wiring, ForkedSteps
    <3> QED BY <2>2, <3>1 DEF InsertInitialize
  <2>3. CASE InitializeTimesOut
    BY <2>3 DEF InitializeTimesOut
  <2>4. ASSUME NEW i \in Instances, Read(i) PROVE Follows(w)'
    <3>1. w \in pendingResponses' => w \in pendingResponses
      BY <2>4 DEF Read
    <3>2. response'[w] = response[w] \/ (w \in pendingResponses /\ w \notin pendingResponses')
      BY <2>4 DEF Read, TypeOK, RequestTypes, Ids
    <3> QED BY <3>1, <3>2
  <2>5. ASSUME NEW i \in Instances, FailPending(i) PROVE Follows(w)'
    BY <2>5 DEF FailPending, Ids
  <2>6. ASSUME NEW v \in Invocations, Admit(v) \/ SendFails(v) \/ WaiterSpawnFails(v)
                                      \/ WaiterTimesOut(v)
        PROVE  Follows(w)'
    BY <2>6, CallersFollow DEF Caller, Timeout, Calls
  <2> QED BY <2>1, <2>2, <2>3, <2>4, <2>5, <2>6, ResponseSteps
<1>3. CASE DrainOne
  <2> SUFFICES ASSUME NEW w \in Invocations, Follows(w) PROVE Follows(w)'
    BY DEF Calls
  <2>1. /\ pendingInvocations # <<>>
        /\ \/ callAt' = [callAt EXCEPT ![Head(pendingInvocations)] = "done"]
           \/ callAt' = [callAt EXCEPT ![Head(pendingInvocations)] = "admit"]
        /\ UNCHANGED <<pendingResponses, response, waiter, sentTo>>
    BY <1>3 DEF DrainOne, Reply
  <2>2. callAt'[w] = callAt[w] \/ callAt[w] = "buffered"
    BY <2>1, Buffered DEF TypeOK, CallTypes
  <2> QED BY <2>1, <2>2 DEF Follows, Untried
<1>4. CASE FlushBuffer
  <2> SUFFICES ASSUME NEW w \in Invocations, Follows(w) PROVE Follows(w)'
    BY DEF Calls
  <2>1. callAt'[w] = callAt[w] \/ callAt'[w] = "done"
    BY <1>4 DEF FlushBuffer
  <2>2. UNCHANGED <<pendingResponses, response, waiter, sentTo>>
    BY <1>4 DEF FlushBuffer
  <2>3. callAt'[w] # callAt[w] => callAt[w] = "buffered"
    BY <1>4 DEF FlushBuffer, Buffer
  <2> QED BY <2>1, <2>2, <2>3 DEF Follows, Untried
<1> QED BY <1>1, <1>2, <1>3, <1>4, CallerSteps

\* Elsewhere than in the buffer's own steps, what is in the buffer stays there.
LEMMA BufferKept ==
  ASSUME TypeOK, Buffer, UNCHANGED pendingInvocations,
         NEW v, callAt[v] # "buffered",
         \A w \in Invocations : w # v => callAt'[w] = callAt[w]
  PROVE  Buffer'
<1>1. \A k \in DOMAIN pendingInvocations : pendingInvocations[k] \in Invocations
  BY ElementOfSeq DEF TypeOK, RequestTypes
<1> QED BY <1>1 DEF Buffer

\* Buffered calls are in the buffer once.
LEMMA BufferStep ==
  ASSUME TypeOK, Buffer, [Next]_vars
  PROVE  Buffer'
<1>0. \A k \in DOMAIN pendingInvocations : pendingInvocations[k] \in Invocations
  BY ElementOfSeq DEF TypeOK, RequestTypes
<1>1. CASE UNCHANGED callVars /\ UNCHANGED pendingInvocations
  BY <1>1 DEF Buffer, callVars
<1>2. CASE DrainOne
  <2> DEFINE s == pendingInvocations
  <2>1. /\ s # <<>> /\ s' = Tail(s)
        /\ \/ callAt' = [callAt EXCEPT ![Head(s)] = "done"]
           \/ callAt' = [callAt EXCEPT ![Head(s)] = "admit"]
    BY <1>2 DEF DrainOne, Reply
  <2>2. s \in Seq(Invocations) /\ Len(s) \in Nat \ {0}
    BY <2>1, EmptySeq DEF TypeOK, RequestTypes
  <2>3. /\ s' \in Seq(Invocations) /\ Len(s') = Len(s) - 1
        /\ \A i \in 1 .. Len(s') : s'[i] = s[i + 1]
    BY <2>1, <2>2, HeadTailProperties
  <2>4. DOMAIN s' = 1 .. Len(s') /\ DOMAIN s = 1 .. Len(s) /\ Head(s) = s[1]
    BY <2>2, <2>3, LenProperties
  <2>5. \A i \in DOMAIN s' : i + 1 \in DOMAIN s /\ s'[i] = s[i + 1] /\ i + 1 # 1
    BY <2>2, <2>3, <2>4
  <2>6. \A i \in DOMAIN s' : callAt'[s'[i]] = "buffered"
    <3> TAKE i \in DOMAIN s'
    <3>1. s[i + 1] \in Invocations /\ callAt[s[i + 1]] = "buffered" /\ s[i + 1] # Head(s)
      BY <1>0, <2>2, <2>4, <2>5 DEF Buffer
    <3> QED BY <2>1, <2>5, <3>1 DEF TypeOK, CallTypes
  <2>7. \A i, j \in DOMAIN s' : s'[i] = s'[j] => i = j
    <3> TAKE i, j \in DOMAIN s'
    <3>1. s'[i] = s'[j] => i + 1 = j + 1
      BY <2>5 DEF Buffer
    <3> QED BY <2>2, <2>3, <2>4, <3>1
  <2> QED BY <2>6, <2>7 DEF Buffer
<1>3. CASE FlushBuffer
  BY <1>3 DEF FlushBuffer, Buffer
<1>4. ASSUME NEW v \in Invocations, Route(v) PROVE Buffer'
  <2> DEFINE s == pendingInvocations
  <2>1. callAt[v] = "route" /\ callAt' = [callAt EXCEPT ![v] = callAt'[v]]
    BY <1>4 DEF Route, Buffers, Reply, TypeOK, CallTypes
  <2>2. CASE UNCHANGED s
    BY <2>1, <2>2, BufferKept DEF TypeOK, CallTypes
  <2>3. CASE s' # s
    <3>1. s' = Append(s, v) /\ callAt'[v] = "buffered"
      BY <1>4, <2>3 DEF Route, Buffers, TypeOK, CallTypes
    <3>2. s \in Seq(Invocations)
      BY DEF TypeOK, RequestTypes
    <3>3. /\ Len(s) \in Nat /\ DOMAIN s = 1 .. Len(s) /\ DOMAIN s' = 1 .. Len(s) + 1
          /\ \A i \in 1 .. Len(s) : s'[i] = s[i]
          /\ s'[Len(s) + 1] = v
      BY <3>1, <3>2, AppendProperties, LenProperties
    <3>4. \A i \in DOMAIN s' : i = Len(s) + 1 \/ i \in DOMAIN s
      BY <3>3
    <3>5. \A i \in DOMAIN s : s[i] # v /\ callAt'[s[i]] = "buffered" /\ s[i] = s'[i]
      BY <1>0, <2>1, <3>3 DEF Buffer, TypeOK, CallTypes
    <3> QED BY <3>1, <3>3, <3>4, <3>5 DEF Buffer
  <2> QED BY <2>2, <2>3
<1>5. ASSUME NEW v \in Invocations, Caller(v) \/ Timeout(v), ~ Route(v) PROVE Buffer'
  <2>1. \/ UNCHANGED callAt
        \/ callAt[v] # "buffered" /\ callAt' = [callAt EXCEPT ![v] = callAt'[v]]
    BY <1>5 DEF Caller, Timeout, Invoke, Admit, SendFails, SendInvoke, WaiterSpawnFails, Sends,
       WaiterAnswers, WaiterTimesOut, Deadline, CallerTimesOut, Reply, TypeOK, CallTypes
  <2>2. UNCHANGED pendingInvocations
    BY <1>5 DEF Caller, Timeout, Invoke, Admit, SendFails, SendInvoke, WaiterSpawnFails, Sends,
       WaiterAnswers, WaiterTimesOut, Deadline, CallerTimesOut, requestVars
  <2>3. CASE UNCHANGED callAt
    BY <2>2, <2>3 DEF Buffer
  <2>4. CASE callAt[v] # "buffered" /\ callAt' = [callAt EXCEPT ![v] = callAt'[v]]
    BY <2>2, <2>4, BufferKept DEF TypeOK, CallTypes
  <2> QED BY <2>1, <2>3, <2>4
<1> QED BY <1>1, <1>2, <1>3, <1>4, <1>5, CallerSteps, BufferSteps
-----------------------------------------------------------------------------
(* Who empties the buffer, who holds a slot, who waits for the dead *)

\* Who waits in the buffer has somebody to serve it.
LEMMA ServedStep ==
  ASSUME TypeOK, Wiring, Served, [Next]_vars
  PROVE  Served'
<1> USE DEF Served, BufferedHasServer, Wiring, ForkedSteps
<1>1. CASE SpawnerTakes \/ SpawnerExits \/ Claim \/ ForkFails \/ Fork \/ Wire
           \/ InsertInitialize \/ SendInitialize
  BY <1>1 DEF SpawnerTakes, SpawnerExits, Claim, ForkFails, Fork, Wire, InsertInitialize,
     SendInitialize, handleVars, requestVars, elsewhere, shutdownVars, TypeOK, RequestTypes,
     ShutdownTypes
<1>2. CASE InitializeAnswered \/ InitializeTimesOut \/ SendInitialized \/ Transition
           \/ ResetInstance \/ SpawnForwarders
  BY <1>2 DEF InitializeAnswered, InitializeTimesOut, SendInitialized, Transition,
     ResetInstance, SpawnForwarders, handleVars, requestVars, elsewhere, shutdownVars
<1>3. CASE DrainOne \/ DrainEnds \/ StartFails \/ CloseOutgoing \/ FlushBuffer \/ Recheck
  BY <1>3 DEF DrainOne, Draining, DrainEnds, StartFails, CloseOutgoing, FlushBuffer, Recheck,
     handleVars, requestVars, elsewhere, shutdownVars
<1>4. ASSUME NEW i \in Instances, ExitSeen(i) \/ DecideRestart(i) PROVE Served'
  BY <1>4 DEF ExitSeen, DecideRestart, requestVars, spawnerVars, shutdownVars
<1>5. CASE RestartTimerFires \/ ActivationEvent
  BY <1>5 DEF RestartTimerFires, ActivationEvent, RequestSpawn, handleVars, spawnerVars,
     shutdownVars, TypeOK, RequestTypes, ShutdownTypes
<1>6. ASSUME NEW v \in Invocations, Route(v) PROVE Served'
  BY <1>6 DEF Route, Buffers, Accepted, BufferOpen, Draining, RequestSpawn, handleVars,
     spawnerVars, shutdownVars, TypeOK, HandleTypes, States, RequestTypes, ShutdownTypes,
     SpawnerTypes, SpawnerSteps
<1>7. CASE Shutdown
  BY <1>7 DEF Shutdown, ShutdownStep, ShutdownBegins, ShutdownNotifies, ShutdownMarks,
     ShutdownClosesSpawner, ShutdownJoinsSpawner, ShutdownSweeps, requestVars, spawnerVars
<1>8. CASE /\ UNCHANGED <<handleVars, spawnerVars, pendingInvocations, shutdownVars>>
           /\ UNCHANGED <<spawnRequests, timerVars>>
  BY <1>8 DEF handleVars, spawnerVars, shutdownVars
<1> HIDE DEF Served, Wiring
<1>9. Spawner => Served'
  BY <1>1, <1>2, <1>3 DEF Spawner
<1>10. \/ Spawner \/ Shutdown \/ RestartTimerFires \/ ActivationEvent
       \/ \E i \in Instances : ExitSeen(i) \/ DecideRestart(i)
       \/ \E v \in Invocations : Route(v)
       \/ /\ UNCHANGED <<handleVars, spawnerVars, pendingInvocations, shutdownVars>>
          /\ UNCHANGED <<spawnRequests, timerVars>>
  BY HandleSteps, SpawnerMoves, BufferSteps, RequestSteps, ShutdownSteps DEF Spawner, Shutdown
<1> QED BY <1>4, <1>5, <1>6, <1>7, <1>8, <1>9, <1>10

\* WaiterPermit: admission is the only step that takes a place.
LEMMA SlotsStep ==
  ASSUME TypeOK, Slots, [Next]_vars
  PROVE  Slots'
<1> DEFINE Waiting(w) == {v \in Invocations : w[v] = "waiting"}
<1>0. IsFiniteSet(Waiting(waiter)) /\ Cardinality(Waiting(waiter)) \in Nat
  BY InvocationsAssumption, FS_Subset, FS_CardinalityType
<1>1. ASSUME Waiting(waiter') \subseteq Waiting(waiter) PROVE Slots'
  <2>1. Cardinality(Waiting(waiter')) <= Cardinality(Waiting(waiter))
    BY <1>0, <1>1, FS_Subset
  <2>2. Cardinality(Waiting(waiter')) \in Nat
    BY InvocationsAssumption, FS_Subset, FS_CardinalityType
  <2> QED BY <1>0, <2>1, <2>2, BoundsAssumption DEF Slots, WaiterActive
<1>2. ASSUME NEW v \in Invocations, Admit(v) PROVE Slots'
  <2>1. CASE waiter' = waiter
    BY <1>1, <2>1
  <2>2. CASE WaiterActive < WaiterMax /\ waiter' = [waiter EXCEPT ![v] = "waiting"]
    <3>1. Waiting(waiter') = Waiting(waiter) \cup {v}
      BY <2>2 DEF TypeOK, CallTypes
    <3>2. Cardinality(Waiting(waiter')) <= Cardinality(Waiting(waiter)) + 1
      <4> HIDE DEF Waiting
      <4>1. Cardinality(Waiting(waiter) \cup {v}) =
              IF v \in Waiting(waiter) THEN Cardinality(Waiting(waiter))
              ELSE Cardinality(Waiting(waiter)) + 1
        BY <1>0, FS_AddElement
      <4> QED BY <1>0, <3>1, <4>1
    <3>3. Cardinality(Waiting(waiter')) \in Nat
      BY InvocationsAssumption, FS_Subset, FS_CardinalityType
    <3> QED BY <1>0, <2>2, <3>2, <3>3, BoundsAssumption DEF Slots, WaiterActive
  <2> QED BY <1>0, <1>2, <2>1, <2>2, BoundsAssumption DEF Admit, WaiterActive
<1>3. ASSUME NEW v \in Invocations, Caller(v) \/ Timeout(v), ~ Admit(v) PROVE Slots'
  <2>1. UNCHANGED waiter \/ waiter' = [waiter EXCEPT ![v] = "done"]
    BY <1>3 DEF Caller, Timeout, Invoke, Route, SendFails, SendInvoke, WaiterSpawnFails,
       WaiterAnswers, WaiterTimesOut, Deadline, CallerTimesOut
  <2>2. Waiting(waiter') \subseteq Waiting(waiter)
    BY <2>1 DEF TypeOK, CallTypes
  <2> QED BY <1>1, <2>2
<1>4. CASE DrainOne \/ FlushBuffer
  BY <1>1, <1>4 DEF DrainOne, FlushBuffer
<1>5. CASE UNCHANGED callVars
  BY <1>1, <1>5 DEF callVars
<1> QED BY <1>2, <1>3, <1>4, <1>5, CallerSteps

\* Nobody comes to wait on a child whose exit was handled.
LEMMA NoneWaitsStep ==
  ASSUME TypeOK, Wiring, Calls, NoneWaitsForTheDead, [Next]_vars
  PROVE  NoneWaitsForTheDead'
<1> SUFFICES ASSUME NEW i \in Instances, NEW v \in Invocations,
                    waitAt'[i] \in {"decide", "done"}, sentTo'[v] = i,
                    v \in pendingResponses'
             PROVE  FALSE
  BY DEF NoneWaitsForTheDead
<1>1. CASE \E j \in Instances : FailPending(j)
  BY <1>1 DEF FailPending
<1>2. CASE \A j \in Instances : ~ FailPending(j)
  <2>1. waitAt[i] \in {"decide", "done"}
    <3>1. CASE Wire
      BY <3>1 DEF Wire, TypeOK, ThreadTypes, SpawnerTypes
    <3>2. CASE UNCHANGED waitVars
      BY <3>2 DEF waitVars
    <3>3. ASSUME NEW j \in Instances, WaitThread(j) PROVE waitAt[i] \in {"decide", "done"}
      BY <1>2, <3>3 DEF WaitThread, ExitSeen, StopForwarders, TakeForwarders, JoinForwarders,
         DecideRestart, TypeOK, ThreadTypes
    <3> QED BY <3>1, <3>2, <3>3, WaitThreadSteps
  <2>2. v \notin pendingResponses
    <3>1. CASE sentTo[v] = i
      BY <2>1, <3>1 DEF NoneWaitsForTheDead
    <3>2. CASE sentTo'[v] # sentTo[v]
      <4>1. PICK w \in Invocations : SendInvoke(w) \/ WaiterSpawnFails(w)
        BY <3>2, CallerSteps DEF callVars, DrainOne, FlushBuffer, Caller, Timeout, Invoke, Route,
           Admit, SendFails, WaiterAnswers, WaiterTimesOut, Deadline, CallerTimesOut
      <4>2. sentTo' = [sentTo EXCEPT ![w] = outgoing] /\ outgoing # None /\ UNCHANGED waitAt
        BY <4>1 DEF SendInvoke, WaiterSpawnFails, Sends, waitVars
      <4>3. outgoing = i
        BY <3>2, <4>2 DEF TypeOK, CallTypes
      <4> QED BY <2>1, <4>2, <4>3 DEF Wiring
    <3> QED BY <3>1, <3>2
  <2>3. PICK w \in Invocations : Admit(w)
    <3>1. v \in pendingResponses' \ pendingResponses
      BY <2>2
    <3>2. ~ InsertInitialize
      BY <3>1, Apart DEF InsertInitialize, TypeOK, SpawnerTypes, Wiring, ForkedSteps
    <3> QED BY <3>1, <3>2, ResponseSteps DEF InitializeTimesOut, Read, FailPending, SendFails,
            WaiterSpawnFails, WaiterTimesOut
  <2>4. w = v
    BY <2>2, <2>3 DEF Admit
  <2>5. sentTo[v] = None /\ sentTo' = sentTo
    BY <2>3, <2>4 DEF Admit, Calls, Follows, Untried
  <2> QED BY <2>5 DEF None, Instances
<1> QED BY <1>1, <1>2
-----------------------------------------------------------------------------
\* The invariant holds initially.
LEMMA InitHolds == Init => IInv
<1> SUFFICES ASSUME Init PROVE IInv
  OBVIOUS
<1>1. TypeOK
  <2>1. Cardinality({}) = 0 /\ <<>> \in Seq(Invocations) /\ <<>> \in Seq(Nat)
    BY FS_EmptySet, EmptySeq
  <2>2. HandleTypes
    BY <2>1 DEF Init, HandleTypes, States
  <2>3. RequestTypes /\ ChildTypes
    BY <2>1 DEF Init, RequestTypes, ChildTypes, Responses, Processes
  <2>4. SpawnerTypes /\ ThreadTypes
    BY <2>1 DEF Init, SpawnerTypes, SpawnerSteps, ThreadTypes, WaitSteps
  <2>5. CallTypes /\ ShutdownTypes
    BY DEF Init, CallTypes, CallSteps, Results, ShutdownTypes
  <2> QED BY <2>2, <2>3, <2>4, <2>5 DEF TypeOK
<1>2. Wiring
  BY DEF Init, Wiring, RunningIsWired, ForkedSteps
<1>3. Calls
  BY DEF Init, Calls, Follows, Untried, Ids
<1>4. Buffer /\ Served
  BY DEF Init, Buffer, Served, BufferedHasServer
<1>5. Slots
  <2>1. {v \in Invocations : waiter[v] = "waiting"} = {}
    BY DEF Init
  <2> QED BY <2>1, FS_EmptySet, BoundsAssumption DEF Slots, WaiterActive
<1>6. NoneWaitsForTheDead
  BY DEF Init, NoneWaitsForTheDead
<1> QED BY <1>1, <1>2, <1>3, <1>4, <1>5, <1>6 DEF IInv

\* IInv is inductive.
THEOREM Invariance == Spec => []IInv
<1>1. IInv /\ [Next]_vars => IInv'
  <2> SUFFICES ASSUME IInv, [Next]_vars PROVE IInv'
    OBVIOUS
  <2> USE DEF IInv
  <2>1. TypeOK' /\ Wiring'
    BY TypeStep, WiringStep
  <2>2. Calls' /\ Buffer'
    BY CallsStep, BufferStep
  <2>3. Served' /\ Slots'
    BY ServedStep, SlotsStep
  <2>4. NoneWaitsForTheDead'
    BY NoneWaitsStep
  <2> QED BY <2>1, <2>2, <2>3, <2>4
<1> QED BY InitHolds, <1>1, PTL DEF Spec

\* In state Running the channel, the recorded pid, the wait thread and the
\* negotiated actions are one child's, whoever starts and stops it and however
\* its exit falls between the steps of the next start.
THEOREM Wired == Spec => []RunningIsWired
<1>1. IInv => RunningIsWired
  BY DEF IInv, Wiring
<1> QED BY <1>1, Invariance, PTL

\* After handle_exit has failed the pending responses, no call that was sent to
\* that child is pending any more, however late its sender registered it.
THEOREM NoneWaits == Spec => []NoneWaitsForTheDead
<1>1. IInv => NoneWaitsForTheDead
  BY DEF IInv
<1> QED BY <1>1, Invariance, PTL

\* There are never more waiters than waiter_max, an id is pending only while its
\* waiter waits and has no response, and what is in the startup buffer has a
\* start under way or asked for that will empty it, unless the daemon shuts down.
THEOREM NoneForgotten == Spec => []NoneIsForgotten
<1>1. IInv => NoneIsForgotten
  BY DEF IInv, Slots, Calls, Follows, WaitersAreAccounted, Served, NoneIsForgotten
<1> QED BY <1>1, Invariance, PTL
-----------------------------------------------------------------------------
(* One start at a time: a service that starts at startup and is started again *)
(* by nothing but its restart timers                                          *)

\* A service that is started at startup is started by nothing else.
LEMMA OnlyAtStartup ==
  ASSUME Activation = "onStartup"
  PROVE  Activating = {} /\ ~ ActivationEvent
BY PolicyAssumption DEF ActivationEvent

\* A wait thread's step changes its own child's entry.
LEMMA OwnEntry ==
  ASSUME TypeOK, NEW i \in Instances, WaitThread(i)
  PROVE  /\ \A j \in Instances : j # i => waitAt'[j] = waitAt[j] /\ wasRunning'[j] = wasRunning[j]
         /\ UNCHANGED <<spawnerVars, childVars>>
BY DEF WaitThread, ExitSeen, StopForwarders, TakeForwarders, JoinForwarders, FailPending,
   DecideRestart, TypeOK, ThreadTypes, childVars

\* What there is of starts to come, and how the steps move it.
Starts == spawnRequests + timers

\* Starts under way are used up, or added by the restart after one crash.
LEMMA StartsStep ==
  ASSUME TypeOK, Activation = "onStartup", [Next]_vars
  PROVE  \/ Starts' = Starts
         \/ Starts > 0 /\ Starts' = Starts - 1
         \/ Starts' = Starts + 1 /\ \E i \in Instances : DecideRestart(i) /\ wasRunning[i]
<1> USE DEF TypeOK, RequestTypes, ThreadTypes, Starts
<1>1. CASE UNCHANGED <<spawnRequests, timerVars>>
  BY <1>1 DEF timerVars
<1>2. CASE SpawnerTakes
  BY <1>2 DEF SpawnerTakes, elsewhere, timerVars
<1>3. CASE \E i \in Instances : DecideRestart(i)
  <2>1. PICK i \in Instances : DecideRestart(i)
    BY <1>3
  <2>2. spawnRequests' = spawnRequests
    BY <2>1 DEF DecideRestart, requestVars
  <2>3. (timers' = timers + 1 /\ wasRunning[i]) \/ timers' = timers
    BY <2>1 DEF DecideRestart, ShouldRestart, timerVars
  <2> QED BY <2>1, <2>2, <2>3
<1>4. CASE RestartTimerFires
  BY <1>4 DEF RestartTimerFires, RequestSpawn, ShutdownTypes
<1>5. CASE \E v \in Invocations : Route(v)
  BY <1>5, OnlyAtStartup DEF Route, timerVars
<1> QED BY <1>1, <1>2, <1>3, <1>4, <1>5, RequestSteps, OnlyAtStartup

\* The spawner begins a start when it takes a request, and nowhere else.
LEMMA Beginning ==
  ASSUME TypeOK, Spawner, spawnerAt' \in StartSteps, spawnerAt \notin StartSteps
  PROVE  SpawnerTakes /\ Starts' = Starts - 1 /\ Starts > 0 /\ spawnerAt' = "claim"
<1>1. SpawnerTakes
  BY DEF StartSteps, ForkedSteps, Spawner, SpawnerExits, Claim, ForkFails, Fork, Wire,
     InsertInitialize, SendInitialize, InitializeAnswered, InitializeTimesOut, SendInitialized,
     Transition, ResetInstance, SpawnForwarders, DrainOne, DrainEnds, StartFails, CloseOutgoing,
     FlushBuffer, Recheck, Draining
<1> QED BY <1>1 DEF SpawnerTakes, Starts, elsewhere, timerVars, TypeOK, RequestTypes,
        ThreadTypes, StartSteps, ForkedSteps

\* The service becomes Running at the end of a start, and nowhere else.
LEMMA BecomingRunning ==
  ASSUME TypeOK, [Next]_vars, state' = "Running", state # "Running"
  PROVE  Transition /\ spawnerAt' = "reset"
BY HandleSteps DEF handleVars, Claim, Fork, Wire, Transition, ResetInstance, StartFails,
   CloseOutgoing, ExitSeen, DecideRestart, ShutdownMarks

\* An exit begins with its wait thread seeing it, while the service runs.
LEMMA BecomingExiting ==
  ASSUME TypeOK, [Next]_vars, NEW i \in Instances, Exiting(i)', ~ Exiting(i)
  PROVE  ExitSeen(i) /\ state = "Running"
<1> USE DEF TypeOK, ThreadTypes, Exiting
<1>1. CASE UNCHANGED waitVars
  BY <1>1 DEF waitVars
<1>2. CASE Wire
  BY <1>2 DEF Wire
<1>3. ASSUME NEW j \in Instances, WaitThread(j) PROVE ExitSeen(i) /\ state = "Running"
  <2>1. j = i
    BY <1>3, OwnEntry
  <2> QED BY <1>3, <2>1 DEF WaitThread, ExitSeen, StopForwarders, TakeForwarders,
          JoinForwarders, FailPending, DecideRestart
<1> QED BY <1>1, <1>2, <1>3, WaitThreadSteps

\* A child whose exit is being handled is not done with.
LEMMA ExitingUndone ==
  ASSUME TypeOK, Recorded, NEW i \in Instances, Exiting(i)
  PROVE  Undone(i)
BY DEF Recorded, OnRecord, Exiting, Undone, Dead

\* One start at a time is under way.
LEMMA OneStartStep ==
  ASSUME TypeOK, Wiring, OneStart, OneUndone, Recorded, Activation = "onStartup", [Next]_vars
  PROVE  OneStart'
<1>0. Starts \in {0, 1} /\ Starts \in Nat
  BY DEF OneStart, Starts
<1>1. \A i \in Instances : DecideRestart(i) /\ wasRunning[i] =>
        Exiting(i) /\ ~ Exiting(i)' /\ UNCHANGED <<spawnerAt, state>>
  BY DEF DecideRestart, Exiting, TypeOK, ThreadTypes, spawnerVars
<1>2. Starts' \in {0, 1}
  BY <1>0, <1>1, StartsStep DEF OneStart, Starts
<1>3. ASSUME spawnerAt' \in StartSteps PROVE Starts' = 0 /\ state' # "Running"
  <2>1. CASE spawnerAt \in StartSteps
    <3>1. Starts = 0 /\ state # "Running" /\ \A i \in Instances : ~ Exiting(i)
      BY <1>0, <2>1 DEF OneStart, Starts
    <3>2. Starts' = 0
      BY <1>1, <3>1, StartsStep
    <3>3. state' # "Running"
      BY <1>3, <3>1, BecomingRunning DEF StartSteps, ForkedSteps
    <3> QED BY <3>2, <3>3
  <2>2. CASE spawnerAt \notin StartSteps
    <3>1. Spawner
      BY <1>3, <2>2, SpawnerMoves DEF spawnerVars
    <3>2. SpawnerTakes /\ Starts' = Starts - 1 /\ Starts > 0
      BY <1>3, <2>2, <3>1, Beginning
    <3> QED BY <1>0, <3>2 DEF OneStart, Starts, SpawnerTakes, handleVars
  <2> QED BY <2>1, <2>2
<1>4. ASSUME Starts' = 1 PROVE state' # "Running"
  <2>1. CASE Starts = 1
    <3>1. state # "Running" /\ spawnerAt \notin StartSteps
      BY <2>1 DEF OneStart, Starts
    <3> QED BY <3>1, BecomingRunning DEF Transition, StartSteps, ForkedSteps
  <2>2. CASE Starts = 0
    <3>1. \E i \in Instances : DecideRestart(i) /\ wasRunning[i]
      BY <1>4, <2>2, StartsStep
    <3> QED BY <1>1, <3>1 DEF OneStart
  <2> QED BY <1>0, <2>1, <2>2
<1>5. ASSUME NEW i \in Instances, Exiting(i)'
      PROVE  Starts' = 0 /\ spawnerAt' \notin StartSteps /\ state' # "Running"
  <2>1. CASE Exiting(i)
    <3>1. Starts = 0 /\ spawnerAt \notin StartSteps /\ state # "Running"
      BY <2>1 DEF OneStart, Starts
    <3>2. spawnerAt' \notin StartSteps
      BY <3>1, SpawnerMoves, Beginning DEF spawnerVars
    <3>3. state' # "Running"
      BY <3>1, BecomingRunning DEF Transition, StartSteps, ForkedSteps
    <3>4. ASSUME NEW j \in Instances, DecideRestart(j), wasRunning[j] PROVE FALSE
      <4>1. j # i
        BY <1>1, <1>5, <3>4
      <4>2. Exiting(j)
        BY <1>1, <3>4
      <4> QED BY <2>1, <4>1, <4>2, ExitingUndone DEF OneUndone
    <3> QED BY <3>1, <3>2, <3>3, <3>4, StartsStep
  <2>2. CASE ~ Exiting(i)
    <3>1. ExitSeen(i) /\ state = "Running"
      BY <1>5, <2>2, BecomingExiting
    <3>2. Starts = 0 /\ spawnerAt \notin StartSteps
      BY <1>0, <3>1 DEF OneStart, Starts
    <3>3. UNCHANGED <<spawnRequests, timers, spawnerAt>> /\ state' = "Stopped"
      BY <3>1 DEF ExitSeen, requestVars, timerVars, spawnerVars
    <3> QED BY <3>2, <3>3 DEF Starts
  <2> QED BY <2>1, <2>2
<1> QED BY <1>2, <1>3, <1>4, <1>5 DEF OneStart, Starts

\* Only the next fork leaves a wait thread with more to do.
LEMMA BecomingUndone ==
  ASSUME TypeOK, Recorded, [Next]_vars, NEW i \in Instances, Undone(i)', ~ Undone(i)
  PROVE  Fork /\ starting' = i /\ spawnerAt' = "wire"
<1> USE DEF TypeOK, ThreadTypes, ChildTypes, Undone
<1>1. proc[i] # "absent" \/ (Fork /\ starting' = i)
  <2>1. CASE Fork
    BY <2>1 DEF Fork
  <2>2. CASE UNCHANGED <<proc, offers>>
    BY <2>2
  <2>3. CASE InitializeAnswered \/ InitializeTimesOut \/ Recheck \/ ShutdownSweeps
             \/ \E j \in Instances : ChildDies(j)
    BY <2>3 DEF InitializeAnswered, InitializeTimesOut, Recheck, ShutdownSweeps, ChildDies,
       Killed
  <2> QED BY <2>1, <2>2, <2>3, ProcessSteps
<1>2. waitAt[i] = "done" => waitAt'[i] = "done"
  <2>1. CASE UNCHANGED waitVars
    BY <2>1 DEF waitVars
  <2>2. CASE Wire
    BY <2>2 DEF Wire, Recorded, OnRecord
  <2>3. ASSUME NEW j \in Instances, WaitThread(j)
        PROVE  waitAt[i] = "done" => waitAt'[i] = "done"
    BY <2>3 DEF WaitThread, ExitSeen, StopForwarders, TakeForwarders, JoinForwarders,
       FailPending, DecideRestart
  <2> QED BY <2>1, <2>2, <2>3, WaitThreadSteps
<1> QED BY <1>1, <1>2 DEF Fork

\* Where a start goes, step by step.
LEMMA StartOrder ==
  ASSUME TypeOK, OneStart, [Next]_vars
  PROVE  /\ spawnerAt' \in {"claim", "fork"} =>
              spawnerAt \in {"claim", "fork"} \/ (SpawnerTakes /\ Starts = 1)
         /\ spawnerAt' \in ForkedSteps =>
              (spawnerAt \in ForkedSteps /\ starting' = starting) \/ Fork
<1>1. CASE UNCHANGED spawnerVars
  BY <1>1 DEF spawnerVars
<1>2. CASE SpawnerTakes
  <2>1. Starts = 1
    BY <1>2 DEF SpawnerTakes, OneStart, Starts, TypeOK, RequestTypes, ThreadTypes
  <2> QED BY <1>2, <2>1 DEF SpawnerTakes, ForkedSteps
<1>3. CASE Fork \/ Claim \/ SpawnerExits \/ ForkFails \/ Wire \/ InsertInitialize
           \/ SendInitialize \/ InitializeAnswered \/ InitializeTimesOut \/ SendInitialized
  BY <1>3 DEF Claim, SpawnerExits, ForkFails, Wire, InsertInitialize, SendInitialize, Fork,
     InitializeAnswered, InitializeTimesOut, SendInitialized, ForkedSteps
<1>4. CASE Transition \/ ResetInstance \/ SpawnForwarders \/ DrainOne \/ DrainEnds
           \/ StartFails \/ CloseOutgoing \/ FlushBuffer \/ Recheck
  BY <1>4 DEF Transition, ResetInstance, SpawnForwarders, DrainOne, DrainEnds, Draining,
     StartFails, CloseOutgoing, FlushBuffer, Recheck, ForkedSteps
<1> QED BY <1>1, <1>2, <1>3, <1>4, SpawnerMoves DEF Spawner

\* One child at a time is not done with.
LEMMA OneUndoneStep ==
  ASSUME TypeOK, OneStart, OneUndone, Recorded, Activation = "onStartup", [Next]_vars
  PROVE  OneUndone'
<1>0. Starts \in {0, 1}
  BY DEF OneStart, Starts
<1>1. ASSUME NEW i \in Instances, NEW j \in Instances, Undone(i)', Undone(j)' PROVE i = j
  <2>1. CASE Undone(i) /\ Undone(j)
    BY <2>1 DEF OneUndone
  <2>2. CASE ~ (Undone(i) /\ Undone(j))
    <3>1. Fork
      BY <1>1, <2>2, BecomingUndone
    <3>2. ~ Undone(i) /\ ~ Undone(j)
      BY <3>1 DEF Fork, OneUndone
    <3> QED BY <1>1, <3>2, BecomingUndone
  <2> QED BY <2>1, <2>2
<1>2. ASSUME Starts' = 1, NEW i \in Instances PROVE ~ Undone(i)'
  <2>1. CASE Starts = 1
    <3>1. ~ Undone(i) /\ ~ Fork
      BY <2>1 DEF OneUndone, OneStart, Starts, Fork, StartSteps
    <3> QED BY <3>1, BecomingUndone
  <2>2. CASE Starts = 0
    <3>1. PICK j \in Instances : DecideRestart(j) /\ wasRunning[j]
      BY <1>2, <2>2, StartsStep
    <3>2. Undone(j) /\ ~ Undone(j)' /\ ~ Fork
      <4>1. Exiting(j)
        BY <3>1 DEF DecideRestart, Exiting
      <4>2. ~ Undone(j)'
        BY <3>1 DEF DecideRestart, Undone, TypeOK, ThreadTypes
      <4>3. ~ Fork
        BY <3>1 DEF DecideRestart, Fork, spawnerVars
      <4> QED BY <4>1, <4>2, <4>3, ExitingUndone
    <3> QED BY <3>2, BecomingUndone DEF OneUndone
  <2> QED BY <1>0, <2>1, <2>2
<1>3. ASSUME spawnerAt' \in {"claim", "fork"}, NEW i \in Instances PROVE ~ Undone(i)'
  <2>1. ~ Undone(i)
    BY <1>3, StartOrder DEF OneUndone, Starts
  <2> QED BY <1>3, <2>1, BecomingUndone
<1>4. ASSUME spawnerAt' \in ForkedSteps, NEW i \in Instances, Undone(i)' PROVE i = starting'
  <2>1. CASE Fork
    <3>1. ~ Undone(i)
      BY <2>1 DEF Fork, OneUndone
    <3> QED BY <1>4, <3>1, BecomingUndone
  <2>2. CASE spawnerAt \in ForkedSteps /\ starting' = starting /\ ~ Fork
    <3>1. Undone(i)
      BY <1>4, <2>2, BecomingUndone
    <3> QED BY <2>2, <3>1 DEF OneUndone
  <2> QED BY <1>4, <2>1, <2>2, StartOrder
<1> QED BY <1>1, <1>2, <1>3, <1>4 DEF OneUndone, Starts

\* A process stays what it is, once it is there, as far as the supervisor can see.
LEMMA ProcessesStay ==
  ASSUME TypeOK, [Next]_vars, NEW i \in Instances
  PROVE  /\ proc[i] # "absent" => proc'[i] # "absent"
         /\ Dead(i) => Dead(i)'
         /\ proc[i] = "absent" /\ proc'[i] # "absent" => Fork /\ starting' = i
         /\ proc'[i] = "alive" => proc[i] = "alive" \/ Fork
<1> USE DEF TypeOK, ChildTypes, Dead
<1>1. CASE UNCHANGED <<proc, offers>>
  BY <1>1
<1>2. CASE Fork
  BY <1>2 DEF Fork, Forked
<1>3. CASE InitializeAnswered \/ InitializeTimesOut \/ Recheck \/ ShutdownSweeps
  BY <1>3 DEF InitializeAnswered, InitializeTimesOut, Recheck, ShutdownSweeps, Killed
<1>4. CASE \E j \in Instances : ChildDies(j)
  BY <1>4 DEF ChildDies
<1> QED BY <1>1, <1>2, <1>3, <1>4, ProcessSteps

\* handle.child_pid names the child that its wait thread has not seen exit.
LEMMA RecordedStep ==
  ASSUME TypeOK, Wiring, OneUndone, Recorded, [Next]_vars, OneStart
  PROVE  Recorded'
<1>1. ASSUME spawnerAt' \in ForkedSteps PROVE proc'[starting'] # "absent"
  <2>1. CASE Fork
    BY <2>1 DEF Fork, TypeOK, ChildTypes
  <2>2. CASE spawnerAt \in ForkedSteps /\ starting' = starting
    BY <2>2, ProcessesStay DEF Recorded, Wiring, TypeOK, SpawnerTypes
  <2> QED BY <1>1, <2>1, <2>2, StartOrder
<1>2. ASSUME NEW i \in Instances PROVE OnRecord(i)'
  <2>0. OnRecord(i)
    BY DEF Recorded
  <2> USE DEF OnRecord, TypeOK, ThreadTypes, ChildTypes
  <2>1. CASE Fork
    <3>1. ~ Undone(i)
      BY <2>1 DEF Fork, OneUndone
    <3>2. PICK j \in Instances : proc[j] = "absent" /\ proc' = [proc EXCEPT ![j] = "alive"]
                                 /\ childPid' = j /\ starting' = j
      BY <2>1 DEF Fork, Forked
    <3>3. spawnerAt = "fork" /\ spawnerAt' = "wire" /\ waitAt' = waitAt
      BY <2>1 DEF Fork, elsewhere, waitVars
    <3> QED BY <2>0, <3>1, <3>2, <3>3 DEF Undone, Dead
  <2>2. CASE Wire
    <3>1. proc[starting] # "absent" /\ starting \in Instances
      BY <2>2 DEF Wire, Recorded, Wiring, ForkedSteps, SpawnerTypes
    <3> QED BY <2>0, <2>2, <3>1 DEF Wire, childVars, Dead
  <2>3. ASSUME NEW j \in Instances, ExitSeen(j) PROVE OnRecord(i)'
    <3>1. i # j /\ proc[i] # "absent" => waitAt[i] = "done"
      <4>1. Undone(j)
        BY <2>3 DEF ExitSeen, Undone, Dead
      <4> QED BY <4>1 DEF OneUndone, Undone
    <3> QED BY <2>0, <2>3, <3>1 DEF ExitSeen, Dead, childVars, spawnerVars
  <2>4. ASSUME NEW j \in Instances, WaitThread(j), ~ ExitSeen(j) PROVE OnRecord(i)'
    BY <2>0, <2>4 DEF WaitThread, StopForwarders, TakeForwarders, JoinForwarders, FailPending,
       DecideRestart, Dead, childVars, spawnerVars, handleVars
  <2>5. CASE ~ Fork /\ ~ Wire /\ UNCHANGED waitVars
    <3>1. childPid' = childPid
      <4>1. \A j \in Instances : ExitSeen(j) => ~ UNCHANGED waitVars
        BY DEF ExitSeen, waitVars
      <4> QED BY <2>5, <4>1, HandleSteps DEF handleVars, Claim, Transition, ResetInstance,
              StartFails, CloseOutgoing, DecideRestart, ShutdownMarks, ShutdownStep
    <3>2. spawnerAt' = "wire" <=> spawnerAt = "wire"
      <4>1. spawnerAt = "wire" => spawnerAt' = "wire"
        BY <2>5, SpawnerMoves DEF spawnerVars, Spawner, SpawnerTakes, SpawnerExits, Claim,
           ForkFails, InsertInitialize, SendInitialize, InitializeAnswered, InitializeTimesOut,
           SendInitialized, Transition, ResetInstance, SpawnForwarders, DrainOne, DrainEnds,
           Draining, StartFails, CloseOutgoing, FlushBuffer, Recheck
      <4>2. spawnerAt' = "wire" => spawnerAt = "wire"
        BY <2>5, SpawnerMoves DEF spawnerVars, Spawner, SpawnerTakes, SpawnerExits, Claim,
           ForkFails, InsertInitialize, SendInitialize, InitializeAnswered, InitializeTimesOut,
           SendInitialized, Transition, ResetInstance, SpawnForwarders, DrainOne, DrainEnds,
           Draining, StartFails, CloseOutgoing, FlushBuffer, Recheck
      <4> QED BY <4>1, <4>2
    <3>3. spawnerAt' = "wire" => starting' = starting
      BY <2>5, StartOrder DEF ForkedSteps
    <3>4. proc'[i] = "absent" <=> proc[i] = "absent"
      BY <2>5, ProcessesStay
    <3>5. Dead(i) => Dead(i)'
      BY ProcessesStay
    <3> QED BY <2>0, <2>5, <3>1, <3>2, <3>3, <3>4, <3>5 DEF waitVars
  <2> QED BY <2>1, <2>2, <2>3, <2>4, <2>5, WaitThreadSteps
<1> QED BY <1>1, <1>2 DEF Recorded

\* Once the spawner is gone nothing forks any more, and the sweep finds on record
\* the child that is left.
LEMMA SweptStep ==
  ASSUME TypeOK, Recorded, Swept, [Next]_vars
  PROVE  Swept'
<1>1. spawnerAt = "exited" => spawnerAt' = "exited" /\ ~ Fork
  BY SpawnerMoves DEF spawnerVars, Spawner, SpawnerTakes, SpawnerExits, Claim, ForkFails, Fork,
     Wire, InsertInitialize, SendInitialize, InitializeAnswered, InitializeTimesOut,
     SendInitialized, Transition, ResetInstance, SpawnForwarders, DrainOne, DrainEnds, Draining,
     StartFails, CloseOutgoing, FlushBuffer, Recheck
<1>2. shutdownAt' \in {"sweep", "done"} => spawnerAt' = "exited"
  <2>1. CASE shutdownAt \in {"sweep", "done"}
    BY <1>1, <2>1 DEF Swept
  <2>2. CASE shutdownAt \notin {"sweep", "done"}
    BY <1>1, <2>2, ShutdownSteps DEF shutdownVars, Shutdown, ShutdownBegins, ShutdownNotifies,
       ShutdownMarks, ShutdownClosesSpawner, ShutdownJoinsSpawner, ShutdownSweeps, ShutdownStep
  <2> QED BY <2>1, <2>2
<1>3. ASSUME shutdownAt' = "done", NEW i \in Instances PROVE proc'[i] # "alive"
  <2>1. CASE shutdownAt = "done"
    <3>1. proc[i] # "alive" /\ ~ Fork
      BY <1>1, <2>1 DEF Swept, SweepKillsAll
    <3> QED BY <3>1, ProcessesStay
  <2>2. CASE shutdownAt # "done"
    <3>1. ShutdownSweeps
      BY <1>3, <2>2, ShutdownSteps DEF shutdownVars, Shutdown, ShutdownBegins, ShutdownNotifies,
         ShutdownMarks, ShutdownClosesSpawner, ShutdownJoinsSpawner, ShutdownStep
    <3>2. proc[i] = "alive" => childPid = i
      BY DEF Recorded, OnRecord, Dead
    <3>3. None \notin Instances
      BY BoundsAssumption DEF None, Instances
    <3> QED BY <3>1, <3>2, <3>3 DEF ShutdownSweeps, Killed, TypeOK, ChildTypes
  <2> QED BY <2>1, <2>2
<1> QED BY <1>2, <1>3 DEF Swept, SweepKillsAll

\* A call is sent to the child whose wait thread has not seen it exit.
LEMMA SentToForkedStep ==
  ASSUME TypeOK, Wiring, Recorded, SentToForked, [Next]_vars
  PROVE  SentToForked'
<1> SUFFICES ASSUME NEW v \in Invocations, sentTo'[v] # None
             PROVE  proc'[sentTo'[v]] # "absent"
  BY DEF SentToForked
<1> USE DEF TypeOK, CallTypes, HandleTypes
<1>1. CASE sentTo'[v] = sentTo[v]
  BY <1>1, ProcessesStay DEF SentToForked
<1>2. CASE sentTo'[v] # sentTo[v]
  <2>1. PICK w \in Invocations : SendInvoke(w) \/ WaiterSpawnFails(w)
    BY <1>2, CallerSteps DEF callVars, DrainOne, FlushBuffer, Caller, Timeout, Invoke, Route,
       Admit, SendFails, WaiterAnswers, WaiterTimesOut, Deadline, CallerTimesOut
  <2>2. sentTo' = [sentTo EXCEPT ![w] = outgoing] /\ outgoing # None /\ outgoing \in Instances
    BY <2>1 DEF SendInvoke, WaiterSpawnFails, Sends
  <2>3. sentTo'[v] = outgoing
    BY <1>2, <2>2
  <2>4. proc[outgoing] # "absent"
    BY <2>2 DEF Wiring, Recorded, OnRecord
  <2> QED BY <2>2, <2>3, <2>4, ProcessesStay
<1> QED BY <1>1, <1>2

\* Which ids become pending: the start's own and a call's.
LEMMA BecomingPending ==
  ASSUME TypeOK, [Next]_vars, NEW x \in Instances, x \in pendingResponses', x \notin pendingResponses
  PROVE  InsertInitialize /\ x = starting
<1>1. \A v \in Invocations : x # v
  BY Apart
<1> QED BY <1>1, ResponseSteps DEF InsertInitialize, InitializeTimesOut, Read, FailPending, Admit,
        SendFails, WaiterSpawnFails, WaiterTimesOut

\* A response is given to an id that was pending, and that no longer is.
LEMMA BecomingAnswered ==
  ASSUME TypeOK, [Next]_vars, NEW x \in Instances, response'[x] # response[x]
  PROVE  x \in pendingResponses /\ x \notin pendingResponses'
<1>1. x \in Ids
  BY DEF Ids
<1>2. PICK i \in Instances : Read(i) \/ FailPending(i)
  BY ResponseSteps DEF InsertInitialize, InitializeTimesOut, Admit, SendFails, WaiterSpawnFails,
     WaiterTimesOut
<1> QED BY <1>1, <1>2 DEF Read, FailPending, TypeOK, RequestTypes

\* What is not asked yet was not asked before.
LEMMA BecomingUnasked ==
  ASSUME TypeOK, OneStart, [Next]_vars, NEW x \in Instances, Unasked(x)'
  PROVE  Unasked(x)
<1>1. CASE proc'[x] = "absent"
  BY <1>1, ProcessesStay DEF Unasked
<1>2. CASE spawnerAt' \in {"wire", "insert"} /\ x = starting' /\ Fork
  BY <1>2 DEF Fork, Forked, Unasked
<1>3. CASE spawnerAt' \in {"wire", "insert"} /\ x = starting' /\ ~ Fork
  <2>1. spawnerAt \in ForkedSteps /\ starting' = starting
    BY <1>3, StartOrder DEF ForkedSteps
  <2>2. spawnerAt \in {"wire", "insert"}
    BY <1>3, <2>1, SpawnerMoves DEF spawnerVars, ForkedSteps, Spawner, SpawnerTakes, SpawnerExits,
       Claim, ForkFails, Wire, InsertInitialize, SendInitialize, InitializeAnswered,
       InitializeTimesOut, SendInitialized, Transition, ResetInstance, SpawnForwarders, DrainOne,
       DrainEnds, Draining, StartFails, CloseOutgoing, FlushBuffer, Recheck
  <2> QED BY <1>3, <2>1, <2>2 DEF Unasked
<1> QED BY <1>1, <1>2, <1>3 DEF Unasked

\* While an initialize is pending the spawner waits for its answer, or has given
\* the start up and begins no other.
LEMMA NoneAfterStep ==
  ASSUME TypeOK, OneStart, Recorded, Activation = "onStartup", [Next]_vars,
         NEW x \in Instances, NoneAfter(x), response[x] = "none"
  PROVE  NoneAfter(x)'
<1>0. Starts = 0 /\ state # "Running" /\ spawnerAt \notin StartSteps \ {"initialize", "await"}
  BY DEF NoneAfter, Starts
<1>1. Starts' = 0
  <2>1. ASSUME NEW i \in Instances, DecideRestart(i), wasRunning[i] PROVE FALSE
    BY <2>1 DEF DecideRestart, Exiting, NoneAfter
  <2> QED BY <1>0, <2>1, StartsStep
<1>2. state' # "Running"
  BY <1>0, BecomingRunning DEF Transition, StartSteps, ForkedSteps
<1>3. /\ spawnerAt' \notin StartSteps \ {"initialize", "await"}
      /\ spawnerAt' \in {"initialize", "await"} => x = starting'
  <2>1. CASE spawnerAt \notin StartSteps
    <3>1. spawnerAt' \notin StartSteps
      BY <1>0, <2>1, SpawnerMoves, Beginning DEF spawnerVars
    <3> QED BY <3>1 DEF StartSteps, ForkedSteps
  <2>2. CASE spawnerAt \in {"initialize", "await"}
    <3>1. x = starting /\ response[starting] = "none"
      BY <2>2 DEF NoneAfter
    <3>2. CASE SendInitialize \/ InitializeTimesOut \/ UNCHANGED spawnerVars
      BY <2>2, <3>1, <3>2 DEF SendInitialize, InitializeTimesOut, spawnerVars, StartSteps,
         ForkedSteps
    <3> QED BY <2>2, <3>1, <3>2, SpawnerMoves DEF Spawner, SpawnerTakes, SpawnerExits, Claim,
            ForkFails, Fork, Wire, InsertInitialize, InitializeAnswered, SendInitialized, Transition,
            ResetInstance, SpawnForwarders, DrainOne, DrainEnds, Draining, StartFails,
            CloseOutgoing, FlushBuffer, Recheck
  <2> QED BY <1>0, <2>1, <2>2
<1>4. ASSUME NEW i \in Instances PROVE ~ Exiting(i)' /\ (Undone(i)' => i = x)
  <2>1. ~ Exiting(i)'
    BY <1>0, BecomingExiting DEF NoneAfter
  <2>2. ~ Fork
    BY <1>0 DEF Fork, StartSteps
  <2>3. Undone(i)' => i = x
    BY <2>2, BecomingUndone DEF NoneAfter
  <2> QED BY <2>1, <2>3
<1> QED BY <1>1, <1>2, <1>3, <1>4 DEF NoneAfter, Starts

\* The last start is the child's that is not done with.
LEMMA LastStartStep ==
  ASSUME TypeOK, Wiring, OneStart, OneUndone, Recorded, LastStart, Activation = "onStartup",
         [Next]_vars
  PROVE  LastStart'
<1> SUFFICES ASSUME NEW x \in Instances
             PROVE  /\ Unasked(x)' => response'[x] = "none" /\ x \notin pendingResponses'
                    /\ x \in pendingResponses' => response'[x] = "none" /\ NoneAfter(x)'
  BY DEF LastStart
<1>0. /\ Unasked(x) => response[x] = "none" /\ x \notin pendingResponses
      /\ x \in pendingResponses => response[x] = "none" /\ NoneAfter(x)
  BY DEF LastStart
<1>1. ASSUME Unasked(x)' PROVE response'[x] = "none" /\ x \notin pendingResponses'
  <2>1. response[x] = "none" /\ x \notin pendingResponses
    BY <1>0, <1>1, BecomingUnasked
  <2>2. InsertInitialize => x # starting
    <3>1. ASSUME InsertInitialize, x = starting PROVE FALSE
      <4>1. proc[x] # "absent" /\ proc' = proc /\ spawnerAt' = "initialize"
        BY <3>1 DEF InsertInitialize, Recorded, ForkedSteps, childVars
      <4> QED BY <1>1, <4>1 DEF Unasked
    <3> QED BY <3>1
  <2> QED BY <2>1, <2>2, BecomingPending, BecomingAnswered
<1>2. ASSUME x \in pendingResponses', x \in pendingResponses
      PROVE  response'[x] = "none" /\ NoneAfter(x)'
  BY <1>0, <1>2, BecomingAnswered, NoneAfterStep
<1>3. ASSUME x \in pendingResponses', x \notin pendingResponses
      PROVE  response'[x] = "none" /\ NoneAfter(x)'
  <2>1. InsertInitialize /\ x = starting /\ spawnerAt = "insert"
    BY <1>3, BecomingPending DEF InsertInitialize
  <2>2. response'[x] = "none"
    BY <1>0, <1>3, <2>1, BecomingAnswered DEF Unasked
  <2>3. /\ spawnRequests + timers = 0 /\ state # "Running"
        /\ \A i \in Instances : ~ Exiting(i) /\ (Undone(i) => i = x)
    BY <2>1 DEF OneStart, OneUndone, StartSteps, ForkedSteps
  <2>4. /\ UNCHANGED <<handleVars, childVars, waitVars, timerVars, spawnRequests, starting>>
        /\ spawnerAt' = "initialize"
    BY <2>1 DEF InsertInitialize, elsewhere
  <2>5. NoneAfter(x)'
    BY <2>1, <2>3, <2>4 DEF NoneAfter, StartSteps, ForkedSteps, Exiting, Undone, handleVars,
       childVars, waitVars, timerVars
  <2> QED BY <2>2, <2>5
<1> QED BY <1>1, <1>2, <1>3
-----------------------------------------------------------------------------
\* The stronger invariant holds initially.
LEMMA StartupInit == Activation = "onStartup" /\ Init => SInv
<1> SUFFICES ASSUME Activation = "onStartup", Init PROVE SInv
  OBVIOUS
<1>1. IInv
  BY InitHolds
<1>2. OneStart /\ OneUndone
  BY DEF Init, OneStart, OneUndone, Exiting, Undone, StartSteps, ForkedSteps
<1>3. Recorded /\ Swept
  BY DEF Init, Recorded, OnRecord, Swept, SweepKillsAll, ForkedSteps
<1>4. LastStart /\ SentToForked
  BY DEF Init, LastStart, Unasked, SentToForked, Ids
<1> QED BY <1>1, <1>2, <1>3, <1>4 DEF SInv

\* Every step keeps it.
LEMMA StartupStep ==
  ASSUME Activation = "onStartup", SInv, [Next]_vars
  PROVE  SInv'
<1> USE DEF SInv
<1>1. TypeOK /\ Wiring /\ Calls
  BY DEF IInv
<1>2. IInv'
  <2> USE DEF IInv
  <2>1. TypeOK' /\ Wiring'
    BY TypeStep, WiringStep
  <2>2. Calls' /\ Buffer'
    BY CallsStep, BufferStep
  <2>3. Served' /\ Slots'
    BY ServedStep, SlotsStep
  <2>4. NoneWaitsForTheDead'
    BY NoneWaitsStep
  <2> QED BY <2>1, <2>2, <2>3, <2>4
<1>3. OneStart' /\ OneUndone'
  BY <1>1, OneStartStep, OneUndoneStep
<1>4. Recorded' /\ Swept'
  BY <1>1, RecordedStep, SweptStep
<1>5. LastStart' /\ SentToForked'
  BY <1>1, LastStartStep, SentToForkedStep
<1> QED BY <1>2, <1>3, <1>4, <1>5

\* SInv is inductive for a service that is started at startup.
THEOREM StartupInvariance ==
  ASSUME Activation = "onStartup"
  PROVE  Spec => []SInv
<1>1. Init => SInv
  BY StartupInit
<1>2. SInv /\ [Next]_vars => SInv'
  BY StartupStep
<1> QED BY <1>1, <1>2, PTL DEF Spec

\* Of a service that is started at startup, and again after its exits, at most
\* one child runs that nobody has tried to kill, and shutdown_all leaves none.
\* A service that events or actions start can lose sight of one.
THEOREM OneChild ==
  ASSUME Activation = "onStartup"
  PROVE  Spec => []OneChildAtMost
<1>1. SInv => OneChildAtMost
  <2> SUFFICES ASSUME SInv PROVE OneChildAtMost
    OBVIOUS
  <2>1. ASSUME NEW i \in Instances, proc[i] = "alive" PROVE Undone(i)
    BY <2>1 DEF SInv, Recorded, OnRecord, Undone, Dead
  <2>2. OneInstance
    BY <2>1 DEF SInv, OneUndone, OneInstance
  <2> QED BY <2>2 DEF SInv, IInv, Swept, OneChildAtMost
<1> QED BY <1>1, StartupInvariance, PTL

\* When handle_exit fails every pending response, all of them are of the child
\* that exited: none belongs to a start or a child that has replaced it.
THEOREM Untouched ==
  ASSUME Activation = "onStartup"
  PROVE  Spec => ReplacementUntouched
<1>1. SInv /\ [Next]_vars => [LeavesReplacement]_vars
  <2> SUFFICES ASSUME SInv, NEW i \in Instances, FailPending(i), NEW x \in pendingResponses,
                      x # i
               PROVE  x \in Invocations /\ sentTo[x] \in {None, i}
    BY DEF LeavesReplacement
  <2>1. TypeOK /\ Recorded /\ waitAt[i] = "fail"
    BY DEF SInv, IInv, FailPending
  <2>2. Undone(i)
    BY <2>1 DEF Recorded, OnRecord, Undone, Dead
  <2>3. x \in Invocations
    <3>1. x \notin Instances
      BY <2>2 DEF SInv, LastStart, NoneAfter
    <3> QED BY <2>1, <3>1 DEF TypeOK, RequestTypes, Ids
  <2>4. ASSUME sentTo[x] \notin {None, i} PROVE FALSE
    <3>1. sentTo[x] \in Instances /\ proc[sentTo[x]] # "absent"
      BY <2>1, <2>3, <2>4 DEF SInv, SentToForked, TypeOK, CallTypes
    <3>2. waitAt[sentTo[x]] = "done"
      BY <2>2, <2>4, <3>1 DEF SInv, OneUndone, Undone
    <3> QED BY <2>3, <3>1, <3>2 DEF SInv, IInv, NoneWaitsForTheDead
  <2> QED BY <2>3, <2>4
<1> QED BY <1>1, StartupInvariance, PTL DEF Spec, ReplacementUntouched
=============================================================================
