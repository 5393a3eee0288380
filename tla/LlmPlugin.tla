------------------------------- MODULE LlmPlugin -------------------------------
(***************************************************************************)
(* llm.complete and llm.usage of processes that share a usage log and a    *)
(* key: the key is looked up, the paid request is made, one line is        *)
(* appended to the log with one write, and the answer is given whether the *)
(* line could be written or not.                                           *)
(***************************************************************************)
EXTENDS Naturals, Sequences, FiniteSets

CONSTANTS
  Processes,
  MaxCalls,    \* bound on the calls of a process
  MaxShorts,   \* bound on writes that are cut short
  None

LlmAssumption ==
  {MaxCalls, MaxShorts} \subseteq Nat /\ None \notin {"resolve", "request", "append", "answer"}

VARIABLES
  fatal,    \* the configuration has an error
  env,      \* ANTHROPIC_API_KEY is set
  stored,   \* the key in the store: "good", "revoked" or None
  log,      \* lines; a line is a sequence of pieces <call, what of it>
  call,     \* [Processes -> step of the call under way, or None]
  calls,    \* [Processes -> calls so far]
  paid,     \* history: calls the service charged for
  logged,   \* history: calls whose line was written whole
  shorts    \* history: writes cut short

vars == <<fatal, env, stored, log, call, calls, paid, logged, shorts>>

Id(p) == <<p, calls[p]>>
Pieces == {"whole", "half"}

TypeOK ==
  /\ {fatal, env} \subseteq BOOLEAN /\ stored \in {"good", "revoked", None}
  /\ log \in Seq(Seq((Processes \X Nat) \X Pieces))
  /\ call \in [Processes -> {None, "resolve", "request", "append", "answer"}]
  /\ calls \in [Processes -> 0..MaxCalls] /\ logged \subseteq paid /\ shorts \in 0..MaxShorts

Init ==
  /\ fatal \in BOOLEAN /\ env \in BOOLEAN /\ stored \in {"good", "revoked", None} /\ log = <<<<>>>>
  /\ call = [p \in Processes |-> None] /\ calls = [p \in Processes |-> 0]
  /\ paid = {} /\ logged = {} /\ shorts = 0

At(p, step) == call[p] = step
Goes(p, step) == call' = [call EXCEPT ![p] = step]

-----------------------------------------------------------------------------
(* llm.complete *)

\* The parameters are valid: what is wrong with them is answered before the request.
Complete(p) ==
  /\ At(p, None) /\ calls[p] < MaxCalls /\ calls' = [calls EXCEPT ![p] = @ + 1]
  /\ Goes(p, IF fatal THEN "answer" ELSE "resolve")
  /\ UNCHANGED <<fatal, env, stored, log, paid, logged, shorts>>

\* The environment's key hides the store's.
Authenticated == env \/ stored # None

Resolve(p) ==
  /\ At(p, "resolve") /\ Goes(p, IF Authenticated THEN "request" ELSE "answer")
  /\ UNCHANGED <<fatal, env, stored, calls, log, paid, logged, shorts>>

\* The service answers, and charges; or it refuses the key, limits the rate or is
\* not reached; or it charges and its answer is lost or not understood.
Request(p) ==
  /\ At(p, "request")
  /\ \/ (env \/ stored = "good") /\ Goes(p, "append") /\ paid' = paid \cup {Id(p)}
     \/ Goes(p, "answer") /\ paid' \in {paid, paid \cup {Id(p)}}
  /\ UNCHANGED <<fatal, env, stored, calls, log, logged, shorts>>

Mutant_Written(piece) == [log EXCEPT ![Len(log)] = Append(@, piece)]

\* What O_APPEND does with one write: it goes to the last line, and a line that ends
\* in a newline is followed by another.
Written(piece) ==
  LET last == [log EXCEPT ![Len(log)] = Append(@, piece)]
  IN IF piece[2] = "whole" THEN Append(last, <<>>) ELSE last

\* The record and its newline are one write.
Append_(p) ==
  /\ log' = Written(<<Id(p), "whole">>) /\ logged' = logged \cup {Id(p)}
  /\ Goes(p, "answer") /\ UNCHANGED shorts

ShortWrite(p) ==
  /\ shorts < MaxShorts /\ shorts' = shorts + 1
  /\ log' = Written(<<Id(p), "half">>) /\ Goes(p, "answer") /\ UNCHANGED logged

NotWritten(p) == Goes(p, "answer") /\ UNCHANGED <<log, logged, shorts>>

Log(p) ==
  /\ At(p, "append") /\ (Append_(p) \/ ShortWrite(p) \/ NotWritten(p))
  /\ UNCHANGED <<fatal, env, stored, calls, paid>>

Answer(p) ==
  /\ At(p, "answer") /\ Goes(p, None)
  /\ UNCHANGED <<fatal, env, stored, calls, log, paid, logged, shorts>>

Kill(p) ==
  /\ call[p] # None /\ Goes(p, None)
  /\ UNCHANGED <<fatal, env, stored, calls, log, paid, logged, shorts>>

\* nestty-plugin-llm auth stores a key that the service has accepted.
Auth ==
  /\ ~fatal /\ env /\ stored' = "good"
  /\ UNCHANGED <<fatal, env, log, call, calls, paid, logged, shorts>>

Revoke ==
  /\ stored = "good" /\ stored' = "revoked"
  /\ UNCHANGED <<fatal, env, log, call, calls, paid, logged, shorts>>

Next ==
  \/ \E p \in Processes : Complete(p) \/ Resolve(p) \/ Request(p) \/ Log(p) \/ Answer(p) \/ Kill(p)
  \/ Auth \/ Revoke

Spec == Init /\ [][Next]_vars

-----------------------------------------------------------------------------
(* llm.usage *)

\* aggregate counts a line that is one record and passes over the others.
Counted == {log[i][1][1] : i \in {i \in DOMAIN log : Len(log[i]) = 1 /\ log[i][1][2] # "half"}}

\* llm.usage counts no call that was not paid for, and of those whose line was written
\* all but one for each write that was cut short, whoever writes at the same time.
\* (usage.rs append "won't interleave bytes mid-line")
UsageIsTrue == Counted \subseteq paid /\ Cardinality(logged \ Counted) <= shorts

-----------------------------------------------------------------------------
(* What the code does not keep *)

\* usage.rs:8-10 "on short write we error rather than retrying so the JSONL invariant
\* (one record per line) holds": the record after the half is on the half's line.
OneRecordPerLine == \A i \in DOMAIN log : Len(log[i]) <= 1
=============================================================================
