------------------------------- MODULE KbPlugin --------------------------------
(***************************************************************************)
(* The knowledge base: kb.append, kb.ensure, kb.read and kb.search of      *)
(* plugin processes that share a directory with the user's editor.  A      *)
(* document is made as a temporary file beside it and renamed; an append   *)
(* is one write to the file found by its name.                             *)
(***************************************************************************)
EXTENDS Naturals, Sequences

CONSTANTS
  Processes,   \* of the plugin
  Documents,   \* ids
  MaxCalls,    \* bound on the calls a process serves
  MaxFiles,    \* bound on the files made
  MaxMoves,    \* bound on the user's removals and replacements of a document
  None

Calls == {"append", "append_ensure", "ensure"}
\* What a call brings: the process, its number and what it asks for.
Payloads == Processes \X (1..MaxCalls) \X Calls
Files == 1..MaxFiles

KbPluginAssumption ==
  {MaxCalls, MaxFiles, MaxMoves} \subseteq Nat /\ None \notin Nat \cup Seq(Payloads)

VARIABLES
  name,      \* [Documents -> file or None]: the directory
  bytes,     \* [Files -> [whole, torn]]: the payloads a file holds, in the order in which they
             \* were written, and those of which it holds a half
  made,      \* files made so far
  temps,     \* temporary files in the directory
  call,      \* what a process is doing, or None
  served,    \* calls it has begun
  answers,   \* history: how the call with a payload was answered
  moves      \* history: removals and replacements by the user

vars == <<name, bytes, made, temps, call, served, answers, moves>>

Named == {name[d] : d \in Documents} \ {None}

TypeOK ==
  /\ name \in [Documents -> Files \cup {None}]
  /\ \A d, e \in Documents : name[d] # None /\ name[d] = name[e] => d = e
  /\ bytes \in [Files -> [whole : Seq(Payloads), torn : SUBSET Payloads]]
  /\ made \in 0..MaxFiles /\ temps \subseteq Files
  /\ call \in [Processes -> [does : Calls, doc : Documents, file : Files \cup {None},
                            at : {"check", "temp", "fill", "rename", "open", "write", "writing"}]
                           \cup {None}]
  /\ served \in [Processes -> 0..MaxCalls]
  /\ answers \in [Payloads -> {None, "created", "existed", "appended", "not_found", "io_error"}]
  /\ moves \in [Documents -> 0..MaxMoves]

Init ==
  /\ name = [d \in Documents |-> None] /\ made = 0
  /\ bytes = [f \in Files |-> [whole |-> <<>>, torn |-> {}]]
  /\ temps = {} /\ call = [p \in Processes |-> None] /\ served = [p \in Processes |-> 0]
  /\ answers = [p \in Payloads |-> None] /\ moves = [d \in Documents |-> 0]

-----------------------------------------------------------------------------
(* A process serves one call at a time *)

Payload(p) == <<p, served[p], call[p].does>>
At(p, step) == call[p] # None /\ call[p].at = step
Doc(p) == call[p].doc

Goes(p, step) == call' = [call EXCEPT ![p].at = step]
GoesWith(p, step, file) == call' = [call EXCEPT ![p].at = step, ![p].file = file]
Answers(p, answer) ==
  /\ answers' = [answers EXCEPT ![Payload(p)] = answer] /\ call' = [call EXCEPT ![p] = None]

\* kb.append with and without ensure, kb.ensure.  The id and its parents have been
\* checked; links are refused.
Begin(p, does, d) ==
  /\ call[p] = None /\ served[p] < MaxCalls /\ served' = [served EXCEPT ![p] = @ + 1]
  /\ call' = [call EXCEPT ![p] = [does |-> does, doc |-> d, at |-> "check", file |-> None]]
  /\ UNCHANGED <<name, bytes, made, temps, answers, moves>>

\* path.exists(), symlink_metadata()
Check(p) ==
  /\ At(p, "check")
  /\ IF name[Doc(p)] # None
     THEN IF call[p].does = "ensure" THEN Answers(p, "existed")
                                     ELSE Goes(p, "open") /\ UNCHANGED answers
     ELSE IF call[p].does = "append" THEN Answers(p, "not_found")
                                     ELSE Goes(p, "temp") /\ UNCHANGED answers
  /\ UNCHANGED <<name, bytes, made, temps, served, moves>>

\* The temporary file, made and written; a full disk leaves it where it is.
MakeTemp(p) ==
  /\ At(p, "temp") /\ made < MaxFiles /\ made' = made + 1
  /\ temps' = temps \cup {made'}
  /\ GoesWith(p, "fill", made')
  /\ UNCHANGED <<name, bytes, served, answers, moves>>

FillTemp(p) ==
  /\ At(p, "fill")
  /\ \/ /\ bytes' = [bytes EXCEPT ![call[p].file].whole = <<Payload(p)>>]
        /\ Goes(p, "rename") /\ UNCHANGED answers
     \/ /\ bytes' = [bytes EXCEPT ![call[p].file].torn = {Payload(p)}]
        /\ Answers(p, "io_error")
  /\ UNCHANGED <<name, made, temps, served, moves>>

Mutant_Lost(p) == Answers(p, "existed")

\* Another made it: ensure is done, append has still to write.
Lost(p) ==
  IF call[p].does = "ensure" THEN Answers(p, "existed") ELSE Goes(p, "open") /\ UNCHANGED answers

Mutant_Rename(p) ==
  /\ At(p, "rename") /\ temps' = temps \ {call[p].file}
  /\ name' = [name EXCEPT ![Doc(p)] = call[p].file] /\ Answers(p, "created")
  /\ UNCHANGED <<bytes, made, served, moves>>

\* rename_no_replace
Rename(p) ==
  /\ At(p, "rename") /\ temps' = temps \ {call[p].file}
  /\ IF name[Doc(p)] = None
     THEN name' = [name EXCEPT ![Doc(p)] = call[p].file] /\ Answers(p, "created")
     ELSE Lost(p) /\ UNCHANGED name
  /\ UNCHANGED <<bytes, made, served, moves>>

Open(p) ==
  /\ At(p, "open")
  /\ IF name[Doc(p)] = None THEN Answers(p, "io_error")
                            ELSE GoesWith(p, "write", name[Doc(p)]) /\ UNCHANGED answers
  /\ UNCHANGED <<name, bytes, made, temps, served, moves>>

\* The write holds the file's lock; a reader may find half of it.
BeginWrite(p) ==
  /\ At(p, "write") /\ \A q \in Processes : ~(At(q, "writing") /\ call[q].file = call[p].file)
  /\ bytes' = [bytes EXCEPT ![call[p].file].torn = @ \cup {Payload(p)}]
  /\ Goes(p, "writing")
  /\ UNCHANGED <<name, made, temps, served, answers, moves>>

\* All of it is written, or only the half.
EndWrite(p) ==
  /\ At(p, "writing")
  /\ \/ /\ bytes' = [bytes EXCEPT ![call[p].file] =
             [whole |-> Append(@.whole, Payload(p)), torn |-> @.torn \ {Payload(p)}]]
        /\ Answers(p, "appended")
     \/ UNCHANGED bytes /\ Answers(p, "io_error")
  /\ UNCHANGED <<name, made, temps, served, moves>>

\* A process is killed; a temporary file stays.
Kill(p) ==
  /\ call[p] # None /\ ~At(p, "writing")
  /\ call' = [call EXCEPT ![p] = None]
  /\ UNCHANGED <<name, bytes, made, temps, served, answers, moves>>

-----------------------------------------------------------------------------
(* The user's editor: a new file, a save in place, a save by rename, a removal *)

Idle(f) == \A p \in Processes : ~(At(p, "writing") /\ call[p].file = f)

SaveInPlace(d) ==
  /\ name[d] # None /\ Idle(name[d]) 
  /\ bytes' = [bytes EXCEPT ![name[d]] = [whole |-> <<>>, torn |-> {}]]
  /\ UNCHANGED <<name, made, temps, call, served, answers, moves>>

SaveNew(d) ==
  /\ made < MaxFiles /\ made' = made + 1 /\ name' = [name EXCEPT ![d] = made']
  /\ IF name[d] = None THEN UNCHANGED moves
     ELSE moves[d] < MaxMoves /\ moves' = [moves EXCEPT ![d] = @ + 1]
  /\ UNCHANGED <<bytes, temps, call, served, answers>>

Remove(d) ==
  /\ name[d] # None /\ moves[d] < MaxMoves /\ moves' = [moves EXCEPT ![d] = @ + 1]
  /\ name' = [name EXCEPT ![d] = None]
  /\ UNCHANGED <<bytes, made, temps, call, served, answers>>

-----------------------------------------------------------------------------
Work(p) == Check(p) \/ MakeTemp(p) \/ FillTemp(p) \/ Rename(p) \/ Open(p) \/ BeginWrite(p) \/ EndWrite(p)

Next ==
  \/ \E p \in Processes :
       \/ \E d \in Documents, does \in Calls : Begin(p, does, d)
       \/ Work(p) \/ Kill(p)
  \/ \E d \in Documents : SaveInPlace(d) \/ SaveNew(d) \/ Remove(d)

Spec == Init /\ [][Next]_vars

-----------------------------------------------------------------------------
(* Properties *)

Contract == INSTANCE KbContract WITH
  text <- [d \in Documents |-> IF name[d] = None THEN None ELSE bytes[name[d]].whole]

\* The calls do what the protocol promises: exactly one creator, every
\* acknowledged payload in the document once and whole.  (docs/kb-protocol.md
\* 266-283, 330-347)
KeepsContract == Contract!Spec

-----------------------------------------------------------------------------
(* What the code does not keep *)

\* kb.search takes every regular file outside .raw.
Hits == Named \cup temps

\* kb.search returns documents.  A temporary file of a call under way, or of a
\* process that was killed, is a hit as well.  (kb.rs walk, atomic_create_with_content)
HitsAreDocuments == Hits = Named
=============================================================================
