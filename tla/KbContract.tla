------------------------------ MODULE KbContract -------------------------------
(***************************************************************************)
(* What kb.ensure and kb.append promise (docs/kb-protocol.md): a document  *)
(* is made by one call, whole; every acknowledged append is in it once and *)
(* in one piece, unless the user has meanwhile removed or replaced the     *)
(* document.                                                               *)
(***************************************************************************)
EXTENDS Naturals, Sequences

CONSTANTS
  Documents,
  Payloads,   \* <process, number, call> of each call
  None

VARIABLES
  text,      \* [Documents -> sequence of what was written, or None]
  answers,   \* [Payloads -> the answer to the call that brought it, or None]
  moves      \* [Documents -> times the user removed or replaced it]

vars == <<text, answers, moves>>

Init == text = [d \in Documents |-> None] /\ answers = [p \in Payloads |-> None]
        /\ moves = [d \in Documents |-> 0]

Answer(p, answer) == answers[p] = None /\ answers' = [answers EXCEPT ![p] = answer]

Asks(p) == p[3]

Create(d, p) ==
  /\ Asks(p) # "append" /\ text[d] = None /\ text' = [text EXCEPT ![d] = <<p>>]
  /\ Answer(p, "created") /\ UNCHANGED moves

Append_(d, p) ==
  /\ Asks(p) # "ensure" /\ text[d] # None /\ text' = [text EXCEPT ![d] = Append(@, p)]
  /\ Answer(p, "appended") /\ UNCHANGED moves

\* The file it was written to is another's by now, or nobody's.
AppendElsewhere(d, p) ==
  /\ Asks(p) # "ensure" /\ moves[d] > 0
  /\ Answer(p, "appended") /\ UNCHANGED <<text, moves>>

\* Only ensure may leave the document as it is, only a plain append do without one.
Existed(d, p) ==
  /\ Asks(p) = "ensure" /\ text[d] # None
  /\ Answer(p, "existed") /\ UNCHANGED <<text, moves>>
NotFound(d, p) ==
  /\ Asks(p) = "append" /\ text[d] = None
  /\ Answer(p, "not_found") /\ UNCHANGED <<text, moves>>
Failed(p) == Answer(p, "io_error") /\ UNCHANGED <<text, moves>>

\* The user's editor.
Save(d) ==
  /\ text' = [text EXCEPT ![d] = <<>>] /\ UNCHANGED answers
  /\ moves' \in {moves, [moves EXCEPT ![d] = @ + 1]}
Remove(d) ==
  /\ text' = [text EXCEPT ![d] = None] /\ UNCHANGED answers
  /\ moves' = [moves EXCEPT ![d] = @ + 1]

Next ==
  \/ \E d \in Documents, p \in Payloads :
       Create(d, p) \/ Append_(d, p) \/ AppendElsewhere(d, p) \/ Existed(d, p) \/ NotFound(d, p)
  \/ \E p \in Payloads : Failed(p)
  \/ \E d \in Documents : Save(d) \/ Remove(d)

Spec == Init /\ [][Next]_vars
=============================================================================
