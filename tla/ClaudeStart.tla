----------------------------- MODULE ClaudeStart -----------------------------
(***************************************************************************)
(* claude.start in the Linux window: a tab whose shell attaches to a tmux  *)
(* session named after the workspace, made with claude in it unless it is  *)
(* there already, and a thread that pastes the prompt once claude is up.   *)
(* tmux and the programs in its panes are the surroundings.                *)
(***************************************************************************)
EXTENDS Naturals, Sequences, FiniteSets

CONSTANTS
  Sessions,    \* session names; two workspaces may derive the same one
  Starts,      \* calls of claude.start that ask for a prompt
  MaxChanges   \* bound on what users do in the panes

ClaudeStartAssumption == MaxChanges \in Nat /\ IsFiniteSet(Starts)

VARIABLES
  pane,      \* session -> what tmux has: front program, text on screen, input typed
  seeder,    \* call -> its thread: phase, session, what it has seen
  sent,      \* prompts submitted to claude, as claude got them
  executed,  \* prompts a shell took for commands
  calm,      \* history: calls whose pane nobody else touched since the paste
  slipped,   \* history: calls whose claude ended between the look at it and the paste
  changes

vars == <<pane, seeder, sent, executed, calm, slipped, changes>>

NoSession == [front |-> "none", own |-> FALSE, banner |-> FALSE, input |-> <<>>, folded |-> FALSE]
Idle == [phase |-> "idle", session |-> "", marker |-> FALSE, claude |-> FALSE]

Phases == {"idle", "opened", "settled", "seen", "checked", "loaded", "pasted", "entered", "done", "refused", "failed"}

TypeOK ==
  /\ \A s \in Sessions : pane[s].front \in {"none", "claude", "shell"}
                         /\ \A i \in DOMAIN pane[s].input : pane[s].input[i] \in Starts
  /\ \A c \in Starts : seeder[c].phase \in Phases
  /\ executed \subseteq Starts /\ calm \subseteq Starts /\ slipped \subseteq Starts

Init ==
  /\ pane \in [Sessions -> {NoSession, [NoSession EXCEPT !.front = "shell"]}]
  /\ seeder = [c \in Starts |-> Idle]
  /\ sent = {} /\ executed = {} /\ calm = {} /\ slipped = {} /\ changes = 0

Live(c) == seeder[c].phase \notin {"idle", "done", "refused", "failed"}
OfSession(s) == {c \in Starts : Live(c) /\ seeder[c].session = s}

\* What a change of session s means to the calls that use it.
Touched(s) == calm' = calm \ OfSession(s)

-----------------------------------------------------------------------------
(* The call.  Bad parameters are answered with an error and change nothing. *)

\* The tab is opened with the tmux command as its first input; the thread starts.
handle_claude_start(c, s) ==
  /\ seeder[c].phase = "idle"
  /\ seeder' = [seeder EXCEPT ![c] = [Idle EXCEPT !.phase = "opened", !.session = s]]
  /\ UNCHANGED <<pane, sent, executed, calm, slipped, changes>>

\* The shell of the tab has started and runs "tmux new-session -A": an existing
\* session is only attached to.
NewSession(s) ==
  /\ OfSession(s) # {} /\ pane[s].front = "none"
  /\ pane' = [pane EXCEPT ![s] = [NoSession EXCEPT !.front = "claude", !.own = TRUE]]
  /\ Touched(s)
  /\ UNCHANGED <<seeder, sent, executed, slipped, changes>>

-----------------------------------------------------------------------------
(* The seeder thread.                                                      *)

\* capture-pane, every 200 ms: a marker on the screen, or eight seconds have passed.
Poll(c) ==
  /\ seeder[c].phase = "opened"
  /\ seeder' = [seeder EXCEPT ![c].phase = "settled", ![c].marker = pane[seeder[c].session].banner]
  /\ UNCHANGED <<pane, sent, executed, calm, slipped, changes>>

Mutant_Passes(c, front) == seeder[c].marker

\* Both gates: the marker was seen, and the foreground command is claude.
Passes(c, front) == seeder[c].marker /\ front = "claude"

\* display-message pane_current_command.
CheckFront(c) ==
  /\ seeder[c].phase = "settled"
  /\ seeder' = [seeder EXCEPT ![c].phase =
                  IF Passes(c, pane[seeder[c].session].front) THEN "checked" ELSE "refused"]
  /\ UNCHANGED <<pane, sent, executed, calm, slipped, changes>>

\* The temporary file and load-buffer, under a name of its own.
LoadBuffer(c) ==
  /\ seeder[c].phase = "checked"
  /\ \/ seeder' = [seeder EXCEPT ![c].phase = "loaded"]
     \/ seeder' = [seeder EXCEPT ![c].phase = "failed"]
  /\ UNCHANGED <<pane, sent, executed, calm, slipped, changes>>

\* paste-buffer: into whatever is in front.  claude folds a long prompt; a shell runs
\* the lines as they come.
PasteBuffer(c) ==
  LET s == seeder[c].session
  IN  /\ seeder[c].phase = "loaded"
      /\ \/ /\ pane[s].front = "none"
            /\ seeder' = [seeder EXCEPT ![c].phase = "failed"] /\ UNCHANGED <<pane, executed, calm>>
         \/ /\ pane[s].front = "shell"
            /\ seeder' = [seeder EXCEPT ![c].phase = "pasted"]
            /\ executed' = executed \cup {c} /\ UNCHANGED <<pane, calm>>
         \/ /\ pane[s].front = "claude"
            /\ seeder' = [seeder EXCEPT ![c].phase = "pasted"]
            /\ \E long \in BOOLEAN :
                 pane' = [pane EXCEPT ![s].input = Append(@, c), ![s].folded = @ \/ long]
            /\ calm' = IF pane[s].input = <<>> THEN calm \cup {c} ELSE calm \ OfSession(s)
            /\ UNCHANGED executed
      /\ UNCHANGED <<sent, slipped, changes>>

\* Enter: unfolds a folded paste, else submits what is there, else does nothing.
Submit(s) ==
  IF pane[s].front # "claude" \/ pane[s].input = <<>> THEN UNCHANGED <<pane, sent>>
  ELSE IF pane[s].folded THEN pane' = [pane EXCEPT ![s].folded = FALSE] /\ UNCHANGED sent
  ELSE pane' = [pane EXCEPT ![s].input = <<>>] /\ sent' = sent \cup {pane[s].input}

Mutant_SecondEnter(c) ==
  /\ seeder[c].phase = "entered" /\ UNCHANGED <<pane, sent>>
  /\ seeder' = [seeder EXCEPT ![c].phase = "done"]
  /\ UNCHANGED <<executed, calm, slipped, changes>>

FirstEnter(c) ==
  /\ seeder[c].phase = "pasted" /\ Submit(seeder[c].session)
  /\ seeder' = [seeder EXCEPT ![c].phase = "entered"]
  /\ UNCHANGED <<executed, calm, slipped, changes>>

\* 200 ms later.
SecondEnter(c) ==
  /\ seeder[c].phase = "entered" /\ Submit(seeder[c].session)
  /\ seeder' = [seeder EXCEPT ![c].phase = "done"]
  /\ UNCHANGED <<executed, calm, slipped, changes>>

Seed(c) == Poll(c) \/ CheckFront(c) \/ LoadBuffer(c) \/ PasteBuffer(c) \/ FirstEnter(c) \/ SecondEnter(c)

-----------------------------------------------------------------------------
(* The panes.                                                              *)

Changes == changes < MaxChanges /\ changes' = changes + 1 /\ UNCHANGED <<seeder, sent, executed>>

\* claude is ready and shows its banner, or the banner scrolls away.
Banner(s, b) ==
  /\ pane[s].front # "none" /\ pane[s].banner # b /\ (b => pane[s].front = "claude")
  /\ pane' = [pane EXCEPT ![s].banner = b]
  /\ Changes /\ UNCHANGED <<calm, slipped>>

\* claude ends: its own session with it, a user's goes back to the shell.
ClaudeQuits(s) ==
  /\ pane[s].front = "claude"
  /\ pane' = [pane EXCEPT ![s] = IF pane[s].own THEN NoSession
                                 ELSE [@ EXCEPT !.front = "shell", !.input = <<>>, !.folded = FALSE]]
  /\ slipped' = slipped \cup {c \in OfSession(s) : seeder[c].phase \in {"checked", "loaded"}}
  /\ Changes /\ Touched(s)

RunClaude(s) ==
  /\ pane[s].front = "shell"
  /\ pane' = [pane EXCEPT ![s].front = "claude"]
  /\ Changes /\ Touched(s) /\ UNCHANGED slipped

Next ==
  \/ \E c \in Starts : Seed(c) \/ \E s \in Sessions : handle_claude_start(c, s)
  \/ \E s \in Sessions :
       NewSession(s) \/ ClaudeQuits(s) \/ RunClaude(s) \/ \E b \in BOOLEAN : Banner(s, b)

Spec == Init /\ [][Next]_vars

-----------------------------------------------------------------------------
\* A shell runs a prompt only when claude was in front of it as the seeder looked, and
\* ended before the paste: neither a session that was there, nor what its screen shows,
\* nor a claude that has ended before brings one to it (the "trust boundary" of
\* spawn_claude_prompt_seeder).
ShellsAreLeftAlone == executed \subseteq slipped

\* Two Enters cover folded and plain pastes: a prompt that was pasted into an empty input,
\* with nothing done to its pane since, has reached claude, alone, when its thread is done.
PromptIsSubmitted ==
  \A c \in calm : seeder[c].phase = "done" => <<c>> \in sent

\* No prompt is ever run by a shell.  It fails: claude quits between the check and the
\* paste.
NothingIsExecuted == executed = {}

\* Every prompt is a message of its own.  It fails: two calls whose workspaces derive
\* one session name paste before either submits.
PromptsAreSeparate == \A m \in sent : Len(m) = 1
=============================================================================
