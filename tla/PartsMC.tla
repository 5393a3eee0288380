------------------------------- MODULE PartsMC -------------------------------
(***************************************************************************)
(* The parts whose safety alone is looked at, each on small constants:     *)
(* what is drawn, what is parsed and who owns a name.  A behaviour is one  *)
(* component's, which `part' names; v1, v2, ... are its variables in the   *)
(* order of their declaration.                                             *)
(***************************************************************************)
EXTENDS Naturals, Sequences, FiniteSets, SequencesExt, TLC

CONSTANT Nil

\* What is typed into a condition: characters for the lexer, pieces for the parser.
Typed == {"=", "!", "<", "&", "(", "0", "-", ".", "q", "\\", "t", " "}
Words == {<<"true">>, <<"false">>, <<"1">>, <<"event", ".", "a">>, <<"==">>, <<"<">>, <<"&&">>,
          <<"||">>, <<"!">>, <<"(">>, <<")">>}

\* Two directories whose plugins have the same name and a module in common.
Manifests ==
  [d \in {1, 2} |-> IF d = 1 THEN [name |-> 1, modules |-> {"m"}, commands |-> {"c"}]
                             ELSE [name |-> 1, modules |-> {"m", "n"}, commands |-> {"d"}]]

\* A first line of the terminal: blank, coloured and linked, or with a double-width glyph.
Cell(glyph, pen, mark) == [glyph |-> glyph, pen |-> pen, mark |-> mark]
Plain == [kind |-> "default", n |-> 0]
Blank == Cell(" ", Plain, FALSE)
Rows ==
  {<<Blank, Blank>>, <<Cell("wide", Plain, FALSE), Cell("spacer", Plain, FALSE)>>,
   [c \in {1, 2} |-> Cell("a", [kind |-> "indexed", n |-> 1], TRUE)]}
FirstRows == {[c \in {0, 1} |-> row[c + 1]] : row \in Rows}

\* Todo files as users leave them: no frontmatter and no last newline, comments and a list
\* that does not end, a prompt of several lines after the status and bodies with a line
\* like one; a prompt with such a line before the status, and a due date that is a number.
Line(words) == [indent |-> FALSE, words |-> words, open |-> FALSE]
Indented(words) == [Line(words) EXCEPT !.indent = TRUE]
Open(words) == [Line(words) EXCEPT !.open = TRUE]
Pair(key, value) == Line(<<key, ":">> \o value)
Fence == Line(<<"---">>)
Empty == Line(<<>>)
Body == Line(<<"text">>)
Drafts ==
  {<<Body, Open(<<"more">>)>>, <<Open(<<"text">>)>>,
   <<Fence, Pair("due", <<"may">>), Line(<<"#", "note">>), Pair("tags", <<"[", "a">>), Fence,
     Empty, Empty, Line(<<"#", "title">>), Empty, Empty, Pair("status", <<"open">>)>>,
   <<Fence, Pair("linked_kb", <<>>), Indented(<<"-", "n">>), Line(<<"-", "m">>),
     Pair("status", <<"blocked">>), Pair("prompt", <<"|">>), Indented(<<"do">>), Empty,
     Indented(<<"status", ":", "x">>), Fence, Body, Pair("status", <<"open">>)>>,
   <<Fence, Pair("prompt", <<"|">>), Indented(<<"status", ":", "x">>), Pair("due", <<"7">>),
     Pair("status", <<"blocked">>), Fence, Body, Open(<<"more">>)>>}
Prompts == {<<>>, << <<"do">>, <<>>, <<"---">>, <<"status", ":", "done">> >>}

\* Two events that fire a trigger: with a field of a field and one named like the event's
\* own, and with a text that looks like a template; what is awaited and returned then.
Text(pieces) == [type |-> "string", text |-> pieces]
Object(fields) == [type |-> "object", fields |-> fields]
Deep == Object(<<"a">> :> Object(<<"b">> :> [type |-> "number", text |-> <<"7">>])
               @@ <<"kind">> :> Text(<<"own">>))
Braced == Object(<<"a">> :> Text(<<"{", "event", ".", "kind", "}">>))
Fired(payload) == [kind |-> <<"k">>, source |-> <<"s">>, chains |-> 0, payload |-> payload]
Starts == {[event |-> Fired(Deep), context |-> [active_panel |-> <<"p">>, active_cwd |-> Nil]],
           [event |-> Fired(Braced), context |-> Nil]}
Awaited == {Object(<<"a">> :> Text(<<"w">>))}
Results == {Object(<<"a">> :> Text(<<"r", "{">>))}
Token(path) == <<"{">> \o path \o <<"}">>
Tokens ==
  {Token(<<"event", ".", "a">>), Token(<<"event", ".", "a", ".", "b">>),
   Token(<<"event", ".", "kind">>), Token(<<"event", ".", "action_result", ".", "a">>),
   Token(<<"action_result", ".", "a">>), Token(<<"context", ".", "active_panel">>),
   <<"{">>, <<"}">>, <<"event", ".", "a">>}

\* Tags with quotes, brackets and a comma; bookmarks after the user's hands: a list on
\* lines of its own and no title, no second fence, no fence at all.
TagLists ==
  {<<>>, <<<<"a">>, <<"'", "a">>>>, <<<<"[", "a">>, <<"a", " ", "]">>>>, <<<<"a", ",", "a">>>>}
Notation(fence, lines) == [fence |-> fence, body |-> <<"b">>, lines |-> lines]
Held(key, value) == [key |-> key, value |-> value]
Notations ==
  {Notation("closed", <<Held("url", <<"u">>), Held("tags", <<>>), Held("-", <<"a">>),
                        Held("-", <<"'", "[", "'">>), Held("title", <<" ">>)>>),
   Notation("open", <<Held("url", <<"u">>), Held("tags", <<"[", " ", "]">>)>>),
   Notation("none", <<Held("url", <<"u">>)>>)}

VARIABLES part, v1, v2, v3, v4, v5, v6, v7, v8, v9, v10, v11, v12, v13

vars == <<part, v1, v2, v3, v4, v5, v6, v7, v8, v9, v10, v11, v12, v13>>

\* The variables that a component of less than all of them leaves aside.
From12 == <<v12, v13>>
From11 == <<v11, From12>>
From10 == <<v10, From11>>
From9 == <<v9, From10>>
From8 == <<v8, From9>>
From7 == <<v7, From8>>
From6 == <<v6, From7>>
From5 == <<v5, From6>>
From3 == <<v3, v4, From5>>
From2 == <<v2, From3>>
Idle12 == v12 = Nil /\ v13 = Nil
Idle11 == v11 = Nil /\ Idle12
Idle10 == v10 = Nil /\ Idle11
Idle9 == v9 = Nil /\ Idle10
Idle8 == v8 = Nil /\ Idle9
Idle7 == v7 = Nil /\ Idle8
Idle6 == v6 = Nil /\ Idle7
Idle5 == v5 = Nil /\ Idle6
Idle3 == v3 = Nil /\ v4 = Nil /\ Idle5
Idle2 == v2 = Nil /\ Idle3

Panels == INSTANCE PanelTree WITH
  MaxPanels <- 3, MaxStarts <- 2, Dirs <- {"a", "b"}, None <- Nil, tabs <- v1, pages <- v2,
  current <- v3, focused <- v4, exiting <- v5, running <- v6, made <- v7, starts <- v8, file
  <- v9, dragged <- v10, left <- v11

Screen == INSTANCE Terminal WITH
  Cols <- 2, Lines <- 2, History <- 1, Glyphs <- {"a"}, FirstRows <- FirstRows, MaxOps <- 3,
  None <- Nil, grid <- v1, cursor <- v2, offset <- v3, selection <- v4, damage <- v5,
  redraw <- v6, seen <- v7, cache <- v8, tick <- v9, osc52 <- v10, ops <- v11

Conditions == INSTANCE Condition WITH
  Characters <- Typed, MaxChars <- 4, Pieces <- Words, MaxPieces <- 5, mode <- v1, src <-
  v2, written <- v3, payload <- v4

Claude == INSTANCE ClaudeStart WITH
  Sessions <- {"s", "t"}, Starts <- {"c1", "c2"}, MaxChanges <- 3, pane <- v1, seeder <- v2,
  sent <- v3, executed <- v4, calm <- v5, slipped <- v6, changes <- v7

Bar == INSTANCE StatusBar WITH
  Manifests <- Manifests, MaxReloads <- 1, MaxAnswers <- 3, MaxChanges <- 2, disk <- v1, pl
  <- v2, dm <- v3, up <- v4, commands <- v5, labels <- v6, runs <- v7, visible <- v8, bound
  <- v9

Provides == INSTANCE ServiceProvides WITH
  Dirs <- {1, 2}, Names <- {1, 2}, Services <- {"s", "t"}, Actions <- {"x", "y"}, BuiltIns
  <- {}, MaxCalls <- 2, manifests <- v1, plugins <- v2, approved <- v3, conflicts <- v4,
  handles <- v5, registry <- v6, runtime <- v7, got <- v8, buffered <- v9, calls <- v10

\* Patterns are asked for one by one; the receivers held are the covering set of what
\* was asked, as after each TriggerSubscriptions::reconcile.
Patterns == INSTANCE EventPatterns WITH Segments <- {"a", "b"}
UpTo(n) == UNION {[1 .. m -> {"a", "b"}] : m \in 0 .. n}
AskedPatterns == {p \in [prefix : UpTo(2), star : BOOLEAN] : p.star \/ p.prefix # <<>>}
MaxAsked == 3
Ask == /\ Cardinality(v1) < MaxAsked
       /\ \E p \in AskedPatterns \ v1 : v1' = v1 \cup {p}

\* The receivers that an event of this kind reaches: one when an asked pattern matches it
\* (covering_patterns: what the set matches), never two, which would fire twice.
Receivers(kind) == {p \in Patterns!Covering(v1) : Patterns!Matches(p, kind)}
ReachesOne ==
  \A kind \in UpTo(3) \ {<<>>} :
    Cardinality(Receivers(kind)) = IF \E p \in v1 : Patterns!Matches(p, kind) THEN 1 ELSE 0

Workspaces == INSTANCE GitConfig WITH
  Names <- {"n1", "n2"}, Segments <- {1, 2}, MaxBlocks <- 2, workspaces <- v1, seen <- v2,
  errors <- v3, read <- v4

Todos == INSTANCE TodoFile WITH
  Drafts <- Drafts, Dues <- {<<>>, <<"may">>}, Tags <- {<<"a", "b">>}, Prompts <- Prompts,
  Numbers <- {"7"}, MaxBody <- 1, file <- v1

Templates == INSTANCE Interpolation WITH
  Starts <- Starts, Pieces <- Tokens, MaxPieces <- 3, Awaited <- Awaited, Results <-
  Results, MaxChains <- 2, Absent <- Nil, event <- v1, context <- v2, completed <- v3,
  template <- v4, typed <- v5

Notes == INSTANCE BookmarkFile WITH
  Pieces <- {"a", " ", ":", "[", "]", "'", "\""}, MaxTitle <- 3, TagLists <- TagLists,
  Drafts <- Notations, Nothing <- Nil, file <- v1, asked <- v2

ASSUME PartsAssumption ==
  /\ Panels!PanelTreeAssumption
  /\ Screen!TerminalAssumption /\ Conditions!ConditionAssumption /\ Claude!ClaudeStartAssumption
  /\ Bar!StatusBarAssumption /\ Provides!ProvidesAssumption /\ Workspaces!GitConfigAssumption

Init ==
  \/ part = "panels" /\ Panels!Init /\ Idle12
  \/ part = "terminal" /\ Screen!Init /\ Idle12
  \/ part = "conditions" /\ Conditions!Init /\ Idle5
  \/ part = "claude" /\ Claude!Init /\ Idle8
  \/ part = "statusbar" /\ Bar!Init /\ Idle10
  \/ part = "provides" /\ Provides!Init /\ Idle11
  \/ part = "patterns" /\ v1 = {} /\ Idle2
  \/ part = "gitconfig" /\ Workspaces!Init /\ Idle5
  \/ part = "todofile" /\ Todos!Init /\ Idle2
  \/ part = "templates" /\ Templates!Init /\ Idle6
  \/ part = "bookmarkfile" /\ Notes!Init /\ Idle3

PanelsStep == part = "panels" /\ Panels!Next /\ UNCHANGED <<part, From12>>
ScreenStep == part = "terminal" /\ Screen!Next /\ UNCHANGED <<part, From12>>
ConditionsStep == part = "conditions" /\ Conditions!Next /\ UNCHANGED <<part, From5>>
ClaudeStep == part = "claude" /\ Claude!Next /\ UNCHANGED <<part, From8>>
BarStep == part = "statusbar" /\ Bar!Next /\ UNCHANGED <<part, From10>>
ProvidesStep == part = "provides" /\ Provides!Next /\ UNCHANGED <<part, From11>>
PatternsStep == part = "patterns" /\ Ask /\ UNCHANGED <<part, From2>>
WorkspacesStep == part = "gitconfig" /\ Workspaces!Next /\ UNCHANGED <<part, From5>>
TodosStep == part = "todofile" /\ Todos!Next /\ UNCHANGED <<part, From2>>
TemplatesStep == part = "templates" /\ Templates!Next /\ UNCHANGED <<part, From6>>
NotesStep == part = "bookmarkfile" /\ Notes!Next /\ UNCHANGED <<part, From3>>

Next == PanelsStep \/ ScreenStep \/ ConditionsStep \/ ClaudeStep
        \/ BarStep \/ ProvidesStep \/ PatternsStep \/ WorkspacesStep
        \/ TodosStep \/ TemplatesStep \/ NotesStep

Spec == Init /\ [][Next]_vars

-----------------------------------------------------------------------------
\* What the window shows is what there is, where the code keeps to it: the focused panel is
\* one of its panels, as long as no page of the tabs was dragged; the highlight is the
\* selection and the rows are the terminal's.  A prompt runs in a shell only if claude ends
\* between the seeder's look and its paste; one that is left alone reaches claude, as one
\* message.  (tabs.rs, nestty-term lib.rs, linux socket.rs spawn_claude_prompt_seeder)
ScreenIsTrue ==
  /\ part = "panels" => Panels!TypeOK /\ Panels!FocusExists
  /\ part = "terminal" => Screen!TypeOK /\ Screen!HighlightIsSelection /\ Screen!RowsAreDrawn
  /\ part = "claude" => Claude!TypeOK /\ Claude!ShellsAreLeftAlone /\ Claude!PromptIsSubmitted

\* A name has one owner, whatever the order in which manifests are read and services come
\* and go: an action the plugin whose name comes first, where one plugin has that name, and
\* a service is sent no more than its manifest declares; a label of the status bar its
\* plugin, a path its workspace, an event the one receiver that covers its patterns.
\* (service_supervisor.rs resolve_provides, statusbar.rs, git config.rs, event_bus.rs)
OneOwner ==
  /\ part = "provides" => Provides!TypeOK /\ Provides!OneProvider /\ Provides!OnlyItsOwn
  /\ part = "statusbar" => Bar!TypeOK /\ Bar!OneWinner
  /\ part = "gitconfig" => Workspaces!TypeOK /\ Workspaces!OneOwner
  /\ part = "patterns" => ReachesOne

\* What is written means what its grammar says: a condition, whatever precedence and
\* short cut the parser takes, a string literal, what was quoted, a template, whose
\* tokens alone are replaced, by this event's values and the last action's result, and
\* never by what an inserted text looks like, a bookmark's file after edits by hand, and
\* a todo's body, rendered and read again, but for a newline at its end.
\* (condition.rs, trigger.rs interpolate_*, todo todo.rs, bookmark frontmatter.rs)
MeansWhatItSays ==
  /\ part = "conditions" =>
       Conditions!TypeOK /\ Conditions!MeansWhatItSays /\ Conditions!LexIsFaithful
  /\ part = "templates" =>
       Templates!TypeOK /\ Templates!OnePass /\ Templates!TypedAgrees
       /\ Templates!ResultIsTheLast /\ Templates!PayloadWins
  /\ part = "todofile" => Todos!BodyIsStable
  /\ part = "bookmarkfile" => Notes!AddedIsShown /\ Notes!BlocksAreLists

=============================================================================
