------------------------------- MODULE TodoFile -------------------------------
(***************************************************************************)
(* The text of one todo: what the plugin reads from it (parse), writes for  *)
(* a new or edited todo (render_new) and rewrites when only the status      *)
(* changes (update_status_in_text).  The file is also the user's, who edits *)
(* it by hand.  Who writes when is TodoPlugin's subject: here every action  *)
(* is one read, change and replace.                                         *)
(*                                                                         *)
(* A file is a sequence of lines; a line is its words, with a flag for an   *)
(* indent of two spaces and, for the last one, for a missing newline.  Line *)
(* endings and deeper indents are left out.                                 *)
(***************************************************************************)
EXTENDS Naturals, Sequences, SequencesExt, FiniteSets

CONSTANTS
  Drafts,    \* the files a user may leave behind
  Dues,      \* what callers pass as due
  Tags,      \* ... as tags
  Prompts,   \* ... as prompt, each a sequence of lines' words
  Numbers,   \* words that parse as an i64, true, false, null or ~
  MaxBody    \* bound: the longest body a subtask is added to

VARIABLES file

vars == <<file>>

Statuses == {"open", "in_progress", "blocked", "done"}

Line(words)     == [indent |-> FALSE, words |-> words, open |-> FALSE]
Indented(words) == [indent |-> TRUE, words |-> words, open |-> FALSE]
Fence           == Line(<<"---">>)
Empty           == Line(<<>>)
Pair(key, value) == Line(<<key, ":">> \o value)

IsPair(words)  == Len(words) >= 2 /\ words[2] = ":"
Value(words)   == SubSeq(words, 3, Len(words))
IsBlank(line)  == line.words = <<>>
IsFence(line)  == ~line.indent /\ line.words = <<"---">>
From(s, i)     == SubSeq(s, i, Len(s))
First(P(_), s) == LET hits == {i \in DOMAIN s : P(s[i])}
                  IN  IF hits = {} THEN 0 ELSE CHOOSE i \in hits : \A j \in hits : i <= j

-----------------------------------------------------------------------------
(* Reading. *)

(* Where the frontmatter's closing fence is, 0 when there is no frontmatter:
   the first line is no fence, or no other line is one.                      *)
Closing(f) ==
  IF f = <<>> \/ f[1] # Fence THEN 0
  ELSE LET at == First(IsFence, Tail(f)) IN IF at = 0 THEN 0 ELSE at + 1

(* One empty line after the fence belongs to neither. *)
AfterEmpty(rest) == IF rest # <<>> /\ Head(rest) = Empty THEN Tail(rest) ELSE rest
SplitAt(f, close) ==
  IF close = 0 THEN [block |-> <<>>, body |-> f]
  ELSE [block |-> SubSeq(f, 2, close - 1), body |-> AfterEmpty(From(f, close + 1))]
split_frontmatter(f) == SplitAt(f, Closing(f))

(* A value that is not a number, truth value or null is a string; a list keeps
   its strings only when it is asked for strings.                            *)
parse_yaml_value(value) ==
  CASE value = <<>>      -> [type |-> "null", words |-> <<>>]
    [] value # <<>> /\ value[1] = "[" ->
         [type |-> "list", words |-> SelectSeq(Tail(value), LAMBDA w : w \notin Numbers)]
    [] Len(value) = 1 /\ value[1] \in Numbers -> [type |-> "other", words |-> value]
    [] OTHER -> [type |-> "string", words |-> value]

(* The lines after `key: |` that belong to the text: indented, or empty. *)
Scalar(block, i) ==
  LET end == First(LAMBDA line : ~line.indent /\ ~IsBlank(line), From(block, i + 1))
      all == IF end = 0 THEN From(block, i + 1) ELSE SubSeq(block, i + 1, i + end - 1)
      (* a newline separates lines only once there is some text *)
      start == First(LAMBDA line : ~IsBlank(line), all)
  IN  IF start = 0 THEN <<>> ELSE [k \in 1 .. Len(all) - start + 1 |-> all[k + start - 1].words]

(* The items after `key:`. *)
IsItem(line) == line.words # <<>> /\ line.words[1] = "-"
Items(block, i) ==
  LET end == First(LAMBDA line : ~IsItem(line), From(block, i + 1))
      all == IF end = 0 THEN From(block, i + 1) ELSE SubSeq(block, i + 1, i + end - 1)
  IN  SelectSeq([k \in DOMAIN all |-> all[k].words[2]], LAMBDA w : w \notin Numbers)

(* Lines of the block that are taken by the entry before them. *)
Taken(block) ==
  UNION {LET n == IF Value(block[i].words) = <<"|">>
                  THEN LET end == First(LAMBDA line : ~line.indent /\ ~IsBlank(line), From(block, i + 1))
                       IN  IF end = 0 THEN Len(block) - i ELSE end - 1
                  ELSE LET end == First(LAMBDA line : ~IsItem(line), From(block, i + 1))
                       IN  IF end = 0 THEN Len(block) - i ELSE end - 1
         IN  i + 1 .. i + n :
         i \in {k \in DOMAIN block : /\ ~block[k].indent /\ IsPair(block[k].words)
                                     /\ Value(block[k].words) \in {<<>>, <<"|">>}}}

(* The entries: of a key's several the last one wins.  Comments and lines
   without a colon are skipped.                                              *)
Keys == {"status", "due", "linked_kb", "tags", "prompt"}
EntryAt(block, i, value) ==
  CASE value = <<"|">> -> [type |-> "text", words |-> Scalar(block, i)]
    [] value = <<>>    -> [type |-> "list", words |-> Items(block, i)]
    [] OTHER           -> parse_yaml_value(value)
Entry(block, at) ==
  IF at = {} THEN [type |-> "absent", words |-> <<>>]
  ELSE EntryAt(block, Max(at), Value(block[Max(at)].words))
Entries(block, own) ==
  [key \in Keys |-> Entry(block, {i \in own : block[i].words[1] = key})]
parse_frontmatter_block(block) ==
  Entries(block, {i \in DOMAIN block : IsPair(block[i].words)} \ Taken(block))

(* The first line with something on it is the title, with or without "# ", and
   leaves the body together with one empty line after it.                    *)
TitledAt(body, at) ==
  IF at = 0 THEN [title |-> <<"id">>, body |-> body]
  ELSE [title |-> IF Len(body[at].words) > 1 /\ body[at].words[1] = "#" THEN Tail(body[at].words)
                  ELSE body[at].words,
        body  |-> SubSeq(body, 1, at - 1) \o AfterEmpty(From(body, at + 1))]
derive_title_and_body(body) == TitledAt(body, First(LAMBDA line : ~IsBlank(line), body))

(* Each field reads an entry of its own type and takes any other for absent;
   a prompt may be one string.                                               *)
Words(entry, type) == IF entry.type = type THEN entry.words ELSE <<>>
ToStatus(words) == IF \E s \in Statuses : words = <<s>> THEN words[1] ELSE "open"
ToTodo(fm, titled) ==
  [status |-> ToStatus(Words(fm["status"], "string")),
   due |-> Words(fm["due"], "string"), linked_kb |-> Words(fm["linked_kb"], "list"),
   tags |-> Words(fm["tags"], "list"),
   prompt |-> IF fm["prompt"].type = "string" THEN <<fm["prompt"].words>>
              ELSE Words(fm["prompt"], "text"),
   title |-> titled.title, body |-> titled.body]
OfParts(split) ==
  ToTodo(parse_frontmatter_block(split.block), derive_title_and_body(split.body))
parse(f) == OfParts(split_frontmatter(f))

-----------------------------------------------------------------------------
(* Writing. *)

(* A text's lines: an empty one at its end is not a line of its own. *)
Shown(text) == IF text # <<>> /\ Last(text) = <<>> THEN Front(text) ELSE text

(* A body ends in a newline once it is rendered. *)
Closed(body) == [i \in DOMAIN body |-> [body[i] EXCEPT !.open = FALSE]]

(* A bug: the lines of the prompt are not indented. *)
Mutant_render_new(t) ==
  <<Fence, Pair("status", <<t.status>>)>>
  \o (IF t.due = <<>> THEN <<>> ELSE <<Pair("due", t.due)>>)
  \o (IF t.linked_kb = <<>> THEN <<>>
      ELSE <<Pair("linked_kb", <<>>)>> \o [i \in DOMAIN t.linked_kb |-> Indented(<<"-", t.linked_kb[i]>>)])
  \o (IF t.tags = <<>> THEN <<>> ELSE <<Pair("tags", <<"[">> \o t.tags)>>)
  \o (IF t.prompt = <<>> THEN <<>>
      ELSE <<Pair("prompt", <<"|">>)>> \o [i \in DOMAIN Shown(t.prompt) |-> Line(t.prompt[i])])
  \o <<Fence, Empty, Line(<<"#">> \o t.title)>>
  \o (IF t.body = <<>> THEN <<>> ELSE <<Empty>> \o Closed(t.body))
render_new(t) ==
  <<Fence, Pair("status", <<t.status>>)>>
  \o (IF t.due = <<>> THEN <<>> ELSE <<Pair("due", t.due)>>)
  \o (IF t.linked_kb = <<>> THEN <<>>
      ELSE <<Pair("linked_kb", <<>>)>> \o [i \in DOMAIN t.linked_kb |-> Indented(<<"-", t.linked_kb[i]>>)])
  \o (IF t.tags = <<>> THEN <<>> ELSE <<Pair("tags", <<"[">> \o t.tags)>>)
  \o (IF t.prompt = <<>> THEN <<>>
      ELSE <<Pair("prompt", <<"|">>)>> \o [i \in DOMAIN Shown(t.prompt) |-> Indented(t.prompt[i])])
  \o <<Fence, Empty, Line(<<"#">> \o t.title)>>
  \o (IF t.body = <<>> THEN <<>> ELSE <<Empty>> \o Closed(t.body))

(* The first `status:` line of the frontmatter, whatever its indent; 0 when
   there is none.                                                            *)
(* A bug: the fence is not looked for. *)
Mutant_StatusLine(f) == First(LAMBDA line : IsPair(line.words) /\ line.words[1] = "status", f)
StatusLine(f) ==
  IF Closing(f) = 0 THEN 0
  ELSE First(LAMBDA line : IsPair(line.words) /\ line.words[1] = "status", SubSeq(f, 1, Closing(f)))

(* Only that line is rewritten; without one the file is rendered afresh. *)
update_status_in_text(f, status) ==
  IF StatusLine(f) = 0 THEN render_new([parse(f) EXCEPT !.status = status])
  ELSE [f EXCEPT ![StatusLine(f)].words = <<"status", ":", status>>, ![StatusLine(f)].indent = FALSE]

-----------------------------------------------------------------------------
(* The actions of the plugin, and the user's editor. *)

(* todo.create: a file that was not there. *)
Create ==
  /\ file = <<>>
  /\ \E due \in Dues, tags \in Tags, prompt \in Prompts, body \in {<<>>, <<Line(<<"text">>)>>} :
       file' = render_new([status |-> "open", due |-> due, linked_kb |-> <<>>, tags |-> tags,
                           prompt |-> prompt, title |-> <<"title">>, body |-> body])

(* todo.set_status. *)
SetStatus(status) == file # <<>> /\ file' = update_status_in_text(file, status)

(* todo.update: the fields the call names, the others as they were read. *)
Update(field, value) ==
  /\ file # <<>>
  /\ file' = render_new([parse(file) EXCEPT ![field] = value])

(* append_subtask, a line at the end of the body, which is ended before. *)
AppendSubtask ==
  LET t == parse(file)
  IN  /\ file # <<>> /\ Len(t.body) < MaxBody
      /\ file' = render_new([t EXCEPT !.body = Append(Closed(@), Line(<<"-", "[ ]", "step">>))])

Edit == \E draft \in Drafts : file' = draft

Updates ==
  {<<"title", <<"other">>>>, <<"body", <<>>>>, <<"body", <<Empty, [Line(<<"more">>) EXCEPT !.open = TRUE]>>>>}
    \cup {<<"due", due>> : due \in Dues} \cup {<<"tags", tags>> : tags \in Tags}
    \cup {<<"prompt", prompt>> : prompt \in Prompts}

Init == file \in Drafts \cup {<<>>}

Next ==
  \/ Create \/ AppendSubtask \/ Edit
  \/ \E status \in Statuses : SetStatus(status)
  \/ \E u \in Updates : Update(u[1], u[2])

Spec == Init /\ [][Next]_vars

-----------------------------------------------------------------------------
TypeOK == file \in Seq([indent : BOOLEAN, words : Seq(STRING), open : BOOLEAN])

(* What is read from a file once it was rendered: its body has got a newline
   at its end.                                                               *)
Rendered(t) == [t EXCEPT !.body = Closed(@)]

(* The line that set_status rewrites is the one that the status is read from: no
   line of a prompt before it looks like one, and there is no second one.    *)
StatusIsPlain(f) ==
  LET block == split_frontmatter(f).block
      own == {i \in DOMAIN block : IsPair(block[i].words)} \ Taken(block)
      read == {i \in own : block[i].words[1] = "status"}
  IN  StatusLine(f) # 0 => read # {} /\ StatusLine(f) = Max(read) + 1

(* todo.set_status sets the status and nothing else, as the plugin will read
   the file afterwards, where the status is plain; a file without one is
   rendered (store.rs, set_status; todo.rs: "Rewrites the `status:` line
   only, preserving every other byte").                                      *)
SetsStatus ==
  \A status \in Statuses :
    SetStatus(status) /\ StatusIsPlain(file) =>
      parse(file') = [(IF StatusLine(file) = 0 THEN Rendered(parse(file)) ELSE parse(file)) EXCEPT !.status = status]

(* A field a todo.update does not name is read afterwards as it was read before,
   but for the newline at the end of the body, and the one it names as the call
   gave it (main.rs, action_update: "Field absent => leave alone").          *)
ChangesOneField ==
  LET before == parse(file)
      after == parse(file')
  IN  \A u \in Updates : after # Rendered([before EXCEPT ![u[1]] = u[2]]) => ~Update(u[1], u[2])

(* But for a newline at its end, the body of a file is stable: what is read from
   it is rendered and read again without a change, and from the second time on
   with none at all (render_new: "parse -> render -> parse round-trips ... for
   the body field").                                                         *)
BodyIsStable ==
  LET once == parse(render_new(parse(file)))
  IN  once.body = Closed(parse(file).body) /\ parse(render_new(once)).body = once.body

-----------------------------------------------------------------------------
(* What the code does not keep. *)

(* render_new "round-trips byte-stable for the body field": a body that does not
   end in a newline gets one (todo.rs:318).                                  *)
BodyIsByteStable == parse(render_new(parse(file))).body = parse(file).body

(* set_status sets the status: in a prompt before it, the first line that looks
   like one is rewritten instead, and of two lines the first, though the last is
   the one that is read.                                                     *)
StatusIsSet ==
  [][\A status \in Statuses : SetStatus(status) => parse(file').status = status]_vars

(* The words a user wrote in the frontmatter as the due date or as tags are
   what updates keep.  They do not: a due date that is a number is not read,
   and the next update of any field drops it from the file.                  *)
DueIsKept ==
  [][\A u \in Updates : (Update(u[1], u[2]) /\ u[1] # "due") =>
       \A value \in {<<n>> : n \in Numbers} :
         (\E i \in DOMAIN file : file[i] = Pair("due", value)) =>
           \E i \in DOMAIN file' : file'[i] = Pair("due", value)]_vars
=============================================================================
