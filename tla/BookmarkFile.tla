----------------------------- MODULE BookmarkFile -----------------------------
(***************************************************************************)
(* The front matter of one bookmark: how bookmark.add writes it (render)    *)
(* and how bookmark.show and bookmark.list read it (split), also after the  *)
(* user has edited the file, moved a list to lines of its own or left the   *)
(* closing fence out.  Which file it is and who else adds it is             *)
(* BookmarkPlugin's subject.                                                *)
(*                                                                         *)
(* A text is a sequence of pieces: quotes, punctuation, blanks and letters. *)
(* A line is its key and the text after the colon, an item of a list is a   *)
(* line with the key "-".  Texts of several lines are left out.             *)
(***************************************************************************)
EXTENDS Naturals, Sequences, SequencesExt

CONSTANTS
  Pieces,     \* what titles are made of
  MaxTitle,   \* bound: the longest title
  TagLists,   \* what callers pass as tags, trimmed
  Drafts,     \* files the user may leave behind
  Nothing

VARIABLES
  file,       \* Nothing, or [fence, lines, body]
  asked       \* what the last bookmark.add was given; Nothing once the user edits

vars == <<file, asked>>

-----------------------------------------------------------------------------
(* Reading. *)

Inks(s) == {i \in DOMAIN s : s[i] # " "}
Trim(s) == IF Inks(s) = {} THEN <<>> ELSE SubSeq(s, Min(Inks(s)), Max(Inks(s)))

Inner(s) == SubSeq(s, 2, Len(s) - 1)
Wrapped(s, open, close) == Len(s) >= 2 /\ s[1] = open /\ s[Len(s)] = close
Stripped(s) == IF Wrapped(s, "\"", "\"") \/ Wrapped(s, "'", "'") THEN Inner(s) ELSE s
strip_quotes(s) == Stripped(Trim(s))

(* A list in brackets is cut at every comma; empty items are dropped. *)
Cut(s) ==
  FoldLeft(LAMBDA items, p : IF p = "," THEN Append(items, <<>>)
                             ELSE [items EXCEPT ![Len(items)] = Append(@, p)],
           << <<>> >>, s)
ItemsOf(s) == SelectSeq([i \in DOMAIN Cut(s) |-> strip_quotes(Cut(s)[i])], LAMBDA item : item # <<>>)

(* The items on the lines after a key, up to the next line that is none. *)
BlockEnd(lines, i) ==
  Min({j \in i + 1 .. Len(lines) + 1 : j = Len(lines) + 1 \/ lines[j].key # "-"})
Block(lines, i) == [j \in 1 .. BlockEnd(lines, i) - i - 1 |-> strip_quotes(lines[i + j].value)]

Scalar(s) == [type |-> "scalar", value |-> s]
List(s)   == [type |-> "list", value |-> s]
ReadEmpty(items) == IF items = <<>> THEN Scalar(<<>>) ELSE List(items)
ReadValue(lines, i, value) ==
  CASE value = <<>> -> ReadEmpty(Block(lines, i))
    [] Wrapped(value, "[", "]") -> List(ItemsOf(Inner(value)))
    [] OTHER -> Scalar(strip_quotes(value))
(* Of a key's several lines the last one wins. *)
Read(lines, at) ==
  IF at = {} THEN Nothing ELSE ReadValue(lines, Max(at), Trim(lines[Max(at)].value))
parse_frontmatter(lines, key) == Read(lines, {i \in DOMAIN lines : lines[i].key = key})

(* Without a fence everything is body, without a second one there is none. *)
split(f) ==
  [lines |-> IF f.fence = "none" THEN <<>> ELSE f.lines,
   body  |-> IF f.fence = "open" THEN <<>> ELSE f.body]

get_scalar(f, key) ==
  IF parse_frontmatter(split(f).lines, key) = Nothing THEN Nothing
  ELSE IF parse_frontmatter(split(f).lines, key).type = "scalar"
       THEN parse_frontmatter(split(f).lines, key).value ELSE Nothing
get_list(f, key) ==
  IF parse_frontmatter(split(f).lines, key) = Nothing THEN Nothing
  ELSE IF parse_frontmatter(split(f).lines, key).type = "list"
       THEN parse_frontmatter(split(f).lines, key).value ELSE Nothing

(* A file without a link is no bookmark; one without a title has its link. *)
Filled(s) == s \notin {Nothing, <<>>}
Listed(f) == Filled(get_scalar(f, "url"))
Title(f)  == IF Filled(get_scalar(f, "title")) THEN get_scalar(f, "title") ELSE get_scalar(f, "url")
Tags(f)   == IF get_list(f, "tags") = Nothing THEN <<>> ELSE get_list(f, "tags")

-----------------------------------------------------------------------------
(* Writing. *)

(* A bug: brackets are written bare. *)
Mutant_needs_quote(s) ==
  \/ s = <<>> \/ \E i \in DOMAIN s : s[i] \in {":", "#", ",", "\"", "'"}
  \/ s[1] = " " \/ s[Len(s)] = " "
needs_quote(s) ==
  \/ s = <<>> \/ \E i \in DOMAIN s : s[i] \in {":", "#", ",", "[", "]", "\"", "'"}
  \/ s[1] = " " \/ s[Len(s)] = " "

quote_scalar(s) ==
  FoldLeft(LAMBDA out, p : out \o (IF p = "\"" THEN <<"\\", "\"">> ELSE <<p>>), <<"\"">>, s) \o <<"\"">>
Written(s) == IF needs_quote(s) THEN quote_scalar(s) ELSE s
Joined(items) ==
  FoldLeft(LAMBDA out, item : (IF out = <<>> THEN <<>> ELSE out \o <<",", " ">>) \o Written(item), <<>>, items)

Pair(key, value) == [key |-> key, value |-> value]
render(r) ==
  [fence |-> "closed", body |-> <<>>,
   lines |-> <<Pair("url", r.url), Pair("title", Written(r.title)), Pair("status", <<"queued">>),
               Pair("tags", <<"[">> \o Joined(r.tags) \o <<"]">>)>>]

-----------------------------------------------------------------------------
Titles == UNION {[1 .. n -> Pieces] : n \in 1 .. MaxTitle}

(* bookmark.add of a page that was not there. *)
Add ==
  /\ file = Nothing
  /\ \E title \in Titles, tags \in TagLists :
       /\ asked' = [url |-> <<"url">>, title |-> title, tags |-> tags]
       /\ file' = render(asked')

Edit == /\ file # Nothing /\ asked' = Nothing /\ \E draft \in Drafts : file' = draft
Delete == file # Nothing /\ file' = Nothing /\ asked' = Nothing

Init == file = Nothing /\ asked = Nothing
Next == Add \/ Edit \/ Delete
Spec == Init /\ [][Next]_vars

-----------------------------------------------------------------------------
Has(s, pieces) == \E i \in DOMAIN s : s[i] \in pieces

(* What was added is what is listed and shown, whatever brackets, colons,
   blanks and single quotes are in it, as long as there is no double quote
   and no comma in a tag.  (frontmatter.rs, test round_trip_preserves_data)   *)
AddedIsShown ==
  (asked # Nothing) =>
    /\ Listed(file) /\ get_scalar(file, "url") = asked.url
    /\ ~Has(asked.title, {"\""}) => Title(file) = asked.title
    /\ (\A i \in DOMAIN asked.tags : ~Has(asked.tags[i], {"\"", ","})) => Tags(file) = asked.tags

(* A list on lines of its own reads as the list in brackets.  (frontmatter.rs
   1-16: "we don't want to lose their edits")                                *)
Inlined(f, key, items) ==
  [f EXCEPT !.lines = SelectSeq(@, LAMBDA line : line.key \notin {key, "-"})
                        \o <<Pair(key, <<"[">> \o Joined(items) \o <<"]">>)>>]
BlocksAreLists ==
  (file # Nothing /\ Tags(file) # <<>>) =>
    Tags(Inlined(file, "tags", Tags(file))) = Tags(file)
      \/ \E i \in DOMAIN Tags(file) : Has(Tags(file)[i], {"\"", ","})

(* For every title and tag.  It does not hold: the writer puts a backslash
   before a double quote, which the reader leaves there, and a tag with a
   comma is quoted, but the reader cuts it in two.                           *)
EveryTextIsShown ==
  (asked # Nothing) => Title(file) = asked.title /\ Tags(file) = asked.tags
=============================================================================
