----------------------------- MODULE Condition -----------------------------
(***************************************************************************)
(* The condition language of triggers (src/nestty-core/src/condition.rs):  *)
(* lexer, recursive-descent parser and evaluator.  A behaviour writes one  *)
(* condition, character by character or piece by piece; every prefix is    *)
(* lexed, parsed and evaluated, and compared with the grammar and the      *)
(* meaning the language is documented to have.                             *)
(*                                                                         *)
(* Characters are classes: "t" is a letter that is also the whole keyword  *)
(* true, "q" a quote, "\" a backslash.  Values are <<type, number>>.       *)
(***************************************************************************)
EXTENDS Integers, Sequences, FiniteSets

CONSTANTS Characters, MaxChars,    \* what is typed when the lexer is looked at
          Pieces, MaxPieces        \* token sequences typed when the parser is

ConditionAssumption == MaxChars \in Nat /\ MaxPieces \in Nat

VARIABLES mode,      \* "characters" | "pieces"
          src,       \* what has been typed
          written,   \* how many pieces
          payload    \* the value of event.a; null when the field is missing

vars == <<mode, src, written, payload>>

-----------------------------------------------------------------------------
(* The lexer.                                                              *)

Token(kind, text) == [kind |-> kind, text |-> text]
Failed == <<Token("failed", <<>>)>>

At(s, i) == IF i \in DOMAIN s THEN s[i] ELSE "end"

RECURSIVE lex_ident(_, _)
lex_ident(s, i) == IF At(s, i) \in {"t", "a", "0"} THEN lex_ident(s, i + 1) ELSE i

RECURSIVE Digits(_, _)
Digits(s, i) == IF At(s, i) = "0" THEN Digits(s, i + 1) ELSE i

\* The end of a number that starts at i, or 0: a sign, digits, a point, digits, of
\* which at least one is there.
lex_number(s, i) ==
    LET start == IF At(s, i) = "-" THEN i + 1 ELSE i
        whole == Digits(s, start)
        final == IF At(s, whole) = "." THEN Digits(s, whole + 1) ELSE whole
    IN  IF \E k \in start .. final - 1 : s[k] = "0" THEN final ELSE 0

RECURSIVE lex_string(_, _)
\* Mutant: a quote ends the text even behind a backslash.
Mutant_lex_string(s, i) == IF At(s, i) = "q" THEN i + 1 ELSE IF At(s, i) = "end" THEN 0 ELSE lex_string(s, i + 1)

\* The position after the closing quote, or 0; a backslash takes its escape with it.
lex_string(s, i) ==
    CASE At(s, i) = "q"   -> i + 1
      [] At(s, i) = "end" -> 0
      [] At(s, i) = "\\"  -> IF At(s, i + 1) \in {"q", "\\", "t"} THEN lex_string(s, i + 2) ELSE 0
      [] OTHER            -> lex_string(s, i + 1)

RECURSIVE lex(_, _)
lex(s, i) ==
    LET c == At(s, i)
        Rest(kind, j) == LET more == lex(s, j)
                         IN  IF more = Failed THEN Failed
                             ELSE <<Token(kind, SubSeq(s, i, j - 1))>> \o more
    IN  CASE c = "end" -> <<>>
          [] c = " " -> lex(s, i + 1)
          [] c \in {"(", ")", "."} -> Rest(c, i + 1)
          [] c = "=" -> IF At(s, i + 1) = "=" THEN Rest("==", i + 2) ELSE Failed
          [] c \in {"!", "<", ">"} ->
                IF At(s, i + 1) = "=" THEN Rest(CASE c = "!" -> "!=" [] c = "<" -> "<=" [] c = ">" -> ">=", i + 2)
                ELSE Rest(c, i + 1)
          [] c \in {"&", "|"} ->
                IF At(s, i + 1) = c THEN Rest(IF c = "&" THEN "&&" ELSE "||", i + 2) ELSE Failed
          [] c = "q" -> LET j == lex_string(s, i + 1) IN IF j = 0 THEN Failed ELSE Rest("string", j)
          [] c \in {"-", "0"} -> LET j == lex_number(s, i) IN IF j = 0 THEN Failed ELSE Rest("number", j)
          [] c \in {"t", "a"} ->
                LET j == lex_ident(s, i)
                IN  Rest(IF SubSeq(s, i, j - 1) = <<"t">> THEN "true" ELSE "ident", j)
          [] OTHER -> Failed

-----------------------------------------------------------------------------
(* The evaluator, on values.  An error is a value of its own: evaluation   *)
(* has no effects, so short-circuiting only decides which errors count.    *)

Bool(b) == <<"bool", IF b THEN 1 ELSE 0>>
Error == <<"error", 0>>
Null == <<"null", 0>>
IsBool(v) == v[1] = "bool"
IsTrue(v) == v = Bool(TRUE)

\* Mutant: the right side is looked at first.
Mutant_eval_or(a, b) == IF ~IsBool(b) THEN Error ELSE IF IsTrue(b) THEN Bool(TRUE)
                        ELSE IF IsBool(a) THEN a ELSE Error

eval_or(a, b) == IF ~IsBool(a) THEN Error ELSE IF IsTrue(a) THEN Bool(TRUE)
                 ELSE IF IsBool(b) THEN b ELSE Error
eval_and(a, b) == IF ~IsBool(a) THEN Error ELSE IF ~IsTrue(a) THEN Bool(FALSE)
                  ELSE IF IsBool(b) THEN b ELSE Error
eval_not(a) == IF IsBool(a) THEN Bool(~IsTrue(a)) ELSE Error

\* Equality of any two values; an order needs numbers.
eval_cmp(op, a, b) ==
    IF Error \in {a, b} THEN Error
    ELSE CASE op = "==" -> Bool(a = b)
           [] op = "!=" -> Bool(a # b)
           [] op = "<"  -> IF a[1] = "number" /\ b[1] = "number" THEN Bool(a[2] < b[2]) ELSE Error

\* event.a, a longer path below a value that is no object, and the context of a
\* terminal with a panel; a missing path is null.
resolve_ref(path) ==
    CASE path = <<"event", "a">> -> payload
      [] path = <<"context", "active_panel">> -> <<"string", 1>>
      [] OTHER -> Null

Literal(t) ==
    CASE t = "true" -> Bool(TRUE) [] t = "false" -> Bool(FALSE)
      [] t = "null" -> Null [] t = "1" -> <<"number", 1>> [] t = "2" -> <<"number", 2>>
Literals == {"true", "false", "null", "1", "2"}
Names == {"event", "context", "a", "active_panel"}
Comparisons == {"==", "!=", "<"}

-----------------------------------------------------------------------------
(* The parser: each function takes a position and returns the value of     *)
(* what it read and the position after it, or Nothing.                     *)

Nothing == [value |-> Error, next |-> 0]

RECURSIVE Path(_, _)
Path(s, i) ==
    IF At(s, i) # "." THEN <<>>
    ELSE IF At(s, i + 1) \notin Names THEN <<"end">>
    ELSE <<At(s, i + 1)>> \o Path(s, i + 2)

RECURSIVE parse_or(_, _), parse_or_rest(_, _), parse_and(_, _), parse_and_rest(_, _)
RECURSIVE parse_not(_, _), parse_cmp(_, _), parse_atom(_, _)

\* A literal, a group, or a reference of at least two names rooted in event or context.
parse_atom(s, i) ==
    CASE At(s, i) \in Literals -> [value |-> Literal(s[i]), next |-> i + 1]
      [] At(s, i) = "(" ->
            LET inner == parse_or(s, i + 1)
            IN  IF inner.next = 0 \/ At(s, inner.next) # ")" THEN Nothing
                ELSE [value |-> inner.value, next |-> inner.next + 1]
      [] At(s, i) \in Names ->
            LET path == Path(s, i + 1)
            IN  IF path = <<>> \/ "end" \in {path[k] : k \in DOMAIN path} \/ s[i] \notin {"event", "context"}
                THEN Nothing
                ELSE [value |-> resolve_ref(<<s[i]>> \o path), next |-> i + 1 + 2 * Len(path)]
      [] OTHER -> Nothing

parse_cmp(s, i) ==
    LET a == parse_atom(s, i)
        b == parse_atom(s, a.next + 1)
    IN  IF a.next = 0 THEN Nothing
        ELSE IF At(s, a.next) \notin Comparisons THEN a
        ELSE IF b.next = 0 THEN Nothing
        ELSE [value |-> eval_cmp(s[a.next], a.value, b.value), next |-> b.next]

parse_not(s, i) ==
    IF At(s, i) = "!"
    THEN LET a == parse_not(s, i + 1)
         IN  IF a.next = 0 THEN Nothing ELSE [value |-> eval_not(a.value), next |-> a.next]
    ELSE parse_cmp(s, i)

\* Mutant: the right side of && is a whole || chain.
Mutant_parse_and_rest(s, a) ==
    IF a.next = 0 \/ At(s, a.next) # "&&" THEN a
    ELSE LET b == parse_or(s, a.next + 1)
         IN  IF b.next = 0 THEN Nothing
             ELSE [value |-> eval_and(a.value, b.value), next |-> b.next]

parse_and_rest(s, a) ==
    IF a.next = 0 \/ At(s, a.next) # "&&" THEN a
    ELSE LET b == parse_not(s, a.next + 1)
         IN  IF b.next = 0 THEN Nothing
             ELSE parse_and_rest(s, [value |-> eval_and(a.value, b.value), next |-> b.next])
parse_and(s, i) == parse_and_rest(s, parse_not(s, i))

parse_or_rest(s, a) ==
    IF a.next = 0 \/ At(s, a.next) # "||" THEN a
    ELSE LET b == parse_and(s, a.next + 1)
         IN  IF b.next = 0 THEN Nothing
             ELSE parse_or_rest(s, [value |-> eval_or(a.value, b.value), next |-> b.next])
parse_or(s, i) == parse_or_rest(s, parse_and(s, i))

\* parse and eval: all tokens must be used, and the result must be a bool.
Outcome(s) ==
    LET whole == parse_or(s, 1)
    IN  IF whole.next # Len(s) + 1 THEN "rejected"
        ELSE IF ~IsBool(whole.value) THEN "error"
        ELSE IF IsTrue(whole.value) THEN "fires" ELSE "skips"

-----------------------------------------------------------------------------
(* Typing a condition.                                                     *)

Operand(t) == t \in Literals \cup Names \cup {")"}

\* The pieces in the middle come in an order that could still become a sentence; the
\* first two and the last may be anything: long sentences and mistakes are both in reach.
Follows(piece) ==
    src # <<>> =>
    LET before == Operand(src[Len(src)])
        starts == piece[1] \in Literals \cup Names \cup {"!", "("}
    IN  before # starts

TypeCharacter(c) ==
    /\ mode = "characters" /\ Len(src) < MaxChars
    /\ src' = Append(src, c)
    /\ UNCHANGED <<mode, written, payload>>

TypePiece(piece) ==
    /\ mode = "pieces" /\ written < MaxPieces
    /\ written \in 2 .. MaxPieces - 2 => Follows(piece)
    /\ src' = src \o piece /\ written' = written + 1
    /\ UNCHANGED <<mode, payload>>

Init ==
    /\ mode \in {"characters", "pieces"} /\ src = <<>> /\ written = 0
    /\ payload \in {Null} \cup (IF mode = "pieces" THEN {Bool(TRUE), <<"number", 1>>} ELSE {})

Next == (\E c \in Characters : TypeCharacter(c)) \/ (\E p \in Pieces : TypePiece(p))

Spec == Init /\ [][Next]_vars

-----------------------------------------------------------------------------
(* The grammar of the module's documentation, as sets of sentences: which  *)
(* stretches of the text each nonterminal covers, with the value it has.   *)

\* The left side decides when it can; what it leaves undecided is the right side's.
Either(a, b) == CASE a = Bool(TRUE) -> a [] a = Bool(FALSE) /\ IsBool(b) -> b [] OTHER -> Error
Both(a, b) == CASE a = Bool(FALSE) -> a [] a = Bool(TRUE) /\ IsBool(b) -> b [] OTHER -> Error

RECURSIVE Meaning(_, _, _, _)
Meaning(nonterminal, s, i, j) ==
    LET Split(left, op, right, Value(_, _)) ==
            UNION {{Value(a, b) : a \in Meaning(left, s, i, k - 1), b \in Meaning(right, s, k + 1, j)} :
                      k \in {n \in i + 1 .. j - 1 : s[n] = op}}
    IN  IF i > j THEN {}
        ELSE CASE nonterminal = "or" ->
                    Meaning("and", s, i, j) \cup Split("or", "||", "and", Either)
               [] nonterminal = "and" ->
                    Meaning("not", s, i, j) \cup Split("and", "&&", "not", Both)
               [] nonterminal = "not" ->
                    Meaning("cmp", s, i, j) \cup
                    (IF s[i] = "!" THEN {eval_not(a) : a \in Meaning("not", s, i + 1, j)} ELSE {})
               [] nonterminal = "cmp" ->
                    Meaning("atom", s, i, j) \cup
                    UNION {LET Compare(a, b) == eval_cmp(op, a, b)
                           IN  Split("atom", op, "atom", Compare) : op \in Comparisons}
               [] nonterminal = "atom" ->
                    (IF i = j /\ s[i] \in Literals THEN {Literal(s[i])} ELSE {}) \cup
                    (IF s[i] = "(" /\ s[j] = ")" THEN Meaning("or", s, i + 1, j - 1) ELSE {}) \cup
                    (IF /\ s[i] \in {"event", "context"} /\ j > i /\ (j - i) % 2 = 0
                        /\ \A k \in i .. j : IF (k - i) % 2 = 0 THEN s[k] \in Names ELSE s[k] = "."
                     THEN {resolve_ref([k \in 1 .. (j - i) \div 2 + 1 |-> s[i + 2 * (k - 1)]])} ELSE {})

TypeOK == mode \in {"characters", "pieces"} /\ written \in 0 .. MaxPieces

\* A condition is accepted exactly when the documented grammar has it, and then it
\* fires, skips or is an error as the grammar's one reading says: precedence,
\* chains of operators, groups, short-circuits and missing fields included.
MeansWhatItSays ==
    LET all == Meaning("or", src, 1, Len(src))
    IN  mode = "pieces" =>
            Outcome(src) = (IF all = {} THEN "rejected"
                            ELSE LET v == CHOOSE x \in all : TRUE
                                 IN  IF ~IsBool(v) THEN "error" ELSE IF IsTrue(v) THEN "fires" ELSE "skips")
            /\ Cardinality(all) =< 1

\* The lexer loses and invents nothing: what it accepts, its tokens spell, but for the
\* blanks outside quotes, and a quoted text with its escapes is one token of them.
LexIsFaithful ==
    LET tokens == lex(src, 1)
        RECURSIVE Spelled(_)
        Spelled(ts) == IF ts = <<>> THEN <<>> ELSE Head(ts).text \o Spelled(Tail(ts))
        RECURSIVE Bare(_, _)
        Bare(i, quoted) ==
            CASE i > Len(src) -> <<>>
              [] quoted /\ src[i] = "\\" -> <<src[i], At(src, i + 1)>> \o Bare(i + 2, TRUE)
              [] src[i] = "q" -> <<"q">> \o Bare(i + 1, ~quoted)
              [] src[i] = " " /\ ~quoted -> Bare(i + 1, FALSE)
              [] OTHER -> <<src[i]>> \o Bare(i + 1, quoted)
    IN  mode = "characters" /\ tokens # Failed =>
            /\ Spelled(tokens) = Bare(1, FALSE)
            /\ \A n \in DOMAIN tokens : "q" \in {tokens[n].text[k] : k \in DOMAIN tokens[n].text}
                                            => tokens[n].kind = "string"
=============================================================================
