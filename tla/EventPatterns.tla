---------------------------- MODULE EventPatterns ----------------------------
(***************************************************************************)
(* Event kinds and the patterns the bus and the triggers match them with   *)
(* (pattern_matches in event_bus.rs, pattern_covers and covering_patterns  *)
(* in trigger.rs).                                                         *)
(*                                                                         *)
(* A kind is the sequence of its dot-separated segments; the pattern       *)
(* "a.b.*" is [prefix |-> <<"a", "b">>, star |-> TRUE], "*" has the empty  *)
(* prefix, and "a.b" is [prefix |-> <<"a", "b">>, star |-> FALSE].         *)
(***************************************************************************)
EXTENDS Naturals, Sequences

CONSTANT Segments

\* "".split('.') has one segment, so neither a kind nor an exact pattern is
\* the empty sequence.
Kinds == Seq(Segments) \ {<<>>}

Patterns == [prefix : Seq(Segments), star : {TRUE}] \cup [prefix : Kinds, star : {FALSE}]

\* s lies strictly below the prefix p: longer, and it starts with p followed
\* by a dot.
Below(p, s) == Len(s) > Len(p) /\ \A i \in 1 .. Len(p) : s[i] = p[i]

Matches(pattern, kind) ==
  IF pattern.star THEN Below(pattern.prefix, kind) ELSE kind = pattern.prefix

\* Mutant: "foo.*" taken to cover "foo".
Mutant_CoversBare(broader, narrower) ==
  broader.star /\ (Below(broader.prefix, narrower.prefix) \/ broader.prefix = narrower.prefix)

\* Mutant: only exact patterns are looked at.
Mutant_CoversExact(broader, narrower) ==
  broader.star /\ ~ narrower.star /\ Below(broader.prefix, narrower.prefix)

Covers(broader, narrower) == broader.star /\ Below(broader.prefix, narrower.prefix)

\* The early return on "*" gives what the loop would give: "*" covers every
\* other pattern.
Covering(patterns) ==
  {p \in patterns : ~ \E other \in patterns : other # p /\ Covers(other, p)}
=============================================================================
