---------------------------- MODULE Interpolation ----------------------------
(***************************************************************************)
(* What the templates of a trigger become: `{event.a.b}', `{context.x}' and *)
(* `{action_result.id}' in the params of an action and in the payload_match *)
(* of an await, and the payload of the event that ends an await, which the  *)
(* next trigger's templates read.  When triggers fire and awaits end is     *)
(* TriggerEngine's subject; here a chain has ended some awaits and the user *)
(* types one template piece by piece.                                       *)
(*                                                                         *)
(* A text is a sequence of pieces, which are braces, dots or words.  Arrays *)
(* and objects of a template are interpolated value by value and left out.  *)
(***************************************************************************)
EXTENDS Naturals, Sequences, SequencesExt, TLC

CONSTANTS
  Starts,     \* what may fire the first trigger: [event, context]
  Pieces,     \* what is typed, each a sequence of pieces
  MaxPieces,  \* bound: pieces typed
  Awaited,    \* payloads of events that are awaited
  Results,    \* what actions return
  MaxChains,  \* bound: awaits that end one after another
  Absent      \* Option::None

VARIABLES
  event,      \* the event the templates are read against
  context,    \* the context of the trigger's call
  completed,  \* the result of the action whose await ended last
  template, typed

vars == <<event, context, completed, template, typed>>

String(text)   == [type |-> "string", text |-> text]
Object(fields) == [type |-> "object", fields |-> fields]
Null           == [type |-> "null"]

-----------------------------------------------------------------------------
(* Resolving one token. *)

Split(path) ==
  FoldLeft(LAMBDA segs, p : IF p = "." THEN Append(segs, <<>>)
                            ELSE [segs EXCEPT ![Len(segs)] = Append(@, p)],
           << <<>> >>, path)

(* Stops at the first hop that is no object or has no such field. *)
Hop(value, seg) ==
  IF value.type = "object" THEN IF seg \in DOMAIN value.fields THEN value.fields[seg] ELSE Absent
  ELSE Absent
resolve_dot_path(root, path) ==
  FoldLeft(LAMBDA value, seg : IF value = Absent THEN Absent ELSE Hop(value, seg), root, Split(path))

(* The text of a value that takes the place of a token; an object's is its
   JSON, braces and all.                                                     *)
json_scalar_to_string(value) ==
  CASE value.type = "null"   -> <<"null">>
    [] value.type = "object" -> <<"{", "json", "}">>
    [] OTHER                 -> value.text

event_top_level_value(field, e) ==
  CASE field = <<"kind">>         -> String(e.kind)
    [] field = <<"source">>       -> String(e.source)
    [] field = <<"timestamp_ms">> -> [type |-> "number", text |-> <<"0">>]
    [] OTHER                      -> Absent

(* A bug: the fields of the event win over those of its payload. *)
Mutant_Field(field, e) ==
  IF event_top_level_value(field, e) # Absent THEN event_top_level_value(field, e)
  ELSE resolve_dot_path(e.payload, field)
Field(field, e) ==
  IF resolve_dot_path(e.payload, field) # Absent THEN resolve_dot_path(e.payload, field)
  ELSE event_top_level_value(field, e)

Under(token, root) == Len(token) >= 2 /\ token[1] = root /\ token[2] = "."
Rest(token)        == SubSeq(token, 3, Len(token))

resolve_token_value(token, e, result) ==
  CASE Under(token, "event") -> Field(Rest(token), e)
    [] Under(token, "action_result") /\ result # Absent -> resolve_dot_path(result, Rest(token))
    [] OTHER -> Absent

OfContext(field, ctx) ==
  IF ctx # Absent /\ field \in {<<"active_panel">>, <<"active_cwd">>} THEN ctx[field[1]] ELSE Absent

Shown(value) == IF value = Absent THEN Absent ELSE json_scalar_to_string(value)
resolve_token(token, e, ctx, result) ==
  IF Under(token, "context") THEN OfContext(Rest(token), ctx)
  ELSE Shown(resolve_token_value(token, e, result))

-----------------------------------------------------------------------------
(* Interpolating a text. *)

(* A token that resolves to nothing stays as it was typed. *)
Replaced(token, text) == IF text = Absent THEN <<"{">> \o token \o <<"}">> ELSE text

(* One pass: `open' once a brace is open, `token' what follows it so far. *)
Scan(at, p, e, ctx, result) ==
  CASE ~at.open /\ p = "{" -> [at EXCEPT !.open = TRUE]
    [] ~at.open /\ p # "{" -> [at EXCEPT !.out = Append(@, p)]
    [] at.open /\ p = "}"  ->
         [out |-> at.out \o Replaced(at.token, resolve_token(at.token, e, ctx, result)),
          open |-> FALSE, token |-> <<>>]
    [] OTHER -> [at EXCEPT !.token = Append(@, p)]
(* A brace that does not close is text. *)
Ended(at) == IF at.open THEN at.out \o <<"{">> \o at.token ELSE at.out
Once(s, e, ctx, result) ==
  Ended(FoldLeft(LAMBDA at, p : Scan(at, p, e, ctx, result),
                 [out |-> <<>>, open |-> FALSE, token |-> <<>>], s))
(* A bug: what was put in is looked through again. *)
Mutant_interpolate_string(s, e, ctx, result) == Once(Once(s, e, ctx, result), e, ctx, result)
interpolate_string(s, e, ctx, result) == Once(s, e, ctx, result)

(* Params of an action: always text. *)
interpolate_value(s, e, ctx) == String(interpolate_string(s, e, ctx, Absent))

(* A payload_match: a text that is one token keeps the type of its value. *)
Inner(s) == SubSeq(s, 2, Len(s) - 1)
IsToken(s) ==
  Len(s) >= 2 /\ s[1] = "{" /\ s[Len(s)] = "}" /\ \A i \in 2 .. Len(s) - 1 : s[i] \notin {"{", "}"}
Typed(value, s, e, ctx, result) ==
  IF value # Absent THEN value ELSE String(interpolate_string(s, e, ctx, result))
interpolate_value_typed(s, e, ctx, result) ==
  Typed(IF IsToken(s) THEN resolve_token_value(Inner(s), e, result) ELSE Absent, s, e, ctx, result)

-----------------------------------------------------------------------------
(* The payload an await ends with: the original's fields, what was awaited,
   and the result of the action when it completed.                           *)
With(fields, key, value) == (key :> value) @@ fields
Minus(fields, key) == [k \in DOMAIN fields \ {key} |-> fields[k]]
FieldsOf(value) == IF value.type = "object" THEN value.fields ELSE <<>>
(* A bug: the result of an earlier action in the chain is left in place. *)
Mutant_build_awaited_payload(original, awaited, result) ==
  Object(IF result = Absent THEN With(FieldsOf(original), <<"await">>, awaited)
         ELSE With(With(FieldsOf(original), <<"await">>, awaited), <<"action_result">>, result))
build_awaited_payload(original, awaited, result) ==
  Object(IF result = Absent
         THEN Minus(With(FieldsOf(original), <<"await">>, awaited), <<"action_result">>)
         ELSE With(With(FieldsOf(original), <<"await">>, awaited), <<"action_result">>, result))

Chains(e) == IF e.source = <<"nestty.trigger.await">> THEN e.chains ELSE 0

(* An await ends, its event is published, and the next trigger reads that. *)
End(awaited, result) ==
  /\ typed = 0 /\ Chains(event) < MaxChains
  /\ event' = [kind |-> <<"t", ".", "awaited">>, source |-> <<"nestty.trigger.await">>,
               chains |-> Chains(event) + 1,
               payload |-> build_awaited_payload(event.payload, awaited, result)]
  /\ completed' = result
  /\ UNCHANGED <<context, template, typed>>

(* try_match_pending_awaits *)
Matched == \E awaited \in Awaited, result \in Results : End(awaited, result)
(* sweep_pending_awaits: the action never completed. *)
PreflightTimesOut == End(Null, Absent)
(* sweep_pending_awaits: it did, but nothing matched. *)
PendingTimesOut == \E result \in Results : End(Null, result)

Type(piece) ==
  /\ typed < MaxPieces
  /\ template' = template \o piece /\ typed' = typed + 1
  /\ UNCHANGED <<event, context, completed>>

Init ==
  /\ \E s \in Starts : event = s.event /\ context = s.context
  /\ completed = Absent /\ template = <<>> /\ typed = 0

Next == Matched \/ PreflightTimesOut \/ PendingTimesOut \/ \E piece \in Pieces : Type(piece)

Spec == Init /\ [][Next]_vars

-----------------------------------------------------------------------------
TypeOK ==
  /\ event.payload.type \in {"object", "null", "string", "number"}
  /\ completed \in Results \cup {Absent} /\ typed \in 0 .. MaxPieces

(* What a text becomes is settled by its parts: where no brace is open it can
   be cut in two that are interpolated each on its own, so nothing that was
   put in, whatever braces it holds, is looked through again; a text without
   a brace and a token that resolves to nothing stay as they are.  An event's
   text never becomes a template.  (interpolate_string)                      *)
Closed(s) ==
  FoldLeft(LAMBDA open, p : IF open THEN p # "}" ELSE p = "{", FALSE, s) = FALSE
Text(s, result) == interpolate_string(s, event, context, result)
OnePass ==
  \A result \in Results \cup {Absent} :
    /\ \A i \in DOMAIN template :
         Closed(SubSeq(template, 1, i)) =>
           Text(template, result) =
             Text(SubSeq(template, 1, i), result) \o Text(SubSeq(template, i + 1, Len(template)), result)
    /\ (\A i \in DOMAIN template : template[i] # "{") => Text(template, result) = template
    /\ (IsToken(template) /\ resolve_token(Inner(template), event, context, result) = Absent)
         => Text(template, result) = template

(* The two ways to interpolate agree on what is written: a payload_match
   compares with the value whose text an action's params would show.
   (interpolate_value_typed; its comment)                                    *)
TypedAgrees ==
  \A result \in Results \cup {Absent} :
    json_scalar_to_string(interpolate_value_typed(template, event, context, result))
      = Text(template, result)

(* A template reads the result of the action whose await ended last, and of
   no earlier one in the chain: none when that action did not complete.
   (build_awaited_payload: "can't leak the previous action's result")        *)
ResultIsTheLast ==
  Chains(event) > 0 =>
    resolve_dot_path(event.payload, <<"action_result">>) = completed

(* What the event's payload says is read even where its name is one of the
   event's own.  (event_top_level_value: "payload wins")                     *)
PayloadWins ==
  \A field \in DOMAIN FieldsOf(event.payload) :
    interpolate_string(<<"{", "event", ".">> \o field \o <<"}">>, event, context, Absent)
      = json_scalar_to_string(event.payload.fields[field])

(* The end of an await adds what was awaited and keeps every other field the
   event came with.  (build_awaited_payload)                                 *)
KeepsTheEvent ==
  event' # event =>
    /\ \A field \in DOMAIN FieldsOf(event.payload) \ {<<"await">>, <<"action_result">>} :
         resolve_dot_path(event'.payload, field) = event.payload.fields[field]
    /\ DOMAIN FieldsOf(event'.payload) \subseteq
         DOMAIN FieldsOf(event.payload) \cup {<<"await">>, <<"action_result">>}
=============================================================================
