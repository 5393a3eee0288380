--------------------------- MODULE TriggerEngineMC ---------------------------
(* Trigger lists, actions and outside events for TLC. *)
EXTENDS TriggerEngine

Star(prefix) == [prefix |-> prefix, star |-> TRUE]

Go == Exact(<<"go">>)
Reply == Exact(<<"chat", "reply">>)

Rule(name, when, action, await) ==
  [name |-> name, when |-> when, action |-> action, await |-> await,
   keyed |-> TRUE, firesOnTimeout |-> TRUE, conditional |-> FALSE,
   acceptExternal |-> FALSE, allowPrivileged |-> FALSE]

\* Asks on "go", waits for the reply to the question.
Ask == Rule("ask", Go, "post", Reply)
\* Goes on once the question is answered.
Next2 == Rule("then", Exact(Awaited("ask")), "note", NoAwait)
Open == [Ask EXCEPT !.acceptExternal = TRUE, !.conditional = TRUE, !.firesOnTimeout = FALSE]
\* Talks on "go" and waits for anything of the chat.
Chatty == [Rule("chatty", Go, "chat", Star(<<"chat">>)) EXCEPT !.keyed = FALSE]
AskOnce == [Ask EXCEPT !.keyed = FALSE]
Spawn == [Rule("spawn", Go, "spawn", Reply) EXCEPT !.allowPrivileged = TRUE]
Everything == Rule("log", Star(<<>>), "note", NoAwait)

ActionModes == [post |-> "blocking", note |-> "sync"]
AllModes == [post |-> "blocking", note |-> "sync", chat |-> "forward", spawn |-> "spawn"]

GoEvent == [kind |-> <<"go">>, origin |-> "internal", reply |-> FALSE]
ReplyEvent == [kind |-> <<"chat", "reply">>, origin |-> "internal", reply |-> TRUE]
External(o) == [o EXCEPT !.origin = "external"]
TrustedOutside == {GoEvent, ReplyEvent}
AllOutside == {GoEvent, External(GoEvent), External(ReplyEvent)}
GoOnly == {GoEvent}

AskList == <<Ask, Next2>>
ConfigsAsk == {AskList}
ConfigsTrust == {AskList, <<Open, Next2>>}
ConfigsReload == {AskList, <<Everything>>}
ConfigsModes == {<<Spawn>>, <<Chatty, AskOnce>>}
ConfigsMatch == ConfigsTrust \cup ConfigsModes
ConfigsChat == {<<Chatty>>}

AllSegments == {"go", "chat", "reply", "post", "note", "spawn", "completed", "failed",
                "ask", "then", "chatty", "log", "awaited"}
==============================================================================
