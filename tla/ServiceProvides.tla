---------------------------- MODULE ServiceProvides ----------------------------
(***************************************************************************)
(* Which service serves which action: every manifest declares what its      *)
(* services provide, the supervisor settles conflicts before any process is *)
(* started (resolve_provides), strips the names that are taken by built-ins *)
(* and shell commands, registers what is left, and then sends a service     *)
(* only the actions it still claims in its own handshake.                   *)
(*                                                                         *)
(* How services start, fail and answer is ServiceSupervisor's subject.      *)
(***************************************************************************)
EXTENDS Naturals, Sequences, SequencesExt, FiniteSets

CONSTANTS
  Dirs,       \* plugin directories, as numbers in the order of their paths
  Names,      \* [plugin].name, as numbers in lexical order
  Services,   \* service names
  Actions,    \* action names, of plugins and of everyone else
  BuiltIns,   \* the names taken by the registry and the socket's own methods
  MaxCalls    \* bound: handshakes, exits and calls

ProvidesAssumption == Dirs \subseteq Nat /\ Names \subseteq Nat /\ BuiltIns \subseteq Actions

VARIABLES
  manifests,  \* dir -> [name, services: sequence of [name, provides], commands]
  plugins,    \* the list the supervisor is given: the directories in some order
  approved,   \* (plugin name, service name) -> what resolve_provides gave it
  conflicts,  \* [action, winner, losers] as logged
  handles,    \* the services: [dir, service] -> their approved actions
  registry,   \* action -> the handle that is called
  runtime,    \* handle -> the actions of its handshake, or Unknown
  got,        \* handle -> the actions it was sent
  buffered,   \* handle -> the actions asked for before its handshake
  calls

vars == <<manifests, plugins, approved, conflicts, handles, registry, runtime, got, buffered, calls>>

Unknown == {"unknown"}
Empty == [x \in {} |-> {}]
Put(f, key, value) == [x \in DOMAIN f \cup {key} |-> IF x = key THEN value ELSE f[x]]

Name(dir)     == manifests[dir].name
Declares(dir) == UNION {ToSet(manifests[dir].services[i].provides) : i \in DOMAIN manifests[dir].services}

-----------------------------------------------------------------------------
(* resolve_provides: plugins by name and then by directory, services and their
   actions in the manifest's order; an action goes to the first that asks.   *)

(* A bug: the list is walked as it was given. *)
Mutant_Ordered == plugins
Ordered ==
  SetToSortSeq(ToSet(plugins),
    LAMBDA a, b : Name(a) < Name(b) \/ (Name(a) = Name(b) /\ a < b))

(* One action of one service: free, taken by the same plugin, or a conflict. *)
TakeAction(acc, action, name) ==
  CASE action \notin DOMAIN acc.owner ->
         [acc EXCEPT !.owner = Put(@, action, name), !.take = @ \cup {action}]
    [] action \in DOMAIN acc.owner /\ acc.owner[action] = name -> acc
    [] OTHER -> [acc EXCEPT !.lost = @ \cup {<<action, acc.owner[action], name>>}]

(* One service; what it takes is filed under the plugin's and its own name. *)
TakeService(acc, service, name) ==
  LET after == FoldLeft(LAMBDA a, action : TakeAction(a, action, name),
                        [acc EXCEPT !.take = {}], service.provides)
  IN  [after EXCEPT !.approved = Put(@, <<name, service.name>>, after.take)]

TakePlugin(acc, dir) ==
  FoldLeft(LAMBDA a, service : TakeService(a, service, Name(dir)), acc, manifests[dir].services)

resolve_provides ==
  FoldLeft(TakePlugin, [owner |-> Empty, approved |-> Empty, take |-> {}, lost |-> {}], Ordered)

ProvideConflict(lost) ==
  {[action |-> l[1], winner |-> l[2], losers |-> {k[3] : k \in {m \in lost : m[1] = l[1]}}] : l \in lost}

(* Names no service may take: the registry's, the socket's own, and every
   plugin's shell commands.                                                  *)
reserved == BuiltIns \cup UNION {manifests[dir].commands : dir \in ToSet(plugins)}

-----------------------------------------------------------------------------
(* ServiceSupervisor::new: resolve, build a handle for every service of the
   list, register every approved action; a later registration replaces an
   earlier one.                                                              *)
New ==
  LET resolved == resolve_provides
      Handle(dir, i) == [dir |-> dir, service |-> manifests[dir].services[i].name]
      list == FlattenSeq([p \in DOMAIN plugins |->
                [i \in DOMAIN manifests[plugins[p]].services |-> Handle(plugins[p], i)]])
      Provides(h) == resolved.approved[<<Name(h.dir), h.service>>] \ reserved
      Register(table, h) == [a \in DOMAIN table \cup Provides(h) |-> IF a \in Provides(h) THEN h ELSE table[a]]
  IN  /\ approved = Empty /\ handles = Empty
      /\ approved' = resolved.approved
      /\ conflicts' = ProvideConflict(resolved.lost)
      /\ handles' = [h \in ToSet(list) |-> Provides(h)]
      /\ registry' = FoldLeft(Register, Empty, list)
      /\ runtime' = [h \in ToSet(list) |-> Unknown]
      /\ got' = [h \in ToSet(list) |-> {}] /\ buffered' = got'
      /\ UNCHANGED <<manifests, plugins, calls>>

Counted == calls < MaxCalls /\ calls' = calls + 1

(* The handshake: what the service announces beyond its approval is ignored, what
   it leaves out is not served until its next handshake; but what was asked for
   before it is sent, announced or not.                                      *)
(* A bug: the announcement is believed. *)
Mutant_Accepted(h, announced) == announced
Accepted(h, announced) == announced \cap handles[h]
Announce(h) ==
  /\ h \in DOMAIN handles /\ runtime[h] = Unknown
  /\ \E announced \in SUBSET Actions : runtime' = [runtime EXCEPT ![h] = Accepted(h, announced)]
  /\ got' = [got EXCEPT ![h] = buffered[h]] /\ buffered' = [buffered EXCEPT ![h] = {}]
  /\ Counted
  /\ UNCHANGED <<manifests, plugins, approved, conflicts, handles, registry>>

(* handle_exit forgets the handshake. *)
Exit(h) ==
  /\ h \in DOMAIN handles /\ runtime[h] # Unknown
  /\ runtime' = [runtime EXCEPT ![h] = Unknown]
  /\ got' = [got EXCEPT ![h] = {}]
  /\ Counted
  /\ UNCHANGED <<manifests, plugins, approved, conflicts, handles, registry, buffered>>

(* invoke_remote: an action that the handshake left out is answered with
   service_degraded; before the handshake it is kept for the service.        *)
Invoke(action) ==
  /\ action \in DOMAIN registry
  /\ LET h == registry[action]
     IN  IF runtime[h] = Unknown THEN buffered' = [buffered EXCEPT ![h] = @ \cup {action}] /\ UNCHANGED got
         ELSE /\ got' = IF action \in runtime[h] THEN [got EXCEPT ![h] = @ \cup {action}] ELSE got
              /\ UNCHANGED buffered
  /\ Counted
  /\ UNCHANGED <<manifests, plugins, approved, conflicts, handles, registry, runtime>>

Provided == {<<>>} \cup {<<a>> : a \in Actions} \cup {<<a, b>> : a, b \in Actions}
Manifest(name, first, second, commands) ==
  [name |-> name, commands |-> commands,
   services |-> <<[name |-> "s", provides |-> first]>>
                  \o IF second = <<>> THEN <<>> ELSE <<[name |-> "t", provides |-> second]>>]

Init ==
  /\ manifests \in [Dirs -> {Manifest(name, first, second, commands) :
                       name \in Names, first \in Provided, second \in {<<>>} \cup {<<a>> : a \in Actions},
                       commands \in {{}} \cup {{a} : a \in Actions}}]
  /\ plugins \in SetToSeqs(Dirs)
  /\ approved = Empty /\ conflicts = {} /\ handles = Empty /\ registry = Empty
  /\ runtime = Empty /\ got = Empty /\ buffered = Empty /\ calls = 0

Next ==
  \/ New
  \/ \E h \in DOMAIN handles : Announce(h) \/ Exit(h)
  \/ \E action \in Actions : Invoke(action)

Spec == Init /\ [][Next]_vars

-----------------------------------------------------------------------------
TypeOK ==
  /\ DOMAIN manifests = Dirs /\ ToSet(plugins) = Dirs
  /\ DOMAIN handles \subseteq [dir : Dirs, service : Services]
  /\ \A h \in DOMAIN handles : handles[h] \cup got[h] \cup buffered[h] \subseteq Actions
  /\ DOMAIN registry \subseteq Actions /\ \A a \in DOMAIN registry : registry[a] \in DOMAIN handles
  /\ calls \in 0 .. MaxCalls

(* Whatever the order in which the plugins are given: an action is served by a plugin
   of the name that is first among those that declare it (docs/decisions.md: "the
   alphabetically-earlier plugin name wins"), and no reserved one is.  Where one plugin
   alone has that name, the action is served, by the first of its services that declares
   it.  The other names that asked are the losers.                           *)
Declarers(action) == {dir \in Dirs : action \in Declares(dir)}
Firsts(action) ==
  {dir \in Declarers(action) : \A d \in Declarers(action) : Name(dir) <= Name(d)}
Namesakes(dir) == {d \in Dirs : Name(d) = Name(dir)}
OneProvider ==
  handles # Empty =>
    /\ \A action \in DOMAIN registry :
         action \notin reserved /\ \E dir \in Firsts(action) : Name(registry[action].dir) = Name(dir)
    /\ \A action \in Actions \ reserved : \A dir \in Firsts(action) :
         Namesakes(dir) = {dir} =>
           LET services == manifests[dir].services
               Has(i) == action \in ToSet(services[i].provides)
           IN  /\ action \in DOMAIN registry /\ registry[action].dir = dir
               /\ \E i \in DOMAIN services : /\ services[i].name = registry[action].service /\ Has(i)
                                              /\ \A j \in 1 .. i - 1 : ~Has(j)
    /\ \A c \in conflicts : c.losers = {Name(d) : d \in Declarers(c.action)} \ {c.winner}

(* Whatever a service announces, it is sent only what the manifests of its plugin's name
   declare for a service of its name (service_supervisor.rs "unauthorized provide [...]
   ignoring").  What it was asked for before its handshake it is sent even when it
   then leaves it out (ServedAsAnnounced).                                   *)
DeclaredFor(h) ==
  UNION {UNION {ToSet(manifests[d].services[i].provides) :
                  i \in {j \in DOMAIN manifests[d].services : manifests[d].services[j].name = h.service}} :
         d \in Namesakes(h.dir)}
OnlyItsOwn ==
  \A h \in DOMAIN handles :
    got[h] \cup (IF runtime[h] = Unknown THEN {} ELSE runtime[h]) \subseteq DeclaredFor(h)

-----------------------------------------------------------------------------
(* What the code does not keep.  Among plugins of one name the directory
   decides (resolve_provides: "using directory path as tiebreaker").  It does
   not: their services share one entry of the approved table, which the later
   one overwrites, so that an action both declare may be served by neither.  *)
TiebreakerDecides ==
  handles # Empty => DOMAIN registry = UNION {Declares(dir) : dir \in Dirs} \ reserved

(* docs/architecture.md:365 and service_supervisor.rs:971 "must NOT be dispatched":
   the calls kept for the handshake are sent without looking at what it left out. *)
ServedAsAnnounced == \A h \in DOMAIN handles : runtime[h] # Unknown => got[h] \subseteq runtime[h]
=============================================================================
