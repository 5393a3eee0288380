------------------------------ MODULE StatusBar ------------------------------
(***************************************************************************)
(* Plugin manifests as the window and the daemon see them (plugin.rs), the *)
(* status bar's modules, and the runs that fill their labels: the bar asks *)
(* the daemon to run a module by name, shows what it printed, sleeps for   *)
(* the module's interval and asks again.  Both sides discover the plugins  *)
(* for themselves, once, when they start.                                  *)
(***************************************************************************)
EXTENDS Naturals, Sequences, FiniteSets, SequencesExt

CONSTANTS
  Manifests,   \* dir -> [name, modules, commands]; dirs and names are numbers
  MaxReloads, MaxAnswers, MaxChanges

StatusBarAssumption ==
  /\ DOMAIN Manifests \subseteq Nat
  /\ \A d \in DOMAIN Manifests : Manifests[d].name \in Nat
  /\ {MaxReloads, MaxAnswers, MaxChanges} \subseteq Nat

VARIABLES
  disk,       \* dirs under the plugin directory
  pl,         \* what the window discovered
  dm,         \* what the daemon discovered
  up,         \* the daemon answers
  commands,   \* plugin.<name>.<cmd> as registered: [plugin, command, dir]
  labels,     \* label in the bar -> its text
  runs,       \* run loops: [label, phase, out]
  visible,    \* the bar is shown
  bound       \* [reloads, answers, changes]

vars == <<disk, pl, dm, up, commands, labels, runs, visible, bound>>

Dirs == DOMAIN Manifests
Names == {Manifests[d].name : d \in Dirs}
Blank == [dir |-> 0, n |-> 0, agreed |-> TRUE]
Texts == [dir : Dirs \cup {0}, n : 0 .. MaxAnswers, agreed : BOOLEAN]
Labels == UNION {[plugin : {Manifests[d].name}, module : Manifests[d].modules, dir : {d}, gen : 0 .. MaxReloads] : d \in Dirs}

-----------------------------------------------------------------------------
(* Discovery.                                                              *)

\* discover_sorted_plugins: by name, then by dir.
discover_sorted_plugins ==
  LET Before(a, b) == \/ Manifests[a].name < Manifests[b].name
                      \/ Manifests[a].name = Manifests[b].name /\ a =< b
  IN  SetToSortSeq(disk, Before)

Mutant_resolve_by_name(list, name) == LET s == SelectSeq(list, LAMBDA d : Manifests[d].name = name) IN s[1]

\* The entry sorted last wins a name.
resolve_by_name(list, name) == LET s == SelectSeq(list, LAMBDA d : Manifests[d].name = name) IN s[Len(s)]

\* One entry for each name, in the list's order (rev, filter, rev).
Winners(list) ==
  {list[i] : i \in {k \in DOMAIN list : \A j \in DOMAIN list : j > k => Manifests[list[j]].name # Manifests[list[k]].name}}

register_plugin_commands(list) ==
  UNION {[plugin : {Manifests[d].name}, command : Manifests[d].commands, dir : {d}] : d \in Winners(list)}

\* The labels of a bar: every module of every winner.
Built(gen) == {l \in Labels : l.gen = gen /\ l.dir \in Winners(pl)}

Loop(l) == [label |-> l, phase |-> "running", out |-> Blank]

TypeOK ==
  /\ disk \subseteq Dirs /\ pl \in BoundedSeq(Dirs, Cardinality(Dirs)) /\ dm \in BoundedSeq(Dirs, Cardinality(Dirs))
  /\ DOMAIN labels \subseteq Labels /\ \A l \in DOMAIN labels : labels[l] \in Texts
  /\ \A r \in runs : r.label \in Labels /\ r.phase \in {"running", "answered", "sleeping"} /\ r.out \in Texts
  /\ {up, visible} \subseteq BOOLEAN

-----------------------------------------------------------------------------
\* schedule_modules: every module of the bar is run at once.
schedule_modules(ls) == {Loop(l) : l \in ls}

Init ==
  /\ disk \in SUBSET Dirs
  /\ pl = discover_sorted_plugins /\ dm = pl /\ up = TRUE
  /\ commands = register_plugin_commands(dm)
  /\ labels = [l \in Built(0) |-> Blank] /\ runs = schedule_modules(Built(0))
  /\ \E enabled \in BOOLEAN : visible = (enabled /\ Built(0) # {})
  /\ bound = [reloads |-> 0, answers |-> 0, changes |-> 0]

\* reload: new labels, new runs; nothing stops the runs of the labels taken out.
reload ==
  /\ bound.reloads < MaxReloads
  /\ bound' = [bound EXCEPT !.reloads = @ + 1]
  /\ LET new == Built(bound.reloads + 1)
     IN  /\ labels' = [l \in new |-> Blank]
         /\ runs' = runs \cup schedule_modules(new)
         /\ \E enabled \in BOOLEAN : visible' = (enabled /\ new # {})
  /\ UNCHANGED <<disk, pl, dm, up, commands>>

\* statusbar.show, statusbar.hide, statusbar.toggle.
set_visible(v) ==
  /\ visible' = v
  /\ UNCHANGED <<disk, pl, dm, up, commands, labels, runs, bound>>

\* _module.run in the daemon, through run_module_via_daemon; no daemon, an unknown
\* plugin or module, and a command that fails or takes too long all print nothing.
Answer(r) ==
  /\ r.phase = "running" /\ bound.answers < MaxAnswers
  /\ LET known == r.label.plugin \in {Manifests[d].name : d \in ToSet(dm)}
         dir == resolve_by_name(dm, r.label.plugin)
         Printed == [dir |-> dir, n |-> bound.answers + 1, agreed |-> dm = pl]
         runnable == up /\ known /\ r.label.module \in Manifests[dir].modules
     IN  \E out \in {Blank} \cup (IF up /\ known THEN {Printed} ELSE {}) :
           /\ out # Blank => runnable
           /\ runs' = (runs \ {r}) \cup {[r EXCEPT !.phase = "answered", !.out = out]}
  /\ bound' = [bound EXCEPT !.answers = @ + 1]
  /\ UNCHANGED <<disk, pl, dm, up, commands, labels, visible>>

Mutant_Resting(r) == {[r EXCEPT !.phase = "sleeping", !.out = Blank], [r EXCEPT !.phase = "running", !.out = Blank]}

\* What is left of a run whose answer has been shown: the timer of its next one.
Resting(r) == {[r EXCEPT !.phase = "sleeping", !.out = Blank]}

\* The 50 ms poll finds the answer, shows it, and only now starts the timer.
Show(r) ==
  /\ r.phase = "answered"
  /\ labels' = IF r.label \in DOMAIN labels THEN [labels EXCEPT ![r.label] = r.out] ELSE labels
  /\ runs' = (runs \ {r}) \cup Resting(r)
  /\ UNCHANGED <<disk, pl, dm, up, commands, visible, bound>>

RunAgain(r) ==
  /\ r.phase = "sleeping"
  /\ runs' = (runs \ {r}) \cup {Loop(r.label)}
  /\ UNCHANGED <<disk, pl, dm, up, commands, labels, visible, bound>>

-----------------------------------------------------------------------------
Changes == bound.changes < MaxChanges /\ bound' = [bound EXCEPT !.changes = @ + 1]

\* The user adds or removes a plugin.
Install(d) ==
  /\ Changes
  /\ disk' = IF d \in disk THEN disk \ {d} ELSE disk \cup {d}
  /\ UNCHANGED <<pl, dm, up, commands, labels, runs, visible>>

DaemonStops ==
  /\ up /\ Changes /\ up' = FALSE
  /\ UNCHANGED <<disk, pl, dm, commands, labels, runs, visible>>

\* discover_and_sort_plugins and register_plugin_commands, before it listens.
DaemonStarts ==
  /\ ~up /\ up' = TRUE
  /\ dm' = discover_sorted_plugins
  /\ commands' = register_plugin_commands(dm')
  /\ UNCHANGED <<disk, pl, labels, runs, visible, bound>>

Next ==
  \/ reload \/ DaemonStops \/ DaemonStarts
  \/ \E v \in BOOLEAN : set_visible(v)
  \/ \E r \in runs : Answer(r) \/ Show(r) \/ RunAgain(r)
  \/ \E d \in Dirs : Install(d)

Spec == Init /\ [][Next]_vars

-----------------------------------------------------------------------------
\* Under duplicate names every consumer picks the same manifest: a label shows what the
\* module of its own manifest printed, as long as window and daemon discovered the same
\* plugins, and every registered command is one its name resolves to.
OneWinner ==
  /\ \A l \in DOMAIN labels :
       labels[l].agreed /\ labels[l] # Blank => labels[l].dir = l.dir
  /\ \A c \in commands : c.dir = resolve_by_name(dm, c.plugin)

\* A label never goes back to an older answer: a module has one run at a time.
GoesOn ==
  \A l \in DOMAIN labels : l \in DOMAIN labels' /\ labels'[l] # Blank => labels'[l].n >= labels[l].n
NeverGoesBack == [][GoesOn]_vars

\* Only labels in the bar are run.  It fails: every reload leaves the loops of the
\* labels it replaced behind, for as long as the window lives.
RunsAreShown == \A r \in runs : r.label \in DOMAIN labels
=============================================================================
