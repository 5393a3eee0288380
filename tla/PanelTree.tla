------------------------------- MODULE PanelTree -------------------------------
(***************************************************************************)
(* The tabs of the window, each a tree of splits, the focused panel, and   *)
(* the session written when the window closes and read when it opens.      *)
(* A tree is a panel or a pair of trees; the notebook shows the tabs as    *)
(* pages, which it keeps in an order of its own.                           *)
(***************************************************************************)
EXTENDS Naturals, Sequences, FiniteSets, SequencesExt

CONSTANTS
  MaxPanels,   \* bound on the panels made while the window is open
  MaxStarts,   \* bound on the windows opened
  Dirs,        \* working directories
  None

PanelTreeAssumption ==
  {MaxPanels, MaxStarts} \subseteq Nat \ {0} /\ Dirs \cap {None, "webview"} = {}

VARIABLES
  tabs,        \* TabManager.tabs: trees, with the page each is shown on
  pages,       \* the notebook's pages in its order
  current,     \* its current page, an index
  focused,     \* TabManager.focused
  exiting,     \* panels whose child is gone, their idle callback pending
  running,
  made,        \* panels made while it is open
  starts,
  file,        \* session.json
  dragged,     \* history: a page was dragged
  left         \* history: what the window showed when it closed

vars == <<tabs, pages, current, focused, exiting, running, made, starts, file, dragged, left>>

Ids == 1..MaxPanels
\* What a panel shows: a shell in a directory, or a page, its own or a plugin's.
Contents == Dirs \cup {"webview"}
Panels == [id : Ids, shows : Contents]
IsTerminal(p) == p.shows \in Dirs
Panel(id, shows) == [id |-> id, shows |-> shows]

Leaf(t) == "id" \in DOMAIN t
Branch(a, b) == [first |-> a, second |-> b]

RECURSIVE Leaves(_), SplitAt(_, _, _), Without(_, _), Sibling(_, _)

\* collect_panels
Leaves(t) == IF Leaf(t) THEN <<t>> ELSE Leaves(t.first) \o Leaves(t.second)

Has(t, p) == p \in ToSet(Leaves(t))

\* TabContent::split
SplitAt(t, p, q) ==
  IF Leaf(t) THEN IF t = p THEN Branch(p, q) ELSE t
  ELSE Branch(SplitAt(t.first, p, q), SplitAt(t.second, p, q))

\* TabContent::close_panel: the sibling takes the place of the branch.
Without(t, p) ==
  CASE Leaf(t)       -> t
    [] t.first = p   -> t.second
    [] t.second = p  -> t.first
    [] OTHER         -> Branch(Without(t.first, p), Without(t.second, p))

\* find_sibling_panels
Sibling(t, p) ==
  CASE t.first = p      -> t.second
    [] t.second = p     -> t.first
    [] Has(t.first, p)  -> Sibling(t.first, p)
    [] OTHER            -> Sibling(t.second, p)

All(ts) == FlattenSeq([i \in DOMAIN ts |-> Leaves(ts[i].tree)])
Open == ToSet(All(tabs))

TypeOK ==
  /\ Open \subseteq Panels /\ exiting \subseteq Panels
  /\ Cardinality({p.id : p \in Open}) = Len(All(tabs))
  /\ Len(pages) = Len(tabs) /\ (~dragged => \A i \in DOMAIN tabs : tabs[i].page = pages[i])
  /\ current \in 0..Len(tabs) /\ focused \in Panels \cup {None}
  /\ made \in 0..MaxPanels /\ starts \in 0..MaxStarts
  /\ {running, dragged} \subseteq BOOLEAN /\ (running <=> tabs # <<>>)

Init ==
  /\ tabs = <<>> /\ pages = <<>> /\ current = 0 /\ focused = None
  /\ exiting = {} /\ running = FALSE /\ made = 0 /\ starts = 0 /\ file = None /\ left = None
  /\ dragged = FALSE

-----------------------------------------------------------------------------
(* Snapshot and restore *)

RECURSIVE Snap(_), Leftmost(_), RestoreSplit(_, _, _, _)

\* build_snap: a branch with one side left is that side.
Snap(t) ==
  IF Leaf(t) THEN IF IsTerminal(t) THEN [dir |-> t.shows] ELSE None
  ELSE LET f == Snap(t.first) s == Snap(t.second) IN
       IF None \notin {f, s} THEN Branch(f, s) ELSE IF f = None THEN s ELSE f

Survives(t) == Snap(t) # None

Mutant_CurrentTab ==
  LET before == Cardinality({i \in 1..current - 1 : Survives(tabs[i].tree)})
  IN IF before = 0 THEN 1 ELSE before

\* The notebook counts the elided tabs too: the last one kept up to the current page.
CurrentTab ==
  LET upTo == Cardinality({i \in 1..current : i \in DOMAIN tabs /\ Survives(tabs[i].tree)})
  IN IF upTo = 0 THEN 1 ELSE upTo

Snapshot ==
  [tabs |-> LET kept == SelectSeq(tabs, LAMBDA tab : Survives(tab.tree))
            IN [i \in DOMAIN kept |-> Snap(kept[i].tree)],
   current |-> CurrentTab]

\* leftmost_cwd
Leftmost(s) == IF "dir" \in DOMAIN s THEN s.dir ELSE Leftmost(s.first)

\* restore_split: the new panel takes the directory that its side begins with.
RestoreSplit(t, p, s, before) ==
  IF "dir" \in DOMAIN s THEN t
  ELSE LET q == Panel(before + Len(Leaves(t)) + 1, Leftmost(s.second)) IN
       RestoreSplit(RestoreSplit(SplitAt(t, p, q), p, s.first, before), q, s.second, before)

RestoreTab(s, before) ==
  LET p == Panel(before + 1, Leftmost(s)) IN RestoreSplit(p, p, s, before)

RECURSIVE RestoreTabs(_)
RestoreTabs(ss) ==
  IF ss = <<>> THEN <<>>
  ELSE LET done == RestoreTabs(Front(ss)) IN
       Append(done, [page |-> Len(ss), tree |-> RestoreTab(Last(ss), Len(All(done)))])

\* The window opens: the session, or one new tab.
Start ==
  /\ ~running /\ running' = TRUE /\ starts < MaxStarts /\ starts' = starts + 1
  /\ \E dir \in Dirs :
       tabs' = IF file = None THEN <<[page |-> 1, tree |-> Panel(1, dir)]>>
                              ELSE RestoreTabs(file.tabs)
  /\ pages' = [i \in DOMAIN tabs' |-> i]
  /\ current' = IF file = None THEN 1 ELSE file.current
  /\ focused' = Leaves(tabs'[current'].tree)[1]
  /\ made' = Len(All(tabs')) /\ exiting' = {} /\ dragged' = FALSE /\ UNCHANGED <<file, left>>

\* What a user finds again: the directories in their order, and the current tab's.
Rows(ts) ==
  [i \in DOMAIN ts |-> LET kept == SelectSeq(Leaves(ts[i].tree), IsTerminal)
                       IN [j \in DOMAIN kept |-> kept[j].shows]]

\* connect_close_request: nothing to restore leaves no file; the write may fail.
Closing(ts) ==
  /\ running' = FALSE /\ tabs' = <<>> /\ pages' = <<>> /\ current' = 0 /\ focused' = None
  /\ IF ts = <<>> \/ Snapshot.tabs = <<>>
     THEN file' = None /\ left' = None
     ELSE \/ /\ file' = Snapshot
             /\ left' = [rows |-> SelectSeq(Rows(tabs), LAMBDA row : row # <<>>),
                         shown |-> Rows(tabs)[current]]
          \/ UNCHANGED <<file, left>>

Quit == running /\ Closing(tabs) /\ exiting' = {} /\ UNCHANGED <<made, starts, dragged>>

-----------------------------------------------------------------------------
(* Opening, splitting, focus *)

NewPage == CHOOSE i \in 1..2 * MaxPanels : i \notin ToSet(pages) \cup {tabs[j].page : j \in DOMAIN tabs}

\* add_tab_with_cwd, add_webview_tab, add_plugin_tab
AddTab(shows) ==
  /\ running /\ made < MaxPanels /\ made' = made + 1
  /\ LET p == Panel(made', shows) IN
       tabs' = Append(tabs, [page |-> NewPage, tree |-> p]) /\ focused' = p
  /\ pages' = Append(pages, NewPage) /\ current' = Len(pages')
  /\ UNCHANGED <<exiting, running, starts, file, left, dragged>>

TabOf(p) == {i \in DOMAIN tabs : Has(tabs[i].tree, p)}

\* split_focused, split_focused_webview, split_focused_plugin
SplitFocused(shows) ==
  /\ running /\ made < MaxPanels /\ made' = made + 1
  /\ LET p == Panel(made', shows) IN \E i \in TabOf(focused) :
       tabs' = [tabs EXCEPT ![i].tree = SplitAt(@, focused, p)] /\ focused' = p
  /\ UNCHANGED <<pages, current, exiting, running, starts, file, left, dragged>>

\* focus_direction: round the panels of the focused one's tab.
FocusDirection ==
  /\ running
  /\ \E i \in TabOf(focused) :
       LET ps == Leaves(tabs[i].tree)
           at == CHOOSE j \in DOMAIN ps : ps[j] = focused
       IN focused' \in {ps[(at % Len(ps)) + 1], ps[((at + Len(ps) - 2) % Len(ps)) + 1]}
  /\ UNCHANGED <<tabs, pages, current, exiting, running, made, starts, file, left, dragged>>

\* track_focus: a click on a panel of the page shown.
Click(p) ==
  /\ running /\ \E i \in TabOf(p) : tabs[i].page = pages[current]
  /\ focused' = p
  /\ UNCHANGED <<tabs, pages, current, exiting, running, made, starts, file, left, dragged>>

\* connect_switch_page: the focus stays in the tab or goes to its first panel,
\* unless the widget does not take it.
SwitchPage(page) ==
  /\ running /\ page \in DOMAIN pages \ {current} /\ current' = page
  /\ \/ focused' = focused
     \/ page \notin TabOf(focused) /\ focused' = Leaves(tabs[page].tree)[1]
  /\ UNCHANGED <<tabs, pages, exiting, running, made, starts, file, left, dragged>>

\* The notebook's pages are reorderable; nothing is told of it.
Drag(to) ==
  /\ running /\ to \in DOMAIN pages \ {current}
  /\ pages' = InsertAt(RemoveAt(pages, current), to, pages[current])
  /\ current' = to /\ dragged' = TRUE
  /\ UNCHANGED <<tabs, focused, exiting, running, made, starts, file, left>>

-----------------------------------------------------------------------------
(* Closing *)

\* remove_page: the page after the current one takes its place, or the one before.
Turned(i) == IF current > i \/ current = Len(pages) THEN current - 1 ELSE current

\* Tab i of `tabs' and page i of the notebook go; the first panel shown has the focus.
RemoveTab(i) ==
  LET ts == RemoveAt(tabs, i) IN
  IF ts = <<>> THEN Closing(ts)
  ELSE /\ tabs' = ts /\ pages' = RemoveAt(pages, i) /\ current' = Turned(i)
       /\ focused' = Leaves(ts[Turned(i)].tree)[1]
       /\ UNCHANGED <<running, file, left>>

\* The tab's only panel, or one whose side of the split gets the focus.
ClosePanel(i, p) ==
  IF tabs[i].tree = p THEN RemoveTab(i)
  ELSE /\ tabs' = [tabs EXCEPT ![i].tree = Without(@, p)]
       /\ focused' = Leaves(Sibling(tabs[i].tree, p))[1]
       /\ UNCHANGED <<pages, current, running, file, left>>

CloseFocused ==
  /\ running /\ \E i \in TabOf(focused) : ClosePanel(i, focused)
  /\ exiting' = (IF running' THEN exiting ELSE {}) /\ UNCHANGED <<made, starts, dragged>>

Mutant_CloseButton(page) ==
  /\ running /\ page \in DOMAIN pages /\ Len(tabs) > 1
  /\ tabs' = RemoveAt(tabs, page) /\ pages' = RemoveAt(pages, page)
  /\ current' = Turned(page)
  /\ UNCHANGED <<focused, exiting, running, made, starts, file, left, dragged>>

\* The button on a page: the tab with the page's number, whatever its panels.
CloseButton(page) ==
  /\ running /\ page \in DOMAIN pages /\ RemoveTab(page)
  /\ exiting' = (IF running' THEN exiting ELSE {}) /\ UNCHANGED <<made, starts, dragged>>

\* A shell ends; the callback is run when the main loop is idle.
ChildExits(p) ==
  /\ running /\ p \in Open \ exiting /\ IsTerminal(p)
  /\ exiting' = exiting \cup {p}
  /\ UNCHANGED <<tabs, pages, current, focused, running, made, starts, file, left, dragged>>

\* handle_panel_exit: the panel may have been closed meanwhile.
HandlePanelExit(p) ==
  /\ running /\ p \in exiting
  /\ IF TabOf(p) = {} THEN UNCHANGED <<tabs, pages, current, focused, running, file, left>>
                      ELSE \E i \in TabOf(p) : ClosePanel(i, p)
  /\ exiting' = (IF running' THEN exiting \ {p} ELSE {}) /\ UNCHANGED <<made, starts, dragged>>

-----------------------------------------------------------------------------
Next ==
  \/ Start \/ Quit
  \/ \E shows \in Contents : AddTab(shows) \/ SplitFocused(shows)
  \/ FocusDirection \/ \E p \in Panels : Click(p)
  \/ \E page \in DOMAIN pages : SwitchPage(page) \/ Drag(page)
  \/ CloseFocused \/ \E page \in DOMAIN pages : CloseButton(page)
  \/ \E p \in Panels : ChildExits(p) \/ HandlePanelExit(p)

Spec == Init /\ [][Next]_vars

-----------------------------------------------------------------------------
(* Properties *)

\* The focused panel is in a tab, and a window has one, whatever was closed and by
\* whom: every command on "the focused panel" looks for it in a tab and does
\* nothing when it finds none.  (tabs.rs split_focused, close_focused 331-337)
FocusExists == running /\ ~dragged => focused \in Open

\* What is restored is what was left, in its order, with the elided panels gone
\* and the tab that was shown, if it had a terminal.  (tabs.rs snapshot_session
\* "map it onto the surviving (terminal-only) tab list so restore picks the right
\* page")
Restores ==
  Start /\ file # None =>
    /\ Rows(tabs') = left.rows
    /\ left.shown # <<>> => Rows(tabs')[current'] = left.shown
RestoredAsLeft == [][Restores]_vars

-----------------------------------------------------------------------------
(* What the code does not keep *)

\* The tab with a page's number is the tab on that page.
TabsArePages == \A i \in DOMAIN tabs : tabs[i].page = pages[i]

\* The focus is on the page shown: also when a shell ends in another tab.
FocusIsShown == running /\ ~dragged => current \in TabOf(focused)
=============================================================================
