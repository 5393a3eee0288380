---------------------------- MODULE BookmarkPlugin -----------------------------
(***************************************************************************)
(* Bookmarks: one file for a page, named by the month, the hash of its     *)
(* canonical URL and the title.  Adding looks for the hash in all months,  *)
(* then writes a temporary file and renames it where no file is.  The user *)
(* edits, moves and removes the files.  More than one process may add.     *)
(***************************************************************************)
EXTENDS Naturals, FiniteSets

CONSTANTS
  Processes,   \* of the plugin
  Pages,
  Titles,      \* slugs
  LastMonth,   \* bound on the calendar
  MaxAdds,     \* bound on the calls of a process
  Foreign, None

\* A page may be asked for with a fragment and with tracking parameters.
Links == [page : Pages, tracking : BOOLEAN, fragment : BOOLEAN]

BookmarkAssumption ==
  LastMonth \in Nat \ {0} /\ MaxAdds \in Nat /\ Foreign \notin Links /\ None \notin Links

VARIABLES
  files,     \* [Names -> link in its front matter, Foreign or None]
  month,
  call,      \* [Processes -> the add it is at, or None]
  adds,      \* calls so far
  kept,      \* history: links acknowledged, as long as a file of theirs is listed
  replaced,  \* history: a file was replaced by the plugin
  doubled    \* history: a second file of a page was made, though nobody else made or moved one

vars == <<files, month, call, adds, kept, replaced, doubled>>

Mutant_Canonical(link) == [link EXCEPT !.fragment = FALSE]
Canonical(link) == [link EXCEPT !.fragment = FALSE, !.tracking = FALSE]

\* The file's name; the id is the hash of the canonical URL.
Names == [month : 1..LastMonth, id : {Canonical(l) : l \in Links}, title : Titles]

TypeOK ==
  /\ files \in [Names -> Links \cup {Foreign, None}]
  /\ month \in 1..LastMonth
  /\ \A p \in Processes : call[p] = None \/ call[p].link \in Links
  /\ adds \in [Processes -> 0..MaxAdds] /\ kept \subseteq Links /\ {replaced, doubled} \subseteq BOOLEAN

Init ==
  /\ files = [n \in Names |-> None] /\ month = 1 /\ call = [p \in Processes |-> None]
  /\ adds = [p \in Processes |-> 0] /\ kept = {} /\ replaced = FALSE /\ doubled = FALSE

-----------------------------------------------------------------------------
(* list_all passes over what has no front matter with a URL *)

Listed == {n \in Names : files[n] \in Links}

Mutant_Found(id) == {n \in Listed : n.id = id /\ n.month = month}
\* find_by_urlhash: in any month.
Found(id) == {n \in Listed : n.id = id}

Existed(p) == kept' = kept \cup {call[p].link} /\ call' = [call EXCEPT ![p] = None]
Fails(p) == call' = [call EXCEPT ![p] = None] /\ UNCHANGED kept

\* Somebody makes, changes or moves a file of this id during the calls for it: one that
\* lists the files may pass it by.
Raced(c, id) == [p \in Processes |-> IF c[p] # None /\ c[p].link = id THEN [c[p] EXCEPT !.raced = TRUE] ELSE c[p]]

Add(p, link, title) ==
  /\ call[p] = None /\ adds[p] < MaxAdds /\ adds' = [adds EXCEPT ![p] = @ + 1]
  /\ call' = [call EXCEPT ![p] = [at |-> "look", link |-> Canonical(link), raced |-> FALSE,
                name |-> [month |-> month, id |-> Canonical(link), title |-> title]]]
  /\ UNCHANGED <<files, month, kept, replaced, doubled>>

Look(p) ==
  /\ call[p] # None /\ call[p].at = "look"
  /\ \/ Found(call[p].link) # {} /\ Existed(p)
     \/ /\ Found(call[p].link) = {} \/ call[p].raced
        /\ call' = [call EXCEPT ![p].at = "write"] /\ UNCHANGED kept
  /\ UNCHANGED <<files, month, adds, replaced, doubled>>

Mutant_Lost(p) == Existed(p)

\* AlreadyExists: another process added it, unless the file is not a bookmark.
Lost(p) ==
  \/ Found(call[p].link) # {} /\ Existed(p)
  \/ (Found(call[p].link) = {} \/ call[p].raced) /\ Fails(p)

\* The pages that a file's name stands for: whatever link the user has put into it.
Of(page) == {n \in Listed : n.id.page = page}

Makes(p, n) ==
  /\ files' = [files EXCEPT ![n] = call[p].link]
  /\ doubled' = (doubled \/ (Of(call[p].link.page) # {} /\ ~call[p].raced))

Mutant_WriteNew(p, n) == Makes(p, n) /\ Existed(p)

\* rename_no_replace.  What was written is read again, to answer with it; the user may
\* have spoilt it, or the process is killed before.
WriteNew(p, n) ==
  IF files[n] # None THEN Lost(p) /\ UNCHANGED <<files, doubled>>
  ELSE /\ Makes(p, n)
       /\ call' = [Raced(call, n.id) EXCEPT ![p] = None]
       /\ kept' \in {kept, kept \cup {call[p].link}}

Write(p) ==
  /\ call[p] # None /\ call[p].at = "write"
  /\ \/ WriteNew(p, call[p].name)
     \/ Fails(p) /\ UNCHANGED <<files, doubled>>      \* the temporary file cannot be made
  /\ replaced' = (replaced \/ (files[call[p].name] # None /\ files'[call[p].name] # files[call[p].name]))
  /\ UNCHANGED <<month, adds>>

\* A process is killed; its temporary file's name is hidden from list_all.
Kill(p) ==
  /\ call[p] # None /\ call' = [call EXCEPT ![p] = None]
  /\ UNCHANGED <<files, month, adds, kept, replaced, doubled>>

\* The links that have no file any more are nobody's promise.
Forget == kept' = {l \in kept : \E n \in Names : files'[n] \in Links /\ n.id = l}

\* bookmark.delete: the one bookmark of an id, or the newest of a URL.
Delete(n) ==
  /\ n \in Listed /\ files' = [files EXCEPT ![n] = None]
  /\ Forget /\ UNCHANGED <<month, call, adds, replaced, doubled>>

\* The user removes a file, takes its front matter away, or writes one of that name,
\* with any URL in it.
Edit(n) ==
  /\ \/ files' \in {[files EXCEPT ![n] = None], [files EXCEPT ![n] = Foreign]} /\ UNCHANGED call
     \/ \E l \in Links : files' = [files EXCEPT ![n] = l] /\ call' = Raced(call, n.id)
  /\ Forget /\ UNCHANGED <<month, adds, replaced, doubled>>

\* The user moves a bookmark to another month.
Move(n, m) ==
  LET to == [n EXCEPT !.month = m] IN
  /\ n \in Listed /\ files[to] = None
  /\ files' = [files EXCEPT ![n] = None, ![to] = files[n]] /\ call' = Raced(call, n.id)
  /\ UNCHANGED <<month, adds, kept, replaced, doubled>>

NextMonth ==
  /\ month < LastMonth /\ month' = month + 1
  /\ UNCHANGED <<files, call, adds, kept, replaced, doubled>>

Next ==
  \/ \E p \in Processes : \/ \E l \in Links, t \in Titles : Add(p, l, t)
                          \/ Look(p) \/ Write(p) \/ Kill(p)
  \/ \E n \in Names : Delete(n) \/ Edit(n) \/ \E m \in 1..LastMonth : Move(n, m)
  \/ NextMonth

Spec == Init /\ [][Next]_vars

-----------------------------------------------------------------------------
(* Properties *)

\* A link that bookmark.add acknowledged, as made or as there already, has a file that is
\* listed under its id until somebody removes it; and nothing the user has put under its
\* name is replaced.  (store.rs create, the lost race and the foreign file)
AddedIsListed ==
  /\ \A l \in kept : \E n \in Listed : n.id = l
  /\ ~replaced

\* However many processes add, whatever months pass, however the links are spelled and
\* whatever the user does before the call: an add makes no second file of a page, unless
\* another makes, changes or moves one of the page during the call.  (store.rs "If a file
\* with the same urlhash8 already exists anywhere under root, returns CreateOutcome::Existed")
OnePerPage == ~doubled

-----------------------------------------------------------------------------
(* What the code does not keep *)

\* Two processes make two files of a page: under two titles, or in two months, both
\* names are free.
OnePerPageOfAll == \A m, n \in Listed : m.id = n.id => m = n

\* store.rs:285-289 "a manually created file with our slug pattern but a different URL
\* inside [...] we surface that explicitly": it is found by its name, and answered as the
\* bookmark that existed.
ExistedIsItsPage ==
  [][\A l \in kept' \ kept : \E n \in Listed' : n.id = l /\ files'[n].page = l.page]_vars
=============================================================================
