------------------------------- MODULE GitConfig -------------------------------
(***************************************************************************)
(* The git plugin's workspaces.toml, read block by block: a block that is  *)
(* not valid, repeats a name or overlaps a workspace that is loaded        *)
(* already is left out and the rest is kept.  The owner of a path is then  *)
(* looked up by prefix.                                                    *)
(***************************************************************************)
EXTENDS Naturals, Sequences, FiniteSets

CONSTANTS
  Names,
  Segments,   \* of paths
  MaxBlocks   \* bound on the blocks of the file

GitConfigAssumption == MaxBlocks \in Nat

\* Canonical: absolute, no link in what exists, no `.' or `..' in what does not.
Paths == [1..1 -> Segments] \cup [1..2 -> Segments]
Block == [name : Names, valid : BOOLEAN, path : Paths, worktree_root : Paths]

VARIABLES
  workspaces,   \* loaded so far, in the order of the file
  seen,         \* names taken
  errors,       \* history: the blocks left out
  read          \* blocks read

vars == <<workspaces, seen, errors, read>>

TypeOK ==
  /\ workspaces \in Seq(Block) /\ seen \subseteq Names
  /\ errors \subseteq Block /\ read \in 0..MaxBlocks

Init == workspaces = <<>> /\ seen = {} /\ errors = {} /\ read = 0

-----------------------------------------------------------------------------
Loaded == {workspaces[i] : i \in DOMAIN workspaces}
Under(parent, child) ==
  Len(parent) <= Len(child) /\ \A i \in DOMAIN parent : parent[i] = child[i]
Own(block) == {block.path, block.worktree_root}

Mutant_Overlap(block, other) == \E p \in Own(block), q \in Own(other) : Under(q, p)
Overlap(block, other) == \E p \in Own(block), q \in Own(other) : Under(p, q) \/ Under(q, p)

LeaveOut(block) == errors' = errors \cup {block} /\ UNCHANGED workspaces

\* Name, path, repository, worktree_root, default_base; then the name; then the others.
ReadBlock(block) ==
  /\ read < MaxBlocks /\ read' = read + 1
  /\ IF ~block.valid \/ block.name \in seen THEN LeaveOut(block) /\ UNCHANGED seen
     ELSE /\ seen' = seen \cup {block.name}
          /\ IF \E other \in Loaded : Overlap(block, other) THEN LeaveOut(block)
             ELSE workspaces' = Append(workspaces, block) /\ UNCHANGED errors

Next == \E block \in Block : ReadBlock(block)
Spec == Init /\ [][Next]_vars

-----------------------------------------------------------------------------
(* git.worktree_remove, git.status *)

Owners(path) == {w \in Loaded : \E p \in Own(w) : Under(p, path)}

\* A path belongs to one workspace at most, so the first that is found is the one
\* whose repository git is run in.  (main.rs "at most one entry can match any given
\* target")
OneOwner == \A path \in Paths : Cardinality(Owners(path)) <= 1

\* A block left out does not take its name from a later one.  (config.rs "a malformed
\* first block `reserves' the name and a later valid block with the same name gets
\* rejected"); it does, when it is left out for an overlap.
NamesAreFree == \A name \in seen : \E w \in Loaded : w.name = name
=============================================================================
