------------------------------ MODULE Terminal ------------------------------
(***************************************************************************)
(* The macOS terminal view (src/nestty-term/src/lib.rs): the PTY thread    *)
(* edits the grid, the main thread polls it at every vsync.  A tick first  *)
(* asks nestty_term_take_damage whether anything changed and, if so, takes *)
(* a nestty_term_snapshot: two acquisitions of the terminal's lock, with   *)
(* the PTY thread free to run in between.  The grid, its scrollback and    *)
(* the damage it records belong to the alacritty_terminal library; what    *)
(* is modelled of them is what lib.rs and its comments rely on.            *)
(*                                                                         *)
(* A cell is a glyph, a pen (everything a run is split on: colours, flags, *)
(* underline, hyperlink) and whether a combining mark sits on it.          *)
(***************************************************************************)
EXTENDS Integers, Sequences, FiniteSets

CONSTANTS Cols, Lines,   \* the size of the grid
          History,       \* lines of scrollback kept
          Glyphs,        \* single-width characters a program prints
          FirstRows,     \* what may stand on the first line at the start
          MaxOps,        \* bound on what the program and the user do
          None

TerminalAssumption ==
    /\ Cols \in Nat \ {0} /\ Lines \in Nat \ {0}
    /\ History \in Nat /\ MaxOps \in Nat

VARIABLES grid,       \* line -> row; negative lines are the scrollback
          cursor,     \* [line, col, shown]
          offset,     \* grid.display_offset()
          selection,  \* [anchor, head] in absolute points, or None
          damage,     \* [full, lines, last]: what alacritty has recorded
          redraw,     \* last_redraw_state_hash
          seen,       \* what a snapshot would have shown at the last call (a history variable)
          cache,      \* snapshotCache of the renderer, or None
          tick,       \* "idle" | "damaged": between the two calls of a tick
          osc52,      \* pending_clipboard, and what reached the pasteboard
          ops

vars == <<grid, cursor, offset, selection, damage, redraw, seen, cache, tick, osc52, ops>>

LineNumbers == -History .. Lines - 1
Columns == 0 .. Cols - 1
Point == [line : LineNumbers, col : Columns]
Before(p, q) == p.line < q.line \/ (p.line = q.line /\ p.col =< q.col)

\* "wide" is the leading half of a double-width character, "spacer" its other half.
Default == [kind |-> "default", n |-> 0]
Pens == {[kind |-> "indexed", n |-> 1], [kind |-> "rgb", n |-> 1]}
Cell == [glyph : Glyphs \cup {" ", "wide", "spacer"}, pen : Pens \cup {Default}, mark : BOOLEAN]
Blank == [glyph |-> " ", pen |-> Default, mark |-> FALSE]
BlankRow == [c \in Columns |-> Blank]

Clean == [full |-> FALSE, lines |-> [l \in 0 .. Lines - 1 |-> None], last |-> None]

-----------------------------------------------------------------------------
(* Damage: one interval of columns per line; the cursor's own cell is      *)
(* added whenever it is asked for, and whenever the cursor jumps.          *)

Widen(d, p) ==
    LET old == d[p.line]
    IN  [d EXCEPT ![p.line] =
            IF old = None THEN [left |-> p.col, right |-> p.col]
            ELSE [left  |-> IF p.col < old.left THEN p.col ELSE old.left,
                  right |-> IF p.col > old.right THEN p.col ELSE old.right]]

At(cur) == [line |-> cur.line, col |-> cur.col]

\* term.damage() when the damage is partial: the last cursor and the current one added.
Partial == LET d == IF damage.last = At(cursor) THEN damage.lines
                    ELSE Widen(damage.lines, damage.last)
           IN  Widen(d, At(cursor))

\* What its iterator yields: lines the user can see, in viewport rows.
Reported == {[row |-> l + offset, left |-> Partial[l].left, right |-> Partial[l].right] :
                l \in {k \in 0 .. Lines - 1 : Partial[k] # None /\ k + offset < Lines}}

-----------------------------------------------------------------------------
(* What a snapshot exposes.                                                *)

Mutant_selection_range_for_ffi ==
    IF selection = None THEN None
    ELSE LET start == IF Before(selection.anchor, selection.head) THEN selection.anchor ELSE selection.head
             end   == IF Before(selection.anchor, selection.head) THEN selection.head ELSE selection.anchor
             first == start.line + offset
             final == end.line + offset
         IN  IF final < 0 \/ first > Lines - 1 THEN None
             ELSE [start |-> <<IF first < 0 THEN 0 ELSE first, start.col>>,
                   end   |-> <<IF final > Lines - 1 THEN Lines - 1 ELSE final, end.col>>]

\* selection_range_for_ffi: the selection cut to the visible rows.
selection_range_for_ffi ==
    IF selection = None THEN None
    ELSE LET start == IF Before(selection.anchor, selection.head) THEN selection.anchor ELSE selection.head
             end   == IF Before(selection.anchor, selection.head) THEN selection.head ELSE selection.anchor
             first == start.line + offset
             final == end.line + offset
         IN  IF final < 0 \/ first > Lines - 1 THEN None
             ELSE [start |-> IF first < 0 THEN <<0, 0>> ELSE <<first, start.col>>,
                   end   |-> IF final > Lines - 1 THEN <<Lines - 1, Cols - 1>> ELSE <<final, end.col>>]

\* color_to_rgba: a tag in the high byte, as the bytes of a u32, and how the renderer
\* reads it back; an RGB colour without red must not pass for a palette index.
color_to_rgba(pen) ==
    CASE pen.kind = "default" -> <<0, 0, 0, 0>>
      [] pen.kind = "indexed" -> <<1, 0, 0, pen.n>>
      [] pen.kind = "rgb"     -> <<255, 0, 0, pen.n>>

Decoded(rgba) ==
    IF rgba[1] = 1 THEN [kind |-> "indexed", n |-> rgba[4]]
    ELSE IF rgba[1] = 255 THEN [kind |-> "rgb", n |-> rgba[4]] ELSE Default

\* A cell that may join the run before it: one column, one byte, no mark.
Uniform(cell) == cell.glyph \notin {"wide"} /\ ~cell.mark

Mutant_Extends(run, cell) ==
    /\ Uniform(cell) /\ run.uniform
    /\ run.text[Len(run.text)] = cell.glyph

Extends(run, cell) ==
    /\ Uniform(cell) /\ run.uniform
    /\ run.text[Len(run.text)] = cell.glyph
    /\ run.pen = color_to_rgba(cell.pen)

\* walk_row: the runs of the first n columns of a row.
walk_row(row) ==
    LET Run(c) == [from |-> c, to |-> IF row[c].glyph = "wide" THEN c + 2 ELSE c + 1,
                   text |-> <<row[c].glyph>> \o (IF row[c].mark THEN <<"mark">> ELSE <<>>),
                   pen |-> color_to_rgba(row[c].pen), uniform |-> Uniform(row[c])]
        Grown(run) == [run EXCEPT !.to = @ + 1, !.text = Append(@, run.text[1])]
        runs[n \in 0 .. Cols] ==
            IF n = 0 THEN <<>>
            ELSE LET done == runs[n - 1]
                     cell == row[n - 1]
                 IN  IF cell.glyph = "spacer" THEN done
                     ELSE IF done # <<>> /\ Extends(done[Len(done)], cell)
                          THEN [done EXCEPT ![Len(done)] = Grown(@)]
                          ELSE Append(done, Run(n - 1))
    IN  runs[Cols]

\* The cursor as nestty_term_snapshot reports it: hidden when scrolled out of view.
ShownCursor ==
    LET row == cursor.line + offset
    IN  [row |-> IF row > 0 THEN row ELSE 0, col |-> cursor.col,
         shown |-> cursor.shown /\ row \in 0 .. Lines - 1]

nestty_term_snapshot ==
    [rows |-> [r \in 0 .. Lines - 1 |-> walk_row(grid[r - offset])],
     cursor |-> ShownCursor,
     selection |-> selection_range_for_ffi]

-----------------------------------------------------------------------------
(* The gate.                                                               *)


\* hash_redraw_state, taken to be free of collisions: the cursor's row with its
\* combining marks, the cursor, the selection and the scroll position.
hash_redraw_state ==
    [row |-> grid[cursor.line], cursor |-> cursor,
     selection |-> selection_range_for_ffi, offset |-> offset]

\* Damage that is exactly the cursor's cell is what term.damage() adds by itself.
RealDamage ==
    \/ damage.full
    \/ redraw # hash_redraw_state
    \/ \E d \in Reported : ~(d.row = cursor.line /\ d.left = cursor.col /\ d.right = cursor.col)

nestty_term_take_damage ==
    /\ tick = "idle"
    /\ redraw' = hash_redraw_state
    /\ seen' = nestty_term_snapshot
    /\ damage' = [Clean EXCEPT !.last = At(cursor)]
    /\ tick' = IF RealDamage THEN "damaged" ELSE "idle"
    \* drainClipboardRequests comes first in the tick
    /\ osc52' = IF osc52.pending = None THEN osc52 ELSE [pending |-> None, pasted |-> osc52.pending]
    /\ UNCHANGED <<grid, cursor, offset, selection, cache, ops>>

\* The renderer takes its snapshot and draws it.
Redraw ==
    /\ tick = "damaged"
    /\ cache' = nestty_term_snapshot
    /\ tick' = "idle"
    /\ UNCHANGED <<grid, cursor, offset, selection, damage, redraw, seen, osc52, ops>>

-----------------------------------------------------------------------------
(* The program in the terminal, on the PTY thread: at any moment.          *)

Acts == ops < MaxOps /\ ops' = ops + 1 /\ UNCHANGED <<redraw, seen, cache, tick>>

\* Writing over half of a double-width character clears the other half.
Severed(row, c) ==
    [k \in Columns |->
        IF \/ row[c].glyph = "spacer" /\ k = c - 1
           \/ row[c].glyph = "wide" /\ k = c + 1
        THEN Blank ELSE row[k]]

\* A printed character lands on the cursor's cell; the damage follows the cursor.
PrintGlyph(g, pen) ==
    /\ Acts
    /\ grid' = [grid EXCEPT ![cursor.line] =
                    [Severed(@, cursor.col) EXCEPT ![cursor.col] =
                        [glyph |-> g, pen |-> pen, mark |-> FALSE]]]
    /\ cursor' = [cursor EXCEPT !.col = IF @ + 1 < Cols THEN @ + 1 ELSE @]
    /\ UNCHANGED <<offset, selection, damage, osc52>>

\* A combining mark joins the character before the cursor and damages nothing.
Combine ==
    /\ Acts
    /\ LET row == grid[cursor.line]
           b == IF cursor.col > 0 THEN cursor.col - 1 ELSE 0
           c == IF row[b].glyph = "spacer" THEN b - 1 ELSE b
       IN  grid' = [grid EXCEPT ![cursor.line][c].mark = TRUE]
    /\ UNCHANGED <<cursor, offset, selection, damage, osc52>>

\* The cursor jumps; both of its cells are damaged.
Goto(l, c) ==
    /\ Acts
    /\ cursor' = [cursor EXCEPT !.line = l, !.col = c]
    /\ damage' = [damage EXCEPT !.lines = Widen(Widen(@, At(cursor)), [line |-> l, col |-> c])]
    /\ UNCHANGED <<grid, offset, selection, osc52>>

\* DECTCEM and DECSCUSR change how the cursor looks and nothing else.
ShowCursor(b) ==
    /\ Acts /\ cursor.shown # b
    /\ cursor' = [cursor EXCEPT !.shown = b]
    /\ UNCHANGED <<grid, offset, selection, damage, osc52>>

\* A line feed at the bottom pushes the first line into the scrollback; a reader
\* who is scrolled back keeps looking at the same lines, and the selection moves
\* with its text until that falls off the scrollback.
LineFeed ==
    /\ Acts /\ cursor.line = Lines - 1
    /\ grid' = [l \in LineNumbers |-> IF l = Lines - 1 THEN BlankRow ELSE grid[l + 1]]
    /\ offset' = IF offset > 0 /\ offset < History THEN offset + 1 ELSE offset
    /\ damage' = [damage EXCEPT !.full = TRUE]
    /\ selection' =
        IF selection = None THEN None
        ELSE LET Up(p) == IF p.line - 1 >= -History THEN [p EXCEPT !.line = @ - 1]
                          ELSE [line |-> -History, col |-> 0]
             IN  IF selection.anchor.line - 1 < -History /\ selection.head.line - 1 < -History
                 THEN None
                 ELSE [anchor |-> Up(selection.anchor), head |-> Up(selection.head)]
    /\ UNCHANGED <<cursor, osc52>>

\* An OSC 52 write: NesttyListener keeps the last one only.
ClipboardStore(t) ==
    /\ Acts
    /\ osc52' = [osc52 EXCEPT !.pending = t]
    /\ UNCHANGED <<grid, cursor, offset, selection, damage>>

-----------------------------------------------------------------------------
(* The user, on the main thread: never inside a tick.                      *)

\* selection_point: viewport rows are lines of the grid less the scroll offset.
selection_point(row, col) == [line |-> row - offset, col |-> col]

selection_start(row, col) ==
    /\ tick = "idle" /\ Acts
    /\ selection' = [anchor |-> selection_point(row, col), head |-> selection_point(row, col)]
    /\ UNCHANGED <<grid, cursor, offset, damage, osc52>>

selection_update(row, col) ==
    /\ tick = "idle" /\ selection # None /\ Acts
    /\ selection' = [selection EXCEPT !.head = selection_point(row, col)]
    /\ UNCHANGED <<grid, cursor, offset, damage, osc52>>

selection_clear ==
    /\ tick = "idle" /\ selection # None /\ Acts
    /\ selection' = None
    /\ UNCHANGED <<grid, cursor, offset, damage, osc52>>

\* Cmd+A takes what is visible, not the whole scrollback.
selection_all ==
    /\ tick = "idle" /\ Acts
    /\ selection' = [anchor |-> [line |-> -offset, col |-> 0],
                     head |-> [line |-> Lines - 1 - offset, col |-> Cols - 1]]
    /\ UNCHANGED <<grid, cursor, offset, damage, osc52>>

scroll(o) ==
    /\ tick = "idle" /\ o # offset /\ Acts
    /\ offset' = o
    /\ UNCHANGED <<grid, cursor, selection, damage, osc52>>

-----------------------------------------------------------------------------
Init ==
    /\ \E row \in FirstRows :
          grid = [l \in LineNumbers |-> IF l = 0 THEN row ELSE BlankRow]
    /\ cursor = [line |-> 0, col |-> 0, shown |-> TRUE]
    /\ offset = 0 /\ selection = None
    /\ damage = [Clean EXCEPT !.full = TRUE, !.last = [line |-> 0, col |-> 0]]
    /\ redraw = None /\ seen = None /\ cache = None /\ tick = "idle"
    /\ osc52 = [pending |-> None, pasted |-> None]
    /\ ops = 0

Program ==
    \/ \E g \in Glyphs, pen \in Pens : PrintGlyph(g, pen)
    \/ Combine \/ LineFeed
    \/ \E l \in 0 .. Lines - 1, c \in Columns : Goto(l, c)
    \/ \E b \in BOOLEAN : ShowCursor(b)
    \/ \E t \in Glyphs : ClipboardStore(t)

User ==
    \/ \E r \in 0 .. Lines - 1, c \in Columns : selection_start(r, c) \/ selection_update(r, c)
    \/ selection_clear \/ selection_all
    \/ \E o \in 0 .. History : scroll(o)

Next == nestty_term_take_damage \/ Redraw \/ Program \/ User

Spec == Init /\ [][Next]_vars

-----------------------------------------------------------------------------
TypeOK ==
    /\ DOMAIN grid = LineNumbers
    /\ \A l \in LineNumbers : grid[l] \in [Columns -> Cell]
    /\ cursor.line \in 0 .. Lines - 1 /\ cursor.col \in Columns
    /\ offset \in 0 .. History
    /\ selection = None \/ {selection.anchor, selection.head} \subseteq Point
    /\ tick \in {"idle", "damaged"} /\ ops \in 0 .. MaxOps

\* The gate, for a user who has not scrolled back: a call that answers "nothing changed"
\* finds the picture that the call before it found (not the one that was drawn after that:
\* SkippedIsDrawn).  Combining marks, the last column, the cursor's looks and the selection
\* leave no damage to go by; the hash must cover each of them, and nothing written between
\* two calls may be lost.
SkipsWhatIsSeen ==
    (nestty_term_take_damage /\ tick' = "idle" /\ offset = 0) => seen = nestty_term_snapshot
GateIsSound == [][SkipsWhatIsSeen]_vars

\* The same with the view scrolled back, where damage is reported in viewport rows
\* and compared with the cursor's line in the grid.  It fails.
ScrolledGateIsSound ==
    [][(nestty_term_take_damage /\ tick' = "idle") =>
          seen = nestty_term_snapshot]_vars

\* The doc comment of nestty_term_take_damage: false means the grid "is
\* byte-for-byte what the renderer already drew".  It fails: the hash is taken by
\* one call and the picture by another, and the program runs in between.
SkippedIsDrawn ==
    tick = "idle" /\ redraw # None /\ offset = 0 /\ ~RealDamage =>
        cache.rows = nestty_term_snapshot.rows

\* What paintSelection highlights, from the clipped bounds it is given.
Painted(s) == {p \in (0 .. Lines - 1) \X Columns :
                  /\ p[1] \in s.start[1] .. s.end[1]
                  /\ p[1] = s.start[1] => p[2] >= s.start[2]
                  /\ p[1] = s.end[1] => p[2] =< s.end[2]}

\* However far the view is scrolled and whichever way the mouse was dragged, the
\* highlighted cells are exactly the visible cells of the selection.
HighlightIsSelection ==
    LET first == IF Before(selection.anchor, selection.head) THEN selection.anchor ELSE selection.head
        final == IF Before(selection.anchor, selection.head) THEN selection.head ELSE selection.anchor
        Inside(p) == LET q == [line |-> p[1] - offset, col |-> p[2]]
                     IN  Before(first, q) /\ Before(q, final)
    IN  selection # None =>
            {p \in (0 .. Lines - 1) \X Columns : Inside(p)} =
            (IF selection_range_for_ffi = None THEN {} ELSE Painted(selection_range_for_ffi))

\* The runs of a row draw that row: every column belongs to one run, which has the
\* pen of its cell and its character, whatever was merged with what.
RowsAreDrawn ==
    \A l \in LineNumbers :
        LET runs == walk_row(grid[l])
            Covering(c) == {r \in DOMAIN runs : runs[r].from =< c /\ c < runs[r].to}
            Glyph(run, c) == IF run.uniform THEN run.text[c - run.from + 1] ELSE run.text[1]
        IN  \A c \in Columns :
                LET base == IF grid[l][c].glyph = "spacer" THEN grid[l][c - 1] ELSE grid[l][c]
                IN  \E r \in DOMAIN runs :
                        /\ Covering(c) = {r}
                        /\ Decoded(runs[r].pen) = base.pen
                        /\ Glyph(runs[r], c) = base.glyph
                        /\ base.mark <=> ("mark" \in {runs[r].text[i] : i \in DOMAIN runs[r].text})
=============================================================================
