------------------------------ MODULE Renderer ------------------------------
(***************************************************************************)
(* The incremental renderer of src/tty.rs, and what the turns of            *)
(* interactive_loop do with it: a grid with the banner stamped on its first *)
(* row is painted over what the terminal shows, row by row, from the        *)
(* difference to the grid painted last.  A row is one value.  The terminal  *)
(* is external: a resize leaves anything on it, and a move below its last   *)
(* row ends on that row.                                                    *)
(***************************************************************************)
EXTENDS Integers, Sequences

CONSTANTS MaxRows, Texts        \* how high grids are, and what a row may hold

ASSUME RendererAssumption == MaxRows \in Nat

VARIABLES tty,          \* the terminal: its rows, the row of the cursor, is it visible
          last,         \* the grid painted last, if any
          last_size,    \* the height of the terminal when the loop last looked
          resized,      \* history: it was resized since
          unseen        \* history: it was resized away and back between two looks

rendererVars == <<tty, last, last_size, resized, unseen>>

Grids == UNION {[rows : [1..n -> Texts], cursor : 1..n, visible : BOOLEAN] : n \in 1..MaxRows}
NoGrid == [rows |-> <<>>, cursor |-> 0, visible |-> FALSE]
Cleared(n) == [r \in 1..n |-> "blank"]

\* The screen is cleared when the loop starts.
RendererInit ==
    /\ \E n \in 1..MaxRows : /\ tty = [rows |-> Cleared(n), cursor |-> 1, visible |-> TRUE]
                             /\ last_size = n
    /\ last = NoGrid /\ resized = FALSE /\ unseen = FALSE

\* stamp_status.
Stamped(grid, banner) == IF banner THEN [grid EXCEPT !.rows[1] = "banner"] ELSE grid

\* paint: the rows that differ from last time, all of them if there was none or its
\* size was another.
ChangedRows(before, grid) ==
    {r \in DOMAIN grid.rows : Len(before.rows) # Len(grid.rows) \/ before.rows[r] # grid.rows[r]}

\* The cursor is hidden while rows are painted.
\* Mutant: it is shown again only when its visibility changes.
CursorShownOnChange(before, grid, repainting) ==
    IF before = NoGrid \/ before.visible # grid.visible THEN grid.visible
    ELSE IF repainting THEN FALSE ELSE tty.visible

CursorShown(before, grid, repainting) ==
    IF repainting \/ before = NoGrid \/ before.visible # grid.visible THEN grid.visible ELSE tty.visible

\* The terminal after the rows, top to bottom, and the cursor.
Painted(before, grid) ==
    LET changed == ChangedRows(before, grid)
        height == Len(tty.rows)
        onRow(r) == {c \in changed : c = r \/ (r = height /\ c > height)}
        lowest(S) == CHOOSE c \in S : \A d \in S : d <= c
    IN  [rows |-> [r \in 1..height |-> IF onRow(r) = {} THEN tty.rows[r] ELSE grid.rows[lowest(onRow(r))]],
         cursor |-> IF changed = {} /\ before.cursor = grid.cursor THEN tty.cursor
                    ELSE IF grid.cursor <= height THEN grid.cursor ELSE height,
         visible |-> CursorShown(before, grid, changed # {})]

\* A turn of the loop: the look at the size, invalidate() if it changed, and paint().
Paint(grid, banner) ==
    LET seen == Len(tty.rows) # last_size
    IN  /\ tty' = Painted(IF seen THEN NoGrid ELSE last, Stamped(grid, banner))
        /\ last' = Stamped(grid, banner)
        /\ last_size' = Len(tty.rows)
        /\ resized' = FALSE /\ unseen' = (~seen /\ (unseen \/ resized))

\* The user resizes the terminal, which moves its text about.
ResizeTty(n) ==
    /\ n # Len(tty.rows)
    /\ tty' = [tty EXCEPT !.rows = Cleared(n), !.cursor = 1]
    /\ resized' = TRUE
    /\ UNCHANGED <<last, last_size, unseen>>

RendererNext ==
    \/ \E grid \in Grids, banner \in BOOLEAN : Paint(grid, banner)
    \/ \E n \in 1..MaxRows : ResizeTty(n)

RendererSpec == RendererInit /\ [][RendererNext]_rendererVars

-----------------------------------------------------------------------------
\* Painting only what changed leaves on the terminal what painting all would: after a
\* turn it shows the grid, the banner over its first row or the row again once the
\* banner is gone, and the cursor where and if it is visible, whatever grids of other
\* sizes were painted and cut off before.  The exception is a terminal that was resized
\* and back between two looks, which compares equal to the size last seen.
PaintExact ==
    ~resized /\ ~unseen /\ last # NoGrid /\ Len(last.rows) = Len(tty.rows) => tty = last

=============================================================================
