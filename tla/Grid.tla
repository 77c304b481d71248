-------------------------------- MODULE Grid --------------------------------
(***************************************************************************)
(* The terminal screen of crates/term/src/grid.rs: Grid as a record, and    *)
(* what the parser calls on it as operators.  A cell is its character; the  *)
(* pen, colours, cursor visibility and query replies are left out.  Cells   *)
(* are indexed from 0, row by row, as in the code; oob tells that an index  *)
(* was out of range, which in the code is a panic.                          *)
(***************************************************************************)
EXTENDS Integers

Blank == " "
Spacer == "spacer"              \* '\0', the second half of a wide character

\* UnicodeWidthChar, for the characters of an instance.
Width(ch) == CASE ch = "W" -> 2 [] ch = "combining" -> 0 [] OTHER -> 1

Lesser(m, n) == IF m <= n THEN m ELSE n
Greater(m, n) == IF m >= n THEN m ELSE n

Blanks(rows, cols) == [i \in 0 .. rows * cols - 1 |-> Blank]

New(rows, cols) ==
    [rows |-> rows, cols |-> cols, cells |-> Blanks(rows, cols), row |-> 0, col |-> 0,
     autowrap |-> TRUE, wrap_pending |-> FALSE, scroll_top |-> 0, scroll_bottom |-> rows - 1,
     saved |-> <<>>, alt_screen |-> FALSE, alt_saved |-> <<>>, oob |-> FALSE]

Idx(g, row, col) == row * g.cols + col

\* Write one cell, by index.
Store(g, i, ch) ==
    IF i \in DOMAIN g.cells THEN [g EXCEPT !.cells[i] = ch] ELSE [g EXCEPT !.oob = TRUE]

\* Every cell anew from its row and column.
Redrawn(g, Cell(_, _)) ==
    [g EXCEPT !.cells = [i \in DOMAIN g.cells |-> Cell(i \div g.cols, i % g.cols)]]

-----------------------------------------------------------------------------
\* Scrolling, within the region.

ScrollUp(g, n) ==
    Redrawn(g, LAMBDA r, c :
        IF r \notin g.scroll_top .. g.scroll_bottom THEN g.cells[Idx(g, r, c)]
        ELSE IF r + n <= g.scroll_bottom THEN g.cells[Idx(g, r + n, c)] ELSE Blank)

ScrollDown(g, n) ==
    Redrawn(g, LAMBDA r, c :
        IF r \notin g.scroll_top .. g.scroll_bottom THEN g.cells[Idx(g, r, c)]
        ELSE IF r >= g.scroll_top + n THEN g.cells[Idx(g, r - n, c)] ELSE Blank)

LineFeed(g) ==
    IF g.row = g.scroll_bottom THEN ScrollUp(g, 1)
    ELSE IF g.row + 1 < g.rows THEN [g EXCEPT !.row = @ + 1] ELSE g

ReverseIndex(g) ==
    IF g.row = g.scroll_top THEN ScrollDown(g, 1)
    ELSE IF g.row > 0 THEN [g EXCEPT !.row = @ - 1] ELSE g

\* insert_lines and delete_lines scroll with the region's top at the cursor for a moment.
LinesAtCursor(g, Scroll(_, _), n) ==
    IF g.row \in g.scroll_top .. g.scroll_bottom
    THEN [Scroll([g EXCEPT !.scroll_top = g.row], n) EXCEPT !.scroll_top = g.scroll_top]
    ELSE g

InsertLines(g, n) == LinesAtCursor(g, ScrollDown, n)
DeleteLines(g, n) == LinesAtCursor(g, ScrollUp, n)

-----------------------------------------------------------------------------
\* put_char, in its steps.

\* A pending wrap is resolved before the next character is placed.
Unwrapped(g) ==
    IF g.wrap_pending /\ g.autowrap
    THEN [LineFeed([g EXCEPT !.col = 0]) EXCEPT !.wrap_pending = FALSE] ELSE g

\* A wide character that does not fit goes to the next line, or into the last two columns.
Fitted(g, ch) ==
    IF Width(ch) = 2 /\ g.col + 1 >= g.cols
    THEN [(IF g.autowrap THEN LineFeed([g EXCEPT !.col = 0])
           ELSE [g EXCEPT !.col = Greater(g.cols - 2, 0)]) EXCEPT !.wrap_pending = FALSE]
    ELSE g

\* The cursor after a character of width w.
Advanced(g, w) ==
    IF g.col + w < g.cols THEN [g EXCEPT !.col = @ + w]
    ELSE IF g.autowrap THEN [g EXCEPT !.wrap_pending = TRUE]
    ELSE IF w = 2 THEN [g EXCEPT !.col = g.cols - 1] ELSE g

PutChar(g, ch) ==
    LET at == Fitted(Unwrapped(g), ch)
        i == Idx(at, at.row, at.col)
    IN  CASE Width(ch) = 0 -> g
          [] Width(ch) = 1 -> Advanced(Store(at, i, ch), 1)
          [] OTHER         -> Advanced(Store(Store(at, i, ch), i + 1, Spacer), 2)

-----------------------------------------------------------------------------
\* Cursor motion; Tab, NextLine and RestoreCursor do not forget a pending wrap.

MoveTo(g, row, col) ==
    [g EXCEPT !.row = Lesser(row, g.rows - 1), !.col = Lesser(col, g.cols - 1),
              !.wrap_pending = FALSE]

CarriageReturn(g) == [g EXCEPT !.col = 0, !.wrap_pending = FALSE]
CursorBack(g, n) == [g EXCEPT !.col = Greater(@ - n, 0), !.wrap_pending = FALSE]
Backspace(g) == CursorBack(g, 1)
CursorUp(g, n) == [g EXCEPT !.row = Greater(@ - n, 0), !.wrap_pending = FALSE]
CursorDown(g, n) == [g EXCEPT !.row = Lesser(@ + n, g.rows - 1), !.wrap_pending = FALSE]
CursorForward(g, n) == [g EXCEPT !.col = Lesser(@ + n, g.cols - 1), !.wrap_pending = FALSE]
Tab(g) == [g EXCEPT !.col = Lesser(((@ \div 8) + 1) * 8, g.cols - 1)]
NextLine(g) == LineFeed([g EXCEPT !.col = 0])

SaveCursor(g) == [g EXCEPT !.saved = <<g.row, g.col>>]

RestoreCursor(g) ==
    IF g.saved = <<>> THEN g
    ELSE [g EXCEPT !.row = Lesser(g.saved[1], g.rows - 1), !.col = Lesser(g.saved[2], g.cols - 1)]

\* DECSTBM, with rows counted from 0.
SetRegion(g, top, bottom) ==
    IF top < bottom /\ bottom < g.rows
    THEN MoveTo([g EXCEPT !.scroll_top = top, !.scroll_bottom = bottom], 0, 0) ELSE g

-----------------------------------------------------------------------------
\* Erasing and shifting.

EraseInDisplay(g, mode) ==
    LET at == Idx(g, g.row, g.col)
    IN  [g EXCEPT !.cells = [i \in DOMAIN @ |->
            IF mode = 2 \/ (mode = 0 /\ i >= at) \/ (mode = 1 /\ i <= at) THEN Blank ELSE @[i]]]

EraseInLine(g, mode) ==
    Redrawn(g, LAMBDA r, c :
        IF r = g.row /\ (mode = 2 \/ (mode = 0 /\ c >= g.col) \/ (mode = 1 /\ c <= g.col))
        THEN Blank ELSE g.cells[Idx(g, r, c)])

InsertBlankChars(g, n) ==
    Redrawn(g, LAMBDA r, c :
        IF r # g.row \/ c < g.col THEN g.cells[Idx(g, r, c)]
        ELSE IF c >= g.col + n THEN g.cells[Idx(g, r, c - n)] ELSE Blank)

DeleteChars(g, n) ==
    Redrawn(g, LAMBDA r, c :
        IF r # g.row \/ c < g.col THEN g.cells[Idx(g, r, c)]
        ELSE IF c + n < g.cols THEN g.cells[Idx(g, r, c + n)] ELSE Blank)

\* The alternate screen.
\* Mutant: entering it twice.
EnterAltTwice(g) ==
    MoveTo([g EXCEPT !.alt_screen = TRUE, !.alt_saved = g.cells, !.cells = Blanks(g.rows, g.cols)], 0, 0)

EnterAltScreen(g) ==
    IF g.alt_screen THEN g
    ELSE MoveTo([g EXCEPT !.alt_screen = TRUE, !.alt_saved = g.cells,
                          !.cells = Blanks(g.rows, g.cols)], 0, 0)

LeaveAltScreen(g) ==
    IF g.alt_screen
    THEN [g EXCEPT !.alt_screen = FALSE, !.cells = g.alt_saved, !.alt_saved = <<>>] ELSE g

\* resize keeps what both sizes have, of both screens.
Recut(g, cells, rows, cols) ==
    [i \in 0 .. rows * cols - 1 |->
        IF i \div cols < g.rows /\ i % cols < g.cols
        THEN cells[Idx(g, i \div cols, i % cols)] ELSE Blank]

\* Mutant: the saved screen keeps its size.
ResizeVisible(g, rows, cols) ==
    [g EXCEPT !.cells = Recut(g, g.cells, rows, cols), !.rows = rows, !.cols = cols,
              !.scroll_top = 0, !.scroll_bottom = rows - 1,
              !.row = Lesser(@, rows - 1), !.col = Lesser(@, cols - 1), !.wrap_pending = FALSE]

Resize(g, rows, cols) ==
    [g EXCEPT !.cells = Recut(g, g.cells, rows, cols),
              !.alt_saved = IF g.alt_screen THEN Recut(g, @, rows, cols) ELSE @,
              !.rows = rows, !.cols = cols,
              !.scroll_top = 0, !.scroll_bottom = rows - 1,
              !.row = Lesser(@, rows - 1), !.col = Lesser(@, cols - 1), !.wrap_pending = FALSE]

=============================================================================
