------------------------------ MODULE Emulator ------------------------------
(***************************************************************************)
(* The terminal emulator of the server: a Grid driven by whatever a program *)
(* prints (Perform for Grid, crates/term/src/grid.rs) and by the client's   *)
(* resizes, in any order.                                                  *)
(***************************************************************************)
EXTENDS Grid

CONSTANT Chars                  \* the characters printed

VARIABLES grid,
          main          \* history: the main screen when the alternate one was entered

emulator == <<grid, main>>

EmulatorInit(size) == grid = New(size[1], size[2]) /\ main = <<>>

\* One call that leaves the grid as g.
Step(g) == grid' = g /\ UNCHANGED main

PrintGlyph == \E ch \in Chars : Step(PutChar(grid, ch))

\* execute
Execute ==
    \E g \in {LineFeed(grid), CarriageReturn(grid), Backspace(grid), Tab(grid)} : Step(g)

\* csi_dispatch
CsiCursor ==
    \/ \E g \in {CursorUp(grid, 1), CursorDown(grid, 1), CursorForward(grid, 1),
                 CursorBack(grid, 1)} : Step(g)
    \/ \E row \in 0 .. grid.rows, col \in 0 .. grid.cols :
          Step(MoveTo(grid, row, col)) \/ Step(MoveTo(grid, grid.row, col))
            \/ Step(MoveTo(grid, row, grid.col))

CsiErase ==
    \E mode \in 0 .. 2 : Step(EraseInDisplay(grid, mode)) \/ Step(EraseInLine(grid, mode))

CsiShift ==
    \E g \in {InsertBlankChars(grid, 1), DeleteChars(grid, 1), InsertLines(grid, 1),
              DeleteLines(grid, 1), ScrollUp(grid, 1), ScrollDown(grid, 1)} : Step(g)

CsiRegion == \E top, bottom \in 0 .. grid.rows : Step(SetRegion(grid, top, bottom))

\* set_private_mode
Autowrap == \E on \in BOOLEAN : Step([grid EXCEPT !.autowrap = on])

EnterAlt ==
    /\ grid' = EnterAltScreen(grid)
    /\ main' = IF grid.alt_screen THEN main ELSE grid.cells

LeaveAlt == Step(LeaveAltScreen(grid))

\* esc_dispatch
Esc ==
    \E g \in {ReverseIndex(grid), NextLine(grid), SaveCursor(grid), RestoreCursor(grid),
              New(grid.rows, grid.cols)} : Step(g)

\* The client resizes its terminal; the screen to come back to is cut alike.
ResizeTo(size) ==
    /\ grid' = Resize(grid, size[1], size[2])
    /\ main' = IF grid.alt_screen THEN Recut(grid, main, size[1], size[2]) ELSE main

\* Anything a program prints.
Output ==
    \/ PrintGlyph \/ Execute \/ CsiCursor \/ CsiErase \/ CsiShift \/ CsiRegion \/ Autowrap
    \/ EnterAlt \/ LeaveAlt \/ Esc

\* The emulator by itself: a new one of some size, then any calls and any of the sizes.
EmulatorNext(sizes) == Output \/ \E size \in sizes : ResizeTo(size)
EmulatorSpec(sizes) ==
    (\E size \in sizes : EmulatorInit(size)) /\ [][EmulatorNext(sizes)]_emulator

-----------------------------------------------------------------------------

\* No call of any sequence indexes outside the cells, the cursor and the scroll region are
\* inside the screen, and both screens have the size the grid says: otherwise a later
\* call, or a diff, would panic (grid.rs:62-65, 428-455).
NoIndexOutOfRange ==
    /\ ~grid.oob
    /\ grid.row \in 0 .. grid.rows - 1 /\ grid.col \in 0 .. grid.cols - 1
    /\ grid.scroll_top \in 0 .. grid.scroll_bottom /\ grid.scroll_bottom < grid.rows
    /\ DOMAIN grid.cells = 0 .. grid.rows * grid.cols - 1
    /\ grid.alt_screen => DOMAIN grid.alt_saved = DOMAIN grid.cells

\* Leaving the alternate screen brings back the main screen as it was, cut to the size the
\* terminal has now, whatever was printed, echoed or resized in between (grid.rs:316-334).
MainScreenReturns ==
    [][LeaveAlt /\ grid.alt_screen => grid'.cells = main]_emulator

=============================================================================
