---------------------------- MODULE ScreenDiff ----------------------------
(***************************************************************************)
(* Screens and the diffs between them (crates/term/src/diff.rs).            *)
(*                                                                         *)
(* A screen is its dimensions and the contents of its cells.  The           *)
(* dimensions modelled have the same number of cells and share only the     *)
(* top-left one (1x2 and 2x1, say).                                        *)
(* The cursor travels in the header of both kinds of diff and is left out.  *)
(***************************************************************************)
CONSTANTS Dims,         \* terminal sizes
          Cells,        \* indices into the cell array
          Corner,       \* the index of the top-left cell
          Glyphs,       \* contents of a cell
          Blank         \* the contents of an empty cell

ASSUME CornerAssumption == Corner \in Cells
ASSUME BlankAssumption == Blank \in Glyphs
ASSUME DimsAssumption == Dims # {}

Screens == [dims : Dims, cells : [Cells -> Glyphs]]

\* An encoded diff: the tag, the dimensions and the cells it lists.
Diffs == UNION {[full : BOOLEAN, dims : Dims, cells : [S -> Glyphs]] : S \in SUBSET Cells}

\* Grid::new
NewGrid(d) == [dims |-> d, cells |-> [i \in Cells |-> Blank]]

\* Grid::resize keeps the part of the screen that fits, from the top left.
Resized(s, d) ==
    [dims |-> d, cells |-> [i \in Cells |-> IF i = Corner THEN s.cells[i] ELSE Blank]]

\* encode_diff(None, target): TAG_FULL with every cell.
EncodeFull(target) == [full |-> TRUE, dims |-> target.dims, cells |-> target.cells]

\* encode_diff(Some(base), target): TAG_FULL when the dimensions differ, TAG_DELTA
\* with the changed cells when they do not.
EncodeDiff(base, target) ==
    LET changes == {i \in Cells : target.cells[i] # base.cells[i]}
    IN  IF base.dims # target.dims
        THEN EncodeFull(target)
        ELSE [full |-> FALSE, dims |-> target.dims, cells |-> [i \in changes |-> target.cells[i]]]

\* apply_diff succeeds on a full snapshot, and on a delta for a grid of its size
\* (DimMismatch otherwise).
Applies(grid, diff) == diff.full \/ diff.dims = grid.dims

ApplyDiff(grid, diff) ==
    [dims  |-> diff.dims,
     cells |-> [i \in Cells |-> IF i \in DOMAIN diff.cells THEN diff.cells[i] ELSE grid.cells[i]]]

===========================================================================
