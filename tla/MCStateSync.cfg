CONSTANTS
    Dims = {wide, tall}
    Cells = {c1, c2}
    Corner = c1
    Glyphs = {blank, x}
    Blank = blank
    MaxChanges = 3
SPECIFICATION FairSpec
INVARIANTS
    ScreensAgree
PROPERTIES
    Converges
\* Output is bounded, so the system stops when the last screen is acknowledged.
CHECK_DEADLOCK FALSE
