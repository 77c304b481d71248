CONSTANTS
    Chars = {"a", "W", "combining"}
    Printable = {"a", "b"}
    Uses <- ServerUserAndBoth
    MaxSent = 2
SPECIFICATION PredictorSpec
INVARIANTS
    NoIndexOutOfRange
    PredictionsSound
PROPERTIES
    MainScreenReturns
\* The bounds on the calls and the keys have been reached.
CHECK_DEADLOCK FALSE
