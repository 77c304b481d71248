------------------------------ MODULE Replay ------------------------------
(***************************************************************************)
(* The sliding-window anti-replay filter of crates/transport/src/replay.rs  *)
(* as a value: a WindowFilter is a record of its two fields, and            *)
(* check_and_set is the pair IsFresh (what it returns) and Updated (the     *)
(* filter it leaves when it returns true; it changes nothing otherwise).    *)
(* The 64-bit bitmap is the set of its one bits: bit i stands for the nonce *)
(* max - i.                                                                *)
(***************************************************************************)
EXTENDS Integers

CONSTANT WINDOW       \* width of the replay window in packets (64 in the code)

ASSUME WindowAssumption == WINDOW \in Nat \ {0}

None == -1            \* Option::None for max
Bits == 0 .. WINDOW - 1

\* WindowFilter::default()
NewFilter == [max |-> None, bitmap |-> {}]

\* bitmap << diff: the bits shifted past the width are lost.
ShiftLeft(bits, diff) == {b \in Bits : b - diff \in bits}

\* check_and_set with `width` for the age from which a nonce is too old.
FreshWithin(f, nonce, width) ==
    \/ f.max = None
    \/ nonce > f.max
    \/ f.max - nonce < width /\ f.max - nonce \notin f.bitmap

\* Mutants: the age test off by one in either direction.
FreshTooWide(f, nonce) == FreshWithin(f, nonce, WINDOW + 1)
FreshTooNarrow(f, nonce) == FreshWithin(f, nonce, WINDOW - 1)

IsFresh(f, nonce) == FreshWithin(f, nonce, WINDOW)

\* The filter after a nonce above the maximum: the window slides, and a jump of
\* WINDOW or more empties it.
Slide(f, nonce) ==
    [max    |-> nonce,
     bitmap |-> IF nonce - f.max >= WINDOW
                THEN {0}
                ELSE ShiftLeft(f.bitmap, nonce - f.max) \cup {0}]

Updated(f, nonce) ==
    IF f.max = None
    THEN [max |-> nonce, bitmap |-> {0}]
    ELSE IF nonce > f.max
         THEN Slide(f, nonce)
         ELSE [f EXCEPT !.bitmap = @ \cup {f.max - nonce}]

\* "Bit i (from LSB) marks that nonce max - i has been accepted": the filter is
\* exact for the set `accepted` of the nonces it has returned true for.
ExactFor(f, accepted) ==
    /\ f.max = None => accepted = {} /\ f.bitmap = {}
    /\ f.max # None =>
         /\ f.max \in accepted
         /\ \A n \in accepted : n <= f.max
         /\ \A i \in Bits : i \in f.bitmap <=> f.max - i \in accepted

===========================================================================
