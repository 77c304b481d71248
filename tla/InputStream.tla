---------------------------- MODULE InputStream ----------------------------
(***************************************************************************)
(* What the input channel promises: the bytes handed to the shell are at    *)
(* all times a prefix of the bytes typed, they only grow, and every byte    *)
(* typed is handed over in the end ("the server reconstructs the exact      *)
(* contiguous stream regardless of loss, reorder, or duplication").         *)
(***************************************************************************)
EXTENDS Naturals, Sequences

CONSTANT Bytes

VARIABLES typed,        \* the keystrokes, in order
          delivered     \* what the server side has handed over

Init == typed = <<>> /\ delivered = <<>>

Type(b) ==
    /\ typed' = Append(typed, b)
    /\ UNCHANGED delivered

Deliver ==
    /\ \E n \in Len(delivered) + 1 .. Len(typed) : delivered' = SubSeq(typed, 1, n)
    /\ UNCHANGED typed

Next == (\E b \in Bytes : Type(b)) \/ Deliver

Safety == Init /\ [][Next]_<<typed, delivered>>

\* What has been typed is handed over in the end.
Handover == WF_<<typed, delivered>>(Deliver)

Spec == Safety /\ Handover

============================================================================
