----------------------------- MODULE MCStreamMux -----------------------------
(***************************************************************************)
(* A stream with windows of two bytes and chunks of one, put to four uses.   *)
(***************************************************************************)
EXTENDS StreamMux

\* a writes `written` bytes; there may be `forth` frames on the way to b and `back` to a.
Use(written, forth, back, closers, resetters) ==
    [writes    |-> [e \in Ends |-> IF e = "a" THEN written ELSE 0],
     flight    |-> [e \in Ends |-> IF e = "b" THEN forth ELSE back],
     closers   |-> closers,
     resetters |-> resetters]

\* Data and FIN overtake each other; stale acks come after new ones; resets cross closes.
FourUses ==
    {Use(3, 2, 1, {"a"}, {}), Use(1, 2, 1, Ends, {}), Use(4, 1, 2, {}, {}), Use(1, 1, 1, Ends, Ends)}

=============================================================================
