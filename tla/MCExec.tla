------------------------------- MODULE MCExec -------------------------------
(***************************************************************************)
(* Three commands: one with more input than its pipe holds, one that writes *)
(* a byte of output, and errors up to the server's cap on what is in        *)
(* flight, and one with input and output.                                   *)
(***************************************************************************)
EXTENDS Exec

Use(stdin, out, err) == [stdin |-> stdin, output |-> [k \in Outputs |-> IF k = "out" THEN out ELSE err]]

Commands == {Use(3, 0, 0), Use(0, 1, 2), Use(1, 1, 0)}

=============================================================================
