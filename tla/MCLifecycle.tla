---------------------------- MODULE MCLifecycle ----------------------------
(***************************************************************************)
(* Two clients, with one key for both (so that one may reattach to the shell *)
(* of the other) or with a key each.                                        *)
(***************************************************************************)
EXTENDS Lifecycle

CONSTANTS c1, c2, alice, bob

OneKeyOrTwo == {[c \in Clients |-> alice], [c \in Clients |-> IF c = c1 THEN alice ELSE bob]}

============================================================================
