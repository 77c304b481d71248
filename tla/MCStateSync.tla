---------------------------- MODULE MCStateSync ----------------------------
(***************************************************************************)
(* State synchronisation of a two-cell screen that is either one row or     *)
(* two, with a resize and a reattach.                                      *)
(***************************************************************************)
EXTENDS StateSync

============================================================================
