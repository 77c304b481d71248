---------------------------- MODULE MCTransfer ----------------------------
(***************************************************************************)
(* An upload to a file and a download of it, at the same time.              *)
(***************************************************************************)
EXTENDS Transfer

=============================================================================
