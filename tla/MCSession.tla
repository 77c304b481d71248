----------------------------- MODULE MCSession -----------------------------
(***************************************************************************)
(* Two addresses, two moves, a window of two packets and four packets in    *)
(* each direction: the client can move away and back with packets of both   *)
(* addresses still in flight.                                              *)
(***************************************************************************)
EXTENDS Session

============================================================================
