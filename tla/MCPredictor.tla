---------------------------- MODULE MCPredictor ----------------------------
(***************************************************************************)
(* Instances of Predictor for TLC.                                         *)
(***************************************************************************)
EXTENDS Predictor

\* A program alone, on a terminal whose user resizes it; a user alone, with every key, and
\* with plain text only; and both together.  Two short lines, so that
\* text wraps, and scrolls once there are seven characters.
ServerUserAndBoth ==
    {[ops |-> 6, typed |-> 0, keys |-> {}, sizes |-> {<<2, 2>>, <<1, 3>>}],
     [ops |-> 5, typed |-> 0, keys |-> {}, sizes |-> {<<3, 2>>}],
     [ops |-> 0, typed |-> 5, keys |-> {"enter", "del", "ctl"}, sizes |-> {<<2, 3>>}],
     [ops |-> 0, typed |-> 7, keys |-> {}, sizes |-> {<<2, 3>>}],
     [ops |-> 2, typed |-> 2, keys |-> {"del"}, sizes |-> {<<2, 3>>, <<2, 2>>}]}

=============================================================================
