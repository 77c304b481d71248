----------------------------- MODULE MCForward -----------------------------
(***************************************************************************)
(* A forwarded connection with buffers of one or two bytes; and, apart from *)
(* it, a driver with two sessions, the second of which may take over the    *)
(* first one's shell.                                                       *)
(***************************************************************************)
EXTENDS Forward, Listeners

VARIABLE part

OneUpThreeDown == [e \in Ends |-> IF e = "client" THEN 1 ELSE 3]
ThreeUses == {{"remote"}, {"agent", "local"}, {"exec", "file"}}

Init ==
    /\ part \in {"connection", "driver"}
    /\ ForwardInit /\ ListenersInit
    \* what the other part starts with makes no difference
    /\ part = "connection" => ~user /\ uses = {"remote"}
    /\ part = "driver" => \A e \in Ends : app[e].reads /\ app[e].wrote = 0

Next ==
    /\ UNCHANGED part
    /\ \/ part = "connection" /\ ForwardNext /\ UNCHANGED listenersVars
       \/ part = "driver" /\ ListenersNext /\ UNCHANGED forwardVars

Spec ==
    /\ Init /\ [][Next]_<<part, forwardVars, listenersVars>>
    /\ part = "connection" => ForwardFairness

============================================================================
