------------------------------ MODULE BytePipe ------------------------------
(***************************************************************************)
(* What a stream promises its applications, for the two directions named   *)
(* by the end that writes: bytes are read in the order and the number they  *)
(* were written, none twice and none before it is written, and the end of   *)
(* the stream is reported only where the writer closed it and when all     *)
(* before it has been read.  It is reported sooner, and the reading is over, *)
(* only if one application aborted the stream or both have closed it: the   *)
(* reader is not told which end it is.  StreamMux implements it.            *)
(***************************************************************************)
EXTENDS Naturals

CONSTANT Writers

VARIABLES written,      \* written[e]: bytes written so far
          closed,       \* closed[e]: e has closed its half
          read,         \* read[e]: bytes of e's that the other end has read
          ended,        \* ended[e]: the other end has been told that there are no more
                        \* ("end"), or has been and there are ("cut"), or not ("no")
          aborted       \* an application has reset the stream

pipeVars == <<written, closed, read, ended, aborted>>

Init ==
    /\ written = [e \in Writers |-> 0] /\ closed = [e \in Writers |-> FALSE]
    /\ read = [e \in Writers |-> 0] /\ ended = [e \in Writers |-> "no"]
    /\ aborted = FALSE

Write(e) ==
    /\ ~closed[e]
    /\ written' = [written EXCEPT ![e] = @ + 1]
    /\ UNCHANGED <<closed, read, ended, aborted>>

Close(e) ==
    /\ closed' = [closed EXCEPT ![e] = TRUE]
    /\ UNCHANGED <<written, read, ended, aborted>>

\* The end may be reported with the last bytes or by itself later.
Read(e) ==
    /\ ended[e] = "no"
    /\ \E n \in read[e] + 1 .. written[e] :
          /\ read' = [read EXCEPT ![e] = n]
          /\ \/ UNCHANGED ended
             \/ closed[e] /\ n = written[e] /\ ended' = [ended EXCEPT ![e] = "end"]
    /\ UNCHANGED <<written, closed, aborted>>

End(e) ==
    /\ ended[e] = "no"
    /\ closed[e] /\ read[e] = written[e]
    /\ ended' = [ended EXCEPT ![e] = "end"]
    /\ UNCHANGED <<written, closed, read, aborted>>

Abort ==
    /\ aborted' = TRUE
    /\ UNCHANGED <<written, closed, read, ended>>

CutShort(e) ==
    /\ ended[e] = "no"
    /\ aborted \/ \A w \in Writers : closed[w]
    /\ ended' = [ended EXCEPT ![e] = "cut"]
    /\ UNCHANGED <<written, closed, read, aborted>>

Next == Abort \/ \E e \in Writers : Write(e) \/ Close(e) \/ Read(e) \/ End(e) \/ CutShort(e)

Spec == Init /\ [][Next]_pipeVars

=============================================================================
