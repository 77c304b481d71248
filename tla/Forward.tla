------------------------------ MODULE Forward ------------------------------
(***************************************************************************)
(* A forwarded connection (-L, -R, -D, -A): at each end a ForwardConn       *)
(* (src/forward.rs) pairs a socket with a session stream, and a driver      *)
(* pumps it: Forwarder::pump and pump_agent of src/client.rs, pump_forwards *)
(* of src/server.rs, which are the same loop.                               *)
(*                                                                         *)
(* Bytes are counted.  A stream is what module StreamMux promises: bytes    *)
(* arrive in order, as far as the receive window allows, are acknowledged   *)
(* as they arrive, and StreamClose arrives on its own, whatever data is     *)
(* still on its way.  The client accepted the connection and the server is  *)
(* told of the stream; with -R and -A the two swap roles.                   *)
(***************************************************************************)
EXTENDS Naturals

CONSTANTS SEND_CAP,             \* bytes out and unacknowledged before the driver holds back
          FLUSH_STALL_LIMIT,
          WINDOW,               \* receive window of a stream
          SocketRoom,           \* what a socket takes before write would block
          MaxBytes              \* bound: MaxBytes[e] bytes from the application at e

Ends == {"client", "server"}
Peer(e) == IF e = "client" THEN "server" ELSE "client"

ASSUME ForwardAssumption ==
    /\ SEND_CAP \in Nat \ {0} /\ FLUSH_STALL_LIMIT \in Nat \ {0} /\ WINDOW \in Nat \ {0}
    /\ SocketRoom \in Nat \ {0} /\ MaxBytes \in [Ends -> Nat]

VARIABLES conn,         \* conn[e]: the ForwardConn; wrote counts the bytes its socket took
          app,          \* app[e]: the application behind the socket
          stream        \* stream[e]: the direction from e to its peer

forwardVars == <<conn, app, stream>>

\* ForwardConn::from_stream
NewConn == [status |-> "live", out |-> 0, wrote |-> 0, read_closed |-> FALSE, peer_closed |-> FALSE,
            fin_sent |-> FALSE, dead |-> FALSE, flush_stall |-> 0]

Live(e) == conn[e].status = "live"

\* Forwarder::accept has made the client's ForwardConn, of a connection just accepted or
\* of one whose SOCKS negotiation is over (module Socks): what the application sent behind
\* its request was written to the stream first.  The server has yet to connect out.  An
\* application reads what it is sent, or never does.
ForwardInit ==
    /\ conn = [e \in Ends |-> IF e = "client" THEN NewConn ELSE [NewConn EXCEPT !.status = "none"]]
    /\ \E readers \in SUBSET Ends, leftover \in 0 .. MaxBytes["client"] :
         LET early(e) == IF e = "client" THEN leftover ELSE 0 IN
         /\ app = [e \in Ends |-> [wrote |-> early(e), taken |-> early(e), shut |-> FALSE, used |-> 0,
                                   broken |-> FALSE, reads |-> e \in readers]]
         /\ stream = [e \in Ends |-> [written |-> early(e), arrived |-> 0, read |-> 0, fin |-> FALSE,
                                      close |-> "none"]]

-----------------------------------------------------------------------------
\* ForwardConn.

Fewer(m, n) == IF m <= n THEN m ELSE n

\* A write that would block counts against the connection.
\* Mutant: it does not.
StalledPatiently(c) == c

Stalled(c) ==
    IF c.flush_stall + 1 >= FLUSH_STALL_LIMIT
    THEN [c EXCEPT !.flush_stall = @ + 1, !.dead = TRUE, !.out = 0]
    ELSE [c EXCEPT !.flush_stall = @ + 1]

\* flush, towards application a.
Flush(c, a) ==
    LET n == Fewer(c.out, SocketRoom - (c.wrote - a.used))
        after == [c EXCEPT !.out = @ - n, !.wrote = @ + n,
                           !.flush_stall = IF n > 0 THEN 0 ELSE @]
    IN  IF c.out = 0 \/ c.dead THEN c
        ELSE IF a.broken THEN [c EXCEPT !.dead = TRUE, !.out = 0]
        ELSE IF after.out = 0 THEN after ELSE Stalled(after)

\* The bytes the driver reads from the stream: all there are, if the buffer is not full.
Drainable(c, unread) == IF c.out < SEND_CAP THEN unread ELSE 0

\* queue_to_tcp
\* Mutant: it overwrites what is still buffered.
QueueOver(c, n, a) == IF n = 0 THEN c ELSE Flush([c EXCEPT !.out = n], a)

Queue(c, n, a) == IF n = 0 THEN c ELSE Flush([c EXCEPT !.out = @ + n], a)

\* read_tcp: all there is, then the end of the file or the error.
\* Mutant: nothing more once the peer has closed its half.
ReadsTcpWhileOpen(c, in_flight) ==
    in_flight < SEND_CAP /\ ~c.read_closed /\ ~c.dead /\ ~c.peer_closed

ReadsTcp(c, in_flight) == in_flight < SEND_CAP /\ ~c.read_closed /\ ~c.dead

AfterRead(c, a) ==
    [c EXCEPT !.read_closed = @ \/ (a.shut /\ ~a.broken), !.dead = @ \/ a.broken]

\* needs_fin
\* Mutant: a FIN as soon as the peer is done.
NeedsFinEither(c) == (c.read_closed \/ c.peer_closed) /\ ~c.fin_sent

NeedsFin(c) == c.read_closed /\ ~c.fin_sent

IsFinished(c) == c.dead \/ (c.read_closed /\ c.peer_closed /\ c.out = 0)

-----------------------------------------------------------------------------
\* The drivers.

\* The events: the server connects out on Opened, or closes the stream when it cannot;
\* Closed marks the connection.
AfterEvents(e, connects) ==
    LET c == IF conn[e].status # "none" THEN conn[e]
             ELSE [NewConn EXCEPT !.status = IF connects THEN "live" ELSE "gone"]
    IN  IF c.status = "live" /\ stream[Peer(e)].close = "event"
        THEN [c EXCEPT !.peer_closed = TRUE] ELSE c

\* The second half of a round, with drained bytes just read from the stream: in from the
\* socket, half-close, reclaim.
ReadAndReclaim(e, c, drained) ==
    LET reads == ReadsTcp(c, stream[e].written - stream[e].arrived)
        got == IF reads /\ ~app[e].broken THEN app[e].wrote - app[e].taken ELSE 0
        read == IF reads THEN AfterRead(c, app[e]) ELSE c
        fin == NeedsFin(read)
        done == [read EXCEPT !.fin_sent = @ \/ fin]
    IN  /\ conn' = [conn EXCEPT ![e] = IF IsFinished(done) THEN [done EXCEPT !.status = "gone"] ELSE done]
        /\ app' = [app EXCEPT ![e].taken = @ + got]
        /\ stream' = [stream EXCEPT ![e].written = @ + got,
                                    ![e].fin = @ \/ fin,
                                    ![Peer(e)].read = @ + drained,
                                    ![Peer(e)].close = IF @ = "event" THEN "seen" ELSE @]

\* One round of a live connection: out to the socket, then the rest.
PumpLive(e, c) ==
    \E flushed \in {Flush(c, app[e])} :
    \E drained \in {Drainable(flushed, stream[Peer(e)].arrived - stream[Peer(e)].read)} :
    \E queued \in {Queue(flushed, drained, app[e])} : ReadAndReclaim(e, queued, drained)

Pump(e) ==
    \E connects \in BOOLEAN :
        LET c == AfterEvents(e, connects) IN
        IF c.status = "live" THEN PumpLive(e, c)
        ELSE /\ conn' = [conn EXCEPT ![e] = c]
             /\ stream' = [stream EXCEPT ![e].fin = @ \/ conn[e].status = "none",
                                         ![Peer(e)].close = IF @ = "event" THEN "seen" ELSE @]
             /\ UNCHANGED app

\* The stream.
Arrive(e) ==
    /\ stream[e].arrived < stream[e].written
    /\ stream[e].arrived - stream[e].read < WINDOW
    /\ stream' = [stream EXCEPT ![e].arrived = @ + 1]
    /\ UNCHANGED <<conn, app>>

CloseArrives(e) ==
    /\ stream[e].fin /\ stream[e].close = "none"
    /\ stream' = [stream EXCEPT ![e].close = "event"]
    /\ UNCHANGED <<conn, app>>

\* The applications.
AppWrites(e) ==
    /\ Live(e) /\ app[e].wrote < MaxBytes[e] /\ ~app[e].shut /\ ~app[e].broken
    /\ app' = [app EXCEPT ![e].wrote = @ + 1]
    /\ UNCHANGED <<conn, stream>>

AppShutsDown(e) ==
    /\ Live(e) /\ ~app[e].shut
    /\ app' = [app EXCEPT ![e].shut = TRUE]
    /\ UNCHANGED <<conn, stream>>

AppReads(e) ==
    /\ app[e].reads /\ app[e].used < conn[e].wrote
    /\ app' = [app EXCEPT ![e].used = @ + 1]
    /\ UNCHANGED <<conn, stream>>

SocketBreaks(e) ==
    /\ Live(e) /\ ~app[e].broken
    /\ app' = [app EXCEPT ![e].broken = TRUE]
    /\ UNCHANGED <<conn, stream>>

ForwardNext ==
    \E e \in Ends :
        Pump(e) \/ Arrive(e) \/ CloseArrives(e)
          \/ AppWrites(e) \/ AppShutsDown(e) \/ AppReads(e) \/ SocketBreaks(e)

ForwardSpec == ForwardInit /\ [][ForwardNext]_forwardVars

\* The drivers keep pumping, streams deliver, and applications that read keep reading.
ForwardFairness ==
    /\ \A e \in Ends : WF_forwardVars(Pump(e))
    /\ WF_forwardVars(\E e \in Ends : Arrive(e) \/ AppReads(e))

ForwardFairSpec == ForwardSpec /\ ForwardFairness

-----------------------------------------------------------------------------

\* The FIN of a direction follows everything the application wrote before it shut its
\* side down: read_tcp hands over the last bytes together with the end of the file
\* (forward.rs:78-100, client.rs:1252-1261), however the caps hold the reading back.
FinIsComplete ==
    \A e \in Ends :
        conn[e].fin_sent => app[e].shut /\ stream[e].written = app[e].wrote

\* While a connection lives, every byte read from the session is in its buffer or with
\* the socket.
NothingLostWhileLive ==
    \A e \in Ends : Live(e) => conn[e].out + conn[e].wrote = stream[Peer(e)].read

\* Neither direction loses a byte while the connection lives, nor ends short of what its
\* application wrote.
BothWaysWhole == FinIsComplete /\ NothingLostWhileLive

\* Nothing waits for ever: as long as both ends live and the receiver reads, all that
\* an application writes reaches the other, whatever the caps and the window hold back.
DataFlows ==
    []<>(\/ \E d \in Ends : conn[d].status = "gone"
         \/ \A e \in Ends : app[Peer(e)].reads => conn[Peer(e)].wrote = app[e].wrote)

\* "so a permanently-stuck peer can't leak the connection forever" (forward.rs:119-120):
\* buffered output is written or, after FLUSH_STALL_LIMIT attempts without progress, the
\* connection is given up.
OutputDrainsOrDies ==
    []<>(\A e \in Ends : conn[e].out = 0 \/ conn[e].status = "gone")

============================================================================
