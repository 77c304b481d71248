------------------------------ MODULE StreamMux ------------------------------
(***************************************************************************)
(* A stream between the two StreamMux ends of a session, over a network     *)
(* that loses and reorders frames.  "a" opens it, "b" accepts it.           *)
(*                                                                         *)
(* A frame is sealed once, so it arrives at most once (module Session); it  *)
(* may be sent again.  At most flight[e] frames are in flight towards e: a  *)
(* poll loses any of the frames in flight and of its own, and at least      *)
(* those beyond flight[e].                                                  *)
(*                                                                         *)
(* The applications write, close, reset and read as they like, but write    *)
(* no more once they have closed, as all the drivers do.                   *)
(***************************************************************************)
EXTENDS Stream

CONSTANT Uses             \* what the applications and the network may do

Ends == {"a", "b"}
Peer(e) == IF e = "a" THEN "b" ELSE "a"

\* A use bounds the bytes each end writes and the frames in flight towards it, and says
\* whose application closes the stream and whose may reset it.
ASSUME UsesAssumption ==
    \A u \in Uses : /\ u.writes \in [Ends -> Nat] /\ u.flight \in [Ends -> Nat \ {0}]
                    /\ u.closers \subseteq Ends /\ u.resetters \subseteq Ends

VARIABLES use,            \* the use made of this stream
          stream,         \* stream[e]: the StreamState at e (its last one, when gone)
          status,         \* status[e]: "none" before it is in e's map, "live" in it, and
                          \* how it left: "done", "grace" or "reset"
          net             \* net[e]: the frames in flight towards e

vars == <<use, stream, status, net>>

Init ==
    /\ use \in Uses
    /\ stream = [e \in Ends |-> NewStream(e = "a")]
    /\ status = [e \in Ends |-> "none"]
    /\ net = [e \in Ends |-> {}]

\* StreamMux::open
OpenStream ==
    /\ status["a"] = "none"
    /\ status' = [status EXCEPT !["a"] = "live"]
    /\ UNCHANGED <<use, stream, net>>

\* StreamMux::write, a byte at a time
Write(e) ==
    /\ status[e] = "live"
    /\ ~stream[e].send_fin /\ stream[e].send_next < use.writes[e]
    /\ stream' = [stream EXCEPT ![e].send_next = @ + 1]
    /\ UNCHANGED <<use, status, net>>

\* StreamMux::close
Close(e) ==
    /\ e \in use.closers
    /\ status[e] = "live" /\ ~stream[e].send_fin
    /\ stream' = [stream EXCEPT ![e].send_fin = TRUE]
    /\ UNCHANGED <<use, status, net>>

\* StreamMux::reset
Reset(e) ==
    /\ e \in use.resetters
    /\ status[e] = "live" /\ ~stream[e].reset
    /\ stream' = [stream EXCEPT ![e].reset = TRUE]
    /\ UNCHANGED <<use, status, net>>

\* StreamMux::read
Read(e) ==
    /\ status[e] = "live" /\ Unread(stream[e]) > 0
    /\ stream' = [stream EXCEPT ![e] = ReadAll(@)]
    /\ UNCHANGED <<use, status, net>>

\* StreamMux::on_frame.  Frames of a stream that is not in the map are ignored.
OnFrame(e, f) ==
    /\ f \in net[e]
    /\ net' = [net EXCEPT ![e] = @ \ {f}]
    /\ UNCHANGED use
    /\ CASE status[e] # "live" /\ f.type = "open" ->
              /\ status' = [status EXCEPT ![e] = "live"]
              /\ stream' = [stream EXCEPT ![e] = NewStream(FALSE)]
         [] status[e] # "live" /\ f.type # "open" ->
              UNCHANGED <<status, stream>>
         [] status[e] = "live" ->
              /\ stream' = [stream EXCEPT ![e] =
                     CASE f.type = "data"  -> OnData(@, f)
                       [] f.type = "ack"   -> OnAck(@, f)
                       [] f.type = "close" -> [@ EXCEPT !.close_received = TRUE]
                       [] f.type = "reset" -> [@ EXCEPT !.reset = TRUE]
                       [] f.type = "open"  -> @]
              /\ UNCHANGED status

\* What is left of the frames in flight towards e once `sent` joins them.
Deliverable(e, sent) ==
    {kept \in SUBSET (net[e] \cup sent) : Cardinality(kept) <= use.flight[e]}

\* StreamMux::poll_transmit: a reset stream sends StreamReset and is gone; another
\* transmits, and is gone when it is fully done.
PollTransmit(e, due) ==
    LET s == stream[e]
        after == Transmitted(s, due)
    IN  /\ status[e] = "live"
        /\ due \/ s.armed
        /\ UNCHANGED use
        /\ IF s.reset
           THEN /\ status' = [status EXCEPT ![e] = "reset"]
                /\ UNCHANGED stream
                /\ \E kept \in Deliverable(Peer(e), {ResetFrame}) :
                       net' = [net EXCEPT ![Peer(e)] = kept]
           ELSE /\ stream' = [stream EXCEPT ![e] = after]
                /\ status' = IF ~FullyDone(after) THEN status
                             ELSE [status EXCEPT ![e] =
                                      IF after.close_ticks >= CLOSE_GRACE_TICKS THEN "grace" ELSE "done"]
                /\ \E kept \in Deliverable(Peer(e), Frames(s, due)) :
                       net' = [net EXCEPT ![Peer(e)] = kept]

Next ==
    \/ OpenStream
    \/ \E e \in Ends : Write(e) \/ Close(e) \/ Reset(e) \/ Read(e)
    \/ \E e \in Ends : \E f \in net[e] : OnFrame(e, f)
    \/ \E e \in Ends, due \in BOOLEAN : PollTransmit(e, due)

Spec == Init /\ [][Next]_vars

-----------------------------------------------------------------------------

\* A sender forgets a byte only when the receiver has it: nothing on_ack drains from
\* send_buf (stream.rs:263-266) is missing at the other end.
AckedIsReceived ==
    \A e \in Ends : stream[e].send_base <= AckPoint(stream[Peer(e)])

\* A receiver buffers at most the window and one chunk: what on_frame lets in
\* (stream.rs:561) bounds the memory a stream takes, in and out of order.
BufferBounded ==
    \A e \in Ends : Cardinality(stream[e].segs) <= DEFAULT_WINDOW + MAX_STREAM_CHUNK

\* Both: every byte is held by one end until the other has it, and none holds too many.
BuffersExact == AckedIsReceived /\ BufferBounded

\* A stream that left the map, by a reset, by the grace period or done, does not come
\* back: no StreamOpen still in flight (stream.rs:370-377, 543-546) opens its id again.
NeverReborn ==
    [][\A e \in Ends : status[e] \in {"done", "grace", "reset"} => status'[e] = status[e]]_vars

\* What is_recv_finished tells e's application: that Peer(e)'s bytes have ended, all of
\* them read, or, of any stream that was there and is gone (stream.rs:525), the same.  It
\* is gone as fully done, after the end it got to, or by the grace period or a reset,
\* which may cut it short.
ToldOfEnd(e) ==
    IF RecvFinished(stream[e]) \/ status[e] = "done" THEN "end"
    ELSE IF status[e] \in {"grace", "reset"} THEN "cut" ELSE "no"

Pipe == INSTANCE BytePipe WITH
            Writers <- Ends,
            written <- [e \in Ends |-> stream[e].send_next],
            closed  <- [e \in Ends |-> stream[e].send_fin],
            read    <- [e \in Ends |-> stream[Peer(e)].delivered],
            ended   <- [e \in Ends |-> ToldOfEnd(Peer(e))],
            aborted <- \E e \in Ends : stream[e].reset

\* "Reliable" streams (ARCHITECTURE.md, stream.rs:1-12): whatever is lost, reordered,
\* sent again, reset or reclaimed, the two ends implement a pipe of bytes each way.  A
\* reader is told of the end where the writer closed it and not before it is read, except
\* that a reset by either application, or the grace period once both have closed, may tell
\* it sooner (is_recv_finished of a stream that is gone, stream.rs:519-527).
ImplementsPipe == Pipe!Spec

\* e's next two polls once Peer(e) has read all it has and its ack has come back: new
\* data goes first (stream.rs:388-406), what is missing is sent again in the poll after.
OfferedAfterAck(e) ==
    LET p == ReadAll(stream[Peer(e)])
        s == OnAck(stream[e], AckFrame(AckPoint(p), DEFAULT_WINDOW))
    IN  DataFrames(s, TRUE) \cup DataFrames(Transmitted(s, TRUE), TRUE)

\* No stream is ever stuck: whatever was lost, reordered or advertised before, one
\* ack that gets back and two polls after the timer is due offer the receiver the very
\* next byte it waits for, and it takes it.
RoundTripProgresses ==
    \A e \in Ends :
        LET p == ReadAll(stream[Peer(e)])
        IN  (\A x \in Ends : status[x] = "live" /\ ~stream[x].reset)
              /\ AckPoint(p) < stream[e].send_next
              => \E f \in OfferedAfterAck(e) : AckPoint(OnData(p, f)) > AckPoint(p)

=============================================================================
