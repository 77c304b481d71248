------------------------------- MODULE Stream -------------------------------
(***************************************************************************)
(* One end of a reliable stream: StreamState of crates/transport/src/       *)
(* stream.rs as a record, and its methods as operators on that record.      *)
(*                                                                         *)
(* The byte at an offset never changes once written, so data is modelled    *)
(* by its offsets, and the segments a Reassembler holds by the set of       *)
(* offsets in them; module Reassembly is about the bytes.  The RTO timer is *)
(* armed or not, and whether an armed timer is due is the caller's choice;  *)
(* module StreamTiming is about the arithmetic of RTT and RTO.             *)
(***************************************************************************)
EXTENDS Integers, FiniteSets

CONSTANTS DEFAULT_WINDOW,       \* receive window, in bytes
          MAX_STREAM_CHUNK,     \* payload of a StreamData frame
          INIT_CWND,            \* first congestion window, in bytes
          CLOSE_GRACE_TICKS     \* polls to wait for a FIN after a StreamClose

ASSUME StreamAssumption ==
    /\ DEFAULT_WINDOW \in Nat \ {0} /\ MAX_STREAM_CHUNK \in Nat \ {0}
    /\ INIT_CWND \in MAX_STREAM_CHUNK .. DEFAULT_WINDOW
    /\ CLOSE_GRACE_TICKS \in Nat \ {0}

MSS == MAX_STREAM_CHUNK
MinOf(m, n) == IF m <= n THEN m ELSE n
MaxOf(m, n) == IF m >= n THEN m ELSE n

\* HalfState::Open; HalfState::Finished(at) is the offset `at`.
StillOpen == -1

DataFrame(offset, len, fin) == [type |-> "data", offset |-> offset, len |-> len, fin |-> fin]
AckFrame(ack, window) == [type |-> "ack", ack |-> ack, window |-> window]
OpenFrame == [type |-> "open"]
CloseFrame == [type |-> "close"]
ResetFrame == [type |-> "reset"]

\* StreamState::new.  close_status is Some exactly when send_fin is set (mux close).
NewStream(needs_open) ==
    [needs_open |-> needs_open,
     send_base |-> 0, send_high |-> 0, send_next |-> 0,
     peer_window |-> DEFAULT_WINDOW, cwnd |-> INIT_CWND, ssthresh |-> DEFAULT_WINDOW,
     armed |-> FALSE,
     send_fin |-> FALSE, fin_sent |-> FALSE, fin_acked |-> FALSE,
     delivered |-> 0, segs |-> {}, peer_fin |-> StillOpen,
     close_received |-> FALSE, close_ticks |-> 0, reset |-> FALSE]

\* Reassembler::ack_point and unread.
AckPoint(s) ==
    CHOOSE n \in s.delivered .. s.delivered + Cardinality(s.segs) :
        n \notin s.segs /\ s.delivered .. n - 1 \subseteq s.segs

Unread(s) == AckPoint(s) - s.delivered

\* Reassembler::insert: the already delivered prefix is dropped.
Insert(s, offset, len) ==
    [s EXCEPT !.segs = @ \cup {k \in offset .. offset + len - 1 : k >= s.delivered}]

\* Reassembler::read.
ReadAll(s) ==
    [s EXCEPT !.delivered = AckPoint(s), !.segs = @ \ (s.delivered .. AckPoint(s) - 1)]

\* The end of the stream is known and everything up to it has been read.
RecvFinished(s) ==
    s.peer_fin # StillOpen /\ s.delivered >= s.peer_fin /\ Unread(s) = 0

\* StreamState::fully_done.
\* Mutant: unread data is not waited for.
FullyDoneUnread(s) ==
    s.send_fin /\ \/ s.fin_acked /\ s.peer_fin # StillOpen
                  \/ s.close_received /\ s.close_ticks >= CLOSE_GRACE_TICKS

FullyDone(s) ==
    s.send_fin /\ \/ s.fin_acked /\ RecvFinished(s)
                  \/ s.close_received /\ s.close_ticks >= CLOSE_GRACE_TICKS

\* The StreamData arm of on_frame.
\* Mutant: no window check.
OnDataNoWindow(s, f) ==
    Insert([s EXCEPT !.peer_fin = IF f.fin /\ @ = StillOpen THEN f.offset + f.len ELSE @],
           f.offset, f.len)

OnData(s, f) ==
    IF f.offset > s.delivered + DEFAULT_WINDOW
    THEN s
    ELSE Insert([s EXCEPT !.peer_fin = IF f.fin /\ @ = StillOpen THEN f.offset + f.len ELSE @],
                f.offset, f.len)

\* grow_cwnd for `acked` bytes: slow start below ssthresh, congestion avoidance above.
GrowCwnd(s, acked) ==
    MinOf(s.cwnd + (IF s.cwnd < s.ssthresh THEN MinOf(acked, MSS) ELSE MaxOf((MSS * MSS) \div s.cwnd, 1)),
          DEFAULT_WINDOW)

\* StreamState::on_ack.
OnAck(s, f) ==
    LET base == MaxOf(s.send_base, f.ack)
        high == MaxOf(s.send_high, base)
        moved == f.ack > s.send_base
    IN  IF f.ack > s.send_next
        THEN s
        ELSE [s EXCEPT !.peer_window = f.window,
                       !.send_base = base,
                       !.send_high = high,
                       !.cwnd = IF moved THEN GrowCwnd(s, base - s.send_base) ELSE @,
                       !.armed = IF moved THEN base < high ELSE @,
                       !.fin_acked = @ \/ (s.send_fin /\ s.fin_sent /\ f.ack >= s.send_next)]

-----------------------------------------------------------------------------
\* StreamState::transmit.

\* How far new data may go: flow control and congestion control.
SendEnd(s) == MinOf(s.send_next, s.send_base + MinOf(s.peer_window, s.cwnd))

SendsNew(s) == s.send_high < SendEnd(s)

\* Mutant: what was sent once is never sent again.
RetransmitsNever(s, due) == FALSE

Retransmits(s, due) == ~SendsNew(s) /\ s.send_base < s.send_high /\ due
SendsEmptyFin(s, due) ==
    /\ ~SendsNew(s) /\ s.send_base = s.send_high
    /\ s.send_fin /\ ~s.fin_acked /\ s.send_next = s.send_base
    /\ (~s.fin_sent \/ due)

\* emit_range: [from, to) in chunks, FIN on the one that reaches send_next.
EmitRange(s, from, to) ==
    {DataFrame(o, MinOf(MAX_STREAM_CHUNK, to - o),
               s.send_fin /\ MinOf(o + MAX_STREAM_CHUNK, to) = s.send_next /\ ~s.fin_acked) :
        o \in {k \in from .. to - 1 : (k - from) % MAX_STREAM_CHUNK = 0}}

DataFrames(s, due) ==
    CASE SendsNew(s)           -> EmitRange(s, s.send_high, SendEnd(s))
      [] Retransmits(s, due)   -> EmitRange(s, s.send_base, s.send_high)
      [] SendsEmptyFin(s, due) -> {DataFrame(s.send_next, 0, TRUE)}
      [] OTHER                 -> {}

\* Everything a poll of this stream sends.
\* Mutant: the ack counts the bytes received, holes or not.
FramesAckCount(s, due) ==
    DataFrames(s, due) \cup {AckFrame(s.delivered + Cardinality(s.segs), DEFAULT_WINDOW)}
      \cup (IF s.needs_open THEN {OpenFrame} ELSE {})

Frames(s, due) ==
    DataFrames(s, due)
      \cup (IF s.needs_open THEN {OpenFrame} ELSE {})
      \cup {AckFrame(AckPoint(s), DEFAULT_WINDOW - MinOf(Unread(s), DEFAULT_WINDOW))}
      \cup (IF s.send_fin /\ ~s.fin_acked THEN {CloseFrame} ELSE {})

\* The state it leaves behind (on_rto included, its RTO backoff apart); close_ticks
\* stops counting at the grace period.
\* Mutant: StreamOpen goes out with every poll.
TransmittedKeepsOpen(s, due) ==
    [s EXCEPT !.send_high = IF SendsNew(s) THEN SendEnd(s) ELSE @,
              !.fin_sent = @ \/ (\E f \in DataFrames(s, due) : f.fin),
              !.armed = @ \/ DataFrames(s, due) # {}]

Transmitted(s, due) ==
    [s EXCEPT !.needs_open = FALSE,
              !.send_high = IF SendsNew(s) THEN SendEnd(s) ELSE @,
              !.fin_sent = @ \/ (\E f \in DataFrames(s, due) : f.fin),
              !.armed = @ \/ DataFrames(s, due) # {},
              !.cwnd = IF Retransmits(s, due) THEN MSS ELSE @,
              !.ssthresh = IF Retransmits(s, due) THEN MaxOf(s.cwnd \div 2, 2 * MSS) ELSE @,
              !.close_ticks =
                  IF s.close_received /\ s.send_fin /\ s.peer_fin = StillOpen
                  THEN MinOf(@ + 1, CLOSE_GRACE_TICKS) ELSE @]

=============================================================================
