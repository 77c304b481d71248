--------------------------- MODULE StreamMuxProofs ---------------------------
(***************************************************************************)
(* For every window, chunk, congestion window, grace period and use: the    *)
(* two ends of a stream never lose a byte, never buffer too much, never     *)
(* reopen a stream that is gone, and implement the pipe of BytePipe.        *)
(*                                                                         *)
(* The argument goes in three layers: what the methods of StreamState do to *)
(* a record (AckPointFacts to TransmittedFacts), what a step of one end     *)
(* leaves true of both (LiveStep, and one lemma per action), and which step *)
(* of the pipe it is (the Refines lemmas).                                  *)
(***************************************************************************)
EXTENDS StreamMux, FiniteSetTheorems, WellFoundedInduction, TLAPS

\* Every nonempty set of natural numbers has a least element.
LEMMA LeastElement ==
    ASSUME NEW T \in SUBSET Nat, T # {}
    PROVE  \E x \in T : \A y \in T : x <= y
  <1>1. PICK x \in T : \A y \in T : ~ (<<y, x>> \in OpToRel(<, Nat))
    <2> DEFINE R == OpToRel(<, Nat)
    <2>1. IsWellFoundedOn(R, Nat)
      BY NatLessThanWellFounded, Zenon
    <2> HIDE DEF R
    <2>2. \E x \in T : \A y \in T : ~ (<<y, x>> \in R)
      BY <2>1, WFMin, Zenon
    <2>3. QED
      BY <2>2, Zenon DEF R
  <1>2. \A y \in T : ~ (y < x)
    BY <1>1, Zenon DEF OpToRel
  <1>3. QED
    BY <1>2

\* A receiver's buffer: what it holds is within the window and one chunk of what it has
\* handed over.
BufferOK(s) ==
    /\ s.delivered \in Nat
    /\ s.segs \subseteq s.delivered .. s.delivered + DEFAULT_WINDOW + MAX_STREAM_CHUNK - 1

\* Such a buffer is finite and no larger than that.
LEMMA BufferSize ==
    ASSUME NEW s, BufferOK(s)
    PROVE  /\ IsFiniteSet(s.segs) /\ Cardinality(s.segs) \in Nat
           /\ Cardinality(s.segs) <= DEFAULT_WINDOW + MAX_STREAM_CHUNK
  <1> DEFINE lo == s.delivered
             hi == s.delivered + DEFAULT_WINDOW + MAX_STREAM_CHUNK - 1
  <1>1. lo \in Int /\ hi \in Int /\ ~(lo > hi) /\ hi - lo + 1 = DEFAULT_WINDOW + MAX_STREAM_CHUNK
    BY StreamAssumption DEF BufferOK
  <1>2. s.segs \in SUBSET (lo .. hi)
    BY DEF BufferOK
  <1> HIDE DEF lo, hi
  <1>3. IsFiniteSet(lo .. hi) /\ Cardinality(lo .. hi) = DEFAULT_WINDOW + MAX_STREAM_CHUNK
    BY <1>1, FS_Interval
  <1>4. IsFiniteSet(s.segs) /\ Cardinality(s.segs) <= Cardinality(lo .. hi)
    BY <1>2, <1>3, FS_Subset, Zenon
  <1>5. QED
    BY <1>3, <1>4, FS_CardinalityType

\* ack_point is the first offset at or after `delivered` that is missing.
LEMMA AckPointFacts ==
    ASSUME NEW s, BufferOK(s)
    PROVE  /\ AckPoint(s) \in Nat /\ s.delivered <= AckPoint(s)
           /\ AckPoint(s) \notin s.segs
           /\ \A k \in Nat : s.delivered <= k /\ k < AckPoint(s) => k \in s.segs
  <1> DEFINE d == s.delivered
             c == Cardinality(s.segs)
             T == {n \in d .. d + c : n \notin s.segs}
  <1>1. d \in Nat /\ c \in Nat /\ IsFiniteSet(s.segs)
    BY BufferSize DEF BufferOK
  <1>2. T # {}
    <2> SUFFICES ASSUME T = {} PROVE FALSE
      OBVIOUS
    <2>1. d .. d + c \in SUBSET s.segs
      BY Zenon
    <2>2. Cardinality(d .. d + c) <= c
      BY <1>1, <2>1, FS_Subset
    <2>3. Cardinality(d .. d + c) = c + 1
      <3> HIDE DEF d, c
      <3>1. d \in Int /\ d + c \in Int /\ ~(d > d + c) /\ (d + c) - d + 1 = c + 1
        BY <1>1
      <3>2. QED
        BY <3>1, FS_Interval
    <2>4. QED
      BY <1>1, <2>2, <2>3
  <1>3. PICK m \in T : \A y \in T : m <= y
    <2>1. T \in SUBSET Nat
      BY <1>1
    <2> HIDE DEF T
    <2>2. QED
      BY <1>2, <2>1, LeastElement
  <1>4. m \in d .. d + c /\ m \notin s.segs /\ d .. m - 1 \subseteq s.segs
    <2>1. m \in d .. d + c /\ m \notin s.segs
      OBVIOUS
    <2>2. ASSUME NEW k \in d .. m - 1 PROVE k \in s.segs
      <3>1. k \in d .. d + c /\ ~(m <= k)
        BY <1>1, <2>1
      <3>2. k \notin T
        BY <1>3, <3>1
      <3>3. QED
        BY <3>1, <3>2
    <2>3. QED
      BY <2>1, <2>2
  <1>5. AckPoint(s) \in d .. d + c /\ AckPoint(s) \notin s.segs /\ d .. AckPoint(s) - 1 \subseteq s.segs
    BY <1>4, Zenon DEF AckPoint
  <1>6. QED
    <2> DEFINE n == AckPoint(s)
    <2>1. n \in d .. d + c /\ n \notin s.segs /\ d .. n - 1 \subseteq s.segs
      BY <1>5
    <2> HIDE DEF n
    <2>2. n \in Nat /\ d <= n
      BY <1>1, <2>1
    <2>3. \A k \in Nat : d <= k /\ k < n => k \in d .. n - 1
      BY <1>1, <2>2
    <2>4. QED
      BY <2>1, <2>2, <2>3 DEF n

\* More bytes move it forward only.
LEMMA AckPointGrows ==
    ASSUME NEW s, NEW t, BufferOK(s), BufferOK(t), t.delivered = s.delivered, s.segs \subseteq t.segs
    PROVE  AckPoint(s) <= AckPoint(t)
  BY AckPointFacts

-----------------------------------------------------------------------------

StreamStates ==
    [needs_open : BOOLEAN,
     send_base : Nat, send_high : Nat, send_next : Nat,
     peer_window : Nat, cwnd : Nat \ {0}, ssthresh : Nat,
     armed : BOOLEAN,
     send_fin : BOOLEAN, fin_sent : BOOLEAN, fin_acked : BOOLEAN,
     delivered : Nat, segs : SUBSET Nat, peer_fin : Nat \cup {StillOpen},
     close_received : BOOLEAN, close_ticks : Nat, reset : BOOLEAN]

DataFrameSet == [type : {"data"}, offset : Nat, len : 0 .. MAX_STREAM_CHUNK, fin : BOOLEAN]
AckFrameSet == [type : {"ack"}, ack : Nat, window : Nat]
FrameSet == DataFrameSet \cup AckFrameSet \cup [type : {"open", "close", "reset"}]

\* One direction, from the sender s to the receiver r: the sender holds every byte r
\* lacks, r has only bytes that were written, and an end only where s closed.
Way(s, r) ==
    /\ s.send_base <= s.send_high /\ s.send_high <= s.send_next
    /\ s.send_base <= AckPoint(r)
    /\ r.delivered <= s.send_next /\ \A k \in r.segs : k < s.send_next
    /\ r.peer_fin # StillOpen => s.send_fin /\ r.peer_fin = s.send_next

\* What a frame from an end in state s says is true of s, and stays so.
Truthful(f, s) ==
    /\ f.type = "data" => /\ f.offset + f.len <= s.send_next
                          /\ f.fin => s.send_fin /\ f.offset + f.len = s.send_next
    /\ f.type = "ack" => f.ack <= AckPoint(s)

\* A step of one end that takes nothing back.
Advances(s, t) ==
    /\ t \in StreamStates /\ BufferOK(t)
    /\ s.send_next <= t.send_next
    /\ s.send_fin => t.send_fin /\ t.send_next = s.send_next
    /\ AckPoint(s) <= AckPoint(t)
    /\ t.needs_open => s.needs_open

\* The receiver never has more than was written.
LEMMA AckPointBelow ==
    ASSUME NEW s \in StreamStates, NEW r, BufferOK(r), Way(s, r)
    PROVE  AckPoint(r) <= s.send_next
  <1>1. s.send_next \in Nat
    BY DEF StreamStates
  <1>2. QED
    BY <1>1, AckPointFacts DEF Way

LEMMA TruthfulStays ==
    ASSUME NEW s \in StreamStates, NEW t, Advances(s, t), BufferOK(s),
           NEW f \in FrameSet, Truthful(f, s)
    PROVE  Truthful(f, t)
  <1>1. /\ s.send_next \in Nat /\ t.send_next \in Nat /\ s.send_next <= t.send_next
        /\ s.send_fin => t.send_fin /\ t.send_next = s.send_next
    BY DEF StreamStates, Advances
  <1>2. AckPoint(s) \in Nat /\ AckPoint(t) \in Nat /\ AckPoint(s) <= AckPoint(t)
    BY AckPointFacts DEF Advances
  <1>3. ASSUME f.type = "data" PROVE f.offset \in Nat /\ f.len \in Nat
    BY <1>3, StreamAssumption DEF FrameSet, DataFrameSet, AckFrameSet
  <1>4. ASSUME f.type = "ack" PROVE f.ack \in Nat
    BY <1>4 DEF FrameSet, DataFrameSet, AckFrameSet
  <1>5. QED
    BY <1>1, <1>2, <1>3, <1>4 DEF Truthful

-----------------------------------------------------------------------------

\* Reading hands over what is contiguous, and frees the buffer of just that.
LEMMA ReadFacts ==
    ASSUME NEW s \in StreamStates, BufferOK(s), NEW p \in StreamStates, BufferOK(p),
           Way(s, p), Way(p, s)
    PROVE  Advances(s, ReadAll(s)) /\ Way(ReadAll(s), p) /\ Way(p, ReadAll(s))
  <1> DEFINE n == AckPoint(s)
             t == ReadAll(s)
  <1>1. /\ n \in Nat /\ s.delivered <= n /\ n <= p.send_next
        /\ s.delivered \in Nat /\ p.send_next \in Nat
    BY AckPointFacts, AckPointBelow DEF StreamStates
  <1>2. t = [s EXCEPT !.delivered = n, !.segs = s.segs \ (s.delivered .. n - 1)]
    BY DEF ReadAll
  <1> HIDE DEF n, t
  <1>3. t \in StreamStates
    BY <1>1, <1>2, Zenon DEF StreamStates
  <1>4. /\ t.delivered = n /\ t.segs = s.segs \ (s.delivered .. n - 1)
        /\ t.send_next = s.send_next /\ t.send_fin = s.send_fin /\ t.needs_open = s.needs_open
        /\ t.send_base = s.send_base /\ t.send_high = s.send_high /\ t.peer_fin = s.peer_fin
    BY <1>2 DEF StreamStates
  <1>5. BufferOK(t)
    <2>1. t.segs \subseteq s.delivered .. s.delivered + DEFAULT_WINDOW + MAX_STREAM_CHUNK - 1
      BY <1>4 DEF BufferOK
    <2>2. \A k \in t.segs : k \notin s.delivered .. n - 1
      BY <1>4
    <2>3. QED
      BY <1>1, <1>4, <2>1, <2>2, StreamAssumption DEF BufferOK
  <1>6. n <= AckPoint(t) /\ AckPoint(t) \in Nat
    BY <1>4, <1>5, AckPointFacts
  <1>7. Advances(s, t)
    BY <1>3, <1>4, <1>5, <1>6 DEF Advances, n, StreamStates
  <1>8. Way(t, p)
    BY <1>4 DEF Way
  <1>9. Way(p, t)
    <2>1. p.send_base <= n
      BY DEF Way, n
    <2>2. p.send_base \in Nat
      BY DEF StreamStates
    <2>3. p.send_base <= AckPoint(t)
      BY <1>1, <1>6, <2>1, <2>2
    <2>4. QED
      BY <1>1, <1>4, <2>3 DEF Way
  <1>10. QED
    BY <1>7, <1>8, <1>9 DEF t

\* Within the window a frame adds its bytes, and the end with its FIN.
LEMMA OnDataFacts ==
    ASSUME NEW s \in StreamStates, BufferOK(s), NEW p \in StreamStates, BufferOK(p),
           Way(s, p), Way(p, s), NEW f \in DataFrameSet, Truthful(f, p)
    PROVE  /\ Advances(s, OnData(s, f)) /\ Way(OnData(s, f), p) /\ Way(p, OnData(s, f))
           /\ OnData(s, f).delivered = s.delivered
           /\ s.peer_fin # StillOpen => OnData(s, f).peer_fin = s.peer_fin
           /\ OnData(s, f).send_next = s.send_next /\ OnData(s, f).send_fin = s.send_fin
  <1> DEFINE new == {k \in f.offset .. f.offset + f.len - 1 : k >= s.delivered}
             fin == IF f.fin /\ s.peer_fin = StillOpen THEN f.offset + f.len ELSE s.peer_fin
             t == [s EXCEPT !.peer_fin = fin, !.segs = s.segs \cup new]
  <1>1. /\ f.offset \in Nat /\ f.len \in Nat /\ f.len <= MAX_STREAM_CHUNK /\ f.type = "data"
        /\ s.delivered \in Nat /\ p.send_next \in Nat
        /\ DEFAULT_WINDOW \in Nat /\ MAX_STREAM_CHUNK \in Nat
    BY StreamAssumption DEF DataFrameSet, StreamStates
  <1>2. /\ f.offset + f.len <= p.send_next
        /\ f.fin => p.send_fin /\ f.offset + f.len = p.send_next
    BY <1>1 DEF Truthful
  <1>3. CASE f.offset > s.delivered + DEFAULT_WINDOW
    <2>1. OnData(s, f) = s
      BY <1>3 DEF OnData
    <2>2. AckPoint(s) \in Nat /\ s.send_next \in Nat
      BY AckPointFacts DEF StreamStates
    <2>3. QED
      BY <2>1, <2>2 DEF Advances
  <1>4. CASE ~(f.offset > s.delivered + DEFAULT_WINDOW)
    <2>1. OnData(s, f) = t
      BY <1>4 DEF OnData, Insert, StreamStates
    <2>2. new \subseteq s.delivered .. s.delivered + DEFAULT_WINDOW + MAX_STREAM_CHUNK - 1
      BY <1>1, <1>4
    <2>3. \A k \in new : k < p.send_next
      BY <1>1, <1>2
    <2>4. /\ fin \in Nat \cup {StillOpen} /\ new \subseteq Nat
          /\ fin # StillOpen => p.send_fin /\ fin = p.send_next
          /\ s.peer_fin # StillOpen => fin = s.peer_fin
      BY <1>1, <1>2 DEF Way, StreamStates
    <2> HIDE DEF new, fin
    <2>5. /\ t.delivered = s.delivered /\ t.segs = s.segs \cup new /\ t.peer_fin = fin
          /\ t.send_next = s.send_next /\ t.send_fin = s.send_fin /\ t.needs_open = s.needs_open
          /\ t.send_base = s.send_base /\ t.send_high = s.send_high
      BY DEF StreamStates
    <2>6. t \in StreamStates
      BY <2>4, Zenon DEF StreamStates
    <2> HIDE DEF t
    <2>7. BufferOK(t)
      BY <2>2, <2>5, Zenon DEF BufferOK
    <2>8. AckPoint(s) <= AckPoint(t) /\ AckPoint(s) \in Nat /\ AckPoint(t) \in Nat
      BY <2>5, <2>7, AckPointGrows, AckPointFacts
    <2>9. Advances(s, t)
      BY <2>5, <2>6, <2>7, <2>8 DEF Advances, StreamStates
    <2>10. Way(t, p)
      BY <2>5 DEF Way
    <2>11. Way(p, t)
      <3>1. p.send_base <= AckPoint(s) /\ p.send_base \in Nat
        BY DEF Way, StreamStates
      <3>2. \A k \in t.segs : k < p.send_next
        BY <2>3, <2>5 DEF Way
      <3>3. QED
        BY <2>4, <2>5, <2>8, <3>1, <3>2 DEF Way
    <2>12. QED
      BY <2>1, <2>4, <2>5, <2>9, <2>10, <2>11
  <1>5. QED
    BY <1>3, <1>4

\* What every step has in common that leaves the receive half alone: write, close, reset,
\* on_ack and transmit.
LEMMA SendHalfStep ==
    ASSUME NEW s \in StreamStates, BufferOK(s), NEW p \in StreamStates, BufferOK(p),
           Way(s, p), Way(p, s), NEW t \in StreamStates,
           t.delivered = s.delivered, t.segs = s.segs, t.peer_fin = s.peer_fin,
           t.needs_open => s.needs_open,
           s.send_next <= t.send_next,
           s.send_fin => t.send_fin /\ t.send_next = s.send_next,
           t.send_base <= t.send_high, t.send_high <= t.send_next,
           t.send_base <= AckPoint(p)
    PROVE  Advances(s, t) /\ Way(t, p) /\ Way(p, t)
  <1>1. BufferOK(t)
    BY DEF BufferOK
  <1>2. AckPoint(t) = AckPoint(s)
    BY Zenon DEF AckPoint
  <1>3. AckPoint(s) \in Nat
    BY AckPointFacts
  <1>4. Advances(s, t)
    BY <1>1, <1>2, <1>3 DEF Advances
  <1>5. Way(p, t)
    BY <1>2 DEF Way
  <1>6. Way(t, p)
    <2>1. s.send_next \in Nat /\ t.send_next \in Nat /\ p.delivered \in Nat /\ p.segs \subseteq Nat
      BY DEF StreamStates
    <2>2. p.delivered <= s.send_next /\ \A k \in p.segs : k < s.send_next
      BY DEF Way
    <2>3. p.delivered <= t.send_next /\ \A k \in p.segs : k < t.send_next
      BY <2>1, <2>2
    <2>4. p.peer_fin # StillOpen => t.send_fin /\ p.peer_fin = t.send_next
      BY DEF Way
    <2>5. QED
      BY <2>3, <2>4 DEF Way
  <1>7. QED
    BY <1>4, <1>5, <1>6

LEMMA DivisionType ==
    ASSUME NEW a \in Nat, NEW b \in Nat \ {0}
    PROVE  a \div b \in Nat
  OBVIOUS

LEMMA MssSquareType == MSS * MSS \in Nat
  BY StreamAssumption DEF MSS

LEMMA GrowCwndType ==
    ASSUME NEW s \in StreamStates, NEW n \in Nat \ {0}
    PROVE  GrowCwnd(s, n) \in Nat \ {0}
  <1> DEFINE q == (MSS * MSS) \div s.cwnd
  <1>1. s.cwnd \in Nat \ {0} /\ s.ssthresh \in Nat /\ DEFAULT_WINDOW \in Nat \ {0} /\ MSS \in Nat \ {0}
    BY StreamAssumption DEF StreamStates, MSS
  <1>2. q \in Nat
    BY <1>1, MssSquareType, DivisionType
  <1>3. GrowCwnd(s, n) = MinOf(s.cwnd + (IF s.cwnd < s.ssthresh THEN MinOf(n, MSS) ELSE MaxOf(q, 1)),
                               DEFAULT_WINDOW)
    BY DEF GrowCwnd
  <1> HIDE DEF q
  <1>4. MinOf(n, MSS) \in Nat /\ MaxOf(q, 1) \in Nat
    BY <1>1, <1>2 DEF MinOf, MaxOf
  <1>5. s.cwnd + (IF s.cwnd < s.ssthresh THEN MinOf(n, MSS) ELSE MaxOf(q, 1)) \in Nat \ {0}
    BY <1>1, <1>4
  <1>6. QED
    BY <1>1, <1>3, <1>5 DEF MinOf

\* An ack drains only what the receiver has.
LEMMA OnAckFacts ==
    ASSUME NEW s \in StreamStates, BufferOK(s), NEW p \in StreamStates, BufferOK(p),
           Way(s, p), Way(p, s), NEW f \in AckFrameSet, Truthful(f, p)
    PROVE  LET t == OnAck(s, f)
           IN  /\ Advances(s, t) /\ Way(t, p) /\ Way(p, t)
               /\ t.delivered = s.delivered /\ t.segs = s.segs /\ t.peer_fin = s.peer_fin
               /\ t.send_next = s.send_next /\ t.send_fin = s.send_fin
  <1> DEFINE base == MaxOf(s.send_base, f.ack)
             high == MaxOf(s.send_high, base)
             moved == f.ack > s.send_base
             cw == IF moved THEN GrowCwnd(s, base - s.send_base) ELSE s.cwnd
             arm == IF moved THEN base < high ELSE s.armed
             fa == s.fin_acked \/ (s.send_fin /\ s.fin_sent /\ f.ack >= s.send_next)
             t == OnAck(s, f)
  <1>1. /\ f.ack \in Nat /\ f.window \in Nat /\ f.ack <= AckPoint(p) /\ AckPoint(p) \in Nat
        /\ s.send_base \in Nat /\ s.send_high \in Nat /\ s.send_next \in Nat
        /\ s.send_base <= s.send_high /\ s.send_high <= s.send_next /\ s.send_base <= AckPoint(p)
    BY AckPointFacts DEF AckFrameSet, StreamStates, Truthful, Way
  <1>2. CASE f.ack > s.send_next
    <2>1. t = s
      BY <1>2 DEF OnAck
    <2>2. QED
      BY <1>1, <2>1, SendHalfStep
  <1>3. CASE ~(f.ack > s.send_next)
    <2>1. /\ base \in Nat /\ high \in Nat /\ base <= high /\ high <= s.send_next
          /\ base <= AckPoint(p) /\ s.send_base <= base
          /\ moved => base - s.send_base \in Nat \ {0}
      BY <1>1, <1>3 DEF MaxOf
    <2>2. cw \in Nat \ {0}
      BY <2>1, GrowCwndType DEF StreamStates
    <2>3. arm \in BOOLEAN /\ fa \in BOOLEAN
      <3>1. s.armed \in BOOLEAN /\ s.fin_acked \in BOOLEAN
        BY DEF StreamStates
      <3>2. (base < high) \in BOOLEAN
        OBVIOUS
      <3>3. arm \in BOOLEAN
        BY <3>1, <3>2, Zenon
      <3>4. fa \in BOOLEAN
        BY <3>1, Zenon
      <3>5. QED
        BY <3>3, <3>4
    <2>4. t = [s EXCEPT !.peer_window = f.window, !.send_base = base, !.send_high = high,
                        !.cwnd = cw, !.armed = arm, !.fin_acked = fa]
      BY <1>3 DEF OnAck
    <2> HIDE DEF base, high, moved, cw, arm, fa, t
    <2>5. t \in StreamStates
      BY <1>1, <2>1, <2>2, <2>3, <2>4, ZenonT(60) DEF StreamStates
    <2>6. /\ t.delivered = s.delivered /\ t.segs = s.segs /\ t.peer_fin = s.peer_fin
          /\ t.send_next = s.send_next /\ t.send_fin = s.send_fin /\ t.needs_open = s.needs_open
          /\ t.send_base = base /\ t.send_high = high
      BY <2>4 DEF StreamStates
    <2>7. Advances(s, t) /\ Way(t, p) /\ Way(p, t)
      BY <1>1, <2>1, <2>5, <2>6, SendHalfStep
    <2>8. QED
      BY <2>6, <2>7 DEF t
  <1>4. QED
    BY <1>2, <1>3

-----------------------------------------------------------------------------

LEMMA SendEndFacts ==
    ASSUME NEW s \in StreamStates
    PROVE  SendEnd(s) \in Nat /\ SendEnd(s) <= s.send_next
  BY DEF SendEnd, MinOf, StreamStates

\* A chunk of emit_range is within what was written, and its FIN is where that ends.
LEMMA EmitRangeFacts ==
    ASSUME NEW s \in StreamStates, NEW from \in Nat, NEW to \in Nat, to <= s.send_next,
           NEW f \in EmitRange(s, from, to)
    PROVE  f \in DataFrameSet /\ Truthful(f, s)
  <1>1. PICK o \in from .. to - 1 :
            f = DataFrame(o, MinOf(MAX_STREAM_CHUNK, to - o),
                          s.send_fin /\ MinOf(o + MAX_STREAM_CHUNK, to) = s.send_next /\ ~s.fin_acked)
    BY DEF EmitRange
  <1> DEFINE n == MinOf(MAX_STREAM_CHUNK, to - o)
             b == s.send_fin /\ MinOf(o + MAX_STREAM_CHUNK, to) = s.send_next /\ ~s.fin_acked
  <1>2. /\ o \in Nat /\ n \in 0 .. MAX_STREAM_CHUNK /\ o + n <= to
        /\ o + n = MinOf(o + MAX_STREAM_CHUNK, to)
    BY StreamAssumption DEF MinOf
  <1>3. b \in BOOLEAN /\ (b => s.send_fin /\ o + n = s.send_next)
    BY <1>2
  <1>4. s.send_next \in Nat
    BY DEF StreamStates
  <1> HIDE DEF n, b
  <1>5. f = [type |-> "data", offset |-> o, len |-> n, fin |-> b]
    BY <1>1 DEF DataFrame, n, b
  <1>6. f \in DataFrameSet
    BY <1>2, <1>3, <1>5 DEF DataFrameSet
  <1>7. f.type = "data" /\ f.offset = o /\ f.len = n /\ f.fin = b
    BY <1>5
  <1>8. f.offset + f.len <= s.send_next
    BY <1>2, <1>4, <1>7, StreamAssumption
  <1>9. QED
    BY <1>3, <1>6, <1>7, <1>8 DEF Truthful

LEMMA DataFramesFacts ==
    ASSUME NEW s \in StreamStates, s.send_base <= s.send_high, s.send_high <= s.send_next,
           NEW due \in BOOLEAN, NEW f \in DataFrames(s, due)
    PROVE  f \in DataFrameSet /\ Truthful(f, s)
  <1>1. s.send_base \in Nat /\ s.send_high \in Nat /\ s.send_next \in Nat
    BY DEF StreamStates
  <1>2. SendEnd(s) \in Nat /\ SendEnd(s) <= s.send_next
    BY SendEndFacts
  <1>3. CASE f \in EmitRange(s, s.send_high, SendEnd(s))
    BY <1>1, <1>2, <1>3, EmitRangeFacts
  <1>4. CASE f \in EmitRange(s, s.send_base, s.send_high)
    BY <1>1, <1>4, EmitRangeFacts
  <1>5. CASE SendsEmptyFin(s, due) /\ f = DataFrame(s.send_next, 0, TRUE)
    <2>1. f = [type |-> "data", offset |-> s.send_next, len |-> 0, fin |-> TRUE]
      BY <1>5 DEF DataFrame
    <2>2. s.send_fin
      BY <1>5 DEF SendsEmptyFin
    <2>3. 0 \in 0 .. MAX_STREAM_CHUNK
      BY StreamAssumption
    <2>4. f \in DataFrameSet
      BY <1>1, <2>1, <2>3 DEF DataFrameSet
    <2>5. QED
      BY <1>1, <2>1, <2>2, <2>4 DEF Truthful
  <1>6. \/ f \in EmitRange(s, s.send_high, SendEnd(s))
        \/ f \in EmitRange(s, s.send_base, s.send_high)
        \/ SendsEmptyFin(s, due) /\ f = DataFrame(s.send_next, 0, TRUE)
    BY Zenon DEF DataFrames
  <1>7. QED
    BY <1>3, <1>4, <1>5, <1>6, Zenon

\* Whatever a poll sends is true of the state it is sent from.
LEMMA FramesFacts ==
    ASSUME NEW s \in StreamStates, BufferOK(s),
           s.send_base <= s.send_high, s.send_high <= s.send_next,
           NEW due \in BOOLEAN, NEW f \in Frames(s, due)
    PROVE  f \in FrameSet /\ Truthful(f, s) /\ (f.type = "open" => s.needs_open)
  <1> DEFINE w == DEFAULT_WINDOW - MinOf(Unread(s), DEFAULT_WINDOW)
  <1>1. \/ f \in DataFrames(s, due)
        \/ s.needs_open /\ f = OpenFrame
        \/ f = AckFrame(AckPoint(s), w)
        \/ f = CloseFrame
    BY DEF Frames
  <1>2. CASE f \in DataFrames(s, due)
    BY <1>2, DataFramesFacts DEF FrameSet, DataFrameSet
  <1>3. CASE s.needs_open /\ f = OpenFrame
    BY <1>3 DEF OpenFrame, FrameSet, Truthful
  <1>4. CASE f = AckFrame(AckPoint(s), w)
    <2>1. AckPoint(s) \in Nat /\ s.delivered \in Nat /\ s.delivered <= AckPoint(s)
      BY AckPointFacts DEF StreamStates
    <2>2. w \in Nat
      BY <2>1, StreamAssumption DEF Unread, MinOf
    <2> HIDE DEF w
    <2>3. f = [type |-> "ack", ack |-> AckPoint(s), window |-> w]
      BY <1>4 DEF AckFrame
    <2>4. f \in AckFrameSet /\ f.type = "ack" /\ f.ack = AckPoint(s)
      BY <2>1, <2>2, <2>3 DEF AckFrameSet
    <2>5. QED
      BY <2>1, <2>4 DEF FrameSet, Truthful
  <1>5. CASE f = CloseFrame
    BY <1>5 DEF CloseFrame, FrameSet, Truthful
  <1>6. QED
    BY <1>1, <1>2, <1>3, <1>4, <1>5

\* A poll moves send_high within what was written and leaves the receive half alone.
LEMMA TransmittedFacts ==
    ASSUME NEW s \in StreamStates, BufferOK(s), NEW p \in StreamStates, BufferOK(p),
           Way(s, p), Way(p, s), NEW due \in BOOLEAN
    PROVE  LET t == Transmitted(s, due)
           IN  /\ Advances(s, t) /\ Way(t, p) /\ Way(p, t) /\ ~t.needs_open
               /\ t.delivered = s.delivered /\ t.segs = s.segs /\ t.peer_fin = s.peer_fin
               /\ t.send_next = s.send_next /\ t.send_fin = s.send_fin
  <1> DEFINE high == IF SendsNew(s) THEN SendEnd(s) ELSE s.send_high
             fs == s.fin_sent \/ (\E f \in DataFrames(s, due) : f.fin)
             arm == s.armed \/ DataFrames(s, due) # {}
             cw == IF Retransmits(s, due) THEN MSS ELSE s.cwnd
             ss == IF Retransmits(s, due) THEN MaxOf(s.cwnd \div 2, 2 * MSS) ELSE s.ssthresh
             ct == IF s.close_received /\ s.send_fin /\ s.peer_fin = StillOpen
                   THEN MinOf(s.close_ticks + 1, CLOSE_GRACE_TICKS) ELSE s.close_ticks
             t == Transmitted(s, due)
  <1>1. /\ s.send_base \in Nat /\ s.send_high \in Nat /\ s.send_next \in Nat
        /\ s.send_base <= s.send_high /\ s.send_high <= s.send_next /\ s.send_base <= AckPoint(p)
    BY DEF StreamStates, Way
  <1>2. high \in Nat /\ s.send_base <= high /\ high <= s.send_next
    BY <1>1, SendEndFacts DEF SendsNew
  <1>3. fs \in BOOLEAN /\ arm \in BOOLEAN
    <2>1. s.fin_sent \in BOOLEAN /\ s.armed \in BOOLEAN
      BY DEF StreamStates
    <2>2. QED
      BY <2>1, Zenon
  <1>4. cw \in Nat \ {0}
    BY StreamAssumption DEF MSS, StreamStates
  <1>5. ss \in Nat
    <2>1. s.cwnd \in Nat /\ s.ssthresh \in Nat /\ 2 * MSS \in Nat /\ s.cwnd \div 2 \in Nat
      BY StreamAssumption DEF MSS, StreamStates
    <2>2. QED
      BY <2>1 DEF MaxOf
  <1>6. ct \in Nat
    BY StreamAssumption DEF MinOf, StreamStates
  <1>7. t = [s EXCEPT !.needs_open = FALSE, !.send_high = high, !.fin_sent = fs, !.armed = arm,
                      !.cwnd = cw, !.ssthresh = ss, !.close_ticks = ct]
    BY DEF Transmitted
  <1> HIDE DEF high, fs, arm, cw, ss, ct, t
  <1>8. t \in StreamStates
    <2> DEFINE u == [s EXCEPT !.needs_open = FALSE, !.send_high = high, !.fin_sent = fs, !.armed = arm]
    <2>1. u \in StreamStates
      BY <1>2, <1>3, Zenon DEF StreamStates
    <2>2. t = [u EXCEPT !.cwnd = cw, !.ssthresh = ss, !.close_ticks = ct]
      BY <1>7
    <2> HIDE DEF u
    <2>3. QED
      BY <1>4, <1>5, <1>6, <2>1, <2>2, Zenon DEF StreamStates
  <1>9. /\ t.delivered = s.delivered /\ t.segs = s.segs /\ t.peer_fin = s.peer_fin
        /\ t.send_next = s.send_next /\ t.send_fin = s.send_fin /\ t.needs_open = FALSE
        /\ t.send_base = s.send_base /\ t.send_high = high
    BY <1>7 DEF StreamStates
  <1>10. Advances(s, t) /\ Way(t, p) /\ Way(p, t)
    BY <1>1, <1>2, <1>8, <1>9, SendHalfStep
  <1>11. QED
    BY <1>9, <1>10 DEF t

-----------------------------------------------------------------------------

Statuses == {"none", "live", "done", "grace", "reset"}

MuxTypeOK ==
    /\ stream \in [Ends -> StreamStates]
    /\ status \in [Ends -> Statuses]
    /\ net \in [Ends -> SUBSET FrameSet]

BothWays == \A e \in Ends : BufferOK(stream[e]) /\ Way(stream[e], stream[Peer(e)])

FramesTruthful == \A e \in Ends : \A f \in net[e] : Truthful(f, stream[Peer(e)])

\* Only "a" sends a StreamOpen, and once: while it is in flight "b" has not got it.
OpenedOnce ==
    /\ ~stream["b"].needs_open /\ \A f \in net["a"] : f.type # "open"
    /\ \A f \in net["b"] : f.type = "open" => ~stream["a"].needs_open /\ status["b"] = "none"
    /\ status["b"] # "none" => ~stream["a"].needs_open
    /\ status["b"] = "none" => stream["b"] = NewStream(FALSE)

IInv == MuxTypeOK /\ BothWays /\ FramesTruthful /\ OpenedOnce

LEMMA PeerFacts ==
    ASSUME NEW e \in Ends
    PROVE  Peer(e) \in Ends /\ Peer(e) # e /\ Peer(Peer(e)) = e /\ Ends = {e, Peer(e)}
  BY DEF Ends, Peer

LEMMA NewStreamFacts ==
    ASSUME NEW x \in BOOLEAN, NEW y \in BOOLEAN
    PROVE  /\ NewStream(x) \in StreamStates /\ BufferOK(NewStream(x))
           /\ Way(NewStream(x), NewStream(y)) /\ NewStream(x).needs_open = x
  <1> DEFINE s == NewStream(x)
             r == NewStream(y)
  <1>1. s \in StreamStates /\ s.needs_open = x
    BY StreamAssumption DEF NewStream, StreamStates, StillOpen
  <1>2. /\ s.delivered = 0 /\ s.segs = {} /\ s.peer_fin = StillOpen
        /\ s.send_base = 0 /\ s.send_high = 0 /\ s.send_next = 0
    BY DEF NewStream
  <1>3. r.delivered = 0 /\ r.segs = {} /\ r.peer_fin = StillOpen
    BY DEF NewStream
  <1> HIDE DEF s, r
  <1>4. BufferOK(s) /\ BufferOK(r)
    BY <1>2, <1>3, StreamAssumption DEF BufferOK
  <1>5. AckPoint(r) \in Nat
    BY <1>4, AckPointFacts
  <1>6. Way(s, r)
    BY <1>2, <1>3, <1>5 DEF Way
  <1>7. QED
    BY <1>1, <1>4, <1>6 DEF s, r

LEMMA InitIInv == Init => IInv
  <1> SUFFICES ASSUME Init PROVE IInv
    OBVIOUS
  <1>1. "a" \in Ends /\ "b" \in Ends /\ stream["a"] = NewStream(TRUE) /\ stream["b"] = NewStream(FALSE)
    BY Zenon DEF Init, Ends
  <1>2. MuxTypeOK
    BY NewStreamFacts, Zenon DEF Init, MuxTypeOK, Statuses
  <1>3. BothWays
    <2> SUFFICES ASSUME NEW e \in Ends
                 PROVE  BufferOK(stream[e]) /\ Way(stream[e], stream[Peer(e)])
      BY DEF BothWays
    <2>1. stream[e] = NewStream(e = "a") /\ stream[Peer(e)] = NewStream(Peer(e) = "a")
      BY PeerFacts DEF Init
    <2>2. (e = "a") \in BOOLEAN /\ (Peer(e) = "a") \in BOOLEAN
      OBVIOUS
    <2>3. QED
      BY <2>1, <2>2, NewStreamFacts, Zenon
  <1>4. FramesTruthful
    BY DEF Init, FramesTruthful
  <1>5. OpenedOnce
    BY <1>1, NewStreamFacts, Zenon DEF Init, OpenedOnce, Ends
  <1>6. QED
    BY <1>2, <1>3, <1>4, <1>5 DEF IInv

\* A live end steps to t and perhaps sends: the invariant is kept.
LEMMA LiveStep ==
    ASSUME IInv, NEW e \in Ends, NEW t, status[e] = "live",
           stream' = [stream EXCEPT ![e] = t],
           Advances(stream[e], t), Way(t, stream[Peer(e)]), Way(stream[Peer(e)], t),
           status' \in [Ends -> Statuses], status'[e] # "none", status'[Peer(e)] = status[Peer(e)],
           net' \in [Ends -> SUBSET FrameSet], net'[e] \subseteq net[e],
           \A f \in net'[Peer(e)] :
              \/ f \in net[Peer(e)]
              \/ Truthful(f, stream[e]) /\ (f.type = "open" => stream[e].needs_open /\ ~t.needs_open)
    PROVE  IInv'
  <1> DEFINE p == Peer(e)
  <1>1. p \in Ends /\ p # e /\ Peer(p) = e /\ Peer(e) = p /\ Ends = {e, p}
    BY PeerFacts
  <1> HIDE DEF p
  <1>2. /\ stream \in [Ends -> StreamStates] /\ stream[e] \in StreamStates /\ t \in StreamStates
        /\ BufferOK(stream[e]) /\ BufferOK(stream[p]) /\ BufferOK(t)
    BY <1>1 DEF IInv, MuxTypeOK, BothWays, Advances
  <1>3. stream'[e] = t /\ stream'[p] = stream[p]
    BY <1>1, <1>2
  <1>4. MuxTypeOK'
    BY <1>2 DEF MuxTypeOK
  <1>5. BothWays'
    BY <1>1, <1>2, <1>3 DEF BothWays
  <1>6. FramesTruthful'
    <2>1. ASSUME NEW f \in net'[e] PROVE Truthful(f, stream'[p])
      BY <1>1, <1>3, <2>1 DEF IInv, FramesTruthful
    <2>2. ASSUME NEW f \in net'[p] PROVE Truthful(f, stream'[e])
      <3>1. f \in FrameSet
        BY <1>1
      <3>2. Truthful(f, stream[e])
        BY <1>1 DEF IInv, FramesTruthful
      <3>3. QED
        BY <1>2, <1>3, <3>1, <3>2, TruthfulStays
    <2>3. QED
      BY <1>1, <2>1, <2>2 DEF FramesTruthful
  <1>7. OpenedOnce'
    <2>1. t.needs_open => stream[e].needs_open
      BY DEF Advances
    <2>2. CASE e = "a" /\ p = "b"
      BY <1>1, <1>3, <2>1, <2>2, Zenon DEF IInv, OpenedOnce
    <2>3. CASE e = "b" /\ p = "a"
      BY <1>1, <1>3, <2>1, <2>3, Zenon DEF IInv, OpenedOnce
    <2>4. QED
      BY <1>1, <2>2, <2>3 DEF Ends
  <1>8. QED
    BY <1>4, <1>5, <1>6, <1>7 DEF IInv

LEMMA NoStep ==
    ASSUME NEW s \in StreamStates, BufferOK(s)
    PROVE  Advances(s, s)
  BY AckPointFacts DEF Advances, StreamStates

-----------------------------------------------------------------------------

\* The two ends as the lemmas above take them.
LEMMA EndsFacts ==
    ASSUME IInv, NEW e \in Ends
    PROVE  /\ stream[e] \in StreamStates /\ BufferOK(stream[e]) /\ Way(stream[e], stream[Peer(e)])
           /\ stream[Peer(e)] \in StreamStates /\ BufferOK(stream[Peer(e)])
           /\ Way(stream[Peer(e)], stream[e])
  <1>1. Peer(e) \in Ends /\ Peer(Peer(e)) = e
    BY PeerFacts
  <1>2. QED
    BY <1>1 DEF IInv, MuxTypeOK, BothWays

LEMMA OpenStreamKeeps == IInv /\ OpenStream => IInv'
  <1> SUFFICES ASSUME IInv, OpenStream PROVE IInv'
    OBVIOUS
  <1>1. /\ stream' = stream /\ net' = net /\ status' = [status EXCEPT !["a"] = "live"]
        /\ status \in [Ends -> Statuses]
    BY DEF OpenStream, IInv, MuxTypeOK
  <1>2. status' \in [Ends -> Statuses] /\ status'["b"] = status["b"]
    BY <1>1 DEF Ends, Statuses
  <1>3. MuxTypeOK' /\ BothWays' /\ FramesTruthful'
    BY <1>1, <1>2 DEF IInv, MuxTypeOK, BothWays, FramesTruthful
  <1>4. OpenedOnce'
    BY <1>1, <1>2, Zenon DEF IInv, OpenedOnce
  <1>5. QED
    BY <1>3, <1>4 DEF IInv

\* The steps of a live end's application send nothing and keep it live.
LEMMA ApplicationStep ==
    ASSUME IInv, NEW e \in Ends, NEW t, status[e] = "live",
           stream' = [stream EXCEPT ![e] = t],
           Advances(stream[e], t), Way(t, stream[Peer(e)]), Way(stream[Peer(e)], t),
           status' = status, net' = net
    PROVE  IInv'
  <1>1. Peer(e) \in Ends
    BY PeerFacts
  <1>2. status' \in [Ends -> Statuses] /\ net' \in [Ends -> SUBSET FrameSet]
    BY DEF IInv, MuxTypeOK
  <1>3. QED
    BY <1>1, <1>2, LiveStep, Zenon

LEMMA WriteKeeps ==
    ASSUME IInv, NEW e \in Ends, Write(e)
    PROVE  IInv'
  <1> DEFINE s == stream[e]
             t == [s EXCEPT !.send_next = @ + 1]
  <1>1. /\ s \in StreamStates /\ BufferOK(s) /\ Way(s, stream[Peer(e)])
        /\ stream[Peer(e)] \in StreamStates /\ BufferOK(stream[Peer(e)])
        /\ Way(stream[Peer(e)], s)
    BY EndsFacts
  <1>2. ~s.send_fin /\ stream' = [stream EXCEPT ![e] = t]
    BY DEF Write
  <1> HIDE DEF s
  <1>3. t \in StreamStates
    BY <1>1 DEF StreamStates
  <1>4. /\ t.delivered = s.delivered /\ t.segs = s.segs /\ t.peer_fin = s.peer_fin
        /\ t.send_next = s.send_next + 1 /\ t.send_fin = s.send_fin /\ t.needs_open = s.needs_open
        /\ t.send_base = s.send_base /\ t.send_high = s.send_high
    BY <1>1 DEF StreamStates
  <1> HIDE DEF t
  <1>5. /\ s.send_next <= t.send_next /\ t.send_base <= t.send_high /\ t.send_high <= t.send_next
        /\ t.send_base <= AckPoint(stream[Peer(e)])
    BY <1>1, <1>4 DEF StreamStates, Way
  <1>6. Advances(s, t) /\ Way(t, stream[Peer(e)]) /\ Way(stream[Peer(e)], t)
    BY <1>1, <1>2, <1>3, <1>4, <1>5, SendHalfStep
  <1>7. status[e] = "live" /\ status' = status /\ net' = net
    BY DEF Write
  <1>8. QED
    BY <1>2, <1>6, <1>7, ApplicationStep, Zenon DEF s

LEMMA CloseKeeps ==
    ASSUME IInv, NEW e \in Ends, Close(e)
    PROVE  IInv'
  <1> DEFINE s == stream[e]
             t == [s EXCEPT !.send_fin = TRUE]
  <1>1. /\ s \in StreamStates /\ BufferOK(s) /\ Way(s, stream[Peer(e)])
        /\ stream[Peer(e)] \in StreamStates /\ BufferOK(stream[Peer(e)])
        /\ Way(stream[Peer(e)], s)
    BY EndsFacts
  <1>2. ~s.send_fin /\ stream' = [stream EXCEPT ![e] = t]
    BY DEF Close
  <1> HIDE DEF s
  <1>3. t \in StreamStates
    BY <1>1, Zenon DEF StreamStates
  <1>4. /\ t.delivered = s.delivered /\ t.segs = s.segs /\ t.peer_fin = s.peer_fin
        /\ t.send_next = s.send_next /\ t.send_fin /\ t.needs_open = s.needs_open
        /\ t.send_base = s.send_base /\ t.send_high = s.send_high
    BY <1>1 DEF StreamStates
  <1> HIDE DEF t
  <1>5. /\ s.send_next <= t.send_next /\ t.send_base <= t.send_high /\ t.send_high <= t.send_next
        /\ t.send_base <= AckPoint(stream[Peer(e)])
    BY <1>1, <1>4 DEF StreamStates, Way
  <1>6. Advances(s, t) /\ Way(t, stream[Peer(e)]) /\ Way(stream[Peer(e)], t)
    BY <1>1, <1>2, <1>3, <1>4, <1>5, SendHalfStep
  <1>7. status[e] = "live" /\ status' = status /\ net' = net
    BY DEF Close
  <1>8. QED
    BY <1>2, <1>6, <1>7, ApplicationStep, Zenon DEF s

\* A flag that neither half depends on.
LEMMA FlagFacts ==
    ASSUME IInv, NEW e \in Ends, NEW t,
           \/ t = [stream[e] EXCEPT !.reset = TRUE]
           \/ t = [stream[e] EXCEPT !.close_received = TRUE]
    PROVE  /\ Advances(stream[e], t) /\ Way(t, stream[Peer(e)]) /\ Way(stream[Peer(e)], t)
           /\ t.delivered = stream[e].delivered /\ t.segs = stream[e].segs
           /\ t.peer_fin = stream[e].peer_fin
           /\ t.send_next = stream[e].send_next /\ t.send_fin = stream[e].send_fin
  <1> DEFINE s == stream[e]
  <1>1. /\ s \in StreamStates /\ BufferOK(s) /\ Way(s, stream[Peer(e)])
        /\ stream[Peer(e)] \in StreamStates /\ BufferOK(stream[Peer(e)])
        /\ Way(stream[Peer(e)], s)
    BY EndsFacts
  <1>2. t = [s EXCEPT !.reset = TRUE] \/ t = [s EXCEPT !.close_received = TRUE]
    OBVIOUS
  <1> HIDE DEF s
  <1>3. t \in StreamStates
    BY <1>1, <1>2, Zenon DEF StreamStates
  <1>4. /\ t.delivered = s.delivered /\ t.segs = s.segs /\ t.peer_fin = s.peer_fin
        /\ t.send_next = s.send_next /\ t.send_fin = s.send_fin /\ t.needs_open = s.needs_open
        /\ t.send_base = s.send_base /\ t.send_high = s.send_high
    BY <1>1, <1>2 DEF StreamStates
  <1>5. /\ s.send_next <= t.send_next /\ t.send_base <= t.send_high /\ t.send_high <= t.send_next
        /\ t.send_base <= AckPoint(stream[Peer(e)])
    BY <1>1, <1>4 DEF StreamStates, Way
  <1>6. Advances(s, t) /\ Way(t, stream[Peer(e)]) /\ Way(stream[Peer(e)], t)
    BY <1>1, <1>3, <1>4, <1>5, SendHalfStep
  <1>7. QED
    BY <1>4, <1>6 DEF s

LEMMA ResetKeeps ==
    ASSUME IInv, NEW e \in Ends, Reset(e)
    PROVE  IInv'
  <1> DEFINE t == [stream[e] EXCEPT !.reset = TRUE]
  <1>1. /\ stream' = [stream EXCEPT ![e] = t] /\ status[e] = "live"
        /\ status' = status /\ net' = net
    BY DEF Reset
  <1>2. Advances(stream[e], t) /\ Way(t, stream[Peer(e)]) /\ Way(stream[Peer(e)], t)
    BY FlagFacts
  <1> HIDE DEF t
  <1>3. QED
    BY <1>1, <1>2, ApplicationStep, Zenon

LEMMA ReadKeeps ==
    ASSUME IInv, NEW e \in Ends, Read(e)
    PROVE  IInv'
  <1>1. /\ stream' = [stream EXCEPT ![e] = ReadAll(stream[e])] /\ status[e] = "live"
        /\ status' = status /\ net' = net
    BY DEF Read
  <1>2. /\ Advances(stream[e], ReadAll(stream[e])) /\ Way(ReadAll(stream[e]), stream[Peer(e)])
        /\ Way(stream[Peer(e)], ReadAll(stream[e]))
    BY EndsFacts, ReadFacts
  <1>3. QED
    BY <1>1, <1>2, ApplicationStep, Zenon

-----------------------------------------------------------------------------

\* What a frame does to a stream that is in the map.
LEMMA OnFrameLive ==
    ASSUME IInv, NEW e \in Ends, NEW f \in net[e], OnFrame(e, f), status[e] = "live"
    PROVE  \E t : /\ stream' = [stream EXCEPT ![e] = t] /\ status' = status
                  /\ Advances(stream[e], t) /\ Way(t, stream[Peer(e)]) /\ Way(stream[Peer(e)], t)
                  /\ t.delivered = stream[e].delivered
                  /\ stream[e].peer_fin # StillOpen => t.peer_fin = stream[e].peer_fin
                  /\ t.send_next = stream[e].send_next /\ t.send_fin = stream[e].send_fin
  <1> DEFINE s == stream[e]
             p == stream[Peer(e)]
             t == CASE f.type = "data"  -> OnData(s, f)
                    [] f.type = "ack"   -> OnAck(s, f)
                    [] f.type = "close" -> [s EXCEPT !.close_received = TRUE]
                    [] f.type = "reset" -> [s EXCEPT !.reset = TRUE]
                    [] f.type = "open"  -> s
  <1>1. stream' = [stream EXCEPT ![e] = t] /\ status' = status
    BY Zenon DEF OnFrame
  <1>2. /\ s \in StreamStates /\ BufferOK(s) /\ Way(s, p)
        /\ p \in StreamStates /\ BufferOK(p) /\ Way(p, s)
    BY EndsFacts
  <1>3. f \in FrameSet /\ Truthful(f, p)
    BY DEF IInv, MuxTypeOK, FramesTruthful
  <1>4. /\ f.type = "data" => f \in DataFrameSet
        /\ f.type = "ack" => f \in AckFrameSet
        /\ f.type \in {"data", "ack", "open", "close", "reset"}
    BY <1>3 DEF FrameSet, DataFrameSet, AckFrameSet
  <1>5. /\ Advances(s, t) /\ Way(t, p) /\ Way(p, t) /\ t.delivered = s.delivered
        /\ s.peer_fin # StillOpen => t.peer_fin = s.peer_fin
        /\ t.send_next = s.send_next /\ t.send_fin = s.send_fin
    <2>1. CASE f.type = "data"
      <3>1. t = OnData(s, f)
        BY <2>1
      <3> HIDE DEF t, s, p
      <3>2. QED
        BY <1>2, <1>3, <1>4, <2>1, <3>1, OnDataFacts
    <2>2. CASE f.type = "ack"
      <3>1. t = OnAck(s, f)
        BY <2>2
      <3> HIDE DEF t, s, p
      <3>2. QED
        BY <1>2, <1>3, <1>4, <2>2, <3>1, OnAckFacts
    <2>3. CASE f.type = "close"
      <3>1. t = [stream[e] EXCEPT !.close_received = TRUE]
        BY <2>3
      <3> HIDE DEF t
      <3>2. QED
        BY <3>1, FlagFacts
    <2>4. CASE f.type = "reset"
      <3>1. t = [stream[e] EXCEPT !.reset = TRUE]
        BY <2>4
      <3> HIDE DEF t
      <3>2. QED
        BY <3>1, FlagFacts
    <2>5. CASE f.type = "open"
      <3>1. t = s
        BY <2>5
      <3> HIDE DEF t, s, p
      <3>2. QED
        BY <1>2, <3>1, NoStep
    <2>6. QED
      BY <1>4, <2>1, <2>2, <2>3, <2>4, <2>5, Zenon
  <1> HIDE DEF t
  <1>6. QED
    BY <1>1, <1>5, Zenon

\* Frames of a stream that is not in the map are dropped, but the first StreamOpen.
LEMMA OnFrameElse ==
    ASSUME IInv, NEW e \in Ends, NEW f \in net[e], OnFrame(e, f), status[e] # "live"
    PROVE  /\ stream' = stream
           /\ \/ status' = status
              \/ e = "b" /\ f.type = "open" /\ status[e] = "none" /\ status' = [status EXCEPT ![e] = "live"]
  <1>1. CASE f.type # "open"
    BY <1>1, Zenon DEF OnFrame
  <1>2. CASE f.type = "open"
    <2>1. e = "b" /\ status["b"] = "none" /\ stream["b"] = NewStream(FALSE)
      BY <1>2, Zenon DEF IInv, OpenedOnce, Ends
    <2>2. stream' = [stream EXCEPT ![e] = NewStream(FALSE)] /\ status' = [status EXCEPT ![e] = "live"]
      BY <1>2, Zenon DEF OnFrame
    <2>3. stream \in [Ends -> StreamStates]
      BY DEF IInv, MuxTypeOK
    <2>4. stream' = stream
      BY <2>1, <2>2, <2>3, Zenon
    <2>5. QED
      BY <1>2, <2>1, <2>2, <2>4, Zenon
  <1>3. QED
    BY <1>1, <1>2

LEMMA OnFrameKeeps ==
    ASSUME IInv, NEW e \in Ends, NEW f \in net[e], OnFrame(e, f)
    PROVE  IInv'
  <1>1. /\ net' = [net EXCEPT ![e] = net[e] \ {f}] /\ net \in [Ends -> SUBSET FrameSet]
        /\ status \in [Ends -> Statuses] /\ stream \in [Ends -> StreamStates] /\ Peer(e) \in Ends
    BY PeerFacts DEF OnFrame, IInv, MuxTypeOK
  <1>2. /\ net' \in [Ends -> SUBSET FrameSet] /\ \A x \in Ends : net'[x] \subseteq net[x]
        /\ net'[e] = net[e] \ {f}
    BY <1>1
  <1>3. CASE status[e] = "live"
    <2>1. PICK t : /\ stream' = [stream EXCEPT ![e] = t] /\ status' = status
                   /\ Advances(stream[e], t) /\ Way(t, stream[Peer(e)]) /\ Way(stream[Peer(e)], t)
      BY <1>3, OnFrameLive
    <2>2. \A g \in net'[Peer(e)] : g \in net[Peer(e)]
      BY <1>1, <1>2
    <2>3. QED
      BY <1>1, <1>2, <1>3, <2>1, <2>2, LiveStep, Zenon
  <1>4. CASE status[e] # "live"
    <2>1. stream' = stream
      BY <1>4, OnFrameElse
    <2>2. \/ status' = status
          \/ e = "b" /\ f.type = "open" /\ status[e] = "none" /\ status' = [status EXCEPT ![e] = "live"]
      BY <1>4, OnFrameElse
    <2>3. MuxTypeOK'
      BY <1>1, <1>2, <2>1, <2>2 DEF MuxTypeOK, Statuses
    <2>4. BothWays'
      BY <2>1 DEF IInv, BothWays
    <2>5. FramesTruthful'
      BY <1>2, <2>1 DEF IInv, FramesTruthful
    <2>6. OpenedOnce'
      <3>1. CASE status' = status
        BY <1>2, <2>1, <3>1, Zenon DEF IInv, OpenedOnce, Ends
      <3>2. CASE e = "b" /\ f.type = "open" /\ status[e] = "none" /\ status' = [status EXCEPT ![e] = "live"]
        <4>1. status'["b"] = "live" /\ "a" \in Ends
          BY <1>1, <3>2 DEF Ends
        <4>2. ASSUME NEW g \in net["b"], g.type = "open" PROVE g = f
          <5>1. g \in FrameSet /\ f \in FrameSet
            BY <1>1, <3>2
          <5>2. g \in [type : {"open", "close", "reset"}] /\ f \in [type : {"open", "close", "reset"}]
            BY <3>2, <4>2, <5>1 DEF FrameSet, DataFrameSet, AckFrameSet
          <5>3. QED
            BY <3>2, <4>2, <5>2
        <4>3. \A g \in net'["b"] : g.type # "open"
          BY <1>2, <3>2, <4>2
        <4>4. ~stream["a"].needs_open
          BY <3>2 DEF IInv, OpenedOnce
        <4>5. \A g \in net'["a"] : g.type # "open"
          BY <1>2, <4>1 DEF IInv, OpenedOnce
        <4>6. QED
          BY <2>1, <4>1, <4>3, <4>4, <4>5 DEF IInv, OpenedOnce
      <3>3. QED
        BY <2>2, <3>1, <3>2
    <2>7. QED
      BY <2>3, <2>4, <2>5, <2>6 DEF IInv
  <1>5. QED
    BY <1>3, <1>4

LEMMA PollTransmitKeeps ==
    ASSUME IInv, NEW e \in Ends, NEW due \in BOOLEAN, PollTransmit(e, due)
    PROVE  IInv'
  <1> DEFINE s == stream[e]
             t == Transmitted(s, due)
  <1>1. /\ status \in [Ends -> Statuses] /\ stream \in [Ends -> StreamStates]
        /\ net \in [Ends -> SUBSET FrameSet] /\ Peer(e) \in Ends /\ Peer(e) # e
        /\ status[e] = "live"
    BY PeerFacts DEF PollTransmit, IInv, MuxTypeOK
  <1>2. /\ s \in StreamStates /\ BufferOK(s) /\ Way(s, stream[Peer(e)])
        /\ stream[Peer(e)] \in StreamStates /\ BufferOK(stream[Peer(e)])
        /\ Way(stream[Peer(e)], s)
    BY EndsFacts
  <1>3. CASE s.reset
    <2>1. stream' = stream /\ status' = [status EXCEPT ![e] = "reset"]
      BY <1>3 DEF PollTransmit
    <2>2. PICK kept \in Deliverable(Peer(e), {ResetFrame}) : net' = [net EXCEPT ![Peer(e)] = kept]
      BY <1>3 DEF PollTransmit
    <2>3. kept \subseteq net[Peer(e)] \cup {ResetFrame}
      BY DEF Deliverable
    <2>4. ResetFrame \in FrameSet /\ ResetFrame.type = "reset"
      BY DEF FrameSet, ResetFrame
    <2>5. Truthful(ResetFrame, s)
      BY <2>4 DEF Truthful
    <2>6. /\ net' \in [Ends -> SUBSET FrameSet] /\ net'[e] = net[e] /\ net'[Peer(e)] = kept
          /\ status' \in [Ends -> Statuses] /\ status'[e] = "reset" /\ status'[Peer(e)] = status[Peer(e)]
      BY <1>1, <2>1, <2>2, <2>3, <2>4 DEF Statuses
    <2>7. stream' = [stream EXCEPT ![e] = s] /\ Advances(s, s)
      BY <1>1, <1>2, <2>1, NoStep
    <2> HIDE DEF s
    <2>8. \A f \in net'[Peer(e)] :
              f \in net[Peer(e)] \/ (Truthful(f, s) /\ f.type # "open")
      BY <2>3, <2>4, <2>5, <2>6
    <2>9. QED
      BY <1>1, <1>2, <2>6, <2>7, <2>8, LiveStep, Zenon DEF s
  <1>4. CASE ~s.reset
    <2>1. /\ stream' = [stream EXCEPT ![e] = t]
          /\ \/ status' = status
             \/ status' = [status EXCEPT ![e] = IF t.close_ticks >= CLOSE_GRACE_TICKS THEN "grace" ELSE "done"]
      BY <1>4 DEF PollTransmit
    <2>2. PICK kept \in Deliverable(Peer(e), Frames(s, due)) : net' = [net EXCEPT ![Peer(e)] = kept]
      BY <1>4 DEF PollTransmit
    <2>3. kept \subseteq net[Peer(e)] \cup Frames(s, due)
      BY DEF Deliverable
    <2>4. \A f \in Frames(s, due) : f \in FrameSet /\ Truthful(f, s) /\ (f.type = "open" => s.needs_open)
      BY <1>2, FramesFacts DEF Way
    <2>5. Advances(s, t) /\ Way(t, stream[Peer(e)]) /\ Way(stream[Peer(e)], t) /\ ~t.needs_open
      BY <1>2, TransmittedFacts
    <2> HIDE DEF s, t
    <2>6. net' \in [Ends -> SUBSET FrameSet] /\ net'[e] = net[e] /\ net'[Peer(e)] = kept
      BY <1>1, <2>2, <2>3, <2>4
    <2>7. status' \in [Ends -> Statuses] /\ status'[e] # "none" /\ status'[Peer(e)] = status[Peer(e)]
      BY <1>1, <2>1 DEF Statuses
    <2>8. \A f \in net'[Peer(e)] :
              \/ f \in net[Peer(e)]
              \/ Truthful(f, s) /\ (f.type = "open" => s.needs_open /\ ~t.needs_open)
      BY <2>3, <2>4, <2>5, <2>6
    <2>9. QED
      BY <1>1, <1>2, <2>1, <2>5, <2>6, <2>7, <2>8, LiveStep, Zenon DEF s
  <1>5. QED
    BY <1>3, <1>4

LEMMA NextIInv == IInv /\ [Next]_vars => IInv'
  <1> SUFFICES ASSUME IInv, [Next]_vars PROVE IInv'
    OBVIOUS
  <1>1. CASE UNCHANGED vars
    BY <1>1, Zenon DEF vars, IInv, MuxTypeOK, BothWays, FramesTruthful, OpenedOnce
  <1>2. CASE Next
    BY <1>2, OpenStreamKeeps, WriteKeeps, CloseKeeps, ResetKeeps, ReadKeeps, OnFrameKeeps,
       PollTransmitKeeps DEF Next
  <1>3. QED
    BY <1>1, <1>2

LEMMA MuxIInv == Spec => []IInv
  BY InitIInv, NextIInv, PTL DEF Spec

\* Types of both ends and of every frame in flight, for every window, chunk and use.
THEOREM MuxTypeCorrect == Spec => []MuxTypeOK
  BY MuxIInv, PTL DEF IInv

\* No byte is drained that the other end lacks, and no end buffers more than the window
\* and a chunk, whatever is lost, reordered or sent again.
THEOREM MuxBuffersExact == Spec => []BuffersExact
  <1>1. IInv => BuffersExact
    <2> SUFFICES ASSUME IInv, NEW e \in Ends
                 PROVE  /\ stream[e].send_base <= AckPoint(stream[Peer(e)])
                        /\ Cardinality(stream[e].segs) <= DEFAULT_WINDOW + MAX_STREAM_CHUNK
      BY DEF BuffersExact, AckedIsReceived, BufferBounded
    <2>1. Way(stream[e], stream[Peer(e)]) /\ BufferOK(stream[e])
      BY EndsFacts
    <2>2. QED
      BY <2>1, BufferSize DEF Way
  <1>2. QED
    BY <1>1, MuxIInv, PTL

-----------------------------------------------------------------------------

\* What happens to an end that is not live, or that leaves.
LEMMA StatusSteps ==
    ASSUME IInv, Next, NEW x \in Ends
    PROVE  \/ status'[x] = status[x]
           \/ status[x] = "none" /\ status'[x] = "live"
           \/ status[x] = "live" /\ status'[x] \in {"done", "grace", "reset"}
  <1>1. status \in [Ends -> Statuses]
    BY DEF IInv, MuxTypeOK
  <1>2. CASE OpenStream
    BY <1>1, <1>2 DEF OpenStream
  <1>3. ASSUME NEW e \in Ends, Write(e) \/ Close(e) \/ Reset(e) \/ Read(e)
        PROVE  status'[x] = status[x]
    BY <1>3 DEF Write, Close, Reset, Read
  <1>4. ASSUME NEW e \in Ends, NEW f \in net[e], OnFrame(e, f)
        PROVE  \/ status'[x] = status[x]
               \/ status[x] = "none" /\ status'[x] = "live"
    <2>1. CASE status[e] = "live"
      BY <1>4, <2>1, OnFrameLive
    <2>2. CASE status[e] # "live"
      <3>1. \/ status' = status
            \/ status[e] = "none" /\ status' = [status EXCEPT ![e] = "live"]
        BY <1>4, <2>2, OnFrameElse
      <3>2. QED
        BY <1>1, <3>1
    <2>3. QED
      BY <2>1, <2>2
  <1>5. ASSUME NEW e \in Ends, NEW due \in BOOLEAN, PollTransmit(e, due)
        PROVE  \/ status'[x] = status[x]
               \/ status[x] = "live" /\ status'[x] \in {"done", "grace", "reset"}
    BY <1>1, <1>5 DEF PollTransmit
  <1>6. QED
    BY <1>2, <1>3, <1>4, <1>5 DEF Next

\* A stream that is gone stays gone at that end.
THEOREM MuxNeverReborn == Spec => NeverReborn
  <1>1. IInv /\ [Next]_vars =>
            [\A e \in Ends : status[e] \in {"done", "grace", "reset"} => status'[e] = status[e]]_vars
    BY StatusSteps DEF vars
  <1>2. QED
    BY <1>1, MuxIInv, PTL DEF Spec, NeverReborn

-----------------------------------------------------------------------------

\* A StreamClose says that its sender closed and a StreamReset that it was reset, in
\* flight and once it is received.
FlagsTrue ==
    \A e \in Ends :
        /\ stream[e].close_received => stream[Peer(e)].send_fin
        /\ \A f \in net[e] : /\ f.type = "close" => stream[Peer(e)].send_fin
                             /\ f.type = "reset" => stream[Peer(e)].reset

\* The methods that leave the flags alone.
LEMMA FlagsKept ==
    ASSUME NEW s \in StreamStates, NEW f, NEW due
    PROVE  \A t \in {ReadAll(s), OnData(s, f), OnAck(s, f), Transmitted(s, due)} :
               /\ t.send_fin = s.send_fin /\ t.reset = s.reset
               /\ t.close_received = s.close_received
  <1>1. LET t == ReadAll(s)
        IN  t.send_fin = s.send_fin /\ t.reset = s.reset /\ t.close_received = s.close_received
    BY DEF ReadAll, StreamStates
  <1>2. LET t == OnData(s, f)
        IN  t.send_fin = s.send_fin /\ t.reset = s.reset /\ t.close_received = s.close_received
    BY DEF OnData, Insert, StreamStates
  <1>3. LET t == OnAck(s, f)
        IN  t.send_fin = s.send_fin /\ t.reset = s.reset /\ t.close_received = s.close_received
    BY DEF OnAck, StreamStates
  <1>4. LET t == Transmitted(s, due)
        IN  t.send_fin = s.send_fin /\ t.reset = s.reset /\ t.close_received = s.close_received
    BY DEF Transmitted, StreamStates
  <1>5. QED
    BY <1>1, <1>2, <1>3, <1>4, Zenon

\* A step of one end after which its flags and what it sent are true.
LEMMA FlagsStep ==
    ASSUME IInv, FlagsTrue, NEW e \in Ends, NEW t, stream' = [stream EXCEPT ![e] = t],
           stream[e].send_fin => t.send_fin, stream[e].reset => t.reset,
           t.close_received => stream[e].close_received \/ stream[Peer(e)].send_fin,
           net'[e] \subseteq net[e],
           \A f \in net'[Peer(e)] :
              \/ f \in net[Peer(e)]
              \/ (f.type = "close" => t.send_fin) /\ (f.type = "reset" => t.reset)
    PROVE  FlagsTrue'
  <1> DEFINE p == Peer(e)
  <1>1. p \in Ends /\ p # e /\ Peer(p) = e /\ Peer(e) = p /\ Ends = {e, p}
    BY PeerFacts
  <1> HIDE DEF p
  <1>2. stream'[e] = t /\ stream'[p] = stream[p]
    BY <1>1 DEF IInv, MuxTypeOK
  <1>3. /\ stream'[e].close_received => stream'[p].send_fin
        /\ \A f \in net'[e] : /\ f.type = "close" => stream'[p].send_fin
                              /\ f.type = "reset" => stream'[p].reset
    BY <1>1, <1>2 DEF FlagsTrue
  <1>4. /\ stream'[p].close_received => stream'[e].send_fin
        /\ \A f \in net'[p] : /\ f.type = "close" => stream'[e].send_fin
                              /\ f.type = "reset" => stream'[e].reset
    BY <1>1, <1>2 DEF FlagsTrue
  <1>5. QED
    BY <1>1, <1>3, <1>4, Zenon DEF FlagsTrue

\* What a frame does to the flags of a stream that is in the map.
LEMMA OnFrameFlags ==
    ASSUME IInv, NEW e \in Ends, NEW f \in net[e], OnFrame(e, f), status[e] = "live"
    PROVE  \E t : /\ stream' = [stream EXCEPT ![e] = t] /\ t.send_fin = stream[e].send_fin
                  /\ t.reset = stream[e].reset \/ (f.type = "reset" /\ t.reset = TRUE)
                  /\ t.close_received => stream[e].close_received \/ f.type = "close"
  <1> DEFINE s == stream[e]
             t == CASE f.type = "data"  -> OnData(s, f)
                    [] f.type = "ack"   -> OnAck(s, f)
                    [] f.type = "close" -> [s EXCEPT !.close_received = TRUE]
                    [] f.type = "reset" -> [s EXCEPT !.reset = TRUE]
                    [] f.type = "open"  -> s
  <1>1. stream' = [stream EXCEPT ![e] = t]
    BY Zenon DEF OnFrame
  <1>2. s \in StreamStates /\ f \in FrameSet
    BY DEF IInv, MuxTypeOK
  <1>3. f.type \in {"data", "ack", "open", "close", "reset"}
    BY <1>2 DEF FrameSet, DataFrameSet, AckFrameSet
  <1> HIDE DEF s
  <1>4. /\ t.send_fin = s.send_fin
        /\ t.reset = s.reset \/ (f.type = "reset" /\ t.reset = TRUE)
        /\ t.close_received => s.close_received \/ f.type = "close"
    <2>1. CASE f.type \in {"data", "ack", "open"}
      <3>1. t \in {s, OnData(s, f), OnAck(s, f)}
        BY <2>1
      <3> HIDE DEF t
      <3>2. QED
        BY <1>2, <3>1, FlagsKept
    <2>2. CASE f.type = "close"
      <3>1. t = [s EXCEPT !.close_received = TRUE]
        BY <2>2
      <3> HIDE DEF t
      <3>2. QED
        BY <1>2, <2>2, <3>1 DEF StreamStates
    <2>3. CASE f.type = "reset"
      <3>1. t = [s EXCEPT !.reset = TRUE]
        BY <2>3
      <3> HIDE DEF t
      <3>2. QED
        BY <1>2, <2>3, <3>1 DEF StreamStates
    <2>4. QED
      BY <1>3, <2>1, <2>2, <2>3
  <1> HIDE DEF t
  <1>5. QED
    BY <1>1, <1>4, Zenon DEF s

LEMMA NextFlags == IInv /\ FlagsTrue /\ [Next]_vars => FlagsTrue'
  <1> SUFFICES ASSUME IInv, FlagsTrue, [Next]_vars PROVE FlagsTrue'
    OBVIOUS
  <1>1. stream \in [Ends -> StreamStates] /\ net \in [Ends -> SUBSET FrameSet] /\ \A x \in Ends : Peer(x) \in Ends
    BY PeerFacts DEF IInv, MuxTypeOK
  <1>2. CASE UNCHANGED vars \/ OpenStream
    BY <1>2, Zenon DEF vars, OpenStream, FlagsTrue
  <1>3. ASSUME NEW e \in Ends, Write(e) \/ Close(e) \/ Reset(e) \/ Read(e) PROVE FlagsTrue'
    <2> DEFINE s == stream[e]
    <2>1. s \in StreamStates /\ net' = net
      BY <1>1, <1>3 DEF Write, Close, Reset, Read
    <2>2. PICK t : /\ stream' = [stream EXCEPT ![e] = t]
                   /\ t \in {[s EXCEPT !.send_next = @ + 1], [s EXCEPT !.send_fin = TRUE],
                             [s EXCEPT !.reset = TRUE], ReadAll(s)}
      BY <1>3, Zenon DEF Write, Close, Reset, Read
    <2> HIDE DEF s
    <2>3. /\ s.send_fin => t.send_fin
          /\ s.reset => t.reset
          /\ t.close_received => s.close_received
      BY <2>1, <2>2, FlagsKept DEF StreamStates
    <2>4. QED
      BY <2>1, <2>2, <2>3, FlagsStep, Zenon DEF s
  <1>4. ASSUME NEW e \in Ends, NEW f \in net[e], OnFrame(e, f) PROVE FlagsTrue'
    <2>1. \A x \in Ends : net'[x] \subseteq net[x]
      BY <1>1, <1>4 DEF OnFrame
    <2>2. CASE status[e] = "live"
      <3>1. PICK t : /\ stream' = [stream EXCEPT ![e] = t] /\ t.send_fin = stream[e].send_fin
                     /\ t.reset = stream[e].reset \/ (f.type = "reset" /\ t.reset = TRUE)
                     /\ t.close_received => stream[e].close_received \/ f.type = "close"
        BY <1>4, <2>2, OnFrameFlags
      <3>2. f.type = "close" => stream[Peer(e)].send_fin
        BY DEF FlagsTrue
      <3>3. \A g \in net'[Peer(e)] : g \in net[Peer(e)]
        BY <1>1, <2>1
      <3>4. QED
        BY <2>1, <3>1, <3>2, <3>3, FlagsStep, Zenon
    <2>3. CASE status[e] # "live"
      <3>1. stream' = stream
        BY <1>4, <2>3, OnFrameElse
      <3>2. QED
        BY <2>1, <3>1 DEF FlagsTrue
    <2>4. QED
      BY <2>2, <2>3
  <1>5. ASSUME NEW e \in Ends, NEW due \in BOOLEAN, PollTransmit(e, due) PROVE FlagsTrue'
    <2> DEFINE s == stream[e]
               t == IF s.reset THEN s ELSE Transmitted(s, due)
               sent == IF s.reset THEN {ResetFrame} ELSE Frames(s, due)
    <2>1. /\ s \in StreamStates /\ BufferOK(s)
          /\ s.send_base <= s.send_high /\ s.send_high <= s.send_next
      BY EndsFacts DEF Way
    <2>2. stream' = [stream EXCEPT ![e] = t]
      BY <1>1, <1>5 DEF PollTransmit
    <2>3. PICK kept \in Deliverable(Peer(e), sent) : net' = [net EXCEPT ![Peer(e)] = kept]
      BY <1>5, Zenon DEF PollTransmit
    <2>4. net'[e] \subseteq net[e] /\ net'[Peer(e)] \subseteq net[Peer(e)] \cup sent
      BY <1>1, <2>3, PeerFacts DEF Deliverable
    <2> HIDE DEF s
    <2>5. t.send_fin = s.send_fin /\ t.reset = s.reset /\ t.close_received = s.close_received
      BY <2>1, FlagsKept
    <2>6. ASSUME NEW f \in sent
          PROVE  (f.type = "close" => s.send_fin) /\ (f.type = "reset" => s.reset)
      <3>1. CASE s.reset
        BY <3>1 DEF ResetFrame
      <3>2. CASE ~s.reset
        <4>1. \/ f \in DataFrames(s, due)
              \/ f = OpenFrame
              \/ f = AckFrame(AckPoint(s), DEFAULT_WINDOW - MinOf(Unread(s), DEFAULT_WINDOW))
              \/ f = CloseFrame /\ s.send_fin
          BY <3>2, Zenon DEF Frames
        <4>2. CASE f \in DataFrames(s, due)
          BY <2>1, <4>2, DataFramesFacts DEF DataFrameSet
        <4>3. QED
          BY <4>1, <4>2 DEF OpenFrame, AckFrame, CloseFrame
      <3>3. QED
        BY <3>1, <3>2
    <2> HIDE DEF t, sent
    <2>7. \A f \in net'[Peer(e)] :
              \/ f \in net[Peer(e)]
              \/ (f.type = "close" => t.send_fin) /\ (f.type = "reset" => t.reset)
      BY <2>4, <2>5, <2>6
    <2>8. QED
      BY <2>2, <2>4, <2>5, <2>7, FlagsStep, Zenon DEF s
  <1>6. QED
    BY <1>2, <1>3, <1>4, <1>5 DEF Next

LEMMA MuxFlags == Spec => []FlagsTrue
  <1>1. Init => FlagsTrue
    BY DEF Init, FlagsTrue, NewStream, Ends, Peer
  <1>2. QED
    BY <1>1, NextFlags, MuxIInv, PTL DEF Spec

-----------------------------------------------------------------------------

\* The end is reported exactly when it is known and all before it is read.
LEMMA RecvFinishedFacts ==
    ASSUME NEW s \in StreamStates, NEW r \in StreamStates, BufferOK(r), Way(s, r)
    PROVE  RecvFinished(r) <=> r.peer_fin # StillOpen /\ r.delivered = s.send_next
  <1>1. /\ s.send_next \in Nat /\ r.delivered \in Nat /\ AckPoint(r) \in Nat
        /\ r.delivered <= AckPoint(r) /\ AckPoint(r) <= s.send_next
        /\ r.delivered <= s.send_next
    BY AckPointFacts, AckPointBelow DEF StreamStates
  <1>2. r.peer_fin # StillOpen => r.peer_fin = s.send_next
    BY DEF Way
  <1>3. Unread(r) = 0 <=> AckPoint(r) = r.delivered
    BY <1>1 DEF Unread
  <1>4. QED
    BY <1>1, <1>2, <1>3 DEF RecvFinished

\* What the pipe sees of a state.
Written == [e \in Ends |-> stream[e].send_next]
Closed == [e \in Ends |-> stream[e].send_fin]
Handed == [e \in Ends |-> stream[Peer(e)].delivered]
Ended == [e \in Ends |-> ToldOfEnd(Peer(e))]
Aborted == \E e \in Ends : stream[e].reset

LEMMA PipeStutters ==
    ASSUME IInv,
           \A x \in Ends : /\ stream'[x].send_next = stream[x].send_next
                           /\ stream'[x].send_fin = stream[x].send_fin
                           /\ stream'[x].delivered = stream[x].delivered
                           /\ ToldOfEnd(x)' = ToldOfEnd(x),
           Aborted' = Aborted
    PROVE  UNCHANGED Pipe!pipeVars
  <1>1. \A x \in Ends : Peer(x) \in Ends
    BY PeerFacts
  <1>2. Written' = Written /\ Closed' = Closed /\ Handed' = Handed
    BY <1>1 DEF Written, Closed, Handed
  <1>3. Ended' = Ended
    BY <1>1 DEF Ended
  <1>4. QED
    BY <1>2, <1>3, Zenon DEF Pipe!pipeVars, Written, Closed, Handed, Ended, Aborted

\* A step that turns no reset on, or only where the other end's is.
LEMMA AbortedStays ==
    ASSUME IInv, NEW e \in Ends, NEW t, stream' = [stream EXCEPT ![e] = t],
           t.reset = stream[e].reset \/ (stream[Peer(e)].reset /\ t.reset = TRUE)
    PROVE  Aborted' = Aborted
  <1>1. /\ Peer(e) \in Ends /\ Peer(e) # e /\ Ends = {e, Peer(e)}
        /\ stream \in [Ends -> StreamStates]
    BY PeerFacts DEF IInv, MuxTypeOK
  <1>2. stream'[e] = t /\ stream'[Peer(e)] = stream[Peer(e)]
    BY <1>1
  <1>3. Aborted' <=> Aborted
    BY <1>1, <1>2 DEF Aborted
  <1>4. QED
    BY <1>3, Zenon DEF Aborted

LEMMA ToldNow ==
    ASSUME IInv, NEW x \in Ends
    PROVE  RecvFinished(stream[x]) <=>
               stream[x].peer_fin # StillOpen /\ stream[x].delivered = stream[Peer(x)].send_next
  BY EndsFacts, RecvFinishedFacts

LEMMA ToldNext ==
    ASSUME IInv', NEW x \in Ends
    PROVE  RecvFinished(stream'[x]) <=>
               stream'[x].peer_fin # StillOpen /\ stream'[x].delivered = stream'[Peer(x)].send_next
  <1>1. Peer(x) \in Ends /\ Peer(Peer(x)) = x
    BY PeerFacts
  <1>2. /\ stream'[x] \in StreamStates /\ BufferOK(stream'[x])
        /\ stream'[Peer(x)] \in StreamStates /\ Way(stream'[Peer(x)], stream'[x])
    BY <1>1 DEF IInv, MuxTypeOK, BothWays
  <1>3. QED
    BY <1>2, RecvFinishedFacts

\* A step of a live end that neither writes, closes nor reads, and after which the end is
\* known where it was: the pipe stutters.
LEMMA QuietStep ==
    ASSUME IInv, IInv', NEW e \in Ends, NEW t, stream' = [stream EXCEPT ![e] = t],
           t.send_next = stream[e].send_next, t.send_fin = stream[e].send_fin,
           t.delivered = stream[e].delivered, t.peer_fin = stream[e].peer_fin,
           t.reset = stream[e].reset \/ (stream[Peer(e)].reset /\ t.reset = TRUE),
           \A x \in Ends : \/ status'[x] = status[x]
                           \/ status[x] = "none" /\ status'[x] = "live"
                           \/ RecvFinished(stream[x])
    PROVE  UNCHANGED Pipe!pipeVars
  <1>1. stream \in [Ends -> StreamStates] /\ Peer(e) \in Ends /\ Peer(e) # e /\ Ends = {e, Peer(e)}
    BY PeerFacts DEF IInv, MuxTypeOK
  <1>2. stream'[e] = t /\ stream'[Peer(e)] = stream[Peer(e)]
    BY <1>1
  <1>3. \A x \in Ends : /\ stream'[x].send_next = stream[x].send_next
                        /\ stream'[x].send_fin = stream[x].send_fin
                        /\ stream'[x].delivered = stream[x].delivered
                        /\ stream'[x].peer_fin = stream[x].peer_fin
    BY <1>1, <1>2
  <1>4. ASSUME NEW x \in Ends PROVE ToldOfEnd(x)' = ToldOfEnd(x)
    <2>1. Peer(x) \in Ends
      BY PeerFacts
    <2>2. RecvFinished(stream'[x]) = RecvFinished(stream[x])
      <3>1. RecvFinished(stream'[x]) <=> RecvFinished(stream[x])
        BY <1>3, <2>1, ToldNow, ToldNext
      <3>2. RecvFinished(stream'[x]) \in BOOLEAN /\ RecvFinished(stream[x]) \in BOOLEAN
        BY Zenon DEF RecvFinished
      <3>3. QED
        BY <3>1, <3>2
    <2>3. QED
      BY <2>2 DEF ToldOfEnd
  <1>5. Aborted' = Aborted
    BY AbortedStays
  <1>6. QED
    BY <1>3, <1>4, <1>5, PipeStutters

LEMMA WriteRefines ==
    ASSUME IInv, IInv', NEW e \in Ends, Write(e)
    PROVE  Pipe!Write(e)
  <1>1. stream \in [Ends -> StreamStates] /\ stream[e] \in StreamStates
    BY DEF IInv, MuxTypeOK
  <1>2. /\ ~stream[e].send_fin /\ status' = status
        /\ stream' = [stream EXCEPT ![e].send_next = @ + 1]
    BY DEF Write
  <1>3. /\ stream'[e].send_next = stream[e].send_next + 1
        /\ \A x \in Ends : /\ x # e => stream'[x].send_next = stream[x].send_next
                           /\ stream'[x].send_fin = stream[x].send_fin
                           /\ stream'[x].delivered = stream[x].delivered
                           /\ stream'[x].segs = stream[x].segs
                           /\ stream'[x].peer_fin = stream[x].peer_fin
                           /\ stream'[x].reset = stream[x].reset
    BY <1>1, <1>2 DEF StreamStates
  <1>4. \A x \in Ends : Peer(x) \in Ends
    BY PeerFacts
  <1>5. \A x \in Ends : ToldOfEnd(x)' = ToldOfEnd(x)
    <2> SUFFICES ASSUME NEW x \in Ends PROVE ToldOfEnd(x)' = ToldOfEnd(x)
      OBVIOUS
    <2>1. AckPoint(stream'[x]) = AckPoint(stream[x])
      BY <1>3, Zenon DEF AckPoint
    <2>2. RecvFinished(stream'[x]) = RecvFinished(stream[x])
      BY <1>3, <2>1, Zenon DEF RecvFinished, Unread
    <2>3. QED
      BY <1>2, <2>2, Zenon DEF ToldOfEnd
  <1>6. Closed' = Closed /\ Handed' = Handed /\ ~Closed[e]
    BY <1>2, <1>3, <1>4 DEF Closed, Handed
  <1>7. Ended' = Ended /\ Aborted' = Aborted
    BY <1>3, <1>4, <1>5, Zenon DEF Ended, Aborted
  <1>8. Written' = [Written EXCEPT ![e] = Written[e] + 1]
    BY <1>3, Zenon DEF Written
  <1>9. QED
    BY <1>6, <1>7, <1>8 DEF Pipe!Write, Written, Closed, Handed, Ended, Aborted

LEMMA CloseRefines ==
    ASSUME IInv, IInv', NEW e \in Ends, Close(e)
    PROVE  Pipe!Close(e)
  <1>1. stream \in [Ends -> StreamStates] /\ stream[e] \in StreamStates
    BY DEF IInv, MuxTypeOK
  <1>2. status' = status /\ stream' = [stream EXCEPT ![e].send_fin = TRUE]
    BY DEF Close
  <1>3. /\ stream'[e].send_fin = TRUE
        /\ \A x \in Ends : /\ x # e => stream'[x].send_fin = stream[x].send_fin
                           /\ stream'[x].send_next = stream[x].send_next
                           /\ stream'[x].delivered = stream[x].delivered
                           /\ stream'[x].segs = stream[x].segs
                           /\ stream'[x].peer_fin = stream[x].peer_fin
                           /\ stream'[x].reset = stream[x].reset
    BY <1>1, <1>2, Zenon DEF StreamStates
  <1>4. \A x \in Ends : Peer(x) \in Ends
    BY PeerFacts
  <1>5. \A x \in Ends : ToldOfEnd(x)' = ToldOfEnd(x)
    <2> SUFFICES ASSUME NEW x \in Ends PROVE ToldOfEnd(x)' = ToldOfEnd(x)
      OBVIOUS
    <2>1. AckPoint(stream'[x]) = AckPoint(stream[x])
      BY <1>3, Zenon DEF AckPoint
    <2>2. RecvFinished(stream'[x]) = RecvFinished(stream[x])
      BY <1>3, <2>1, Zenon DEF RecvFinished, Unread
    <2>3. QED
      BY <1>2, <2>2, Zenon DEF ToldOfEnd
  <1>6. Written' = Written /\ Handed' = Handed
    BY <1>3, <1>4 DEF Written, Handed
  <1>7. Ended' = Ended /\ Aborted' = Aborted
    BY <1>3, <1>4, <1>5, Zenon DEF Ended, Aborted
  <1>8. Closed' = [Closed EXCEPT ![e] = TRUE]
    BY <1>3, Zenon DEF Closed
  <1>9. QED
    BY <1>6, <1>7, <1>8 DEF Pipe!Close, Written, Closed, Handed, Ended, Aborted

\* An application resets the stream.
LEMMA ResetRefines ==
    ASSUME IInv, IInv', NEW e \in Ends, Reset(e)
    PROVE  Pipe!Abort
  <1> DEFINE t == [stream[e] EXCEPT !.reset = TRUE]
  <1>1. /\ stream \in [Ends -> StreamStates] /\ stream[e] \in StreamStates
        /\ stream' = [stream EXCEPT ![e] = t] /\ status' = status
    BY DEF Reset, IInv, MuxTypeOK
  <1>2. /\ t.send_next = stream[e].send_next /\ t.send_fin = stream[e].send_fin
        /\ t.delivered = stream[e].delivered /\ t.segs = stream[e].segs
        /\ t.peer_fin = stream[e].peer_fin
    BY FlagFacts
  <1>3. t.reset = TRUE
    BY <1>1 DEF StreamStates
  <1> HIDE DEF t
  <1>4. \A x \in Ends : /\ Peer(x) \in Ends
                        /\ stream'[x].send_next = stream[x].send_next
                        /\ stream'[x].send_fin = stream[x].send_fin
                        /\ stream'[x].delivered = stream[x].delivered
                        /\ stream'[x].segs = stream[x].segs
                        /\ stream'[x].peer_fin = stream[x].peer_fin
    BY <1>1, <1>2, PeerFacts
  <1>5. \A x \in Ends : ToldOfEnd(x)' = ToldOfEnd(x)
    <2> SUFFICES ASSUME NEW x \in Ends PROVE ToldOfEnd(x)' = ToldOfEnd(x)
      OBVIOUS
    <2>1. AckPoint(stream'[x]) = AckPoint(stream[x])
      BY <1>4, Zenon DEF AckPoint
    <2>2. RecvFinished(stream'[x]) = RecvFinished(stream[x])
      BY <1>4, <2>1, Zenon DEF RecvFinished, Unread
    <2>3. QED
      BY <1>1, <2>2, Zenon DEF ToldOfEnd
  <1>6. Written' = Written /\ Closed' = Closed /\ Handed' = Handed
    BY <1>4 DEF Written, Closed, Handed
  <1>7. Ended' = Ended
    BY <1>4, <1>5, Zenon DEF Ended
  <1>8. Aborted' = TRUE
    <2>1. stream'[e].reset = TRUE
      BY <1>1, <1>3
    <2>2. QED
      BY <2>1, Zenon DEF Aborted
  <1>9. QED
    BY <1>6, <1>7, <1>8, Zenon DEF Pipe!Abort, Written, Closed, Handed, Ended, Aborted

\* Reading takes the bytes the peer wrote next, with the end if they are the last.
LEMMA ReadRefines ==
    ASSUME IInv, IInv', NEW e \in Ends, Read(e)
    PROVE  Pipe!Read(Peer(e))
  <1> DEFINE w == Peer(e)
             n == AckPoint(stream[e])
  <1>1. w \in Ends /\ w # e /\ Peer(w) = e /\ Ends = {e, w} /\ Peer(e) = w
    BY PeerFacts
  <1>2. /\ stream \in [Ends -> StreamStates] /\ stream[e] \in StreamStates
        /\ stream[w] \in StreamStates /\ BufferOK(stream[e]) /\ Way(stream[w], stream[e])
    BY EndsFacts DEF IInv, MuxTypeOK
  <1>3. /\ status[e] = "live" /\ Unread(stream[e]) > 0 /\ status' = status
        /\ stream' = [stream EXCEPT ![e] = ReadAll(stream[e])]
    BY DEF Read
  <1>4. /\ n \in Nat /\ stream[e].delivered \in Nat /\ stream[w].send_next \in Nat
        /\ n <= stream[w].send_next
    BY <1>2, AckPointFacts, AckPointBelow DEF StreamStates
  <1>5. n \in stream[e].delivered + 1 .. stream[w].send_next
    BY <1>3, <1>4 DEF Unread
  <1>6. /\ stream'[e].delivered = n /\ stream'[e].peer_fin = stream[e].peer_fin
        /\ stream'[w] = stream[w]
        /\ \A x \in Ends : /\ stream'[x].send_next = stream[x].send_next
                           /\ stream'[x].send_fin = stream[x].send_fin
    BY <1>1, <1>2, <1>3 DEF ReadAll, StreamStates
  <1> HIDE DEF n, w
  <1>7. Written' = Written /\ Closed' = Closed
    BY <1>6 DEF Written, Closed
  <1>8. Handed' = [Handed EXCEPT ![w] = n] /\ Handed[w] = stream[e].delivered
    BY <1>1, <1>6, Zenon DEF Handed
  <1>9. Written[w] = stream[w].send_next /\ Closed[w] = stream[w].send_fin
    BY <1>1 DEF Written, Closed
  <1>10. ToldOfEnd(w)' = ToldOfEnd(w)
    BY <1>3, <1>6, Zenon DEF ToldOfEnd
  <1>11. ToldOfEnd(e) = "no"
    <2>1. ~RecvFinished(stream[e])
      BY <1>3, <1>4 DEF RecvFinished, Unread, n
    <2>2. QED
      BY <1>3, <2>1 DEF ToldOfEnd
  <1>12. \/ ToldOfEnd(e)' = "no"
         \/ stream[w].send_fin /\ n = stream[w].send_next /\ ToldOfEnd(e)' = "end"
    <2>1. RecvFinished(stream'[e]) => stream[w].send_fin /\ n = stream[w].send_next
      BY <1>1, <1>2, <1>6, ToldNext DEF Way
    <2>2. ToldOfEnd(e)' = IF RecvFinished(stream'[e]) THEN "end" ELSE "no"
      BY <1>3 DEF ToldOfEnd
    <2>3. QED
      BY <2>1, <2>2
  <1>13. \/ Ended' = Ended
         \/ Closed[w] /\ n = Written[w] /\ Ended' = [Ended EXCEPT ![w] = "end"]
    <2>1. Ended = [x \in Ends |-> IF x = w THEN "no" ELSE ToldOfEnd(w)]
      BY <1>1, <1>11, Zenon DEF Ended
    <2>2. Ended' = [x \in Ends |-> IF x = w THEN ToldOfEnd(e)' ELSE ToldOfEnd(w)]
      BY <1>1, <1>10 DEF Ended
    <2>3. QED
      BY <1>1, <1>9, <1>12, <2>1, <2>2, Zenon
  <1>14. Aborted' = Aborted
    <2>1. ReadAll(stream[e]).reset = stream[e].reset
      BY <1>2, FlagsKept
    <2>2. QED
      BY <1>3, <2>1, AbortedStays, Zenon
  <1>15. Ended[w] = "no"
    BY <1>1, <1>11 DEF Ended
  <1>16. Pipe!Read(w)
    BY <1>5, <1>7, <1>8, <1>9, <1>13, <1>14, <1>15, Zenon
       DEF Pipe!Read, Written, Closed, Handed, Ended, Aborted
  <1>17. QED
    BY <1>16 DEF w

\* A frame changes what the applications see only when it brings the end of a direction
\* that has been read to its end.
LEMMA OnFrameRefines ==
    ASSUME IInv, IInv', FlagsTrue, NEW e \in Ends, NEW f \in net[e], OnFrame(e, f)
    PROVE  Pipe!End(Peer(e)) \/ UNCHANGED Pipe!pipeVars
  <1> DEFINE w == Peer(e)
  <1>1. w \in Ends /\ w # e /\ Peer(w) = e /\ Ends = {e, w} /\ Peer(e) = w
    BY PeerFacts
  <1>2. /\ stream \in [Ends -> StreamStates] /\ stream[e] \in StreamStates
        /\ stream[w] \in StreamStates /\ Way(stream[w], stream[e])
    BY EndsFacts DEF IInv, MuxTypeOK
  <1>3. CASE status[e] # "live"
    <2>1. /\ stream' = stream
          /\ \/ status' = status
             \/ status[e] = "none" /\ status' = [status EXCEPT ![e] = "live"]
      BY <1>3, OnFrameElse
    <2>2. status \in [Ends -> Statuses]
      BY DEF IInv, MuxTypeOK
    <2>3. \A x \in Ends : status'[x] = status[x] \/ (status[x] = "none" /\ status'[x] = "live")
      BY <2>1, <2>2
    <2>4. stream' = [stream EXCEPT ![e] = stream[e]]
      BY <1>2, <2>1
    <2>5. QED
      BY <2>3, <2>4, QuietStep, Zenon
  <1>4. CASE status[e] = "live"
    <2>1. PICK t : /\ stream' = [stream EXCEPT ![e] = t] /\ status' = status
                   /\ t.delivered = stream[e].delivered
                   /\ stream[e].peer_fin # StillOpen => t.peer_fin = stream[e].peer_fin
                   /\ t.send_next = stream[e].send_next /\ t.send_fin = stream[e].send_fin
      BY <1>4, OnFrameLive
    <2>2. stream'[e] = t /\ stream'[w] = stream[w]
      BY <1>1, <1>2, <2>1
    <2>3. t.reset = stream[e].reset \/ (stream[w].reset /\ t.reset = TRUE)
      <3>1. PICK u : /\ stream' = [stream EXCEPT ![e] = u]
                     /\ u.reset = stream[e].reset \/ (f.type = "reset" /\ u.reset = TRUE)
        BY <1>4, OnFrameFlags
      <3>2. u = t
        BY <1>2, <2>2, <3>1
      <3>3. f.type = "reset" => stream[w].reset
        BY DEF FlagsTrue
      <3>4. QED
        BY <3>1, <3>2, <3>3
    <2>4. CASE t.peer_fin = stream[e].peer_fin
      BY <2>1, <2>4, <2>3, QuietStep, Zenon
    <2>5. CASE t.peer_fin # stream[e].peer_fin
      <3>1. stream[e].peer_fin = StillOpen /\ t.peer_fin # StillOpen
        BY <2>1, <2>5
      <3>2. \A x \in Ends : /\ stream'[x].send_next = stream[x].send_next
                            /\ stream'[x].send_fin = stream[x].send_fin
                            /\ stream'[x].delivered = stream[x].delivered
        BY <1>1, <2>1, <2>2
      <3>3. ToldOfEnd(w)' = ToldOfEnd(w)
        BY <2>1, <2>2, Zenon DEF ToldOfEnd
      <3>4. ToldOfEnd(e) = "no"
        BY <1>4, <3>1 DEF ToldOfEnd, RecvFinished
      <3>5. ToldOfEnd(e)' = IF RecvFinished(t) THEN "end" ELSE "no"
        BY <1>4, <2>1, <2>2 DEF ToldOfEnd
      <3>6. Aborted' = Aborted
        BY <2>1, <2>3, AbortedStays, Zenon
      <3>7. CASE ~RecvFinished(t)
        <4>1. \A x \in Ends : ToldOfEnd(x)' = ToldOfEnd(x)
          BY <1>1, <3>3, <3>4, <3>5, <3>7, Zenon
        <4>2. QED
          BY <3>2, <3>6, <4>1, PipeStutters
      <3>8. CASE RecvFinished(t)
        <4> HIDE DEF w
        <4>1. Way(stream[w], t)
          BY <1>1, <2>2 DEF IInv, BothWays
        <4>2. stream[w].send_fin /\ t.delivered = stream[w].send_next
          BY <1>1, <2>2, <3>1, <3>8, <4>1, ToldNext DEF Way
        <4>3. Written' = Written /\ Closed' = Closed
          BY <3>2 DEF Written, Closed
        <4>4. Handed' = Handed /\ Handed[w] = Written[w] /\ Closed[w]
          <5>1. \A x \in Ends : Peer(x) \in Ends
            BY PeerFacts
          <5>2. Handed' = Handed
            BY <3>2, <5>1 DEF Handed
          <5>3. Handed[w] = Written[w]
            BY <1>1, <2>1, <4>2, Zenon DEF Handed, Written
          <5>4. Closed[w]
            BY <1>1, <4>2 DEF Closed
          <5>5. QED
            BY <5>2, <5>3, <5>4
        <4>5. Ended' = [Ended EXCEPT ![w] = "end"] /\ Ended[w] = "no"
          BY <1>1, <3>3, <3>4, <3>5, <3>8, Zenon DEF Ended
        <4>6. Pipe!End(w)
          BY <3>6, <4>3, <4>4, <4>5, Zenon DEF Pipe!End, Written, Closed, Handed, Ended, Aborted
        <4>7. QED
          BY <4>6 DEF w
      <3>9. QED
        BY <3>7, <3>8
    <2>6. QED
      BY <2>4, <2>5
  <1>5. QED
    BY <1>3, <1>4

\* An end that leaves before it has been told of the end is told then; it leaves by a
\* reset, or by the grace period after both have closed.
LEMMA LeavingCutsShort ==
    ASSUME IInv, IInv', NEW e \in Ends, NEW t, stream' = [stream EXCEPT ![e] = t],
           t.send_next = stream[e].send_next, t.send_fin = stream[e].send_fin,
           t.delivered = stream[e].delivered, t.peer_fin = stream[e].peer_fin,
           t.reset = stream[e].reset,
           status[e] = "live", ~RecvFinished(stream[e]), status'[e] \in {"grace", "reset"},
           status'[Peer(e)] = status[Peer(e)],
           stream[e].reset \/ (stream[e].send_fin /\ stream[Peer(e)].send_fin)
    PROVE  Pipe!CutShort(Peer(e))
  <1> DEFINE w == Peer(e)
  <1>1. w \in Ends /\ w # e /\ Peer(w) = e /\ Ends = {e, w} /\ Peer(e) = w
    BY PeerFacts
  <1>2. stream \in [Ends -> StreamStates]
    BY DEF IInv, MuxTypeOK
  <1>3. stream'[e] = t /\ stream'[w] = stream[w]
    BY <1>1, <1>2
  <1>4. ToldOfEnd(e) = "no" /\ ToldOfEnd(w)' = ToldOfEnd(w)
    BY <1>3 DEF ToldOfEnd
  <1>5. ~RecvFinished(stream'[e])
    BY <1>1, <1>3, ToldNow, ToldNext
  <1>6. ToldOfEnd(e)' = "cut"
    BY <1>5 DEF ToldOfEnd
  <1> HIDE DEF w
  <1>7. \A x \in Ends : /\ stream'[x].send_next = stream[x].send_next
                        /\ stream'[x].send_fin = stream[x].send_fin
                        /\ stream'[x].delivered = stream[x].delivered
    BY <1>1, <1>3
  <1>8. Written' = Written /\ Closed' = Closed /\ Handed' = Handed
    BY <1>7, PeerFacts DEF Written, Closed, Handed
  <1>9. Aborted' = Aborted
    BY AbortedStays
  <1>10. Ended' = [Ended EXCEPT ![w] = "cut"] /\ Ended[w] = "no"
    BY <1>1, <1>4, <1>6, Zenon DEF Ended
  <1>11. Aborted \/ \A x \in Ends : Closed[x]
    BY <1>1 DEF Aborted, Closed
  <1>12. Pipe!CutShort(w)
    BY <1>8, <1>9, <1>10, <1>11, Zenon DEF Pipe!CutShort, Written, Closed, Handed, Ended, Aborted
  <1>13. QED
    BY <1>12 DEF w

LEMMA PollTransmitRefines ==
    ASSUME IInv, IInv', FlagsTrue, NEW e \in Ends, NEW due \in BOOLEAN, PollTransmit(e, due)
    PROVE  Pipe!CutShort(Peer(e)) \/ UNCHANGED Pipe!pipeVars
  <1> DEFINE t == Transmitted(stream[e], due)
  <1>1. /\ status \in [Ends -> Statuses] /\ status[e] = "live" /\ stream \in [Ends -> StreamStates]
        /\ stream[e] \in StreamStates /\ Peer(e) \in Ends /\ Peer(e) # e
    BY PeerFacts DEF PollTransmit, IInv, MuxTypeOK
  <1>2. CASE stream[e].reset
    <2>1. stream' = [stream EXCEPT ![e] = stream[e]] /\ status' = [status EXCEPT ![e] = "reset"]
      BY <1>1, <1>2 DEF PollTransmit
    <2>2. status'[e] = "reset" /\ \A x \in Ends : x # e => status'[x] = status[x]
      BY <1>1, <2>1
    <2>3. CASE RecvFinished(stream[e])
      BY <2>1, <2>2, <2>3, QuietStep, Zenon
    <2>4. CASE ~RecvFinished(stream[e])
      BY <1>1, <1>2, <2>1, <2>2, <2>4, LeavingCutsShort, Zenon
    <2>5. QED
      BY <2>3, <2>4
  <1>3. CASE ~stream[e].reset
    <2>1. /\ stream' = [stream EXCEPT ![e] = t]
          /\ status' = IF ~FullyDone(t) THEN status
                       ELSE [status EXCEPT ![e] = IF t.close_ticks >= CLOSE_GRACE_TICKS THEN "grace" ELSE "done"]
      BY <1>3 DEF PollTransmit
    <2>2. /\ t.delivered = stream[e].delivered /\ t.segs = stream[e].segs
          /\ t.peer_fin = stream[e].peer_fin
          /\ t.send_next = stream[e].send_next /\ t.send_fin = stream[e].send_fin
      BY EndsFacts, TransmittedFacts
    <2>3. t.reset = stream[e].reset /\ t.close_received = stream[e].close_received
      BY <1>1, FlagsKept
    <2> HIDE DEF t
    <2>4. \A x \in Ends : x # e => status'[x] = status[x]
      BY <1>1, <2>1
    <2>5. AckPoint(t) = AckPoint(stream[e])
      BY <2>2, Zenon DEF AckPoint
    <2>6. RecvFinished(t) => RecvFinished(stream[e])
      BY <2>2, <2>5, Zenon DEF RecvFinished, Unread
    <2>7. CASE status'[e] = status[e] \/ RecvFinished(stream[e])
      BY <2>1, <2>2, <2>3, <2>4, <2>7, QuietStep, Zenon
    <2>8. CASE status'[e] # status[e] /\ ~RecvFinished(stream[e])
      <3>1. t.send_fin /\ t.close_received /\ status'[e] = "grace"
        BY <1>1, <2>1, <2>6, <2>8 DEF FullyDone
      <3>2. stream[e].send_fin /\ stream[Peer(e)].send_fin
        BY <2>2, <2>3, <3>1 DEF FlagsTrue
      <3>3. QED
        BY <1>1, <2>1, <2>2, <2>3, <2>4, <2>8, <3>1, <3>2, LeavingCutsShort, Zenon
    <2>9. QED
      BY <2>7, <2>8
  <1>4. QED
    BY <1>2, <1>3

LEMMA StepRefines ==
    IInv /\ IInv' /\ FlagsTrue /\ [Next]_vars => [Pipe!Next]_(Pipe!pipeVars)
  <1> SUFFICES ASSUME IInv, IInv', FlagsTrue, [Next]_vars PROVE Pipe!Next \/ UNCHANGED Pipe!pipeVars
    OBVIOUS
  <1>1. stream \in [Ends -> StreamStates] /\ status \in [Ends -> Statuses] /\ "a" \in Ends
    BY DEF IInv, MuxTypeOK, Ends
  <1>2. CASE OpenStream
    <2>1. /\ stream' = [stream EXCEPT !["a"] = stream["a"]]
          /\ \A x \in Ends : status'[x] = status[x] \/ (status[x] = "none" /\ status'[x] = "live")
      BY <1>1, <1>2 DEF OpenStream
    <2>2. QED
      BY <1>1, <2>1, QuietStep, Zenon
  <1>3. ASSUME NEW e \in Ends, Write(e) \/ Close(e) \/ Read(e) PROVE Pipe!Next
    BY <1>3, PeerFacts, WriteRefines, CloseRefines, ReadRefines DEF Pipe!Next
  <1>4. ASSUME NEW e \in Ends, Reset(e) PROVE Pipe!Next
    BY <1>4, ResetRefines DEF Pipe!Next
  <1>5. ASSUME NEW e \in Ends, NEW f \in net[e], OnFrame(e, f)
        PROVE  Pipe!Next \/ UNCHANGED Pipe!pipeVars
    BY <1>5, PeerFacts, OnFrameRefines DEF Pipe!Next
  <1>6. ASSUME NEW e \in Ends, NEW due \in BOOLEAN, PollTransmit(e, due)
        PROVE  Pipe!Next \/ UNCHANGED Pipe!pipeVars
    BY <1>6, PeerFacts, PollTransmitRefines DEF Pipe!Next
  <1>7. CASE UNCHANGED vars
    <2>1. stream' = [stream EXCEPT !["a"] = stream["a"]] /\ status' = status
      BY <1>1, <1>7 DEF vars
    <2>2. QED
      BY <1>1, <2>1, QuietStep, Zenon
  <1>8. QED
    BY <1>2, <1>3, <1>4, <1>5, <1>6, <1>7 DEF Next

\* The stream between two ends implements a pipe of bytes in each direction, for every
\* window, chunk, congestion window, grace period and use, and for a network that loses
\* and reorders frames as it likes; is_recv_finished (stream.rs:519-527) tells a reader of
\* an end that was not reached only after a reset, or when both have closed.
THEOREM MuxImplementsPipe == Spec => ImplementsPipe
  <1>1. Init => Pipe!Init
    <2> SUFFICES ASSUME Init PROVE Pipe!Init
      OBVIOUS
    <2>1. \A x \in Ends : /\ Peer(x) \in Ends /\ status[x] = "none"
                          /\ stream[x].send_next = 0 /\ stream[x].send_fin = FALSE
                          /\ stream[x].delivered = 0 /\ stream[x].peer_fin = StillOpen
                          /\ stream[x].reset = FALSE
      BY PeerFacts DEF Init, NewStream
    <2>2. \A x \in Ends : ToldOfEnd(x) = "no"
      BY <2>1 DEF ToldOfEnd, RecvFinished
    <2>3. QED
      BY <2>1, <2>2, Zenon DEF Pipe!Init
  <1>2. QED
    BY <1>1, MuxIInv, MuxFlags, StepRefines, PTL DEF Spec, ImplementsPipe, Pipe!Spec

-----------------------------------------------------------------------------

\* The first chunk of a range starts where the range does and is not empty.
LEMMA EmitRangeStarts ==
    ASSUME NEW s \in StreamStates, NEW from \in Nat, NEW to \in Nat, from < to, to <= s.send_next
    PROVE  \E f \in EmitRange(s, from, to) :
               f \in DataFrameSet /\ f.offset = from /\ f.len \in Nat \ {0}
  <1> DEFINE n == MinOf(MAX_STREAM_CHUNK, to - from)
             b == s.send_fin /\ MinOf(from + MAX_STREAM_CHUNK, to) = s.send_next /\ ~s.fin_acked
             f == DataFrame(from, n, b)
  <1>1. from \in from .. to - 1 /\ (from - from) % MAX_STREAM_CHUNK = 0
    BY StreamAssumption
  <1>2. f \in EmitRange(s, from, to) /\ f \in DataFrameSet
    <2>1. f \in EmitRange(s, from, to)
      BY <1>1 DEF EmitRange
    <2>2. QED
      BY <2>1, EmitRangeFacts
  <1>3. n \in Nat \ {0}
    BY StreamAssumption DEF MinOf
  <1> HIDE DEF n, b
  <1>4. f.offset = from /\ f.len = n
    BY DEF DataFrame
  <1>5. QED
    BY <1>2, <1>3, <1>4

\* A sender whose window is open and whose receiver lacks something sends the first byte
\* that is missing in this poll or in the next.
LEMMA OffersFirstMissing ==
    ASSUME NEW s \in StreamStates, BufferOK(s), NEW p \in StreamStates, BufferOK(p),
           Way(s, p), Way(p, s), s.send_base < s.send_next, s.peer_window # 0
    PROVE  \E f \in DataFrames(s, TRUE) \cup DataFrames(Transmitted(s, TRUE), TRUE) :
               f \in DataFrameSet /\ f.offset = s.send_base /\ f.len \in Nat \ {0}
  <1> DEFINE t == Transmitted(s, TRUE)
  <1>1. /\ s.send_base \in Nat /\ s.send_high \in Nat /\ s.send_next \in Nat
        /\ s.peer_window \in Nat \ {0} /\ s.cwnd \in Nat \ {0}
        /\ s.send_base <= s.send_high /\ s.send_high <= s.send_next
    BY DEF StreamStates, Way
  <1>2. SendEnd(s) \in Nat /\ SendEnd(s) <= s.send_next /\ s.send_base < SendEnd(s)
    BY <1>1 DEF SendEnd, MinOf
  <1>3. CASE SendsNew(s) /\ s.send_high = s.send_base
    <2>1. DataFrames(s, TRUE) = EmitRange(s, s.send_base, SendEnd(s))
      BY <1>3 DEF DataFrames, Retransmits, SendsEmptyFin
    <2>2. \E f \in EmitRange(s, s.send_base, SendEnd(s)) :
              f \in DataFrameSet /\ f.offset = s.send_base /\ f.len \in Nat \ {0}
      BY <1>1, <1>2, EmitRangeStarts
    <2>3. QED
      BY <2>1, <2>2, Zenon
  <1>4. CASE ~SendsNew(s)
    <2>1. s.send_base < s.send_high
      BY <1>1, <1>2, <1>4 DEF SendsNew
    <2>2. DataFrames(s, TRUE) = EmitRange(s, s.send_base, s.send_high)
      BY <1>1, <1>4, <2>1 DEF DataFrames, Retransmits, SendsEmptyFin
    <2>3. \E f \in EmitRange(s, s.send_base, s.send_high) :
              f \in DataFrameSet /\ f.offset = s.send_base /\ f.len \in Nat \ {0}
      BY <1>1, <2>1, EmitRangeStarts
    <2>4. QED
      BY <2>2, <2>3, Zenon
  <1>5. CASE SendsNew(s) /\ s.send_high # s.send_base
    <2>1. ~Retransmits(s, TRUE)
      BY <1>5 DEF Retransmits
    <2>2. /\ t.send_base = s.send_base /\ t.send_next = s.send_next
          /\ t.peer_window = s.peer_window /\ t.cwnd = s.cwnd /\ t.send_high = SendEnd(s)
      BY <1>5, <2>1 DEF Transmitted, StreamStates
    <2>3. t \in StreamStates
      BY TransmittedFacts, Zenon DEF Advances
    <2> HIDE DEF t
    <2>4. ~SendsNew(t) /\ t.send_base < t.send_high
      BY <1>1, <1>2, <2>2 DEF SendsNew, SendEnd
    <2>5. t.send_base \in Nat /\ t.send_high \in Nat /\ t.send_high <= t.send_next
      BY <1>1, <1>2, <2>2
    <2>6. DataFrames(t, TRUE) = EmitRange(t, t.send_base, t.send_high)
      BY <2>4, <2>5 DEF DataFrames, Retransmits, SendsEmptyFin
    <2>7. \E f \in EmitRange(t, t.send_base, t.send_high) :
              f \in DataFrameSet /\ f.offset = t.send_base /\ f.len \in Nat \ {0}
      BY <2>3, <2>4, <2>5, EmitRangeStarts
    <2>8. QED
      BY <2>2, <2>6, <2>7, Zenon DEF t
  <1>6. QED
    BY <1>3, <1>4, <1>5, Zenon

\* A receiver that has read all it has waits for the byte at `delivered`.
LEMMA ReadAllWaits ==
    ASSUME NEW s \in StreamStates, BufferOK(s)
    PROVE  /\ ReadAll(s).delivered = AckPoint(s)
           /\ BufferOK(ReadAll(s)) => AckPoint(ReadAll(s)) = AckPoint(s)
  <1> DEFINE n == AckPoint(s)
             t == ReadAll(s)
  <1>1. n \in Nat /\ n \notin s.segs
    BY AckPointFacts
  <1>2. t.delivered = n /\ t.segs = s.segs \ (s.delivered .. n - 1)
    BY DEF ReadAll, StreamStates
  <1> HIDE DEF n, t
  <1>3. ASSUME BufferOK(t) PROVE AckPoint(t) = n
    <2>1. /\ AckPoint(t) \in Nat /\ n <= AckPoint(t)
          /\ \A k \in Nat : n <= k /\ k < AckPoint(t) => k \in t.segs
      BY <1>2, <1>3, AckPointFacts
    <2>2. QED
      BY <1>1, <1>2, <2>1
  <1>4. QED
    BY <1>2, <1>3 DEF n, t

\* It takes a chunk that starts there.
LEMMA TakesNext ==
    ASSUME NEW p \in StreamStates, BufferOK(p),
           NEW f \in DataFrameSet, f.offset = p.delivered, f.len \in Nat \ {0}
    PROVE  AckPoint(OnData(p, f)) > p.delivered
  <1> DEFINE new == {k \in f.offset .. f.offset + f.len - 1 : k >= p.delivered}
             t == OnData(p, f)
  <1>1. /\ p.delivered \in Nat /\ f.len \in 0 .. MAX_STREAM_CHUNK
        /\ DEFAULT_WINDOW \in Nat /\ MAX_STREAM_CHUNK \in Nat
        /\ ~(f.offset > p.delivered + DEFAULT_WINDOW)
    BY StreamAssumption DEF StreamStates, DataFrameSet
  <1>2. /\ p.delivered \in new
        /\ new \subseteq p.delivered .. p.delivered + DEFAULT_WINDOW + MAX_STREAM_CHUNK - 1
    BY <1>1
  <1> HIDE DEF new
  <1>3. t.delivered = p.delivered /\ t.segs = p.segs \cup new
    BY <1>1 DEF OnData, Insert, StreamStates, new
  <1> HIDE DEF t
  <1>4. BufferOK(t)
    BY <1>2, <1>3, Zenon DEF BufferOK
  <1>5. AckPoint(t) \in Nat /\ p.delivered <= AckPoint(t) /\ AckPoint(t) \notin t.segs
    BY <1>3, <1>4, AckPointFacts
  <1>6. QED
    BY <1>1, <1>2, <1>3, <1>5 DEF t

\* The ack of all the receiver has drains just that and opens the window.
LEMMA AckDrains ==
    ASSUME NEW s \in StreamStates, NEW n \in Nat, s.send_base <= n, n <= s.send_next
    PROVE  LET t == OnAck(s, AckFrame(n, DEFAULT_WINDOW))
           IN  t.send_base = n /\ t.peer_window = DEFAULT_WINDOW
  <1> DEFINE f == AckFrame(n, DEFAULT_WINDOW)
  <1>1. f.ack = n /\ f.window = DEFAULT_WINDOW
    BY DEF AckFrame
  <1> HIDE DEF f
  <1>2. s.send_base \in Nat /\ s.send_next \in Nat /\ ~(f.ack > s.send_next)
    BY <1>1 DEF StreamStates
  <1>3. MaxOf(s.send_base, f.ack) = n
    BY <1>1, <1>2 DEF MaxOf
  <1>4. OnAck(s, f).send_base = n /\ OnAck(s, f).peer_window = DEFAULT_WINDOW
    BY <1>1, <1>2, <1>3 DEF OnAck, StreamStates
  <1>5. QED
    BY <1>4 DEF f

\* No stream is stuck in any state it reaches, for every window, chunk and congestion
\* window: one ack that arrives and two polls of transmit (stream.rs:361-470) bring the
\* receiver the very byte it waits for.
THEOREM MuxRoundTripProgresses == Spec => []RoundTripProgresses
  <1>1. IInv => RoundTripProgresses
    <2> SUFFICES ASSUME IInv, NEW e \in Ends,
                        AckPoint(ReadAll(stream[Peer(e)])) < stream[e].send_next
                 PROVE  \E f \in OfferedAfterAck(e) :
                            AckPoint(OnData(ReadAll(stream[Peer(e)]), f))
                              > AckPoint(ReadAll(stream[Peer(e)]))
      BY DEF RoundTripProgresses
    <2> DEFINE s == stream[e]
               r == stream[Peer(e)]
               p == ReadAll(r)
               n == AckPoint(r)
               ack == AckFrame(n, DEFAULT_WINDOW)
               t == OnAck(s, ack)
    <2>1. /\ s \in StreamStates /\ BufferOK(s) /\ r \in StreamStates /\ BufferOK(r)
          /\ Way(s, r) /\ Way(r, s)
      BY EndsFacts
    <2>2. Advances(r, p) /\ Way(p, s) /\ Way(s, p)
      BY <2>1, ReadFacts
    <2>3. p \in StreamStates /\ BufferOK(p)
      BY <2>2 DEF Advances
    <2>4. n \in Nat /\ p.delivered = n /\ AckPoint(p) = n
      BY <2>1, <2>3, ReadAllWaits, AckPointFacts
    <2>5. s.send_base <= n /\ n < s.send_next
      BY <2>1, <2>4 DEF Way
    <2> HIDE DEF s, r, p, n
    <2>6. ack \in AckFrameSet /\ Truthful(ack, p)
      BY <2>4, StreamAssumption DEF AckFrame, AckFrameSet, Truthful
    <2> HIDE DEF ack
    <2>7. /\ t \in StreamStates /\ BufferOK(t) /\ Way(t, p) /\ Way(p, t)
          /\ t.send_next = s.send_next
      BY <2>1, <2>2, <2>3, <2>6, OnAckFacts, Zenon DEF Advances
    <2>8. t.send_base = n /\ t.peer_window = DEFAULT_WINDOW
      <3>1. n <= s.send_next
        BY <2>1, <2>4, <2>5 DEF StreamStates
      <3>2. QED
        BY <2>1, <2>4, <2>5, <3>1, AckDrains, Zenon DEF ack
    <2> HIDE DEF t
    <2>9. PICK f \in DataFrames(t, TRUE) \cup DataFrames(Transmitted(t, TRUE), TRUE) :
              f \in DataFrameSet /\ f.offset = t.send_base /\ f.len \in Nat \ {0}
      BY <2>3, <2>5, <2>7, <2>8, StreamAssumption, OffersFirstMissing, Zenon
    <2>10. AckPoint(OnData(p, f)) > n
      BY <2>3, <2>4, <2>8, <2>9, TakesNext
    <2>11. f \in OfferedAfterAck(e)
      BY <2>4, <2>9, Zenon DEF OfferedAfterAck, s, r, p, n, ack, t
    <2>12. QED
      BY <2>4, <2>10, <2>11 DEF p, r
  <1>2. QED
    BY <1>1, MuxIInv, PTL

=============================================================================
