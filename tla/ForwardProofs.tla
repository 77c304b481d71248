---------------------------- MODULE ForwardProofs ----------------------------
(***************************************************************************)
(* For every cap, stall limit, window and socket buffer, and any amount of  *)
(* data: a forwarded connection loses no byte while it lives, and ends no   *)
(* direction before all of it has been read.                                *)
(* For any listeners, streams and sessions: the driver owns exactly the     *)
(* connections, commands and transfers that the streams' states ask for.    *)
(***************************************************************************)
EXTENDS Forward, Listeners, FiniteSetTheorems, TLAPS

Conns == [status : {"none", "live", "gone"}, out : Nat, wrote : Nat,
          read_closed : BOOLEAN, peer_closed : BOOLEAN, fin_sent : BOOLEAN, dead : BOOLEAN,
          flush_stall : Nat]
Apps == [wrote : Nat, taken : Nat, shut : BOOLEAN, used : Nat, broken : BOOLEAN, reads : BOOLEAN]
Streams == [written : Nat, arrived : Nat, read : Nat, fin : BOOLEAN, close : {"none", "event", "seen"}]

ForwardTypeOK ==
    conn \in [Ends -> Conns] /\ app \in [Ends -> Apps] /\ stream \in [Ends -> Streams]

\* The socket's buffer holds what the application has not used, and no more than fits.
SocketOK(c, a) == a.used <= c.wrote /\ c.wrote <= a.used + SocketRoom

\* From the application to the stream: what was taken was written, and the end is known
\* only when all was taken.
OutwardOK(c, a, s) ==
    /\ s.written = a.taken /\ a.taken <= a.wrote
    /\ c.read_closed => a.shut /\ a.taken = a.wrote
    /\ c.fin_sent => c.read_closed

\* From the stream r to the socket: of a live connection nothing is missing, and nobody
\* read for one that is not there yet.
InwardOK(c, a, r) ==
    /\ r.read <= r.arrived /\ SocketOK(c, a)
    /\ c.status = "live" => ~c.dead /\ c.out + c.wrote = r.read
    /\ c.status = "none" => r.read = 0 /\ a.used = 0 /\ c.wrote = 0

IInv ==
    /\ ForwardTypeOK
    /\ \A e \in Ends : OutwardOK(conn[e], app[e], stream[e]) /\ InwardOK(conn[e], app[e], stream[Peer(e)])

LEMMA PeerFacts ==
    ASSUME NEW e \in Ends
    PROVE  Peer(e) \in Ends /\ Peer(e) # e /\ Peer(Peer(e)) = e /\ Ends = {e, Peer(e)}
  BY DEF Ends, Peer

LEMMA NewConnFacts ==
    /\ NewConn \in Conns /\ NewConn.out = 0 /\ NewConn.wrote = 0 /\ NewConn.status = "live"
    /\ ~NewConn.read_closed /\ ~NewConn.fin_sent /\ ~NewConn.dead
    /\ \A x \in {"none", "live", "gone"} :
          LET c == [NewConn EXCEPT !.status = x]
          IN  /\ c \in Conns /\ c.status = x /\ c.out = 0 /\ c.wrote = 0
              /\ ~c.read_closed /\ ~c.fin_sent /\ ~c.dead
  BY Zenon DEF NewConn, Conns

-----------------------------------------------------------------------------

\* What flush and queue_to_tcp leave of a connection: either it is dead, or every byte is
\* still in the buffer or with the socket.
Delivers(c, d, n) ==
    /\ d \in Conns /\ (d.dead \/ d.out + d.wrote = c.out + c.wrote + n)
    /\ (c.dead => d.dead)
    /\ d.status = c.status /\ d.read_closed = c.read_closed
    /\ d.fin_sent = c.fin_sent /\ d.peer_closed = c.peer_closed

LEMMA StalledFacts ==
    ASSUME NEW c \in Conns
    PROVE  Delivers(c, Stalled(c), 0) /\ Stalled(c).wrote = c.wrote
  <1> DEFINE d == [c EXCEPT !.flush_stall = c.flush_stall + 1, !.dead = TRUE, !.out = 0]
             f == [c EXCEPT !.flush_stall = c.flush_stall + 1]
  <1>1. d \in Conns /\ d.dead /\ d.wrote = c.wrote /\ d.status = c.status
        /\ d.read_closed = c.read_closed /\ d.fin_sent = c.fin_sent /\ d.peer_closed = c.peer_closed
    <2>1. c.flush_stall + 1 \in Nat
      BY DEF Conns
    <2>2. d \in Conns
      BY <2>1, Zenon DEF Conns
    <2>3. d.dead
      BY DEF Conns
    <2>4. d.wrote = c.wrote /\ d.status = c.status
      BY DEF Conns
    <2>5. d.read_closed = c.read_closed /\ d.fin_sent = c.fin_sent /\ d.peer_closed = c.peer_closed
      BY DEF Conns
    <2>6. QED
      BY <2>2, <2>3, <2>4, <2>5
  <1>2. f \in Conns /\ f.dead = c.dead /\ f.wrote = c.wrote /\ f.out = c.out /\ f.status = c.status
        /\ f.read_closed = c.read_closed /\ f.fin_sent = c.fin_sent /\ f.peer_closed = c.peer_closed
    BY DEF Conns
  <1>3. c.out \in Nat /\ c.wrote \in Nat
    BY DEF Conns
  <1>4. Stalled(c) = d \/ Stalled(c) = f
    BY DEF Stalled
  <1> HIDE DEF d, f
  <1>5. QED
    BY <1>1, <1>2, <1>3, <1>4 DEF Delivers

LEMMA FlushFacts ==
    ASSUME NEW c \in Conns, NEW a \in Apps, SocketOK(c, a)
    PROVE  Delivers(c, Flush(c, a), 0) /\ SocketOK(Flush(c, a), a)
  <1> DEFINE n == Fewer(c.out, SocketRoom - (c.wrote - a.used))
             fs == IF n > 0 THEN 0 ELSE c.flush_stall
             t == [c EXCEPT !.out = c.out - n, !.wrote = c.wrote + n, !.flush_stall = fs]
             k == [c EXCEPT !.dead = TRUE, !.out = 0]
  <1>1. c.out \in Nat /\ c.wrote \in Nat /\ a.used \in Nat /\ c.flush_stall \in Nat /\ SocketRoom \in Nat
    BY ForwardAssumption DEF Conns, Apps
  <1>2. n \in Nat /\ n <= c.out /\ c.wrote + n <= a.used + SocketRoom
    BY <1>1 DEF Fewer, SocketOK
  <1>3. fs \in Nat
    BY <1>1, <1>2
  <1>4. Flush(c, a) \in {c, k, t, Stalled(t)}
    BY DEF Flush
  <1> HIDE DEF n, fs
  <1>5. t \in Conns /\ t.out = c.out - n /\ t.wrote = c.wrote + n /\ t.dead = c.dead /\ t.status = c.status
        /\ t.read_closed = c.read_closed /\ t.fin_sent = c.fin_sent /\ t.peer_closed = c.peer_closed
    <2>1. c.out - n \in Nat /\ c.wrote + n \in Nat
      BY <1>1, <1>2
    <2>2. t \in Conns
      BY <1>3, <2>1, Zenon DEF Conns
    <2>3. t.out = c.out - n /\ t.wrote = c.wrote + n
      BY DEF Conns
    <2>4. t.dead = c.dead /\ t.status = c.status
      BY DEF Conns
    <2>5. t.read_closed = c.read_closed /\ t.fin_sent = c.fin_sent /\ t.peer_closed = c.peer_closed
      BY DEF Conns
    <2>6. QED
      BY <2>2, <2>3, <2>4, <2>5
  <1>6. k \in Conns /\ k.dead /\ k.wrote = c.wrote /\ k.status = c.status
        /\ k.read_closed = c.read_closed /\ k.fin_sent = c.fin_sent /\ k.peer_closed = c.peer_closed
    BY Zenon DEF Conns
  <1> HIDE DEF t, k
  <1>7. Delivers(c, c, 0) /\ SocketOK(c, a)
    BY <1>1 DEF Delivers
  <1>8. Delivers(c, k, 0) /\ SocketOK(k, a)
    BY <1>6 DEF Delivers, SocketOK
  <1>9. Delivers(c, t, 0) /\ SocketOK(t, a)
    BY <1>1, <1>2, <1>5 DEF Delivers, SocketOK
  <1>10. Delivers(c, Stalled(t), 0) /\ SocketOK(Stalled(t), a)
    <2>1. Delivers(t, Stalled(t), 0) /\ Stalled(t).wrote = t.wrote
      BY <1>5, StalledFacts
    <2>2. t.out \in Nat /\ t.wrote \in Nat /\ Stalled(t).out \in Nat /\ Stalled(t).wrote \in Nat
      BY <1>5, <2>1 DEF Delivers, Conns
    <2>3. SocketOK(Stalled(t), a)
      BY <1>9, <2>1 DEF SocketOK
    <2>4. t.out + t.wrote = c.out + c.wrote
      BY <1>1, <1>2, <1>5
    <2>5. QED
      BY <1>1, <1>5, <2>1, <2>2, <2>3, <2>4 DEF Delivers
  <1>11. QED
    BY <1>4, <1>7, <1>8, <1>9, <1>10

LEMMA QueueFacts ==
    ASSUME NEW c \in Conns, NEW a \in Apps, SocketOK(c, a), NEW n \in Nat
    PROVE  Delivers(c, Queue(c, n, a), n) /\ SocketOK(Queue(c, n, a), a)
  <1> DEFINE t == [c EXCEPT !.out = c.out + n]
  <1>1. c.out \in Nat /\ c.wrote \in Nat
    BY DEF Conns
  <1>2. t \in Conns /\ t.out = c.out + n /\ t.wrote = c.wrote /\ t.dead = c.dead /\ t.status = c.status
        /\ t.read_closed = c.read_closed /\ t.fin_sent = c.fin_sent /\ t.peer_closed = c.peer_closed
    BY <1>1 DEF Conns
  <1>3. CASE n = 0
    BY <1>1, <1>3 DEF Queue, Delivers
  <1>4. CASE n # 0
    <2>1. Queue(c, n, a) = Flush(t, a)
      BY <1>4 DEF Queue
    <2> HIDE DEF t
    <2>2. SocketOK(t, a)
      BY <1>2 DEF SocketOK
    <2>3. Delivers(t, Flush(t, a), 0) /\ SocketOK(Flush(t, a), a)
      BY <1>2, <2>2, FlushFacts
    <2>4. Flush(t, a).out \in Nat /\ Flush(t, a).wrote \in Nat
      BY <2>3 DEF Delivers, Conns
    <2>5. QED
      BY <1>1, <1>2, <2>1, <2>3, <2>4 DEF Delivers
  <1>5. QED
    BY <1>3, <1>4

-----------------------------------------------------------------------------

\* A step at one end touches that end's connection and application, and the two streams.
LEMMA StepKeepsInv ==
    ASSUME IInv, NEW e \in Ends, NEW c \in Conns, NEW a \in Apps, NEW s \in Streams, NEW r \in Streams,
           conn' = [conn EXCEPT ![e] = c], app' = [app EXCEPT ![e] = a],
           stream' \in [Ends -> Streams], stream'[e] = s, stream'[Peer(e)] = r,
           OutwardOK(c, a, s), InwardOK(c, a, r),
           OutwardOK(conn[Peer(e)], app[Peer(e)], r), InwardOK(conn[Peer(e)], app[Peer(e)], s)
    PROVE  IInv'
  <1>1. ForwardTypeOK'
    BY Zenon DEF IInv, ForwardTypeOK
  <1>2. conn'[e] = c /\ app'[e] = a /\ conn'[Peer(e)] = conn[Peer(e)] /\ app'[Peer(e)] = app[Peer(e)]
    BY PeerFacts DEF IInv, ForwardTypeOK
  <1>3. OutwardOK(conn'[e], app'[e], stream'[e]) /\ InwardOK(conn'[e], app'[e], stream'[Peer(e)])
    BY <1>2
  <1>4. OutwardOK(conn'[Peer(e)], app'[Peer(e)], stream'[Peer(e)])
        /\ InwardOK(conn'[Peer(e)], app'[Peer(e)], stream'[Peer(Peer(e))])
    BY <1>2, PeerFacts
  <1>5. \A x \in Ends : OutwardOK(conn'[x], app'[x], stream'[x]) /\ InwardOK(conn'[x], app'[x], stream'[Peer(x)])
    BY <1>3, <1>4, PeerFacts
  <1>6. QED
    BY <1>1, <1>5 DEF IInv, OutwardOK, InwardOK, SocketOK

\* What the read of the socket, the half-close and the reclaim make of connection c.
ReadLeaves(c, a, reads, d) ==
    /\ d \in Conns /\ d.out = c.out /\ d.wrote = c.wrote /\ d.status \in {"live", "gone"}
    /\ (d.status = "live" => ~d.dead /\ ~c.dead)
    /\ (d.read_closed => c.read_closed \/ (reads /\ a.shut /\ ~a.broken))
    /\ (d.fin_sent => d.read_closed)

LEMMA ReadFacts ==
    ASSUME NEW c \in Conns, NEW a \in Apps, NEW reads \in BOOLEAN, NEW d, NEW f, NEW g,
           c.status = "live", c.fin_sent => c.read_closed,
           d = IF reads THEN AfterRead(c, a) ELSE c,
           f = [d EXCEPT !.fin_sent = @ \/ NeedsFin(d)],
           g = IF IsFinished(f) THEN [f EXCEPT !.status = "gone"] ELSE f
    PROVE  ReadLeaves(c, a, reads, g) /\ NeedsFin(d) \in BOOLEAN
  <1>1. /\ d \in Conns /\ d.out = c.out /\ d.wrote = c.wrote /\ d.status = c.status
        /\ d.fin_sent = c.fin_sent
    <2>1. CASE reads
      <3> DEFINE x == c.read_closed \/ (a.shut /\ ~a.broken)
                 y == c.dead \/ a.broken
                 b == [c EXCEPT !.read_closed = x, !.dead = y]
      <3>1. x \in BOOLEAN /\ y \in BOOLEAN
        BY Zenon
      <3>2. d = b
        BY <2>1 DEF AfterRead
      <3> HIDE DEF x, y
      <3>3. b \in Conns /\ b.out = c.out /\ b.wrote = c.wrote /\ b.status = c.status
            /\ b.fin_sent = c.fin_sent
        BY <3>1, Zenon DEF Conns
      <3>4. QED
        BY <3>2, <3>3, Zenon
    <2>2. CASE ~reads
      BY <2>2
    <2>3. QED
      BY <2>1, <2>2
  <1>2. (c.dead => d.dead) /\ (c.read_closed => d.read_closed)
        /\ (d.read_closed => c.read_closed \/ (reads /\ a.shut /\ ~a.broken))
    BY DEF AfterRead, Conns, Apps
  <1>3. NeedsFin(d) \in BOOLEAN /\ (d.fin_sent \/ NeedsFin(d)) \in BOOLEAN
    BY Zenon DEF NeedsFin
  <1>4. /\ f \in Conns /\ f.out = d.out /\ f.wrote = d.wrote /\ f.status = d.status /\ f.dead = d.dead
        /\ f.read_closed = d.read_closed /\ f.fin_sent = (d.fin_sent \/ NeedsFin(d))
    BY <1>1, <1>3 DEF Conns
  <1>5. (f.fin_sent => f.read_closed) /\ (c.dead => f.dead)
    BY <1>1, <1>2, <1>4, Zenon DEF NeedsFin
  <1>6. CASE IsFinished(f)
    <2>1. g = [f EXCEPT !.status = "gone"] /\ f \in Conns
      BY <1>4, <1>6
    <2>2. g \in Conns /\ g.status = "gone"
      BY <2>1, Zenon DEF Conns
    <2>3. g.out = f.out /\ g.wrote = f.wrote /\ g.read_closed = f.read_closed /\ g.fin_sent = f.fin_sent
      BY <2>1 DEF Conns
    <2>4. QED
      BY <1>1, <1>2, <1>3, <1>4, <1>5, <2>2, <2>3 DEF ReadLeaves
  <1>7. CASE ~IsFinished(f)
    <2>1. g = f /\ ~f.dead
      BY <1>7 DEF IsFinished
    <2>2. QED
      BY <1>1, <1>2, <1>3, <1>4, <1>5, <2>1 DEF ReadLeaves
  <1>8. QED
    BY <1>6, <1>7

LEMMA ReadAndReclaimKeeps ==
    ASSUME IInv, NEW e \in Ends, NEW q \in Conns, NEW drained \in Nat,
           q.status = "live", OutwardOK(q, app[e], stream[e]), SocketOK(q, app[e]),
           q.dead \/ q.out + q.wrote = stream[Peer(e)].read + drained,
           stream[Peer(e)].read + drained <= stream[Peer(e)].arrived,
           ReadAndReclaim(e, q, drained)
    PROVE  IInv'
  <1> DEFINE p == Peer(e)
             a == app[e]
             s == stream[e]
             r == stream[p]
             reads == ReadsTcp(q, s.written - s.arrived)
             got == IF reads /\ ~a.broken THEN a.wrote - a.taken ELSE 0
             d == IF reads THEN AfterRead(q, a) ELSE q
             fin == NeedsFin(d)
             f == [d EXCEPT !.fin_sent = @ \/ fin]
             c == IF IsFinished(f) THEN [f EXCEPT !.status = "gone"] ELSE f
             an == [a EXCEPT !.taken = @ + got]
             sn == [s EXCEPT !.written = @ + got, !.fin = @ \/ fin]
             rn == [r EXCEPT !.read = @ + drained, !.close = IF @ = "event" THEN "seen" ELSE @]
  <1>1. p \in Ends /\ p # e /\ Peer(p) = e /\ Ends = {e, p}
    BY PeerFacts
  <1>2. a \in Apps /\ s \in Streams /\ r \in Streams /\ conn[p] \in Conns /\ app[p] \in Apps
    BY <1>1 DEF IInv, ForwardTypeOK
  <1>3. /\ conn' = [conn EXCEPT ![e] = c]
        /\ app' = [app EXCEPT ![e].taken = @ + got]
        /\ stream' = [stream EXCEPT ![e].written = @ + got,
                                    ![e].fin = @ \/ fin,
                                    ![p].read = @ + drained,
                                    ![p].close = IF @ = "event" THEN "seen" ELSE @]
    BY Zenon DEF ReadAndReclaim
  <1>4. app' = [app EXCEPT ![e] = an]
    BY <1>3, Zenon
  <1> HIDE DEF p, c, got, fin
  <1>5. /\ stream'[e] = sn /\ stream'[p] = rn
    BY <1>1, <1>2, <1>3, Zenon DEF IInv, ForwardTypeOK
  <1>6. DOMAIN stream' = Ends /\ stream' = [x \in Ends |-> stream'[x]]
    BY <1>1, <1>3, Zenon DEF IInv, ForwardTypeOK
  <1>7. OutwardOK(q, a, s) /\ SocketOK(q, a) /\ (q.dead \/ q.out + q.wrote = r.read + drained)
        /\ r.read + drained <= r.arrived
    BY DEF p
  <1> HIDE DEF a, s, r, an, sn, rn
  <1>8. r.read \in Nat /\ r.arrived \in Nat /\ r.written \in Nat /\ s.read \in Nat /\ s.written \in Nat
         /\ s.arrived \in Nat
    BY <1>2 DEF Streams
  <1>9. reads \in BOOLEAN
    BY Zenon DEF ReadsTcp
  <1> HIDE DEF reads
  <1>10. ReadLeaves(q, a, reads, c) /\ fin \in BOOLEAN
    <2>1. /\ d = IF reads THEN AfterRead(q, a) ELSE q
          /\ f = [d EXCEPT !.fin_sent = @ \/ NeedsFin(d)]
          /\ c = IF IsFinished(f) THEN [f EXCEPT !.status = "gone"] ELSE f
          /\ fin = NeedsFin(d)
      BY DEF fin, c
    <2>2. q.fin_sent => q.read_closed
      BY <1>7 DEF OutwardOK
    <2> HIDE DEF d, f
    <2>3. ReadLeaves(q, a, reads, c) /\ NeedsFin(d) \in BOOLEAN
      BY <2>1, <2>2, <1>2, <1>9, ReadFacts, Zenon
    <2>4. QED
      BY <2>1, <2>3
  <1> HIDE DEF d, f
  <1>11. a.wrote \in Nat /\ a.taken \in Nat /\ a.taken <= a.wrote /\ s.written = a.taken
    BY <1>2, <1>7 DEF Apps, OutwardOK
  <1>12. got \in Nat /\ a.taken + got <= a.wrote /\ (reads /\ ~a.broken => a.taken + got = a.wrote)
    BY <1>9, <1>11 DEF got
  <1>13. an \in Apps /\ an.taken = a.taken + got /\ an.wrote = a.wrote /\ an.shut = a.shut /\ an.used = a.used
    BY <1>2, <1>11, <1>12 DEF an, Apps
  <1>14. sn \in Streams /\ sn.written = s.written + got /\ sn.read = s.read /\ sn.arrived = s.arrived
    <2>1. (s.fin \/ fin) \in BOOLEAN
      BY Zenon
    <2>2. s.written + got \in Nat
      BY <1>8, <1>12
    <2>3. sn \in Streams
      BY <1>2, <2>1, <2>2, Zenon DEF sn, Streams
    <2>4. sn.written = s.written + got
      BY <1>2 DEF sn, Streams
    <2>5. sn.read = s.read /\ sn.arrived = s.arrived
      BY <1>2 DEF sn, Streams
    <2>6. QED
      BY <2>3, <2>4, <2>5

  <1>15. rn \in Streams /\ rn.written = r.written /\ rn.read = r.read + drained /\ rn.arrived = r.arrived
    <2> DEFINE cl == IF r.close = "event" THEN "seen" ELSE r.close
    <2>1. cl \in {"none", "event", "seen"} /\ r.read + drained \in Nat
      BY <1>2, <1>8 DEF Streams
    <2>2. rn = [r EXCEPT !.read = r.read + drained, !.close = cl]
      BY DEF rn
    <2> HIDE DEF cl
    <2>3. rn \in Streams
      BY <1>2, <2>1, <2>2, Zenon DEF Streams
    <2>4. rn.read = r.read + drained
      BY <1>2, <2>2 DEF Streams
    <2>5. rn.written = r.written /\ rn.arrived = r.arrived
      BY <1>2, <2>2 DEF Streams
    <2>6. QED
      BY <2>3, <2>4, <2>5
  <1>16. OutwardOK(c, an, sn)
    <2>1. sn.written = an.taken /\ an.taken <= an.wrote
      BY <1>11, <1>12, <1>13, <1>14
    <2>2. q.read_closed => a.shut /\ a.taken = a.wrote
      BY <1>7 DEF OutwardOK
    <2>3. c.read_closed => an.shut /\ an.taken = an.wrote
      BY <2>2, <1>10, <1>11, <1>12, <1>13 DEF ReadLeaves
    <2>4. QED
      BY <2>1, <2>3, <1>10 DEF OutwardOK, ReadLeaves
  <1>17. InwardOK(c, an, rn)
    <2>1. SocketOK(c, an)
      BY <1>7, <1>10, <1>13 DEF SocketOK, ReadLeaves
    <2>2. QED
      BY <2>1, <1>7, <1>10, <1>15 DEF InwardOK, ReadLeaves
  <1>18. OutwardOK(conn[p], app[p], rn) /\ InwardOK(conn[p], app[p], sn)
    <2>1. OutwardOK(conn[p], app[p], r) /\ InwardOK(conn[p], app[p], s)
      BY <1>1 DEF IInv, r, s
    <2>2. QED
      BY <2>1, <1>14, <1>15 DEF OutwardOK, InwardOK
  <1>19. stream' \in [Ends -> Streams]
    <2>1. \A x \in Ends : stream'[x] \in Streams
      BY <1>1, <1>5, <1>14, <1>15
    <2>2. QED
      BY <2>1, <1>6
  <1>20. stream'[Peer(e)] = rn /\ OutwardOK(conn[Peer(e)], app[Peer(e)], rn)
         /\ InwardOK(conn[Peer(e)], app[Peer(e)], sn)
    BY <1>5, <1>18 DEF p
  <1>21. c \in Conns
    BY <1>10 DEF ReadLeaves
  <1>22. QED
    BY <1>3, <1>4, <1>5, <1>13, <1>14, <1>15, <1>16, <1>17, <1>19, <1>20, <1>21, StepKeepsInv, Zenon

LEMMA PumpLiveKeeps ==
    ASSUME IInv, NEW e \in Ends, NEW c \in Conns, c.status = "live",
           OutwardOK(c, app[e], stream[e]), InwardOK(c, app[e], stream[Peer(e)]), PumpLive(e, c)
    PROVE  IInv'
  <1> DEFINE a == app[e]
             r == stream[Peer(e)]
             flushed == Flush(c, a)
             drained == Drainable(flushed, r.arrived - r.read)
             queued == Queue(flushed, drained, a)
  <1>1. ReadAndReclaim(e, queued, drained)
    BY DEF PumpLive
  <1>2. a \in Apps /\ r \in Streams
    BY PeerFacts DEF IInv, ForwardTypeOK
  <1>3. SocketOK(c, a) /\ ~c.dead /\ c.out + c.wrote = r.read /\ r.read <= r.arrived
    BY DEF InwardOK
  <1>4. Delivers(c, flushed, 0) /\ SocketOK(flushed, a)
    BY <1>2, <1>3, FlushFacts
  <1>5. flushed \in Conns
    BY <1>4 DEF Delivers
  <1>6. r.read \in Nat /\ r.arrived \in Nat
    BY <1>2 DEF Streams
  <1>7. drained \in Nat /\ r.read + drained <= r.arrived
    BY <1>3, <1>6 DEF Drainable
  <1> HIDE DEF flushed, drained
  <1>8. Delivers(flushed, queued, drained) /\ SocketOK(queued, a)
    BY <1>2, <1>4, <1>5, <1>7, QueueFacts
  <1>9. queued \in Conns
    BY <1>8 DEF Delivers
  <1>10. /\ queued.status = "live" /\ queued.read_closed = c.read_closed /\ queued.fin_sent = c.fin_sent
         /\ (queued.dead \/ queued.out + queued.wrote = r.read + drained)
    <2>1. /\ c.out \in Nat /\ c.wrote \in Nat /\ flushed.out \in Nat /\ flushed.wrote \in Nat
          /\ queued.out \in Nat /\ queued.wrote \in Nat
      BY <1>5, <1>9 DEF Conns
    <2>2. QED
      BY <2>1, <1>3, <1>4, <1>6, <1>7, <1>8 DEF Delivers
  <1> HIDE DEF queued
  <1>11. OutwardOK(queued, app[e], stream[e])
    BY <1>10 DEF OutwardOK
  <1>12. QED
    BY <1>1, <1>7, <1>8, <1>9, <1>10, <1>11, ReadAndReclaimKeeps

LEMMA PumpKeeps ==
    ASSUME IInv, NEW e \in Ends, Pump(e)
    PROVE  IInv'
  <1> DEFINE p == Peer(e)
             s == stream[e]
             r == stream[p]
  <1>1. p \in Ends /\ p # e /\ Peer(p) = e /\ Ends = {e, p}
    BY PeerFacts
  <1>2. /\ conn[e] \in Conns /\ app[e] \in Apps /\ s \in Streams /\ r \in Streams
        /\ conn[p] \in Conns /\ app[p] \in Apps
        /\ OutwardOK(conn[e], app[e], s) /\ InwardOK(conn[e], app[e], r)
        /\ OutwardOK(conn[p], app[p], r) /\ InwardOK(conn[p], app[p], s)
    BY <1>1 DEF IInv, ForwardTypeOK
  <1>3. PICK connects \in BOOLEAN :
            LET c == AfterEvents(e, connects) IN
            IF c.status = "live" THEN PumpLive(e, c)
            ELSE /\ conn' = [conn EXCEPT ![e] = c]
                 /\ stream' = [stream EXCEPT ![e].fin = @ \/ conn[e].status = "none",
                                             ![p].close = IF @ = "event" THEN "seen" ELSE @]
                 /\ UNCHANGED app
    BY DEF Pump
  <1> DEFINE b == IF conn[e].status # "none" THEN conn[e]
                  ELSE [NewConn EXCEPT !.status = IF connects THEN "live" ELSE "gone"]
             c == AfterEvents(e, connects)
  <1>4. b \in Conns /\ OutwardOK(b, app[e], s) /\ InwardOK(b, app[e], r) /\ b.status # "none"
    <2>1. CASE conn[e].status # "none"
      BY <1>2, <2>1
    <2>2. CASE conn[e].status = "none"
      <3> DEFINE x == IF connects THEN "live" ELSE "gone"
      <3>1. x \in {"none", "live", "gone"} /\ x # "none"
        OBVIOUS
      <3>2. b = [NewConn EXCEPT !.status = x]
        BY <2>2
      <3> HIDE DEF x, b
      <3>3. /\ b \in Conns /\ b.status = x /\ b.out = 0 /\ b.wrote = 0
            /\ ~b.read_closed /\ ~b.fin_sent /\ ~b.dead
        BY <3>1, <3>2, NewConnFacts
      <3>4. r.read = 0 /\ app[e].used = 0 /\ r.read <= r.arrived
        BY <1>2, <2>2, Zenon DEF InwardOK
      <3>5. SocketRoom \in Nat
        BY ForwardAssumption
      <3>6. QED
        BY <1>2, <3>1, <3>3, <3>4, <3>5, SMTT(30) DEF OutwardOK, InwardOK, SocketOK
    <2>3. QED
      BY <2>1, <2>2
  <1>5. c \in Conns /\ OutwardOK(c, app[e], s) /\ InwardOK(c, app[e], r) /\ c.status # "none"
    <2> DEFINE m == [b EXCEPT !.peer_closed = TRUE]
    <2>1. c = b \/ c = m
      BY DEF AfterEvents
    <2> HIDE DEF b, c
    <2>2. m \in Conns /\ m.status = b.status /\ m.out = b.out /\ m.wrote = b.wrote /\ m.dead = b.dead
      BY <1>4, Zenon DEF Conns
    <2>3. m.read_closed = b.read_closed /\ m.fin_sent = b.fin_sent
      BY <1>4 DEF Conns
    <2> HIDE DEF m
    <2>4. OutwardOK(m, app[e], s) /\ InwardOK(m, app[e], r)
      BY <1>4, <2>2, <2>3 DEF OutwardOK, InwardOK, SocketOK
    <2>5. QED
      BY <1>4, <2>1, <2>2, <2>4
  <1>6. CASE c.status = "live"
    <2>1. PumpLive(e, c)
      BY <1>3, <1>6
    <2> HIDE DEF c
    <2>2. QED
      BY <1>5, <1>6, <2>1, PumpLiveKeeps
  <1>7. CASE c.status # "live"
    <2> DEFINE fn == s.fin \/ conn[e].status = "none"
               cl == IF r.close = "event" THEN "seen" ELSE r.close
               sn == [s EXCEPT !.fin = fn]
               rn == [r EXCEPT !.close = cl]
    <2>1. /\ conn' = [conn EXCEPT ![e] = c]
          /\ stream' = [stream EXCEPT ![e].fin = @ \/ conn[e].status = "none",
                                      ![p].close = IF @ = "event" THEN "seen" ELSE @]
          /\ app' = app
      BY <1>3, <1>7
    <2>2. app' = [app EXCEPT ![e] = app[e]]
      BY <2>1 DEF IInv, ForwardTypeOK
    <2>3. fn \in BOOLEAN
      BY Zenon
    <2>4. cl \in {"none", "event", "seen"}
      BY <1>2 DEF Streams
    <2> HIDE DEF p
    <2>5. stream'[e] = sn /\ stream'[p] = rn
      BY <1>1, <1>2, <2>1 DEF IInv, ForwardTypeOK
    <2>6. DOMAIN stream' = Ends /\ stream' = [x \in Ends |-> stream'[x]]
      BY <1>1, <2>1, Zenon DEF IInv, ForwardTypeOK
    <2> HIDE DEF c, s, r, fn, cl
    <2>7. sn \in Streams /\ sn.written = s.written /\ sn.read = s.read /\ sn.arrived = s.arrived
      BY <1>2, <2>3 DEF Streams
    <2>8. rn \in Streams /\ rn.written = r.written /\ rn.read = r.read /\ rn.arrived = r.arrived
      BY <1>2, <2>4 DEF Streams
    <2> HIDE DEF sn, rn
    <2>9. /\ OutwardOK(c, app[e], sn) /\ InwardOK(c, app[e], rn)
          /\ OutwardOK(conn[p], app[p], rn) /\ InwardOK(conn[p], app[p], sn)
      BY <1>2, <1>5, <2>7, <2>8, Zenon DEF OutwardOK, InwardOK
    <2>10. stream' \in [Ends -> Streams]
      <3>1. \A x \in Ends : stream'[x] \in Streams
        BY <1>1, <2>5, <2>7, <2>8
      <3>2. QED
        BY <2>6, <3>1
    <2>11. stream'[Peer(e)] = rn /\ OutwardOK(conn[Peer(e)], app[Peer(e)], rn)
           /\ InwardOK(conn[Peer(e)], app[Peer(e)], sn)
      BY <2>5, <2>9 DEF p
    <2>12. QED
      BY <1>2, <1>5, <2>1, <2>2, <2>5, <2>7, <2>8, <2>9, <2>10, <2>11, StepKeepsInv, Zenon
  <1>8. QED
    BY <1>6, <1>7

LEMMA StreamKeeps ==
    ASSUME IInv, NEW e \in Ends, Arrive(e) \/ CloseArrives(e)
    PROVE  IInv'
  <1> DEFINE s == stream[e]
  <1>1. s \in Streams /\ stream \in [Ends -> Streams]
    BY DEF IInv, ForwardTypeOK
  <1>2. PICK sn : /\ stream' = [stream EXCEPT ![e] = sn] /\ sn \in Streams
                  /\ sn.written = s.written /\ sn.read = s.read /\ s.arrived <= sn.arrived
    <2>1. CASE Arrive(e)
      <3> DEFINE x == [s EXCEPT !.arrived = @ + 1]
      <3>1. stream' = [stream EXCEPT ![e] = x]
        BY <2>1 DEF Arrive
      <3>2. x \in Streams /\ x.written = s.written /\ x.read = s.read /\ s.arrived <= x.arrived
        BY <1>1 DEF Streams
      <3>3. QED
        BY <3>1, <3>2, Zenon
    <2>2. CASE CloseArrives(e)
      <3> DEFINE x == [s EXCEPT !.close = "event"]
      <3>1. stream' = [stream EXCEPT ![e] = x]
        BY <2>2 DEF CloseArrives
      <3>2. x \in Streams /\ x.written = s.written /\ x.read = s.read /\ s.arrived <= x.arrived
        BY <1>1 DEF Streams
      <3>3. QED
        BY <3>1, <3>2, Zenon
    <2>3. QED
      BY <2>1, <2>2
  <1>3. conn' = conn /\ app' = app
    BY DEF Arrive, CloseArrives
  <1>4. \A x \in Ends : stream'[x] \in Streams /\ stream'[x].written = stream[x].written
                        /\ stream'[x].read = stream[x].read /\ stream[x].arrived <= stream'[x].arrived
    BY <1>1, <1>2 DEF Streams
  <1>5. ForwardTypeOK'
    BY <1>1, <1>2, <1>3 DEF IInv, ForwardTypeOK
  <1>6. ASSUME NEW x \in Ends
        PROVE  OutwardOK(conn[x], app[x], stream'[x]) /\ InwardOK(conn[x], app[x], stream'[Peer(x)])
    <2>1. Peer(x) \in Ends
      BY PeerFacts
    <2>2. OutwardOK(conn[x], app[x], stream[x]) /\ InwardOK(conn[x], app[x], stream[Peer(x)])
      BY DEF IInv
    <2>3. stream[Peer(x)].read \in Nat /\ stream[Peer(x)].arrived \in Nat /\ stream'[Peer(x)].arrived \in Nat
      BY <1>1, <1>4, <2>1 DEF Streams
    <2>4. QED
      BY <1>4, <2>1, <2>2, <2>3 DEF OutwardOK, InwardOK
  <1>7. QED
    BY <1>3, <1>5, <1>6, Zenon DEF IInv, OutwardOK, InwardOK, SocketOK

LEMMA AppKeeps ==
    ASSUME IInv, NEW e \in Ends, AppWrites(e) \/ AppShutsDown(e) \/ AppReads(e) \/ SocketBreaks(e)
    PROVE  IInv'
  <1> DEFINE a == app[e]
             c == conn[e]
  <1>1. a \in Apps /\ c \in Conns /\ app \in [Ends -> Apps]
    BY DEF IInv, ForwardTypeOK
  <1>2. OutwardOK(c, a, stream[e]) /\ InwardOK(c, a, stream[Peer(e)])
    BY DEF IInv
  <1>3. a.wrote \in Nat /\ a.taken \in Nat /\ a.used \in Nat /\ c.wrote \in Nat /\ SocketRoom \in Nat
    BY <1>1, ForwardAssumption DEF Apps, Conns
  <1>4. PICK an : /\ app' = [app EXCEPT ![e] = an] /\ an \in Apps
                  /\ OutwardOK(c, an, stream[e]) /\ InwardOK(c, an, stream[Peer(e)])
    <2>1. CASE AppWrites(e)
      <3> DEFINE x == [a EXCEPT !.wrote = @ + 1]
      <3>1. app' = [app EXCEPT ![e] = x] /\ ~a.shut
        BY <2>1 DEF AppWrites
      <3>2. x \in Apps /\ x.wrote = a.wrote + 1 /\ x.taken = a.taken /\ x.used = a.used /\ x.shut = a.shut
        BY <1>1, <1>3 DEF Apps
      <3> HIDE DEF x
      <3>3. OutwardOK(c, x, stream[e])
        BY <1>2, <1>3, <3>1, <3>2 DEF OutwardOK
      <3>4. InwardOK(c, x, stream[Peer(e)])
        BY <1>2, <3>2, Zenon DEF InwardOK, SocketOK
      <3>5. QED
        BY <3>1, <3>2, <3>3, <3>4, Zenon
    <2>2. CASE AppShutsDown(e)
      <3> DEFINE x == [a EXCEPT !.shut = TRUE]
      <3>1. app' = [app EXCEPT ![e] = x]
        BY <2>2 DEF AppShutsDown
      <3>2. x \in Apps /\ x.wrote = a.wrote /\ x.taken = a.taken /\ x.used = a.used /\ x.shut
        BY <1>1, Zenon DEF Apps
      <3> HIDE DEF x
      <3>3. OutwardOK(c, x, stream[e])
        BY <1>2, <3>2 DEF OutwardOK
      <3>4. InwardOK(c, x, stream[Peer(e)])
        BY <1>2, <3>2, Zenon DEF InwardOK, SocketOK
      <3>5. QED
        BY <3>1, <3>2, <3>3, <3>4, Zenon
    <2>3. CASE AppReads(e)
      <3> DEFINE x == [a EXCEPT !.used = @ + 1]
      <3>1. app' = [app EXCEPT ![e] = x] /\ a.used < c.wrote
        BY <2>3 DEF AppReads
      <3>2. x \in Apps /\ x.wrote = a.wrote /\ x.taken = a.taken /\ x.used = a.used + 1 /\ x.shut = a.shut
        BY <1>1, <1>3 DEF Apps
      <3> HIDE DEF x
      <3>3. OutwardOK(c, x, stream[e])
        BY <1>2, <3>2 DEF OutwardOK
      <3>4. SocketOK(c, x)
        BY <1>2, <1>3, <3>1, <3>2, SMTT(30) DEF InwardOK, SocketOK
      <3>5. c.status # "none"
        <4>1. SUFFICES ASSUME c.status = "none" PROVE FALSE
          OBVIOUS
        <4>2. QED
          BY <1>2, <1>3, <3>1, <4>1 DEF InwardOK, SocketOK
      <3>6. InwardOK(c, x, stream[Peer(e)])
        BY <1>2, <3>4, <3>5, Zenon DEF InwardOK
      <3>7. QED
        BY <3>1, <3>2, <3>3, <3>6, Zenon
    <2>4. CASE SocketBreaks(e)
      <3> DEFINE x == [a EXCEPT !.broken = TRUE]
      <3>1. app' = [app EXCEPT ![e] = x]
        BY <2>4 DEF SocketBreaks
      <3>2. x \in Apps /\ x.wrote = a.wrote /\ x.taken = a.taken /\ x.used = a.used /\ x.shut = a.shut
        BY <1>1, Zenon DEF Apps
      <3> HIDE DEF x
      <3>3. OutwardOK(c, x, stream[e])
        BY <1>2, <3>2 DEF OutwardOK
      <3>4. InwardOK(c, x, stream[Peer(e)])
        BY <1>2, <3>2 DEF InwardOK, SocketOK
      <3>5. QED
        BY <3>1, <3>2, <3>3, <3>4, Zenon
    <2>5. QED
      BY <2>1, <2>2, <2>3, <2>4
  <1>5. conn' = conn /\ stream' = stream
    BY DEF AppWrites, AppShutsDown, AppReads, SocketBreaks
  <1>6. conn' = [conn EXCEPT ![e] = c] /\ stream' \in [Ends -> Streams]
        /\ stream'[e] = stream[e] /\ stream'[Peer(e)] = stream[Peer(e)]
        /\ stream[e] \in Streams /\ stream[Peer(e)] \in Streams
    BY <1>5, PeerFacts DEF IInv, ForwardTypeOK
  <1>7. OutwardOK(conn[Peer(e)], app[Peer(e)], stream[Peer(e)])
        /\ InwardOK(conn[Peer(e)], app[Peer(e)], stream[e])
    BY PeerFacts DEF IInv
  <1> HIDE DEF a, c
  <1>8. QED
    BY <1>1, <1>4, <1>6, <1>7, StepKeepsInv, Zenon

LEMMA InitHolds == ForwardInit => IInv
  <1> SUFFICES ASSUME ForwardInit PROVE IInv
    OBVIOUS
  <1>1. PICK readers \in SUBSET Ends, leftover \in 0 .. MaxBytes["client"] :
            LET early(e) == IF e = "client" THEN leftover ELSE 0 IN
            /\ app = [e \in Ends |-> [wrote |-> early(e), taken |-> early(e), shut |-> FALSE, used |-> 0,
                                      broken |-> FALSE, reads |-> e \in readers]]
            /\ stream = [e \in Ends |-> [written |-> early(e), arrived |-> 0, read |-> 0, fin |-> FALSE,
                                         close |-> "none"]]
    BY Zenon DEF ForwardInit
  <1> DEFINE early(e) == IF e = "client" THEN leftover ELSE 0
  <1>2. leftover \in Nat /\ SocketRoom \in Nat
    BY ForwardAssumption DEF Ends
  <1>3. \A e \in Ends : early(e) \in Nat /\ (e \in readers) \in BOOLEAN
    BY <1>2
  <1>4. app \in [Ends -> Apps]
    BY <1>1, <1>3 DEF Apps
  <1>5. stream \in [Ends -> Streams]
    BY <1>1, <1>3 DEF Streams
  <1>6. conn \in [Ends -> Conns]
    BY NewConnFacts DEF ForwardInit
  <1>7. ASSUME NEW e \in Ends
        PROVE  OutwardOK(conn[e], app[e], stream[e]) /\ InwardOK(conn[e], app[e], stream[Peer(e)])
    <2>1. /\ conn[e] \in Conns /\ conn[e].out = 0 /\ conn[e].wrote = 0
          /\ ~conn[e].read_closed /\ ~conn[e].fin_sent /\ ~conn[e].dead
      BY NewConnFacts DEF ForwardInit
    <2>2. app[e].wrote = early(e) /\ app[e].taken = early(e) /\ app[e].used = 0 /\ stream[e].written = early(e)
      BY <1>1
    <2>3. stream[Peer(e)].read = 0 /\ stream[Peer(e)].arrived = 0
      BY <1>1, PeerFacts
    <2>4. early(e) <= early(e)
      BY <1>3
    <2> HIDE DEF early
    <2>5. OutwardOK(conn[e], app[e], stream[e])
      BY <2>1, <2>2, <2>4 DEF OutwardOK
    <2>6. QED
      BY <1>2, <2>1, <2>2, <2>3, <2>5 DEF InwardOK, SocketOK
  <1>8. QED
    BY <1>4, <1>5, <1>6, <1>7 DEF IInv, ForwardTypeOK

-----------------------------------------------------------------------------

\* The bookkeeping of both ends, IInv, holds in every state.
THEOREM ForwardInvariant == ForwardSpec => []IInv
  <1>1. ForwardInit => IInv
    BY InitHolds
  <1>2. ASSUME IInv, [ForwardNext]_forwardVars
        PROVE  IInv'
    <2>1. CASE ForwardNext
      BY <1>2, <2>1, PumpKeeps, StreamKeeps, AppKeeps DEF ForwardNext
    <2>2. CASE UNCHANGED forwardVars
      BY <1>2, <2>2 DEF forwardVars, IInv, ForwardTypeOK, OutwardOK, InwardOK, SocketOK
    <2>3. QED
      BY <1>2, <2>1, <2>2
  <1>3. QED
    BY <1>1, <1>2, PTL DEF ForwardSpec

\* Whatever the caps, the window, the stall limit and the socket's buffer, in whatever
\* order the two drivers, the streams and the applications take their steps: while a
\* connection lives, every byte read from the session is buffered or with the socket, and
\* a FIN follows all that the application wrote (forward.rs:76-136, client.rs:1235-1268).
THEOREM ForwardBothWaysWhole == ForwardSpec => []BothWaysWhole
  <1>1. IInv => BothWaysWhole
    <2> SUFFICES ASSUME IInv PROVE BothWaysWhole
      OBVIOUS
    <2>1. \A e \in Ends : OutwardOK(conn[e], app[e], stream[e]) /\ InwardOK(conn[e], app[e], stream[Peer(e)])
      BY DEF IInv
    <2>2. FinIsComplete
      BY <2>1 DEF FinIsComplete, OutwardOK
    <2>3. NothingLostWhileLive
      BY <2>1 DEF NothingLostWhileLive, Live, InwardOK
    <2>4. QED
      BY <2>2, <2>3 DEF BothWaysWhole
  <1>2. QED
    BY <1>1, ForwardInvariant, PTL

-----------------------------------------------------------------------------
\* The driver.

Events == [event : {"Opened", "Reset"}, key : Keys]

ListenersTypeOK ==
    /\ pc \in {"receive", "pump", "tick"}
    /\ sess \in [Sids -> {"new", "live", "gone"}] /\ offered \in [Sids -> Nat]
    /\ events \subseteq Events
    /\ streams \subseteq Keys /\ conns \subseteq Keys /\ dialled \subseteq Keys
    /\ remote_listeners \subseteq Sids /\ request \subseteq Sids

\* Only sessions that have been there ask for a listener, and have one.
AskedFor ==
    /\ \A s \in remote_listeners \cup request : sess[s] # "new"
    /\ \A s \in Sids : sess[s] = "new" => offered[s] = 0

\* The files, the commands and the streams go with what the driver holds at all times,
\* for sessions that are gone too.
Paired ==
    /\ agent_listeners \subseteq socks /\ socks \subseteq agent_listeners \cup left
    /\ children = {k \in conns : k.kind = "exec"}
    /\ \A k \in streams : \/ k \in conns \cup abandoned
                          \/ k.kind = "stderr" /\ Key(k.sid, "exec") \in conns

\* Until the next tick, all it holds is for sessions there are.
SweptNow ==
    pc = "tick" => /\ remote_listeners \subseteq Sessions /\ agent_listeners \subseteq Sessions
                   /\ \A k \in conns : k.sid \in Sessions

\* Sessions that are gone and whose listener is too: they do not come back.
Retired == {s \in Sids : sess[s] = "gone" /\ s \notin remote_listeners}

\* Each request that was in vain met the listener of a session that was gone, which the
\* same pump dropped.
InVain ==
    \A s \in Sids : sess[s] = "live" /\ s \notin remote_listeners => offered[s] <= Cardinality(Retired)

DriverIInv == ListenersTypeOK /\ AskedFor /\ Paired /\ SweptNow /\ InVain

LEMMA DriverInit == ListenersInit => DriverIInv
  <1> SUFFICES ASSUME ListenersInit PROVE DriverIInv
    OBVIOUS
  <1>1. ListenersTypeOK
    BY DEF ListenersInit, ListenersTypeOK
  <1>2. AskedFor /\ Paired /\ SweptNow
    BY DEF ListenersInit, AskedFor, Paired, SweptNow
  <1>3. InVain
    BY DEF ListenersInit, InVain
  <1>4. QED
    BY <1>1, <1>2, <1>3 DEF DriverIInv

\* Sets of sessions are finite, and one within another is the smaller.
LEMMA SidSets ==
    ASSUME NEW A \in SUBSET Sids, NEW B \in SUBSET Sids, A \subseteq B
    PROVE  /\ Cardinality(A) \in Nat /\ Cardinality(B) \in Nat /\ Cardinality(A) <= Cardinality(B)
           /\ A # B => Cardinality(A) < Cardinality(B)
  <1>1. IsFiniteSet(B) /\ IsFiniteSet(A)
    BY ListenersAssumption, FS_Subset
  <1>2. QED
    BY <1>1, FS_Subset, FS_CardinalityType

\* A step that only ends sessions, or starts them, makes no request in vain.
LEMMA SessionsStep ==
    ASSUME DriverIInv, UNCHANGED <<remote_listeners, offered>>,
           sess' \in [Sids -> {"new", "live", "gone"}],
           \A s \in Sids : /\ sess[s] = "gone" => sess'[s] = "gone"
                           /\ sess[s] = "live" => sess'[s] # "new"
    PROVE  /\ \A s \in remote_listeners : sess'[s] # "new"
           /\ \A s \in Sids : sess'[s] = "new" => offered'[s] = 0
           /\ InVain'
  <1>1. /\ sess \in [Sids -> {"new", "live", "gone"}] /\ remote_listeners \subseteq Sids
        /\ offered \in [Sids -> Nat]
    BY DEF DriverIInv, ListenersTypeOK
  <1>2. /\ \A s \in remote_listeners : sess'[s] # "new"
        /\ \A s \in Sids : sess'[s] = "new" => offered'[s] = 0
    BY <1>1 DEF DriverIInv, AskedFor
  <1>3. Retired \subseteq Retired' /\ Retired \in SUBSET Sids /\ Retired' \in SUBSET Sids
    BY <1>1 DEF Retired
  <1>4. /\ Cardinality(Retired) \in Nat /\ Cardinality(Retired') \in Nat
        /\ Cardinality(Retired) <= Cardinality(Retired')
    BY <1>3, SidSets
  <1>5. ASSUME NEW s \in Sids, sess'[s] = "live", s \notin remote_listeners
        PROVE  offered[s] <= Cardinality(Retired')
    <2>1. CASE sess[s] = "new"
      BY <1>4, <2>1 DEF DriverIInv, AskedFor
    <2>2. CASE sess[s] = "live"
      <3>1. offered[s] <= Cardinality(Retired) /\ offered[s] \in Nat
        BY <1>1, <1>5, <2>2 DEF DriverIInv, InVain
      <3>2. QED
        BY <1>4, <3>1
    <2>3. QED
      BY <1>1, <1>5, <2>1, <2>2
  <1>6. InVain'
    BY <1>5 DEF InVain
  <1>7. QED
    BY <1>2, <1>6

\* What a datagram asks for is for sessions there are, and does not touch the driver.
LEMMA ReceiveKeeps == DriverIInv /\ Receive => DriverIInv'
  <1> SUFFICES ASSUME DriverIInv, Receive PROVE DriverIInv'
    OBVIOUS
  <1>1. /\ pc' = "pump"
        /\ UNCHANGED <<streams, remote_listeners, agent_listeners, conns, socks, left, children,
                       abandoned>>
        /\ UNCHANGED <<dialled, offered>>
    BY DEF Receive, driverVars
  <1>2. Paired' /\ SweptNow'
    BY <1>1 DEF DriverIInv, Paired, SweptNow
  <1>3. sess \in [Sids -> {"new", "live", "gone"}] /\ events \subseteq Events /\ request \subseteq Sids
    BY DEF DriverIInv, ListenersTypeOK
  <1>4. \A s \in request : sess[s] # "new"
    BY DEF DriverIInv, AskedFor
  <1> DEFINE Asks ==
                 /\ sess' \in [Sids -> {"new", "live", "gone"}] /\ events' \subseteq Events
                 /\ request' \subseteq Sids /\ \A s \in request' : sess'[s] # "new"
                 /\ \A s \in Sids : /\ sess[s] = "gone" => sess'[s] = "gone"
                                    /\ sess[s] = "live" => sess'[s] # "new"
  <1>5. Asks
    <2>1. CASE Idle
      BY <1>3, <1>4, <2>1 DEF Idle, coreVars
    <2>2. ASSUME NEW s \in Sids, Reattaches(s) PROVE Asks
      BY <1>3, <1>4, <2>2 DEF Reattaches, Sessions
    <2>3. ASSUME NEW s \in Sids, OpensShell(s) PROVE Asks
      BY <1>3, <1>4, <2>3 DEF OpensShell
    <2>4. ASSUME NEW s \in Sids, RequestsForward(s) PROVE Asks
      BY <1>3, <1>4, <2>4 DEF RequestsForward, Sessions
    <2>5. ASSUME NEW s \in Sids, StreamFrame(s) PROVE Asks
      <3>1. events' \subseteq Events
        <4>1. PICK kind \in ByClient \cup ByServer :
                  \/ events' = events \cup {[event |-> "Opened", key |-> Key(s, kind)]}
                  \/ events' = events \cup {[event |-> "Reset", key |-> Key(s, kind)]}
          BY <2>5 DEF StreamFrame
        <4>2. Key(s, kind) \in Keys
          BY DEF Key, Keys
        <4>3. QED
          BY <1>3, <4>1, <4>2 DEF Events
      <3>2. QED
        BY <1>3, <1>4, <2>5, <3>1 DEF StreamFrame
    <2>6. QED
      BY <2>1, <2>2, <2>3, <2>4, <2>5 DEF Receive
  <1>6. ListenersTypeOK'
    BY <1>1, <1>5 DEF DriverIInv, ListenersTypeOK
  <1>7. AskedFor' /\ InVain'
    BY <1>1, <1>5, SessionsStep DEF AskedFor
  <1>8. QED
    BY <1>2, <1>6, <1>7 DEF DriverIInv

\* A pump pairs what it takes on with what it lets go.
LEMMA PumpPairs ==
    ASSUME DriverIInv, PumpForwards
    PROVE  /\ conns' \subseteq Keys /\ streams' \subseteq Keys
           /\ \A k \in conns' : k.sid \in Sessions
           /\ children' = {k \in conns' : k.kind = "exec"}
           /\ \A k \in streams' : \/ k \in conns' \cup abandoned'
                                  \/ k.kind = "stderr" /\ Key(k.sid, "exec") \in conns'
  <1> DEFINE accepted == Waiting(remote_listeners', "remote")
             Now(wrapped, served) == (conns \cup wrapped \cup served) \ ResetKeys
             Execs(served) == {k \in served : k.kind = "exec"}
             PumpedTo(wrapped, served, finished, died) ==
                 /\ conns' = Surviving(Now(wrapped, served), finished)
                 /\ children' = (children \cup Execs(served))
                                  \ (Killed(children \cup Execs(served)) \cup finished)
                 /\ streams' = {k \in (streams \cup accepted \cup Now(wrapped, served) \cup Stderr(served))
                                        \ ((finished \ died) \cup ResetKeys \cup Stderr(finished \cup ResetKeys)) :
                                  k.sid \in Sessions}
                 /\ abandoned' = abandoned \cup died \cup (accepted \ wrapped)
  <1>1. PICK wrapped \in SUBSET (accepted \cup Waiting(agent_listeners', "agent")), served \in SUBSET Servable :
               \E finished \in SUBSET Now(wrapped, served) : \E died \in SUBSET Sockets(finished) :
                 PumpedTo(wrapped, served, finished, died)
    BY Zenon DEF PumpForwards
  <1> DEFINE now == Now(wrapped, served)
             execs == Execs(served)
  <1>2. PICK finished \in SUBSET now : \E died \in SUBSET Sockets(finished) :
               PumpedTo(wrapped, served, finished, died)
    BY <1>1, Zenon
  <1>3. PICK died \in SUBSET Sockets(finished) : PumpedTo(wrapped, served, finished, died)
    BY <1>2, Zenon
  <1>4. /\ wrapped \subseteq Keys /\ \A k \in wrapped : k.kind \in {"remote", "agent"}
        /\ accepted \subseteq Keys /\ \A k \in accepted : k.kind = "remote"
    BY <1>1 DEF Waiting, DriverIInv, ListenersTypeOK
  <1>5. served \subseteq Keys
    BY <1>1 DEF Servable, Opened, DriverIInv, ListenersTypeOK, Events
  <1>6. conns \subseteq Keys /\ streams \subseteq Keys
    BY DEF DriverIInv, ListenersTypeOK
  <1>7. /\ children = {k \in conns : k.kind = "exec"}
        /\ \A k \in streams : \/ k \in conns \cup abandoned
                              \/ k.kind = "stderr" /\ Key(k.sid, "exec") \in conns
    BY DEF DriverIInv, Paired
  <1>8. \A k : k \in conns' <=> k \in now /\ k \notin finished /\ k.sid \in Sessions
    BY <1>3 DEF Surviving
  <1>9. conns' \subseteq Keys /\ \A k \in conns' : k.sid \in Sessions
    BY <1>4, <1>5, <1>6, <1>8
  <1>10. children' = {k \in conns' : k.kind = "exec"}
    <2>1. \A k : k \in children' <=> /\ k \in children \cup execs /\ k \notin ResetKeys
                                     /\ k.sid \in Sessions /\ k \notin finished
      BY <1>3 DEF Killed
    <2>2. \A k : k \in children \cup execs <=> k \in conns \cup wrapped \cup served /\ k.kind = "exec"
      BY <1>4, <1>7
    <2>3. QED
      BY <1>8, <2>1, <2>2
  <1>11. \A k \in Keys : k.sid \in Sids /\ k.kind \in ByClient \cup ByServer /\ k = Key(k.sid, k.kind)
    BY DEF Keys, Key
  <1>12. \A k \in Stderr(served) : k.kind = "stderr" /\ k \in Keys /\ Key(k.sid, "exec") \in served
    <2> SUFFICES ASSUME NEW x \in served, x.kind = "exec"
                 PROVE  /\ Key(x.sid, "stderr").kind = "stderr" /\ Key(x.sid, "stderr") \in Keys
                        /\ Key(Key(x.sid, "stderr").sid, "exec") \in served
      BY DEF Stderr
    <2>1. x.sid \in Sids /\ x = Key(x.sid, "exec")
      BY <1>5, <1>11
    <2>2. QED
      BY <2>1 DEF Key, Keys, ByServer
  <1>13. \A k \in Keys : k.kind = "stderr" /\ Key(k.sid, "exec") \in finished \cup ResetKeys
                          => k \in Stderr(finished \cup ResetKeys)
    <2> SUFFICES ASSUME NEW k \in Keys, k.kind = "stderr", Key(k.sid, "exec") \in finished \cup ResetKeys
                 PROVE  k \in Stderr(finished \cup ResetKeys)
      BY Zenon
    <2> DEFINE x == Key(k.sid, "exec")
    <2>1. x \in finished \cup ResetKeys /\ x.kind = "exec" /\ k = Key(x.sid, "stderr")
      BY <1>11 DEF Key
    <2> HIDE DEF x
    <2>2. QED
      BY <2>1 DEF Stderr
  <1>14. \A k : Key(k.sid, "exec").sid = k.sid
    BY DEF Key
  <1>15. \A k \in streams' :
            /\ k \in streams \cup accepted \cup now \cup Stderr(served)
            /\ k \notin (finished \ died) \cup ResetKeys /\ k \notin Stderr(finished \cup ResetKeys)
            /\ k.sid \in Sessions
    BY <1>3, Zenon
  <1>16. streams' \subseteq Keys
    BY <1>4, <1>5, <1>6, <1>12, <1>15
  <1> HIDE DEF now, accepted, execs
  <1>17. ASSUME NEW k \in streams', k \notin conns' \cup abandoned'
         PROVE  k.kind = "stderr" /\ Key(k.sid, "exec") \in conns'
    <2>1. k \notin abandoned /\ k \notin finished /\ (k \in accepted => k \in wrapped)
      BY <1>3, <1>15, <1>17
    <2>2. k \notin now
      BY <1>8, <1>15, <1>17, <2>1
    <2>3. k \notin accepted /\ k \notin conns
      BY <1>15, <2>1, <2>2 DEF now
    <2>4. k \in streams \/ k \in Stderr(served)
      BY <1>15, <2>2, <2>3
    <2>5. k.kind = "stderr" /\ Key(k.sid, "exec") \in conns \cup served
      BY <1>7, <1>12, <2>1, <2>3, <2>4
    <2>6. Key(k.sid, "exec") \notin finished \cup ResetKeys
      BY <1>13, <1>15, <1>16, <2>5, Zenon
    <2>7. QED
      BY <1>8, <1>14, <1>15, <2>5, <2>6 DEF now
  <1>18. QED
    BY <1>9, <1>10, <1>16, <1>17

\* A request finds the port taken by a session that is gone, and then never again, or it
\* is served.
LEMMA PumpServes ==
    ASSUME DriverIInv, PumpForwards
    PROVE  /\ remote_listeners' \subseteq Sessions /\ InVain' /\ offered' \in [Sids -> Nat]
           /\ \A s \in Sids : sess[s] = "new" => offered'[s] = 0
  <1>1. /\ sess' = sess /\ remote_listeners' = {s \in Bound : s \in Sessions}
        /\ offered' = [s \in Sids |->
             IF s \in request /\ s \in Sessions /\ ~other /\ remote_listeners \cap Sessions \subseteq {s}
             THEN offered[s] + 1 ELSE offered[s]]
    BY DEF PumpForwards, Holders
  <1>2. /\ sess \in [Sids -> {"new", "live", "gone"}] /\ offered \in [Sids -> Nat]
        /\ remote_listeners \subseteq Sids /\ \A s \in remote_listeners : sess[s] # "new"
        /\ \A s \in Sids : sess[s] = "new" => offered[s] = 0
    BY DEF DriverIInv, ListenersTypeOK, AskedFor
  <1>3. offered' \in [Sids -> Nat]
    BY <1>1, <1>2
  <1>4. \A s \in Sids : sess[s] = "new" => offered'[s] = 0
    BY <1>1, <1>2 DEF Sessions
  <1>5. remote_listeners \subseteq Bound
    BY DEF Bound
  <1>6. \A s \in Sids : s \in remote_listeners' => sess[s] = "live"
    BY <1>1 DEF Sessions
  <1>7. Retired \subseteq Retired' /\ Retired \in SUBSET Sids /\ Retired' \in SUBSET Sids
    BY <1>1, <1>6 DEF Retired
  <1>8. /\ Cardinality(Retired) \in Nat /\ Cardinality(Retired') \in Nat
        /\ Cardinality(Retired) <= Cardinality(Retired')
        /\ Retired # Retired' => Cardinality(Retired) < Cardinality(Retired')
    BY <1>7, SidSets
  <1>9. ASSUME NEW s \in Sids, sess[s] = "live", s \notin remote_listeners'
        PROVE  offered'[s] <= Cardinality(Retired')
    <2>1. s \in Sessions /\ s \notin remote_listeners
      BY <1>1, <1>5, <1>9 DEF Sessions
    <2>2. offered[s] <= Cardinality(Retired) /\ offered[s] \in Nat
      BY <1>2, <1>9, <2>1 DEF DriverIInv, InVain
    <2>3. CASE offered'[s] = offered[s]
      BY <1>8, <2>2, <2>3
    <2>4. CASE offered'[s] # offered[s]
      <3>1. /\ s \in request /\ ~other /\ remote_listeners \cap Sessions \subseteq {s}
            /\ offered'[s] = offered[s] + 1
        BY <1>1, <2>4
      <3>2. s \notin Bound
        BY <1>1, <1>9, <2>1
      <3>3. PICK r : r \in remote_listeners
        BY <3>1, <3>2 DEF Bound, PortFree
      <3>4. r \in Sids /\ r \notin Sessions /\ sess[r] = "gone"
        BY <1>2, <2>1, <3>1, <3>3 DEF Sessions
      <3>5. r \in Retired' /\ r \notin Retired
        BY <1>1, <1>6, <3>3, <3>4 DEF Retired
      <3>6. QED
        BY <1>8, <2>2, <3>1, <3>5
    <2>5. QED
      BY <2>3, <2>4
  <1>10. InVain'
    BY <1>1, <1>9 DEF InVain
  <1>11. QED
    BY <1>1, <1>3, <1>4, <1>10

LEMMA PumpForwardsKeeps == DriverIInv /\ PumpForwards => DriverIInv'
  <1> SUFFICES ASSUME DriverIInv, PumpForwards PROVE DriverIInv'
    OBVIOUS
  <1>1. /\ pc' = "tick" /\ sess' = sess /\ request' = {} /\ events' = {}
        /\ remote_listeners' \subseteq Sids
    BY DEF PumpForwards, Holders, Sessions
  <1>2. Sessions' = Sessions
    BY <1>1 DEF Sessions
  <1>3. dialled' \subseteq Keys
    BY DEF PumpForwards, DriverIInv, ListenersTypeOK
  <1>4. /\ agent_listeners' \subseteq Sessions
        /\ agent_listeners' \subseteq socks' /\ socks' \subseteq agent_listeners' \cup left'
    <2>1. agent_listeners \subseteq socks /\ socks \subseteq agent_listeners \cup left
      BY DEF DriverIInv, Paired
    <2>2. PICK bound \in SUBSET agent_request : \E leaves \in SUBSET (agent_request \ bound) :
                 AgentBound(bound, leaves)
      BY DEF PumpForwards
    <2>3. PICK leaves \in SUBSET (agent_request \ bound) : AgentBound(bound, leaves)
      BY <2>2
    <2>4. QED
      BY <2>1, <2>3 DEF AgentBound, Holders
  <1>5. ListenersTypeOK'
    BY <1>1, <1>3, PumpPairs, PumpServes DEF DriverIInv, ListenersTypeOK
  <1>6. AskedFor'
    <2>1. \A s \in remote_listeners' : sess[s] # "new"
      BY PumpServes DEF Sessions
    <2>2. QED
      BY <1>1, <2>1, PumpServes DEF AskedFor
  <1>7. Paired'
    BY <1>4, PumpPairs DEF Paired
  <1>8. SweptNow'
    BY <1>2, <1>4, PumpPairs, PumpServes DEF SweptNow
  <1>9. QED
    BY <1>5, <1>6, <1>7, <1>8, PumpServes DEF DriverIInv

LEMMA TickKeeps == DriverIInv /\ Tick => DriverIInv'
  <1> SUFFICES ASSUME DriverIInv, Tick PROVE DriverIInv'
    OBVIOUS
  <1>1. /\ pc' = "receive"
        /\ UNCHANGED <<request, events, remote_listeners, agent_listeners, conns, socks, left,
                       children, abandoned, dialled, offered>>
    BY Zenon DEF Tick, worldVars
  <1>2. PICK done \in SUBSET Sessions :
          /\ sess' = [s \in Sids |-> IF s \in done THEN "gone" ELSE sess[s]]
          /\ streams' = {k \in streams : k.sid \notin done}
    BY Zenon DEF Tick
  <1>3. sess \in [Sids -> {"new", "live", "gone"}] /\ request \subseteq Sids
    BY DEF DriverIInv, ListenersTypeOK
  <1>4. /\ sess' \in [Sids -> {"new", "live", "gone"}]
        /\ \A s \in Sids : /\ sess[s] = "gone" => sess'[s] = "gone"
                           /\ sess[s] = "live" => sess'[s] # "new"
        /\ \A s \in request : sess'[s] # "new"
    BY <1>2, <1>3 DEF DriverIInv, AskedFor
  <1>5. ListenersTypeOK'
    BY <1>1, <1>2, <1>4 DEF DriverIInv, ListenersTypeOK
  <1>6. AskedFor' /\ InVain'
    BY <1>1, <1>4, SessionsStep DEF AskedFor
  <1>7. Paired' /\ SweptNow'
    BY <1>1, <1>2 DEF DriverIInv, Paired, SweptNow
  <1>8. QED
    BY <1>5, <1>6, <1>7 DEF DriverIInv

\* What clients, other processes and the network do in between.
LEMMA WorldKeeps ==
    ASSUME DriverIInv, UNCHANGED <<pc, coreVars, driverVars, offered>>, dialled' \subseteq Keys
    PROVE  DriverIInv'
  <1>1. UNCHANGED <<pc, sess, request, events, streams, remote_listeners, agent_listeners, conns,
                    socks, left, children, abandoned, offered>>
    BY DEF coreVars, driverVars
  <1>2. ListenersTypeOK'
    BY <1>1 DEF DriverIInv, ListenersTypeOK
  <1>3. AskedFor' /\ Paired'
    BY <1>1 DEF DriverIInv, AskedFor, Paired
  <1>4. SweptNow' /\ InVain'
    BY <1>1 DEF DriverIInv, SweptNow, InVain, Sessions, Retired
  <1>5. QED
    BY <1>2, <1>3, <1>4 DEF DriverIInv

LEMMA DriverNext == DriverIInv /\ [ListenersNext]_listenersVars => DriverIInv'
  <1> SUFFICES ASSUME DriverIInv, [ListenersNext]_listenersVars PROVE DriverIInv'
    OBVIOUS
  <1>1. dialled \subseteq Keys /\ remote_listeners \subseteq Sids
    BY DEF DriverIInv, ListenersTypeOK
  <1>2. CASE OtherProcess
    BY <1>1, <1>2, WorldKeeps DEF OtherProcess
  <1>3. ASSUME NEW s \in Sids, ClientTick(s) \/ Lost(s) PROVE DriverIInv'
    BY <1>1, <1>3, WorldKeeps DEF ClientTick, Lost
  <1>4. ASSUME NEW s \in Sids, Dials(s) PROVE DriverIInv'
    <2>1. \A kind \in {"remote", "agent"} : Key(s, kind) \in Keys
      BY DEF Key, Keys, ByServer
    <2>2. dialled' \subseteq Keys
      BY <1>1, <1>4, <2>1 DEF Dials
    <2>3. QED
      BY <1>4, <2>2, WorldKeeps DEF Dials
  <1>5. CASE UNCHANGED listenersVars
    BY <1>1, <1>5, WorldKeeps DEF listenersVars, worldVars
  <1>6. QED
    BY <1>2, <1>3, <1>4, <1>5, ReceiveKeeps, PumpForwardsKeeps, TickKeeps DEF ListenersNext

LEMMA DriverInvariant == ListenersSpec => []DriverIInv
  BY DriverInit, DriverNext, PTL DEF ListenersSpec

\* The driver holds nothing for sessions that are gone, leaves no stream without its other
\* half but where a socket failed, and has the listeners that the sessions there are asked
\* for (pump_forwards, server.rs:766-1162), for any finite number of sessions that come,
\* take over shells and go: a request is in vain at most once for each session that is
\* gone.
THEOREM ListenersDriverExact == ListenersSpec => []DriverExact
  <1>1. DriverIInv => NoOrphans
    BY DEF DriverIInv, Paired, SweptNow, NoOrphans
  <1>2. DriverIInv => RemoteForwardBound
    <2> SUFFICES ASSUME DriverIInv, NEW s \in Sessions, s \notin remote_listeners,
                        offered[s] >= Cardinality(Sids)
                 PROVE  FALSE
      BY DEF RemoteForwardBound
    <2>1. s \in Sids /\ sess[s] = "live" /\ offered[s] \in Nat
      BY DEF Sessions, DriverIInv, ListenersTypeOK
    <2>2. Retired \in SUBSET Sids /\ Retired # Sids
      BY <2>1 DEF Retired
    <2>3. /\ Cardinality(Retired) < Cardinality(Sids)
          /\ Cardinality(Retired) \in Nat /\ Cardinality(Sids) \in Nat
      BY <2>2, SidSets
    <2>4. offered[s] <= Cardinality(Retired)
      BY <2>1 DEF DriverIInv, InVain
    <2>5. QED
      BY <2>1, <2>3, <2>4
  <1>3. QED
    BY <1>1, <1>2, DriverInvariant, PTL DEF DriverExact

=============================================================================
