-------------------------- MODULE TransportProofs --------------------------
(***************************************************************************)
(* Sessions: for every window width, every set of addresses and every       *)
(* length of the session, the replay filters are exact, frames are handed   *)
(* up at most once and none inside the window is refused, and the server's  *)
(* view of the client's address settles after a move.                       *)
(*                                                                         *)
(* Streams: the RTO stays in its range, the timer runs exactly while data   *)
(* is outstanding, and RTT samples are unambiguous, for every window, every *)
(* range of the RTO and every pattern of writes, polls and acks.  The bytes *)
(* a receiver reads are the sender's, in whatever pieces and order they     *)
(* arrive.                                                                  *)
(***************************************************************************)
EXTENDS Session, StreamTiming, Reassembly, FiniteSetTheorems, SequenceTheorems,
        WellFoundedInduction, TLAPS

\* check_and_set keeps the filter exact when it accepts a nonce: sliding the
\* window (replay.rs:32-41) and setting a bit below the maximum (47-52) both
\* preserve the meaning of the bitmap.
LEMMA UpdatedExact ==
    ASSUME NEW f \in [max : Nat \cup {None}, bitmap : SUBSET Bits],
           NEW accepted_0 \in SUBSET Nat, ExactFor(f, accepted_0),
           NEW nonce \in Nat, IsFresh(f, nonce)
    PROVE  /\ ExactFor(Updated(f, nonce), accepted_0 \cup {nonce})
           /\ Updated(f, nonce) \in [max : Nat \cup {None}, bitmap : SUBSET Bits]
<1> DEFINE g == Updated(f, nonce)
           acc == accepted_0 \cup {nonce}
<1> USE WindowAssumption DEF None, Bits
<1>1. CASE f.max = None
  <2>1. g = [max |-> nonce, bitmap |-> {0}] /\ acc = {nonce}
    BY <1>1 DEF Updated, ExactFor
  <2>2. \A i \in Bits : i \in g.bitmap <=> g.max - i \in acc
    BY <2>1
  <2> QED BY <2>1, <2>2 DEF ExactFor
<1>2. CASE f.max # None /\ nonce > f.max
  <2>1. g = Slide(f, nonce) /\ g.max = nonce
    BY <1>2 DEF Updated, Slide
  <2>2. f.max \in Nat /\ nonce - f.max \in Nat /\ nonce - f.max > 0
    BY <1>2
  <2>3. g.bitmap \in SUBSET Bits
    BY <2>1 DEF Slide, ShiftLeft
  <2>4. ASSUME NEW i \in Bits PROVE i \in g.bitmap <=> nonce - i \in acc
    <3>1. CASE nonce - f.max >= WINDOW
      BY <1>2, <2>1, <2>2, <3>1 DEF Slide, ExactFor
    <3>2. CASE nonce - f.max < WINDOW
      <4>1. i \in g.bitmap <=> i = 0 \/ i - (nonce - f.max) \in f.bitmap
        BY <2>1, <3>2, <2>2 DEF Slide, ShiftLeft
      <4>2. CASE i - (nonce - f.max) \in Bits
        BY <1>2, <4>1, <4>2, <2>2 DEF ExactFor
      <4>3. CASE i - (nonce - f.max) \notin Bits
        <5>1. i - (nonce - f.max) < 0
          BY <4>3, <2>2
        <5>2. nonce - i > f.max
          BY <5>1, <2>2
        <5> QED BY <1>2, <4>1, <4>3, <5>2 DEF ExactFor
      <4> QED BY <4>2, <4>3
    <3> QED BY <3>1, <3>2, <2>2
  <2> QED BY <1>2, <2>1, <2>2, <2>3, <2>4 DEF ExactFor, Slide
<1>3. CASE f.max # None /\ ~(nonce > f.max)
  <2>1. g = [f EXCEPT !.bitmap = @ \cup {f.max - nonce}] /\ f.max - nonce \in Bits
    BY <1>3 DEF Updated, IsFresh, FreshWithin
  <2>2. g.max = f.max /\ g.bitmap = f.bitmap \cup {f.max - nonce} /\ f.max \in Nat
    BY <2>1, <1>3
  <2>3. \A i \in Bits : i \in g.bitmap <=> g.max - i \in acc
    BY <1>3, <2>1, <2>2 DEF ExactFor
  <2> QED BY <1>3, <2>1, <2>2, <2>3 DEF ExactFor
<1> QED BY <1>1, <1>2, <1>3

\* An exact filter refuses every nonce it has accepted before (replay.rs:42-50).
LEMMA ExactRefusesReplay ==
    ASSUME NEW f \in [max : Nat \cup {None}, bitmap : SUBSET Bits],
           NEW accepted_0 \in SUBSET Nat, ExactFor(f, accepted_0),
           NEW nonce \in accepted_0
    PROVE  ~IsFresh(f, nonce)
<1> USE WindowAssumption DEF None, Bits
<1>1. f.max \in Nat /\ nonce <= f.max
  BY DEF ExactFor
<1>2. CASE f.max - nonce >= WINDOW
  BY <1>1, <1>2 DEF IsFresh, FreshWithin
<1>3. CASE f.max - nonce < WINDOW
  <2>1. f.max - nonce \in Bits /\ f.max - (f.max - nonce) = nonce
    BY <1>1, <1>3
  <2>2. f.max - nonce \in f.bitmap
    BY <1>1, <2>1 DEF ExactFor
  <2> QED BY <1>1, <2>2 DEF IsFresh, FreshWithin
<1> QED BY <1>1, <1>2, <1>3

\* An exact filter accepts every nonce it has not accepted before unless it is
\* WINDOW or more behind the maximum (replay.rs:44-46).
LEMMA ExactAcceptsFresh ==
    ASSUME NEW f \in [max : Nat \cup {None}, bitmap : SUBSET Bits],
           NEW accepted_0 \in SUBSET Nat, ExactFor(f, accepted_0),
           NEW nonce \in Nat, nonce \notin accepted_0,
           f.max = None \/ nonce > f.max - WINDOW
    PROVE  IsFresh(f, nonce)
<1> USE WindowAssumption DEF None, Bits
<1>1. CASE f.max = None \/ nonce > f.max
  BY <1>1 DEF IsFresh, FreshWithin
<1>2. CASE f.max # None /\ ~(nonce > f.max)
  <2>1. f.max \in Nat /\ f.max - nonce \in Bits /\ f.max - (f.max - nonce) = nonce
    BY <1>2
  <2>2. f.max - nonce \notin f.bitmap
    BY <1>2, <2>1 DEF ExactFor
  <2> QED BY <2>1, <2>2 DEF IsFresh, FreshWithin
<1> QED BY <1>1, <1>2

---------------------------------------------------------------------------

\* What is in flight: packets that were sealed, and from the client's present address
\* if they were sealed after its last move.
WireTruthful ==
    /\ roam_nonce <= send_nonce["client"]
    /\ \A d \in wire :
         /\ d.nonce < send_nonce[Peer(d.to)]
         /\ d.to = "server" /\ d.nonce >= roam_nonce => d.addr = client_addr

\* The inductive invariant.
IInv == TypeOK /\ FilterOnlyGenuine /\ FramesAtMostOnce /\ WireTruthful /\ RoamingSettles

\* A sealed packet that is handed up: what admitting a fresh nonce does to the filter of
\* that end and to the count of its packets.
LEMMA AdmitKeepsExact ==
    ASSUME IInv, NEW d \in wire, Open(d)
    PROVE  TypeOK' /\ FilterOnlyGenuine' /\ FramesAtMostOnce'
<1>0. Packets \subseteq Nat
  BY MaxNonceAssumption DEF Packets
<1>1. d \in Datagrams /\ d.to \in Ends /\ d.nonce \in Nat /\ d.nonce \in Packets /\ d.addr \in Addrs
  BY <1>0, Zenon DEF IInv, TypeOK, Datagrams
<1>2. CASE ~IsFresh(filter[d.to], d.nonce)
  <2>1. UNCHANGED <<filter, peer_addr, handed, send_nonce, client_addr, wire, roams, roam_nonce>>
        /\ outcome' = "Replay"
    BY <1>2 DEF Open, OpenWith, Admit
  <2> QED BY <2>1 DEF IInv, TypeOK, FilterOnlyGenuine, FramesAtMostOnce, Accepted, Outcomes
<1>3. CASE IsFresh(filter[d.to], d.nonce)
  <2> DEFINE src == IF d.to = "server" THEN d.addr ELSE ServerAddr
  <2>1. /\ filter' = [filter EXCEPT ![d.to] = Updated(filter[d.to], d.nonce)]
        /\ peer_addr' = [peer_addr EXCEPT ![d.to] = src]
        /\ outcome' = "frames"
        /\ handed' = [handed EXCEPT ![d.to][d.nonce] = @ + 1]
        /\ UNCHANGED <<send_nonce, client_addr, wire, roams, roam_nonce>>
    BY <1>3 DEF Open, OpenWith, Admit
  <2>2. filter[d.to] \in [max : Nat \cup {None}, bitmap : SUBSET Bits]
    BY <1>1 DEF IInv, TypeOK
  <2>3. Accepted(d.to) \in SUBSET Nat /\ ExactFor(filter[d.to], Accepted(d.to))
    BY <1>0, <1>1, Zenon DEF IInv, FilterOnlyGenuine, Accepted
  <2>4. /\ ExactFor(Updated(filter[d.to], d.nonce), Accepted(d.to) \cup {d.nonce})
        /\ Updated(filter[d.to], d.nonce) \in [max : Nat \cup {None}, bitmap : SUBSET Bits]
    BY <1>1, <1>3, <2>2, <2>3, UpdatedExact, Zenon
  <2>5. handed \in [Ends -> [Packets -> Nat]]
    BY DEF IInv, TypeOK
  <2>p. /\ \A n \in Packets : handed[d.to][n] \in Nat
        /\ \A n \in Packets : handed'[d.to][n] = handed[d.to][n] + IF n = d.nonce THEN 1 ELSE 0
        /\ \A e \in Ends : e # d.to => handed'[e] = handed[e]
    BY <1>1, <2>1, <2>5
  <2>6. Accepted(d.to)' = Accepted(d.to) \cup {d.nonce}
    BY <1>1, <2>p DEF Accepted
  <2>7. \A e \in Ends : e # d.to => Accepted(e)' = Accepted(e)
    BY <2>p DEF Accepted
  <2>8. d.nonce \notin Accepted(d.to)
    BY <1>3, <2>2, <2>3, ExactRefusesReplay
  <2>9. handed[d.to][d.nonce] = 0
    BY <1>1, <2>p, <2>8 DEF Accepted
  <2>10. d.nonce < send_nonce[Peer(d.to)]
    BY DEF IInv, WireTruthful
  <2>11. TypeOK'
    <3>1. filter' \in [Ends -> [max : Nat \cup {None}, bitmap : SUBSET Bits]]
      BY <2>1, <2>4, Zenon DEF IInv, TypeOK
    <3>2. handed' \in [Ends -> [Packets -> Nat]]
      BY <1>1, <2>1, <2>5
    <3>3. peer_addr' \in [Ends -> Addrs \cup {ServerAddr}] /\ peer_addr'["server"] \in Addrs
      BY <1>1, <2>1 DEF IInv, TypeOK, Ends
    <3> QED BY <2>1, <3>1, <3>2, <3>3 DEF IInv, TypeOK, Outcomes
  <2>12. FilterOnlyGenuine'
    <3>1. ASSUME NEW e \in Ends PROVE ExactFor(filter'[e], Accepted(e)')
      <4>1. CASE e = d.to
        BY <4>1, <2>1, <2>4, <2>6 DEF IInv, TypeOK
      <4>2. CASE e # d.to
        BY <4>2, <2>1, <2>7 DEF IInv, TypeOK, FilterOnlyGenuine
      <4> QED BY <4>1, <4>2
    <3> QED BY <3>1 DEF FilterOnlyGenuine
  <2>13. FramesAtMostOnce'
    <3>1. ASSUME NEW e \in Ends, NEW n \in Packets
          PROVE  handed'[e][n] <= IF n < send_nonce[Peer(e)] THEN 1 ELSE 0
      <4>1. handed[e][n] <= IF n < send_nonce[Peer(e)] THEN 1 ELSE 0
        BY DEF IInv, FramesAtMostOnce
      <4>2. CASE e = d.to /\ n = d.nonce
        BY <4>2, <1>1, <2>p, <2>9, <2>10
      <4>3. CASE e = d.to /\ n # d.nonce
        BY <4>1, <4>3, <2>p
      <4>4. CASE e # d.to
        BY <4>1, <4>4, <2>p
      <4> QED BY <4>2, <4>3, <4>4
    <3> QED BY <2>1, <3>1 DEF FramesAtMostOnce
  <2> QED BY <2>11, <2>12, <2>13
<1> QED BY <1>2, <1>3

\* An accepted nonce was sealed, so the server's window never runs ahead of the client.
LEMMA MaxWasSealed ==
    ASSUME IInv
    PROVE  filter["server"].max < send_nonce["client"]
<1>1. CASE filter["server"].max = None
  BY <1>1, MaxNonceAssumption DEF IInv, TypeOK, None, Ends
<1>2. CASE filter["server"].max # None
  <2>1. filter["server"].max \in Accepted("server")
    BY <1>2 DEF IInv, FilterOnlyGenuine, ExactFor, Ends
  <2>2. handed["server"][filter["server"].max] > 0 /\ filter["server"].max \in Packets
    BY <2>1 DEF Accepted
  <2>3. handed["server"][filter["server"].max] <= IF filter["server"].max < send_nonce["client"] THEN 1 ELSE 0
    BY <2>2 DEF IInv, FramesAtMostOnce, Ends, Peer
  <2>4. handed["server"][filter["server"].max] \in Nat
    BY <2>2 DEF IInv, TypeOK, Ends
  <2> QED BY <2>2, <2>3, <2>4
<1> QED BY <1>1, <1>2

\* Opening a packet of before the last move cannot turn peer_addr back once the window
\* has left it behind.
LEMMA OpenKeepsSettled ==
    ASSUME IInv, NEW d \in wire, Open(d)
    PROVE  RoamingSettles'
<1> USE MaxNonceAssumption, WindowAssumption
<1>1. /\ d.to \in Ends /\ d.nonce \in Nat /\ roam_nonce \in Nat
      /\ filter["server"].max \in Nat \cup {None}
  BY DEF IInv, TypeOK, Datagrams, Packets, Ends
<1>2. UNCHANGED <<client_addr, roam_nonce>>
  BY DEF Open, OpenWith
<1>3. CASE ~IsFresh(filter[d.to], d.nonce)
  <2>1. UNCHANGED <<filter, peer_addr>>
    BY <1>3 DEF Open, OpenWith, Admit
  <2> QED BY <1>2, <2>1 DEF IInv, RoamingSettles
<1>4. CASE IsFresh(filter[d.to], d.nonce) /\ d.to = "client"
  <2>1. filter'["server"] = filter["server"] /\ peer_addr'["server"] = peer_addr["server"]
    BY <1>4 DEF Open, OpenWith, Admit, IInv, TypeOK, Ends
  <2> QED BY <1>2, <2>1 DEF IInv, RoamingSettles
<1>5. CASE IsFresh(filter[d.to], d.nonce) /\ d.to = "server"
  <2>1. /\ filter'["server"] = Updated(filter["server"], d.nonce)
        /\ peer_addr'["server"] = d.addr
    BY <1>5 DEF Open, OpenWith, Admit, IInv, TypeOK, Ends
  <2>2. d.nonce >= roam_nonce => d.addr = client_addr
    BY <1>5 DEF IInv, WireTruthful
  <2>3. CASE d.nonce >= roam_nonce
    BY <1>2, <2>1, <2>2, <2>3 DEF RoamingSettles
  <2>4. CASE d.nonce < roam_nonce
    <3>1. CASE filter["server"].max = None \/ d.nonce > filter["server"].max
      <4>1. filter'["server"].max = d.nonce
        BY <2>1, <3>1 DEF Updated, Slide
      <4> QED BY <1>1, <1>2, <2>4, <4>1 DEF RoamingSettles
    <3>2. CASE ~(filter["server"].max = None \/ d.nonce > filter["server"].max)
      <4>1. filter'["server"].max = filter["server"].max
        BY <2>1, <3>2 DEF Updated, IInv, TypeOK, Ends
      <4>2. filter["server"].max - d.nonce < WINDOW
        BY <1>5, <3>2 DEF IsFresh, FreshWithin
      <4> QED BY <1>1, <1>2, <2>4, <3>2, <4>1, <4>2 DEF RoamingSettles
    <3> QED BY <3>1, <3>2
  <2> QED BY <1>1, <2>3, <2>4
<1> QED BY <1>1, <1>3, <1>4, <1>5 DEF Ends

\* Every step of the session keeps the invariant: one case per action.
LEMMA SessionStep ==
    ASSUME IInv, [Next]_vars
    PROVE  IInv'
<1> USE MaxNonceAssumption, MaxRoamsAssumption
<1>1. ASSUME NEW e \in Ends, Seal(e) PROVE IInv'
  <2> DEFINE d == [to |-> Peer(e), addr |-> IF e = "client" THEN client_addr ELSE peer_addr["server"],
                   nonce |-> send_nonce[e]]
  <2>1. /\ send_nonce[e] < MaxNonce
        /\ send_nonce' = [send_nonce EXCEPT ![e] = send_nonce[e] + 1]
        /\ wire' = wire \cup {d}
        /\ UNCHANGED <<filter, peer_addr, client_addr, outcome, handed, roams, roam_nonce>>
    BY <1>1 DEF Seal
  <2>2. send_nonce \in [Ends -> 0 .. MaxNonce] /\ send_nonce' \in [Ends -> 0 .. MaxNonce]
    BY <2>1 DEF IInv, TypeOK
  <2>3. \A x \in Ends : send_nonce[x] <= send_nonce'[x]
    BY <2>1, <2>2
  <2>4. Peer(e) \in Ends /\ Peer(Peer(e)) = e /\ \A x \in Ends : Peer(x) \in Ends
    BY DEF Peer, Ends
  <2>5. TypeOK'
    <3>1. d \in Datagrams
      BY <2>1, <2>2, <2>4 DEF Datagrams, Packets, IInv, TypeOK
    <3> QED BY <2>1, <2>2, <3>1 DEF IInv, TypeOK
  <2>6. FilterOnlyGenuine' /\ RoamingSettles'
    BY <2>1 DEF IInv, FilterOnlyGenuine, RoamingSettles, Accepted
  <2>7. FramesAtMostOnce'
    <3>1. ASSUME NEW x \in Ends, NEW n \in Packets
          PROVE  handed[x][n] <= IF n < send_nonce'[Peer(x)] THEN 1 ELSE 0
      <4>1. handed[x][n] <= IF n < send_nonce[Peer(x)] THEN 1 ELSE 0
        BY DEF IInv, FramesAtMostOnce
      <4>2. /\ send_nonce[Peer(x)] \in Nat /\ send_nonce'[Peer(x)] \in Nat /\ n \in Nat
            /\ send_nonce[Peer(x)] <= send_nonce'[Peer(x)] /\ handed[x][n] \in Nat
        BY <2>2, <2>3, <2>4 DEF Packets, IInv, TypeOK
      <4> QED BY <4>1, <4>2
    <3> QED BY <2>1, <3>1 DEF FramesAtMostOnce
  <2>8. WireTruthful'
    <3>1. roam_nonce <= send_nonce'["client"]
      BY <2>2, <2>3 DEF IInv, WireTruthful, TypeOK, Ends
    <3>2. ASSUME NEW x \in wire
          PROVE  /\ x.nonce < send_nonce'[Peer(x.to)]
                 /\ x.to = "server" /\ x.nonce >= roam_nonce => x.addr = client_addr
      <4>1. x.to \in Ends /\ x.nonce \in Nat
        BY DEF IInv, TypeOK, Datagrams, Packets
      <4>2. /\ x.nonce < send_nonce[Peer(x.to)]
            /\ x.to = "server" /\ x.nonce >= roam_nonce => x.addr = client_addr
        BY DEF IInv, WireTruthful
      <4> QED BY <2>2, <2>3, <2>4, <4>1, <4>2
    <3>3. d.nonce < send_nonce'[Peer(d.to)]
      BY <2>1, <2>2, <2>4
    <3>4. d.to = "server" => d.addr = client_addr
      BY DEF Peer, Ends
    <3> QED BY <2>1, <3>1, <3>2, <3>3, <3>4 DEF WireTruthful
  <2> QED BY <2>5, <2>6, <2>7, <2>8 DEF IInv
<1>2. ASSUME NEW a \in Addrs, Roam(a) PROVE IInv'
  <2>1. /\ roams < MaxRoams /\ client_addr' = a /\ roams' = roams + 1
        /\ roam_nonce' = send_nonce["client"]
        /\ UNCHANGED <<send_nonce, filter, peer_addr, wire, outcome, handed>>
    BY <1>2 DEF Roam
  <2>2. TypeOK' /\ FilterOnlyGenuine' /\ FramesAtMostOnce'
    BY <2>1 DEF IInv, TypeOK, FilterOnlyGenuine, FramesAtMostOnce, Accepted, Ends
  <2>3. send_nonce["client"] \in Nat /\ filter["server"].max \in Nat \cup {None}
    BY DEF IInv, TypeOK, Ends
  <2>4. RoamingSettles'
    BY <2>1, <2>3, MaxWasSealed, WindowAssumption DEF RoamingSettles, None
  <2>5. ASSUME NEW d \in wire
        PROVE  d.nonce < send_nonce[Peer(d.to)] /\ ~(d.to = "server" /\ d.nonce >= send_nonce["client"])
    <3>1. d.nonce \in Nat /\ d.nonce < send_nonce[Peer(d.to)]
      BY DEF IInv, TypeOK, Datagrams, Packets, WireTruthful
    <3> QED BY <3>1, <2>3 DEF Peer
  <2>6. WireTruthful'
    BY <2>1, <2>3, <2>5 DEF WireTruthful
  <2> QED BY <2>2, <2>4, <2>6 DEF IInv
<1>3. ASSUME NEW d \in wire, Open(d) PROVE IInv'
  <2>1. WireTruthful'
    BY <1>3 DEF Open, OpenWith, IInv, WireTruthful
  <2> QED BY <1>3, <2>1, AdmitKeepsExact, OpenKeepsSettled DEF IInv
<1>4. ASSUME UNCHANGED <<send_nonce, filter, peer_addr, client_addr, wire, handed, roams, roam_nonce>>,
             outcome' \in Outcomes
      PROVE  IInv'
  BY <1>4 DEF IInv, TypeOK, FilterOnlyGenuine, FramesAtMostOnce, WireTruthful, RoamingSettles, Accepted
<1>5. CASE \E e \in Ends, src \in Addrs, nonce \in Packets : OpenForged(e, src, nonce)
  BY <1>4, <1>5 DEF OpenForged, Outcomes
<1>6. CASE OpenForeign
  BY <1>4, <1>6 DEF OpenForeign, Outcomes
<1>7. CASE UNCHANGED vars
  BY <1>4, <1>7 DEF vars, IInv, TypeOK
<1> QED BY <1>1, <1>2, <1>3, <1>5, <1>6, <1>7 DEF Next

\* The invariant holds throughout every session.
LEMMA SessionInvariant == Spec => []IInv
<1>1. Init => IInv
  <2> SUFFICES ASSUME Init PROVE IInv
    OBVIOUS
  <2> USE MaxNonceAssumption, MaxRoamsAssumption, WindowAssumption
  <2>1. /\ client_addr \in Addrs /\ send_nonce = [e \in Ends |-> 0]
        /\ peer_addr = [e \in Ends |-> IF e = "client" THEN ServerAddr ELSE client_addr]
        /\ filter = [e \in Ends |-> NewFilter] /\ wire = {} /\ outcome = "none"
        /\ handed = [e \in Ends |-> [n \in Packets |-> 0]] /\ roams = 0 /\ roam_nonce = 0
    BY DEF Init
  <2>2. TypeOK
    BY <2>1 DEF TypeOK, Ends, NewFilter, Outcomes, None
  <2>3. FramesAtMostOnce /\ \A e \in Ends : Accepted(e) = {}
    BY <2>1 DEF FramesAtMostOnce, Accepted
  <2>4. FilterOnlyGenuine
    BY <2>1, <2>3 DEF FilterOnlyGenuine, ExactFor, NewFilter
  <2>5. WireTruthful
    BY <2>1 DEF WireTruthful, Ends
  <2>6. RoamingSettles
    BY <2>1 DEF RoamingSettles, NewFilter, None, Ends
  <2> QED BY <2>2, <2>3, <2>4, <2>5, <2>6 DEF IInv
<1> QED BY <1>1, SessionStep, PTL DEF Spec

\* The fields of both ends keep their types.
THEOREM SessionTypeCorrect == Spec => []TypeOK
BY SessionInvariant, PTL DEF IInv

\* Whatever reaches open() unauthenticated, the filters stay those of the genuine packets;
\* and no packet's frames are handed up twice, or without having been sealed.
THEOREM SessionOpensOnlyGenuineOnce == Spec => []OpensOnlyGenuineOnce
BY SessionInvariant, PTL DEF IInv, OpensOnlyGenuineOnce

\* A packet from before the client's last move cannot turn the server's peer_addr back
\* once the replay window has passed it.
THEOREM SessionRoamingSettles == Spec => []RoamingSettles
BY SessionInvariant, PTL DEF IInv

\* open() refuses no packet that is new and inside the window.
THEOREM SessionFreshGetsThrough == Spec => FreshGetsThrough
<1> DEFINE Step ==
      \A d \in wire :
        handed[d.to][d.nonce] = 0 /\ d.nonce > filter[d.to].max - WINDOW /\ Open(d)
          => outcome' = "frames"
<1>1. IInv => Step
  <2> SUFFICES ASSUME IInv, NEW d \in wire, handed[d.to][d.nonce] = 0,
                      d.nonce > filter[d.to].max - WINDOW, Open(d)
               PROVE  outcome' = "frames"
    OBVIOUS
  <2>1. d.to \in Ends /\ d.nonce \in Nat
    BY MaxNonceAssumption DEF IInv, TypeOK, Datagrams, Packets
  <2>2. /\ filter[d.to] \in [max : Nat \cup {None}, bitmap : SUBSET Bits]
        /\ ExactFor(filter[d.to], Accepted(d.to))
    BY <2>1 DEF IInv, TypeOK, FilterOnlyGenuine
  <2>3. Accepted(d.to) \in SUBSET Nat
    BY MaxNonceAssumption DEF Accepted, Packets
  <2>4. d.nonce \notin Accepted(d.to)
    BY DEF Accepted
  <2>5. IsFresh(filter[d.to], d.nonce)
    BY <2>1, <2>2, <2>3, <2>4, ExactAcceptsFresh
  <2> QED BY <2>5 DEF Open, OpenWith, Admit
<1>2. IInv => [Step]_vars
  BY <1>1
<1> QED BY <1>2, SessionInvariant, PTL DEF FreshGetsThrough


-----------------------------------------------------------------------------
\* The clock of a stream (module StreamTiming).

\* What was never sent has no copies.
FreshBytes == \A k \in Offsets : k >= send_high => copies[k] = 0

\* The inductive invariant.
TimingIInv == TimingTypeOK /\ ProbeUnambiguous /\ TimerRunsWhileOutstanding /\ FreshBytes

\* recompute_rto stays within the clamp, or returns the initial value.
LEMMA RecomputeInRange ==
    ASSUME NEW s \in Nat, NEW v \in Nat
    PROVE  Recompute(s, v) \in MIN_RTO .. MAX_RTO
  BY TimingAssumption DEF Recompute, Clamp, Most, Least

\* A sample is at least one tick, and the estimate it yields is not zero.
LEMMA SampleFacts ==
    ASSUME TimingTypeOK
    PROVE  /\ Sample \in Nat /\ Sample >= 1
           /\ Smoothed(Sample) \in Nat /\ Smoothed(Sample) >= 1
           /\ Variation(Sample) \in Nat
  <1>1. now \in Nat /\ timed_sent \in Int /\ srtt \in Nat /\ rttvar \in Nat
    BY DEF TimingTypeOK, Unset
  <1>2. Sample \in Nat /\ Sample >= 1
    BY <1>1 DEF Sample, Most
  <1> DEFINE r == Sample
  <1>3. r \in Nat /\ r >= 1
    BY <1>2
  <1> HIDE DEF r
  <1>4. Smoothed(r) \in Nat /\ Smoothed(r) >= 1
    BY <1>1, <1>3 DEF Smoothed
  <1>5. Variation(r) \in Nat
    BY <1>1, <1>3 DEF Variation, AbsDiff
  <1>6. QED
    BY <1>2, <1>4, <1>5 DEF r

\* Nothing is sent, timed or probed at first.
LEMMA TimingInitIInv == TimingInit => TimingIInv
  BY TimingAssumption
     DEF TimingInit, TimingIInv, TimingTypeOK, ProbeUnambiguous, TimerRunsWhileOutstanding, FreshBytes,
         Outstanding, Offsets, Unset

\* New data starts the probe and the timer where none runs, and its bytes leave once.
LEMMA SendNewIInv ==
    ASSUME TimingIInv, NEW send_end \in Nat, send_end <= send_next, SendNew(send_end),
           now' = now + 1, UNCHANGED <<send_base, send_next, srtt, rttvar>>
    PROVE  TimingIInv'
  <1> USE TimingAssumption
  <1>1. /\ now \in Nat /\ send_base \in Nat /\ send_high \in Nat
        /\ send_next \in Nat /\ send_next <= MaxWritten /\ send_base <= send_high
        /\ last_sent \in [Offsets -> 0 .. now \cup {Unset}] /\ copies \in [Offsets -> Nat]
        /\ send_high < send_end /\ send_high' = send_end
    BY DEF TimingIInv, TimingTypeOK, SendNew
  <1>2. /\ last_sent' = [k \in Offsets |-> IF send_high <= k /\ k < send_end THEN now + 1 ELSE last_sent[k]]
        /\ copies' = [k \in Offsets |-> IF send_high <= k /\ k < send_end THEN copies[k] + 1 ELSE copies[k]]
    BY DEF SendNew, Transmit
  <1>3. last_sent' \in [Offsets -> 0 .. now' \cup {Unset}] /\ copies' \in [Offsets -> Nat]
    BY <1>1, <1>2 DEF Offsets, Unset
  <1>4. /\ rto_start' \in 0 .. now' \cup {Unset} /\ rto' \in MIN_RTO .. MAX_RTO
        /\ timed_seq' \in 1 .. MaxWritten \cup {Unset} /\ timed_sent' \in 0 .. now' \cup {Unset}
    BY <1>1 DEF SendNew, TimingIInv, TimingTypeOK, Unset
  <1>5. TimingTypeOK'
    BY <1>1, <1>3, <1>4 DEF TimingIInv, TimingTypeOK
  <1>6. FreshBytes'
    BY <1>1, <1>2 DEF TimingIInv, FreshBytes, Offsets
  <1>7. TimerRunsWhileOutstanding'
    BY <1>1 DEF SendNew, TimingIInv, TimingTypeOK, TimerRunsWhileOutstanding, Outstanding, Unset
  <1>8. ProbeUnambiguous'
    <2>1. CASE timed_seq = Unset
      <3>1. timed_seq' = send_end /\ timed_sent' = now + 1
        BY <2>1 DEF SendNew
      <3>2. send_end - 1 \in Offsets /\ send_end - 1 >= send_high
        BY <1>1 DEF Offsets
      <3>3. copies[send_end - 1] = 0
        BY <3>2 DEF TimingIInv, FreshBytes
      <3>4. copies'[send_end - 1] = 1 /\ last_sent'[send_end - 1] = now + 1
        BY <1>1, <1>2, <3>2, <3>3
      <3>5. QED
        BY <1>1, <3>1, <3>4 DEF ProbeUnambiguous
    <2>2. CASE timed_seq # Unset
      <3>1. timed_seq' = timed_seq /\ timed_sent' = timed_sent
        BY <2>2 DEF SendNew
      <3>2. /\ timed_seq \in 1 .. MaxWritten /\ timed_seq <= send_high
            /\ copies[timed_seq - 1] = 1 /\ last_sent[timed_seq - 1] = timed_sent
        BY <2>2 DEF TimingIInv, TimingTypeOK, ProbeUnambiguous
      <3>3. timed_seq - 1 \in Offsets /\ ~(send_high <= timed_seq - 1)
        BY <1>1, <3>2 DEF Offsets
      <3>4. copies'[timed_seq - 1] = 1 /\ last_sent'[timed_seq - 1] = timed_sent
        BY <1>2, <3>2, <3>3
      <3>5. QED
        BY <1>1, <3>1, <3>2, <3>4 DEF ProbeUnambiguous
    <2>3. QED
      BY <2>1, <2>2
  <1>9. QED
    BY <1>5, <1>6, <1>7, <1>8 DEF TimingIInv

\* A retransmission closes the probe.
LEMMA RetransmitIInv ==
    ASSUME TimingIInv, NEW send_end, Retransmit(send_end),
           now' = now + 1, UNCHANGED <<send_base, send_next, srtt, rttvar>>
    PROVE  TimingIInv'
  <1> USE TimingAssumption
  <1>1. /\ now \in Nat /\ send_base \in Nat /\ send_high \in Nat
        /\ last_sent \in [Offsets -> 0 .. now \cup {Unset}] /\ copies \in [Offsets -> Nat]
        /\ send_high' = send_high /\ send_base < send_high
    BY DEF TimingIInv, TimingTypeOK, Retransmit, Outstanding
  <1>2. /\ last_sent' = [k \in Offsets |-> IF send_base <= k /\ k < send_high THEN now + 1 ELSE last_sent[k]]
        /\ copies' = [k \in Offsets |-> IF send_base <= k /\ k < send_high THEN copies[k] + 1 ELSE copies[k]]
    BY DEF Retransmit, Transmit
  <1>3. last_sent' \in [Offsets -> 0 .. now' \cup {Unset}] /\ copies' \in [Offsets -> Nat]
    BY <1>1, <1>2 DEF Offsets, Unset
  <1>4. /\ rto_start' \in 0 .. now' /\ rto' \in MIN_RTO .. MAX_RTO
        /\ timed_seq' = Unset /\ timed_sent' = Unset
    BY <1>1 DEF Retransmit, OnRto, TimingIInv, TimingTypeOK, Least
  <1>5. TimingTypeOK'
    BY <1>1, <1>3, <1>4 DEF TimingIInv, TimingTypeOK
  <1>6. FreshBytes'
    BY <1>1, <1>2 DEF TimingIInv, FreshBytes, Offsets
  <1>7. TimerRunsWhileOutstanding'
    BY <1>1, <1>4 DEF TimerRunsWhileOutstanding, Outstanding, Unset
  <1>8. QED
    BY <1>4, <1>5, <1>6, <1>7 DEF TimingIInv, ProbeUnambiguous

\* A poll that sends no data only moves the clock.
LEMMA QuietIInv ==
    ASSUME TimingIInv, NEW send_end, Quiet(send_end),
           now' = now + 1, UNCHANGED <<send_base, send_next, srtt, rttvar>>
    PROVE  TimingIInv'
  <1>1. now \in Nat /\ last_sent \in [Offsets -> 0 .. now \cup {Unset}]
    BY DEF TimingIInv, TimingTypeOK
  <1>2. last_sent' \in [Offsets -> 0 .. now' \cup {Unset}]
    BY <1>1 DEF Quiet
  <1>3. TimingTypeOK'
    BY <1>2 DEF Quiet, TimingIInv, TimingTypeOK
  <1>4. QED
    BY <1>3 DEF Quiet, TimingIInv, ProbeUnambiguous, TimerRunsWhileOutstanding, Outstanding, FreshBytes

\* An ack moves send_base, and restarts or stops the timer with it.
LEMMA OnAckIInv ==
    ASSUME TimingIInv, NEW ack \in Nat, TimedAck(ack)
    PROVE  TimingIInv'
  <1> USE TimingAssumption
  <1>1. /\ now \in Nat /\ send_base \in Nat /\ send_high \in Nat /\ ack <= send_high
        /\ send_base <= send_high /\ srtt \in Nat /\ rttvar \in Nat
    BY DEF TimingIInv, TimingTypeOK, TimedAck
  <1>2. srtt' \in Nat /\ rttvar' \in Nat
    BY <1>1, SampleFacts DEF TimingIInv, TimedAck
  <1>3. rto' \in MIN_RTO .. MAX_RTO
    BY <1>2, RecomputeInRange, Zenon DEF TimingIInv, TimingTypeOK, TimedAck
  <1>4. /\ send_base' = IF ack > send_base THEN ack ELSE send_base
        /\ rto_start' = IF ack > send_base THEN (IF ack < send_high THEN now ELSE Unset) ELSE rto_start
        /\ UNCHANGED <<now, send_high, send_next, last_sent, copies>>
    BY <1>1 DEF TimedAck, Most, RtoRestart
  <1>5. (timed_seq' = Unset /\ timed_sent' = Unset) \/ UNCHANGED <<timed_seq, timed_sent>>
    BY DEF TimedAck
  <1>6. TimingTypeOK'
    BY <1>1, <1>2, <1>3, <1>4, <1>5 DEF TimingIInv, TimingTypeOK
  <1>7. TimerRunsWhileOutstanding'
    BY <1>1, <1>4 DEF TimingIInv, TimerRunsWhileOutstanding, Outstanding, Unset
  <1>8. ProbeUnambiguous' /\ FreshBytes'
    BY <1>4, <1>5 DEF TimingIInv, ProbeUnambiguous, FreshBytes
  <1>9. QED
    BY <1>6, <1>7, <1>8 DEF TimingIInv

\* Every step keeps the inductive invariant.
LEMMA TimingNextIInv == TimingIInv /\ [TimingNext]_timingVars => TimingIInv'
  <1> SUFFICES ASSUME TimingIInv, [TimingNext]_timingVars PROVE TimingIInv'
    OBVIOUS
  <1>1. CASE Write
    BY <1>1, TimingAssumption
       DEF Write, TimingIInv, TimingTypeOK, ProbeUnambiguous, TimerRunsWhileOutstanding, Outstanding, FreshBytes
  <1>2. CASE Poll
    <2>1. PICK cap \in 0 .. Cap :
             LET send_end == Least(send_next, send_base + cap)
             IN  SendNew(send_end) \/ Retransmit(send_end) \/ Quiet(send_end)
      BY <1>2 DEF Poll
    <2> DEFINE send_end == Least(send_next, send_base + cap)
    <2>2. send_end \in Nat /\ send_end <= send_next
      BY TimingAssumption DEF Least, TimingIInv, TimingTypeOK
    <2>3. now' = now + 1 /\ UNCHANGED <<send_base, send_next, srtt, rttvar>>
      BY <1>2 DEF Poll
    <2>4. SendNew(send_end) \/ Retransmit(send_end) \/ Quiet(send_end)
      BY <2>1
    <2> HIDE DEF send_end
    <2>5. QED
      BY <2>2, <2>3, <2>4, SendNewIInv, RetransmitIInv, QuietIInv
  <1>3. ASSUME NEW ack \in 0 .. MaxWritten, TimedAck(ack) PROVE TimingIInv'
    BY <1>3, OnAckIInv, TimingAssumption
  <1>4. CASE UNCHANGED timingVars
    BY <1>4 DEF timingVars, send, TimingIInv, TimingTypeOK, ProbeUnambiguous, TimerRunsWhileOutstanding,
                Outstanding, FreshBytes
  <1>5. QED
    BY <1>1, <1>2, <1>3, <1>4 DEF TimingNext

\* The inductive invariant holds throughout.
LEMMA TimingInvariant == TimingSpec => []TimingIInv
  BY TimingInitIInv, TimingNextIInv, PTL DEF TimingSpec

\* The RTO never leaves [MIN_RTO, MAX_RTO], and clock, offsets and probe have their
\* types (recompute_rto, on_rto and update_rtt of stream.rs).
THEOREM TimingTypeCorrect == TimingSpec => []TimingTypeOK
  BY TimingInvariant, PTL DEF TimingIInv

\* The RTO stays in its range; Karn's algorithm as on_rto and transmit() implement it: an
\* open RTT probe measures a byte that left exactly once, at the tick recorded; and
\* transmit() and on_ack() keep the timer running exactly while data is outstanding.
THEOREM TimingClockExact == TimingSpec => []ClockExact
  <1>1. TimingIInv => ClockExact
    BY DEF TimingIInv, TimingTypeOK, ClockExact
  <1> QED BY <1>1, TimingInvariant, PTL

\* update_rtt never brings the smoothed RTT back to the value that means no sample.
THEOREM TimingSampledStaysSampled == TimingSpec => SampledStaysSampled
  <1>1. TimingIInv /\ [TimingNext]_timingVars => [srtt > 0 => srtt' > 0]_timingVars
    <2> SUFFICES ASSUME TimingIInv, TimingNext, srtt > 0 PROVE srtt' > 0
      BY DEF timingVars
    <2>1. CASE Write
      BY <2>1 DEF Write
    <2>2. CASE Poll
      BY <2>2 DEF Poll
    <2>3. ASSUME NEW ack \in 0 .. MaxWritten, TimedAck(ack) PROVE srtt' > 0
      <3>1. srtt' = Smoothed(Sample) \/ srtt' = srtt
        BY <2>3, Zenon DEF TimedAck
      <3>2. Smoothed(Sample) \in Nat /\ Smoothed(Sample) >= 1
        BY SampleFacts DEF TimingIInv
      <3>3. QED
        BY <3>1, <3>2
    <2>4. QED
      BY <2>1, <2>2, <2>3 DEF TimingNext
  <1>2. QED
    BY <1>1, TimingInvariant, PTL DEF TimingSpec, SampledStaysSampled

-----------------------------------------------------------------------------
\* The reassembly buffer of a stream (module Reassembly).

Bytes == {Source[i] : i \in DOMAIN Source}

\* The bytes the sender wrote at the offsets [from, to).
Piece(from, to) == SubSeq(Source, from + 1, to)

LEMMA PieceFacts ==
    ASSUME NEW from \in Nat, NEW to \in Nat, from <= to, to <= Len(Source)
    PROVE  /\ Len(Source) \in Nat
           /\ Piece(from, to) \in Seq(Bytes) /\ Len(Piece(from, to)) = to - from
           /\ \A i \in 1 .. to - from : Piece(from, to)[i] = Source[from + i]
  <1>1. Source \in Seq(Bytes) /\ Len(Source) \in Nat
    BY ReassemblyAssumption DEF Bytes
  <1>2. \A i \in from + 1 .. to : Source[i] \in Bytes
    BY <1>1 DEF Bytes
  <1>3. /\ SubSeq(Source, from + 1, to) \in Seq(Bytes)
        /\ Len(SubSeq(Source, from + 1, to)) =
              IF from + 1 <= to THEN to - (from + 1) + 1 ELSE 0
        /\ \A i \in 1 .. to - (from + 1) + 1 :
              SubSeq(Source, from + 1, to)[i] = Source[from + 1 + i - 1]
    BY <1>2, SubSeqProperties
  <1>4. QED
    BY <1>1, <1>3 DEF Piece

\* A sequence with those bytes is that piece.
LEMMA IsPiece ==
    ASSUME NEW from \in Nat, NEW to \in Nat, from <= to, to <= Len(Source),
           NEW s \in Seq(Bytes), Len(s) = to - from,
           \A i \in 1 .. to - from : s[i] = Source[from + i]
    PROVE  s = Piece(from, to)
  <1>1. /\ Piece(from, to) \in Seq(Bytes) /\ Len(Piece(from, to)) = Len(s)
        /\ \A i \in 1 .. Len(s) : s[i] = Piece(from, to)[i]
    BY PieceFacts, Zenon
  <1>2. QED
    BY <1>1, SeqEqual

\* The segments are pieces of the source past what was read, and no two of them touch.
SegmentsOK ==
    /\ \A k \in DOMAIN segs :
          /\ k \in Nat /\ segs[k] \in Seq(Bytes) /\ Len(segs[k]) \in Nat \ {0}
          /\ delivered <= k /\ EndOf(k) <= Len(Source)
    /\ \A j, k \in DOMAIN segs : j < k => EndOf(j) < k

ReassemblyIInv ==
    /\ delivered \in 0 .. Len(Source) /\ arrived \subseteq 0 .. Len(Source) - 1
    /\ SegmentsOK /\ BytesExact

\* The prefix that insert drops was delivered, and what stays is a piece.
LEMMA TrimmedFacts ==
    ASSUME ReassemblyIInv, NEW offset \in Nat, NEW len \in Nat, offset + len <= Len(Source),
           NEW d, d = Trimmed(offset, SubSeq(Source, offset + 1, offset + len))
    PROVE  /\ d.at \in Nat /\ delivered <= d.at /\ d.at <= Len(Source)
           /\ d.data \in Seq(Bytes) /\ Len(d.data) \in Nat
           /\ d.at + Len(d.data) <= Len(Source)
           /\ d.data = Piece(d.at, d.at + Len(d.data))
           /\ {k \in offset .. offset + len - 1 : k >= delivered} = d.at .. d.at + Len(d.data) - 1
           /\ d = [at |-> d.at, data |-> d.data]
  <1> DEFINE p == Piece(offset, offset + len)
             q == SubSeq(p, delivered - offset + 1, len)
  <1>1. delivered \in Nat /\ delivered <= Len(Source) /\ Len(Source) \in Nat
    BY PieceFacts DEF ReassemblyIInv
  <1>2. /\ p \in Seq(Bytes) /\ Len(p) = len
        /\ \A i \in 1 .. len : p[i] = Source[offset + i]
    BY PieceFacts, offset <= offset + len, offset + len - offset = len
  <1> HIDE DEF p
  <1>3. d = IF offset < delivered THEN [at |-> delivered, data |-> q]
            ELSE [at |-> offset, data |-> p]
    <2>1. p = SubSeq(Source, offset + 1, offset + len)
      BY DEF Piece, p
    <2>2. QED
      BY <1>2, <2>1, Zenon DEF Trimmed
  <1>4. CASE offset >= delivered
    <2>1. d.at = offset /\ d.data = p /\ d = [at |-> offset, data |-> p]
      BY <1>1, <1>3, <1>4
    <2>2. {k \in offset .. offset + len - 1 : k >= delivered} = offset .. offset + len - 1
      BY <1>1, <1>4
    <2>3. QED
      BY <1>1, <1>2, <1>4, <2>1, <2>2 DEF p
  <1>5. CASE offset < delivered
    <2>1. /\ delivered - offset + 1 \in Int /\ delivered - offset + 1 >= 2 /\ len \in Int
          /\ \A i \in delivered - offset + 1 .. len : p[i] \in Bytes
      BY <1>1, <1>2, <1>5
    <2>2. /\ q \in Seq(Bytes)
          /\ Len(q) = IF delivered - offset + 1 <= len
                      THEN len - (delivered - offset + 1) + 1 ELSE 0
          /\ \A i \in 1 .. len - (delivered - offset + 1) + 1 :
                q[i] = p[delivered - offset + 1 + i - 1]
      <3> DEFINE m == delivered - offset + 1
      <3>1. m \in Int /\ len \in Int /\ \A i \in m .. len : p[i] \in Bytes
        BY <2>1
      <3> HIDE DEF m
      <3>2. /\ SubSeq(p, m, len) \in Seq(Bytes)
            /\ Len(SubSeq(p, m, len)) = IF m <= len THEN len - m + 1 ELSE 0
            /\ \A i \in 1 .. len - m + 1 : SubSeq(p, m, len)[i] = p[m + i - 1]
        BY <3>1, SubSeqProperties
      <3>3. QED
        BY <3>2 DEF m
    <2> HIDE DEF q
    <2>3. d.at = delivered /\ d.data = q /\ d = [at |-> delivered, data |-> q]
      BY <1>3, <1>5
    <2>4. Len(q) \in Nat /\ delivered + Len(q) <= Len(Source)
      BY <1>1, <1>5, <2>2
    <2>5. \A i \in 1 .. Len(q) : q[i] = Source[delivered + i]
      BY <1>1, <1>2, <1>5, <2>2
    <2>6. q = Piece(delivered, delivered + Len(q))
      <3> DEFINE to == delivered + Len(q)
      <3>1. /\ to \in Nat /\ delivered <= to /\ to <= Len(Source) /\ Len(q) = to - delivered
            /\ \A i \in 1 .. to - delivered : q[i] = Source[delivered + i]
        BY <1>1, <2>4, <2>5
      <3> HIDE DEF to
      <3>2. q = Piece(delivered, to)
        BY <1>1, <2>2, <3>1, IsPiece
      <3>3. QED
        BY <3>2 DEF to
    <2>7. {k \in offset .. offset + len - 1 : k >= delivered} = delivered .. delivered + Len(q) - 1
      BY <1>1, <1>5, <2>2
    <2> HIDE DEF q
    <2>8. /\ d.at \in Nat /\ delivered <= d.at /\ d.at <= Len(Source)
          /\ d.data \in Seq(Bytes) /\ Len(d.data) \in Nat /\ d.at + Len(d.data) <= Len(Source)
      BY <1>1, <2>2, <2>3, <2>4
    <2>9. QED
      BY <2>3, <2>6, <2>7, <2>8
  <1>6. QED
    BY <1>1, <1>4, <1>5

\* Every nonempty set of numbers up to n has a least and a greatest element.
LEMMA Extremes ==
    ASSUME NEW n \in Nat, NEW T \in SUBSET (0 .. n), T # {}
    PROVE  /\ \E x \in T : \A y \in T : x <= y
           /\ \E x \in T : \A y \in T : y <= x
  <1>1. ASSUME NEW U \in SUBSET Nat, U # {} PROVE \E x \in U : \A y \in U : x <= y
    <2> DEFINE R == OpToRel(<, Nat)
    <2>1. IsWellFoundedOn(R, Nat)
      BY NatLessThanWellFounded, Zenon
    <2> HIDE DEF R
    <2>2. PICK x \in U : \A y \in U : ~(<<y, x>> \in R)
      BY <1>1, <2>1, WFMin, Zenon
    <2>3. \A y \in U : ~(y < x)
      BY <2>2, Zenon DEF R, OpToRel
    <2>4. QED
      BY <2>3
  <1>2. \E x \in T : \A y \in T : x <= y
    BY <1>1
  <1>3. \E x \in T : \A y \in T : y <= x
    <2> DEFINE U == {n - x : x \in T}
    <2>1. U \in SUBSET Nat /\ U # {}
      <3>1. \A x \in T : n - x \in Nat
        OBVIOUS
      <3>2. QED
        BY <3>1, Zenon
    <2> HIDE DEF U
    <2>2. PICK u \in U : \A v \in U : u <= v
      BY <2>1, <1>1
    <2>3. PICK x \in T : u = n - x
      BY DEF U
    <2>4. \A y \in T : n - x <= n - y
      BY <2>2, <2>3, Zenon DEF U
    <2>5. QED
      BY <2>4
  <1>4. QED
    BY <1>2, <1>3, Zenon

\* d is new data behind what was delivered, and new what replaces it and the segments of keys.
Merges(d, keys, new) ==
    /\ d.at \in Nat /\ d.data \in Seq(Bytes) /\ Len(d.data) \in Nat \ {0}
    /\ delivered <= d.at /\ d.at + Len(d.data) <= Len(Source)
    /\ d.data = Piece(d.at, d.at + Len(d.data))
    /\ keys = Touching(d.at, d.at + Len(d.data)) /\ new = Merged(keys, d)

\* The merged segment covers the new data and the segments it touches, no more and with
\* the right bytes, and touches none of the others.
LEMMA MergedFacts ==
    ASSUME ReassemblyIInv, NEW d, NEW keys, NEW new, Merges(d, keys, new)
    PROVE  \E end \in Nat :
              /\ new.at \in Nat /\ delivered <= new.at /\ new.at < end /\ end <= Len(Source)
              /\ new.data = Piece(new.at, end)
              /\ new.at .. end - 1 = (d.at .. (d.at + Len(d.data)) - 1)
                                        \cup UNION {k .. EndOf(k) - 1 : k \in keys}
              /\ \A j \in DOMAIN segs \ keys : EndOf(j) < new.at \/ end < j
  <1> DEFINE to == d.at + Len(d.data)
             starts == keys \cup {d.at}
             ends == {EndOf(k) : k \in keys} \cup {to}
             start == CHOOSE k \in starts : \A j \in starts : k <= j
             end == CHOOSE e \in ends : \A x \in ends : x <= e
             ByteAt(p) ==
                IF p \in d.at .. to - 1 THEN d.data[p - d.at + 1]
                ELSE IF \E k \in keys : p \in k .. EndOf(k) - 1
                THEN LET k == CHOOSE k \in keys : p \in k .. EndOf(k) - 1 IN segs[k][p - k + 1]
                ELSE Filler
             data == [i \in 1 .. end - start |-> ByteAt(start + i - 1)]
  <1>1. new = [at |-> start, data |-> data]
    <2>1. new = Merged(keys, d)
      BY DEF Merges
    <2>2. QED
      BY <2>1 DEF Merged
  <1> HIDE DEF to, ByteAt, data
  <1>2. /\ Len(Source) \in Nat /\ delivered \in Nat /\ to \in Nat /\ d.at < to /\ to <= Len(Source)
        /\ d.at \in Nat /\ delivered <= d.at
        /\ \A i \in 1 .. to - d.at : d.data[i] = Source[d.at + i]
    <2>1. /\ delivered \in Nat /\ to \in Nat /\ d.at < to /\ d.at <= to /\ to <= Len(Source)
          /\ d.at \in Nat /\ delivered <= d.at
      BY DEF ReassemblyIInv, Merges, to
    <2>2. /\ Len(Source) \in Nat
          /\ \A i \in 1 .. to - d.at : Piece(d.at, to)[i] = Source[d.at + i]
      BY <2>1, PieceFacts, Zenon
    <2>3. d.data = Piece(d.at, to)
      BY DEF Merges, to
    <2>4. QED
      BY <2>1, <2>2, <2>3, Zenon
  <1>3. \A k \in DOMAIN segs :
           /\ k \in Nat /\ EndOf(k) \in Nat /\ k < EndOf(k) /\ EndOf(k) <= Len(Source)
           /\ delivered <= k
    BY DEF ReassemblyIInv, SegmentsOK, EndOf
  <1>4. \A j, k \in DOMAIN segs : j < k => EndOf(j) < k
    BY DEF ReassemblyIInv, SegmentsOK
  <1>5. \A k \in DOMAIN segs : \A i \in 1 .. EndOf(k) - k : segs[k][i] = Source[k + i]
    <2> TAKE k \in DOMAIN segs
    <2>1. segs[k] = Piece(k, EndOf(k))
      BY DEF ReassemblyIInv, BytesExact, Piece
    <2>2. k \in Nat /\ EndOf(k) \in Nat /\ k <= EndOf(k) /\ EndOf(k) <= Len(Source)
      BY <1>3
    <2>3. \A i \in 1 .. EndOf(k) - k : Piece(k, EndOf(k))[i] = Source[k + i]
      BY <2>2, PieceFacts, Zenon
    <2>4. QED
      BY <2>1, <2>3
  <1>6. \A k \in DOMAIN segs : k \in keys <=> k <= to /\ EndOf(k) >= d.at
    BY DEF Merges, Touching, to
  <1>7. keys \subseteq DOMAIN segs
    BY DEF Merges, Touching
  <1>8. start \in starts /\ \A j \in starts : start <= j
    <2>1. starts \in SUBSET (0 .. Len(Source)) /\ starts # {}
      BY <1>2, <1>3, <1>7
    <2> HIDE DEF starts
    <2>2. \E k \in starts : \A j \in starts : k <= j
      BY <1>2, <2>1, Extremes, Zenon
    <2>3. QED
      BY <2>2
  <1>9. end \in ends /\ \A x \in ends : x <= end
    <2>1. ends \in SUBSET (0 .. Len(Source)) /\ ends # {}
      <3>1. to \in 0 .. Len(Source)
        BY <1>2
      <3>2. ASSUME NEW k \in keys PROVE EndOf(k) \in 0 .. Len(Source)
        <4>1. EndOf(k) \in Nat /\ EndOf(k) <= Len(Source)
          BY <1>3, <1>7, Zenon
        <4>2. QED
          BY <1>2, <4>1
      <3>3. QED
        BY <3>1, <3>2, Zenon
    <2> HIDE DEF ends
    <2>2. \E k \in ends : \A j \in ends : j <= k
      BY <1>2, <2>1, Extremes, Zenon
    <2>3. QED
      BY <2>2
  <1> HIDE DEF start, end
  <1>10. /\ start \in Nat /\ delivered <= start /\ start <= d.at
         /\ end \in Nat /\ to <= end /\ end <= Len(Source) /\ start < end
    <2>1. \A k \in starts : k \in Nat /\ delivered <= k
      BY <1>2, <1>3, <1>7
    <2>2. \A e \in ends : e \in Nat /\ e <= Len(Source)
      BY <1>2, <1>3, <1>7
    <2>3. start <= d.at /\ to <= end
      BY <1>8, <1>9
    <2> HIDE DEF starts, ends
    <2>4. QED
      BY <1>2, <1>8, <1>9, <2>1, <2>2, <2>3
  <1>11. /\ \A k \in keys : start <= k /\ EndOf(k) <= end
         /\ start = d.at \/ start \in keys
         /\ end = to \/ \E k \in keys : end = EndOf(k)
    BY <1>8, <1>9
  <1> HIDE DEF starts, ends
  <1>12. \A p \in start .. end - 1 :
            p \in d.at .. to - 1 \/ \E k \in keys : p \in k .. EndOf(k) - 1
    <2> TAKE p \in start .. end - 1
    <2>1. CASE p < d.at
      <3>1. start \in keys /\ EndOf(start) >= d.at
        BY <1>2, <1>6, <1>7, <1>10, <1>11, <2>1
      <3>2. p \in start .. EndOf(start) - 1
        BY <1>2, <1>3, <1>7, <1>10, <2>1, <3>1
      <3>3. QED
        BY <3>1, <3>2
    <2>2. CASE p >= to
      <3>1. PICK k \in keys : end = EndOf(k)
        BY <1>2, <1>10, <1>11, <2>2
      <3>2. p \in k .. EndOf(k) - 1
        BY <1>2, <1>3, <1>6, <1>7, <1>10, <2>2, <3>1
      <3>3. QED
        BY <3>2
    <2>3. QED
      BY <1>2, <1>10, <2>1, <2>2
  <1>13. start .. end - 1 = (d.at .. to - 1) \cup UNION {k .. EndOf(k) - 1 : k \in keys}
    <2>1. d.at .. to - 1 \subseteq start .. end - 1
      BY <1>2, <1>10
    <2>2. \A k \in keys : k .. EndOf(k) - 1 \subseteq start .. end - 1
      BY <1>3, <1>7, <1>10, <1>11
    <2>3. QED
      BY <1>12, <2>1, <2>2
  <1>14. \A p \in start .. end - 1 : ByteAt(p) = Source[p + 1] /\ ByteAt(p) \in Bytes
    <2> TAKE p \in start .. end - 1
    <2>1. p \in Nat /\ p + 1 \in 1 .. Len(Source) /\ Source[p + 1] \in Bytes
      <3>1. p \in Nat /\ p + 1 \in 1 .. Len(Source)
        BY <1>2, <1>10
      <3>2. QED
        BY <3>1, ReassemblyAssumption DEF Bytes
    <2>2. CASE p \in d.at .. to - 1
      <3>1. ByteAt(p) = d.data[p - d.at + 1]
        BY <2>2 DEF ByteAt
      <3>2. p - d.at + 1 \in 1 .. to - d.at /\ d.at + (p - d.at + 1) = p + 1
        BY <1>2, <2>1, <2>2
      <3>3. QED
        BY <1>2, <2>1, <3>1, <3>2, Zenon
    <2>3. CASE p \notin d.at .. to - 1
      <3> DEFINE k0 == CHOOSE k \in keys : p \in k .. EndOf(k) - 1
      <3>1. k0 \in keys /\ p \in k0 .. EndOf(k0) - 1
        BY <1>12, <2>3
      <3>2. ByteAt(p) = segs[k0][p - k0 + 1]
        BY <2>3, <3>1, Zenon DEF ByteAt
      <3> HIDE DEF k0
      <3>3. p - k0 + 1 \in 1 .. EndOf(k0) - k0 /\ k0 + (p - k0 + 1) = p + 1
        BY <1>3, <1>7, <2>1, <3>1
      <3>4. QED
        BY <1>5, <1>7, <2>1, <3>1, <3>2, <3>3
    <2>4. QED
      BY <2>2, <2>3
  <1>15. new.at = start /\ new.data = Piece(start, end)
    <2>1. new.at = start /\ new.data = data
      BY <1>1
    <2>2. \A i \in 1 .. end - start : data[i] = Source[start + i] /\ data[i] \in Bytes
      <3> TAKE i \in 1 .. end - start
      <3>1. start + i - 1 \in start .. end - 1 /\ start + i - 1 + 1 = start + i
        BY <1>10
      <3>2. QED
        BY <1>14, <3>1 DEF data
    <2>3. end - start \in Nat /\ data \in [1 .. end - start -> Bytes]
      <3>1. DOMAIN data = 1 .. end - start /\ data = [i \in 1 .. end - start |-> data[i]]
        BY DEF data
      <3>2. QED
        BY <1>10, <2>2, <3>1
    <2>4. data \in Seq(Bytes) /\ Len(data) = end - start
      BY <2>3
    <2>5. start \in Nat /\ end \in Nat /\ start <= end /\ end <= Len(Source)
      BY <1>2, <1>10
    <2>6. data = Piece(start, end)
      BY <2>2, <2>4, <2>5, IsPiece
    <2>7. QED
      BY <2>1, <2>6, Zenon
  <1>16. \A j \in DOMAIN segs \ keys : EndOf(j) < start \/ end < j
    <2> TAKE j \in DOMAIN segs \ keys
    <2>0. to \in Nat /\ d.at \in Nat /\ j \in Nat /\ EndOf(j) \in Nat /\ j < EndOf(j)
      BY <1>2, <1>3, Zenon
    <2>1. j > to \/ EndOf(j) < d.at
      <3>1. ~(j <= to /\ EndOf(j) >= d.at)
        BY <1>6, Zenon
      <3>2. QED
        BY <2>0, <3>1
    <2>2. CASE j > to
      <3>1. ASSUME NEW k \in keys PROVE EndOf(k) < j
        <4>1. k \in DOMAIN segs /\ k \in Nat /\ k <= to
          BY <1>3, <1>6, <1>7, Zenon
        <4>2. k < j
          BY <2>0, <2>2, <4>1
        <4>3. QED
          BY <1>4, <4>1, <4>2, Zenon
      <3>2. QED
        BY <1>11, <2>2, <3>1
    <2>3. CASE EndOf(j) < d.at
      <3>1. ASSUME NEW k \in keys PROVE EndOf(j) < k
        <4>1. /\ EndOf(k) >= d.at /\ k \in DOMAIN segs /\ k # j
              /\ k \in Nat /\ EndOf(k) \in Nat
          BY <1>3, <1>6, <1>7, Zenon
        <4>2. (k < j => EndOf(k) < j) /\ (j < k => EndOf(j) < k)
          BY <1>4, <4>1, Zenon
        <4>3. QED
          BY <2>0, <2>3, <4>1, <4>2
      <3>2. QED
        BY <1>11, <2>3, <3>1
    <2>4. QED
      BY <2>1, <2>2, <2>3
  <1>17. QED
    <2>1. new.at .. end - 1 = (d.at .. (d.at + Len(d.data)) - 1) \cup UNION {k .. EndOf(k) - 1 : k \in keys}
      <3> DEFINE Gone == UNION {k .. EndOf(k) - 1 : k \in keys}
      <3>1. start .. end - 1 = (d.at .. to - 1) \cup Gone /\ new.at = start
        BY <1>13, <1>15, Zenon
      <3> HIDE DEF Gone
      <3>2. new.at .. end - 1 = (d.at .. (d.at + Len(d.data)) - 1) \cup Gone
        BY <3>1 DEF to
      <3>3. QED
        BY <3>2, Zenon DEF Gone
    <2>2. QED
      BY <1>10, <1>15, <1>16, <2>1, Zenon

\* What an insert leaves: the offsets covered are the old ones and the ones that are new
\* and not delivered.
LEMMA InsertKeeps ==
    ASSUME ReassemblyIInv, NEW offset \in Nat, NEW len \in Nat, offset + len <= Len(Source),
           InsertSegment(offset, len)
    PROVE  /\ ReassemblyIInv'
           /\ Covered' = Covered \cup {k \in offset .. offset + len - 1 : k >= delivered}
  <1> DEFINE fresh == {k \in offset .. offset + len - 1 : k >= delivered}
  <1>1. PICK d : d = Trimmed(offset, SubSeq(Source, offset + 1, offset + len))
    OBVIOUS
  <1>2. PICK to : to = d.at + Len(d.data)
    OBVIOUS
  <1>3. PICK keys : keys = Touching(d.at, to)
    OBVIOUS
  <1>4. PICK new : new = Merged(keys, d)
    OBVIOUS
  <1>5. /\ arrived' = arrived \cup (offset .. offset + len - 1)
        /\ delivered' = delivered /\ taken' = taken
        /\ segs' = IF d.data = <<>> THEN segs
                   ELSE [k \in (DOMAIN segs \ keys) \cup {new.at} |->
                            IF k = new.at THEN new.data ELSE segs[k]]
    BY <1>1, <1>2, <1>3, <1>4, Zenon DEF InsertSegment
  <1>6. /\ d.at \in Nat /\ delivered <= d.at
        /\ d.data \in Seq(Bytes) /\ Len(d.data) \in Nat
        /\ to \in Nat /\ to <= Len(Source) /\ d.data = Piece(d.at, to)
        /\ fresh = d.at .. to - 1
    BY <1>1, <1>2, TrimmedFacts
  <1> HIDE DEF fresh
  <1>7. delivered \in Nat /\ delivered <= Len(Source) /\ Len(Source) \in Nat
    BY <1>6, PieceFacts DEF ReassemblyIInv
  <1>8. /\ delivered' \in 0 .. Len(Source) /\ arrived' \subseteq 0 .. Len(Source) - 1
        /\ (0 .. delivered - 1 \subseteq arrived)' /\ (taken = SubSeq(Source, 1, delivered))'
    BY <1>5, <1>7 DEF ReassemblyIInv, BytesExact
  <1>9. SegmentsOK' /\ (\A k \in DOMAIN segs : segs[k] = SubSeq(Source, k + 1, EndOf(k)))'
        /\ Covered' = Covered \cup fresh
    <2>1. CASE d.data = <<>>
      <3>1. segs' = segs /\ fresh = {}
        <4>1. Len(d.data) = 0
          BY <2>1
        <4>2. QED
          BY <1>2, <1>5, <1>6, <2>1, <4>1
      <3>2. Covered' = Covered
        BY <3>1 DEF Covered, EndOf
      <3>3. SegmentsOK'
        BY <1>5, <3>1, Zenon DEF ReassemblyIInv, SegmentsOK, EndOf
      <3>4. (\A k \in DOMAIN segs : segs[k] = SubSeq(Source, k + 1, EndOf(k)))'
        BY <3>1 DEF ReassemblyIInv, BytesExact, EndOf
      <3>5. QED
        BY <3>1, <3>2, <3>3, <3>4
    <2>2. CASE d.data # <<>>
      <3>1. Len(d.data) \in Nat \ {0}
        BY <1>6, <2>2
      <3>2. PICK end \in Nat :
              /\ new.at \in Nat /\ delivered <= new.at /\ new.at < end /\ end <= Len(Source)
              /\ new.data = Piece(new.at, end)
              /\ new.at .. end - 1 = (d.at .. to - 1) \cup UNION {k .. EndOf(k) - 1 : k \in keys}
              /\ \A j \in DOMAIN segs \ keys : EndOf(j) < new.at \/ end < j
        <4>1. Merges(d, keys, new)
          BY <1>2, <1>3, <1>4, <1>6, <3>1 DEF Merges
        <4>2. PICK end \in Nat :
                /\ new.at \in Nat /\ delivered <= new.at /\ new.at < end /\ end <= Len(Source)
                /\ new.data = Piece(new.at, end)
                /\ new.at .. end - 1 = (d.at .. (d.at + Len(d.data)) - 1)
                                          \cup UNION {k .. EndOf(k) - 1 : k \in keys}
                /\ \A j \in DOMAIN segs \ keys : EndOf(j) < new.at \/ end < j
          BY <4>1, MergedFacts, Zenon
        <4>3. new.at .. end - 1 = (d.at .. to - 1) \cup UNION {k .. EndOf(k) - 1 : k \in keys}
          <5> DEFINE Gone == UNION {k .. EndOf(k) - 1 : k \in keys}
          <5>1. new.at .. end - 1 = (d.at .. (d.at + Len(d.data)) - 1) \cup Gone
            BY <4>2, Zenon
          <5> HIDE DEF Gone
          <5>2. new.at .. end - 1 = (d.at .. to - 1) \cup Gone
            BY <1>2, <5>1
          <5>3. QED
            BY <5>2, Zenon DEF Gone
        <4>4. QED
          BY <4>2, <4>3, Zenon
      <3>3. /\ DOMAIN segs' = (DOMAIN segs \ keys) \cup {new.at}
            /\ segs'[new.at] = new.data
            /\ \A k \in DOMAIN segs \ keys : k # new.at => segs'[k] = segs[k]
        <4>1. segs' = [k \in (DOMAIN segs \ keys) \cup {new.at} |->
                          IF k = new.at THEN new.data ELSE segs[k]]
          BY <1>5, <2>2, Zenon
        <4>2. QED
          BY <4>1, Zenon
      <3>4. \A k \in DOMAIN segs :
               /\ k \in Nat /\ EndOf(k) \in Nat /\ k < EndOf(k) /\ EndOf(k) <= Len(Source)
               /\ delivered <= k /\ segs[k] \in Seq(Bytes) /\ Len(segs[k]) \in Nat \ {0}
               /\ segs[k] = Piece(k, EndOf(k))
        BY DEF ReassemblyIInv, SegmentsOK, BytesExact, EndOf, Piece
      <3>5. new.at \notin DOMAIN segs \ keys
        BY <3>2, <3>4
      <3>6. \A k \in DOMAIN segs \ keys : k # new.at /\ segs'[k] = segs[k] /\ EndOf(k)' = EndOf(k)
        BY <3>3, <3>5 DEF EndOf
      <3>7. /\ new.data \in Seq(Bytes) /\ Len(new.data) = end - new.at
            /\ EndOf(new.at)' = end /\ segs'[new.at] = Piece(new.at, end)
        <4>1. new.at <= end
          BY <3>2
        <4>2. new.data \in Seq(Bytes) /\ Len(new.data) = end - new.at
          BY <3>2, <4>1, PieceFacts, Zenon
        <4>3. new.at + (end - new.at) = end
          BY <3>2
        <4>4. QED
          BY <3>2, <3>3, <4>2, <4>3 DEF EndOf
      <3>8. SegmentsOK'
        <4>1. ASSUME NEW k \in DOMAIN segs'
              PROVE  /\ k \in Nat /\ segs'[k] \in Seq(Bytes) /\ Len(segs'[k]) \in Nat \ {0}
                     /\ delivered <= k /\ EndOf(k)' <= Len(Source)
          <5>1. CASE k = new.at
            <6>1. end \in Nat /\ new.at \in Nat /\ new.at < end => end - new.at \in Nat \ {0}
              OBVIOUS
            <6>2. QED
              BY <3>2, <3>3, <3>7, <5>1, <6>1, Zenon
          <5>2. CASE k \in DOMAIN segs \ keys
            BY <3>4, <3>6, <5>2, Zenon
          <5>3. QED
            BY <3>3, <5>1, <5>2, Zenon
        <4>2. ASSUME NEW j \in DOMAIN segs', NEW k \in DOMAIN segs', j < k
              PROVE  EndOf(j)' < k
          <5>1. CASE j # new.at /\ k # new.at
            BY <3>3, <3>6, <4>2, <5>1, Zenon DEF ReassemblyIInv, SegmentsOK
          <5>2. CASE j = new.at
            <6>0. k # new.at
              BY <3>2, <4>2, <5>2
            <6>1. k \in DOMAIN segs \ keys /\ EndOf(j)' = end /\ end \in Nat
              BY <3>3, <3>7, <4>2, <5>2, <6>0, Zenon
            <6>2. /\ EndOf(k) < new.at \/ end < k
                  /\ k \in Nat /\ EndOf(k) \in Nat /\ k < EndOf(k) /\ new.at \in Nat
              BY <3>2, <3>4, <6>1, Zenon
            <6>3. QED
              BY <4>2, <5>2, <6>1, <6>2
          <5>3. CASE k = new.at
            <6>0. j # new.at
              BY <3>2, <4>2, <5>3
            <6>1. j \in DOMAIN segs \ keys /\ EndOf(j)' = EndOf(j)
              BY <3>3, <3>6, <4>2, <6>0, Zenon
            <6>2. /\ EndOf(j) < new.at \/ end < j
                  /\ j \in Nat /\ end \in Nat /\ new.at \in Nat /\ new.at < end
              BY <3>2, <3>4, <6>1, Zenon
            <6>3. QED
              BY <4>2, <5>3, <6>1, <6>2
          <5>4. QED
            BY <5>1, <5>2, <5>3
        <4>3. QED
          BY <1>5, <4>1, <4>2, Zenon DEF SegmentsOK
      <3>9. ASSUME NEW k \in DOMAIN segs' PROVE segs'[k] = SubSeq(Source, k + 1, EndOf(k)')
        BY <3>3, <3>4, <3>6, <3>7, Zenon DEF Piece
      <3>10. Covered' = Covered \cup fresh
        <4> DEFINE Rest == UNION {k .. EndOf(k) - 1 : k \in DOMAIN segs \ keys}
                   Gone == UNION {k .. EndOf(k) - 1 : k \in keys}
        <4>1. keys \subseteq DOMAIN segs
          BY <1>3 DEF Touching
        <4>2. Covered = Rest \cup Gone
          BY <4>1 DEF Covered
        <4>3. new.at .. end - 1 = fresh \cup Gone
          BY <1>6, <3>2
        <4>4. ASSUME NEW x PROVE x \in Covered' <=> x \in Rest \cup (new.at .. end - 1)
          <5>1. x \in Covered' <=> \E k \in DOMAIN segs' : x \in k .. EndOf(k)' - 1
            BY DEF Covered
          <5>2. x \in Rest <=> \E k \in DOMAIN segs \ keys : x \in k .. EndOf(k)' - 1
            BY <3>6
          <5>3. QED
            BY <3>3, <3>7, <5>1, <5>2
        <4> HIDE DEF Rest, Gone
        <4>5. QED
          BY <4>2, <4>3, <4>4
      <3>11. QED
        BY <3>8, <3>9, <3>10
    <2>3. QED
      BY <2>1, <2>2
  <1>10. (Covered = {k \in arrived : k >= delivered})'
    <2>1. Covered = {k \in arrived : k >= delivered}
      BY DEF ReassemblyIInv, BytesExact
    <2>2. QED
      BY <1>5, <1>7, <1>9, <2>1 DEF fresh
  <1>11. Covered' = Covered \cup {k \in offset .. offset + len - 1 : k >= delivered}
    BY <1>9 DEF fresh
  <1>12. QED
    BY <1>8, <1>9, <1>10, <1>11, Zenon DEF ReassemblyIInv, BytesExact

\* What a read leaves: the first segment is gone, and was the source's next bytes.
LEMMA ReadKeeps ==
    ASSUME ReassemblyIInv, Read
    PROVE  ReassemblyIInv' /\ Covered' = Covered \ (delivered .. EndOf(delivered) - 1)
  <1> DEFINE end == EndOf(delivered)
  <1>1. /\ delivered \in DOMAIN segs /\ taken' = taken \o segs[delivered]
        /\ delivered' = end /\ segs' = [k \in DOMAIN segs \ {delivered} |-> segs[k]]
        /\ arrived' = arrived
    BY DEF Read
  <1>2. \A k \in DOMAIN segs :
           /\ k \in Nat /\ EndOf(k) \in Nat /\ k < EndOf(k) /\ EndOf(k) <= Len(Source)
           /\ delivered <= k /\ segs[k] \in Seq(Bytes) /\ Len(segs[k]) \in Nat \ {0}
           /\ segs[k] = Piece(k, EndOf(k))
    BY DEF ReassemblyIInv, SegmentsOK, BytesExact, EndOf, Piece
  <1>3. /\ delivered \in Nat /\ end \in Nat /\ delivered < end /\ end <= Len(Source)
        /\ Len(Source) \in Nat
    BY <1>1, <1>2, PieceFacts
  <1>4. \A j, k \in DOMAIN segs : j < k => EndOf(j) < k
    BY DEF ReassemblyIInv, SegmentsOK
  <1>5. /\ DOMAIN segs' = DOMAIN segs \ {delivered}
        /\ \A k \in DOMAIN segs' : segs'[k] = segs[k] /\ EndOf(k)' = EndOf(k) /\ end < k
    BY <1>1, <1>2, <1>3, <1>4 DEF EndOf
  <1>6. Covered' = Covered \ (delivered .. end - 1)
    <2>1. ASSUME NEW x PROVE x \in Covered' <=> x \in Covered /\ x \notin delivered .. end - 1
      <3>1. x \in Covered' <=> \E k \in DOMAIN segs' : x \in k .. EndOf(k) - 1
        BY <1>5 DEF Covered
      <3>2. x \in Covered <=> \E k \in DOMAIN segs : x \in k .. EndOf(k) - 1
        BY DEF Covered
      <3>3. \A k \in DOMAIN segs' : x \in k .. EndOf(k) - 1 => x \notin delivered .. end - 1
        BY <1>2, <1>3, <1>5
      <3>4. QED
        BY <1>1, <1>5, <3>1, <3>2, <3>3
    <2>2. QED
      BY <2>1
  <1> HIDE DEF end
  <1>7. SegmentsOK'
    BY <1>1, <1>2, <1>3, <1>4, <1>5 DEF SegmentsOK
  <1>8. delivered .. end - 1 \subseteq Covered
    BY <1>1 DEF Covered, end
  <1>9. Covered = {k \in arrived : k >= delivered} /\ 0 .. delivered - 1 \subseteq arrived
    BY DEF ReassemblyIInv, BytesExact
  <1>10. (Covered = {k \in arrived : k >= delivered})' /\ (0 .. delivered - 1 \subseteq arrived)'
    <2>1. \A k \in arrived : k \in Nat
      BY <1>3 DEF ReassemblyIInv
    <2>2. Covered' = {k \in arrived : k >= end}
      BY <1>3, <1>6, <1>9, <2>1
    <2>3. 0 .. end - 1 \subseteq arrived
      BY <1>3, <1>8, <1>9
    <2>4. QED
      BY <1>1, <2>2, <2>3
  <1>11. (\A k \in DOMAIN segs : segs[k] = SubSeq(Source, k + 1, EndOf(k)))'
    BY <1>2, <1>5 DEF Piece
  <1>12. (taken = SubSeq(Source, 1, delivered))'
    <2>1. taken = Piece(0, delivered) /\ segs[delivered] = Piece(delivered, end)
      BY <1>1, <1>2 DEF ReassemblyIInv, BytesExact, Piece, end
    <2> DEFINE a == Piece(0, delivered)
               b == Piece(delivered, end)
    <2>2. /\ a \in Seq(Bytes) /\ Len(a) = delivered
          /\ \A i \in 1 .. delivered : a[i] = Source[i]
      <3>1. /\ 0 \in Nat /\ 0 <= delivered /\ delivered <= Len(Source)
            /\ delivered - 0 = delivered /\ \A i \in 1 .. delivered : 0 + i = i
        BY <1>3
      <3>2. /\ a \in Seq(Bytes) /\ Len(a) = delivered - 0
            /\ \A i \in 1 .. delivered - 0 : a[i] = Source[0 + i]
        BY <1>3, <3>1, PieceFacts, Zenon
      <3> HIDE DEF a
      <3>3. QED
        BY <3>1, <3>2
    <2>3. /\ b \in Seq(Bytes) /\ Len(b) = end - delivered
          /\ \A i \in 1 .. end - delivered : b[i] = Source[delivered + i]
      <3>1. delivered <= end
        BY <1>3
      <3>2. QED
        BY <1>3, <3>1, PieceFacts, Zenon
    <2>4. taken' = a \o b
      BY <1>1, <2>1
    <2> HIDE DEF a, b
    <2>5. /\ a \o b \in Seq(Bytes) /\ Len(a \o b) = Len(a) + Len(b)
          /\ \A i \in 1 .. Len(a) + Len(b) :
                (a \o b)[i] = IF i <= Len(a) THEN a[i] ELSE b[i - Len(a)]
      BY <2>2, <2>3, ConcatProperties, Zenon
    <2>6. Len(a \o b) = end - 0 /\ Len(a) + Len(b) = end
      BY <1>3, <2>2, <2>3, <2>5
    <2>7. \A i \in 1 .. end - 0 : (a \o b)[i] = Source[0 + i]
      <3> TAKE i \in 1 .. end - 0
      <3>1. (a \o b)[i] = IF i <= delivered THEN a[i] ELSE b[i - delivered]
        BY <1>3, <2>2, <2>5, <2>6
      <3>2. i > delivered => i - delivered \in 1 .. end - delivered /\ delivered + (i - delivered) = i
        BY <1>3
      <3>3. QED
        BY <1>3, <2>2, <2>3, <3>1, <3>2
    <2>8. a \o b = Piece(0, end)
      <3>1. 0 \in Nat /\ 0 <= end
        BY <1>3
      <3>2. QED
        BY <1>3, <2>5, <2>6, <2>7, <3>1, IsPiece, Zenon
    <2>9. QED
      BY <1>1, <2>4, <2>8 DEF Piece
  <1>13. (delivered \in 0 .. Len(Source) /\ arrived \subseteq 0 .. Len(Source) - 1)'
    BY <1>1, <1>3 DEF ReassemblyIInv
  <1>14. QED
    BY <1>6, <1>7, <1>10, <1>11, <1>12, <1>13, Zenon DEF ReassemblyIInv, BytesExact, end

LEMMA ReassemblyNextKeeps == ReassemblyIInv /\ [ReassemblyNext]_reassemblyVars => ReassemblyIInv'
  <1> SUFFICES ASSUME ReassemblyIInv, [ReassemblyNext]_reassemblyVars PROVE ReassemblyIInv'
    OBVIOUS
  <1>1. ASSUME NEW offset \in 0 .. Len(Source), NEW len \in 0 .. MAX_STREAM_CHUNK,
               offset + len <= Len(Source), InsertSegment(offset, len)
        PROVE  ReassemblyIInv'
    <2>1. offset \in Nat /\ len \in Nat
      OBVIOUS
    <2>2. QED
      BY <1>1, <2>1, InsertKeeps
  <1>2. CASE Read
    BY <1>2, ReadKeeps
  <1>3. CASE UNCHANGED reassemblyVars
    BY <1>3 DEF reassemblyVars, ReassemblyIInv, SegmentsOK, BytesExact, Covered, EndOf
  <1>4. QED
    BY <1>1, <1>2, <1>3 DEF ReassemblyNext

LEMMA ReassemblyInvariant == ReassemblySpec => []ReassemblyIInv
  <1>1. ReassemblyInit => ReassemblyIInv
    <2> SUFFICES ASSUME ReassemblyInit PROVE ReassemblyIInv
      OBVIOUS
    <2>1. Len(Source) \in Nat
      BY ReassemblyAssumption
    <2>2. delivered = 0 /\ arrived = {} /\ taken = <<>> /\ DOMAIN segs = {}
      BY DEF ReassemblyInit
    <2>3. SubSeq(Source, 1, 0) = <<>>
      BY SubSeqEmpty
    <2>4. SegmentsOK /\ Covered = {} /\ 0 .. delivered - 1 = {}
      BY <2>2 DEF SegmentsOK, Covered
    <2>5. QED
      BY <2>1, <2>2, <2>3, <2>4 DEF ReassemblyIInv, BytesExact
  <1>2. QED
    BY <1>1, ReassemblyNextKeeps, PTL DEF ReassemblySpec

\* Reassembler (stream.rs:68-146): for every source, every size of its pieces and every
\* order in which they arrive, over and over, the bytes held and read are the sender's.
THEOREM ReassemblyBytesExact == ReassemblySpec => []BytesExact
  BY ReassemblyInvariant, PTL DEF ReassemblyIInv

\* ack_point() looks up the first segment, which ends at the first byte missing.
LEMMA AckPointOfView ==
    ASSUME ReassemblyIInv
    PROVE  AckPoint(View) = IF delivered \in DOMAIN segs THEN EndOf(delivered) ELSE delivered
  <1> DEFINE end == IF delivered \in DOMAIN segs THEN EndOf(delivered) ELSE delivered
  <1>1. \A k \in DOMAIN segs :
           k \in Nat /\ EndOf(k) \in Nat /\ k < EndOf(k) /\ EndOf(k) <= Len(Source) /\ delivered <= k
    BY DEF ReassemblyIInv, SegmentsOK, EndOf
  <1>2. \A j, k \in DOMAIN segs : j < k => EndOf(j) < k
    BY DEF ReassemblyIInv, SegmentsOK
  <1>3. delivered \in Nat /\ Len(Source) \in Nat /\ end \in Nat /\ delivered <= end
    BY <1>1, ReassemblyAssumption DEF ReassemblyIInv
  <1>4. \A x : x \in Covered <=> \E k \in DOMAIN segs : x \in k .. EndOf(k) - 1
    BY DEF Covered
  <1>5. delivered .. end - 1 \subseteq Covered
    BY <1>3, <1>4
  <1>6. end \notin Covered
    <2>1. ASSUME NEW k \in DOMAIN segs PROVE end \notin k .. EndOf(k) - 1
      <3>1. CASE delivered \in DOMAIN segs
        BY <1>1, <1>2, <1>3, <3>1
      <3>2. CASE delivered \notin DOMAIN segs
        BY <1>1, <1>3, <3>2
      <3>3. QED
        BY <3>1, <3>2
    <2>2. QED
      BY <1>4, <2>1
  <1> HIDE DEF end
  <1>7. end \in delivered .. delivered + Cardinality(Covered)
    <2>1. Covered \subseteq 0 .. Len(Source)
      BY <1>1, <1>3, <1>4
    <2>2. IsFiniteSet(Covered)
      <3>1. IsFiniteSet(0 .. Len(Source)) /\ Covered \in SUBSET (0 .. Len(Source))
        BY <1>3, <2>1, FS_Interval
      <3>2. QED
        BY <3>1, FS_Subset, Zenon
    <2>3. IsFiniteSet(delivered .. end - 1) /\ Cardinality(delivered .. end - 1) = end - delivered
      <3> DEFINE last == end - 1
      <3>1. delivered \in Int /\ last \in Int /\ delivered <= last + 1 /\ last + 1 = end
        BY <1>3
      <3> HIDE DEF last
      <3>2. /\ IsFiniteSet(delivered .. last)
            /\ Cardinality(delivered .. last) = IF delivered > last THEN 0 ELSE last - delivered + 1
        BY <3>1, FS_Interval
      <3>3. Cardinality(delivered .. last) = end - delivered
        BY <1>3, <3>1, <3>2
      <3>4. QED
        BY <3>2, <3>3 DEF last
    <2>4. Cardinality(delivered .. end - 1) <= Cardinality(Covered)
      BY <1>5, <2>2, FS_Subset, Zenon
    <2>5. Cardinality(Covered) \in Nat
      BY <2>2, FS_CardinalityType
    <2>6. QED
      BY <1>3, <2>3, <2>4, <2>5
  <1>8. \A n \in delivered .. delivered + Cardinality(Covered) :
           n \notin Covered /\ delivered .. n - 1 \subseteq Covered => n = end
    <2> SUFFICES ASSUME NEW n \in delivered .. delivered + Cardinality(Covered),
                        n \notin Covered, delivered .. n - 1 \subseteq Covered
                 PROVE  n = end
      OBVIOUS
    <2>1. n \in Int /\ delivered <= n
      BY <1>3
    <2>2. ~(n < end)
      BY <1>3, <1>5, <2>1
    <2>3. ~(end < n)
      BY <1>3, <1>6, <2>1
    <2>4. QED
      BY <1>3, <2>1, <2>2, <2>3
  <1>9. View.delivered = delivered /\ View.segs = Covered
    BY DEF View
  <1>10. AckPoint(View) = end
    BY <1>5, <1>6, <1>7, <1>8, <1>9 DEF AckPoint
  <1>11. QED
    BY <1>10 DEF end

\* The Reassembler does to the offsets what module Stream says of it (stream.rs:84-146), so
\* what is proved of streams in terms of offsets holds of the segments and their bytes.
THEOREM ReassemblyAgreesWithStream == ReassemblySpec => AgreesWithStream
  <1> DEFINE Agrees ==
         /\ AckPoint(View) = IF delivered \in DOMAIN segs THEN EndOf(delivered) ELSE delivered
         /\ Read => View' = ReadAll(View)
         /\ \A offset \in 0 .. Len(Source), len \in 1 .. MAX_STREAM_CHUNK :
              InsertSegment(offset, len) => View' = Insert(View, offset, len)
  <1>1. ReassemblyIInv /\ ReassemblyIInv' => Agrees
    <2> SUFFICES ASSUME ReassemblyIInv, ReassemblyIInv' PROVE Agrees
      OBVIOUS
    <2>1. AckPoint(View) = IF delivered \in DOMAIN segs THEN EndOf(delivered) ELSE delivered
      BY AckPointOfView
    <2>2. ASSUME Read PROVE View' = ReadAll(View)
      <3>1. /\ delivered \in DOMAIN segs /\ delivered' = EndOf(delivered)
            /\ Covered' = Covered \ (delivered .. EndOf(delivered) - 1)
        BY <2>2, ReadKeeps DEF Read
      <3>2. AckPoint(View) = EndOf(delivered)
        BY <2>1, <3>1
      <3>3. ASSUME NEW v, v = View
            PROVE  ReadAll(v) = [delivered |-> AckPoint(v),
                                 segs |-> v.segs \ (v.delivered .. AckPoint(v) - 1)]
        <4>1. v = [delivered |-> delivered, segs |-> Covered]
          BY <3>3 DEF View
        <4>2. PICK a : a = AckPoint(v)
          OBVIOUS
        <4>3. ReadAll(v) = [v EXCEPT !.delivered = a, !.segs = v.segs \ (v.delivered .. a - 1)]
          BY <4>2 DEF ReadAll
        <4>4. QED
          BY <4>1, <4>2, <4>3, Zenon
      <3>4. /\ View.delivered = delivered /\ View.segs = Covered
            /\ View' = [delivered |-> delivered', segs |-> Covered']
        BY DEF View
      <3>5. QED
        BY <3>1, <3>2, <3>3, <3>4
    <2>3. ASSUME NEW offset \in 0 .. Len(Source), NEW len \in 1 .. MAX_STREAM_CHUNK,
                 InsertSegment(offset, len)
          PROVE  View' = Insert(View, offset, len)
      <3>1. Len(Source) \in Nat /\ offset \in Nat /\ len \in Nat /\ len >= 1
        BY ReassemblyAssumption
      <3>2. arrived' = arrived \cup (offset .. offset + len - 1) /\ delivered' = delivered
        BY <2>3 DEF InsertSegment
      <3>3. offset + len - 1 \in 0 .. Len(Source) - 1
        BY <3>1, <3>2 DEF ReassemblyIInv
      <3>4. offset + len <= Len(Source)
        BY <3>1, <3>3
      <3>5. Covered' = Covered \cup {k \in offset .. offset + len - 1 : k >= delivered}
        BY <2>3, <3>1, <3>4, InsertKeeps
      <3>6. PICK c : c = Covered \cup {k \in offset .. offset + len - 1 : k >= delivered}
        BY Zenon
      <3>7. View' = [delivered |-> delivered, segs |-> c]
        BY <3>2, <3>5, <3>6 DEF View
      <3>8. Insert(View, offset, len) = [View EXCEPT !.segs = c]
        BY <3>6 DEF View, Insert
      <3>9. QED
        BY <3>7, <3>8 DEF View
    <2>4. QED
      BY <2>1, <2>2, <2>3
  <1> HIDE DEF Agrees
  <1>2. ReassemblyIInv /\ ReassemblyIInv' => [Agrees]_reassemblyVars
    BY <1>1
  <1>3. ReassemblySpec => [][Agrees]_reassemblyVars
    BY <1>2, ReassemblyInvariant, PTL
  <1>4. QED
    BY <1>3 DEF AgreesWithStream, Agrees

=============================================================================
