------------------------------ MODULE Session ------------------------------
(***************************************************************************)
(* The two ends of an established transport session and the datagrams       *)
(* between them (crates/transport/src/lib.rs: Session::seal and             *)
(* Session::open), with a client that changes its network address while    *)
(* packets are in flight.                                                  *)
(*                                                                         *)
(* The network may delay, reorder, duplicate and lose datagrams: wire only  *)
(* grows, a datagram may be opened any number of times, and one that is    *)
(* never opened is lost.  Besides the datagrams the two ends sealed, ones   *)
(* that do not authenticate (noise on the link, strangers) and ones of      *)
(* another session reach open().                                           *)
(*                                                                         *)
(* The Noise cipher is external: a datagram decrypts if and only if it is   *)
(* one the other end sealed, with the nonce it was sealed with.            *)
(***************************************************************************)
EXTENDS Replay

CONSTANTS Addrs,            \* the addresses the client may have
          ServerAddr,       \* the server's address, as the client knows it
          MaxNonce,         \* bound: packets an end seals
          MaxRoams          \* bound: times the client changes its address

ASSUME AddrsAssumption == ServerAddr \notin Addrs
ASSUME MaxNonceAssumption == MaxNonce \in Nat
ASSUME MaxRoamsAssumption == MaxRoams \in Nat

VARIABLES send_nonce,       \* send_nonce[e]: nonce of the next packet e seals
          filter,           \* filter[e]: e's replay filter
          peer_addr,        \* peer_addr[e]: where e believes its peer to be
          client_addr,      \* the address the client has now
          wire,             \* the datagrams sealed so far
          outcome,          \* what the last call of open returned
          handed,           \* history: handed[e][n], times e got the frames of packet n
          roams,            \* history: address changes so far
          roam_nonce        \* history: the client's send_nonce at the last one

vars == <<send_nonce, filter, peer_addr, client_addr, wire, outcome,
          handed, roams, roam_nonce>>

Ends == {"client", "server"}
Peer(e) == IF e = "client" THEN "server" ELSE "client"

Packets == 0 .. MaxNonce - 1
Accepted(e) == {n \in Packets : handed[e][n] > 0}

\* A datagram to the server carries the address it was sent from, one to the
\* client the address it was sent to.
Datagrams == [to : Ends, addr : Addrs, nonce : Packets]
Outcomes == {"none", "frames", "Noise", "Replay", "SessionMismatch"}

Init ==
    \E a \in Addrs :
        /\ client_addr = a
        /\ peer_addr = [e \in Ends |-> IF e = "client" THEN ServerAddr ELSE a]
        /\ send_nonce = [e \in Ends |-> 0]
        /\ filter = [e \in Ends |-> NewFilter]
        /\ wire = {}
        /\ outcome = "none"
        /\ handed = [e \in Ends |-> [n \in Packets |-> 0]]
        /\ roams = 0
        /\ roam_nonce = 0

\* Session::seal, and the send of the packet: the client's leaves from the
\* address it has now, the server's goes to the peer_addr it has now.
Seal(e) ==
    /\ send_nonce[e] < MaxNonce
    /\ send_nonce' = [send_nonce EXCEPT ![e] = @ + 1]
    /\ wire' = wire \cup {[to    |-> Peer(e),
                           addr  |-> IF e = "client" THEN client_addr
                                                     ELSE peer_addr["server"],
                           nonce |-> send_nonce[e]]}
    /\ UNCHANGED <<filter, peer_addr, client_addr, outcome, handed, roams, roam_nonce>>

\* Client::rebind, or a network change underneath the client.
Roam(a) ==
    /\ roams < MaxRoams
    /\ a # client_addr
    /\ client_addr' = a
    /\ roams' = roams + 1
    /\ roam_nonce' = send_nonce["client"]
    /\ UNCHANGED <<send_nonce, filter, peer_addr, wire, outcome, handed>>

\* The part of open() behind the decryption: the replay check, then the move of
\* peer_addr.  The client passes its configured server_addr as the source.
Admit(e, src, nonce) ==
    IF IsFresh(filter[e], nonce)
    THEN /\ filter' = [filter EXCEPT ![e] = Updated(@, nonce)]
         /\ peer_addr' = [peer_addr EXCEPT ![e] = src]
         /\ outcome' = "frames"
         /\ handed' = [handed EXCEPT ![e][nonce] = @ + 1]
    ELSE /\ outcome' = "Replay"
         /\ UNCHANGED <<filter, peer_addr, handed>>

\* Mutant: the address moves before the replay check.
AdmitMovesFirst(e, src, nonce) ==
    /\ peer_addr' = [peer_addr EXCEPT ![e] = src]
    /\ IF IsFresh(filter[e], nonce)
       THEN /\ filter' = [filter EXCEPT ![e] = Updated(@, nonce)]
            /\ outcome' = "frames"
            /\ handed' = [handed EXCEPT ![e][nonce] = @ + 1]
       ELSE /\ outcome' = "Replay"
            /\ UNCHANGED <<filter, handed>>

\* open() of a packet the peer sealed.  A datagram to the client arrives only if
\* the client still has the address it was sent to.
OpenWith(d, admit(_, _, _)) ==
    /\ d.to = "client" => d.addr = client_addr
    /\ admit(d.to, IF d.to = "server" THEN d.addr ELSE ServerAddr, d.nonce)
    /\ UNCHANGED <<send_nonce, client_addr, wire, roams, roam_nonce>>

OpenAddrFirst(d) == OpenWith(d, AdmitMovesFirst)

Open(d) == OpenWith(d, Admit)

\* open() of a datagram that does not decrypt: "Decrypt FIRST. Only an
\* authenticated packet may move our peer address", nor touch the filter.
\* Mutant: the replay check first, as check_and_set also records the nonce.
OpenForgedFilterFirst(e, src, nonce) ==
    /\ outcome' = "Noise"
    /\ filter' = [filter EXCEPT ![e] = IF IsFresh(@, nonce) THEN Updated(@, nonce) ELSE @]
    /\ UNCHANGED <<send_nonce, peer_addr, client_addr, wire, handed, roams, roam_nonce>>

OpenForged(e, src, nonce) ==
    /\ outcome' = "Noise"
    /\ UNCHANGED <<send_nonce, filter, peer_addr, client_addr, wire, handed, roams, roam_nonce>>

OpenForeign ==
    /\ outcome' = "SessionMismatch"
    /\ UNCHANGED <<send_nonce, filter, peer_addr, client_addr, wire, handed, roams, roam_nonce>>

Next ==
    \/ \E e \in Ends : Seal(e)
    \/ \E a \in Addrs : Roam(a)
    \/ \E d \in wire : Open(d)
    \/ \E e \in Ends, src \in Addrs, nonce \in Packets : OpenForged(e, src, nonce)
    \/ OpenForeign

Spec == Init /\ [][Next]_vars

----------------------------------------------------------------------------

\* The fields of both ends have their types.
TypeOK ==
    /\ send_nonce \in [Ends -> 0 .. MaxNonce]
    /\ filter \in [Ends -> [max : Nat \cup {None}, bitmap : SUBSET Bits]]
    /\ peer_addr \in [Ends -> Addrs \cup {ServerAddr}] /\ peer_addr["server"] \in Addrs
    /\ client_addr \in Addrs
    /\ wire \subseteq Datagrams
    /\ outcome \in Outcomes
    /\ handed \in [Ends -> [Packets -> Nat]]
    /\ roams \in 0 .. MaxRoams
    /\ roam_nonce \in 0 .. MaxNonce

\* What reached open() without authenticating leaves no trace: each end's filter
\* is exactly the filter of the packets whose frames it handed up, so a forged
\* nonce can neither use up a genuine one nor push the window past it.
FilterOnlyGenuine == \A e \in Ends : ExactFor(filter[e], Accepted(e))

\* open() hands up the frames of each packet the peer sealed at most once, and of
\* no other packet, although the network duplicates and reorders datagrams.
FramesAtMostOnce ==
    \A e \in Ends, n \in Packets : handed[e][n] <= IF n < send_nonce[Peer(e)] THEN 1 ELSE 0

\* Both: open() (transport lib.rs:196-217) acts once on what was sealed and on nothing else.
OpensOnlyGenuineOnce == FilterOnlyGenuine /\ FramesAtMostOnce

\* Reordering costs nothing inside the window: open() refuses no packet that is neither
\* a replay nor WINDOW or more behind the newest one, whatever was opened before.
FreshGetsThrough ==
    [][\A d \in wire :
         handed[d.to][d.nonce] = 0 /\ d.nonce > filter[d.to].max - WINDOW /\ Open(d)
           => outcome' = "frames"]_vars

\* A packet sent before the client's last move can turn the server's peer_addr
\* back to the old address only while the replay window still reaches it: once a
\* packet sealed WINDOW - 1 or more after the move has been opened, the server
\* answers to the client's current address and keeps doing so.
RoamingSettles ==
    filter["server"].max >= roam_nonce + WINDOW - 1 => peer_addr["server"] = client_addr

============================================================================
