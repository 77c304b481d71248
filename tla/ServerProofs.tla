---------------------------- MODULE ServerProofs ----------------------------
(***************************************************************************)
(* The server's sessions and their terminals.  For any number of clients    *)
(* and keys, any sharing of keys, any limits and any delivery: a running    *)
(* shell belongs to one session, of the key it was spawned for, and no      *)
(* packet spoils a handshake in progress (Lifecycle).  For any sizes and    *)
(* any number of calls: nothing a program prints makes the emulator index   *)
(* outside its screen, and the main screen comes back (Emulator).           *)
(***************************************************************************)
EXTENDS Lifecycle, Emulator, TLAPS

Sessions == [live : BOOLEAN, shell : BOOLEAN, pty : Nat, exit : BOOLEAN,
             exit_ticks : Nat, idle_ticks : Nat]
Ptys == [key : Keys, state : {"running", "exited", "killed"}]
Datagrams == [type : {"m1", "m2", "m3", "OpenShell", "Ack", "Bye", "StateDiff", "Exit"}, hs : Nat]
Ways == {"server", "client"}

LifecycleTypeOK ==
    /\ KeyOf \in [Clients -> Keys]
    /\ pending \in [Clients -> Nat]
    /\ sessions \in [Clients -> Sessions]
    /\ ptys \in Seq(Ptys)
    /\ net \in [Ways -> [Clients -> SUBSET Datagrams]]
    /\ handshakers \in Nat

\* Who has a PTY has one that was spawned, for its own key, in a live session; only
\* authorized clients have a session.
Owners ==
    \A c \in Clients :
        /\ sessions[c].live => KeyOf[c] \in Authorized
        /\ sessions[c].pty # NoPty =>
               /\ sessions[c].live /\ sessions[c].pty \in 1 .. Len(ptys)
               /\ ptys[sessions[c].pty].key = KeyOf[c]

\* No two have the same.
NotShared ==
    \A c, k \in Clients : c # k /\ sessions[c].pty # NoPty => sessions[c].pty # sessions[k].pty

\* Nobody's shell does not run.
NotOrphaned ==
    \A p \in 1 .. Len(ptys) : ptys[p].state = "running" => \E c \in Clients : sessions[c].pty = p

\* Each m2 and m3 is of the handshaker that waits, or of one that has finished.
Handshakes ==
    \A d \in Ways : \A c \in Clients : \A m \in net[d][c] :
        m.type \in {"m2", "m3"} => m.hs # 0 /\ (m.hs = pending[c] \/ m.hs \in completed)

IInv == LifecycleTypeOK /\ Owners /\ NotShared /\ NotOrphaned /\ Handshakes

-----------------------------------------------------------------------------

LEMMA InitIInv == Init => IInv
  <1> SUFFICES ASSUME Init PROVE IInv
    OBVIOUS
  <1>1. NoSession \in Sessions /\ NoSession.pty = NoPty /\ ~NoSession.live
    BY DEF NoSession, NoPty, Sessions
  <1>2. KeyOf \in [Clients -> Keys]
    BY LifecycleAssumption DEF Init
  <1>3. Len(ptys) = 0 /\ ptys \in Seq(Ptys)
    BY DEF Init
  <1>4. LifecycleTypeOK
    BY <1>1, <1>2, <1>3 DEF Init, LifecycleTypeOK, Ways
  <1>5. Owners /\ NotShared
    BY <1>1 DEF Init, Owners, NotShared
  <1>6. NotOrphaned
    BY <1>3 DEF NotOrphaned
  <1>7. Handshakes
    BY DEF Init, Handshakes, Ways
  <1>8. QED
    BY <1>4, <1>5, <1>6, <1>7 DEF IInv

\* What leaves joins what is in flight, or goes to nobody.
LEMMA SentFacts ==
    ASSUME LifecycleTypeOK, NEW d \in Ways, NEW c \in Clients, NEW msgs \in SUBSET Datagrams
    PROVE  /\ Sent(d, c, msgs) \in [Ways -> [Clients -> SUBSET Datagrams]]
           /\ \A x \in Ways, k \in Clients : \A m \in Sent(d, c, msgs)[x][k] :
                  m \in net[x][k] \/ (x = d /\ k = c /\ m \in msgs)
  BY DEF LifecycleTypeOK, Sent

LEMMA HangupFacts ==
    ASSUME LifecycleTypeOK, NEW c \in Clients, NEW msgs \in SUBSET Datagrams
    PROVE  /\ Hangup(c, msgs) \in [Ways -> [Clients -> SUBSET Datagrams]]
           /\ \A x \in Ways, k \in Clients : \A m \in Hangup(c, msgs)[x][k] :
                  m \in net[x][k] \/ (k = c /\ m \in msgs)
  BY Zenon DEF LifecycleTypeOK, Hangup, Ways

LEMMA OpenedFacts ==
    ASSUME LifecycleTypeOK, NEW d \in Ways, NEW c \in Clients, NEW m
    PROVE  /\ Opened(d, c, m) \in [Ways -> [Clients -> SUBSET Datagrams]]
           /\ \A x \in Ways, k \in Clients : Opened(d, c, m)[x][k] \subseteq net[x][k]
  BY DEF LifecycleTypeOK, Opened

LEMMA DatagramFacts ==
    /\ M1 \in Datagrams /\ M1.type = "m1"
    /\ \A n \in Nat : /\ M2(n) \in Datagrams /\ M2(n).type = "m2" /\ M2(n).hs = n
                      /\ M3(n) \in Datagrams /\ M3(n).type = "m3" /\ M3(n).hs = n
    /\ \A x \in {"OpenShell", "Ack", "Bye", "StateDiff", "Exit"} :
           Transport(x) \in Datagrams /\ Transport(x).type = x
  BY DEF M1, M2, M3, Transport, Datagrams

\* The client's steps touch the network only; what they add is no m2, and an m3 only for
\* an m2 that is there.
LEMMA ClientStep ==
    ASSUME IInv, UNCHANGED <<KeyOf, pending, sessions, ptys, handshakers, completed>>,
           net' \in [Ways -> [Clients -> SUBSET Datagrams]],
           \A d \in Ways, c \in Clients : \A m \in net'[d][c] :
              \/ m \in net[d][c]
              \/ m.type \notin {"m2", "m3"}
              \/ \E n \in net["client"][c] : n.type = "m2" /\ m.hs = n.hs
    PROVE  IInv'
  <1>1. LifecycleTypeOK' /\ Owners' /\ NotShared' /\ NotOrphaned'
    BY DEF IInv, LifecycleTypeOK, Owners, NotShared, NotOrphaned
  <1>2. Handshakes'
    <2> SUFFICES ASSUME NEW d \in Ways, NEW c \in Clients, NEW m \in net'[d][c],
                        m.type \in {"m2", "m3"}
                 PROVE  m.hs # 0 /\ (m.hs = pending[c] \/ m.hs \in completed)
      BY DEF Handshakes
    <2>1. "client" \in Ways
      BY DEF Ways
    <2>2. CASE m \in net[d][c]
      BY <2>2 DEF IInv, Handshakes
    <2>3. CASE \E n \in net["client"][c] : n.type = "m2" /\ m.hs = n.hs
      BY <2>1, <2>3 DEF IInv, Handshakes
    <2>4. QED
      BY <2>2, <2>3
  <1>3. QED
    BY <1>1, <1>2 DEF IInv

LEMMA ClientKeeps ==
    ASSUME IInv, NEW c \in Clients, ClientNext(c)
    PROVE  IInv'
  <1>1. LifecycleTypeOK /\ "client" \in Ways /\ "server" \in Ways
    BY DEF IInv, Ways
  <1>2. CASE Connect(c)
    <2>1. net' = Sent("server", c, {M1}) /\ {M1} \in SUBSET Datagrams
      BY <1>2, DatagramFacts DEF Connect
    <2>2. UNCHANGED <<KeyOf, pending, sessions, ptys, handshakers, completed>>
      BY <1>2 DEF Connect
    <2>3. /\ net' \in [Ways -> [Clients -> SUBSET Datagrams]]
          /\ \A x \in Ways, y \in Clients : \A n \in net'[x][y] : n \in net[x][y] \/ n = M1
      BY <1>1, <2>1, SentFacts
    <2>4. QED
      BY <2>2, <2>3, ClientStep, DatagramFacts
  <1>3. CASE ConnectFails(c) \/ Vanish(c)
    <2>1. net' = Hangup(c, {}) /\ {} \in SUBSET Datagrams
      BY <1>3 DEF ConnectFails, Vanish
    <2>2. UNCHANGED <<KeyOf, pending, sessions, ptys, handshakers, completed>>
      BY <1>3 DEF ConnectFails, Vanish
    <2>3. /\ net' \in [Ways -> [Clients -> SUBSET Datagrams]]
          /\ \A x \in Ways, y \in Clients : \A n \in net'[x][y] : n \in net[x][y]
      BY <1>1, <2>1, HangupFacts
    <2>4. QED
      BY <2>2, <2>3, ClientStep
  <1>4. CASE Bye(c)
    <2>1. net' = Hangup(c, {Transport("Bye")}) /\ {Transport("Bye")} \in SUBSET Datagrams
      BY <1>4, DatagramFacts DEF Bye
    <2>2. UNCHANGED <<KeyOf, pending, sessions, ptys, handshakers, completed>>
      BY <1>4 DEF Bye
    <2>3. Transport("Bye").type = "Bye"
      BY DatagramFacts
    <2>4. /\ net' \in [Ways -> [Clients -> SUBSET Datagrams]]
          /\ \A x \in Ways, y \in Clients : \A n \in net'[x][y] : n \in net[x][y] \/ n = Transport("Bye")
      BY <1>1, <2>1, HangupFacts
    <2>5. QED
      BY <2>2, <2>3, <2>4, ClientStep
  <1>5. CASE ClientTick(c)
    <2>1. net' = Sent("server", c, {OutgoingPacket(client[c])})
      BY <1>5 DEF ClientTick
    <2>2. UNCHANGED <<KeyOf, pending, sessions, ptys, handshakers, completed>>
      BY <1>5 DEF ClientTick
    <2>3. OutgoingPacket(client[c]) \in Datagrams /\ OutgoingPacket(client[c]).type \in {"OpenShell", "Ack"}
      BY DatagramFacts DEF OutgoingPacket
    <2>4. {OutgoingPacket(client[c])} \in SUBSET Datagrams
      BY <2>3
    <2>5. /\ net' \in [Ways -> [Clients -> SUBSET Datagrams]]
          /\ \A x \in Ways, y \in Clients : \A n \in net'[x][y] :
                n \in net[x][y] \/ n = OutgoingPacket(client[c])
      BY <1>1, <2>1, <2>4, SentFacts
    <2>6. QED
      BY <2>2, <2>3, <2>5, ClientStep
  <1>6. ASSUME NEW m \in net["client"][c], ClientHandshake(c, m) PROVE IInv'
    <2>1. m \in Datagrams /\ m.hs \in Nat /\ m.type = "m2"
      BY <1>1, <1>6 DEF ClientHandshake, LifecycleTypeOK, Datagrams
    <2>2. UNCHANGED <<KeyOf, pending, sessions, ptys, handshakers, completed>>
      BY <1>6 DEF ClientHandshake
    <2>3. CASE net' = Hangup(c, {})
      <3>1. {} \in SUBSET Datagrams
        OBVIOUS
      <3>2. /\ net' \in [Ways -> [Clients -> SUBSET Datagrams]]
            /\ \A x \in Ways, y \in Clients : \A n \in net'[x][y] : n \in net[x][y]
        BY <1>1, <2>3, <3>1, HangupFacts
      <3>3. QED
        BY <2>2, <3>2, ClientStep
    <2>4. ASSUME NEW k, net' = Sent("server", c, {M3(m.hs), OutgoingPacket(k)}) PROVE IInv'
      <3>1. OutgoingPacket(k) \in Datagrams /\ OutgoingPacket(k).type \in {"OpenShell", "Ack"}
        BY DatagramFacts DEF OutgoingPacket
      <3>2. M3(m.hs) \in Datagrams /\ M3(m.hs).hs = m.hs
        BY <2>1, DatagramFacts
      <3>3. {M3(m.hs), OutgoingPacket(k)} \in SUBSET Datagrams
        BY <3>1, <3>2
      <3>4. /\ net' \in [Ways -> [Clients -> SUBSET Datagrams]]
            /\ \A x \in Ways, y \in Clients : \A n \in net'[x][y] :
                  n \in net[x][y] \/ (y = c /\ n \in {M3(m.hs), OutgoingPacket(k)})
        BY <1>1, <2>4, <3>3, SentFacts
      <3>5. QED
        BY <2>1, <2>2, <3>1, <3>2, <3>4, ClientStep
    <2> DEFINE k == [client[c] EXCEPT !.state = "established", !.open_shell_pending = (c \in WantsShell)]
    <2>5. net' = Hangup(c, {}) \/ net' = Sent("server", c, {M3(m.hs), OutgoingPacket(k)})
      BY <1>6 DEF ClientHandshake
    <2> HIDE DEF k
    <2>6. QED
      BY <2>3, <2>4, <2>5
  <1>7. ASSUME NEW m \in net["client"][c], ClientTransport(c, m) PROVE IInv'
    <2>1. UNCHANGED <<KeyOf, pending, sessions, ptys, handshakers, completed>>
      BY <1>7 DEF ClientTransport
    <2>2. net' = Hangup(c, {}) \/ net' = Opened("client", c, m)
      BY <1>7 DEF ClientTransport
    <2>3. {} \in SUBSET Datagrams
      OBVIOUS
    <2>4. /\ net' \in [Ways -> [Clients -> SUBSET Datagrams]]
          /\ \A x \in Ways, y \in Clients : \A n \in net'[x][y] : n \in net[x][y]
      BY <1>1, <2>2, <2>3, HangupFacts, OpenedFacts
    <2>5. QED
      BY <2>1, <2>4, ClientStep
  <1>8. QED
    BY <1>2, <1>3, <1>4, <1>5, <1>6, <1>7 DEF ClientNext

-----------------------------------------------------------------------------

LEMMA NewSessionFacts ==
    /\ NoSession \in Sessions /\ NoSession.pty = NoPty /\ ~NoSession.live
    /\ NewSession \in Sessions /\ NewSession.pty = NoPty /\ NewSession.live
  BY Zenon DEF NoSession, NewSession, NoPty, Sessions

\* What the updates of handle_transport do to a session.
LEMMA SessionUpdates ==
    ASSUME NEW s \in Sessions
    PROVE  /\ [s EXCEPT !.idle_ticks = 0] \in Sessions
           /\ [s EXCEPT !.idle_ticks = 0].pty = s.pty
           /\ [s EXCEPT !.idle_ticks = 0].live = s.live
           /\ [s EXCEPT !.exit = TRUE, !.exit_ticks = 0] \in Sessions
           /\ [s EXCEPT !.exit = TRUE, !.exit_ticks = 0].pty = s.pty
           /\ [s EXCEPT !.exit = TRUE, !.exit_ticks = 0].live = s.live
           /\ \A n \in Nat : /\ [s EXCEPT !.shell = TRUE, !.pty = n] \in Sessions
                             /\ [s EXCEPT !.shell = TRUE, !.pty = n].pty = n
                             /\ [s EXCEPT !.shell = TRUE, !.pty = n].live = s.live
  BY Zenon DEF Sessions

\* A handshake opens or finishes, and what it finishes with owns what it takes over.
LEMMA HandleHandshakeKeeps ==
    ASSUME IInv, NEW c \in Clients, NEW m \in net["server"][c], HandleHandshake(c, m)
    PROVE  IInv'
  <1>1. LifecycleTypeOK /\ "client" \in Ways /\ "server" \in Ways
    BY DEF IInv, Ways
  <1>2. KeyOf' = KeyOf /\ ptys' = ptys /\ ~sessions[c].live
    BY DEF HandleHandshake
  <1>3. CASE pending[c] = 0
    <2> DEFINE h == handshakers + 1
    <2>1. /\ handshakers' = h /\ pending' = [pending EXCEPT ![c] = h]
          /\ net' = Sent("client", c, {M2(h)}) /\ sessions' = sessions /\ completed' = completed
      BY <1>3 DEF HandleHandshake
    <2>2. h \in Nat /\ h # 0 /\ M2(h) \in Datagrams /\ M2(h).hs = h
      BY <1>1, DatagramFacts DEF LifecycleTypeOK
    <2> HIDE DEF h
    <2>3. {M2(h)} \in SUBSET Datagrams
      BY <2>2
    <2>4. /\ net' \in [Ways -> [Clients -> SUBSET Datagrams]]
          /\ \A x \in Ways, k \in Clients : \A n \in net'[x][k] :
                 n \in net[x][k] \/ (k = c /\ n = M2(h))
      BY <1>1, <2>1, <2>3, SentFacts
    <2>5. /\ pending' \in [Clients -> Nat] /\ pending'[c] = h
          /\ \A k \in Clients : k # c => pending'[k] = pending[k]
      BY <1>1, <2>1, <2>2 DEF LifecycleTypeOK
    <2>6. LifecycleTypeOK'
      BY <1>1, <1>2, <2>1, <2>2, <2>4, <2>5, Zenon DEF LifecycleTypeOK
    <2>7. Owners' /\ NotShared' /\ NotOrphaned'
      BY <1>2, <2>1 DEF IInv, Owners, NotShared, NotOrphaned
    <2>8. Handshakes'
      <3> SUFFICES ASSUME NEW d \in Ways, NEW k \in Clients, NEW n \in net'[d][k],
                          n.type \in {"m2", "m3"}
                   PROVE  n.hs # 0 /\ (n.hs = pending'[k] \/ n.hs \in completed')
        BY DEF Handshakes
      <3>1. CASE n \in net[d][k]
        <4>1. n.hs # 0 /\ (n.hs = pending[k] \/ n.hs \in completed)
          BY <3>1 DEF IInv, Handshakes
        <4>2. QED
          BY <1>3, <2>1, <2>5, <4>1
      <3>2. CASE k = c /\ n = M2(h)
        BY <2>2, <2>5, <3>2
      <3>3. QED
        BY <2>4, <3>1, <3>2
    <2>9. QED
      BY <2>6, <2>7, <2>8 DEF IInv
  <1>4. CASE pending[c] # 0 /\ m # M3(pending[c])
    <2>1. UNCHANGED <<pending, sessions, net, handshakers, completed>>
      BY <1>4, Zenon DEF HandleHandshake, Unreadable
    <2>2. QED
      BY <1>2, <2>1 DEF IInv, LifecycleTypeOK, Owners, NotShared, NotOrphaned, Handshakes
  <1>5. CASE pending[c] # 0 /\ m = M3(pending[c])
    <2>1. Finish(c) /\ net' = net /\ handshakers' = handshakers
      BY <1>5 DEF HandleHandshake
    <2>2. /\ completed' = completed \cup {pending[c]}
          /\ pending' = [pending EXCEPT ![c] = 0] /\ pending' \in [Clients -> Nat]
          /\ \A k \in Clients : k # c => pending'[k] = pending[k]
      BY <1>1, <2>1 DEF Finish, LifecycleTypeOK
    <2>3. Handshakes'
      BY <2>1, <2>2 DEF IInv, Handshakes
    <2>4. sessions[c].pty = NoPty
      BY <1>2 DEF IInv, Owners
    <2>5. CASE sessions' = sessions
      BY <1>1, <1>2, <2>1, <2>2, <2>3, <2>5
         DEF IInv, LifecycleTypeOK, Owners, NotShared, NotOrphaned
    <2>6. CASE KeyOf[c] \in Authorized /\ sessions' = [sessions EXCEPT ![c] = NewSession]
      <3>1. /\ sessions' \in [Clients -> Sessions] /\ sessions'[c].pty = NoPty
            /\ \A k \in Clients : k # c => sessions'[k] = sessions[k]
            /\ \A k \in Clients : sessions'[k].pty = sessions[k].pty
        BY <1>1, <2>4, <2>6, NewSessionFacts DEF LifecycleTypeOK
      <3>2. LifecycleTypeOK'
        BY <1>1, <1>2, <2>1, <2>2, <3>1, Zenon DEF LifecycleTypeOK
      <3>3. Owners'
        BY <1>2, <2>6, <3>1 DEF IInv, Owners
      <3>4. NotShared' /\ NotOrphaned'
        BY <1>2, <3>1 DEF IInv, NotShared, NotOrphaned
      <3>5. QED
        BY <2>3, <3>2, <3>3, <3>4 DEF IInv
    <2>7. ASSUME NEW old \in Reattachable(c), KeyOf[c] \in Authorized, sessions' = TakeOver(old, c)
          PROVE  IInv'
      <3>1. old \in Clients /\ sessions[old].live /\ KeyOf[old] = KeyOf[c] /\ old # c
        BY <1>2 DEF Reattachable
      <3> DEFINE new == [NewSession EXCEPT !.shell = sessions[old].shell, !.pty = sessions[old].pty]
      <3>2. new \in Sessions /\ new.pty = sessions[old].pty /\ new.live
        BY <1>1, <3>1, Zenon DEF LifecycleTypeOK, Sessions, NewSession, NoSession, NoPty
      <3>3. sessions' = [sessions EXCEPT ![old] = NoSession, ![c] = new]
        BY <2>7 DEF TakeOver
      <3> HIDE DEF new
      <3>4. /\ sessions' \in [Clients -> Sessions] /\ sessions'[old] = NoSession /\ sessions'[c] = new
            /\ \A k \in Clients : k \notin {old, c} => sessions'[k] = sessions[k]
        BY <1>1, <3>1, <3>2, <3>3, NewSessionFacts DEF LifecycleTypeOK
      <3>5. LifecycleTypeOK'
        BY <1>1, <1>2, <2>1, <2>2, <3>4, Zenon DEF LifecycleTypeOK
      <3>6. Owners'
        BY <1>2, <2>7, <3>1, <3>2, <3>4, NewSessionFacts DEF IInv, Owners
      <3>7. NotShared'
        BY <3>1, <3>2, <3>4, NewSessionFacts DEF IInv, NotShared
      <3>8. NotOrphaned'
        <4> SUFFICES ASSUME NEW p \in 1 .. Len(ptys), ptys[p].state = "running"
                     PROVE  \E k \in Clients : sessions'[k].pty = p
          BY <1>2 DEF NotOrphaned
        <4>1. PICK k \in Clients : sessions[k].pty = p
          BY DEF IInv, NotOrphaned
        <4>2. p # NoPty
          BY <1>1 DEF NoPty, LifecycleTypeOK
        <4>3. k # c
          BY <2>4, <4>1, <4>2
        <4>4. sessions'[IF k = old THEN c ELSE k].pty = p
          BY <3>2, <3>4, <4>1, <4>3
        <4>5. QED
          BY <4>4
      <3>9. QED
        BY <2>3, <3>5, <3>6, <3>7, <3>8 DEF IInv
    <2>8. \/ sessions' = sessions
          \/ KeyOf[c] \in Authorized /\ sessions' = [sessions EXCEPT ![c] = NewSession]
          \/ KeyOf[c] \in Authorized /\ \E old \in Reattachable(c) : sessions' = TakeOver(old, c)
      BY <2>1 DEF Finish
    <2>9. QED
      BY <2>5, <2>6, <2>7, <2>8
  <1>6. QED
    BY <1>3, <1>4, <1>5

\* OpenShell gives a session without a PTY a fresh one; nothing else moves one.
LEMMA HandleTransportKeeps ==
    ASSUME IInv, NEW c \in Clients, NEW m \in net["server"][c], HandleTransport(c, m)
    PROVE  IInv'
  <1> DEFINE awake == [sessions[c] EXCEPT !.idle_ticks = 0]
             spawns == /\ sessions[c].live /\ m.type = "OpenShell"
                       /\ sessions[c].pty = NoPty /\ Len(ptys) < MaxPtys
             s == CASE spawns -> [awake EXCEPT !.shell = TRUE, !.pty = Len(ptys) + 1]
                    [] m.type = "Bye" -> [awake EXCEPT !.exit = TRUE, !.exit_ticks = 0]
                    [] OTHER -> awake
  <1>1. LifecycleTypeOK /\ "server" \in Ways
    BY DEF IInv, Ways
  <1>2. /\ KeyOf' = KeyOf /\ pending' = pending /\ handshakers' = handshakers /\ completed' = completed
        /\ net' = Opened("server", c, m)
        /\ ptys' = IF spawns THEN Append(ptys, [key |-> KeyOf[c], state |-> "running"]) ELSE ptys
        /\ sessions' = IF ~sessions[c].live THEN sessions ELSE [sessions EXCEPT ![c] = s]
    BY DEF HandleTransport
  <1>3. /\ sessions[c] \in Sessions /\ ptys \in Seq(Ptys) /\ Len(ptys) \in Nat
        /\ KeyOf[c] \in Keys /\ sessions \in [Clients -> Sessions]
    BY <1>1 DEF LifecycleTypeOK
  <1>4. /\ net' \in [Ways -> [Clients -> SUBSET Datagrams]]
        /\ \A x \in Ways, k \in Clients : net'[x][k] \subseteq net[x][k]
    BY <1>1, <1>2, OpenedFacts
  <1>5. Handshakes'
    BY <1>2, <1>4 DEF IInv, Handshakes
  <1>6. CASE ~sessions[c].live
    <2>1. sessions' = sessions /\ ptys' = ptys
      BY <1>2, <1>6
    <2> HIDE DEF s, spawns
    <2>2. LifecycleTypeOK'
      BY <1>1, <1>2, <1>4, <2>1 DEF LifecycleTypeOK
    <2>3. Owners' /\ NotShared' /\ NotOrphaned'
      BY <1>2, <2>1 DEF IInv, Owners, NotShared, NotOrphaned
    <2>4. QED
      BY <1>5, <2>2, <2>3 DEF IInv
  <1>7. CASE sessions[c].live /\ ~spawns
    <2>1. s \in Sessions /\ s.pty = sessions[c].pty /\ s.live
      <3>1. s = [awake EXCEPT !.exit = TRUE, !.exit_ticks = 0] \/ s = awake
        BY <1>7
      <3>2. awake = [sessions[c] EXCEPT !.idle_ticks = 0]
        OBVIOUS
      <3> HIDE DEF awake, s, spawns
      <3>3. s \in Sessions /\ s.pty = sessions[c].pty /\ s.live = sessions[c].live
        <4>1. awake \in Sessions /\ awake.pty = sessions[c].pty /\ awake.live = sessions[c].live
          BY <1>3, <3>2, SessionUpdates, Zenon
        <4>2. CASE s = awake
          BY <4>1, <4>2
        <4>3. CASE s = [awake EXCEPT !.exit = TRUE, !.exit_ticks = 0]
          BY <4>1, <4>3, SessionUpdates, Zenon
        <4>4. QED
          BY <3>1, <4>2, <4>3
      <3>4. QED
        BY <1>7, <3>3
    <2>2. ptys' = ptys /\ sessions' = [sessions EXCEPT ![c] = s]
      BY <1>2, <1>7
    <2> HIDE DEF s
    <2>3. /\ sessions' \in [Clients -> Sessions]
          /\ \A k \in Clients : sessions'[k].pty = sessions[k].pty /\ (sessions'[k].live <=> sessions[k].live)
      BY <1>3, <1>7, <2>1, <2>2
    <2>4. LifecycleTypeOK'
      BY <1>1, <1>2, <1>4, <2>2, <2>3 DEF LifecycleTypeOK
    <2>5. Owners' /\ NotShared' /\ NotOrphaned'
      BY <1>2, <2>2, <2>3 DEF IInv, Owners, NotShared, NotOrphaned
    <2>6. QED
      BY <1>5, <2>4, <2>5 DEF IInv
  <1>8. CASE spawns
    <2> DEFINE new == [key |-> KeyOf[c], state |-> "running"]
               n == Len(ptys) + 1
    <2>1. s \in Sessions /\ s.pty = n /\ s.live
      <3>1. n \in Nat
        BY <1>3
      <3>2. s = [awake EXCEPT !.shell = TRUE, !.pty = n]
        BY <1>8
      <3>3. awake = [sessions[c] EXCEPT !.idle_ticks = 0]
        OBVIOUS
      <3>4. sessions[c].live
        BY <1>8
      <3> HIDE DEF awake, s, n, spawns
      <3>5. s \in Sessions /\ s.pty = n /\ s.live = sessions[c].live
        <4>1. awake \in Sessions /\ awake.live = sessions[c].live
          BY <1>3, <3>3, SessionUpdates, Zenon
        <4>2. QED
          BY <3>1, <3>2, <4>1, SessionUpdates, Zenon
      <3>6. QED
        BY <3>4, <3>5
    <2>2. new \in Ptys /\ new.key = KeyOf[c]
      BY <1>3 DEF Ptys
    <2>3. ptys' = Append(ptys, new) /\ sessions' = [sessions EXCEPT ![c] = s]
      BY <1>2, <1>8
    <2>4. sessions[c].live /\ sessions[c].pty = NoPty
      BY <1>8
    <2> HIDE DEF s, new, spawns
    <2>5. /\ ptys' \in Seq(Ptys) /\ Len(ptys') = n /\ ptys'[n] = new
          /\ \A p \in 1 .. Len(ptys) : ptys'[p] = ptys[p]
      BY <1>3, <2>2, <2>3
    <2>6. /\ sessions' \in [Clients -> Sessions] /\ sessions'[c] = s
          /\ \A k \in Clients : k # c => sessions'[k] = sessions[k]
      BY <1>3, <2>1, <2>3
    <2>7. \A k \in Clients : sessions[k].pty # NoPty => sessions[k].pty \in 1 .. Len(ptys)
      BY DEF IInv, Owners
    <2>8. LifecycleTypeOK'
      BY <1>1, <1>2, <1>4, <2>5, <2>6 DEF LifecycleTypeOK
    <2>9. Owners'
      <3> SUFFICES ASSUME NEW k \in Clients
                   PROVE  /\ sessions'[k].live => KeyOf[k] \in Authorized
                          /\ sessions'[k].pty # NoPty =>
                                 /\ sessions'[k].live /\ sessions'[k].pty \in 1 .. Len(ptys')
                                 /\ ptys'[sessions'[k].pty].key = KeyOf[k]
        BY <1>2 DEF Owners
      <3>1. CASE k = c
        BY <1>3, <2>1, <2>2, <2>4, <2>5, <2>6, <3>1 DEF IInv, Owners
      <3>2. CASE k # c
        BY <1>3, <2>5, <2>6, <2>7, <3>2 DEF IInv, Owners
      <3>3. QED
        BY <3>1, <3>2
    <2>10. NotShared'
      <3>1. \A k \in Clients : k # c => sessions'[k].pty # n
        BY <1>3, <2>6, <2>7 DEF NoPty
      <3>2. QED
        BY <2>1, <2>6, <3>1 DEF IInv, NotShared
    <2>11. NotOrphaned'
      <3> SUFFICES ASSUME NEW p \in 1 .. n, ptys'[p].state = "running"
                   PROVE  \E k \in Clients : sessions'[k].pty = p
        BY <2>5 DEF NotOrphaned
      <3>1. CASE p = n
        BY <2>1, <2>6, <3>1
      <3>2. CASE p # n
        <4>1. p \in 1 .. Len(ptys)
          BY <1>3, <3>2
        <4>2. PICK k \in Clients : sessions[k].pty = p
          BY <2>5, <4>1 DEF IInv, NotOrphaned
        <4>3. k # c
          BY <1>3, <2>4, <4>1, <4>2 DEF NoPty
        <4>4. QED
          BY <2>6, <4>2, <4>3
      <3>3. QED
        BY <3>1, <3>2
    <2>12. QED
      BY <1>5, <2>8, <2>9, <2>10, <2>11 DEF IInv
  <1>9. QED
    BY <1>6, <1>7, <1>8

\* tick() keeps a session's PTY, or drops it with the session or after its exit.
LEMMA TickedFacts ==
    ASSUME NEW s \in Sessions
    PROVE  /\ Ticked(s) \in Sessions
           /\ Ticked(s).live => s.live
           /\ Ticked(s).pty # NoPty => Ticked(s).pty = s.pty /\ (Ticked(s).live <=> s.live)
  <1> DEFINE idle == IF s.idle_ticks < IDLE_REAP_TICKS THEN s.idle_ticks + 1 ELSE s.idle_ticks
             exited == ~s.exit /\ s.pty # NoPty /\ ~Running(s.pty)
             ex == s.exit \/ exited
             et == IF s.exit \/ exited THEN s.exit_ticks + 1 ELSE s.exit_ticks
             pt == IF exited THEN NoPty ELSE s.pty
             t == [s EXCEPT !.idle_ticks = idle, !.exit = ex, !.exit_ticks = et, !.pty = pt]
  <1>1. s.idle_ticks \in Nat /\ s.exit_ticks \in Nat /\ s.pty \in Nat /\ s.exit \in BOOLEAN
    BY DEF Sessions
  <1>2. idle \in Nat /\ et \in Nat /\ pt \in Nat
    BY <1>1 DEF NoPty
  <1>3. ex \in BOOLEAN
    BY <1>1, Zenon
  <1>4. pt # NoPty => pt = s.pty
    OBVIOUS
  <1>5. Ticked(s) = NoSession \/ Ticked(s) = t
    BY DEF Ticked, TickedWith
  <1> HIDE DEF idle, exited, ex, et, pt
  <1>6. t \in Sessions /\ t.pty = pt /\ t.live = s.live
    BY <1>2, <1>3, Zenon DEF Sessions
  <1> HIDE DEF t
  <1>7. QED
    BY <1>4, <1>5, <1>6, NewSessionFacts

LEMMA TickKeeps ==
    ASSUME IInv, Tick
    PROVE  IInv'
  <1> DEFINE held == {sessions'[c].pty : c \in Clients}
  <1>1. /\ KeyOf' = KeyOf /\ pending' = pending /\ handshakers' = handshakers /\ completed' = completed
        /\ sessions' = [c \in Clients |-> Ticked(sessions[c])]
        /\ ptys' = [p \in DOMAIN ptys |-> AfterDrop(p, held)]
    BY DEF Tick
  <1>2. LifecycleTypeOK /\ ptys \in Seq(Ptys) /\ Len(ptys) \in Nat /\ DOMAIN ptys = 1 .. Len(ptys)
    BY DEF IInv, LifecycleTypeOK
  <1>3. /\ sessions' \in [Clients -> Sessions]
        /\ \A c \in Clients :
              /\ sessions'[c].live => sessions[c].live
              /\ sessions'[c].pty # NoPty => /\ sessions'[c].pty = sessions[c].pty
                                             /\ sessions'[c].live <=> sessions[c].live
    BY <1>1, <1>2, TickedFacts DEF LifecycleTypeOK
  <1>4. ASSUME NEW p \in 1 .. Len(ptys)
        PROVE  /\ ptys'[p] \in Ptys /\ ptys'[p].key = ptys[p].key
               /\ ptys'[p].state = "running" => p \in held
    <2>1. ptys[p] \in Ptys /\ ptys'[p] = AfterDrop(p, held)
      BY <1>1, <1>2
    <2>2. ptys'[p] = ptys[p] \/ ptys'[p] = [ptys[p] EXCEPT !.state = "killed"]
      BY <2>1 DEF AfterDrop
    <2>3. ptys'[p] \in Ptys /\ ptys'[p].key = ptys[p].key
      BY <2>1, <2>2 DEF Ptys
    <2>4. CASE ptys[p].state = "running" /\ p \notin held
      <3>1. ptys'[p] = [ptys[p] EXCEPT !.state = "killed"]
        BY <2>1, <2>4 DEF AfterDrop, Running
      <3>2. ptys'[p].state = "killed"
        BY <2>1, <3>1 DEF Ptys
      <3>3. QED
        BY <2>3, <3>2
    <2>5. CASE ~(ptys[p].state = "running" /\ p \notin held)
      <3>1. ptys'[p] = ptys[p]
        BY <2>1, <2>5 DEF AfterDrop, Running
      <3>2. QED
        BY <2>3, <2>5, <3>1
    <2>6. QED
      BY <2>4, <2>5
  <1>5. ptys' \in Seq(Ptys) /\ Len(ptys') = Len(ptys)
    BY <1>1, <1>2, <1>4
  <1>6. /\ net' \in [Ways -> [Clients -> SUBSET Datagrams]]
        /\ \A d \in Ways, c \in Clients : \A m \in net'[d][c] :
              m \in net[d][c] \/ m.type \notin {"m2", "m3"}
    <2> DEFINE new == [c \in Clients |-> IF Gone(c) THEN {} ELSE net["client"][c] \cup Notices(c)]
    <2>1. net' = [net EXCEPT !["client"] = new]
      BY DEF Tick
    <2>2. \A c \in Clients : \A m \in Notices(c) : m \in Datagrams /\ m.type \in {"StateDiff", "Exit"}
      BY DatagramFacts DEF Notices
    <2>3. /\ new \in [Clients -> SUBSET Datagrams]
          /\ \A c \in Clients : \A m \in new[c] : m \in net["client"][c] \/ m.type \in {"StateDiff", "Exit"}
      BY <1>2, <2>2 DEF LifecycleTypeOK, Ways
    <2> HIDE DEF new
    <2>4. net'["client"] = new /\ net'["server"] = net["server"]
      BY <1>2, <2>1 DEF LifecycleTypeOK, Ways
    <2>5. QED
      BY <1>2, <2>1, <2>3, <2>4, Zenon DEF LifecycleTypeOK, Ways
  <1>7. LifecycleTypeOK'
    BY <1>1, <1>2, <1>3, <1>5, <1>6 DEF LifecycleTypeOK
  <1>8. Owners'
    <2> SUFFICES ASSUME NEW c \in Clients
                 PROVE  /\ sessions'[c].live => KeyOf[c] \in Authorized
                        /\ sessions'[c].pty # NoPty =>
                               /\ sessions'[c].live /\ sessions'[c].pty \in 1 .. Len(ptys)
                               /\ ptys'[sessions'[c].pty].key = KeyOf[c]
      BY <1>1, <1>5, Zenon DEF Owners
    <2>1. /\ sessions[c].live => KeyOf[c] \in Authorized
          /\ sessions[c].pty # NoPty =>
                 /\ sessions[c].live /\ sessions[c].pty \in 1 .. Len(ptys)
                 /\ ptys[sessions[c].pty].key = KeyOf[c]
      BY DEF IInv, Owners
    <2>2. \A p \in 1 .. Len(ptys) : ptys'[p].key = ptys[p].key
      BY <1>4
    <2>3. QED
      BY <1>3, <2>1, <2>2
  <1>9. NotShared'
    BY <1>3 DEF IInv, NotShared
  <1>10. NotOrphaned'
    BY <1>4, <1>5 DEF NotOrphaned
  <1>11. Handshakes'
    BY <1>1, <1>6 DEF IInv, Handshakes
  <1>12. QED
    BY <1>7, <1>8, <1>9, <1>10, <1>11 DEF IInv

LEMMA ShellExitsKeeps ==
    ASSUME IInv, NEW p \in DOMAIN ptys, ShellExits(p)
    PROVE  IInv'
  <1>1. /\ UNCHANGED <<KeyOf, pending, sessions, net, handshakers, completed>>
        /\ ptys' = [ptys EXCEPT ![p].state = "exited"]
    BY DEF ShellExits
  <1>2. ptys \in Seq(Ptys) /\ Len(ptys) \in Nat /\ p \in 1 .. Len(ptys) /\ ptys[p] \in Ptys
    BY DEF IInv, LifecycleTypeOK
  <1>3. [ptys[p] EXCEPT !.state = "exited"] \in Ptys
    BY <1>2 DEF Ptys
  <1>4. ptys' \in Seq(Ptys) /\ Len(ptys') = Len(ptys)
    BY <1>1, <1>2, <1>3
  <1>5. \A q \in 1 .. Len(ptys) :
            /\ ptys'[q].key = ptys[q].key
            /\ ptys'[q].state = "running" => ptys[q].state = "running"
    <2>1. \A q \in 1 .. Len(ptys) : ptys'[q] = IF q = p THEN [ptys[p] EXCEPT !.state = "exited"] ELSE ptys[q]
      BY <1>1, <1>2
    <2>2. [ptys[p] EXCEPT !.state = "exited"].key = ptys[p].key
      BY <1>2 DEF Ptys
    <2>3. [ptys[p] EXCEPT !.state = "exited"].state = "exited"
      BY <1>2 DEF Ptys
    <2>4. QED
      BY <2>1, <2>2, <2>3, Zenon
  <1>6. LifecycleTypeOK' /\ NotShared' /\ Handshakes'
    <2>1. LifecycleTypeOK'
      BY <1>1, <1>4 DEF IInv, LifecycleTypeOK
    <2>2. NotShared' /\ Handshakes'
      BY <1>1, Zenon DEF IInv, NotShared, Handshakes
    <2>3. QED
      BY <2>1, <2>2
  <1>7. Owners' /\ NotOrphaned'
    BY <1>1, <1>4, <1>5 DEF IInv, Owners, NotOrphaned
  <1>8. QED
    BY <1>6, <1>7 DEF IInv

LEMMA NextIInv == IInv /\ [Next]_vars => IInv'
  <1> SUFFICES ASSUME IInv, [Next]_vars PROVE IInv'
    OBVIOUS
  <1>1. CASE UNCHANGED vars
    BY <1>1 DEF vars, IInv, LifecycleTypeOK, Owners, NotShared, NotOrphaned, Handshakes
  <1>2. CASE Next
    BY <1>2, ClientKeeps, HandleHandshakeKeeps, HandleTransportKeeps, TickKeeps, ShellExitsKeeps
       DEF Next, ServerNext
  <1>3. QED
    BY <1>1, <1>2

LEMMA LifecycleIInv == Spec => []IInv
  BY InitIInv, NextIInv, PTL DEF Spec

\* A running shell has exactly one session, of the authorized key it was spawned for,
\* for any number of clients that share keys as they like.
THEOREM LifecycleShellsOwned == Spec => []ShellsOwned
  <1>1. IInv => ShellsOwned
    <2> SUFFICES ASSUME IInv PROVE ShellsOwned
      OBVIOUS
    <2>1. DOMAIN ptys = 1 .. Len(ptys) /\ Len(ptys) \in Nat
      BY DEF IInv, LifecycleTypeOK
    <2>2. ShellOwnedOnce
      <3> SUFFICES ASSUME NEW p \in 1 .. Len(ptys), Running(p)
                   PROVE  \E c \in Clients : /\ sessions[c].pty = p
                                             /\ \A k \in Clients \ {c} : sessions[k].pty # p
        BY <2>1 DEF ShellOwnedOnce
      <3>1. PICK c \in Clients : sessions[c].pty = p
        BY DEF IInv, NotOrphaned, Running
      <3>2. p # NoPty
        BY <2>1 DEF NoPty
      <3>3. QED
        BY <3>1, <3>2 DEF IInv, NotShared
    <2>3. ShellStaysWithKey
      BY DEF IInv, Owners, ShellStaysWithKey
    <2>4. QED
      BY <2>2, <2>3 DEF ShellsOwned
  <1>2. QED
    BY <1>1, LifecycleIInv, PTL

\* The last message of a handshake always finds its handshaker, or one that finished.
THEOREM LifecycleHandshakeNotSpoilt == Spec => []HandshakeNotSpoilt
  <1>1. IInv => HandshakeNotSpoilt
    BY DEF IInv, Handshakes, HandshakeNotSpoilt, Ways
  <1>2. QED
    BY <1>1, LifecycleIInv, PTL

-----------------------------------------------------------------------------
\* The emulator.

GridFields ==
    {"rows", "cols", "cells", "row", "col", "autowrap", "wrap_pending", "scroll_top", "scroll_bottom",
     "saved", "alt_screen", "alt_saved", "oob"}

\* A grid on which every call is in range.
GridOK(g) ==
    /\ DOMAIN g = GridFields /\ g.oob = FALSE
    /\ g.rows \in Nat \ {0} /\ g.cols \in Nat \ {0, 1}
    /\ g.row \in 0 .. g.rows - 1 /\ g.col \in 0 .. g.cols - 1
    /\ g.scroll_top \in 0 .. g.scroll_bottom /\ g.scroll_bottom \in 0 .. g.rows - 1
    /\ DOMAIN g.cells = 0 .. g.rows * g.cols - 1
    /\ g.alt_screen \in BOOLEAN
    /\ g.alt_screen => DOMAIN g.alt_saved = DOMAIN g.cells
    /\ g.saved = <<>> \/ (g.saved[1] \in Nat /\ g.saved[2] \in Nat)

\* The grid is in order, and what was saved of the main screen is the main screen.
EmulatorIInv == GridOK(grid) /\ (grid.alt_screen => grid.alt_saved = main)

\* A call that leaves the sizes, the region and the other screen alone.
SameScreen(g, h) ==
    /\ h.rows = g.rows /\ h.cols = g.cols
    /\ h.scroll_top = g.scroll_top /\ h.scroll_bottom = g.scroll_bottom
    /\ h.alt_screen = g.alt_screen /\ h.alt_saved = g.alt_saved

Keeps(g, h) == GridOK(h) /\ SameScreen(g, h)

\* The cursor and the region lie on the screen.
LEMMA GridBounds ==
  ASSUME NEW g, GridOK(g)
  PROVE  /\ g.rows \in Nat \ {0} /\ g.cols \in Nat \ {0, 1}
         /\ g.row \in 0 .. g.rows - 1 /\ g.col \in 0 .. g.cols - 1
         /\ g.scroll_top \in 0 .. g.scroll_bottom /\ g.scroll_bottom \in 0 .. g.rows - 1
  BY Zenon DEF GridOK

\* Calls one after the other.
LEMMA KeepsTransitive ==
  ASSUME NEW g, NEW h, NEW k, Keeps(g, h), Keeps(h, k)
  PROVE  Keeps(g, k)
  BY DEF Keeps, SameScreen

\* The cursor may be put anywhere on the screen.
LEMMA CursorKeeps ==
  ASSUME NEW g, GridOK(g)
  PROVE  /\ \A row \in 0 .. g.rows - 1 : /\ Keeps(g, [g EXCEPT !.row = row])
                                         /\ [g EXCEPT !.row = row].col = g.col
         /\ \A col \in 0 .. g.cols - 1 : /\ Keeps(g, [g EXCEPT !.col = col])
                                         /\ [g EXCEPT !.col = col].col = col
  BY DEF GridOK, GridFields, Keeps, SameScreen

\* The flags and the saved cursor do not matter for what is in range.
LEMMA FlagsKeep ==
  ASSUME NEW g, GridOK(g), NEW b
  PROVE  /\ Keeps(g, [g EXCEPT !.wrap_pending = b])
         /\ Keeps(g, [g EXCEPT !.autowrap = b])
  BY DEF GridOK, GridFields, Keeps, SameScreen

\* Any screen of the same size.
LEMMA CellsKeep ==
  ASSUME NEW g, GridOK(g), NEW cells, DOMAIN cells = DOMAIN g.cells
  PROVE  /\ Keeps(g, [g EXCEPT !.cells = cells])
         /\ [g EXCEPT !.cells = cells].row = g.row /\ [g EXCEPT !.cells = cells].col = g.col
  BY DEF GridOK, GridFields, Keeps, SameScreen

\* A cell on the screen has an index among the cells (grid.rs:62-65).
LEMMA IdxInRange ==
  ASSUME NEW g, GridOK(g), NEW row \in 0 .. g.rows - 1, NEW col \in 0 .. g.cols - 1
  PROVE  Idx(g, row, col) \in DOMAIN g.cells
  <1>1. row \in Nat /\ col \in Nat /\ g.rows \in Nat /\ g.cols \in Nat /\ row < g.rows /\ col < g.cols
    BY DEF GridOK
  <1>2. \A r, c, m, n \in Nat : r < m /\ c < n => r * n + c \in 0 .. m * n - 1
    <2> SUFFICES ASSUME NEW r \in Nat, NEW c \in Nat, NEW m \in Nat, NEW n \in Nat, r < m, c < n
                 PROVE  r * n + c \in 0 .. m * n - 1
      OBVIOUS
    <2>1. r + 1 <= m
      OBVIOUS
    <2>2. (r + 1) * n <= m * n
      BY <2>1
    <2>3. (r + 1) * n = r * n + n /\ r * n \in Nat /\ m * n \in Nat
      OBVIOUS
    <2>4. QED
      BY <2>2, <2>3
  <1>3. QED
    BY <1>1, <1>2, Zenon DEF GridOK, Idx

\* One call to write a cell.
LEMMA StoreKeeps ==
  ASSUME NEW g, GridOK(g), NEW i \in DOMAIN g.cells, NEW ch
  PROVE  /\ Keeps(g, Store(g, i, ch))
         /\ Store(g, i, ch).row = g.row /\ Store(g, i, ch).col = g.col
         /\ DOMAIN Store(g, i, ch).cells = DOMAIN g.cells
  <1>1. Store(g, i, ch) = [g EXCEPT !.cells = [g.cells EXCEPT ![i] = ch]]
    BY DEF Store, GridOK
  <1>2. PICK cells : cells = [g.cells EXCEPT ![i] = ch]
    BY Zenon
  <1>3. DOMAIN cells = DOMAIN g.cells
    BY <1>2
  <1>4. Store(g, i, ch).cells = cells
    BY <1>1, <1>2 DEF GridOK, GridFields
  <1>5. QED
    BY <1>1, <1>2, <1>3, <1>4, CellsKeep

\* Scrolling moves lines within the screen.
LEMMA ScrollKeeps ==
  ASSUME NEW g, GridOK(g), NEW n
  PROVE  /\ Keeps(g, ScrollUp(g, n)) /\ ScrollUp(g, n).col = g.col
         /\ Keeps(g, ScrollDown(g, n)) /\ ScrollDown(g, n).col = g.col
  <1>1. \E cells : DOMAIN cells = DOMAIN g.cells /\ ScrollUp(g, n) = [g EXCEPT !.cells = cells]
    BY Zenon DEF ScrollUp, Redrawn
  <1>2. \E cells : DOMAIN cells = DOMAIN g.cells /\ ScrollDown(g, n) = [g EXCEPT !.cells = cells]
    BY Zenon DEF ScrollDown, Redrawn
  <1>3. QED
    BY <1>1, <1>2, CellsKeep

\* A line feed scrolls or goes down, and stays in its column.
LEMMA LineFeedKeeps ==
  ASSUME NEW g, GridOK(g)
  PROVE  Keeps(g, LineFeed(g)) /\ LineFeed(g).col = g.col
  <1>1. CASE g.row = g.scroll_bottom
    BY <1>1, ScrollKeeps DEF LineFeed
  <1>2. CASE g.row # g.scroll_bottom /\ g.row + 1 < g.rows
    <2>1. g.row + 1 \in 0 .. g.rows - 1
      BY <1>2 DEF GridOK
    <2>2. QED
      BY <1>2, <2>1, CursorKeeps DEF LineFeed
  <1>3. CASE g.row # g.scroll_bottom /\ ~(g.row + 1 < g.rows)
    BY <1>3 DEF LineFeed, Keeps, SameScreen
  <1>4. QED
    BY <1>1, <1>2, <1>3

\* A reverse index scrolls or goes up.
LEMMA ReverseIndexKeeps == ASSUME NEW g, GridOK(g) PROVE Keeps(g, ReverseIndex(g))
  <1>1. CASE g.row = g.scroll_top
    BY <1>1, ScrollKeeps DEF ReverseIndex
  <1>2. CASE g.row # g.scroll_top /\ g.row > 0
    <2>1. g.row - 1 \in 0 .. g.rows - 1
      BY <1>2, GridBounds
    <2>2. QED
      BY <1>2, <2>1, CursorKeeps DEF ReverseIndex
  <1>3. CASE g.row # g.scroll_top /\ ~(g.row > 0)
    BY <1>3 DEF ReverseIndex, Keeps, SameScreen
  <1>4. QED
    BY <1>1, <1>2, <1>3

\* Inserting and deleting lines puts the region back as it was (grid.rs:296-314).
LEMMA LinesKeep ==
  ASSUME NEW g, GridOK(g), NEW n
  PROVE  Keeps(g, InsertLines(g, n)) /\ Keeps(g, DeleteLines(g, n))
  <1>1. CASE g.row \notin g.scroll_top .. g.scroll_bottom
    BY <1>1 DEF InsertLines, DeleteLines, LinesAtCursor, Keeps, SameScreen
  <1>2. CASE g.row \in g.scroll_top .. g.scroll_bottom
    <2> DEFINE h == [g EXCEPT !.scroll_top = g.row]
    <2>1. GridOK(h) /\ h.rows = g.rows /\ h.cols = g.cols /\ h.scroll_bottom = g.scroll_bottom
          /\ h.alt_screen = g.alt_screen /\ h.alt_saved = g.alt_saved
      BY <1>2 DEF GridOK, GridFields
    <2> HIDE DEF h
    <2>2. ASSUME NEW k, Keeps(h, k) PROVE Keeps(g, [k EXCEPT !.scroll_top = g.scroll_top])
      <3>1. g.scroll_top \in 0 .. k.scroll_bottom
        BY <2>1, <2>2 DEF GridOK, Keeps, SameScreen
      <3>2. GridOK([k EXCEPT !.scroll_top = g.scroll_top])
        BY <2>2, <3>1 DEF Keeps, GridOK, GridFields
      <3>3. SameScreen(g, [k EXCEPT !.scroll_top = g.scroll_top])
        BY <2>1, <2>2 DEF Keeps, GridOK, GridFields, SameScreen
      <3>4. QED
        BY <3>2, <3>3 DEF Keeps
    <2>3. Keeps(h, ScrollDown(h, n)) /\ Keeps(h, ScrollUp(h, n))
      BY <2>1, ScrollKeeps
    <2>4. /\ InsertLines(g, n) = [ScrollDown(h, n) EXCEPT !.scroll_top = g.scroll_top]
          /\ DeleteLines(g, n) = [ScrollUp(h, n) EXCEPT !.scroll_top = g.scroll_top]
      BY <1>2 DEF InsertLines, DeleteLines, LinesAtCursor, h
    <2>5. QED
      BY <2>2, <2>3, <2>4
  <1>3. QED
    BY <1>1, <1>2

\* A pending wrap is a line feed from the first column.
LEMMA UnwrappedKeeps == ASSUME NEW g, GridOK(g) PROVE Keeps(g, Unwrapped(g))
  <1>1. CASE ~(g.wrap_pending /\ g.autowrap)
    BY <1>1 DEF Unwrapped, Keeps, SameScreen
  <1>2. CASE g.wrap_pending /\ g.autowrap
    <2>1. PICK h : h = [g EXCEPT !.col = 0]
      BY Zenon
    <2>2. Keeps(g, h)
      <3>1. 0 \in 0 .. g.cols - 1
        BY DEF GridOK
      <3>2. QED
        BY <2>1, <3>1, CursorKeeps, Zenon
    <2>3. Keeps(h, LineFeed(h))
      BY <2>2, LineFeedKeeps DEF Keeps
    <2>4. Keeps(LineFeed(h), [LineFeed(h) EXCEPT !.wrap_pending = FALSE])
      BY <2>3, FlagsKeep, Zenon DEF Keeps
    <2>5. Keeps(g, [LineFeed(h) EXCEPT !.wrap_pending = FALSE])
      BY <2>2, <2>3, <2>4, KeepsTransitive
    <2>6. QED
      BY <1>2, <2>1, <2>5 DEF Unwrapped
  <1>3. QED
    BY <1>1, <1>2

\* A wide character has room for both halves.
LEMMA FittedKeeps ==
  ASSUME NEW g, GridOK(g), NEW ch
  PROVE  /\ Keeps(g, Fitted(g, ch))
         /\ Width(ch) = 2 => Fitted(g, ch).col + 1 < Fitted(g, ch).cols
  <1>1. CASE ~(Width(ch) = 2 /\ g.col + 1 >= g.cols)
    <2>1. Fitted(g, ch) = g
      BY <1>1 DEF Fitted
    <2>2. Width(ch) = 2 => g.col + 1 < g.cols
      BY <1>1, GridBounds
    <2>3. QED
      BY <2>1, <2>2 DEF Keeps, SameScreen
  <1>2. CASE Width(ch) = 2 /\ g.col + 1 >= g.cols
    <2>1. 0 \in 0 .. g.cols - 1 /\ Greater(g.cols - 2, 0) \in 0 .. g.cols - 1
          /\ Greater(g.cols - 2, 0) + 1 < g.cols /\ 0 + 1 < g.cols
      BY GridBounds DEF Greater
    <2>2. PICK h : h = IF g.autowrap THEN LineFeed([g EXCEPT !.col = 0])
                       ELSE [g EXCEPT !.col = Greater(g.cols - 2, 0)]
      BY Zenon
    <2>3. Keeps(g, h) /\ h.col + 1 < g.cols
      <3>1. CASE g.autowrap
        <4>1. PICK k : k = [g EXCEPT !.col = 0]
          BY Zenon
        <4>2. Keeps(g, k) /\ k.col = 0
          BY <2>1, <4>1, CursorKeeps, Zenon
        <4>3. Keeps(k, LineFeed(k)) /\ LineFeed(k).col = k.col
          BY <4>2, LineFeedKeeps DEF Keeps
        <4>4. QED
          BY <2>1, <2>2, <3>1, <4>1, <4>2, <4>3, KeepsTransitive
      <3>2. CASE ~g.autowrap
        BY <2>1, <2>2, <3>2, CursorKeeps
      <3>3. QED
        BY <3>1, <3>2
    <2>4. Fitted(g, ch) = [h EXCEPT !.wrap_pending = FALSE]
      BY <1>2, <2>2 DEF Fitted
    <2>5. Keeps(h, [h EXCEPT !.wrap_pending = FALSE])
      BY <2>3, FlagsKeep, Zenon DEF Keeps
    <2>6. [h EXCEPT !.wrap_pending = FALSE].col = h.col /\ [h EXCEPT !.wrap_pending = FALSE].cols = g.cols
      BY <2>3 DEF Keeps, GridOK, GridFields, SameScreen
    <2>7. QED
      BY <2>3, <2>4, <2>5, <2>6, KeepsTransitive
  <1>3. QED
    BY <1>1, <1>2

\* The cursor after a character stays on its line.
LEMMA AdvancedKeeps ==
  ASSUME NEW g, GridOK(g), NEW w \in {1, 2}
  PROVE  Keeps(g, Advanced(g, w))
  <1>1. CASE g.col + w < g.cols
    <2>1. g.col + w \in 0 .. g.cols - 1
      BY <1>1, GridBounds
    <2>2. QED
      BY <1>1, <2>1, CursorKeeps DEF Advanced
  <1>2. CASE ~(g.col + w < g.cols) /\ g.autowrap
    BY <1>2, FlagsKeep, Zenon DEF Advanced
  <1>3. CASE ~(g.col + w < g.cols) /\ ~g.autowrap /\ w = 2
    <2>1. g.cols - 1 \in 0 .. g.cols - 1
      BY GridBounds
    <2>2. QED
      BY <1>3, <2>1, CursorKeeps DEF Advanced
  <1>4. CASE ~(g.col + w < g.cols) /\ ~g.autowrap /\ w # 2
    BY <1>4 DEF Advanced, Keeps, SameScreen
  <1>5. QED
    BY <1>1, <1>2, <1>3, <1>4

\* put_char writes on the screen, whatever is pending (grid.rs:104-170).
LEMMA PutCharKeeps == ASSUME NEW g, GridOK(g), NEW ch PROVE Keeps(g, PutChar(g, ch))
  <1>1. Width(ch) \in {0, 1, 2}
    BY DEF Width
  <1>2. PICK at : at = Fitted(Unwrapped(g), ch)
    OBVIOUS
  <1>3. Keeps(g, at) /\ (Width(ch) = 2 => at.col + 1 < at.cols)
    <2>1. Keeps(g, Unwrapped(g))
      BY UnwrappedKeeps
    <2>2. Keeps(Unwrapped(g), at) /\ (Width(ch) = 2 => at.col + 1 < at.cols)
      BY <1>2, <2>1, FittedKeeps DEF Keeps
    <2>3. QED
      BY <2>1, <2>2, KeepsTransitive
  <1>4. GridOK(at) /\ at.row \in 0 .. at.rows - 1 /\ at.col \in 0 .. at.cols - 1
    BY <1>3 DEF Keeps, GridOK
  <1>5. PICK i : i = Idx(at, at.row, at.col)
    OBVIOUS
  <1>6. i \in DOMAIN at.cells
    BY <1>4, <1>5, IdxInRange
  <1>7. PICK h : h = Store(at, i, ch)
    OBVIOUS
  <1>8. Keeps(at, h) /\ DOMAIN h.cells = DOMAIN at.cells
    BY <1>4, <1>6, <1>7, StoreKeeps
  <1>9. CASE Width(ch) = 0
    BY <1>9 DEF PutChar, Keeps, SameScreen
  <1>10. CASE Width(ch) = 1
    <2>1. PutChar(g, ch) = Advanced(h, 1)
      BY <1>2, <1>5, <1>7, <1>10 DEF PutChar
    <2>2. Keeps(h, Advanced(h, 1))
      BY <1>8, AdvancedKeeps DEF Keeps
    <2>3. QED
      BY <1>3, <1>8, <2>1, <2>2, KeepsTransitive
  <1>11. CASE Width(ch) = 2
    <2>1. PICK k : k = Store(h, i + 1, Spacer)
      OBVIOUS
    <2>2. PutChar(g, ch) = Advanced(k, 2)
      BY <1>2, <1>5, <1>7, <1>11, <2>1 DEF PutChar
    <2>3. i + 1 \in DOMAIN h.cells
      <3>1. at.rows \in Nat /\ at.cols \in Nat
        BY <1>4 DEF GridOK
      <3>2. at.row \in Nat /\ at.col \in Nat /\ at.row * at.cols \in Nat
        BY <1>4, <3>1
      <3>3. at.col + 1 \in 0 .. at.cols - 1
        BY <1>3, <1>11, <3>1, <3>2
      <3>4. Idx(at, at.row, at.col + 1) \in DOMAIN at.cells
        BY <1>4, <3>3, IdxInRange
      <3>5. Idx(at, at.row, at.col + 1) = i + 1
        <4>1. i = at.row * at.cols + at.col
          BY <1>5 DEF Idx
        <4>2. Idx(at, at.row, at.col + 1) = at.row * at.cols + (at.col + 1)
          BY DEF Idx
        <4>3. QED
          BY <3>2, <4>1, <4>2
      <3>6. QED
        BY <1>8, <3>4, <3>5
    <2>4. Keeps(h, k)
      BY <1>8, <2>1, <2>3, StoreKeeps DEF Keeps
    <2>5. Keeps(k, Advanced(k, 2))
      BY <2>4, AdvancedKeeps DEF Keeps
    <2>6. QED
      BY <1>3, <1>8, <2>2, <2>4, <2>5, KeepsTransitive
  <1>12. QED
    BY <1>1, <1>9, <1>10, <1>11

\* Cursor motions, the line the cursor was saved on included, end on the screen.
LEMMA MotionKeeps ==
  ASSUME NEW g, GridOK(g)
  PROVE  /\ \A row, col \in Nat : Keeps(g, MoveTo(g, row, col))
         /\ Keeps(g, CarriageReturn(g)) /\ Keeps(g, Backspace(g)) /\ Keeps(g, Tab(g))
         /\ Keeps(g, CursorUp(g, 1)) /\ Keeps(g, CursorDown(g, 1))
         /\ Keeps(g, CursorForward(g, 1)) /\ Keeps(g, CursorBack(g, 1))
         /\ Keeps(g, NextLine(g)) /\ Keeps(g, SaveCursor(g)) /\ Keeps(g, RestoreCursor(g))
  <1>1. /\ g.rows \in Nat \ {0} /\ g.cols \in Nat \ {0, 1} /\ g.row \in 0 .. g.rows - 1
        /\ g.col \in 0 .. g.cols - 1
    BY DEF GridOK
  <1>2. \A n \in Nat : /\ Lesser(n, g.rows - 1) \in 0 .. g.rows - 1
                       /\ Lesser(n, g.cols - 1) \in 0 .. g.cols - 1
    BY <1>1 DEF Lesser
  <1>3. /\ \A row \in 0 .. g.rows - 1, col \in 0 .. g.cols - 1 :
             /\ Keeps(g, [g EXCEPT !.row = row, !.col = col, !.wrap_pending = FALSE])
             /\ Keeps(g, [g EXCEPT !.row = row, !.col = col])
        /\ \A row \in 0 .. g.rows - 1 : Keeps(g, [g EXCEPT !.row = row, !.wrap_pending = FALSE])
        /\ \A col \in 0 .. g.cols - 1 : Keeps(g, [g EXCEPT !.col = col, !.wrap_pending = FALSE])
    BY DEF GridOK, GridFields, Keeps, SameScreen
  <1>4. \A row, col \in Nat : Keeps(g, MoveTo(g, row, col))
    BY <1>2, <1>3, Zenon DEF MoveTo
  <1>5. 0 \in 0 .. g.cols - 1 /\ g.col - 1 \in Int
    BY <1>1
  <1>6. Keeps(g, CarriageReturn(g))
    BY <1>3, <1>5, Zenon DEF CarriageReturn
  <1>7. Keeps(g, CursorBack(g, 1)) /\ Keeps(g, Backspace(g))
    <2>1. Greater(g.col - 1, 0) \in 0 .. g.cols - 1
      BY <1>1 DEF Greater
    <2>2. QED
      BY <1>3, <2>1, Zenon DEF CursorBack, Backspace
  <1>8. Keeps(g, Tab(g))
    <2>1. ((g.col \div 8) + 1) * 8 \in Nat
      BY <1>1
    <2>2. QED
      BY <1>2, <2>1, CursorKeeps DEF Tab
  <1>9. Keeps(g, CursorUp(g, 1))
    <2>1. Greater(g.row - 1, 0) \in 0 .. g.rows - 1
      BY <1>1 DEF Greater
    <2>2. QED
      BY <1>3, <2>1, Zenon DEF CursorUp
  <1>10. Keeps(g, CursorDown(g, 1)) /\ Keeps(g, CursorForward(g, 1))
    <2>1. g.row + 1 \in Nat /\ g.col + 1 \in Nat
      BY <1>1
    <2>2. Lesser(g.row + 1, g.rows - 1) \in 0 .. g.rows - 1 /\ Lesser(g.col + 1, g.cols - 1) \in 0 .. g.cols - 1
      BY <1>2, <2>1
    <2>3. QED
      BY <1>3, <2>2, Zenon DEF CursorDown, CursorForward
  <1>11. Keeps(g, NextLine(g))
    <2>1. PICK h : h = [g EXCEPT !.col = 0]
      BY Zenon
    <2>2. Keeps(g, h)
      BY <1>5, <2>1, CursorKeeps
    <2>3. Keeps(h, LineFeed(h))
      BY <2>2, LineFeedKeeps DEF Keeps
    <2>4. QED
      BY <2>1, <2>2, <2>3, KeepsTransitive DEF NextLine
  <1>12. Keeps(g, SaveCursor(g))
    <2>1. g.row \in Nat /\ g.col \in Nat
      BY <1>1
    <2>2. QED
      BY <2>1 DEF SaveCursor, GridOK, GridFields, Keeps, SameScreen
  <1>13. Keeps(g, RestoreCursor(g))
    <2>1. CASE g.saved = <<>>
      BY <2>1 DEF RestoreCursor, Keeps, SameScreen
    <2>2. CASE g.saved # <<>>
      <3>1. g.saved[1] \in Nat /\ g.saved[2] \in Nat
        BY <2>2 DEF GridOK
      <3>2. QED
        BY <1>2, <1>3, <2>2, <3>1, Zenon DEF RestoreCursor
    <2>3. QED
      BY <2>1, <2>2
  <1>14. QED
    BY <1>4, <1>6, <1>7, <1>8, <1>9, <1>10, <1>11, <1>12, <1>13

\* Erasing and shifting change cells only.
LEMMA EraseKeeps ==
  ASSUME NEW g, GridOK(g), NEW x
  PROVE  /\ Keeps(g, EraseInDisplay(g, x)) /\ Keeps(g, EraseInLine(g, x))
         /\ Keeps(g, InsertBlankChars(g, x)) /\ Keeps(g, DeleteChars(g, x))
  <1>1. \E cells : DOMAIN cells = DOMAIN g.cells /\ EraseInDisplay(g, x) = [g EXCEPT !.cells = cells]
    BY Zenon DEF EraseInDisplay, GridOK
  <1>2. \E cells : DOMAIN cells = DOMAIN g.cells /\ EraseInLine(g, x) = [g EXCEPT !.cells = cells]
    BY Zenon DEF EraseInLine, Redrawn
  <1>3. \E cells : DOMAIN cells = DOMAIN g.cells /\ InsertBlankChars(g, x) = [g EXCEPT !.cells = cells]
    BY Zenon DEF InsertBlankChars, Redrawn
  <1>4. \E cells : DOMAIN cells = DOMAIN g.cells /\ DeleteChars(g, x) = [g EXCEPT !.cells = cells]
    BY Zenon DEF DeleteChars, Redrawn
  <1>5. QED
    BY <1>1, <1>2, <1>3, <1>4, CellsKeep

\* A region inside the screen.
LEMMA SetRegionKeeps ==
  ASSUME NEW g, GridOK(g), NEW top \in Nat, NEW bottom \in Nat
  PROVE  /\ GridOK(SetRegion(g, top, bottom))
         /\ SetRegion(g, top, bottom).alt_screen = g.alt_screen
         /\ SetRegion(g, top, bottom).alt_saved = g.alt_saved
  <1>1. CASE ~(top < bottom /\ bottom < g.rows)
    BY <1>1 DEF SetRegion
  <1>2. CASE top < bottom /\ bottom < g.rows
    <2>1. PICK h : h = [g EXCEPT !.scroll_top = top, !.scroll_bottom = bottom]
      OBVIOUS
    <2>2. top \in 0 .. bottom /\ bottom \in 0 .. g.rows - 1
      BY <1>2 DEF GridOK
    <2>3. GridOK(h) /\ h.alt_screen = g.alt_screen /\ h.alt_saved = g.alt_saved
      BY <2>1, <2>2 DEF GridOK, GridFields
    <2>4. Keeps(h, MoveTo(h, 0, 0))
      BY <2>3, MotionKeeps
    <2>5. QED
      BY <1>2, <2>1, <2>3, <2>4 DEF SetRegion, Keeps, SameScreen
  <1>3. QED
    BY <1>1, <1>2

\* A new grid, of any size with room for a wide character.
LEMMA NewGridOK ==
  ASSUME NEW rows \in Nat \ {0}, NEW cols \in Nat \ {0, 1}
  PROVE  GridOK(New(rows, cols)) /\ New(rows, cols).alt_screen = FALSE
  <1>1. DOMAIN Blanks(rows, cols) = 0 .. rows * cols - 1
    BY DEF Blanks
  <1>2. /\ 0 \in 0 .. rows - 1 /\ 0 \in 0 .. cols - 1 /\ rows - 1 \in 0 .. rows - 1
        /\ 0 \in 0 .. rows - 1
    OBVIOUS
  <1>3. QED
    BY <1>1, <1>2, Zenon DEF New, GridOK, GridFields

\* The alternate screen has the size of the main one, which is saved.
LEMMA EnterAltOK ==
  ASSUME NEW g, GridOK(g), g.alt_screen = FALSE
  PROVE  GridOK(EnterAltScreen(g)) /\ EnterAltScreen(g).alt_saved = g.cells
  <1>1. PICK blanks : blanks = Blanks(g.rows, g.cols)
    OBVIOUS
  <1>2. DOMAIN blanks = 0 .. g.rows * g.cols - 1
    BY <1>1 DEF Blanks
  <1>3. PICK h : h = [g EXCEPT !.alt_screen = TRUE, !.alt_saved = g.cells, !.cells = blanks]
    OBVIOUS
  <1>4. GridOK(h) /\ h.alt_saved = g.cells
    BY <1>2, <1>3 DEF GridOK, GridFields
  <1>5. Keeps(h, MoveTo(h, 0, 0))
    BY <1>4, MotionKeeps
  <1>6. EnterAltScreen(g) = MoveTo(h, 0, 0)
    BY <1>1, <1>3 DEF EnterAltScreen
  <1>7. QED
    BY <1>4, <1>5, <1>6 DEF Keeps, SameScreen

\* Leaving it, the cells are the saved ones.
LEMMA LeaveAltOK ==
  ASSUME NEW g, GridOK(g)
  PROVE  /\ GridOK(LeaveAltScreen(g)) /\ LeaveAltScreen(g).alt_screen = FALSE
         /\ g.alt_screen => LeaveAltScreen(g).cells = g.alt_saved
  <1>1. CASE g.alt_screen
    <2>1. PICK cells : cells = g.alt_saved
      OBVIOUS
    <2>2. DOMAIN cells = DOMAIN g.cells
      BY <1>1, <2>1 DEF GridOK
    <2>3. LeaveAltScreen(g) = [g EXCEPT !.alt_screen = FALSE, !.cells = cells, !.alt_saved = <<>>]
      BY <1>1, <2>1 DEF LeaveAltScreen
    <2>4. QED
      BY <2>1, <2>2, <2>3 DEF GridOK, GridFields
  <1>2. CASE ~g.alt_screen
    BY <1>2 DEF LeaveAltScreen, GridOK
  <1>3. QED
    BY <1>1, <1>2, Zenon

\* A resize cuts both screens alike (grid.rs:428-492).
LEMMA ResizeOK ==
  ASSUME NEW g, GridOK(g), NEW rows \in Nat \ {0}, NEW cols \in Nat \ {0, 1}
  PROVE  /\ GridOK(Resize(g, rows, cols)) /\ Resize(g, rows, cols).alt_screen = g.alt_screen
         /\ g.alt_screen => Resize(g, rows, cols).alt_saved = Recut(g, g.alt_saved, rows, cols)
  <1>1. PICK cells, saved : /\ cells = Recut(g, g.cells, rows, cols)
                            /\ saved = IF g.alt_screen THEN Recut(g, g.alt_saved, rows, cols) ELSE g.alt_saved
    OBVIOUS
  <1>2. DOMAIN cells = 0 .. rows * cols - 1 /\ (g.alt_screen => DOMAIN saved = 0 .. rows * cols - 1)
    BY <1>1 DEF Recut
  <1>3. PICK row, col : row = Lesser(g.row, rows - 1) /\ col = Lesser(g.col, cols - 1)
    OBVIOUS
  <1>4. row \in 0 .. rows - 1 /\ col \in 0 .. cols - 1 /\ rows - 1 \in 0 .. rows - 1 /\ 0 \in 0 .. rows - 1
    BY <1>3, GridBounds DEF Lesser
  <1>5. Resize(g, rows, cols) =
            [g EXCEPT !.cells = cells, !.alt_saved = saved, !.rows = rows, !.cols = cols,
                      !.scroll_top = 0, !.scroll_bottom = rows - 1,
                      !.row = row, !.col = col, !.wrap_pending = FALSE]
    BY <1>1, <1>3 DEF Resize, GridOK, GridFields
  <1>6. PICK h : h = Resize(g, rows, cols)
    OBVIOUS
  <1>7. /\ DOMAIN h = DOMAIN g /\ h.oob = g.oob /\ h.saved = g.saved /\ h.alt_screen = g.alt_screen
        /\ h.cells = cells /\ h.alt_saved = saved /\ h.rows = rows /\ h.cols = cols
        /\ h.scroll_top = 0 /\ h.scroll_bottom = rows - 1 /\ h.row = row /\ h.col = col
    BY <1>5, <1>6 DEF GridOK, GridFields
  <1>8. /\ DOMAIN g = GridFields /\ g.oob = FALSE /\ g.alt_screen \in BOOLEAN
        /\ g.saved = <<>> \/ (g.saved[1] \in Nat /\ g.saved[2] \in Nat)
    BY Zenon DEF GridOK
  <1>9. GridOK(h)
    BY <1>2, <1>4, <1>7, <1>8, Zenon DEF GridOK
  <1>10. QED
    BY <1>1, <1>6, <1>7, <1>9, Zenon

\* The sizes a terminal may have: a wide character needs two columns.
TerminalSizes == (Nat \ {0}) \X (Nat \ {0, 1})

\* Every call of a program and every resize keeps the invariant.
LEMMA EmulatorNextKeeps ==
  ASSUME NEW sizes \in SUBSET TerminalSizes, EmulatorIInv, [EmulatorNext(sizes)]_emulator
  PROVE  EmulatorIInv'
  <1>1. GridOK(grid) /\ grid.rows \in Nat \ {0} /\ grid.cols \in Nat \ {0, 1} /\ grid.row \in Nat /\ grid.col \in Nat
    BY DEF EmulatorIInv, GridOK
  <1>2. ASSUME NEW g, Keeps(grid, g), Step(g) PROVE EmulatorIInv'
    BY <1>2 DEF EmulatorIInv, Step, Keeps, SameScreen
  <1>3. CASE PrintGlyph
    BY <1>1, <1>2, <1>3, PutCharKeeps DEF PrintGlyph
  <1>4. CASE Execute
    BY <1>1, <1>2, <1>4, LineFeedKeeps, MotionKeeps DEF Execute
  <1>5. CASE CsiCursor
    <2>1. /\ Keeps(grid, CursorUp(grid, 1)) /\ Keeps(grid, CursorDown(grid, 1))
          /\ Keeps(grid, CursorForward(grid, 1)) /\ Keeps(grid, CursorBack(grid, 1))
      BY <1>1, MotionKeeps
    <2>2. ASSUME NEW row \in 0 .. grid.rows, NEW col \in 0 .. grid.cols
          PROVE  /\ Keeps(grid, MoveTo(grid, row, col)) /\ Keeps(grid, MoveTo(grid, grid.row, col))
                 /\ Keeps(grid, MoveTo(grid, row, grid.col))
      BY <1>1, MotionKeeps
    <2>3. QED
      BY <1>2, <1>5, <2>1, <2>2 DEF CsiCursor
  <1>6. CASE CsiErase
    BY <1>1, <1>2, <1>6, EraseKeeps DEF CsiErase
  <1>7. CASE CsiShift
    BY <1>1, <1>2, <1>7, EraseKeeps, LinesKeep, ScrollKeeps DEF CsiShift
  <1>8. CASE CsiRegion
    <2>1. PICK top \in 0 .. grid.rows, bottom \in 0 .. grid.rows : Step(SetRegion(grid, top, bottom))
      BY <1>8 DEF CsiRegion
    <2>2. top \in Nat /\ bottom \in Nat
      BY <1>1
    <2>3. PICK g : g = SetRegion(grid, top, bottom)
      OBVIOUS
    <2>4. GridOK(g) /\ g.alt_screen = grid.alt_screen /\ g.alt_saved = grid.alt_saved
      BY <1>1, <2>2, <2>3, SetRegionKeeps, Zenon
    <2>5. grid' = g /\ main' = main
      BY <2>1, <2>3 DEF Step
    <2>6. QED
      BY <2>4, <2>5 DEF EmulatorIInv
  <1>9. CASE Autowrap
    BY <1>1, <1>2, <1>9, FlagsKeep, Zenon DEF Autowrap
  <1>10. CASE EnterAlt
    <2>1. CASE grid.alt_screen
      BY <1>10, <2>1 DEF EnterAlt, EnterAltScreen, EmulatorIInv
    <2>2. CASE ~grid.alt_screen
      <3>1. grid.alt_screen = FALSE
        BY <1>1, <2>2 DEF GridOK
      <3>2. QED
        BY <1>1, <1>10, <2>2, <3>1, EnterAltOK, Zenon DEF EnterAlt, EmulatorIInv
    <2>3. QED
      BY <2>1, <2>2
  <1>11. CASE LeaveAlt
    BY <1>1, <1>11, LeaveAltOK, Zenon DEF LeaveAlt, Step, EmulatorIInv
  <1>12. CASE Esc
    <2>1. /\ Keeps(grid, ReverseIndex(grid)) /\ Keeps(grid, NextLine(grid))
          /\ Keeps(grid, SaveCursor(grid)) /\ Keeps(grid, RestoreCursor(grid))
      BY <1>1, MotionKeeps, ReverseIndexKeeps
    <2>2. ASSUME Step(New(grid.rows, grid.cols)) PROVE EmulatorIInv'
      BY <1>1, <2>2, NewGridOK, Zenon DEF Step, EmulatorIInv
    <2>3. QED
      BY <1>2, <1>12, <2>1, <2>2 DEF Esc
  <1>13. ASSUME NEW size \in sizes, ResizeTo(size) PROVE EmulatorIInv'
    <2>1. size[1] \in Nat \ {0} /\ size[2] \in Nat \ {0, 1}
      BY DEF TerminalSizes
    <2>2. PICK rows \in Nat \ {0}, cols \in Nat \ {0, 1} : rows = size[1] /\ cols = size[2]
      BY <2>1
    <2>3. /\ grid' = Resize(grid, rows, cols)
          /\ main' = IF grid.alt_screen THEN Recut(grid, main, rows, cols) ELSE main
      BY <1>13, <2>2 DEF ResizeTo
    <2>4. /\ GridOK(grid') /\ grid'.alt_screen = grid.alt_screen
          /\ grid.alt_screen => grid'.alt_saved = Recut(grid, grid.alt_saved, rows, cols)
      BY <1>1, <2>3, ResizeOK, Zenon
    <2>5. grid.alt_screen => grid.alt_saved = main
      BY DEF EmulatorIInv
    <2>6. QED
      BY <2>3, <2>4, <2>5 DEF EmulatorIInv
  <1>14. CASE UNCHANGED emulator
    BY <1>14 DEF emulator, EmulatorIInv
  <1>15. QED
    BY <1>3, <1>4, <1>5, <1>6, <1>7, <1>8, <1>9, <1>10, <1>11, <1>12, <1>13, <1>14
    DEF EmulatorNext, Output

\* The invariant holds of every behaviour.
LEMMA EmulatorInvariant ==
  ASSUME NEW sizes \in SUBSET TerminalSizes
  PROVE  EmulatorSpec(sizes) => []EmulatorIInv
  <1>1. (\E size \in sizes : EmulatorInit(size)) => EmulatorIInv
    <2> SUFFICES ASSUME NEW size \in sizes, EmulatorInit(size) PROVE EmulatorIInv
      OBVIOUS
    <2>1. size[1] \in Nat \ {0} /\ size[2] \in Nat \ {0, 1}
      BY DEF TerminalSizes
    <2>2. QED
      BY <2>1, NewGridOK, Zenon DEF EmulatorInit, EmulatorIInv
  <1>2. EmulatorIInv /\ [EmulatorNext(sizes)]_emulator => EmulatorIInv'
    BY EmulatorNextKeeps
  <1>3. QED
    BY <1>1, <1>2, PTL DEF EmulatorSpec

\* Whatever a program prints and whatever sizes the terminal is given, no call indexes
\* outside the cells (grid.rs:62-65, 104-334, 428-492).
THEOREM EmulatorNoIndexOutOfRange ==
  ASSUME NEW sizes \in SUBSET TerminalSizes
  PROVE  EmulatorSpec(sizes) => []NoIndexOutOfRange
  <1>1. EmulatorIInv => NoIndexOutOfRange
    <2> SUFFICES ASSUME GridOK(grid) PROVE NoIndexOutOfRange
      BY DEF EmulatorIInv
    <2>1. grid.scroll_bottom < grid.rows
      BY DEF GridOK
    <2>2. QED
      BY <2>1 DEF GridOK, NoIndexOutOfRange
  <1>2. QED
    BY <1>1, EmulatorInvariant, PTL

\* And leaving the alternate screen brings back the main one, at the size the terminal has
\* by then (grid.rs:316-334, 428-492).
THEOREM EmulatorMainScreenReturns ==
  ASSUME NEW sizes \in SUBSET TerminalSizes
  PROVE  EmulatorSpec(sizes) => MainScreenReturns
  <1>1. EmulatorIInv => [LeaveAlt /\ grid.alt_screen => grid'.cells = main]_emulator
    <2> SUFFICES ASSUME EmulatorIInv, LeaveAlt, grid.alt_screen PROVE grid'.cells = main
      OBVIOUS
    <2>1. QED
      BY LeaveAltOK, Zenon DEF LeaveAlt, Step, EmulatorIInv
  <1>2. QED
    BY <1>1, EmulatorInvariant, PTL DEF MainScreenReturns

=============================================================================
