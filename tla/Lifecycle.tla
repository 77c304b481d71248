----------------------------- MODULE Lifecycle -----------------------------
(***************************************************************************)
(* How sessions begin and end: the Noise XX handshake, the server's maps of *)
(* handshakes and sessions (src/server.rs, ServerCore), the shell a session *)
(* owns, reattaching, reaping, and the client's side of all that            *)
(* (src/client.rs, ClientCore and its drivers).                             *)
(*                                                                         *)
(* A client is one run of noissh.  It has a static key, which others may    *)
(* share, and a random session id, which names it here.  sessions and       *)
(* pending are total functions; an id that is not in the code's map has     *)
(* NoSession or 0.                                                         *)
(*                                                                         *)
(* net holds the datagrams sent.  Any of them may arrive next, late or      *)
(* never.  A handshake packet may arrive again and again, a transport       *)
(* packet once each time it is sent (module Session).                       *)
(***************************************************************************)
EXTENDS Naturals, Sequences, FiniteSets

CONSTANTS Clients, Keys,
          KeyMaps,                     \* who may have which key
          WantsShell,                  \* the clients that want a shell
          Authorized,                  \* authorized_keys
          MAX_PENDING_HANDSHAKES, EXIT_RETRANSMIT_TICKS, IDLE_REAP_TICKS,
          OPEN_SHELL_MAX_TICKS,
          MaxHandshakers, MaxPtys      \* bounds: handshakers and PTYs created

ASSUME LifecycleAssumption ==
    /\ KeyMaps \subseteq [Clients -> Keys] /\ WantsShell \subseteq Clients /\ Authorized \subseteq Keys
    /\ MAX_PENDING_HANDSHAKES \in Nat /\ EXIT_RETRANSMIT_TICKS \in Nat \ {0}
    /\ IDLE_REAP_TICKS \in Nat \ {0} /\ OPEN_SHELL_MAX_TICKS \in Nat \ {0}
    /\ MaxHandshakers \in Nat /\ MaxPtys \in Nat

VARIABLES KeyOf,          \* KeyOf[c]: the static key of c, always the same
          client,         \* client[c]: state, open_shell_pending, open_shell_ticks
          pending,        \* pending[c]: the handshaker that awaits c's last message
          sessions,       \* sessions[c]: the ServerSession of c
          ptys,           \* the PTYs spawned: the key they serve, and their state
          net,            \* net[d][c]: datagrams of c's session in flight towards d
          handshakers,    \* history: handshakers created
          completed       \* history: the handshakers that finished

vars == <<KeyOf, client, pending, sessions, ptys, net, handshakers, completed>>

NoPty == 0
NoSession == [live |-> FALSE, shell |-> FALSE, pty |-> NoPty, exit |-> FALSE,
              exit_ticks |-> 0, idle_ticks |-> 0]
NewSession == [NoSession EXCEPT !.live = TRUE]

\* Datagrams.  M2 and M3 belong to one handshaker of the server.
M1 == [type |-> "m1", hs |-> 0]
M2(n) == [type |-> "m2", hs |-> n]
M3(n) == [type |-> "m3", hs |-> n]
Transport(what) == [type |-> what, hs |-> 0]

Running(p) == ptys[p].state = "running"
Established(c) == client[c].state = "established"
Gone(c) == client[c].state \in {"failed", "exited", "left"}

Init ==
    /\ KeyOf \in KeyMaps
    /\ client = [c \in Clients |->
                    [state |-> "new", open_shell_pending |-> FALSE, open_shell_ticks |-> 0]]
    /\ pending = [c \in Clients |-> 0]
    /\ sessions = [c \in Clients |-> NoSession]
    /\ ptys = <<>>
    /\ net = [d \in {"server", "client"} |-> [c \in Clients |-> {}]]
    /\ handshakers = 0 /\ completed = {}

-----------------------------------------------------------------------------
\* The datagrams `msgs` of c's session leave towards d.  One to a client that is gone
\* is of no account.
Sent(d, c, msgs) ==
    IF d = "client" /\ Gone(c) THEN net ELSE [net EXCEPT ![d][c] = @ \cup msgs]

\* c is gone, and the datagrams `msgs` are the last it sends.
Hangup(c, msgs) == [net EXCEPT !["client"][c] = {}, !["server"][c] = @ \cup msgs]

\* The transport packet m is opened: the replay filter takes no other copy of it.
Opened(d, c, m) == [net EXCEPT ![d][c] = @ \ {m}]

-----------------------------------------------------------------------------
\* The client.

\* Client::connect_with sends the first message, once.
Connect(c) ==
    /\ client[c].state = "new"
    /\ client' = [client EXCEPT ![c].state = "handshake"]
    /\ net' = Sent("server", c, {M1})
    /\ UNCHANGED <<KeyOf, pending, sessions, ptys, handshakers, completed>>

\* The deadline of connect_with passes, or verify_server refuses the server's key.
ConnectFails(c) ==
    /\ client[c].state = "handshake"
    /\ client' = [client EXCEPT ![c].state = "failed"]
    /\ net' = Hangup(c, {})
    /\ UNCHANGED <<KeyOf, pending, sessions, ptys, handshakers, completed>>

\* outgoing(): OpenShell while it is pending, at most OPEN_SHELL_MAX_TICKS times; the
\* screen ack, which the server takes as a sign of life, always.
Outgoing(k) ==
    [k EXCEPT !.open_shell_ticks = IF k.open_shell_pending THEN @ + 1 ELSE @,
              !.open_shell_pending = @ /\ k.open_shell_ticks + 1 < OPEN_SHELL_MAX_TICKS]

OutgoingPacket(k) == Transport(IF k.open_shell_pending THEN "OpenShell" ELSE "Ack")

\* handle_handshake with the server's message.  Once established there is no
\* handshaker left: the error ends the client's loop.
ClientHandshake(c, m) ==
    /\ m \in net["client"][c] /\ m.type = "m2"
    /\ IF client[c].state = "handshake"
       THEN LET k == [client[c] EXCEPT !.state = "established",
                                       !.open_shell_pending = (c \in WantsShell)]
            IN  /\ client' = [client EXCEPT ![c] = Outgoing(k)]
                /\ net' = Sent("server", c, {M3(m.hs), OutgoingPacket(k)})
       ELSE /\ client' = [client EXCEPT ![c].state = "failed"]
            /\ net' = Hangup(c, {})
    /\ UNCHANGED <<KeyOf, pending, sessions, ptys, handshakers, completed>>

\* flush(), and the keepalive.
ClientTick(c) ==
    /\ Established(c)
    /\ client' = [client EXCEPT ![c] = Outgoing(@)]
    /\ net' = Sent("server", c, {OutgoingPacket(client[c])})
    /\ UNCHANGED <<KeyOf, pending, sessions, ptys, handshakers, completed>>

\* handle_transport: screen state ends the OpenShell requests, Exit ends the client.
ClientTransport(c, m) ==
    /\ m \in net["client"][c] /\ m.type \in {"StateDiff", "Exit"}
    /\ IF m.type = "Exit"
       THEN /\ client' = [client EXCEPT ![c].state = "exited"]
            /\ net' = Hangup(c, {})
       ELSE /\ client' = [client EXCEPT ![c].open_shell_pending = FALSE]
            /\ net' = Opened("client", c, m)
    /\ UNCHANGED <<KeyOf, pending, sessions, ptys, handshakers, completed>>

\* The detach key, or the end of a command or transfer: send_bye and a flush.
Bye(c) ==
    /\ Established(c)
    /\ client' = [client EXCEPT ![c].state = "left"]
    /\ net' = Hangup(c, {Transport("Bye")})
    /\ UNCHANGED <<KeyOf, pending, sessions, ptys, handshakers, completed>>

\* The client dies.
Vanish(c) ==
    /\ client[c].state \in {"handshake", "established"}
    /\ client' = [client EXCEPT ![c].state = "left"]
    /\ net' = Hangup(c, {})
    /\ UNCHANGED <<KeyOf, pending, sessions, ptys, handshakers, completed>>

-----------------------------------------------------------------------------
\* The server.

\* The sessions a newcomer with c's key may take over (HashMap order decides).
\* Mutant: any running shell will do.
ReattachableAnyKey(c) ==
    {k \in Clients : sessions[k].live /\ ~sessions[k].exit
                       /\ (sessions[k].shell \/ sessions[k].pty # NoPty)}

Reattachable(c) ==
    {k \in Clients : /\ sessions[k].live /\ KeyOf[k] = KeyOf[c]
                     /\ ~sessions[k].exit
                     /\ sessions[k].shell \/ sessions[k].pty # NoPty}

\* The shell and the PTY of old's session move to c's new one.
\* Mutant: the old session stays.
TakeOverKeepsOld(old, c) ==
    [sessions EXCEPT ![c] = [NewSession EXCEPT !.shell = sessions[old].shell,
                                               !.pty = sessions[old].pty]]

TakeOver(old, c) ==
    [sessions EXCEPT ![old] = NoSession,
                     ![c] = [NewSession EXCEPT !.shell = sessions[old].shell,
                                               !.pty = sessions[old].pty]]

\* The end of a handshake: authorize, then reattach or start afresh.
Finish(c) ==
    /\ completed' = completed \cup {pending[c]}
    /\ pending' = [pending EXCEPT ![c] = 0]
    /\ IF KeyOf[c] \notin Authorized
       THEN UNCHANGED sessions
       ELSE IF Reattachable(c) = {}
       THEN sessions' = [sessions EXCEPT ![c] = NewSession]
       ELSE \E old \in Reattachable(c) : sessions' = TakeOver(old, c)

\* A handshake packet the handshaker cannot read leaves a pending handshake as it was.
\* Mutant: the handshake is gone.
UnreadableDrops(c) == pending' = [pending EXCEPT ![c] = 0]

Unreadable(c) == UNCHANGED pending

\* handle_handshake.  It ignores the packet when there is a session.  Only the padded
\* m1 opens a handshake, and only while there are not too many.
HandleHandshake(c, m) ==
    /\ m \in net["server"][c] /\ m.type \in {"m1", "m3"}
    /\ ~sessions[c].live
    /\ CASE pending[c] = 0 ->
              /\ m.type = "m1"
              /\ Cardinality({k \in Clients : pending[k] # 0}) < MAX_PENDING_HANDSHAKES
              /\ handshakers < MaxHandshakers
              /\ handshakers' = handshakers + 1
              /\ pending' = [pending EXCEPT ![c] = handshakers + 1]
              /\ net' = Sent("client", c, {M2(handshakers + 1)})
              /\ UNCHANGED <<sessions, completed>>
         [] pending[c] # 0 /\ m = M3(pending[c]) ->
              /\ Finish(c)
              /\ UNCHANGED <<net, handshakers>>
         [] pending[c] # 0 /\ m # M3(pending[c]) ->
              /\ Unreadable(c)
              /\ UNCHANGED <<sessions, net, handshakers, completed>>
    /\ UNCHANGED <<KeyOf, client, ptys>>

\* handle_transport and handle_control.  A packet for no session is dropped; any
\* other resets the idle timer.  OpenShell spawns a PTY unless the session has one.
HandleTransport(c, m) ==
    /\ m \in net["server"][c] /\ m.type \in {"OpenShell", "Ack", "Bye"}
    /\ LET awake == [sessions[c] EXCEPT !.idle_ticks = 0]
           spawns == /\ sessions[c].live /\ m.type = "OpenShell"
                     /\ sessions[c].pty = NoPty /\ Len(ptys) < MaxPtys
       IN  /\ ptys' = IF spawns THEN Append(ptys, [key |-> KeyOf[c], state |-> "running"]) ELSE ptys
           /\ sessions' =
                IF ~sessions[c].live THEN sessions
                ELSE [sessions EXCEPT ![c] =
                         CASE spawns -> [awake EXCEPT !.shell = TRUE, !.pty = Len(ptys) + 1]
                           [] m.type = "Bye" -> [awake EXCEPT !.exit = TRUE, !.exit_ticks = 0]
                           [] OTHER -> awake]
    /\ net' = Opened("server", c, m)
    /\ UNCHANGED <<KeyOf, client, pending, handshakers, completed>>

\* What one round of tick() makes of a session: reap it when it has been idle for
\* idle_limit rounds, note the exit of its shell, and reclaim it after exit_limit
\* rounds of Exit notices.
TickedWith(s, idle_limit, exit_limit) ==
    LET idle == IF s.idle_ticks < IDLE_REAP_TICKS THEN s.idle_ticks + 1 ELSE s.idle_ticks
        exited == ~s.exit /\ s.pty # NoPty /\ ~Running(s.pty)
        t == [s EXCEPT !.idle_ticks = idle,
                       !.exit = @ \/ exited,
                       !.exit_ticks = IF s.exit \/ exited THEN @ + 1 ELSE @,
                       !.pty = IF exited THEN NoPty ELSE @]
    IN  IF ~s.live \/ (idle >= idle_limit /\ ~s.exit) \/ t.exit_ticks >= exit_limit
        THEN NoSession ELSE t

\* Mutant: no session is idle.
TickedNeverIdle(s) == TickedWith(s, IDLE_REAP_TICKS + 1, EXIT_RETRANSMIT_TICKS)

Ticked(s) == TickedWith(s, IDLE_REAP_TICKS, EXIT_RETRANSMIT_TICKS)

\* Dropping a PtyHandle kills a child that still runs.
AfterDrop(p, held) ==
    IF Running(p) /\ p \notin held THEN [ptys[p] EXCEPT !.state = "killed"] ELSE ptys[p]

\* What tick() sends to c: the screen while there is a shell, and the exit status.
Notices(c) ==
    LET reaped == sessions[c].idle_ticks + 1 >= IDLE_REAP_TICKS /\ ~sessions[c].exit IN
    {x \in {Transport("StateDiff")} : sessions[c].shell /\ ~reaped}
      \cup {x \in {Transport("Exit")} :
               ~reaped /\ (sessions[c].exit \/ (sessions[c].pty # NoPty /\ ~Running(sessions[c].pty)))}

\* tick(): every session in turn; StateDiffs for the shells, Exit notices.
Tick ==
    /\ sessions' = [c \in Clients |-> Ticked(sessions[c])]
    /\ ptys' = [p \in DOMAIN ptys |-> AfterDrop(p, {sessions'[c].pty : c \in Clients})]
    /\ net' = [net EXCEPT !["client"] = [c \in Clients |-> IF Gone(c) THEN {} ELSE @[c] \cup Notices(c)]]
    /\ UNCHANGED <<KeyOf, client, pending, handshakers, completed>>

\* A shell ends by itself.
ShellExits(p) ==
    /\ Running(p)
    /\ ptys' = [ptys EXCEPT ![p].state = "exited"]
    /\ UNCHANGED <<KeyOf, client, pending, sessions, net, handshakers, completed>>

ClientNext(c) ==
    \/ Connect(c) \/ ConnectFails(c) \/ ClientTick(c) \/ Bye(c) \/ Vanish(c)
    \/ \E m \in net["client"][c] : ClientHandshake(c, m) \/ ClientTransport(c, m)

ServerNext ==
    \/ \E c \in Clients : \E m \in net["server"][c] : HandleHandshake(c, m) \/ HandleTransport(c, m)
    \/ Tick

Next ==
    \/ \E c \in Clients : ClientNext(c)
    \/ ServerNext
    \/ \E p \in DOMAIN ptys : ShellExits(p)

Spec == Init /\ [][Next]_vars

-----------------------------------------------------------------------------

\* Every running shell is owned by exactly one session: a reattach moves it (server.rs:
\* 268-278) and never copies it, and a session that is reaped, or reclaimed after an
\* exit or a Bye, leaves no shell behind.
ShellOwnedOnce ==
    \A p \in DOMAIN ptys :
        Running(p) => \E c \in Clients : /\ sessions[c].pty = p
                                         /\ \A k \in Clients \ {c} : sessions[k].pty # p

\* A shell serves the key it was spawned for, and that key is authorized: no
\* interleaving of handshakes, reattaches and exits hands it to another.
ShellStaysWithKey ==
    \A c \in Clients :
        sessions[c].pty # NoPty =>
            ptys[sessions[c].pty].key = KeyOf[c] /\ KeyOf[c] \in Authorized

\* Both: one session has each shell, and it is one of the key the shell belongs to.
ShellsOwned == ShellOwnedOnce /\ ShellStaysWithKey

\* "A failed read must NOT consume EXISTING pending state" (server.rs:216-220): the
\* last message of a handshake finds its handshaker, or comes after it finished.
HandshakeNotSpoilt ==
    \A c \in Clients : \A m \in net["server"][c] :
        m.type = "m3" => m.hs = pending[c] \/ m.hs \in completed

-----------------------------------------------------------------------------

\* The server's loop ticks; nothing is asked of the clients or of the network.
FairSpec == Spec /\ WF_vars(Tick)

\* A client that is gone, with or without a Bye, is forgotten: its session is reaped
\* or reclaimed, and does not come back.
GoneIsReclaimed ==
    \A c \in Clients : Gone(c) ~> [](~sessions[c].live)

=============================================================================
