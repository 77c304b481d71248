----------------------------- MODULE Listeners -----------------------------
(***************************************************************************)
(* What the server's driver holds for its sessions besides their shells     *)
(* (Server of src/server.rs): the listeners of -R, the agent sockets of -A, *)
(* forwarded connections, file transfers and commands.  Sessions come, take *)
(* over a shell and go in ServerCore (module Lifecycle) and the driver      *)
(* finds out afterwards, in pump_forwards.                                  *)
(*                                                                         *)
(* poll_once takes one datagram, pumps and ticks; pc is what comes next.    *)
(* All -R requests are for one port, which other processes want too.  What  *)
(* moves over a connection is in modules Forward, Exec and Transfer.        *)
(***************************************************************************)
EXTENDS Naturals, FiniteSets

CONSTANTS Sids,                         \* sessions, all of one client key
          Uses,                         \* what they may be used for: kinds of streams
          REMOTE_FORWARD_MAX_TICKS

ASSUME ListenersAssumption == IsFiniteSet(Sids) /\ REMOTE_FORWARD_MAX_TICKS \in Nat

\* A stream of a session, by who opens it and what for; one of each kind.
ByClient == {"local", "file", "exec"}
ByServer == {"remote", "agent", "stderr"}
Key(sid, kind) == [sid |-> sid, kind |-> kind]
Keys == [sid : Sids, kind : ByClient \cup ByServer]

VARIABLES pc,
          uses,                         \* of Uses
          user,                         \* a privsep user is configured
          sess, pty,                    \* ServerCore: the sessions; pty[s] is the session
                                        \* whose agent socket the shell in s was told of
          request, agent_request, events,       \* ServerCore, for the driver
          streams,                      \* streams the server has not closed or reset
          remote_listeners, agent_listeners, conns,     \* Server; conns are forwards,
                                                        \* xfers, agent_conns and execs
          dialled,                      \* connections waiting at a listener
          socks, left,                  \* socket files; those a failed bind left behind
          children,                     \* commands running
          other,                        \* another process has the port
          used,                         \* streams there have been
          net, ticks,                   \* the clients' RemoteForward messages
          offered,                      \* history: how often one came with the port free
                                        \* but for sessions that are gone
          abandoned                     \* history: streams left open by a socket that
                                        \* failed

coreVars == <<user, sess, pty, request, agent_request, events>>
driverVars == <<streams, remote_listeners, agent_listeners, conns, socks, left, children,
                abandoned>>
worldVars == <<uses, dialled, other, used, net, ticks, offered>>
listenersVars == <<pc, coreVars, driverVars, worldVars>>

NoPty == "none"
Sessions == {s \in Sids : sess[s] = "live"}
PortFree == remote_listeners = {} /\ ~other

ListenersInit ==
    /\ pc = "receive" /\ user \in BOOLEAN /\ uses \in Uses
    /\ sess = [s \in Sids |-> "new"] /\ pty = [s \in Sids |-> NoPty]
    /\ request = {} /\ agent_request = {} /\ events = {}
    /\ streams = {} /\ remote_listeners = {} /\ agent_listeners = {} /\ conns = {}
    /\ dialled = {} /\ socks = {} /\ left = {} /\ children = {}
    /\ other = FALSE /\ used = {} /\ net = {}
    /\ ticks = [s \in Sids |-> 0] /\ offered = [s \in Sids |-> 0]
    /\ abandoned = {}

-----------------------------------------------------------------------------
\* The datagram of this iteration.

\* Nothing for the driver came.
Idle == UNCHANGED <<coreVars, net, used>>

\* A handshake ends: the shell of a session of the same key moves to the new one.
Reattaches(s) ==
    /\ sess[s] = "new"
    /\ \/ /\ \A old \in Sessions : pty[old] = NoPty
          /\ sess' = [sess EXCEPT ![s] = "live"]
          /\ UNCHANGED pty
       \/ \E old \in Sessions :
            /\ pty[old] # NoPty
            /\ sess' = [sess EXCEPT ![s] = "live", ![old] = "gone"]
            /\ pty' = [pty EXCEPT ![s] = pty[old], ![old] = NoPty]
    /\ UNCHANGED <<user, request, agent_request, events, net, used>>

\* ControlMsg::OpenShell, with agent forwarding unless there is a privsep user.
OpensShell(s) ==
    /\ s \in Sessions /\ pty[s] = NoPty
    /\ pty' = [pty EXCEPT ![s] = s]
    /\ agent_request' = IF user \/ "agent" \notin uses THEN {} ELSE {s}
    /\ UNCHANGED <<user, sess, request, events, net, used>>

\* ControlMsg::RemoteForward
RequestsForward(s) ==
    /\ s \in net /\ net' = net \ {s}
    /\ request' = IF s \in Sessions THEN {s} ELSE {}
    /\ UNCHANGED <<user, sess, pty, agent_request, events, used>>

\* A frame on a stream: the client opens one, or resets one.
StreamFrame(s) ==
    /\ s \in Sessions
    /\ \E kind \in ByClient \cup ByServer :
         LET k == Key(s, kind) IN
         \/ /\ kind \in ByClient \cap uses /\ k \notin used
            /\ used' = used \cup {k}
            /\ events' = events \cup {[event |-> "Opened", key |-> k]}
         \/ /\ k \in streams
            /\ events' = events \cup {[event |-> "Reset", key |-> k]}
            /\ UNCHANGED used
    /\ UNCHANGED <<user, sess, pty, request, agent_request, net>>

Receive ==
    /\ pc = "receive" /\ pc' = "pump"
    /\ \/ Idle
       \/ \E s \in Sids : Reattaches(s) \/ OpensShell(s) \/ RequestsForward(s) \/ StreamFrame(s)
    /\ UNCHANGED <<driverVars, uses, dialled, other, ticks, offered>>

-----------------------------------------------------------------------------
\* pump_forwards.  Requests are served before the listeners of sessions that are gone
\* are dropped, so one of those makes a bind fail this time round.
Bound == remote_listeners \cup {s \in request : PortFree}

\* Mutant: the listeners stay.
HoldersAll(listeners) == listeners

Holders(listeners) == {s \in listeners : s \in Sessions}

\* bind_agent_socket fails, with or without a socket file that stays, or does not.
AgentBound(bound, leaves) ==
    /\ agent_listeners' = Holders(agent_listeners \cup bound)
    /\ socks' = (socks \cup bound \cup leaves) \ ((agent_listeners \cup bound) \ Sessions)
    /\ left' = left \cup leaves

\* The connections the listeners accept; some cannot be made a ForwardConn.  The stream
\* of such a one is reset if it is an agent's, and stays open if it is not.
Waiting(listeners, kind) == {k \in dialled : k.kind = kind /\ k.sid \in listeners}

Opened == {e.key : e \in {x \in events : x.event = "Opened"}}
ResetKeys == {e.key : e \in {x \in events : x.event = "Reset"}}

\* The streams opened that are served: connected, created, spawned.  A privsep user has
\* only forwards.
Servable == {k \in Opened : user => k.kind = "local"}
Stderr(keys) == {Key(k.sid, "stderr") : k \in {x \in keys : x.kind = "exec"}}

\* Whatever belongs to a session that is gone goes, and so does what is finished.
Surviving(keys, finished) == {k \in keys \ finished : k.sid \in Sessions}

\* The commands that are killed, by a reset or because their session is gone.
Killed(commands) == {k \in commands : k \in ResetKeys \/ k.sid \notin Sessions}

\* ForwardConn::is_finished: both ways are closed, or the socket is dead.  A dead one is
\* removed like a finished one, and its stream may be open then and stays so.
Sockets(keys) == {k \in keys : k.kind \in {"local", "remote", "agent"}}

PumpForwards ==
    /\ pc = "pump" /\ pc' = "tick"
    /\ remote_listeners' = Holders(Bound)
    /\ \E bound \in SUBSET agent_request : \E leaves \in SUBSET (agent_request \ bound) :
         AgentBound(bound, leaves)
    /\ \E wrapped \in SUBSET (Waiting(remote_listeners', "remote") \cup Waiting(agent_listeners', "agent")),
          served \in SUBSET Servable :
         LET accepted == Waiting(remote_listeners', "remote")
             now == (conns \cup wrapped \cup served) \ ResetKeys
         IN  \E finished \in SUBSET now : \E died \in SUBSET Sockets(finished) :
               /\ conns' = Surviving(now, finished)
               /\ LET spawned == children \cup {k \in served : k.kind = "exec"}
                  IN  children' = spawned \ (Killed(spawned) \cup finished)
               /\ streams' = {k \in (streams \cup accepted \cup now \cup Stderr(served))
                                      \ ((finished \ died) \cup ResetKeys \cup Stderr(finished \cup ResetKeys)) :
                                k.sid \in Sessions}
               /\ abandoned' = abandoned \cup died \cup (accepted \ wrapped)
    /\ dialled' = {k \in dialled : k.sid \in IF k.kind = "agent" THEN agent_listeners' ELSE remote_listeners'}
                    \ (Waiting(remote_listeners', "remote") \cup Waiting(agent_listeners', "agent"))
    /\ offered' = [s \in Sids |->
         IF s \in request /\ s \in Sessions /\ ~other /\ remote_listeners \cap Sessions \subseteq {s}
         THEN offered[s] + 1 ELSE offered[s]]
    /\ request' = {} /\ agent_request' = {} /\ events' = {}
    /\ UNCHANGED <<user, sess, pty, uses, other, used, net, ticks>>

\* The tick: sessions are reaped or have sent their last Exit.
Tick ==
    /\ pc = "tick" /\ pc' = "receive"
    /\ \E done \in SUBSET Sessions :
         /\ sess' = [s \in Sids |-> IF s \in done THEN "gone" ELSE sess[s]]
         /\ pty' = [s \in Sids |-> IF s \in done THEN NoPty ELSE pty[s]]
         /\ streams' = {k \in streams : k.sid \notin done}
    /\ UNCHANGED <<user, request, agent_request, events, remote_listeners, agent_listeners, conns,
                   socks, left, children, abandoned, worldVars>>

-----------------------------------------------------------------------------
\* A client's outgoing(): the request is sent over and over, for a while.
ClientTick(s) ==
    /\ "remote" \in uses /\ sess[s] # "new" /\ ticks[s] < REMOTE_FORWARD_MAX_TICKS
    /\ ticks' = [ticks EXCEPT ![s] = @ + 1]
    /\ net' = net \cup {s}
    /\ UNCHANGED <<pc, coreVars, driverVars, uses, dialled, other, used, offered>>

Lost(s) ==
    /\ s \in net /\ net' = net \ {s}
    /\ UNCHANGED <<pc, coreVars, driverVars, uses, dialled, other, used, ticks, offered>>

\* Somebody on the server connects to a listener.
Dials(s) ==
    /\ \E kind \in {"remote", "agent"} \cap uses :
         /\ s \in IF kind = "agent" THEN agent_listeners ELSE remote_listeners
         /\ Key(s, kind) \notin used
         /\ dialled' = dialled \cup {Key(s, kind)} /\ used' = used \cup {Key(s, kind)}
    /\ UNCHANGED <<pc, coreVars, driverVars, uses, other, net, ticks, offered>>

OtherProcess ==
    /\ "remote" \in uses /\ (other \/ PortFree)
    /\ other' = ~other
    /\ UNCHANGED <<pc, coreVars, driverVars, uses, dialled, used, net, ticks, offered>>

ListenersNext ==
    \/ Receive \/ PumpForwards \/ Tick \/ OtherProcess
    \/ \E s \in Sids : ClientTick(s) \/ Lost(s) \/ Dials(s)

ListenersSpec == ListenersInit /\ [][ListenersNext]_listenersVars

-----------------------------------------------------------------------------
\* After every pump nothing is held for a session that is gone, however it went: not its
\* listeners ("avoids port squatting + leak", server.rs:785-787), not its agent socket
\* and the file of it, not its connections, transfers and commands (server.rs:971-984,
\* 1074-1084, 1116-1121); no command runs that no exec accounts for, and no stream is left
\* open without its other half ("so it isn't orphaned", server.rs:850-853) but by a
\* socket that failed: a forwarded or agent connection that died before its half was
\* closed is removed and its stream neither closed nor reset (forward.rs:156-158,
\* server.rs:1007-1009, 1105-1107), nor is the stream opened for an accepted -R
\* connection that could not be wrapped (server.rs:800-806).
NoOrphans ==
    pc = "tick" =>
        /\ remote_listeners \subseteq Sessions /\ agent_listeners \subseteq Sessions
        /\ agent_listeners \subseteq socks /\ socks \subseteq agent_listeners \cup left
        /\ \A k \in conns : k.sid \in Sessions
        /\ children = {k \in conns : k.kind = "exec"}
        /\ \A k \in streams :
             \/ k \in conns \cup abandoned
             \/ k.kind = "stderr" /\ Key(k.sid, "exec") \in conns

\* A listener is there after as many requests as can have come while the listener of a
\* session that is gone still had the port; the client repeats its request for that
\* (client.rs:347-354) and no duplicate (server.rs:773-779) takes the listener away.
RemoteForwardBound ==
    pc = "tick" => \A s \in Sessions : offered[s] >= Cardinality(Sids) => s \in remote_listeners

\* The driver follows the core: it gives up what belongs to sessions that are gone, and
\* has the listeners that those there are asked for.
DriverExact == NoOrphans /\ RemoteForwardBound

============================================================================
