----------------------------- MODULE StateSync -----------------------------
(***************************************************************************)
(* Screen-state synchronisation (crates/proto/src/shell.rs): ServerShell    *)
(* numbers the screens it sends and keeps them until acknowledged, and      *)
(* sends the diff from the acknowledged screen to the current one;          *)
(* ClientShell applies what it can and acknowledges the number it shows.    *)
(*                                                                         *)
(* Both directions are sets of frames that are lost, reordered and sent     *)
(* again.  What the emulator makes of PTY output is any change of the       *)
(* cells.  A reattach (server.rs handle_handshake) moves the running shell  *)
(* to a new session with a fresh client; what is in flight under the old    *)
(* session's keys is then of no account.                                    *)
(***************************************************************************)
EXTENDS ScreenDiff, Naturals

CONSTANT MaxChanges       \* bound: outputs, resizes and reattaches together

ASSUME MaxChangesAssumption == MaxChanges \in Nat

VARIABLES screen,         \* ServerShell.term
          seq, acked_seq, history, last_sent, force_full,
          grid,           \* ClientShell
          current_seq,
          need_ack,       \* ClientCore
          to_client,      \* StateDiff frames in flight
          to_server,      \* screen acks in flight
          snap,           \* history: the screen each number stands for
          outputs, resizes, attaches

server == <<screen, seq, acked_seq, history, last_sent, force_full, snap>>
client == <<grid, current_seq, need_ack>>
counts == <<outputs, resizes, attaches>>
vars == <<server, client, to_client, to_server, counts>>

StateDiffs == [seq : Nat, base : Nat, data : Diffs]

\* ServerShell::new and ClientShell::new with the dimensions of OpenShell.
Init ==
    \E d \in Dims :
        /\ screen = NewGrid(d) /\ last_sent = NewGrid(d) /\ grid = NewGrid(d)
        /\ seq = 0 /\ acked_seq = 0 /\ current_seq = 0
        /\ history = [k \in {0} |-> NewGrid(d)]
        /\ snap = [k \in {0} |-> NewGrid(d)]
        /\ force_full = FALSE /\ need_ack = FALSE
        /\ to_client = {} /\ to_server = {}
        /\ outputs = 0 /\ resizes = 0 /\ attaches = 0

\* feed_output: the emulator draws something.
FeedOutput(s) ==
    /\ outputs + resizes + attaches < MaxChanges
    /\ s.dims = screen.dims /\ s # screen
    /\ screen' = s
    /\ outputs' = outputs + 1
    /\ UNCHANGED <<seq, acked_seq, history, last_sent, force_full, snap, client,
                   to_client, to_server, resizes, attaches>>

\* A Resize control message reaches the server: ServerShell::resize.
Resize(d) ==
    /\ outputs + resizes + attaches < MaxChanges
    /\ d # screen.dims
    /\ screen' = Resized(screen, d)
    /\ resizes' = resizes + 1
    /\ UNCHANGED <<seq, acked_seq, history, last_sent, force_full, snap, client,
                   to_client, to_server, outputs, attaches>>

\* The diff poll_diff sends.
DiffToSend(target) ==
    IF force_full
    THEN EncodeFull(target)
    ELSE EncodeDiff(history[acked_seq], target)

\* poll_diff in ServerCore::tick: number the screen if it is not the last one sent,
\* then send unless the client has acknowledged that number.
PollDiff ==
    LET changed == screen # last_sent
        n == IF changed THEN seq + 1 ELSE seq
    IN  /\ n # acked_seq
        /\ seq' = n
        /\ last_sent' = screen
        /\ history' = IF changed THEN [k \in DOMAIN history \cup {n} |->
                                          IF k = n THEN screen ELSE history[k]]
                                 ELSE history
        /\ snap' = IF changed THEN [k \in DOMAIN snap \cup {n} |->
                                       IF k = n THEN screen ELSE snap[k]]
                              ELSE snap
        /\ to_client' = to_client \cup
               {[seq |-> n, base |-> IF force_full THEN 0 ELSE acked_seq,
                 data |-> DiffToSend(screen)]}
        /\ force_full' = FALSE
        /\ UNCHANGED <<screen, acked_seq, client, to_server, counts>>

\* apply_state_diff's test.
\* Mutant: the base is not compared.
ApplicableAnyBase(f) == f.data.full \/ f.seq > current_seq

Applicable(f) == f.data.full \/ (f.base = current_seq /\ f.seq > current_seq)

\* A StateDiff reaches ClientCore: apply_state_diff, and need_ack whatever happened.
ReceiveDiff(f) ==
    /\ to_client' = to_client \ {f}
    /\ need_ack' = TRUE
    /\ IF Applicable(f) /\ Applies(grid, f.data)
       THEN /\ grid' = ApplyDiff(grid, f.data)
            /\ current_seq' = f.seq
       ELSE UNCHANGED <<grid, current_seq>>
    /\ UNCHANGED <<server, to_server, counts>>

\* ClientCore::outgoing: poll_frames always carries the ack.  It is called when
\* has_outgoing holds, for need_ack or for other traffic.
SendAck ==
    /\ to_server' = to_server \cup {current_seq}
    /\ need_ack' = FALSE
    /\ UNCHANGED <<server, grid, current_seq, to_client, counts>>

\* on_state_ack.
\* Mutants: history is pruned one too far; acks are ignored.
OnStateAckPrunesBase(n) ==
    IF n > acked_seq /\ n \in DOMAIN history
    THEN /\ acked_seq' = n
         /\ history' = [k \in {j \in DOMAIN history : j > n} |-> history[k]]
    ELSE UNCHANGED <<acked_seq, history>>

OnStateAckIgnored(n) == UNCHANGED <<acked_seq, history>>

OnStateAck(n) ==
    IF n > acked_seq /\ n \in DOMAIN history
    THEN /\ acked_seq' = n
         /\ history' = [k \in {j \in DOMAIN history : j >= n} |-> history[k]]
    ELSE UNCHANGED <<acked_seq, history>>

ReceiveAck(n) ==
    /\ OnStateAck(n)
    /\ to_server' = to_server \ {n}
    /\ UNCHANGED <<screen, seq, last_sent, force_full, snap, client, to_client, counts>>

\* A client with the same key connects with a terminal of dimensions d:
\* rebind_to_new_client, and a fresh ClientShell.  Every number the server has used
\* now stands for the blank screen the new client starts from.
RebindToNewClient(d) ==
    /\ outputs + resizes + attaches < MaxChanges
    /\ acked_seq' = 0
    /\ history' = [k \in {0} |-> NewGrid(screen.dims)]
    /\ last_sent' = NewGrid(screen.dims)
    /\ force_full' = TRUE
    /\ snap' = [k \in DOMAIN snap |-> NewGrid(screen.dims)]
    /\ grid' = NewGrid(d) /\ current_seq' = 0 /\ need_ack' = FALSE
    /\ to_client' = {} /\ to_server' = {}
    /\ attaches' = attaches + 1
    /\ UNCHANGED <<screen, seq, outputs, resizes>>

LoseDiff(f) ==
    /\ to_client' = to_client \ {f}
    /\ UNCHANGED <<server, client, to_server, counts>>

LoseAck(n) ==
    /\ to_server' = to_server \ {n}
    /\ UNCHANGED <<server, client, to_client, counts>>

Next ==
    \/ \E s \in Screens : FeedOutput(s)
    \/ \E d \in Dims : Resize(d)
    \/ PollDiff
    \/ \E f \in to_client : ReceiveDiff(f)
    \/ SendAck
    \/ \E n \in to_server : ReceiveAck(n)
    \/ \E d \in Dims : RebindToNewClient(d)
    \/ \E f \in to_client : LoseDiff(f)
    \/ \E n \in to_server : LoseAck(n)

Spec == Init /\ [][Next]_vars

\* The server ticks, the client answers every diff, and a diff or ack that is sent
\* again and again gets through in the end.
Fairness ==
    /\ WF_vars(PollDiff)
    /\ WF_vars(need_ack /\ SendAck)
    /\ SF_vars(\E f \in to_client :
                  f.seq = seq /\ f.base = acked_seq /\ ReceiveDiff(f))
    /\ SF_vars(\E n \in to_server : n = current_seq /\ ReceiveAck(n))

FairSpec == Spec /\ Fairness

-----------------------------------------------------------------------------

\* The fields of both shells and the frames in flight have their types.
TypeOK ==
    /\ screen \in Screens /\ last_sent \in Screens /\ grid \in Screens
    /\ seq \in Nat /\ acked_seq \in Nat /\ current_seq \in Nat
    /\ DOMAIN history \subseteq 0 .. seq /\ \A k \in DOMAIN history : history[k] \in Screens
    /\ DOMAIN snap = 0 .. seq /\ \A k \in 0 .. seq : snap[k] \in Screens
    /\ force_full \in BOOLEAN /\ need_ack \in BOOLEAN
    /\ to_client \subseteq StateDiffs
    /\ to_server \subseteq Nat
    /\ outputs \in Nat /\ resizes \in Nat /\ attaches \in Nat

\* The client never shows a screen that was not on the server: its grid is, cell by
\* cell, the screen its number stands for.  A delta applied to a base other than
\* the one it was computed from (shell.rs:183-193) would break this.
GridIsSnapshot ==
    /\ current_seq <= seq
    /\ grid.cells = snap[current_seq].cells
    /\ current_seq > 0 => grid = snap[current_seq]

\* The base of the next delta is at hand: on_state_ack keeps the screen of acked_seq
\* in the history (shell.rs:82-88), and what it keeps is what was sent.
BaseAvailable ==
    /\ acked_seq \in DOMAIN history
    /\ \A k \in DOMAIN history : history[k] = snap[k]
    /\ last_sent = snap[seq]

\* Both ends agree about every screen they still name by number (shell.rs:104-131, 183-193).
ScreensAgree == GridIsSnapshot /\ BaseAvailable

\* Every diff in flight says, of the screens its two numbers stand for, how to get
\* from one to the other, however late it arrives.
DiffsTruthful ==
    \A f \in to_client :
        /\ f.base < f.seq /\ f.seq <= seq
        /\ f.data \in {EncodeFull(snap[f.seq]), EncodeDiff(snap[f.base], snap[f.seq])}

\* "This converges under arbitrary loss/reorder (latest-wins): only the newest
\* screen matters" (docs/PROTOCOL.md:152-153): once the screen rests, the client
\* comes to show it, provided the terminal is neither resized nor reattached.
Converges == [](resizes = 0 /\ attaches = 0) => []<>(grid = screen)

=============================================================================
