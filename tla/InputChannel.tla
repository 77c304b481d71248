---------------------------- MODULE InputChannel ----------------------------
(***************************************************************************)
(* The reliable client-to-server input channel (crates/transport/src/       *)
(* input.rs) as the shells drive it: ClientShell::poll_frames sends the     *)
(* whole unacknowledged suffix, the server's Input handler ingests it,      *)
(* writes what is fresh to the PTY and answers with an Ack.                 *)
(*                                                                         *)
(* Each direction is a set of frames in flight.  Frames are lost by the     *)
(* Lose actions, reordered because any of them may arrive next, and may     *)
(* arrive again because the sender resends them until they are acked.      *)
(*                                                                         *)
(* Two parts of the kernel are external.  A UDP socket refuses a datagram   *)
(* of more than MaxDatagram bytes, and the driver ignores that error.  The  *)
(* PTY queues at most PtyCapacity bytes the shell has not read yet, and a   *)
(* write to its non-blocking master takes what fits.                       *)
(***************************************************************************)
EXTENDS Integers, Sequences

CONSTANTS Bytes,          \* the keystrokes
          MaxTyped,       \* bound: keystrokes typed
          MaxDatagram,    \* input bytes that fit a datagram
          PtyCapacity     \* bytes the kernel queues for the shell

ASSUME MaxTypedAssumption == MaxTyped \in Nat
ASSUME MaxDatagramAssumption == MaxDatagram \in Nat \ {0}
ASSUME PtyCapacityAssumption == PtyCapacity \in Nat \ {0}

VARIABLES buffer,         \* InputSender: the unacknowledged suffix
          base,           \* InputSender: absolute offset of buffer[0]
          received,       \* InputReceiver: contiguous bytes received
          pty_unread,     \* bytes queued in the PTY, not yet read by the shell
          pty_input,      \* history: every byte the PTY took
          to_server,      \* Input frames in flight
          to_client,      \* input Acks in flight
          typed,          \* history: every byte pushed
          delivered       \* history: every byte ingest returned

vars == <<buffer, base, received, pty_unread, pty_input, to_server, to_client,
          typed, delivered>>

Min2(m, n) == IF m <= n THEN m ELSE n
Drop(s, n) == SubSeq(s, n + 1, Len(s))

InputFrames == [offset : Nat, data : Seq(Bytes)]

Init ==
    /\ buffer = <<>> /\ base = 0
    /\ received = 0
    /\ pty_unread = 0 /\ pty_input = <<>>
    /\ to_server = {} /\ to_client = {}
    /\ typed = <<>> /\ delivered = <<>>

\* ClientShell::type_input -> InputSender::push
Push(b) ==
    /\ Len(typed) < MaxTyped
    /\ buffer' = Append(buffer, b)
    /\ typed' = Append(typed, b)
    /\ UNCHANGED <<base, received, pty_unread, pty_input, to_server, to_client, delivered>>

\* InputSender::pending: the whole suffix at base, None when it is empty.
\* Mutant: the last byte of the suffix is left out.
PendingShort ==
    IF buffer = <<>> THEN {} ELSE {[offset |-> base, data |-> SubSeq(buffer, 1, Len(buffer) - 1)]}

Pending ==
    IF buffer = <<>> THEN {} ELSE {[offset |-> base, data |-> buffer]}

\* ClientShell::poll_frames; a frame over max_plaintext is sealed alone, and
\* send_packet drops the error of a send_to the kernel refuses.
PollFrames ==
    /\ Pending # {}
    /\ to_server' = to_server \cup {f \in Pending : Len(f.data) <= MaxDatagram}
    /\ UNCHANGED <<buffer, base, received, pty_unread, pty_input, to_client, typed, delivered>>

\* InputReceiver::ingest, the bytes it returns.
\* Mutant: the overlap is cut one byte short.
FreshShortCut(f) ==
    IF f.offset + Len(f.data) <= received \/ f.offset > received
    THEN <<>>
    ELSE Drop(f.data, IF received > f.offset THEN received - f.offset - 1 ELSE 0)

Fresh(f) ==
    IF f.offset + Len(f.data) <= received \/ f.offset > received
    THEN <<>>
    ELSE Drop(f.data, received - f.offset)

\* PtyMaster::write of n bytes: how many the kernel takes.
PtyWrite(n) == Min2(n, PtyCapacity - pty_unread)

\* The server's handling of an Input frame: ingest, pty.write of the fresh bytes
\* (its result is ignored), and the Ack, sent whether or not anything was fresh.
Ingest(f) ==
    LET fresh == Fresh(f)
        taken == PtyWrite(Len(fresh))
    IN  /\ received' = IF fresh = <<>> THEN received ELSE f.offset + Len(f.data)
        /\ delivered' = delivered \o fresh
        /\ pty_input' = pty_input \o SubSeq(fresh, 1, taken)
        /\ pty_unread' = pty_unread + taken
        /\ to_client' = to_client \cup {received'}
        /\ to_server' = to_server \ {f}
        /\ UNCHANGED <<buffer, base, typed>>

\* InputSender::on_ack.
\* Mutant: acks are ignored.
OnAckNever(seq) == UNCHANGED <<buffer, base>>

OnAck(seq) ==
    LET new_base == Min2(seq, base + Len(buffer)) IN
    IF new_base > base
    THEN /\ buffer' = Drop(buffer, new_base - base)
         /\ base' = new_base
    ELSE UNCHANGED <<buffer, base>>

ReceiveAck(seq) ==
    /\ OnAck(seq)
    /\ to_client' = to_client \ {seq}
    /\ UNCHANGED <<received, pty_unread, pty_input, to_server, typed, delivered>>

LoseInput(f) ==
    /\ to_server' = to_server \ {f}
    /\ UNCHANGED <<buffer, base, received, pty_unread, pty_input, to_client, typed, delivered>>

LoseAck(seq) ==
    /\ to_client' = to_client \ {seq}
    /\ UNCHANGED <<buffer, base, received, pty_unread, pty_input, to_server, typed, delivered>>

ShellReads ==
    /\ pty_unread > 0
    /\ pty_unread' = pty_unread - 1
    /\ UNCHANGED <<buffer, base, received, pty_input, to_server, to_client, typed, delivered>>

IngestAny == \E f \in to_server : Ingest(f)
ReceiveAnyAck == \E seq \in to_client : ReceiveAck(seq)

Next ==
    \/ \E b \in Bytes : Push(b)
    \/ PollFrames
    \/ IngestAny
    \/ ReceiveAnyAck
    \/ \E f \in to_server : LoseInput(f)
    \/ \E seq \in to_client : LoseAck(seq)
    \/ ShellReads

Spec == Init /\ [][Next]_vars

\* The client polls while it has unacked input, and a link that keeps being
\* offered frames lets one through again and again.
Fairness ==
    /\ WF_vars(PollFrames)
    /\ SF_vars(\E f \in to_server : f \in Pending /\ Ingest(f))
    /\ SF_vars(\E seq \in to_client : seq = received /\ ReceiveAck(seq))

FairSpec == Spec /\ Fairness

-----------------------------------------------------------------------------

\* The fields of sender, receiver, PTY and links have their types.
TypeOK ==
    /\ buffer \in Seq(Bytes) /\ base \in Nat
    /\ received \in Nat
    /\ pty_unread \in 0 .. PtyCapacity /\ pty_input \in Seq(Bytes)
    /\ to_server \subseteq InputFrames
    /\ to_client \subseteq Nat
    /\ typed \in Seq(Bytes) /\ delivered \in Seq(Bytes)

\* ingest "reconstructs the exact contiguous stream": what it has returned is, at
\* all times, the first `received` bytes typed.
ExactStream ==
    /\ Len(delivered) = received
    /\ received <= Len(typed)
    /\ \A i \in 1 .. received : delivered[i] = typed[i]

\* The sender forgets a byte only when the receiver has it: buffer is exactly the
\* suffix of what was typed from base on, and base never passes received.
NothingForgotten ==
    /\ base <= received
    /\ base + Len(buffer) = Len(typed)
    /\ \A i \in 1 .. Len(buffer) : buffer[i] = typed[base + i]

\* Every frame and every ack in flight is about bytes that exist and still tells
\* the truth, however late it arrives.
FramesTruthful ==
    /\ \A f \in to_server :
         /\ f.offset + Len(f.data) <= Len(typed)
         /\ \A i \in 1 .. Len(f.data) : f.data[i] = typed[f.offset + i]
    /\ \A seq \in to_client : seq <= received

\* What the shell reads is what was typed: "Keystrokes are an append-only byte
\* stream sent reliably (`Input` frames retransmitted until acked) and written to
\* the PTY" (docs/ARCHITECTURE.md:115-116).  server.rs:312 ignores a short write.
ShellGetsWhatWasTyped ==
    \A i \in 1 .. Len(pty_input) : pty_input[i] = typed[i]

Stream == INSTANCE InputStream WITH Bytes <- Bytes, typed <- typed, delivered <- delivered

\* pending() puts the whole suffix into one frame, so a suffix that is larger than a
\* datagram never reaches the server, and nothing the client does makes it shorter.
Fits == Len(buffer) <= MaxDatagram

\* The channel implements InputStream: what ingest returns is always the next bytes
\* typed, whatever is lost; and every keystroke is handed over in the end although
\* frames and acks keep being lost, unless the unacknowledged suffix has outgrown a
\* datagram for good (input.rs:33-41 never splits it).
ImplementsStream == Stream!Safety /\ ([]<>Fits => Stream!Handover)

\* The sender stops retransmitting: again and again, everything is acknowledged
\* and pending() returns None, unless the suffix has outgrown a datagram for good.
BufferDrains == []<>Fits => []<>(buffer = <<>>)

=============================================================================
