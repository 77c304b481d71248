---------------------------- MODULE StreamTiming ----------------------------
(***************************************************************************)
(* The clock of a stream (crates/transport/src/stream.rs): the retransmit   *)
(* timer, the RTT probe and the RTO computed from its samples.  Module      *)
(* Stream leaves it open when a timer is due; here the ticks are counted.   *)
(*                                                                         *)
(* Time is StreamMux.now, one tick per poll_transmit.  How far new data may *)
(* go (flow control and congestion control, module Stream) is any distance  *)
(* up to Cap.  Acks are those of a receiver that may be behind by any       *)
(* amount.  The stream is not closed: a FIN on its own has no offset.       *)
(***************************************************************************)
EXTENDS Integers

CONSTANTS INIT_RTO, MIN_RTO, MAX_RTO,
          Cap,              \* the farthest new data goes past send_base
          MaxNow,           \* bound: polls
          MaxWritten        \* bound: bytes written

ASSUME TimingAssumption ==
    /\ MIN_RTO \in Nat \ {0} /\ MAX_RTO \in Nat /\ INIT_RTO \in MIN_RTO .. MAX_RTO
    /\ Cap \in Nat \ {0} /\ MaxNow \in Nat /\ MaxWritten \in Nat

VARIABLES now,
          send_base, send_high, send_next,
          rto_start, rto, srtt, rttvar,
          timed_seq, timed_sent,  \* timed: the end of the range probed, the tick it left
          last_sent,              \* history: last_sent[k], the tick byte k last left at
          copies                  \* history: copies[k], the times byte k left

send == <<send_base, send_high, send_next>>
timingVars == <<now, send, rto_start, rto, srtt, rttvar, timed_seq, timed_sent, last_sent, copies>>

Unset == -1
Offsets == 0 .. MaxWritten - 1
Outstanding == send_base < send_high

Least(m, n) == IF m <= n THEN m ELSE n
Most(m, n) == IF m >= n THEN m ELSE n
Clamp(x, lo, hi) == Most(lo, Least(x, hi))
AbsDiff(m, n) == IF m >= n THEN m - n ELSE n - m

TimingInit ==
    /\ now = 0
    /\ send_base = 0 /\ send_high = 0 /\ send_next = 0
    /\ rto_start = Unset /\ rto = INIT_RTO /\ srtt = 0 /\ rttvar = 0
    /\ timed_seq = Unset /\ timed_sent = Unset
    /\ last_sent = [k \in Offsets |-> Unset]
    /\ copies = [k \in Offsets |-> 0]

\* recompute_rto: from the smoothed RTT, or the initial value without a sample.
\* Mutant: the estimate is not clamped.
RecomputeUnclamped(srtt_, rttvar_) ==
    IF srtt_ > 0 THEN srtt_ + Most(4 * rttvar_, 1) ELSE INIT_RTO

Recompute(srtt_, rttvar_) ==
    IF srtt_ > 0 THEN Clamp(srtt_ + Most(4 * rttvar_, 1), MIN_RTO, MAX_RTO) ELSE INIT_RTO

\* update_rtt: the smoothed RTT and its variation after a sample of r ticks.
Smoothed(r) == IF srtt = 0 THEN r ELSE (7 * srtt + r) \div 8
Variation(r) == IF srtt = 0 THEN r \div 2 ELSE (3 * rttvar + AbsDiff(srtt, r)) \div 4

\* The sample an ack yields: at least one tick.
Sample == Most(now - timed_sent, 1)

Write ==
    /\ send_next < MaxWritten
    /\ send_next' = send_next + 1
    /\ UNCHANGED <<now, send_base, send_high, rto_start, rto, srtt, rttvar,
                   timed_seq, timed_sent, last_sent, copies>>

\* The bytes [from, to) leave with this poll.
Transmit(from, to) ==
    /\ last_sent' = [k \in Offsets |-> IF from <= k /\ k < to THEN now + 1 ELSE last_sent[k]]
    /\ copies' = [k \in Offsets |-> IF from <= k /\ k < to THEN copies[k] + 1 ELSE copies[k]]

\* transmit() with data that was never sent: it goes first, whatever the timer says.
SendNew(send_end) ==
    /\ send_high < send_end
    /\ Transmit(send_high, send_end)
    /\ send_high' = send_end
    /\ rto_start' = IF rto_start = Unset THEN now + 1 ELSE rto_start
    /\ timed_seq' = IF timed_seq = Unset THEN send_end ELSE timed_seq
    /\ timed_sent' = IF timed_seq = Unset THEN now + 1 ELSE timed_sent
    /\ UNCHANGED rto

RtoDue == rto_start = Unset \/ now + 1 - rto_start >= rto

\* on_rto without its congestion control: back off, and drop the RTT probe (Karn).
\* Mutant: the probe stays.
OnRtoKeepsProbe ==
    rto' = Least(2 * rto, MAX_RTO) /\ UNCHANGED <<timed_seq, timed_sent>>

OnRto ==
    rto' = Least(2 * rto, MAX_RTO) /\ timed_seq' = Unset /\ timed_sent' = Unset

\* transmit() with nothing new to send, and data outstanding.
Retransmit(send_end) ==
    /\ send_high >= send_end /\ Outstanding /\ RtoDue
    /\ Transmit(send_base, send_high)
    /\ rto_start' = now + 1
    /\ OnRto
    /\ UNCHANGED send_high

Quiet(send_end) ==
    /\ send_high >= send_end /\ ~(Outstanding /\ RtoDue)
    /\ UNCHANGED <<send_high, rto_start, rto, timed_seq, timed_sent, last_sent, copies>>

\* A round of poll_transmit.
Poll ==
    /\ now < MaxNow
    /\ now' = now + 1
    /\ \E cap \in 0 .. Cap :
         LET send_end == Least(send_next, send_base + cap)
         IN  SendNew(send_end) \/ Retransmit(send_end) \/ Quiet(send_end)
    /\ UNCHANGED <<send_base, send_next, srtt, rttvar>>

\* The timer after progress: it starts again if data is still outstanding.
\* Mutant: it starts again in any case.
RtoRestartAlways(ack) == now

RtoRestart(ack) == IF ack < send_high THEN now ELSE Unset

\* on_ack: progress restarts or stops the timer and clears the backoff; then the
\* sample, if the range probed is acknowledged.
TimedAck(ack) ==
    /\ ack <= send_high
    /\ LET moved == ack > send_base
           sampled == timed_seq # Unset /\ ack >= timed_seq
       IN  /\ send_base' = Most(send_base, ack)
           /\ rto_start' = IF moved THEN RtoRestart(ack) ELSE rto_start
           /\ srtt' = IF sampled THEN Smoothed(Sample) ELSE srtt
           /\ rttvar' = IF sampled THEN Variation(Sample) ELSE rttvar
           /\ rto' = IF moved \/ sampled THEN Recompute(srtt', rttvar') ELSE rto
           /\ timed_seq' = IF sampled THEN Unset ELSE timed_seq
           /\ timed_sent' = IF sampled THEN Unset ELSE timed_sent
    /\ UNCHANGED <<now, send_high, send_next, last_sent, copies>>

TimingNext == Write \/ Poll \/ \E ack \in 0 .. MaxWritten : TimedAck(ack)

TimingSpec == TimingInit /\ [][TimingNext]_timingVars

-----------------------------------------------------------------------------

\* The clock, the offsets and the timer have their types, and the RTO stays "clamped
\* to `[MIN, MAX]`" (stream.rs:37-40) through samples, backoff and recomputation.
TimingTypeOK ==
    /\ now \in Nat
    /\ send_base \in Nat /\ send_high \in Nat /\ send_next \in 0 .. MaxWritten
    /\ send_base <= send_high /\ send_high <= send_next
    /\ rto_start \in 0 .. now \cup {Unset} /\ rto \in MIN_RTO .. MAX_RTO
    /\ srtt \in Nat /\ rttvar \in Nat
    /\ timed_seq \in 1 .. MaxWritten \cup {Unset} /\ timed_sent \in 0 .. now \cup {Unset}
    /\ last_sent \in [Offsets -> 0 .. now \cup {Unset}] /\ copies \in [Offsets -> Nat]

\* Karn's algorithm (stream.rs:172-173, 279-280): a probe that is open measures a byte
\* that left once, at the tick the probe holds, so no sample takes an ack of one copy
\* for the answer to another.
ProbeUnambiguous ==
    timed_seq # Unset =>
        /\ timed_seq <= send_high
        /\ copies[timed_seq - 1] = 1 /\ last_sent[timed_seq - 1] = timed_sent

\* Zero stands for "no sample yet" (stream.rs:169): no sequence of samples brings the
\* smoothed RTT back to it, and with it the initial RTO.
SampledStaysSampled == [][srtt > 0 => srtt' > 0]_timingVars

\* The timer runs exactly while data is outstanding (stream.rs:164-165).
TimerRunsWhileOutstanding == Outstanding <=> rto_start # Unset

\* The retransmit clock is right: the RTO is in its range, whatever samples and backoffs
\* went before, no RTT sample takes an ack of one copy of a byte for the answer to
\* another, and the timer runs exactly while there is something to send again.
ClockExact ==
    rto \in MIN_RTO .. MAX_RTO /\ ProbeUnambiguous /\ TimerRunsWhileOutstanding

=============================================================================
