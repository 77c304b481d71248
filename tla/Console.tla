------------------------------ MODULE Console ------------------------------
(***************************************************************************)
(* The loop of an interactive session (interactive_loop of                  *)
(* src/bin/noissh.rs with src/status.rs): the detach key in what the user   *)
(* types, the keepalives, and the banner that says the link is silent.      *)
(*                                                                         *)
(* Time is discrete.  One turn of the loop takes no time, and starts when   *)
(* poll() returns: at its timeout, when a datagram or a key is there, or    *)
(* for a reason the model leaves out (an agent connection, a               *)
(* retransmission).  What is left out of the turn is in other modules: the  *)
(* session (Session, StateSync, InputChannel), the screen (Renderer), agent *)
(* connections (Listeners).                                                 *)
(***************************************************************************)
EXTENDS Integers, Sequences, FiniteSets

CONSTANTS KEEPALIVE, STALE_KEEPALIVE, STALE_AFTER, STALE_POLL, SHOW_AFTER,
          Rtt,          \* on a link that is up, an answer takes at most this long
          Keys,         \* what the user may type; "^" is the detach prefix
          MaxTyped      \* bound: how many keys

ASSUME ConsoleAssumption ==
    /\ {KEEPALIVE, STALE_KEEPALIVE, STALE_AFTER, STALE_POLL, SHOW_AFTER} \subseteq Nat \ {0}
    /\ Rtt \in Nat
    /\ STALE_KEEPALIVE <= KEEPALIVE
    /\ KEEPALIVE + Rtt < SHOW_AFTER
    /\ SHOW_AFTER + STALE_POLL <= KEEPALIVE + STALE_AFTER
    /\ KEEPALIVE + STALE_AFTER <= SHOW_AFTER + STALE_KEEPALIVE

VARIABLES typed,                \* history: all keys
          unread,               \* the keys stdin holds
          esc_pending, forwarded,
          status,               \* of the loop: running, or how it ended
          link,                 \* is the link up, and for how long has it been so
          answers,              \* the age of the answers on their way
          arrived,              \* there are datagrams at the socket
          since_contact, next_keepalive,   \* as time passed, and time left
          timeout,              \* what is left of poll()'s
          banner

consoleVars == <<typed, unread, esc_pending, forwarded, status, link, answers, arrived,
                 since_contact, next_keepalive, timeout, banner>>
keyVars == <<typed, unread, esc_pending, forwarded>>
linkVars == <<link, answers, arrived, since_contact, next_keepalive, timeout, banner>>

ESCAPE_KEY == "^"

\* Clocks stop where nothing is told apart any more.
Horizon == SHOW_AFTER + STALE_KEEPALIVE + Rtt + 1
Later(t) == IF t < Horizon THEN t + 1 ELSE t
Sooner(t) == IF t > 0 THEN t - 1 ELSE 0

ConsoleInit ==
    /\ typed = <<>> /\ unread = <<>> /\ esc_pending = FALSE /\ forwarded = <<>>
    /\ status = "running"
    /\ link = [up |-> TRUE, since |-> Horizon]
    /\ answers = {} /\ arrived = FALSE
    /\ since_contact = 0 /\ next_keepalive = KEEPALIVE /\ timeout = KEEPALIVE
    /\ banner = FALSE

-----------------------------------------------------------------------------
\* process_input, on one read.
\* Mutant: a prefix is forgotten with the read it came in.
ReadStartsAnew(pending) == FALSE

ReadStarts(pending) == pending

ProcessByte(s, b) ==
    IF s.pending
    THEN [pending |-> FALSE,
          quit |-> s.quit \/ b \in {".", "q"},
          forward |-> IF b = ESCAPE_KEY THEN Append(s.forward, b) ELSE s.forward]
    ELSE IF b = ESCAPE_KEY THEN [s EXCEPT !.pending = TRUE]
    ELSE [s EXCEPT !.forward = Append(@, b)]

ProcessInput(pending, input) ==
    LET after[n \in 0..Len(input)] ==
            IF n = 0 THEN [pending |-> ReadStarts(pending), quit |-> FALSE, forward |-> <<>>]
            ELSE ProcessByte(after[n - 1], input[n])
    IN  after[Len(input)]

\* status_banner: is there one?
StatusBanner(since) == since >= SHOW_AFTER

\* The time to the next keepalive, when one is sent.
\* Mutant: always the idle interval.
KeepaliveIntervalIdle(since) == KEEPALIVE

KeepaliveInterval(since) == IF since >= STALE_AFTER THEN STALE_KEEPALIVE ELSE KEEPALIVE

\* The timeout of the poll() that follows.
PollTimeout(since, keepalive) ==
    IF since >= STALE_AFTER /\ keepalive > STALE_POLL THEN STALE_POLL ELSE keepalive

\* A datagram that leaves on a link that is up is answered.
Sent(sends) == IF sends /\ link.up THEN answers \cup {0} ELSE answers

\* Nothing is left of the clocks when the loop is over.
LoopOver(how) ==
    /\ status' = how
    /\ link' = [up |-> TRUE, since |-> Horizon]
    /\ answers' = {} /\ arrived' = FALSE /\ banner' = FALSE
    /\ since_contact' = 0 /\ next_keepalive' = KEEPALIVE /\ timeout' = KEEPALIVE

\* One turn: what has arrived, what was typed, the flush, the keepalive and the banner.
\* Keys typed after the detach command, but read with it, are still forwarded.
Turn ==
    /\ status = "running"
    /\ LET since == IF arrived THEN 0 ELSE since_contact
           out == ProcessInput(esc_pending, unread)
           due == next_keepalive = 0
           keepalive == IF due THEN KeepaliveInterval(since) ELSE next_keepalive
       IN  /\ unread' = <<>> /\ esc_pending' = out.pending
           /\ forwarded' = forwarded \o out.forward
           /\ IF out.quit
              THEN LoopOver("quit")
              ELSE /\ arrived' = FALSE /\ since_contact' = since
                   /\ answers' = Sent(due \/ out.forward # <<>>)
                   /\ next_keepalive' = keepalive
                   /\ timeout' = PollTimeout(since, keepalive)
                   /\ banner' = StatusBanner(since)
                   /\ UNCHANGED <<status, link>>
    /\ UNCHANGED typed

\* A signal, or the exit of the remote shell, ends the loop.
Ends ==
    /\ status = "running"
    /\ LoopOver("signalled") \/ LoopOver("exited")
    /\ UNCHANGED keyVars

-----------------------------------------------------------------------------
Type(k) ==
    /\ status = "running" /\ Len(typed) < MaxTyped
    /\ typed' = Append(typed, k) /\ unread' = Append(unread, k)
    /\ UNCHANGED <<esc_pending, forwarded, status, linkVars>>

\* An answer arrives, or something the server sent by itself.
Arrives ==
    /\ status = "running" /\ link.up /\ ~arrived
    /\ arrived' = TRUE
    /\ \/ \E a \in answers : answers' = answers \ {a}
       \/ UNCHANGED answers
    /\ UNCHANGED <<keyVars, status, link, since_contact, next_keepalive, timeout, banner>>

\* The link goes down, and with it what was on its way, or comes back.
LinkChanges ==
    /\ status = "running"
    /\ link' = [up |-> ~link.up, since |-> 0] /\ answers' = {}
    /\ UNCHANGED <<keyVars, status, arrived, since_contact, next_keepalive, timeout, banner>>

\* Time passes only when the loop has nothing to do and no answer is due.
Tick ==
    /\ status = "running"
    /\ timeout > 0 /\ ~arrived /\ unread = <<>> /\ \A a \in answers : a < Rtt
    /\ link' = [link EXCEPT !.since = Later(@)]
    /\ answers' = {a + 1 : a \in answers}
    /\ since_contact' = Later(since_contact)
    /\ next_keepalive' = Sooner(next_keepalive) /\ timeout' = Sooner(timeout)
    /\ UNCHANGED <<keyVars, status, arrived, banner>>

ConsoleNext == Turn \/ Ends \/ (\E k \in Keys : Type(k)) \/ Arrives \/ LinkChanges \/ Tick

ConsoleSpec == ConsoleInit /\ [][ConsoleNext]_consoleVars

-----------------------------------------------------------------------------
\* What a key means depends only on the run of prefixes right before it: every second
\* prefix is a command.
PrefixesBefore(keys, i) ==
    LET starts == {j \in 1..i : \A x \in j..i - 1 : keys[x] = ESCAPE_KEY}
    IN  i - (CHOOSE j \in starts : \A x \in starts : j <= x)
Commanded(keys, i) == PrefixesBefore(keys, i) % 2 = 1
ReadSoFar == Len(typed) - Len(unread)

\* The keys among the first m that the shell is to get: those that are neither a prefix
\* nor commanded, and a literal prefix for every doubled one.
Meant(keys, m) == {i \in 1..m : keys[i] = ESCAPE_KEY <=> Commanded(keys, i)}

\* s has the keys that are meant, each in its place.
Filtered(s, keys, m) ==
    /\ Len(s) = Cardinality(Meant(keys, m))
    /\ \A i \in Meant(keys, m) : s[Cardinality(Meant(keys, i))] = keys[i]

\* However the keys are cut into reads, the shell gets every key that is meant for it, in
\* its place, and no other, and the loop quits once it has read a detach command and not
\* before ("the prefix and its follow-up key can arrive in separate reads",
\* status.rs:81-82).
DetachExact ==
    /\ Filtered(forwarded, typed, ReadSoFar)
    /\ status \in {"running", "quit"} =>
         (status = "quit" <=> \E i \in 1..ReadSoFar : Commanded(typed, i) /\ typed[i] \in {".", "q"})

\* The banner tells the truth about the link.  On a link that is up it never lasts
\* longer than an idle keepalive and a round trip, so "a healthy idle session ... never
\* flashes the banner" (status.rs:26-28), and no longer than a stale keepalive and a
\* round trip once the link is back and the silence has reached the threshold
\* ("within ~1 s of the network returning", noissh.rs:918-919).  And on a link that
\* stays down it shows.
BannerTruthful ==
    /\ banner /\ link.up =>
         /\ link.since <= KEEPALIVE + Rtt
         /\ \/ link.since <= STALE_KEEPALIVE + Rtt
            \/ since_contact <= SHOW_AFTER + STALE_KEEPALIVE + Rtt
    /\ ~banner /\ ~link.up /\ status = "running" => link.since <= KEEPALIVE + STALE_AFTER

============================================================================
