------------------------------- MODULE Socks -------------------------------
(***************************************************************************)
(* The SOCKS negotiation in front of a dynamic forward (src/socks.rs): an   *)
(* application connects to a -D port, asks for a target, and its connection *)
(* is handed to the forwarder (module Listeners).                           *)
(*                                                                         *)
(* The application sends a script of bytes at its own pace, so that each    *)
(* call of negotiate() finds some piece of it, and may not take its replies *)
(* at once.  An IPv4 address is 4 bytes, as in the code; an IPv6 address is *)
(* shorter here.  A reply is one symbol.                                    *)
(***************************************************************************)
EXTENDS Integers, Sequences, SequencesExt

CONSTANTS Scripts,      \* what an application may send: see Script
          Ipv6Length,
          MAX_NEGOTIATION_BYTES

VARIABLES script,       \* this application's
          sent,         \* how many bytes of it the socket has got
          closed,       \* it has closed the connection
          read,         \* how many bytes were read
          inbuf, out, phase, target,    \* the fields of SocksConn
          replies,      \* what the application was told
          progress      \* what negotiate() returned last

socksVars == <<script, sent, closed, read, inbuf, out, phase, target, replies, progress>>

\* A script: its bytes, the target it asks for if it is a proper request, what follows
\* the request, and whether the request is whole (or hopeless) as it stands.
Script(bytes, t, data, whole) == [bytes |-> bytes, target |-> t, data |-> data, whole |-> whole]
NoTarget == <<>>

\* "host:port", the host dotted, in brackets or as it came.
TargetOf(form, host, port) == <<form, host, 256 * port[1] + port[2]>>
InvalidUtf8 == 255

SocksInit ==
    /\ script \in Scripts
    /\ sent = 0 /\ closed = FALSE /\ read = 0
    /\ inbuf = <<>> /\ out = <<>> /\ phase = "Greeting" /\ target = NoTarget
    /\ replies = <<>> /\ progress = "Pending"

-----------------------------------------------------------------------------
\* The parser works on a record of the fields it changes.
Drain(s, n) == [s EXCEPT !.inbuf = SubSeq(@, n + 1, Len(@))]
Fail(s, reply) == [s EXCEPT !.out = @ \o reply, !.phase = "Failed"]
Granted(s, n, t) == [Drain(s, n) EXCEPT !.out = Append(@, "granted"), !.target = t, !.phase = "Done"]
IsUtf8(bytes) == \A i \in DOMAIN bytes : bytes[i] # InvalidUtf8

\* The greeting of version 5: the methods are counted and passed over.
\* Mutant: it does not wait for all of them.
GreetingEnd5Early(b) == IF Len(b) < 2 THEN 0 ELSE IF Len(b) < 2 + b[2] THEN Len(b) ELSE 2 + b[2]

GreetingEnd5(b) == IF Len(b) < 2 \/ Len(b) < 2 + b[2] THEN 0 ELSE 2 + b[2]

Greeting5(s) ==
    IF Len(s.inbuf) >= 2 /\ s.inbuf[2] = 0 THEN Fail(s, <<>>)
    ELSE IF GreetingEnd5(s.inbuf) = 0 THEN s
    ELSE [Drain(s, GreetingEnd5(s.inbuf)) EXCEPT !.out = Append(@, "method"), !.phase = "Request"]

\* parse_socks5_request: [ver, cmd, rsv, atyp, addr.., port(2)].
Request5(s) ==
    LET b == s.inbuf
        start == IF b[4] = 3 THEN 5 ELSE 4
        length == CASE b[4] = 1 -> 4 [] b[4] = 4 -> Ipv6Length [] b[4] = 3 -> b[5]
        need == start + length + 2
        host == SubSeq(b, start + 1, start + length)
    IN  IF Len(b) < 4 THEN s
        ELSE IF b[1] # 5 THEN Fail(s, <<"failure">>)
        ELSE IF b[4] \notin {1, 3, 4} THEN Fail(s, <<"address type">>)
        ELSE IF (b[4] = 3 /\ Len(b) < 5) \/ Len(b) < need THEN s
        ELSE IF b[2] # 1 THEN Fail(s, <<"command">>)
        ELSE IF b[4] = 3 /\ ~IsUtf8(host) THEN Fail(s, <<"failure">>)
        ELSE Granted(s, need, TargetOf(CASE b[4] = 1 -> "dotted" [] b[4] = 4 -> "brackets" [] b[4] = 3 -> "name",
                                       host, SubSeq(b, need - 1, need)))

\* parse_socks4: [4, cmd, port(2), ip(4), userid, 0], and [host, 0] for version 4a.
Request4(s) ==
    LET b == s.inbuf
        ip == SubSeq(b, 5, 8)
        nulAfter(i) == SelectInSubSeq(b, i + 1, Len(b), LAMBDA c : c = 0)
        uid_nul == nulAfter(8)
        is_4a == SubSeq(ip, 1, 3) = <<0, 0, 0>> /\ ip[4] # 0
        host_nul == nulAfter(uid_nul)
        host == IF is_4a THEN SubSeq(b, uid_nul + 1, host_nul - 1) ELSE ip
    IN  IF Len(b) < 9 THEN s
        ELSE IF ip = <<0, 0, 0, 0>> THEN Fail(s, <<"rejected">>)
        ELSE IF uid_nul = 0 \/ (is_4a /\ host_nul = 0) THEN s
        ELSE IF (is_4a /\ ~IsUtf8(host)) \/ b[2] # 1 THEN Fail(s, <<"rejected">>)
        ELSE Granted(s, IF is_4a THEN host_nul ELSE uid_nul,
                     TargetOf(IF is_4a THEN "name" ELSE "dotted", host, SubSeq(b, 3, 4)))

\* try_parse: a greeting and the request behind it may be there at once.
TryParse(s) ==
    IF s.phase = "Greeting" /\ s.inbuf # <<>>
    THEN IF s.inbuf[1] = 4 THEN Request4(s)
         ELSE IF s.inbuf[1] # 5 THEN Fail(s, <<>>)
         ELSE IF Greeting5(s).phase = "Request" THEN Request5(Greeting5(s)) ELSE Greeting5(s)
    ELSE IF s.phase = "Request" THEN Request5(s) ELSE s

-----------------------------------------------------------------------------
\* negotiate().  A call flushes replies, some of them or all, reads all there is,
\* parses, and flushes again.  The end of the input fails it, even behind a whole
\* request, and so does too much of it.
Negotiate ==
    /\ progress = "Pending"
    /\ \E m \in 0..Len(out) :
         LET flushed == SubSeq(out, m + 1, Len(out))
             b == inbuf \o SubSeq(script.bytes, read + 1, sent)
             s == TryParse([inbuf |-> b, out |-> flushed, phase |-> phase, target |-> target])
         IN  IF phase = "Failed" \/ closed \/ Len(b) > MAX_NEGOTIATION_BYTES
             THEN /\ replies' = replies \o SubSeq(out, 1, m)
                  /\ progress' = "Failed"
                  /\ UNCHANGED <<read, inbuf, out, phase, target>>
             ELSE \E n \in 0..Len(s.out) :
                    /\ replies' = replies \o SubSeq(out, 1, m) \o SubSeq(s.out, 1, n)
                    /\ out' = SubSeq(s.out, n + 1, Len(s.out))
                    /\ read' = sent /\ inbuf' = s.inbuf
                    /\ phase' = s.phase /\ target' = s.target
                    /\ progress' = CASE s.phase = "Failed" -> "Failed"
                                     [] s.phase = "Done" /\ n = Len(s.out) -> "Connected"
                                     [] OTHER -> "Pending"
    /\ UNCHANGED <<script, sent, closed>>

\* A write or a read fails: the connection is gone.
SocketError ==
    /\ progress = "Pending" /\ ~closed
    /\ closed' = TRUE /\ progress' = "Failed"
    /\ UNCHANGED <<script, sent, read, inbuf, out, phase, target, replies>>

AppSends ==
    /\ ~closed /\ sent < Len(script.bytes) /\ progress = "Pending"
    /\ sent' = sent + 1
    /\ UNCHANGED <<script, closed, read, inbuf, out, phase, target, replies, progress>>

AppCloses ==
    /\ ~closed /\ progress = "Pending"
    /\ closed' = TRUE
    /\ UNCHANGED <<script, sent, read, inbuf, out, phase, target, replies, progress>>

SocksNext == Negotiate \/ SocketError \/ AppSends \/ AppCloses

-----------------------------------------------------------------------------
\* However the application's bytes are cut up, and whenever it takes its replies: its
\* connection is handed over for the target it asked for, when it has been told so and
\* not before, and with everything it sent behind the request, so that nothing is lost
\* and no byte of the negotiation reaches the target.  A proper request is refused only
\* if the application closed or sent too much behind it; and once its bytes are read and
\* the replies taken, only an unfinished request is still pending.
SocksExact ==
    /\ progress = "Connected" =>
         /\ script.target # NoTarget /\ target = script.target
         /\ inbuf = SubSeq(script.data, 1, read - (Len(script.bytes) - Len(script.data)))
         /\ replies = IF script.bytes[1] = 5 THEN <<"method", "granted">> ELSE <<"granted">>
    /\ progress = "Failed" /\ ~closed /\ sent <= MAX_NEGOTIATION_BYTES =>
         script.whole /\ script.target = NoTarget
    /\ progress = "Pending" /\ read = Len(script.bytes) /\ out = <<>> => ~script.whole

=============================================================================
