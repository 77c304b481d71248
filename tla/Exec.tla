-------------------------------- MODULE Exec --------------------------------
(***************************************************************************)
(* A remote command: Client::run_exec_with (src/client.rs), the exec part   *)
(* of Server::pump_forwards (src/server.rs) and ExecProc (src/exec.rs).     *)
(*                                                                         *)
(* Three directions carry bytes, which are counted: "in" and "out" are the  *)
(* two halves of the stream the client opened, "err" is the stream the      *)
(* server opens back.  As in module StreamMux, a StreamClose arrives        *)
(* whatever data is still on its way, StreamOpen and StreamReset are sent   *)
(* once, FIN and StreamClose until an ack of all the data has come, though  *)
(* it left before they arrived, and an end that has closed its half and has *)
(* seen the StreamClose gives the stream up after CLOSE_GRACE_TICKS polls   *)
(* without a FIN.  The behaviours start when the server learns of the       *)
(* client's stream.                                                         *)
(***************************************************************************)
EXTENDS Integers

CONSTANTS SEND_CAP, CLOSE_GRACE_TICKS,
          WINDOW,               \* receive window of a stream
          PipeRoom,             \* what the child's stdin pipe holds
          Uses,                 \* bound: the bytes of the client's stdin, and those that the
                                \* child writes at most to "out" and "err"
          Codes                 \* exit codes

Outputs == {"out", "err"}

ASSUME ExecAssumption ==
    /\ SEND_CAP \in Nat \ {0} /\ CLOSE_GRACE_TICKS \in Nat \ {0} /\ WINDOW \in Nat \ {0}
    /\ PipeRoom \in Nat \ {0} /\ Uses \subseteq [stdin : Nat, output : [Outputs -> Nat]]
    /\ Codes \subseteq Nat

VARIABLES stream,       \* stream[k]: written, arrived and read bytes, FIN and StreamClose,
                        \* and whether the sender takes them for acknowledged
          client,       \* the locals of run_exec_with
          proc,         \* the server's ExecState; got counts the bytes in the child's stdin pipe
          child,        \* the command, and the processes that share its pipes
          once          \* the frames sent once: the StreamOpen of "err", the StreamReset

vars == <<stream, client, proc, child, once>>

None == -1

Init ==
    /\ stream = [k \in Outputs \cup {"in"} |->
                    [written |-> 0, arrived |-> 0, read |-> 0, fin |-> FALSE,
                     fin_known |-> FALSE, close |-> "none", fin_acked |-> FALSE]]
    /\ proc = [status |-> "opened", stdin |-> TRUE, stdin_buf |-> 0, got |-> 0,
               pipe |-> [k \in Outputs |-> TRUE], exit |-> None, ticks |-> 0]
    /\ \E use \in Uses :
        /\ client = [stdin |-> use.stdin, stdin_eof |-> FALSE, err_id |-> FALSE, exit_code |-> None,
                     ticks |-> 0, retired |-> FALSE, result |-> "running"]
        /\ child = [output |-> use.output, used |-> 0, wrote |-> [k \in Outputs |-> 0], exit |-> None,
                    closed |-> [k \in Outputs |-> FALSE]]
    /\ once = [open |-> "none", reset |-> "none"]

Unread(k) == stream[k].arrived - stream[k].read

-----------------------------------------------------------------------------
\* ExecProc.

Fewer(m, n) == IF m <= n THEN m ELSE n

\* flush_stdin: what fits; a child that has exited breaks the pipe.
FlushStdin(p) ==
    LET n == Fewer(p.stdin_buf, PipeRoom - (p.got - child.used))
    IN  IF ~p.stdin THEN [p EXCEPT !.stdin_buf = 0]
        ELSE IF child.exit # None /\ p.stdin_buf > 0
        THEN [p EXCEPT !.stdin = FALSE, !.stdin_buf = 0]
        ELSE [p EXCEPT !.stdin_buf = @ - n, !.got = @ + n]

CloseStdin(p) == [FlushStdin(p) EXCEPT !.stdin = FALSE]

\* write_stdin
\* Mutant: new bytes only, when some are staged.
WriteStdinOver(p, n) == IF p.stdin /\ n > 0 THEN FlushStdin([p EXCEPT !.stdin_buf = n]) ELSE p

WriteStdin(p, n) == IF p.stdin /\ n > 0 THEN FlushStdin([p EXCEPT !.stdin_buf = @ + n]) ELSE p

\* finished
\* Mutants: without waiting for the exit; without waiting for stderr.
FinishedUnreaped(p) == \A k \in Outputs : ~p.pipe[k]
FinishedHalf(p) == p.exit # None /\ ~p.pipe["out"]

Finished(p) == p.exit # None /\ \A k \in Outputs : ~p.pipe[k]

ExitCode(p) == IF p.exit = None THEN 0 ELSE p.exit

-----------------------------------------------------------------------------
\* The exec part of pump_forwards.

\* Client bytes taken from the stream, unless too much is staged already.
StdinTaken(p) == IF p.stdin_buf < SEND_CAP THEN Unread("in") ELSE 0

\* The output pipes that are read in this round.
\* Mutant: only while the command runs.
PumpedWhileRunning(p, k) ==
    p.pipe[k] /\ stream[k].written - stream[k].arrived < SEND_CAP /\ child.exit = None

Pumped(p, k) == p.pipe[k] /\ stream[k].written - stream[k].arrived < SEND_CAP

ServerPump ==
    /\ proc.status \in {"opened", "running"}
    /\ \E p0 \in {IF stream["in"].close = "event" THEN CloseStdin(proc) ELSE proc} :
       \E p1 \in {FlushStdin(WriteStdin(p0, StdinTaken(p0)))} :
       LET p2 == [p1 EXCEPT !.pipe = [k \in Outputs |-> @[k] /\ ~(Pumped(p1, k) /\ child.closed[k])],
                            !.exit = IF child.exit # None THEN child.exit ELSE @]
           Moved(k) == IF Pumped(p1, k) THEN child.wrote[k] - stream[k].written ELSE 0
       IN  /\ proc' = [p2 EXCEPT !.status = IF Finished(p2) THEN "done" ELSE "running"]
           /\ stream' = [k \in DOMAIN stream |->
                            IF k = "in"
                            THEN [stream[k] EXCEPT !.read = @ + StdinTaken(p0),
                                                   !.close = IF @ = "event" THEN "seen" ELSE @]
                            ELSE [stream[k] EXCEPT !.written = @ + Moved(k), !.fin = Finished(p2)]]
    /\ once' = [once EXCEPT !.open = IF proc.status = "opened" THEN "sent" ELSE @]
    /\ UNCHANGED <<client, child>>

\* The command could not be spawned, or exec is refused.
ServerRefuses ==
    /\ proc.status = "opened"
    /\ proc' = [proc EXCEPT !.status = "refused"]
    /\ once' = [once EXCEPT !.reset = "sent"]
    /\ UNCHANGED <<stream, client, child>>

-----------------------------------------------------------------------------
\* One round of run_exec_with.

\* is_recv_finished, for the bytes read so far; true of a stream that was given up.
RecvFinished(k) ==
    stream[k].fin_known /\ stream[k].arrived = stream[k].written

\* fully_done by the grace period, at the client and, of the same stream, at the server.
GivenUp(c) == c.ticks >= CLOSE_GRACE_TICKS

\* The stdin that is read: a chunk, the end, or nothing yet.
StdinRead(c) ==
    IF c.stdin_eof THEN {"nothing"}
    ELSE IF stream["in"].written < c.stdin THEN {"nothing", "chunk"} ELSE {"nothing", "eof"}

\* The loop ends when the exit code is known and the output is drained.
Done(c) ==
    /\ c.exit_code # None
    /\ RecvFinished("out") \/ GivenUp(c)
    /\ c.err_id => RecvFinished("err")

ClientRound(input) ==
    /\ client.result = "running" /\ once.reset # "event"
    /\ LET c0 == [client EXCEPT
                     !.err_id = @ \/ once.open = "event",
                     !.exit_code = IF stream["out"].close = "event" THEN ExitCode(proc) ELSE @,
                     !.stdin_eof = @ \/ input = "eof"]
           waits == c0.exit_code # None /\ c0.stdin_eof /\ ~stream["out"].fin_known
           c1 == [c0 EXCEPT !.ticks = IF waits THEN Fewer(@ + 1, CLOSE_GRACE_TICKS) ELSE @,
                            !.retired = @ \/ (stream["in"].fin_acked /\ RecvFinished("out"))]
       IN  /\ client' = [c1 EXCEPT !.result = IF Done(c1) THEN "ok" ELSE @]
           /\ stream' = [stream EXCEPT
                            !["in"].written = IF input = "chunk" THEN @ + 1 ELSE @,
                            !["in"].fin = c1.stdin_eof,
                            !["out"].read = stream["out"].arrived,
                            !["out"].close = IF @ = "event" THEN "seen" ELSE @,
                            !["err"].read = IF c1.err_id THEN stream["err"].arrived ELSE @]
    /\ once' = [once EXCEPT !.open = IF @ = "event" THEN "seen" ELSE @]
    /\ UNCHANGED <<proc, child>>

\* The Reset event of its stream ends it with an error.
ClientAborts ==
    /\ client.result = "running" /\ once.reset = "event"
    /\ client' = [client EXCEPT !.result = "err"]
    /\ once' = [once EXCEPT !.reset = "seen"]
    /\ UNCHANGED <<stream, proc, child>>

-----------------------------------------------------------------------------
\* The streams.

\* The receiver has the stream in its map: it knows of it, and has not given it up, nor
\* retired it when both halves were done, even if the StreamClose had not come yet.
Known(k) ==
    CASE k = "in"  -> proc.status # "refused" /\ ~GivenUp(proc)
      [] k = "out" -> client.result = "running" /\ ~GivenUp(client) /\ ~client.retired
      [] k = "err" -> client.result = "running" /\ once.open \in {"event", "seen"}

Arrive(k) ==
    /\ Known(k) /\ stream[k].arrived < stream[k].written /\ Unread(k) < WINDOW
    /\ stream' = [stream EXCEPT ![k].arrived = @ + 1]
    /\ UNCHANGED <<client, proc, child, once>>

\* The FIN comes on the last data, once there is window for it.
FinArrives(k) ==
    /\ Known(k) /\ stream[k].fin /\ ~stream[k].fin_known
    /\ stream[k].written - stream[k].read <= WINDOW
    /\ stream' = [stream EXCEPT ![k].fin_known = TRUE]
    /\ UNCHANGED <<client, proc, child, once>>

\* A Closed event of the stderr stream is ignored by the client.
CloseArrives(k) ==
    /\ k # "err" /\ Known(k) /\ stream[k].fin /\ stream[k].close = "none"
    /\ stream' = [stream EXCEPT ![k].close = "event"]
    /\ UNCHANGED <<client, proc, child, once>>

\* An ack covers all the data.  It may have left before the FIN or the StreamClose came.
FinAcked(k) ==
    /\ stream[k].fin /\ ~stream[k].fin_acked /\ stream[k].arrived = stream[k].written
    /\ k = "err" => Known(k)
    /\ stream' = [stream EXCEPT ![k].fin_acked = TRUE]
    /\ UNCHANGED <<client, proc, child, once>>

\* A poll of the server once the command is done: it has closed its half, and counts while
\* it has the client's StreamClose and not its FIN.
ServerWaits ==
    /\ proc.status = "done" /\ stream["in"].close # "none" /\ ~stream["in"].fin_known
    /\ ~GivenUp(proc)
    /\ proc' = [proc EXCEPT !.ticks = @ + 1]
    /\ UNCHANGED <<stream, client, child, once>>

OnceArrives(f) ==
    /\ once[f] = "sent"
    /\ once' = [once EXCEPT ![f] = "event"]
    /\ UNCHANGED <<stream, client, proc, child>>

OnceLost(f) ==
    /\ once[f] = "sent"
    /\ once' = [once EXCEPT ![f] = "lost"]
    /\ UNCHANGED <<stream, client, proc, child>>

\* The command.  It may close its output early, and what it leaves running may hold the
\* pipes open after it has exited.
Spawned == proc.status \notin {"opened", "refused"}

ChildReads ==
    /\ child.used < proc.got /\ child.exit = None
    /\ child' = [child EXCEPT !.used = @ + 1]
    /\ UNCHANGED <<stream, client, proc, once>>

ChildWrites(k) ==
    /\ Spawned /\ ~child.closed[k] /\ child.wrote[k] < child.output[k]
    /\ child' = [child EXCEPT !.wrote[k] = @ + 1]
    /\ UNCHANGED <<stream, client, proc, once>>

ChildExits(code) ==
    /\ Spawned /\ child.exit = None
    /\ child' = [child EXCEPT !.exit = code]
    /\ UNCHANGED <<stream, client, proc, once>>

PipeCloses(k) ==
    /\ Spawned /\ ~child.closed[k]
    /\ child' = [child EXCEPT !.closed[k] = TRUE]
    /\ UNCHANGED <<stream, client, proc, once>>

Next ==
    \/ ServerPump \/ ServerRefuses \/ ClientAborts
    \/ \E input \in StdinRead(client) : ClientRound(input)
    \/ \E k \in DOMAIN stream : Arrive(k) \/ FinArrives(k) \/ CloseArrives(k) \/ FinAcked(k)
    \/ ServerWaits
    \/ \E f \in DOMAIN once : OnceArrives(f) \/ OnceLost(f)
    \/ ChildReads
    \/ \E k \in Outputs : ChildWrites(k) \/ PipeCloses(k)
    \/ \E code \in Codes : ChildExits(code)

Spec == Init /\ [][Next]_vars

\* The sender has the stream in its map, and data, FIN or StreamClose to send again.
Retransmits(k) ==
    /\ ~stream[k].fin_acked
    /\ k = "in" => client.result = "running" /\ ~GivenUp(client) /\ ~client.retired
    /\ k = "out" => ~GivenUp(proc)

\* Both loops turn, whether or not there is any stdin to read, and as long as something is
\* sent again and again some of it arrives.
Deliver ==
    \/ \E k \in DOMAIN stream : Retransmits(k) /\ (Arrive(k) \/ FinArrives(k) \/ CloseArrives(k))
    \/ \E f \in DOMAIN once : OnceArrives(f)

Fairness ==
    WF_vars(ServerPump) /\ WF_vars(ClientRound("nothing") \/ ClientAborts) /\ WF_vars(Deliver)

FairSpec == Spec /\ Fairness

-----------------------------------------------------------------------------

\* The exit code run_exec returns is the command's ("noissh exits with the command's exit
\* code", docs/USER_GUIDE.md:395), never the 0 of exit_code() for a command still running.
ExitCodeIsTheCommands ==
    client.result = "ok" => child.exit # None /\ client.exit_code = child.exit

\* The server closes the streams only when they hold all the output, also that of
\* processes the command leaves behind with its pipes (exec.rs:167-170).
ClosesAfterDraining ==
    proc.status = "done" =>
        \A k \in Outputs : child.closed[k] /\ stream[k].written = child.wrote[k]

\* Both: what the command left, its exit code and all its output, is what is reported.
OutcomeExact == ExitCodeIsTheCommands /\ ClosesAfterDraining

\* What reaches the command is a prefix of the client's stdin with nothing left out,
\* as long as its stdin is open.
StdinContiguous == proc.stdin => proc.got + proc.stdin_buf = stream["in"].read

\* The command's output or exit code is lost: the server sends no more of the stream, or the
\* client takes no more of it, before the StreamClose with the exit code has come; or what is
\* missing of the output is not sent again, and the client does not give the stream up.
OutLost ==
    \/ /\ stream["out"].close = "none"
       /\ ~Retransmits("out") \/ client.retired
    \/ /\ ~Retransmits("out") /\ ~RecvFinished("out")
       /\ stream["out"].fin_known \/ ~client.stdin_eof

\* The end of the errors is lost; or they pile up at the server, since the client does not
\* know of their stream.
ErrLost ==
    \/ client.err_id /\ ~Retransmits("err") /\ ~stream["err"].fin_known
    \/ once.open = "lost" /\ proc.pipe["err"] /\ ~Pumped(proc, "err")

\* run_exec comes back: with the exit code once all the command's pipes are closed, with
\* an error when the server refuses.  It does not where a frame it waits for is lost and not
\* sent again: the one StreamReset, the one StreamOpen of a stderr that then fills up, and a
\* FIN or StreamClose after an early ack or the server's grace period (stream.rs:247, 293).
RunExecReturns ==
    (\/ child.exit # None /\ \A k \in Outputs : child.closed[k]
     \/ proc.status = "refused")
       ~> [](client.result # "running" \/ once.reset = "lost" \/ OutLost \/ ErrLost)

=============================================================================
