---------------------------- MODULE ClientProofs ----------------------------
(***************************************************************************)
(* The two loops of a client.  For every cap, window, pipe, amount of input *)
(* and output and exit code: what run_exec reports is what the command      *)
(* left, and what reaches the command is what the client sent (Exec).  For  *)
(* every set of intervals, whenever the loop wakes up and whenever the link *)
(* comes and goes: the banner tells the truth about the link; and for       *)
(* everything the user may type: a key reaches the shell or detaches,       *)
(* however the keys are cut into reads (Console).                           *)
(***************************************************************************)
EXTENDS Exec, Console, FiniteSetTheorems, WellFoundedInduction, TLAPS

Flows == [written : Nat, arrived : Nat, read : Nat, fin : BOOLEAN, fin_known : BOOLEAN,
          close : {"none", "event", "seen"}, fin_acked : BOOLEAN]
Clients == [stdin : Nat, stdin_eof : BOOLEAN, err_id : BOOLEAN, exit_code : Nat \cup {None},
            ticks : Nat, retired : BOOLEAN, result : {"running", "ok", "err"}]
Procs == [status : {"opened", "running", "done", "refused"}, stdin : BOOLEAN, stdin_buf : Nat,
          got : Nat, pipe : [Outputs -> BOOLEAN], exit : Nat \cup {None}, ticks : Nat]
Children == [output : [Outputs -> Nat], used : Nat, wrote : [Outputs -> Nat], exit : Nat \cup {None},
             closed : [Outputs -> BOOLEAN]]

ExecTypeOK ==
    /\ stream \in [Outputs \cup {"in"} -> Flows] /\ client \in Clients
    /\ proc \in Procs /\ child \in Children

\* The child's stdin pipe holds no more than fits, and what is taken from the stream had
\* arrived and is there, staged or in the pipe.
StdinOK(p) ==
    /\ child.used <= p.got /\ p.got <= child.used + PipeRoom
    /\ p.stdin => p.got + p.stdin_buf = stream["in"].read

InputOK == stream["in"].read <= stream["in"].arrived /\ StdinOK(proc)

\* An output pipe is given up when it is empty and no process can write to it.
OutputOK ==
    \A k \in Outputs :
        /\ stream[k].written <= child.wrote[k]
        /\ ~proc.pipe[k] => child.closed[k] /\ stream[k].written = child.wrote[k]

\* An exit code anywhere is the command's, and the server closes its halves, with the
\* code, only when it is finished.
CodesOK ==
    /\ proc.exit # None => child.exit = proc.exit
    /\ client.exit_code # None => child.exit = client.exit_code
    /\ client.result = "ok" => client.exit_code # None
    /\ proc.status = "done" => Finished(proc)
    /\ \A k \in Outputs : stream[k].fin => proc.status = "done"
    /\ stream["out"].close # "none" => stream["out"].fin

IInv == ExecTypeOK /\ InputOK /\ OutputOK /\ CodesOK

LEMMA NoneFacts == None \notin Nat
  BY DEF None

LEMMA ExecInit == Init => IInv
  <1> SUFFICES ASSUME Init PROVE IInv
    OBVIOUS
  <1>1. ExecTypeOK
    <2>1. stream \in [Outputs \cup {"in"} -> Flows] /\ proc \in Procs
      BY DEF Init, Flows, Procs
    <2>2. client \in Clients /\ child \in Children
      BY ExecAssumption DEF Init, Clients, Children
    <2>3. QED
      BY <2>1, <2>2 DEF ExecTypeOK
  <1>2. InputOK /\ OutputOK
    BY ExecAssumption DEF Init, InputOK, StdinOK, OutputOK
  <1>3. CodesOK
    BY DEF Init, CodesOK, Outputs
  <1>4. QED
    BY <1>1, <1>2, <1>3 DEF IInv

-----------------------------------------------------------------------------

\* What the methods of ExecProc that feed stdin leave alone.
Feeds(p, q) ==
    /\ q \in Procs /\ q.status = p.status /\ q.pipe = p.pipe /\ q.exit = p.exit
    /\ child.used <= q.got /\ q.got <= child.used + PipeRoom
    /\ q.stdin => p.stdin

\* flush_stdin loses no byte as long as stdin is open.
LEMMA FlushFacts ==
    ASSUME child \in Children, NEW p \in Procs, child.used <= p.got, p.got <= child.used + PipeRoom
    PROVE  LET q == FlushStdin(p)
           IN  Feeds(p, q) /\ (q.stdin => q.got + q.stdin_buf = p.got + p.stdin_buf)
  <1> DEFINE n == Fewer(p.stdin_buf, PipeRoom - (p.got - child.used))
             q == FlushStdin(p)
  <1>1. p.stdin_buf \in Nat /\ p.got \in Nat /\ child.used \in Nat /\ PipeRoom \in Nat
    BY ExecAssumption DEF Procs, Children
  <1>2. n \in Nat /\ n <= p.stdin_buf /\ p.got + n <= child.used + PipeRoom
    BY <1>1 DEF Fewer
  <1>3. \/ ~p.stdin /\ q = [p EXCEPT !.stdin_buf = 0]
        \/ q = [p EXCEPT !.stdin = FALSE, !.stdin_buf = 0]
        \/ q = [p EXCEPT !.stdin_buf = p.stdin_buf - n, !.got = p.got + n]
    BY DEF FlushStdin
  <1> HIDE DEF n, q
  <1>4. CASE ~p.stdin /\ q = [p EXCEPT !.stdin_buf = 0]
    BY <1>1, <1>4 DEF Feeds, Procs, q
  <1>5. CASE q = [p EXCEPT !.stdin = FALSE, !.stdin_buf = 0]
    <2>1. q \in Procs
      BY <1>5, Zenon DEF Procs
    <2>2. /\ q.status = p.status /\ q.pipe = p.pipe /\ q.exit = p.exit
          /\ ~q.stdin /\ q.got = p.got
      BY <1>5 DEF Procs
    <2>3. QED
      BY <2>1, <2>2 DEF Feeds, q
  <1>6. CASE q = [p EXCEPT !.stdin_buf = p.stdin_buf - n, !.got = p.got + n]
    <2>1. p.stdin_buf - n \in Nat /\ p.got + n \in Nat
      BY <1>1, <1>2
    <2>2. q \in Procs
      BY <1>6, <2>1, Zenon DEF Procs
    <2>3. /\ q.status = p.status /\ q.pipe = p.pipe /\ q.exit = p.exit /\ q.stdin = p.stdin
          /\ q.stdin_buf = p.stdin_buf - n /\ q.got = p.got + n
      BY <1>6 DEF Procs
    <2>4. QED
      BY <1>1, <1>2, <2>2, <2>3 DEF Feeds, q
  <1>7. QED
    BY <1>3, <1>4, <1>5, <1>6 DEF q

LEMMA CloseFacts ==
    ASSUME child \in Children, NEW p \in Procs, child.used <= p.got, p.got <= child.used + PipeRoom
    PROVE  Feeds(p, CloseStdin(p)) /\ ~CloseStdin(p).stdin
  <1> DEFINE q == FlushStdin(p)
             r == CloseStdin(p)
  <1>1. Feeds(p, q)
    BY FlushFacts
  <1>2. r = [q EXCEPT !.stdin = FALSE]
    BY DEF CloseStdin
  <1> HIDE DEF q, r
  <1>3. q \in Procs
    BY <1>1 DEF Feeds
  <1>4. /\ r \in Procs /\ r.status = q.status /\ r.pipe = q.pipe /\ r.exit = q.exit
        /\ r.got = q.got /\ ~r.stdin
    BY <1>2, <1>3, Zenon DEF Procs
  <1>5. QED
    BY <1>1, <1>4 DEF Feeds, r

LEMMA WriteFacts ==
    ASSUME child \in Children, NEW p \in Procs, child.used <= p.got, p.got <= child.used + PipeRoom,
           NEW n \in Nat
    PROVE  LET q == WriteStdin(p, n)
           IN  Feeds(p, q) /\ (q.stdin => q.got + q.stdin_buf = p.got + p.stdin_buf + n)
  <1>1. p.stdin_buf \in Nat /\ p.got \in Nat /\ p.stdin \in BOOLEAN
    BY DEF Procs
  <1>2. CASE ~(p.stdin /\ n > 0)
    <2>1. WriteStdin(p, n) = p
      BY <1>2 DEF WriteStdin
    <2>2. QED
      BY <1>1, <1>2, <2>1 DEF Feeds
  <1>3. CASE p.stdin /\ n > 0
    <2> DEFINE r == [p EXCEPT !.stdin_buf = p.stdin_buf + n]
               q == FlushStdin(r)
    <2>1. WriteStdin(p, n) = q
      BY <1>3 DEF WriteStdin
    <2>2. /\ r \in Procs /\ r.status = p.status /\ r.pipe = p.pipe /\ r.exit = p.exit
          /\ r.got = p.got /\ r.stdin = p.stdin /\ r.stdin_buf = p.stdin_buf + n
      BY <1>1 DEF Procs
    <2> HIDE DEF r
    <2>3. Feeds(r, q) /\ (q.stdin => q.got + q.stdin_buf = r.got + r.stdin_buf)
      BY <2>2, FlushFacts
    <2> HIDE DEF q
    <2>4. QED
      BY <1>1, <2>1, <2>2, <2>3 DEF Feeds
  <1>4. QED
    BY <1>2, <1>3

-----------------------------------------------------------------------------

\* What a round of the server leaves in proc and in the streams: the bytes it took are
\* staged or in the pipe, an output it gave up was drained, and it is done exactly when
\* it has closed both.
LEMMA PumpFacts ==
    ASSUME IInv, ServerPump
    PROVE  /\ proc' \in Procs /\ stream' \in [Outputs \cup {"in"} -> Flows]
           /\ InputOK' /\ OutputOK' /\ CodesOK'
  <1>1. /\ stream \in [Outputs \cup {"in"} -> Flows] /\ proc \in Procs /\ child \in Children
        /\ proc.status \in {"opened", "running"}
    BY Zenon DEF IInv, ExecTypeOK, ServerPump
  <1>2. /\ child.used <= proc.got /\ proc.got <= child.used + PipeRoom
        /\ proc.stdin => proc.got + proc.stdin_buf = stream["in"].read
        /\ stream["in"].read <= stream["in"].arrived
    BY DEF IInv, InputOK, StdinOK
  <1>3. UNCHANGED <<client, child>>
    BY Zenon DEF ServerPump
  <1>4. PICK p0 :
           /\ p0 = IF stream["in"].close = "event" THEN CloseStdin(proc) ELSE proc
           /\ \E p1 \in {FlushStdin(WriteStdin(p0, StdinTaken(p0)))} :
             LET p2 == [p1 EXCEPT !.pipe = [k \in Outputs |-> @[k] /\ ~(Pumped(p1, k) /\ child.closed[k])],
                                  !.exit = IF child.exit # None THEN child.exit ELSE @]
                 Moved(k) == IF Pumped(p1, k) THEN child.wrote[k] - stream[k].written ELSE 0
             IN  /\ proc' = [p2 EXCEPT !.status = IF Finished(p2) THEN "done" ELSE "running"]
                 /\ stream' = [k \in DOMAIN stream |->
                       IF k = "in"
                       THEN [stream[k] EXCEPT !.read = @ + StdinTaken(p0),
                                              !.close = IF @ = "event" THEN "seen" ELSE @]
                       ELSE [stream[k] EXCEPT !.written = @ + Moved(k), !.fin = Finished(p2)]]
    BY Zenon DEF ServerPump
  <1>5. PICK p1 :
           /\ p1 = FlushStdin(WriteStdin(p0, StdinTaken(p0)))
           /\ LET p2 == [p1 EXCEPT !.pipe = [k \in Outputs |-> @[k] /\ ~(Pumped(p1, k) /\ child.closed[k])],
                                  !.exit = IF child.exit # None THEN child.exit ELSE @]
                 Moved(k) == IF Pumped(p1, k) THEN child.wrote[k] - stream[k].written ELSE 0
             IN  /\ proc' = [p2 EXCEPT !.status = IF Finished(p2) THEN "done" ELSE "running"]
                 /\ stream' = [k \in DOMAIN stream |->
                       IF k = "in"
                       THEN [stream[k] EXCEPT !.read = @ + StdinTaken(p0),
                                              !.close = IF @ = "event" THEN "seen" ELSE @]
                       ELSE [stream[k] EXCEPT !.written = @ + Moved(k), !.fin = Finished(p2)]]
    BY <1>4, Zenon
  <1> DEFINE n == StdinTaken(p0)
             pipe2 == [k \in Outputs |-> p1.pipe[k] /\ ~(Pumped(p1, k) /\ child.closed[k])]
             exit2 == IF child.exit # None THEN child.exit ELSE p1.exit
             p2 == [p1 EXCEPT !.pipe = pipe2, !.exit = exit2]
             Moved(k) == IF Pumped(p1, k) THEN child.wrote[k] - stream[k].written ELSE 0
  <1>6. /\ proc' = [p2 EXCEPT !.status = IF Finished(p2) THEN "done" ELSE "running"]
        /\ stream' = [k \in DOMAIN stream |->
              IF k = "in"
              THEN [stream[k] EXCEPT !.read = @ + n,
                                     !.close = IF @ = "event" THEN "seen" ELSE @]
              ELSE [stream[k] EXCEPT !.written = @ + Moved(k), !.fin = Finished(p2)]]
    BY <1>5, Zenon
  <1>7. /\ p0 \in Procs /\ p0.pipe = proc.pipe /\ p0.exit = proc.exit
        /\ child.used <= p0.got /\ p0.got <= child.used + PipeRoom
        /\ p0.stdin => p0.got + p0.stdin_buf = stream["in"].read
    <2>1. CASE stream["in"].close = "event"
      <3>1. p0 = CloseStdin(proc)
        BY <1>4, <2>1, Zenon
      <3>2. Feeds(proc, p0) /\ ~p0.stdin
        BY <1>1, <1>2, <3>1, CloseFacts
      <3>3. QED
        BY <3>2 DEF Feeds
    <2>2. CASE stream["in"].close # "event"
      BY <1>1, <1>2, <1>4, <2>2, Zenon
    <2>3. QED
      BY <2>1, <2>2
  <1>8. n \in Nat /\ stream["in"].read + n <= stream["in"].arrived
    BY <1>1, <1>2 DEF StdinTaken, Unread, Flows
  <1> HIDE DEF n
  <1>9. /\ p1 \in Procs /\ p1.pipe = proc.pipe /\ p1.exit = proc.exit
        /\ child.used <= p1.got /\ p1.got <= child.used + PipeRoom
        /\ p1.stdin => p1.got + p1.stdin_buf = stream["in"].read + n
    <2> DEFINE w == WriteStdin(p0, n)
    <2>1. Feeds(p0, w) /\ (w.stdin => w.got + w.stdin_buf = p0.got + p0.stdin_buf + n)
      BY <1>1, <1>7, <1>8, WriteFacts
    <2> HIDE DEF w
    <2>2. w \in Procs /\ child.used <= w.got /\ w.got <= child.used + PipeRoom
      BY <2>1 DEF Feeds
    <2>3. LET q == FlushStdin(w)
          IN  Feeds(w, q) /\ (q.stdin => q.got + q.stdin_buf = w.got + w.stdin_buf)
      BY <1>1, <2>2, FlushFacts
    <2>4. QED
      BY <1>7, <1>8, <1>5, <2>1, <2>3, Zenon DEF Feeds, w, n
  <1>10. /\ pipe2 \in [Outputs -> BOOLEAN] /\ exit2 \in Nat \cup {None}
         /\ exit2 # None => child.exit = exit2
    BY <1>1, <1>9 DEF IInv, CodesOK, Children, Procs
  <1>11. \A k \in Outputs :
          /\ stream[k].written + Moved(k) \in Nat
          /\ stream[k].written + Moved(k) <= child.wrote[k]
          /\ ~pipe2[k] => child.closed[k] /\ stream[k].written + Moved(k) = child.wrote[k]
    <2> SUFFICES ASSUME NEW k \in Outputs
                 PROVE  /\ stream[k].written + Moved(k) \in Nat
                        /\ stream[k].written + Moved(k) <= child.wrote[k]
                        /\ ~pipe2[k] => /\ child.closed[k]
                                        /\ stream[k].written + Moved(k) = child.wrote[k]
      OBVIOUS
    <2>1. stream[k].written \in Nat /\ child.wrote[k] \in Nat
      BY <1>1 DEF Flows, Children
    <2>2. /\ stream[k].written <= child.wrote[k]
          /\ ~proc.pipe[k] => child.closed[k] /\ stream[k].written = child.wrote[k]
      BY DEF IInv, OutputOK
    <2>3. ~proc.pipe[k] => ~Pumped(p1, k)
      BY <1>9 DEF Pumped
    <2>4. ~pipe2[k] => ~proc.pipe[k] \/ (Pumped(p1, k) /\ child.closed[k])
      BY <1>9, Zenon
    <2>5. QED
      BY <2>1, <2>2, <2>3, <2>4
  <1> HIDE DEF pipe2, exit2, Moved
  <1>12. /\ p2 \in Procs /\ p2.stdin = p1.stdin /\ p2.got = p1.got /\ p2.stdin_buf = p1.stdin_buf
         /\ p2.pipe = pipe2 /\ p2.exit = exit2
    <2> DEFINE u == [p1 EXCEPT !.pipe = pipe2]
    <2>1. p1 \in Procs
      BY <1>9
    <2>2. /\ u \in Procs /\ u.stdin = p1.stdin /\ u.got = p1.got /\ u.stdin_buf = p1.stdin_buf
          /\ u.pipe = pipe2
      BY <1>10, <2>1 DEF Procs
    <2>3. p2 = [u EXCEPT !.exit = exit2]
      OBVIOUS
    <2> HIDE DEF u, p2
    <2>4. QED
      BY <1>10, <2>2, <2>3 DEF Procs
  <1> HIDE DEF p2
  <1> DEFINE fin == Finished(p2)
  <1>13. fin \in BOOLEAN
    BY Zenon DEF Finished
  <1>14. /\ proc' \in Procs /\ proc'.stdin = p2.stdin /\ proc'.got = p2.got
         /\ proc'.stdin_buf = p2.stdin_buf /\ proc'.pipe = p2.pipe /\ proc'.exit = p2.exit
         /\ proc'.status = IF fin THEN "done" ELSE "running"
    BY <1>6, <1>12, Zenon DEF Procs
  <1>15. Finished(proc') <=> fin
    BY <1>14 DEF Finished
  <1> HIDE DEF fin
  <1>16. /\ stream'["in"].read = stream["in"].read + n /\ stream'["in"].arrived = stream["in"].arrived
         /\ stream'["in"] \in Flows
    <2> DEFINE f == stream["in"]
               cl == IF f.close = "event" THEN "seen" ELSE f.close
    <2>1. f \in Flows /\ f.read + n \in Nat /\ cl \in {"none", "event", "seen"}
      BY <1>1, <1>8 DEF Flows
    <2>2. stream'["in"] = [f EXCEPT !.read = f.read + n, !.close = cl]
      BY <1>1, <1>6, Zenon
    <2> HIDE DEF f, cl
    <2>3. QED
      BY <2>1, <2>2, Zenon DEF Flows, f
  <1>17. \A k \in Outputs : /\ stream'[k].written = stream[k].written + Moved(k)
                            /\ stream'[k].fin = fin /\ stream'[k].close = stream[k].close
                            /\ stream'[k] \in Flows
    <2> SUFFICES ASSUME NEW k \in Outputs
                 PROVE  /\ stream'[k].written = stream[k].written + Moved(k)
                        /\ stream'[k].fin = fin /\ stream'[k].close = stream[k].close
                        /\ stream'[k] \in Flows
      OBVIOUS
    <2> DEFINE f == stream[k]
               m == stream[k].written + Moved(k)
    <2>1. f \in Flows /\ m \in Nat
      BY <1>1, <1>11
    <2>2. stream'[k] = [f EXCEPT !.written = m, !.fin = fin]
      BY <1>1, <1>6, Zenon DEF Outputs, fin
    <2> HIDE DEF f, m
    <2>3. stream'[k].written = m /\ stream'[k].fin = fin /\ stream'[k].close = f.close /\ stream'[k] \in Flows
      BY <1>13, <2>1, <2>2, Zenon DEF Flows
    <2>4. QED
      BY <2>3 DEF f, m
  <1>18. stream' \in [Outputs \cup {"in"} -> Flows]
    BY <1>1, <1>6, <1>16, <1>17, Zenon
  <1>19. InputOK'
    BY <1>3, <1>8, <1>9, <1>12, <1>14, <1>16 DEF InputOK, StdinOK
  <1>20. OutputOK'
    BY <1>3, <1>11, <1>12, <1>14, <1>17 DEF OutputOK
  <1>21. CodesOK'
    <2>1. "out" \in Outputs
      BY DEF Outputs
    <2>2. stream["out"].close = "none"
      BY <1>1, <2>1 DEF IInv, CodesOK
    <2>3. proc'.exit # None => child'.exit = proc'.exit
      <3>1. proc'.exit = exit2
        BY <1>12, <1>14
      <3>2. QED
        BY <1>3, <1>10, <3>1
    <2>4. /\ client'.exit_code # None => child'.exit = client'.exit_code
          /\ client'.result = "ok" => client'.exit_code # None
      BY <1>3 DEF IInv, CodesOK
    <2>5. /\ proc'.status = "done" => Finished(proc')
          /\ \A k \in Outputs : stream'[k].fin => proc'.status = "done"
      BY <1>14, <1>15, <1>17
    <2>6. QED
      BY <1>17, <2>1, <2>2, <2>3, <2>4, <2>5 DEF CodesOK, Finished
  <1>22. QED
    BY <1>14, <1>18, <1>19, <1>20, <1>21

LEMMA ServerPumpKeeps == IInv /\ ServerPump => IInv'
  <1> SUFFICES ASSUME IInv, ServerPump PROVE IInv'
    OBVIOUS
  <1>1. UNCHANGED <<client, child>>
    BY Zenon DEF ServerPump
  <1>2. ExecTypeOK'
    BY <1>1, PumpFacts DEF IInv, ExecTypeOK
  <1>3. QED
    BY <1>2, PumpFacts DEF IInv

LEMMA ServerRefusesKeeps == IInv /\ ServerRefuses => IInv'
  <1> SUFFICES ASSUME IInv, ServerRefuses PROVE IInv'
    OBVIOUS
  <1>1. /\ UNCHANGED <<stream, client, child>> /\ proc \in Procs /\ proc.status = "opened"
        /\ proc' = [proc EXCEPT !.status = "refused"]
    BY DEF ServerRefuses, IInv, ExecTypeOK
  <1>2. /\ proc' \in Procs /\ proc'.status = "refused" /\ proc'.stdin = proc.stdin
        /\ proc'.stdin_buf = proc.stdin_buf /\ proc'.got = proc.got /\ proc'.pipe = proc.pipe
        /\ proc'.exit = proc.exit
    BY <1>1 DEF Procs
  <1>3. ExecTypeOK' /\ InputOK' /\ OutputOK'
    BY <1>1, <1>2 DEF IInv, ExecTypeOK, InputOK, StdinOK, OutputOK
  <1>4. CodesOK'
    BY <1>1, <1>2 DEF IInv, CodesOK
  <1>5. QED
    BY <1>3, <1>4 DEF IInv

\* A step of one stream that moves neither what was written nor what was read of it.
LEMMA FlowStep ==
    ASSUME IInv, UNCHANGED <<client, proc, child>>,
           NEW k \in Outputs \cup {"in"}, NEW f \in Flows, stream' = [stream EXCEPT ![k] = f],
           f.written = stream[k].written, f.read = stream[k].read,
           stream[k].arrived <= f.arrived, f.fin = stream[k].fin,
           f.close # stream[k].close => f.fin
    PROVE  IInv'
  <1>1. stream \in [Outputs \cup {"in"} -> Flows] /\ "in" \notin Outputs /\ "out" \in Outputs
    BY DEF IInv, ExecTypeOK, Outputs
  <1>2. \A x \in Outputs \cup {"in"} : stream'[x] = IF x = k THEN f ELSE stream[x]
    BY <1>1
  <1>3. ExecTypeOK'
    BY <1>1 DEF IInv, ExecTypeOK
  <1>4. InputOK'
    <2>1. stream'["in"].read = stream["in"].read /\ stream["in"].arrived <= stream'["in"].arrived
      BY <1>1, <1>2 DEF Flows
    <2>2. /\ stream["in"].read \in Nat /\ stream["in"].arrived \in Nat /\ stream'["in"].arrived \in Nat
          /\ stream["in"].read <= stream["in"].arrived
      BY <1>1, <1>2 DEF Flows, IInv, InputOK
    <2>3. QED
      BY <2>1, <2>2 DEF IInv, InputOK, StdinOK
  <1>5. \A x \in Outputs : stream'[x].written = stream[x].written /\ stream'[x].fin = stream[x].fin
    BY <1>1, <1>2
  <1>6. OutputOK'
    BY <1>5 DEF IInv, OutputOK
  <1>7. CodesOK'
    <2>1. stream'["out"].close # "none" => stream'["out"].fin
      BY <1>1, <1>2 DEF IInv, CodesOK
    <2>2. QED
      BY <1>5, <2>1 DEF IInv, CodesOK, Finished
  <1>8. QED
    BY <1>3, <1>4, <1>6, <1>7 DEF IInv

LEMMA StreamKeeps ==
    ASSUME IInv, NEW k \in DOMAIN stream,
           Arrive(k) \/ FinArrives(k) \/ CloseArrives(k) \/ FinAcked(k)
    PROVE  IInv'
  <1>1. stream \in [Outputs \cup {"in"} -> Flows] /\ k \in Outputs \cup {"in"}
    BY DEF IInv, ExecTypeOK
  <1>2. UNCHANGED <<client, proc, child>>
    BY DEF Arrive, FinArrives, CloseArrives, FinAcked
  <1> DEFINE s == stream[k]
  <1>3. s \in Flows
    BY <1>1
  <1>4. CASE Arrive(k)
    <2> DEFINE f == [s EXCEPT !.arrived = s.arrived + 1]
    <2>1. stream' = [stream EXCEPT ![k] = f]
      BY <1>4 DEF Arrive
    <2> HIDE DEF s
    <2>2. /\ f \in Flows /\ f.written = s.written /\ f.read = s.read /\ f.fin = s.fin
          /\ f.close = s.close /\ s.arrived <= f.arrived
      BY <1>3 DEF Flows
    <2> HIDE DEF f
    <2>3. QED
      BY <1>1, <1>2, <2>1, <2>2, FlowStep, Zenon DEF s
  <1>5. CASE FinArrives(k)
    <2> DEFINE f == [s EXCEPT !.fin_known = TRUE]
    <2>1. stream' = [stream EXCEPT ![k] = f]
      BY <1>5 DEF FinArrives
    <2> HIDE DEF s
    <2>2. /\ f \in Flows /\ f.written = s.written /\ f.read = s.read /\ f.fin = s.fin
          /\ f.close = s.close /\ s.arrived <= f.arrived
      <3>1. f \in Flows
        BY <1>3, Zenon DEF Flows
      <3>2. s.arrived \in Nat /\ f.arrived = s.arrived
        BY <1>3 DEF Flows
      <3>3. QED
        BY <1>3, <3>1, <3>2 DEF Flows
    <2> HIDE DEF f
    <2>3. QED
      BY <1>1, <1>2, <2>1, <2>2, FlowStep, Zenon DEF s
  <1>6. CASE CloseArrives(k)
    <2> DEFINE f == [s EXCEPT !.close = "event"]
    <2>1. stream' = [stream EXCEPT ![k] = f] /\ s.fin
      BY <1>6 DEF CloseArrives
    <2> HIDE DEF s
    <2>2. f \in Flows
      BY <1>3 DEF Flows
    <2>3. f.written = s.written /\ f.read = s.read /\ f.fin = s.fin /\ s.arrived <= f.arrived
      BY <1>3 DEF Flows
    <2> HIDE DEF f
    <2>4. QED
      BY <1>1, <1>2, <2>1, <2>2, <2>3, FlowStep, Zenon DEF s
  <1>7. CASE FinAcked(k)
    <2> DEFINE f == [s EXCEPT !.fin_acked = TRUE]
    <2>1. stream' = [stream EXCEPT ![k] = f]
      BY <1>7 DEF FinAcked
    <2> HIDE DEF s
    <2>2. /\ f \in Flows /\ f.written = s.written /\ f.read = s.read /\ f.fin = s.fin
          /\ f.close = s.close /\ s.arrived <= f.arrived
      <3>1. f \in Flows
        BY <1>3, Zenon DEF Flows
      <3>2. s.arrived \in Nat /\ f.arrived = s.arrived
        BY <1>3 DEF Flows
      <3>3. QED
        BY <1>3, <3>1, <3>2 DEF Flows
    <2> HIDE DEF f
    <2>3. QED
      BY <1>1, <1>2, <2>1, <2>2, FlowStep, Zenon DEF s
  <1>8. QED
    BY <1>4, <1>5, <1>6, <1>7

\* The server waits for the client's FIN.
LEMMA ServerWaitsKeeps == IInv /\ ServerWaits => IInv'
  <1> SUFFICES ASSUME IInv, ServerWaits PROVE IInv'
    OBVIOUS
  <1>1. /\ UNCHANGED <<stream, client, child>> /\ proc \in Procs
        /\ proc' = [proc EXCEPT !.ticks = proc.ticks + 1]
    BY DEF ServerWaits, IInv, ExecTypeOK
  <1>2. /\ proc' \in Procs /\ proc'.status = proc.status /\ proc'.stdin = proc.stdin
        /\ proc'.stdin_buf = proc.stdin_buf /\ proc'.got = proc.got /\ proc'.pipe = proc.pipe
        /\ proc'.exit = proc.exit
    BY <1>1 DEF Procs
  <1>3. ExecTypeOK' /\ InputOK' /\ OutputOK'
    BY <1>1, <1>2 DEF IInv, ExecTypeOK, InputOK, StdinOK, OutputOK
  <1>4. CodesOK'
    BY <1>1, <1>2 DEF IInv, CodesOK, Finished
  <1>5. QED
    BY <1>3, <1>4 DEF IInv

\* A round of the client takes the exit code from a StreamClose, which the server sent
\* when it was finished, and ends with "ok" only when it has one.
LEMMA ClientRoundKeeps ==
    ASSUME IInv, NEW input \in StdinRead(client), ClientRound(input)
    PROVE  IInv'
  <1>1. /\ stream \in [Outputs \cup {"in"} -> Flows] /\ client \in Clients
        /\ "out" \in Outputs /\ "err" \in Outputs /\ "in" \notin Outputs
        /\ UNCHANGED <<proc, child>>
    BY Zenon DEF IInv, ExecTypeOK, Outputs, ClientRound
  <1> DEFINE err == client.err_id \/ once.open = "event"
             code == IF stream["out"].close = "event" THEN ExitCode(proc) ELSE client.exit_code
             eof == client.stdin_eof \/ input = "eof"
             c0 == [client EXCEPT !.err_id = err, !.exit_code = code, !.stdin_eof = eof]
             waits == c0.exit_code # None /\ c0.stdin_eof /\ ~stream["out"].fin_known
             ticks == IF waits THEN Fewer(c0.ticks + 1, CLOSE_GRACE_TICKS) ELSE c0.ticks
             retired == c0.retired \/ (stream["in"].fin_acked /\ RecvFinished("out"))
             c1 == [c0 EXCEPT !.ticks = ticks, !.retired = retired]
             result == IF Done(c1) THEN "ok" ELSE c1.result
  <1>3. /\ client' = [c1 EXCEPT !.result = result]
        /\ stream' = [stream EXCEPT
                         !["in"].written = IF input = "chunk" THEN @ + 1 ELSE @,
                         !["in"].fin = c1.stdin_eof,
                         !["out"].read = stream["out"].arrived,
                         !["out"].close = IF @ = "event" THEN "seen" ELSE @,
                         !["err"].read = IF c1.err_id THEN stream["err"].arrived ELSE @]
    BY Zenon DEF ClientRound
  <1>4. /\ code \in Nat \cup {None}
        /\ code # None => child.exit = code
        /\ client.exit_code # None => code # None
    <2>1. stream["out"].close = "event" => proc.exit # None /\ ExitCode(proc) = proc.exit
      BY <1>1 DEF IInv, CodesOK, Finished, ExitCode
    <2>2. QED
      BY <1>1, <2>1 DEF IInv, CodesOK, ExecTypeOK, Procs, Clients
  <1>5. err \in BOOLEAN /\ eof \in BOOLEAN
    <2>1. client.err_id \in BOOLEAN /\ client.stdin_eof \in BOOLEAN
      BY <1>1 DEF Clients
    <2>2. QED
      BY <2>1, Zenon
  <1> HIDE DEF err, code, eof
  <1>6. /\ c0 \in Clients /\ c0.exit_code = code /\ c0.stdin_eof = eof /\ c0.err_id = err
        /\ c0.result = client.result
    <2>1. c0 \in Clients
      BY <1>1, <1>4, <1>5, Zenon DEF Clients
    <2>2. QED
      BY <1>1, <2>1 DEF Clients
  <1> HIDE DEF c0
  <1>7. ticks \in Nat /\ retired \in BOOLEAN
    <2>1. ticks \in Nat
      BY <1>6, ExecAssumption DEF Fewer, Clients
    <2>2. c0.retired \in BOOLEAN
      BY <1>6 DEF Clients
    <2>3. QED
      BY <2>1, <2>2, Zenon
  <1> HIDE DEF ticks, retired
  <1>8. /\ c1 \in Clients /\ c1.exit_code = code /\ c1.stdin_eof = eof /\ c1.err_id = err
        /\ c1.result = client.result
    BY <1>6, <1>7 DEF Clients
  <1> HIDE DEF c1
  <1>9. result \in {"running", "ok", "err"} /\ (result = "ok" => code # None \/ client.result = "ok")
    BY <1>8 DEF Done, Clients
  <1> HIDE DEF result
  <1>10. client' \in Clients /\ client'.exit_code = code /\ client'.result = result
    BY <1>3, <1>8, <1>9 DEF Clients
  <1>11. /\ stream' \in [Outputs \cup {"in"} -> Flows]
         /\ stream'["in"].read = stream["in"].read /\ stream'["in"].arrived = stream["in"].arrived
         /\ \A k \in Outputs : stream'[k].written = stream[k].written /\ stream'[k].fin = stream[k].fin
         /\ stream'["out"].close # "none" => stream["out"].close # "none"
    <2> DEFINE i == stream["in"]
               o == stream["out"]
               e == stream["err"]
               iw == IF input = "chunk" THEN i.written + 1 ELSE i.written
               oc == IF o.close = "event" THEN "seen" ELSE o.close
               er == IF c1.err_id THEN e.arrived ELSE e.read
               i2 == [i EXCEPT !.written = iw, !.fin = c1.stdin_eof]
               o2 == [o EXCEPT !.read = o.arrived, !.close = oc]
               e2 == [e EXCEPT !.read = er]
    <2>1. i \in Flows /\ o \in Flows /\ e \in Flows
      BY <1>1
    <2>2. stream' = [stream EXCEPT !["in"] = i2, !["out"] = o2, !["err"] = e2]
      BY <1>1, <1>3, <2>1, Zenon DEF Flows
    <2>3. /\ iw \in Nat /\ er \in Nat /\ c1.stdin_eof \in BOOLEAN
          /\ oc \in {"none", "event", "seen"} /\ (oc # "none" => o.close # "none")
          /\ o.arrived \in Nat
      BY <1>5, <1>8, <2>1 DEF Flows
    <2> HIDE DEF i, o, e, iw, oc, er
    <2>4. i2 \in Flows /\ i2.read = i.read /\ i2.arrived = i.arrived
      BY <2>1, <2>3, Zenon DEF Flows
    <2>5. o2 \in Flows /\ o2.written = o.written /\ o2.fin = o.fin /\ o2.close = oc
      BY <2>1, <2>3, Zenon DEF Flows
    <2>6. e2 \in Flows /\ e2.written = e.written /\ e2.fin = e.fin
      BY <2>1, <2>3 DEF Flows
    <2> HIDE DEF i2, o2, e2
    <2>7. stream' \in [Outputs \cup {"in"} -> Flows]
      BY <1>1, <2>2, <2>4, <2>5, <2>6
    <2>8. stream'["in"] = i2 /\ stream'["out"] = o2 /\ stream'["err"] = e2
      BY <1>1, <2>2 DEF Outputs
    <2>9. QED
      BY <2>3, <2>4, <2>5, <2>6, <2>7, <2>8 DEF i, o, e, Outputs
  <1>12. ExecTypeOK' /\ InputOK' /\ OutputOK'
    BY <1>1, <1>10, <1>11 DEF IInv, ExecTypeOK, InputOK, StdinOK, OutputOK
  <1>13. CodesOK'
    <2>1. client.result = "ok" => client.exit_code # None
      BY DEF IInv, CodesOK
    <2>2. /\ client'.exit_code # None => child'.exit = client'.exit_code
          /\ client'.result = "ok" => client'.exit_code # None
      BY <1>1, <1>4, <1>9, <1>10, <2>1
    <2>3. QED
      BY <1>1, <1>11, <2>2 DEF IInv, CodesOK, Finished
  <1>14. QED
    BY <1>12, <1>13 DEF IInv

\* The client's error, and the frames that are sent once.
LEMMA AbortsKeeps ==
    ASSUME IInv, UNCHANGED <<stream, proc, child>>,
           client' = client \/ client' = [client EXCEPT !.result = "err"]
    PROVE  IInv'
  <1>1. client \in Clients
    BY DEF IInv, ExecTypeOK
  <1>2. /\ client' \in Clients /\ client'.exit_code = client.exit_code
        /\ client'.result = "ok" => client.result = "ok"
    BY <1>1 DEF Clients
  <1>3. QED
    BY <1>2 DEF IInv, ExecTypeOK, InputOK, StdinOK, OutputOK, CodesOK, Finished

\* The command reads, writes, exits and closes: what is known of it stays true.
LEMMA ChildKeeps ==
    ASSUME IInv, UNCHANGED <<stream, client, proc>>, child' \in Children,
           child.used <= child'.used, child'.used <= proc.got,
           child.exit # None => child'.exit = child.exit,
           \A k \in Outputs : /\ child.wrote[k] <= child'.wrote[k]
                              /\ child.closed[k] => child'.closed[k] /\ child'.wrote[k] = child.wrote[k]
    PROVE  IInv'
  <1>1. child \in Children /\ proc \in Procs /\ stream \in [Outputs \cup {"in"} -> Flows]
    BY DEF IInv, ExecTypeOK
  <1>2. ExecTypeOK'
    BY DEF IInv, ExecTypeOK
  <1>3. InputOK'
    <2>1. /\ child.used \in Nat /\ child'.used \in Nat /\ proc.got \in Nat /\ PipeRoom \in Nat
          /\ proc.got <= child.used + PipeRoom
      BY <1>1, ExecAssumption DEF IInv, InputOK, StdinOK, Children, Procs
    <2>2. proc.got <= child'.used + PipeRoom
      BY <2>1
    <2>3. QED
      BY <2>2 DEF IInv, InputOK, StdinOK
  <1>4. OutputOK'
    <2> SUFFICES ASSUME NEW k \in Outputs
                 PROVE  /\ stream[k].written <= child'.wrote[k]
                        /\ ~proc.pipe[k] => child'.closed[k] /\ stream[k].written = child'.wrote[k]
      BY DEF OutputOK
    <2>1. stream[k].written \in Nat /\ child.wrote[k] \in Nat /\ child'.wrote[k] \in Nat
      BY <1>1 DEF Flows, Children
    <2>2. /\ stream[k].written <= child.wrote[k]
          /\ ~proc.pipe[k] => child.closed[k] /\ stream[k].written = child.wrote[k]
      BY DEF IInv, OutputOK
    <2>3. QED
      BY <2>1, <2>2
  <1>5. CodesOK'
    BY DEF IInv, CodesOK, Finished
  <1>6. QED
    BY <1>2, <1>3, <1>4, <1>5 DEF IInv

LEMMA CommandKeeps ==
    ASSUME IInv, \/ ChildReads
                 \/ \E k \in Outputs : ChildWrites(k) \/ PipeCloses(k)
                 \/ \E code \in Codes : ChildExits(code)
    PROVE  IInv'
  <1>1. child \in Children
    BY DEF IInv, ExecTypeOK
  <1>2. /\ child.used \in Nat /\ proc.got \in Nat /\ child.used <= proc.got
        /\ child.wrote \in [Outputs -> Nat] /\ child.closed \in [Outputs -> BOOLEAN]
    BY <1>1 DEF IInv, ExecTypeOK, InputOK, StdinOK, Children, Procs
  <1>3. CASE ChildReads
    <2>1. /\ UNCHANGED <<stream, client, proc>> /\ child.used < proc.got
          /\ child' = [child EXCEPT !.used = child.used + 1]
      BY <1>3 DEF ChildReads
    <2>2. /\ child' \in Children /\ child'.used = child.used + 1 /\ child'.exit = child.exit
          /\ child'.wrote = child.wrote /\ child'.closed = child.closed
      BY <1>1, <1>2, <2>1 DEF Children
    <2>3. QED
      BY <1>2, <2>1, <2>2, ChildKeeps
  <1>4. ASSUME NEW k \in Outputs, ChildWrites(k) PROVE IInv'
    <2> DEFINE w == [child.wrote EXCEPT ![k] = child.wrote[k] + 1]
    <2>1. /\ UNCHANGED <<stream, client, proc>> /\ ~child.closed[k]
          /\ child' = [child EXCEPT !.wrote = w]
      BY <1>4 DEF ChildWrites
    <2>2. /\ w \in [Outputs -> Nat]
          /\ \A x \in Outputs : child.wrote[x] <= w[x] /\ (x # k => w[x] = child.wrote[x])
      BY <1>2
    <2> HIDE DEF w
    <2>3. /\ child' \in Children /\ child'.used = child.used /\ child'.exit = child.exit
          /\ child'.wrote = w /\ child'.closed = child.closed
      BY <1>1, <2>1, <2>2 DEF Children
    <2>4. QED
      BY <1>2, <2>1, <2>2, <2>3, ChildKeeps
  <1>5. ASSUME NEW k \in Outputs, PipeCloses(k) PROVE IInv'
    <2> DEFINE c == [child.closed EXCEPT ![k] = TRUE]
    <2>1. /\ UNCHANGED <<stream, client, proc>>
          /\ child' = [child EXCEPT !.closed = c]
      BY <1>5 DEF PipeCloses
    <2>2. c \in [Outputs -> BOOLEAN] /\ \A x \in Outputs : child.closed[x] => c[x]
      BY <1>2
    <2> HIDE DEF c
    <2>3. /\ child' \in Children /\ child'.used = child.used /\ child'.exit = child.exit
          /\ child'.wrote = child.wrote /\ child'.closed = c
      BY <1>1, <2>1, <2>2 DEF Children
    <2>4. QED
      BY <1>2, <2>1, <2>2, <2>3, ChildKeeps
  <1>6. ASSUME NEW code \in Codes, ChildExits(code) PROVE IInv'
    <2>1. /\ UNCHANGED <<stream, client, proc>> /\ child.exit = None /\ code \in Nat
          /\ child' = [child EXCEPT !.exit = code]
      BY <1>6, ExecAssumption DEF ChildExits
    <2>2. /\ child' \in Children /\ child'.used = child.used /\ child'.exit = code
          /\ child'.wrote = child.wrote /\ child'.closed = child.closed
      BY <1>1, <2>1 DEF Children
    <2>3. QED
      BY <1>2, <2>1, <2>2, ChildKeeps
  <1>7. QED
    BY <1>3, <1>4, <1>5, <1>6

LEMMA ExecNext == IInv /\ [Next]_vars => IInv'
  <1> SUFFICES ASSUME IInv, [Next]_vars PROVE IInv'
    OBVIOUS
  <1>1. CASE ClientAborts
    BY <1>1, AbortsKeeps DEF ClientAborts
  <1>2. ASSUME NEW f \in DOMAIN once, OnceArrives(f) \/ OnceLost(f) PROVE IInv'
    BY <1>2, AbortsKeeps DEF OnceArrives, OnceLost
  <1>3. CASE UNCHANGED vars
    BY <1>3, AbortsKeeps DEF vars
  <1>4. QED
    BY <1>1, <1>2, <1>3, ServerPumpKeeps, ServerRefusesKeeps, ServerWaitsKeeps,
       ClientRoundKeeps, StreamKeeps, CommandKeeps DEF Next

LEMMA ExecInvariant == Spec => []IInv
  BY ExecInit, ExecNext, PTL DEF Spec

\* The streams, the client's loop, the server's ExecProc and the child stay in their types.
THEOREM ExecTypeCorrect == Spec => []ExecTypeOK
  BY ExecInvariant, PTL DEF IInv

\* Whatever is lost, delayed or held back by a cap or a window, and however the command
\* and what it leaves behind share its pipes: the exit code run_exec_with returns
\* (client.rs:818-951) is the command's, and the server closes the streams
\* (server.rs:1111-1161) only when they hold all its output.
THEOREM ExecOutcomeExact == Spec => []OutcomeExact
  <1>1. IInv => ExitCodeIsTheCommands
    BY DEF IInv, CodesOK, ExitCodeIsTheCommands
  <1>2. IInv => ClosesAfterDraining
    BY DEF IInv, CodesOK, OutputOK, ClosesAfterDraining, Finished
  <1>3. QED
    BY <1>1, <1>2, ExecInvariant, PTL DEF OutcomeExact

\* Nothing of the client's stdin is left out on its way to the command, for every cap and
\* every pipe (write_stdin and flush_stdin of ExecProc, exec.rs:114-143).
THEOREM ExecStdinContiguous == Spec => []StdinContiguous
  <1>1. IInv => StdinContiguous
    BY DEF IInv, InputOK, StdinOK, StdinContiguous
  <1>2. QED
    BY <1>1, ExecInvariant, PTL

-----------------------------------------------------------------------------
\* The banner.  A link that has been up for some time x, or has been silent for no longer
\* (past the threshold of the banner, in the second).
Quiet(x) == link.since <= x \/ since_contact <= x
Silent(x) == link.since <= x \/ since_contact <= SHOW_AFTER + x

\* Within the interval t of a keepalive the next one is sent or an answer is on its way;
\* the oldest of them was asked for within it.
Probed(Within(_), t) ==
    IF arrived THEN Within(t + Rtt)
    ELSE IF answers = {} THEN next_keepalive <= t /\ Within(t - next_keepalive)
    ELSE \E a \in answers : Within(t + a)

\* The clocks of the loop: poll() returns before a keepalive is late, a keepalive is an
\* idle one only early in a silence, and the loop looks soon enough to put up the banner.
ClocksOK ==
    /\ link \in [up : BOOLEAN, since : 0..Horizon] /\ since_contact \in 0..Horizon
    /\ next_keepalive \in 0..KEEPALIVE /\ timeout \in 0..next_keepalive
    /\ answers \subseteq 0..Rtt /\ arrived \in BOOLEAN /\ banner \in BOOLEAN
    /\ since_contact + next_keepalive < KEEPALIVE + STALE_AFTER \/ next_keepalive <= STALE_KEEPALIVE
    /\ banner => since_contact >= SHOW_AFTER
    /\ ~banner => since_contact + timeout < KEEPALIVE + STALE_AFTER

\* On a link that is down nothing arrives; one that is up is probed.
LinkOK ==
    /\ ~link.up => link.since <= since_contact /\ (arrived => link.since = 0)
    /\ link.up => Probed(Quiet, KEEPALIVE)
    /\ link.up /\ since_contact >= SHOW_AFTER => Probed(Silent, STALE_KEEPALIVE)

ConsoleIInv == ClocksOK /\ LinkOK

\* When the loop starts, and when it is over, nothing is late.
Fresh ==
    /\ link = [up |-> TRUE, since |-> Horizon] /\ answers = {} /\ arrived = FALSE /\ banner = FALSE
    /\ since_contact = 0 /\ next_keepalive = KEEPALIVE /\ timeout = KEEPALIVE

LEMMA FreshClocks == Fresh => ConsoleIInv
  <1> SUFFICES ASSUME Fresh PROVE ConsoleIInv
    OBVIOUS
  <1>1. Horizon \in Nat /\ KEEPALIVE \in Nat /\ STALE_AFTER \in Nat \ {0} /\ Rtt \in Nat
    BY ConsoleAssumption DEF Horizon
  <1>2. link \in [up : BOOLEAN, since : 0..Horizon]
    BY <1>1 DEF Fresh
  <1>3. ClocksOK
    <2>1. since_contact \in 0..Horizon /\ next_keepalive \in 0..KEEPALIVE /\ timeout \in 0..next_keepalive
      BY <1>1 DEF Fresh
    <2>2. answers \subseteq 0..Rtt /\ arrived \in BOOLEAN /\ banner \in BOOLEAN /\ ~banner
      BY Zenon DEF Fresh
    <2>3. /\ since_contact + next_keepalive < KEEPALIVE + STALE_AFTER
          /\ since_contact + timeout < KEEPALIVE + STALE_AFTER
      BY <1>1 DEF Fresh
    <2>4. QED
      BY <1>2, <2>1, <2>2, <2>3 DEF ClocksOK
  <1>4. LinkOK
    BY ConsoleAssumption DEF Fresh, LinkOK, Probed, Quiet
  <1>5. QED
    BY <1>3, <1>4 DEF ConsoleIInv

\* So it is after the loop.
LEMMA OverKeeps == ASSUME NEW how, LoopOver(how) PROVE ConsoleIInv'
  <1>1. Fresh'
    BY DEF LoopOver, Fresh, Horizon
  <1>2. (Fresh => ConsoleIInv)'
    BY FreshClocks, PTL
  <1>3. QED
    BY <1>1, <1>2

\* A turn of the loop takes what has arrived, sends what is due and looks at the silence.
LEMMA TurnKeeps == ASSUME ConsoleIInv, Turn PROVE ConsoleIInv'
  <1> DEFINE since == IF arrived THEN 0 ELSE since_contact
             due == next_keepalive = 0
             keepalive == IF due THEN KeepaliveInterval(since) ELSE next_keepalive
  <1>1. PICK sends \in BOOLEAN :
          \/ LoopOver("quit")
          \/ /\ arrived' = FALSE /\ since_contact' = since
             /\ answers' = Sent(due \/ sends)
             /\ next_keepalive' = keepalive
             /\ timeout' = PollTimeout(since, keepalive)
             /\ banner' = StatusBanner(since)
             /\ UNCHANGED link
    <2>1. PICK out : out = ProcessInput(esc_pending, unread)
      OBVIOUS
    <2>2. CASE out.quit
      BY <2>1, <2>2, Zenon DEF Turn
    <2>3. CASE ~out.quit
      <3>1. (out.forward # <<>>) \in BOOLEAN
        OBVIOUS
      <3>2. QED
        BY <2>1, <2>3, <3>1, Zenon DEF Turn
    <2>4. QED
      BY <2>2, <2>3, Zenon
  <1>2. CASE LoopOver("quit")
    BY <1>2, OverKeeps
  <1>3. CASE ~LoopOver("quit")
    <2>1. /\ since_contact \in Nat /\ next_keepalive \in Nat /\ timeout \in Nat /\ Horizon \in Nat
          /\ link.since \in Nat
      BY ConsoleAssumption DEF ConsoleIInv, ClocksOK, Horizon
    <2>2. since \in 0..Horizon /\ since <= since_contact
      BY <2>1 DEF ConsoleIInv, ClocksOK
    <2>3. keepalive \in 0..KEEPALIVE
      BY ConsoleAssumption DEF ConsoleIInv, ClocksOK, KeepaliveInterval
    <2>4. since + keepalive < KEEPALIVE + STALE_AFTER \/ keepalive <= STALE_KEEPALIVE
      <3>1. CASE due
        BY <2>1, <2>2, <3>1, ConsoleAssumption DEF KeepaliveInterval
      <3>2. CASE ~due
        BY <2>1, <2>2, <3>2, ConsoleAssumption DEF ConsoleIInv, ClocksOK
      <3>3. QED
        BY <3>1, <3>2
    <2>5. PollTimeout(since, keepalive) \in 0..keepalive
      BY <2>2, <2>3, ConsoleAssumption DEF PollTimeout
    <2>6. ~StatusBanner(since) => since + PollTimeout(since, keepalive) < KEEPALIVE + STALE_AFTER
      BY <2>1, <2>2, <2>3, <2>4, ConsoleAssumption DEF PollTimeout, StatusBanner
    <2>7. ClocksOK'
      <3>1. answers' \subseteq 0..Rtt
        <4>1. answers \subseteq 0..Rtt /\ 0 \in 0..Rtt
          BY ConsoleAssumption DEF ConsoleIInv, ClocksOK
        <4>2. answers' = answers \cup {0} \/ answers' = answers
          BY <1>1, <1>3 DEF Sent
        <4>3. QED
          BY <4>1, <4>2, Zenon
      <3>2. StatusBanner(since) \in BOOLEAN
        BY DEF StatusBanner
      <3>3. StatusBanner(since) => since >= SHOW_AFTER
        BY DEF StatusBanner
      <3> HIDE DEF since, keepalive
      <3>4. QED
        BY <1>1, <1>3, <2>2, <2>3, <2>4, <2>5, <2>6, <3>1, <3>2, <3>3, Zenon DEF ConsoleIInv, ClocksOK
    <2>8. ~link'.up => link'.since <= since_contact' /\ (arrived' => link'.since = 0)
      BY <1>1, <1>3, <2>1 DEF ConsoleIInv, LinkOK
    <2>9. ASSUME link'.up PROVE Probed(Quiet, KEEPALIVE)'
      <3>1. /\ link' = link /\ arrived' = FALSE /\ since_contact' = since /\ next_keepalive' = keepalive
            /\ answers' = IF due \/ sends THEN answers \cup {0} ELSE answers
        BY <1>1, <1>3, <2>9 DEF Sent
      <3>2. CASE arrived
        BY <2>1, <2>3, <3>1, <3>2, ConsoleAssumption DEF Probed, Quiet, ConsoleIInv, ClocksOK
      <3>3. CASE ~arrived
        <4>1. Probed(Quiet, KEEPALIVE) /\ since = since_contact
          BY <2>9, <3>1, <3>3 DEF ConsoleIInv, LinkOK
        <4>2. CASE answers = {} /\ ~(due \/ sends)
          BY <3>1, <3>3, <4>1, <4>2 DEF Probed, Quiet
        <4>3. CASE answers = {} /\ (due \/ sends)
          BY <2>1, <3>1, <3>3, <4>1, <4>3, ConsoleAssumption DEF Probed, Quiet
        <4>4. CASE answers # {}
          BY <3>1, <3>3, <4>1, <4>4 DEF Probed, Quiet
        <4>5. QED
          BY <4>2, <4>3, <4>4
      <3>4. QED
        BY <3>2, <3>3 DEF ConsoleIInv, ClocksOK
    <2>10. ASSUME link'.up, since_contact' >= SHOW_AFTER PROVE Probed(Silent, STALE_KEEPALIVE)'
      <3>1. /\ link' = link /\ arrived' = FALSE /\ since_contact' = since /\ next_keepalive' = keepalive
            /\ answers' = IF due \/ sends THEN answers \cup {0} ELSE answers
        BY <1>1, <1>3, <2>10 DEF Sent
      <3>2. ~arrived /\ since = since_contact
        BY <2>10, <3>1, ConsoleAssumption
      <3>3. Probed(Silent, STALE_KEEPALIVE)
        BY <2>10, <3>1, <3>2 DEF ConsoleIInv, LinkOK
      <3>4. CASE answers = {} /\ ~(due \/ sends)
        BY <3>1, <3>2, <3>3, <3>4 DEF Probed, Silent
      <3>5. CASE answers = {} /\ (due \/ sends)
        BY <2>1, <3>1, <3>2, <3>3, <3>5, ConsoleAssumption DEF Probed, Silent
      <3>6. CASE answers # {}
        BY <3>1, <3>2, <3>3, <3>6 DEF Probed, Silent
      <3>7. QED
        BY <3>4, <3>5, <3>6
    <2>11. QED
      BY <2>7, <2>8, <2>9, <2>10 DEF ConsoleIInv, LinkOK
  <1>4. QED
    BY <1>2, <1>3

\* A datagram arrives: there was an answer, or the server sent it by itself.
LEMMA ArrivesKeeps == ASSUME ConsoleIInv, Arrives PROVE ConsoleIInv'
  <1>1. /\ link.up /\ ~arrived /\ arrived' = TRUE /\ answers' \subseteq answers
        /\ UNCHANGED <<link, since_contact, next_keepalive, timeout, banner>>
    BY DEF Arrives
  <1>2. ClocksOK'
    BY <1>1 DEF ConsoleIInv, ClocksOK
  <1>3. /\ since_contact \in Nat /\ next_keepalive \in Nat /\ link.since \in Nat
        /\ \A a \in answers : a \in Nat /\ a <= Rtt
    BY ConsoleAssumption DEF ConsoleIInv, ClocksOK, Horizon
  <1>4. Quiet(KEEPALIVE + Rtt)
    BY <1>1, <1>3, ConsoleAssumption DEF ConsoleIInv, LinkOK, Probed, Quiet
  <1>5. since_contact >= SHOW_AFTER => Silent(STALE_KEEPALIVE + Rtt)
    BY <1>1, <1>3, ConsoleAssumption DEF ConsoleIInv, LinkOK, Probed, Silent
  <1>6. LinkOK'
    BY <1>1, <1>4, <1>5 DEF LinkOK, Probed, Quiet, Silent
  <1>7. QED
    BY <1>2, <1>6 DEF ConsoleIInv

\* The link goes down, or comes back: its time starts again.
LEMMA LinkChangesKeeps == ASSUME ConsoleIInv, LinkChanges PROVE ConsoleIInv'
  <1>1. /\ link' = [up |-> ~link.up, since |-> 0] /\ answers' = {}
        /\ UNCHANGED <<arrived, since_contact, next_keepalive, timeout, banner>>
    BY DEF LinkChanges
  <1>2. Horizon \in Nat /\ since_contact \in Nat /\ next_keepalive \in 0..KEEPALIVE
    BY ConsoleAssumption DEF ConsoleIInv, ClocksOK, Horizon
  <1>3. link' \in [up : BOOLEAN, since : 0..Horizon] /\ link'.since = 0
    BY <1>1, <1>2
  <1>4. ClocksOK'
    BY <1>1, <1>3 DEF ConsoleIInv, ClocksOK, Horizon
  <1>5. Probed(Quiet, KEEPALIVE)'
    BY <1>1, <1>2, <1>3, ConsoleAssumption DEF Probed, Quiet
  <1>6. ASSUME since_contact' >= SHOW_AFTER PROVE Probed(Silent, STALE_KEEPALIVE)'
    <2>1. next_keepalive <= STALE_KEEPALIVE
      BY <1>1, <1>2, <1>6, ConsoleAssumption DEF ConsoleIInv, ClocksOK
    <2>2. QED
      BY <1>1, <1>2, <1>3, <2>1, ConsoleAssumption DEF Probed, Silent
  <1>7. LinkOK'
    BY <1>1, <1>2, <1>3, <1>5, <1>6 DEF LinkOK
  <1>8. QED
    BY <1>4, <1>7 DEF ConsoleIInv

\* Time passes: what was late by some time is late by one more, and the keepalive nearer.
LEMMA ConsoleTickKeeps == ASSUME ConsoleIInv, Tick PROVE ConsoleIInv'
  <1>1. /\ timeout > 0 /\ ~arrived /\ \A a \in answers : a < Rtt
        /\ link' = [link EXCEPT !.since = Later(@)]
        /\ answers' = {a + 1 : a \in answers}
        /\ since_contact' = Later(since_contact)
        /\ next_keepalive' = Sooner(next_keepalive) /\ timeout' = Sooner(timeout)
        /\ UNCHANGED <<arrived, banner>>
    BY DEF Tick
  <1>2. /\ Horizon \in Nat /\ since_contact \in 0..Horizon /\ link.since \in 0..Horizon
        /\ next_keepalive \in 0..KEEPALIVE /\ timeout \in 0..next_keepalive
        /\ link \in [up : BOOLEAN, since : 0..Horizon] /\ answers \subseteq 0..Rtt
    BY ConsoleAssumption DEF ConsoleIInv, ClocksOK, Horizon
  <1>3. /\ link'.up = link.up /\ link'.since = Later(link.since)
        /\ link' \in [up : BOOLEAN, since : 0..Horizon]
    BY <1>1, <1>2 DEF Later
  <1>4. /\ since_contact' \in 0..Horizon
        /\ since_contact' = since_contact + 1 \/ (since_contact' = since_contact /\ since_contact = Horizon)
        /\ link'.since = link.since + 1 \/ (link'.since = link.since /\ link.since = Horizon)
    BY <1>1, <1>2, <1>3 DEF Later
  <1>5. next_keepalive' = next_keepalive - 1 /\ timeout' = timeout - 1 /\ next_keepalive > 0
    BY <1>1, <1>2, ConsoleAssumption DEF Sooner
  <1>6. answers' \subseteq 0..Rtt
    BY <1>1, <1>2, ConsoleAssumption
  <1>7. ClocksOK'
    <2>1. /\ next_keepalive' \in 0..KEEPALIVE /\ timeout' \in 0..next_keepalive'
          /\ since_contact' + next_keepalive' < KEEPALIVE + STALE_AFTER \/ next_keepalive' <= STALE_KEEPALIVE
          /\ ~banner => since_contact' + timeout' < KEEPALIVE + STALE_AFTER
          /\ banner => since_contact' >= SHOW_AFTER
      BY <1>1, <1>2, <1>4, <1>5, ConsoleAssumption DEF ConsoleIInv, ClocksOK
    <2>2. QED
      BY <1>1, <1>3, <1>4, <1>6, <2>1 DEF ConsoleIInv, ClocksOK, Horizon
  <1>8. ~link'.up => link'.since <= since_contact' /\ (arrived' => link'.since = 0)
    BY <1>1, <1>2, <1>3, <1>4 DEF ConsoleIInv, LinkOK
  <1>9. ASSUME link'.up PROVE Probed(Quiet, KEEPALIVE)'
    <2>1. Probed(Quiet, KEEPALIVE)
      BY <1>3, <1>9 DEF ConsoleIInv, LinkOK
    <2>2. CASE answers = {}
      <3>1. answers' = {}
        BY <1>1, <2>2
      <3>2. QED
        BY <1>1, <1>2, <1>4, <1>5, <2>1, <2>2, <3>1, ConsoleAssumption DEF Probed, Quiet
    <2>3. CASE answers # {}
      <3>1. PICK a \in answers : Quiet(KEEPALIVE + a)
        BY <1>1, <2>1, <2>3 DEF Probed
      <3>2. a + 1 \in answers' /\ a \in Nat
        BY <1>1, <1>2, ConsoleAssumption
      <3>3. Quiet(KEEPALIVE + (a + 1))'
        BY <1>2, <1>4, <3>1, <3>2, ConsoleAssumption DEF Quiet
      <3>4. QED
        BY <1>1, <3>2, <3>3 DEF Probed
    <2>4. QED
      BY <2>2, <2>3
  <1>10. ASSUME link'.up, since_contact' >= SHOW_AFTER PROVE Probed(Silent, STALE_KEEPALIVE)'
    <2>1. CASE since_contact < SHOW_AFTER
      <3>1. since_contact' = SHOW_AFTER
        BY <1>2, <1>4, <1>10, <2>1, ConsoleAssumption
      <3>2. next_keepalive' <= STALE_KEEPALIVE
        BY <1>2, <1>5, <1>4, <2>1, <3>1, ConsoleAssumption DEF ConsoleIInv, ClocksOK
      <3>3. \A x \in Nat : Silent(x)'
        BY <3>1, ConsoleAssumption DEF Silent
      <3>4. STALE_KEEPALIVE - next_keepalive' \in Nat
        BY <1>2, <1>5, <3>2, ConsoleAssumption
      <3>5. \A a \in answers' : STALE_KEEPALIVE + a \in Nat
        BY <1>6, ConsoleAssumption
      <3>6. QED
        BY <1>1, <3>2, <3>3, <3>4, <3>5 DEF Probed
    <2>2. CASE since_contact >= SHOW_AFTER
      <3>1. Probed(Silent, STALE_KEEPALIVE)
        BY <1>3, <1>10, <2>2 DEF ConsoleIInv, LinkOK
      <3>2. CASE answers = {}
        <4>1. answers' = {}
          BY <1>1, <3>2
        <4>2. QED
          BY <1>1, <1>2, <1>4, <1>5, <3>1, <3>2, <4>1, ConsoleAssumption DEF Probed, Silent
      <3>3. CASE answers # {}
        <4>1. PICK a \in answers : Silent(STALE_KEEPALIVE + a)
          BY <1>1, <3>1, <3>3 DEF Probed
        <4>2. a + 1 \in answers' /\ a \in Nat
          BY <1>1, <1>2, ConsoleAssumption
        <4>3. Silent(STALE_KEEPALIVE + (a + 1))'
          BY <1>2, <1>4, <4>1, <4>2, ConsoleAssumption DEF Silent
        <4>4. QED
          BY <1>1, <4>2, <4>3 DEF Probed
      <3>4. QED
        BY <3>2, <3>3
    <2>3. QED
      BY <1>2, <2>1, <2>2, ConsoleAssumption
  <1>11. QED
    BY <1>7, <1>8, <1>9, <1>10 DEF ConsoleIInv, LinkOK

\* Every step of the loop keeps the invariant.
LEMMA ConsoleNextKeeps == ConsoleIInv /\ [ConsoleNext]_consoleVars => ConsoleIInv'
  <1> SUFFICES ASSUME ConsoleIInv, [ConsoleNext]_consoleVars PROVE ConsoleIInv'
    OBVIOUS
  <1>1. CASE Turn
    BY <1>1, TurnKeeps
  <1>2. CASE Ends
    BY <1>2, OverKeeps DEF Ends
  <1>3. CASE UNCHANGED linkVars
    BY <1>3 DEF linkVars, ConsoleIInv, ClocksOK, LinkOK, Probed, Quiet, Silent
  <1>4. ASSUME NEW k \in Keys, Type(k) PROVE ConsoleIInv'
    BY <1>3, <1>4 DEF Type
  <1>5. CASE Arrives
    BY <1>5, ArrivesKeeps
  <1>6. CASE LinkChanges
    BY <1>6, LinkChangesKeeps
  <1>7. CASE Tick
    BY <1>7, ConsoleTickKeeps
  <1>8. CASE UNCHANGED consoleVars
    BY <1>3, <1>8 DEF consoleVars, linkVars
  <1>9. QED
    BY <1>1, <1>2, <1>4, <1>5, <1>6, <1>7, <1>8 DEF ConsoleNext

\* A probed link has been up or in contact within the interval and a round trip.
LEMMA ConsoleTruth == ConsoleIInv => BannerTruthful
  <1> SUFFICES ASSUME ConsoleIInv PROVE BannerTruthful
    OBVIOUS
  <1>1. /\ since_contact \in Nat /\ next_keepalive \in Nat /\ link.since \in Nat /\ timeout \in Nat
        /\ \A a \in answers : a \in Nat /\ a <= Rtt
    BY ConsoleAssumption DEF ConsoleIInv, ClocksOK, Horizon
  <1>2. link.up => Quiet(KEEPALIVE + Rtt)
    BY <1>1, ConsoleAssumption DEF ConsoleIInv, LinkOK, Probed, Quiet
  <1>3. link.up /\ since_contact >= SHOW_AFTER => Silent(STALE_KEEPALIVE + Rtt)
    BY <1>1, ConsoleAssumption DEF ConsoleIInv, LinkOK, Probed, Silent
  <1>4. banner => since_contact >= SHOW_AFTER
    BY DEF ConsoleIInv, ClocksOK
  <1>5. banner /\ link.up => /\ link.since <= KEEPALIVE + Rtt
                             /\ \/ link.since <= STALE_KEEPALIVE + Rtt
                                \/ since_contact <= SHOW_AFTER + STALE_KEEPALIVE + Rtt
    BY <1>1, <1>2, <1>3, <1>4, ConsoleAssumption DEF Quiet, Silent
  <1>6. ~banner /\ ~link.up => link.since <= KEEPALIVE + STALE_AFTER
    BY <1>1, ConsoleAssumption DEF ConsoleIInv, ClocksOK, LinkOK
  <1>7. QED
    BY <1>5, <1>6 DEF BannerTruthful

\* Whenever the loop wakes up, keys are typed, the server answers or sends, and the link
\* comes and goes: the banner clears in time on a link that is up, never shows on a healthy
\* one, and shows in time on one that is down (noissh.rs:824-936, status.rs:29-43).
THEOREM ConsoleBannerTruthful == ConsoleSpec => []BannerTruthful
  <1>1. ConsoleInit => ConsoleIInv
    BY FreshClocks DEF ConsoleInit, Fresh
  <1>2. QED
    BY <1>1, ConsoleNextKeeps, ConsoleTruth, PTL DEF ConsoleSpec

-----------------------------------------------------------------------------
\* The detach key.  What a read forwards is a recursive function of its keys, and what a key
\* means depends on all the prefixes before it: both are followed key by key, from a least
\* number for which a claim would fail.

\* Every set of numbers has a least one.
LEMMA Least ==
    ASSUME NEW T \in SUBSET Nat, T # {}
    PROVE  \E m \in T : \A n \in T : m <= n
  <1> DEFINE R == OpToRel(<, Nat)
  <1>1. PICK m \in T : \A n \in T : ~(<<n, m>> \in R)
    <2>1. IsWellFoundedOn(R, Nat)
      BY NatLessThanWellFounded, Zenon
    <2> HIDE DEF R
    <2>2. QED
      BY <2>1, WFMin, Zenon
  <1>2. \A n \in T : ~(n < m)
    BY <1>1, Zenon DEF OpToRel
  <1>3. QED
    BY <1>2

\* f is the state of process_input after each key of a read.
ReadRun(f, p, input, N) ==
    f = [n \in 0..N |-> IF n = 0 THEN [pending |-> ReadStarts(p), quit |-> FALSE, forward |-> <<>>]
                        ELSE ProcessByte(f[n - 1], input[n])]

\* There is such a function for every read: a shorter one can be extended by a key.
LEMMA ReadRunExists ==
    ASSUME NEW p, NEW input, NEW N \in Nat
    PROVE  \E f : ReadRun(f, p, input, N)
  <1> DEFINE T == {m \in Nat : ~\E f : ReadRun(f, p, input, m)}
  <1>1. SUFFICES ASSUME T # {} PROVE FALSE
    OBVIOUS
  <1>2. PICK m \in T : \A n \in T : m <= n
    <2>1. T \in SUBSET Nat
      OBVIOUS
    <2> HIDE DEF T
    <2>2. QED
      BY <1>1, <2>1, Least
  <1> DEFINE init == [pending |-> ReadStarts(p), quit |-> FALSE, forward |-> <<>>]
  <1>3. m # 0
    <2> DEFINE f == [n \in 0..0 |-> init]
    <2>1. \A n \in 0..0 : n = 0
      OBVIOUS
    <2>2. ReadRun(f, p, input, 0)
      BY <2>1 DEF ReadRun
    <2>3. QED
      BY <2>2
  <1>4. m - 1 \in Nat /\ m \in Nat
    BY <1>3
  <1>5. PICK f : ReadRun(f, p, input, m - 1)
    BY <1>2, <1>4
  <1> DEFINE g == [n \in 0..m |-> IF n = m THEN ProcessByte(f[m - 1], input[m]) ELSE f[n]]
  <1> HIDE DEF init
  <1>6. ASSUME NEW n \in 0..m
        PROVE  g[n] = IF n = 0 THEN init ELSE ProcessByte(g[n - 1], input[n])
    <2>0. DOMAIN f = 0..m - 1 /\ \A k \in 0..m - 1 : f[k] = IF k = 0 THEN init ELSE ProcessByte(f[k - 1], input[k])
      BY <1>5, Zenon DEF ReadRun, init
    <2>1. CASE n = m
      <3>1. g[m] = ProcessByte(f[m - 1], input[m]) /\ g[m - 1] = f[m - 1]
        BY <1>4
      <3> HIDE DEF g
      <3>2. QED
        BY <1>3, <2>1, <3>1
    <2>2. CASE n # m
      <3>1. n \in 0..m - 1 /\ (n # 0 => n - 1 \in 0..m /\ n - 1 # m)
        BY <1>4, <2>2
      <3>2. g[n] = f[n] /\ (n # 0 => g[n - 1] = f[n - 1])
        BY <2>2, <3>1
      <3> HIDE DEF g
      <3>3. QED
        BY <2>0, <3>1, <3>2
    <2>3. QED
      BY <2>1, <2>2
  <1>7. ReadRun(g, p, input, m)
    <2>1. g = [n \in 0..m |-> g[n]]
      OBVIOUS
    <2> HIDE DEF g
    <2>2. QED
      BY <1>6, <2>1, Zenon DEF ReadRun, init
  <1>8. QED
    BY <1>7

\* What process_input returns is the state after the last key.
LEMMA ProcessInputRuns ==
    ASSUME NEW p, NEW input, Len(input) \in Nat
    PROVE  \E f : ReadRun(f, p, input, Len(input)) /\ ProcessInput(p, input) = f[Len(input)]
  <1> DEFINE after == CHOOSE f : ReadRun(f, p, input, Len(input))
  <1>1. ReadRun(after, p, input, Len(input))
    BY ReadRunExists
  <1>2. ProcessInput(p, input) = after[Len(input)]
    BY DEF ProcessInput, ReadRun
  <1>3. QED
    BY <1>1, <1>2, Zenon

\* The first key is no command, and the key after a prefix is one unless that prefix was.
LEMMA CommandedNext ==
    ASSUME NEW keys
    PROVE  /\ ~Commanded(keys, 1)
           /\ \A i \in Nat \ {0} : Commanded(keys, i + 1) <=> keys[i] = ESCAPE_KEY /\ ~Commanded(keys, i)
  <1> DEFINE starts(i) == {j \in 1..i : \A x \in j..i - 1 : keys[x] = ESCAPE_KEY}
             first(i) == CHOOSE j \in starts(i) : \A x \in starts(i) : j <= x
  <1>1. \A i : PrefixesBefore(keys, i) = i - first(i)
    BY DEF PrefixesBefore
  <1>2. ASSUME NEW i \in Nat \ {0}
        PROVE  /\ i \in starts(i) /\ starts(i) \subseteq 1..i
               /\ first(i) \in starts(i) /\ \A x \in starts(i) : first(i) <= x
    <2>1. i \in 1..i /\ \A x \in i..i - 1 : FALSE
      OBVIOUS
    <2>2. i \in starts(i) /\ starts(i) \subseteq 1..i
      BY <2>1
    <2>3. starts(i) \in SUBSET Nat
      BY <2>2
    <2> HIDE DEF starts
    <2>4. \E j \in starts(i) : \A x \in starts(i) : j <= x
      BY <2>2, <2>3, Least
    <2>5. QED
      BY <2>2, <2>4
  <1>3. ASSUME NEW i \in Nat \ {0}, NEW j \in starts(i), \A x \in starts(i) : j <= x
        PROVE  first(i) = j
    <2>1. first(i) \in 1..i /\ j \in 1..i /\ first(i) <= j /\ j <= first(i)
      BY <1>2, <1>3, Zenon
    <2>2. QED
      BY <2>1
  <1>4. ASSUME NEW i \in Nat \ {0}
        PROVE  starts(i + 1) = {i + 1} \cup {j \in starts(i) : keys[i] = ESCAPE_KEY}
    <2>1. ASSUME NEW j \in starts(i + 1), j # i + 1
          PROVE  j \in starts(i) /\ keys[i] = ESCAPE_KEY
      <3>1. j \in 1..i /\ i \in j..(i + 1) - 1
        BY <2>1
      <3>2. \A x \in j..i - 1 : x \in j..(i + 1) - 1
        BY <3>1
      <3>3. QED
        BY <2>1, <3>1, <3>2
    <2>2. ASSUME NEW j \in starts(i), keys[i] = ESCAPE_KEY
          PROVE  j \in starts(i + 1)
      <3>1. j \in 1..i + 1
        OBVIOUS
      <3>2. \A x \in j..(i + 1) - 1 : x \in j..i - 1 \/ x = i
        BY <3>1
      <3>3. QED
        BY <2>2, <3>1, <3>2
    <2>3. i + 1 \in starts(i + 1)
      BY <1>2
    <2> HIDE DEF starts
    <2>4. QED
      BY <2>1, <2>2, <2>3
  <1>5. ~Commanded(keys, 1)
    <2>1. first(1) \in 1..1
      BY <1>2
    <2> HIDE DEF first
    <2>2. first(1) = 1 /\ PrefixesBefore(keys, 1) = 1 - first(1)
      BY <1>1, <2>1
    <2>3. QED
      BY <2>2 DEF Commanded
  <1>6. ASSUME NEW i \in Nat \ {0}
        PROVE  Commanded(keys, i + 1) <=> keys[i] = ESCAPE_KEY /\ ~Commanded(keys, i)
    <2>0. first(i) \in 1..i /\ i + 1 \in Nat \ {0}
      <3>1. first(i) \in starts(i) /\ starts(i) \subseteq 1..i
        BY <1>2
      <3> HIDE DEF starts, first
      <3>2. QED
        BY <3>1
    <2>1. CASE keys[i] = ESCAPE_KEY
      <3>1. first(i) \in starts(i + 1) /\ \A x \in starts(i + 1) : first(i) <= x
        <4>1. first(i) \in starts(i) /\ \A x \in starts(i) : first(i) <= x
          BY <1>2
        <4>2. \A x : x \in starts(i + 1) <=> x = i + 1 \/ x \in starts(i)
          BY <1>4, <2>1
        <4> HIDE DEF starts, first
        <4>3. QED
          BY <2>0, <4>1, <4>2
      <3>2. first(i + 1) = first(i)
        BY <1>3, <2>0, <3>1
      <3>3. PrefixesBefore(keys, i + 1) = PrefixesBefore(keys, i) + 1 /\ PrefixesBefore(keys, i) \in Nat
        <4>1. PrefixesBefore(keys, i) = i - first(i) /\ PrefixesBefore(keys, i + 1) = (i + 1) - first(i + 1)
          BY <1>1
        <4> HIDE DEF first
        <4>2. QED
          BY <2>0, <3>2, <4>1
      <3>4. QED
        BY <2>1, <3>3 DEF Commanded
    <2>2. CASE keys[i] # ESCAPE_KEY
      <3>1. i + 1 \in starts(i + 1) /\ \A x \in starts(i + 1) : i + 1 <= x
        BY <1>4, <2>0, <2>2
      <3>2. first(i + 1) = i + 1
        BY <1>3, <2>0, <3>1, Zenon
      <3>3. PrefixesBefore(keys, i + 1) = 0
        BY <1>1, <2>0, <3>2
      <3>4. QED
        BY <2>2, <3>3 DEF Commanded
    <2>3. QED
      BY <2>1, <2>2
  <1>7. QED
    BY <1>5, <1>6

\* The keys meant for the shell, and what the next key adds to them.
LEMMA MeantFacts ==
    ASSUME NEW keys, NEW m \in Nat
    PROVE  /\ IsFiniteSet(Meant(keys, m)) /\ Cardinality(Meant(keys, m)) \in Nat
           /\ Meant(keys, m) \subseteq 1..m
           /\ \A i \in Meant(keys, m) : Cardinality(Meant(keys, i)) \in 1..Cardinality(Meant(keys, m))
           /\ m + 1 \notin Meant(keys, m)
           /\ Meant(keys, m + 1) = IF (keys[m + 1] = ESCAPE_KEY <=> Commanded(keys, m + 1))
                                   THEN Meant(keys, m) \cup {m + 1} ELSE Meant(keys, m)
  <1>1. Meant(keys, m) \subseteq 1..m
    BY DEF Meant
  <1>2. IsFiniteSet(1..m)
    BY FS_Interval
  <1>3. IsFiniteSet(Meant(keys, m)) /\ Cardinality(Meant(keys, m)) \in Nat
    BY <1>1, <1>2, FS_Subset, FS_CardinalityType
  <1>4. ASSUME NEW i \in Meant(keys, m)
        PROVE  Cardinality(Meant(keys, i)) \in 1..Cardinality(Meant(keys, m))
    <2>1. i \in Nat /\ i >= 1 /\ i <= m
      BY <1>1
    <2>2. i \in Meant(keys, i) /\ Meant(keys, i) \subseteq Meant(keys, m)
      BY <2>1 DEF Meant
    <2>3. IsFiniteSet(Meant(keys, i)) /\ Cardinality(Meant(keys, i)) <= Cardinality(Meant(keys, m))
      BY <1>3, <2>2, FS_Subset
    <2>4. Cardinality(Meant(keys, i)) \in Nat /\ Cardinality(Meant(keys, i)) # 0
      BY <2>2, <2>3, FS_CardinalityType, FS_EmptySet
    <2>5. QED
      BY <1>3, <2>3, <2>4
  <1>5. m + 1 \notin Meant(keys, m)
    BY <1>1
  <1>6. Meant(keys, m + 1) = IF (keys[m + 1] = ESCAPE_KEY <=> Commanded(keys, m + 1))
                             THEN Meant(keys, m) \cup {m + 1} ELSE Meant(keys, m)
    <2>1. 1..m + 1 = 1..m \cup {m + 1}
      OBVIOUS
    <2>2. QED
      BY <2>1 DEF Meant
  <1>7. QED
    BY <1>1, <1>3, <1>4, <1>5, <1>6

\* A key that is meant for the shell goes to the end of what is forwarded.
LEMMA FilteredStep ==
    ASSUME NEW keys, NEW m \in Nat, NEW K, NEW s \in Seq(K), Filtered(s, keys, m), NEW b \in K,
           b = keys[m + 1]
    PROVE  IF (b = ESCAPE_KEY <=> Commanded(keys, m + 1))
           THEN Filtered(Append(s, b), keys, m + 1) ELSE Filtered(s, keys, m + 1)
  <1> DEFINE M == Meant(keys, m)
             c == Cardinality(M)
  <1>1. /\ IsFiniteSet(M) /\ c \in Nat /\ m + 1 \notin M /\ Len(s) = c
        /\ \A i \in M : Cardinality(Meant(keys, i)) \in 1..c /\ s[Cardinality(Meant(keys, i))] = keys[i]
    BY MeantFacts, Zenon DEF Filtered
  <1>2. CASE (b = ESCAPE_KEY <=> Commanded(keys, m + 1))
    <2>1. Meant(keys, m + 1) = M \cup {m + 1}
      BY <1>2, MeantFacts, Zenon
    <2>2. Cardinality(Meant(keys, m + 1)) = c + 1
      BY <1>1, <2>1, FS_AddElement
    <2> DEFINE t == Append(s, b)
    <2>3. Len(t) = c + 1 /\ t[c + 1] = b /\ \A n \in 1..c : t[n] = s[n]
      BY <1>1
    <2> HIDE DEF t, M, c
    <2>4. ASSUME NEW i \in Meant(keys, m + 1) PROVE t[Cardinality(Meant(keys, i))] = keys[i]
      <3>1. CASE i \in M
        BY <1>1, <2>3, <3>1
      <3>2. CASE i = m + 1
        BY <2>2, <2>3, <3>2
      <3>3. QED
        BY <2>1, <3>1, <3>2
    <2>5. Filtered(t, keys, m + 1)
      BY <2>2, <2>3, <2>4 DEF Filtered
    <2>6. QED
      BY <1>2, <2>5 DEF t
  <1>3. CASE ~(b = ESCAPE_KEY <=> Commanded(keys, m + 1))
    <2>1. Meant(keys, m + 1) = M
      BY <1>3, MeantFacts, Zenon
    <2>2. Filtered(s, keys, m + 1)
      BY <1>1, <2>1 DEF Filtered
    <2>3. QED
      BY <1>3, <2>2
  <1>4. QED
    BY <1>2, <1>3

\* process_input after the first n keys of a read that starts behind key m, when s has been
\* forwarded before: a prefix is pending exactly if the next key is commanded.
Midway(x, s, keys, m, n) ==
    /\ x.forward \in Seq(Keys) /\ x.pending \in BOOLEAN /\ x.quit \in BOOLEAN
    /\ x.pending <=> Commanded(keys, m + n + 1)
    /\ x.quit <=> \E i \in m + 1 .. m + n : Commanded(keys, i) /\ keys[i] \in {".", "q"}
    /\ Filtered(s \o x.forward, keys, m + n)

\* One key of a read: a prefix, a literal prefix, a command or a key for the shell.
LEMMA ByteKeeps ==
    ASSUME NEW x, NEW s \in Seq(Keys), NEW keys, NEW m \in Nat, NEW n \in Nat, Midway(x, s, keys, m, n),
           DOMAIN x = {"pending", "quit", "forward"}, keys[m + n + 1] \in Keys
    PROVE  /\ Midway(ProcessByte(x, keys[m + n + 1]), s, keys, m, n + 1)
           /\ DOMAIN ProcessByte(x, keys[m + n + 1]) = {"pending", "quit", "forward"}
  <1> DEFINE b == keys[m + n + 1]
             y == ProcessByte(x, b)
             i == m + n + 1
  <1>1. /\ x.forward \in Seq(Keys) /\ x.pending \in BOOLEAN /\ x.quit \in BOOLEAN
        /\ x.pending <=> Commanded(keys, i)
        /\ x.quit <=> \E j \in m + 1 .. m + n : Commanded(keys, j) /\ keys[j] \in {".", "q"}
        /\ Filtered(s \o x.forward, keys, m + n)
    BY DEF Midway
  <1>2. b \in Keys /\ i \in Nat \ {0} /\ b = keys[i]
    OBVIOUS
  <1>3. Commanded(keys, i + 1) <=> b = ESCAPE_KEY /\ ~x.pending
    BY <1>1, <1>2, CommandedNext, Zenon
  <1>4. /\ DOMAIN y = {"pending", "quit", "forward"}
        /\ y.pending = (~x.pending /\ b = ESCAPE_KEY)
        /\ y.quit = (x.quit \/ (x.pending /\ b \in {".", "q"}))
        /\ y.forward = IF (b = ESCAPE_KEY <=> x.pending) THEN Append(x.forward, b) ELSE x.forward
    <2> HIDE DEF b
    <2>1. CASE x.pending
      BY <1>1, <2>1, Zenon DEF ProcessByte
    <2>2. CASE ~x.pending /\ b = ESCAPE_KEY
      BY <1>1, <2>2, Zenon DEF ProcessByte
    <2>3. CASE ~x.pending /\ b # ESCAPE_KEY
      BY <1>1, <2>3 DEF ProcessByte
    <2>4. QED
      BY <1>1, <2>1, <2>2, <2>3, Zenon
  <1> HIDE DEF b, y
  <1>5. y.forward \in Seq(Keys) /\ s \o x.forward \in Seq(Keys)
        /\ s \o Append(x.forward, b) = Append(s \o x.forward, b)
    <2>1. Append(x.forward, b) \in Seq(Keys)
      BY <1>1, <1>2
    <2>2. y.forward \in Seq(Keys)
      BY <1>1, <1>4, <2>1, Zenon
    <2>3. QED
      BY <1>1, <1>2, <2>2
  <1>6. Filtered(s \o y.forward, keys, i)
    <2>1. IF (b = ESCAPE_KEY <=> Commanded(keys, i))
          THEN Filtered(Append(s \o x.forward, b), keys, i) ELSE Filtered(s \o x.forward, keys, i)
      <3>1. m + n \in Nat /\ i = (m + n) + 1
        OBVIOUS
      <3> HIDE DEF b, y, i
      <3>2. QED
        BY <1>1, <1>2, <1>5, <3>1, FilteredStep, Zenon
    <2> HIDE DEF b, y, i
    <2>2. QED
      <3>1. CASE (b = ESCAPE_KEY <=> x.pending)
        BY <1>1, <1>4, <1>5, <2>1, <3>1, Zenon
      <3>2. CASE ~(b = ESCAPE_KEY <=> x.pending)
        BY <1>1, <1>4, <1>5, <2>1, <3>2
      <3>3. QED
        BY <3>1, <3>2
  <1>7. y.quit <=> \E j \in m + 1 .. i : Commanded(keys, j) /\ keys[j] \in {".", "q"}
    <2>1. \A j : j \in m + 1 .. i <=> j \in m + 1 .. m + n \/ j = i
      OBVIOUS
    <2> HIDE DEF y, i
    <2>2. QED
      BY <1>1, <1>2, <1>4, <2>1, Zenon
  <1>8. m + (n + 1) = i /\ m + (n + 1) + 1 = i + 1 /\ y.pending \in BOOLEAN /\ y.quit \in BOOLEAN
    <2>1. m + (n + 1) = i /\ m + (n + 1) + 1 = i + 1
      OBVIOUS
    <2>2. y.pending \in BOOLEAN /\ y.quit \in BOOLEAN
      BY <1>4, Zenon
    <2>3. QED
      BY <2>1, <2>2
  <1>9. y.pending <=> Commanded(keys, i + 1)
    BY <1>3, <1>4, Zenon
  <1> HIDE DEF y, i
  <1>10. Midway(y, s, keys, m, n + 1)
    BY <1>5, <1>6, <1>7, <1>8, <1>9 DEF Midway
  <1>11. QED
    BY <1>4, <1>10 DEF b, y

\* One read, wherever in what was typed it starts.
LEMMA ProcessInputExact ==
    ASSUME NEW s \in Seq(Keys), NEW keys, NEW m \in Nat, NEW input \in Seq(Keys), NEW p \in BOOLEAN,
           \A i \in 1..Len(input) : input[i] = keys[m + i],
           p <=> Commanded(keys, m + 1), Filtered(s, keys, m)
    PROVE  Midway(ProcessInput(p, input), s, keys, m, Len(input))
  <1> DEFINE N == Len(input)
             Good(x, n) == Midway(x, s, keys, m, n) /\ DOMAIN x = {"pending", "quit", "forward"}
  <1>1. PICK f : ReadRun(f, p, input, N) /\ ProcessInput(p, input) = f[N]
    BY ProcessInputRuns
  <1>2. N \in Nat /\ f[0] = [pending |-> p, quit |-> FALSE, forward |-> <<>>]
        /\ \A n \in 1..N : f[n] = ProcessByte(f[n - 1], input[n])
    <2>1. N \in Nat
      OBVIOUS
    <2> HIDE DEF N
    <2>2. 0 \in 0..N /\ \A n \in 1..N : n \in 0..N /\ n # 0
      BY <2>1
    <2>3. QED
      BY <1>1, <2>1, <2>2, Zenon DEF ReadRun, ReadStarts
  <1> DEFINE T == {n \in 0..N : ~Good(f[n], n)}
  <1>3. SUFFICES ASSUME T # {} PROVE FALSE
    <2>1. N \in 0..N
      BY <1>2
    <2>2. QED
      BY <1>1, <2>1, Zenon
  <1>4. PICK n \in T : \A k \in T : n <= k
    <2>1. T \in SUBSET Nat
      BY <1>2
    <2> HIDE DEF T
    <2>2. QED
      BY <1>3, <2>1, Least, Zenon
  <1>5. n # 0
    <2> DEFINE x == [pending |-> p, quit |-> FALSE, forward |-> <<>>]
    <2>1. /\ x.forward = <<>> /\ x.pending = p /\ x.quit = FALSE
          /\ DOMAIN x = {"pending", "quit", "forward"}
      OBVIOUS
    <2> HIDE DEF x
    <2>2. s \o x.forward = s /\ x.forward \in Seq(Keys) /\ m + 0 = m /\ m + 0 + 1 = m + 1 /\ m + 1 .. m + 0 = {}
      BY <2>1
    <2>3. Midway(x, s, keys, m, 0)
      BY <2>1, <2>2, Zenon DEF Midway
    <2>4. QED
      BY <1>2, <2>1, <2>3, Zenon DEF x
  <1>6. n \in 1..N /\ n - 1 \in 0..N /\ n - 1 \in Nat /\ ~(n <= n - 1)
    BY <1>2, <1>5
  <1>7. Good(f[n - 1], n - 1)
    BY <1>4, <1>6, Zenon
  <1>8. f[n] = ProcessByte(f[n - 1], keys[m + n]) /\ keys[m + n] \in Keys
    BY <1>2, <1>6, SMTT(30)
  <1>9. Good(f[n], n)
    <2>1. m + (n - 1) + 1 = m + n /\ (n - 1) + 1 = n
      BY <1>6
    <2>2. QED
      <3>1. keys[m + (n - 1) + 1] \in Keys /\ f[n] = ProcessByte(f[n - 1], keys[m + (n - 1) + 1])
        BY <1>8, <2>1
      <3> DEFINE k == n - 1
                 x == f[k]
      <3>2. k \in Nat /\ Midway(x, s, keys, m, k) /\ DOMAIN x = {"pending", "quit", "forward"}
            /\ keys[m + k + 1] \in Keys
        BY <1>6, <1>7, <3>1
      <3>3. f[n] = ProcessByte(x, keys[m + k + 1]) /\ k + 1 = n
        BY <2>1, <3>1, Zenon
      <3> HIDE DEF k, x
      <3>4. /\ Midway(ProcessByte(x, keys[m + k + 1]), s, keys, m, k + 1)
            /\ DOMAIN ProcessByte(x, keys[m + k + 1]) = {"pending", "quit", "forward"}
        BY <3>2, ByteKeeps
      <3>5. QED
        BY <3>3, <3>4, Zenon
  <1>10. QED
    BY <1>9

\* What the keys read so far mean does not depend on the ones typed later.
LEMMA SameKeys ==
    ASSUME NEW keys, NEW more, NEW m \in Nat, \A i \in 1..m : more[i] = keys[i]
    PROVE  /\ \A i \in 1..m + 1 : Commanded(more, i) = Commanded(keys, i)
           /\ \A n \in 0..m : Meant(more, n) = Meant(keys, n)
           /\ \A s : Filtered(s, keys, m) => Filtered(s, more, m)
  <1>1. \A i \in 1..m + 1 : Commanded(more, i) = Commanded(keys, i)
    <2> SUFFICES ASSUME NEW i \in 1..m + 1 PROVE Commanded(more, i) = Commanded(keys, i)
      OBVIOUS
    <2>1. {j \in 1..i : \A x \in j..i - 1 : more[x] = ESCAPE_KEY}
            = {j \in 1..i : \A x \in j..i - 1 : keys[x] = ESCAPE_KEY}
      <3>1. \A j \in 1..i : \A x \in j..i - 1 : more[x] = keys[x]
        OBVIOUS
      <3>2. QED
        BY <3>1
    <2>2. QED
      BY <2>1, Zenon DEF Commanded, PrefixesBefore
  <1>2. \A n \in 0..m : Meant(more, n) = Meant(keys, n)
    <2> SUFFICES ASSUME NEW n \in 0..m PROVE Meant(more, n) = Meant(keys, n)
      OBVIOUS
    <2>1. \A i \in 1..n : more[i] = keys[i] /\ Commanded(more, i) = Commanded(keys, i)
      BY <1>1
    <2>2. QED
      BY <2>1 DEF Meant
  <1>3. ASSUME NEW s, Filtered(s, keys, m)
        PROVE  Filtered(s, more, m)
    <2>1. m \in 0..m /\ \A i \in Meant(keys, m) : i \in 0..m /\ i \in 1..m
      BY DEF Meant
    <2>2. QED
      BY <1>2, <1>3, <2>1 DEF Filtered
  <1>4. QED
    BY <1>1, <1>2, <1>3

-----------------------------------------------------------------------------
\* What stdin holds is the end of what was typed, and a prefix is pending exactly if the next
\* key is commanded, in whichever read it comes.
KeysOK ==
    /\ typed \in Seq(Keys) /\ unread \in Seq(Keys) /\ forwarded \in Seq(Keys)
    /\ ReadSoFar \in Nat
    /\ \A i \in 1..Len(unread) : unread[i] = typed[ReadSoFar + i]
    /\ esc_pending \in BOOLEAN
    /\ esc_pending <=> Commanded(typed, ReadSoFar + 1)
    /\ DetachExact

\* Nothing is typed yet.
LEMMA KeysInit ==
    ConsoleInit => KeysOK
  <1> SUFFICES ASSUME ConsoleInit PROVE KeysOK
    OBVIOUS
  <1>1. /\ typed = <<>> /\ unread = <<>> /\ forwarded = <<>> /\ esc_pending = FALSE
        /\ status = "running"
    BY DEF ConsoleInit
  <1>2. ReadSoFar = 0 /\ ReadSoFar + 1 = 1 /\ 1..0 = {}
    BY <1>1 DEF ReadSoFar
  <1>3. ~Commanded(typed, 1)
    BY CommandedNext
  <1>4. Filtered(forwarded, typed, 0)
    <2>1. Meant(typed, 0) = {}
      BY <1>2 DEF Meant
    <2>2. Len(forwarded) = 0 /\ Cardinality({}) = 0
      BY <1>1, FS_EmptySet
    <2>3. QED
      BY <2>1, <2>2 DEF Filtered
  <1>5. DetachExact
    BY <1>1, <1>2, <1>4 DEF DetachExact
  <1>6. /\ typed \in Seq(Keys) /\ unread \in Seq(Keys) /\ forwarded \in Seq(Keys)
        /\ 1..Len(unread) = {} /\ esc_pending \in BOOLEAN /\ ReadSoFar \in Nat
    <2>1. <<>> \in Seq(Keys) /\ Len(unread) = 0
      BY <1>1
    <2>2. QED
      BY <1>1, <1>2, <2>1, Zenon
  <1>7. esc_pending <=> Commanded(typed, ReadSoFar + 1)
    BY <1>1, <1>2, <1>3
  <1>8. QED
    BY <1>5, <1>6, <1>7 DEF KeysOK

\* A turn reads all that stdin holds.
LEMMA TurnKeys ==
    ASSUME KeysOK, Turn
    PROVE  KeysOK'
  <1> DEFINE m == ReadSoFar
             n == Len(unread)
             out == ProcessInput(esc_pending, unread)
  <1>1. /\ typed \in Seq(Keys) /\ unread \in Seq(Keys) /\ forwarded \in Seq(Keys)
        /\ m \in Nat /\ n \in Nat /\ m + n = Len(typed) /\ esc_pending \in BOOLEAN
        /\ \A i \in 1..n : unread[i] = typed[m + i]
        /\ esc_pending <=> Commanded(typed, m + 1)
        /\ Filtered(forwarded, typed, m) /\ status = "running"
        /\ ~\E i \in 1..m : Commanded(typed, i) /\ typed[i] \in {".", "q"}
    BY DEF KeysOK, DetachExact, ReadSoFar, Turn
  <1>2. /\ unread' = <<>> /\ esc_pending' = out.pending /\ typed' = typed
        /\ forwarded' = forwarded \o out.forward
        /\ status' = IF out.quit THEN "quit" ELSE "running"
    BY <1>1 DEF Turn, LoopOver
  <1>3. Midway(out, forwarded, typed, m, n)
    <2> HIDE DEF m, out
    <2>1. QED
      BY <1>1, ProcessInputExact DEF out
  <1> HIDE DEF m, n, out
  <1>4. /\ out.forward \in Seq(Keys) /\ out.pending \in BOOLEAN /\ out.quit \in BOOLEAN
        /\ out.pending <=> Commanded(typed, m + n + 1)
        /\ out.quit <=> \E i \in m + 1 .. m + n : Commanded(typed, i) /\ typed[i] \in {".", "q"}
        /\ Filtered(forwarded \o out.forward, typed, m + n)
    BY <1>3 DEF Midway
  <1>5. ReadSoFar' = m + n
    BY <1>1, <1>2 DEF ReadSoFar
  <1>6. out.quit <=> \E i \in 1..m + n : Commanded(typed, i) /\ typed[i] \in {".", "q"}
    <2>1. \A i : i \in 1..m + n <=> i \in 1..m \/ i \in m + 1 .. m + n
      BY <1>1
    <2>2. QED
      BY <1>1, <1>4, <2>1
  <1>7. /\ typed' \in Seq(Keys) /\ unread' \in Seq(Keys) /\ forwarded' \in Seq(Keys)
        /\ m + n \in Nat /\ 1..Len(unread') = {} /\ esc_pending' \in BOOLEAN
    BY <1>1, <1>2, <1>4
  <1>8. /\ Filtered(forwarded', typed', m + n)
        /\ esc_pending' <=> Commanded(typed', m + n + 1)
        /\ status' = "quit" <=> \E i \in 1..m + n : Commanded(typed', i) /\ typed'[i] \in {".", "q"}
    BY <1>2, <1>4, <1>6
  <1>9. DetachExact'
    BY <1>5, <1>8, Zenon DEF DetachExact, Filtered, Meant, Commanded, PrefixesBefore
  <1>10. QED
    BY <1>5, <1>7, <1>8, <1>9, Zenon DEF KeysOK, Commanded, PrefixesBefore

\* A key is typed.
LEMMA TypeKeys ==
    ASSUME KeysOK, NEW k \in Keys, Type(k)
    PROVE  KeysOK'
  <1> DEFINE m == ReadSoFar
  <1>1. /\ typed \in Seq(Keys) /\ unread \in Seq(Keys) /\ forwarded \in Seq(Keys)
        /\ m \in Nat /\ m + Len(unread) = Len(typed) /\ esc_pending \in BOOLEAN
        /\ \A i \in 1..Len(unread) : unread[i] = typed[m + i]
        /\ esc_pending <=> Commanded(typed, m + 1)
        /\ Filtered(forwarded, typed, m) /\ status = "running"
        /\ ~\E i \in 1..m : Commanded(typed, i) /\ typed[i] \in {".", "q"}
    BY DEF KeysOK, DetachExact, ReadSoFar, Type
  <1>2. /\ typed' = Append(typed, k) /\ unread' = Append(unread, k)
        /\ esc_pending' = esc_pending /\ forwarded' = forwarded /\ status' = status
    BY DEF Type
  <1> HIDE DEF m
  <1>3. ReadSoFar' = m
    BY <1>1, <1>2 DEF ReadSoFar
  <1>4. \A i \in 1..m : typed'[i] = typed[i]
    BY <1>1, <1>2
  <1>5. /\ \A i \in 1..m + 1 : Commanded(typed', i) = Commanded(typed, i)
        /\ Filtered(forwarded, typed', m)
    BY <1>1, <1>4, SameKeys, Zenon
  <1>6. \A i \in 1..Len(unread') : unread'[i] = typed'[m + i]
    BY <1>1, <1>2
  <1>7. m + 1 \in 1..m + 1 /\ \A i \in 1..m : i \in 1..m + 1
    BY <1>1
  <1>8. /\ esc_pending' <=> Commanded(typed', m + 1)
        /\ ~\E i \in 1..m : Commanded(typed', i) /\ typed'[i] \in {".", "q"}
    BY <1>1, <1>2, <1>4, <1>5, <1>7
  <1>9. Filtered(forwarded', typed', m) /\ status' = "running"
    BY <1>1, <1>2, <1>5
  <1>10. DetachExact'
    BY <1>3, <1>8, <1>9, Zenon DEF DetachExact, Filtered, Meant, Commanded, PrefixesBefore
  <1>11. typed' \in Seq(Keys) /\ unread' \in Seq(Keys) /\ forwarded' \in Seq(Keys) /\ esc_pending' \in BOOLEAN
    BY <1>1, <1>2
  <1>12. QED
    BY <1>1, <1>3, <1>6, <1>8, <1>10, <1>11 DEF KeysOK, Commanded, PrefixesBefore

\* The link, the clocks and the end of the loop leave the keys alone.
LEMMA OthersKeepKeys ==
    ASSUME KeysOK, UNCHANGED keyVars, status' = status \/ status' \in {"signalled", "exited"}
    PROVE  KeysOK'
  <1>1. typed' = typed /\ unread' = unread /\ forwarded' = forwarded /\ esc_pending' = esc_pending
    BY DEF keyVars
  <1>2. ReadSoFar' = ReadSoFar
    BY <1>1 DEF ReadSoFar
  <1>3. DetachExact'
    <2>1. Filtered(forwarded', typed', ReadSoFar')
      BY <1>1, <1>2 DEF KeysOK, DetachExact
    <2>2. status' \in {"running", "quit"} =>
            (status' = "quit" <=> \E i \in 1..ReadSoFar' : Commanded(typed', i) /\ typed'[i] \in {".", "q"})
      BY <1>1, <1>2 DEF KeysOK, DetachExact
    <2>3. QED
      BY <2>1, <2>2, Zenon DEF DetachExact, Filtered, Meant, Commanded, PrefixesBefore
  <1>4. QED
    BY <1>1, <1>2, <1>3 DEF KeysOK, Commanded, PrefixesBefore

\* However the keys are cut into reads, every key that is meant for the shell is forwarded, in
\* its place, and no other, and the loop quits with the read that holds a detach command and
\* with no other (process_input and its caller: status.rs:88-105, noissh.rs:880-905).
THEOREM ConsoleDetachExact ==
    ConsoleSpec => []DetachExact
  <1>1. ASSUME KeysOK, ConsoleNext PROVE KeysOK'
    <2>1. CASE Turn
      BY <1>1, <2>1, TurnKeys
    <2>2. CASE \E k \in Keys : Type(k)
      BY <1>1, <2>2, TypeKeys
    <2>3. CASE Ends
      BY <1>1, <2>3, OthersKeepKeys DEF Ends, LoopOver
    <2>4. CASE Arrives \/ LinkChanges \/ Tick
      BY <1>1, <2>4, OthersKeepKeys DEF Arrives, LinkChanges, Tick
    <2>5. QED
      BY <1>1, <2>1, <2>2, <2>3, <2>4 DEF ConsoleNext
  <1>2. ASSUME KeysOK, UNCHANGED consoleVars PROVE KeysOK'
    BY <1>2, OthersKeepKeys DEF consoleVars, keyVars
  <1>3. KeysOK => DetachExact
    BY DEF KeysOK
  <1>4. QED
    BY KeysInit, <1>1, <1>2, <1>3, PTL DEF ConsoleSpec

============================================================================
