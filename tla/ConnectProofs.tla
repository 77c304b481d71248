---------------------------- MODULE ConnectProofs ----------------------------
(***************************************************************************)
(* For any number of runs, hosts and servers, whatever fails or is killed:  *)
(* a session is with a server the user has reason to trust, the machine has *)
(* one identity, and known_hosts holds only pins that were there at first or *)
(* were met on first use, none of which is lost but as the code means to.   *)
(***************************************************************************)
EXTENDS Connect, FiniteSetTheorems, WellFoundedInduction, TLAPS

Fields == {"pc", "args", "key", "known", "dirty", "fresh", "pin", "mismatch", "boot", "server"}

\* Where a run has a server, or may have: after the direct attempt, or --forget-host.
Late == {"save", "write", "rename", "upgrade", "session"}

\* The locals of a run: a mismatch is the end of it, there is no server before an attempt
\* succeeded, and at the attempt what is pinned for the label is what known_hosts said.
RunOK(f) ==
    /\ DOMAIN f = Fields /\ (f.pc # "over" => f.mismatch = FALSE)
    /\ f.pc \notin Late => f.dirty = FALSE /\ f.server = NoKey
    /\ f.pc = "direct" =>
         LET l == LabelOf(f.args) IN
         /\ f.pin = IF Pinned(f.known, l) THEN f.known[l] ELSE NoKey
         /\ f.args.direct \/ Pinned(f.known, l)
    /\ f.server # NoKey =>
         \/ f.server = f.pin
         \/ f.pin = NoKey /\ f.args.direct /\ f.dirty
         \/ f.server = f.boot.key /\ ~f.dirty

RunsOK == DOMAIN run = Runs /\ \A r \in Runs : RunOK(run[r])

\* A key file without a key, and one with no other key than k.
Blank(f) == f.lines = <<>>
Holds(f, k) == Blank(f) \/ (f.exists /\ DOMAIN f.lines = {1} /\ f.lines[1].key = k)

Writing(r) == run[r].pc = "write_key"

\* No key anywhere.
Virgin ==
    /\ Blank(id) /\ Blank(id_pub)
    /\ \A r \in Runs : Blank(tmp[<<"id", r>>]) /\ run[r].key = None

\* The identity is k.
Identity(k) ==
    /\ k # None /\ Holds(id, k) /\ Holds(id_pub, k)
    /\ \A r \in Runs : Holds(tmp[<<"id", r>>], k) /\ run[r].key \in {None, k}

\* There is an identity.  Until the key file is written there is no key, and only who
\* created the file writes it.  What is copied is a key.
KeysOK ==
    /\ DOMAIN tmp = {"known_hosts", "id"} \X Runs
    /\ \E k : Identity(k)
    /\ ~id.exists => Virgin
    /\ \A r \in Runs : Writing(r) => id.exists /\ Virgin
    /\ \A r, q \in Runs : Writing(r) /\ Writing(q) => r = q
    /\ \A r \in Runs : run[r].pc \in {"migrate", "migrated", "public_key"} => run[r].key # None

IInv == RunsOK /\ KeysOK

-----------------------------------------------------------------------------

LEMMA NewRunFacts ==
    /\ RunOK(NewRun) /\ NewRun.key = None /\ NewRun.pc = "new"
    /\ RunOK(Ended) /\ Ended.key = None /\ Ended.pc = "over"
  <1>1. /\ DOMAIN NewRun = Fields /\ NewRun.mismatch = FALSE /\ NewRun.dirty = FALSE
        /\ NewRun.server = NoKey /\ NewRun.key = None /\ NewRun.pc = "new"
    BY DEF NewRun, Fields
  <1>2. /\ DOMAIN Ended = Fields /\ Ended.mismatch = FALSE /\ Ended.dirty = FALSE
        /\ Ended.server = NoKey /\ Ended.key = None /\ Ended.pc = "over"
    BY DEF Ended, NewRun, Fields
  <1>3. QED
    BY <1>1, <1>2 DEF RunOK

\* A step that neither writes a key file nor gives a run a key.
LEMMA KeysUntouched ==
    ASSUME KeysOK, id' = id, id_pub' = id_pub, DOMAIN tmp' = DOMAIN tmp,
           \A r \in Runs : /\ tmp'[<<"id", r>>] = tmp[<<"id", r>>]
                           /\ run'[r].key \in {None, run[r].key}
                           /\ run'[r].pc = "write_key" => run[r].pc = "write_key"
                           /\ run'[r].pc \in {"migrate", "migrated", "public_key"} => run'[r].key # None
    PROVE  KeysOK'
  <1>1. PICK k : Identity(k)
    BY DEF KeysOK
  <1>2. Identity(k)'
    BY <1>1 DEF Identity, Holds, Blank
  <1>3. Virgin => Virgin'
    BY DEF Virgin, Blank
  <1>4. \A r \in Runs : Writing(r)' => Writing(r)
    BY Zenon DEF Writing
  <1>5. (\E j : Identity(j))'
    BY <1>2
  <1>6. (~id.exists => Virgin)' /\ (\A r \in Runs : Writing(r) => id.exists /\ Virgin)'
    BY <1>3, <1>4 DEF KeysOK
  <1>7. (\A r, q \in Runs : Writing(r) /\ Writing(q) => r = q)'
    BY <1>4 DEF KeysOK
  <1>8. QED
    BY <1>5, <1>6, <1>7, Zenon DEF KeysOK

\* A step of one run of that kind.
LEMMA OneRunSteps ==
    ASSUME IInv, NEW r \in Runs, NEW g, run' = [run EXCEPT ![r] = g], RunOK(g),
           g.key \in {None, run[r].key}, g.pc # "write_key",
           g.pc \in {"migrate", "migrated", "public_key"} => g.key # None,
           id' = id, id_pub' = id_pub, DOMAIN tmp' = DOMAIN tmp,
           \A q \in Runs : tmp'[<<"id", q>>] = tmp[<<"id", q>>]
    PROVE  IInv'
  <1>1. run'[r] = g /\ DOMAIN run' = Runs /\ \A q \in Runs \ {r} : run'[q] = run[q]
    BY DEF IInv, RunsOK
  <1>2. RunsOK'
    <2>1. \A q \in Runs : RunOK(run'[q])
      BY <1>1 DEF IInv, RunsOK
    <2>2. QED
      BY <1>1, <2>1 DEF RunsOK, RunOK
  <1>3. ASSUME NEW q \in Runs
        PROVE  /\ run'[q].key \in {None, run[q].key}
               /\ run'[q].pc = "write_key" => run[q].pc = "write_key"
               /\ run'[q].pc \in {"migrate", "migrated", "public_key"} => run'[q].key # None
    <2>1. CASE q = r
      BY <1>1, <2>1
    <2>2. CASE q # r
      BY <1>1, <2>2 DEF IInv, KeysOK
    <2>3. QED
      BY <2>1, <2>2
  <1>4. KeysOK'
    BY <1>3, KeysUntouched DEF IInv
  <1>5. QED
    BY <1>2, <1>4 DEF IInv

\* A run at pc may go on at next: it does not forget its server, and is not over.
MayGoto(pc, next) == next = "over" \/ (pc # "over" /\ (next \in Late \/ pc \notin Late))

\* Only where the run is changes.
LEMMA GotoFacts ==
    ASSUME IInv, NEW r \in Runs, NEW pc, Goto(r, pc), pc # "direct", MayGoto(run[r].pc, pc)
    PROVE  \E g : /\ run' = [run EXCEPT ![r] = g] /\ RunOK(g) /\ g.pc = pc
                  /\ g.key = IF pc = "over" THEN None ELSE run[r].key
  <1>1. CASE pc = "over"
    <2>1. run' = [run EXCEPT ![r] = Ended]
      BY <1>1 DEF Goto
    <2>2. QED
      BY <1>1, <2>1, NewRunFacts, Zenon
  <1>2. CASE pc # "over"
    <2> DEFINE f == run[r]
               g == [f EXCEPT !.pc = pc]
    <2>1. run' = [run EXCEPT ![r] = g]
      BY <1>2 DEF Goto
    <2>2. RunOK(f)
      BY DEF IInv, RunsOK
    <2> HIDE DEF f
    <2>3. /\ DOMAIN g = Fields /\ g.pc = pc /\ g.args = f.args /\ g.key = f.key /\ g.known = f.known
          /\ g.dirty = f.dirty /\ g.pin = f.pin /\ g.mismatch = f.mismatch /\ g.boot = f.boot
          /\ g.server = f.server
      BY <2>2 DEF RunOK, Fields
    <2> HIDE DEF g
    <2>4. RunOK(g)
      BY <1>2, <2>2, <2>3 DEF RunOK, MayGoto, f
    <2>5. QED
      BY <1>2, <2>1, <2>3, <2>4, Zenon DEF f
  <1>3. QED
    BY <1>1, <1>2

\* Such a step, with the key files left alone.
LEMMA GotoKeeps ==
    ASSUME IInv, NEW r \in Runs, NEW pc, Goto(r, pc),
           pc \notin {"direct", "write_key", "migrate", "migrated", "public_key"},
           MayGoto(run[r].pc, pc),
           id' = id, id_pub' = id_pub, DOMAIN tmp' = DOMAIN tmp,
           \A q \in Runs : tmp'[<<"id", q>>] = tmp[<<"id", q>>]
    PROVE  IInv'
  <1>1. PICK g : /\ run' = [run EXCEPT ![r] = g] /\ RunOK(g) /\ g.pc = pc
                 /\ g.key = IF pc = "over" THEN None ELSE run[r].key
    BY GotoFacts
  <1>2. g.key \in {None, run[r].key} /\ g.pc # "write_key" /\ g.pc \notin {"migrate", "migrated", "public_key"}
    BY <1>1
  <1>3. QED
    BY <1>1, <1>2, OneRunSteps, Zenon

LEMMA NothingOfRunsChanges ==
    ASSUME IInv, UNCHANGED <<run, files>>
    PROVE  IInv'
  <1>1. run' = run /\ id' = id /\ id_pub' = id_pub /\ tmp' = tmp
    BY DEF files
  <1>2. RunsOK'
    BY <1>1 DEF IInv, RunsOK, RunOK
  <1>3. KeysOK'
    BY <1>1, KeysUntouched DEF IInv, KeysOK
  <1>4. QED
    BY <1>2, <1>3 DEF IInv

-----------------------------------------------------------------------------
\* The steps that neither reach a server nor touch a key file.

LEMMA StartKeeps ==
    ASSUME IInv, NEW r \in Runs, NEW a \in Invocations, Start(r, a)
    PROVE  IInv'
  <1> DEFINE f == run[r]
             x == [f EXCEPT !.args = a, !.pc = "forget"]
             y == [f EXCEPT !.args = a, !.pc = "key"]
  <1>1. RunOK(f) /\ f.pc = "new"
    BY DEF IInv, RunsOK, Start
  <1>2. id' = id /\ id_pub' = id_pub /\ tmp' = tmp
    BY DEF Start, files
  <1>3. PICK g \in {Ended, x, y} : run' = [run EXCEPT ![r] = g]
    <2>1. CASE a.kind = "usage"
      BY <2>1 DEF Start
    <2>2. CASE a.kind # "usage" /\ a.kind = "forget"
      BY <2>2 DEF Start
    <2>3. CASE a.kind # "usage" /\ a.kind # "forget"
      BY <2>3, Zenon DEF Start
    <2>4. QED
      BY <2>1, <2>2, <2>3
  <1> HIDE DEF f
  <1>4. /\ DOMAIN x = Fields /\ x.pc = "forget" /\ x.key = f.key /\ x.dirty = f.dirty
        /\ x.mismatch = f.mismatch /\ x.server = f.server
    BY <1>1 DEF RunOK, Fields
  <1>5. /\ DOMAIN y = Fields /\ y.pc = "key" /\ y.key = f.key /\ y.dirty = f.dirty
        /\ y.mismatch = f.mismatch /\ y.server = f.server
    BY <1>1 DEF RunOK, Fields
  <1> HIDE DEF x, y
  <1>6. RunOK(x) /\ RunOK(y)
    BY <1>1, <1>4, <1>5 DEF RunOK, Late
  <1>7. RunOK(g) /\ g.key \in {None, f.key} /\ g.pc \notin {"write_key", "migrate", "migrated", "public_key"}
    BY <1>3, <1>4, <1>5, <1>6, NewRunFacts
  <1>8. QED
    BY <1>2, <1>3, <1>7, OneRunSteps, Zenon DEF f

LEMMA ForgetKeeps ==
    ASSUME IInv, NEW r \in Runs, Forget(r)
    PROVE  IInv'
  <1> DEFINE f == run[r]
             left == RemoveMatching(Parse(known_hosts), f.args.host)
             x == [f EXCEPT !.known = left, !.fresh = TRUE, !.pc = "save"]
  <1>1. RunOK(f) /\ f.pc = "forget"
    BY DEF IInv, RunsOK, Forget
  <1>2. id' = id /\ id_pub' = id_pub /\ tmp' = tmp
    BY DEF Forget, files
  <1>3. PICK g \in {Ended, x} : run' = [run EXCEPT ![r] = g]
    BY Zenon DEF Forget
  <1> HIDE DEF f, left
  <1>4. /\ DOMAIN x = Fields /\ x.pc = "save" /\ x.key = f.key /\ x.dirty = f.dirty
        /\ x.mismatch = f.mismatch /\ x.server = f.server
    BY <1>1 DEF RunOK, Fields
  <1> HIDE DEF x
  <1>5. RunOK(x)
    BY <1>1, <1>4 DEF RunOK, Late
  <1>6. RunOK(g) /\ g.key \in {None, f.key} /\ g.pc \notin {"write_key", "migrate", "migrated", "public_key"}
    BY <1>3, <1>4, <1>5, NewRunFacts
  <1>7. QED
    BY <1>2, <1>3, <1>6, OneRunSteps, Zenon DEF f

LEMMA LoadKeeps ==
    ASSUME IInv, NEW r \in Runs, Load(r)
    PROVE  IInv'
  <1> DEFINE f == run[r]
             k == Parse(known_hosts)
             l == LabelOf(f.args)
             p == IF Pinned(k, l) THEN k[l] ELSE NoKey
             c == IF TryDirect(f.args, k) THEN "direct" ELSE "boot"
             g == [f EXCEPT !.known = k, !.fresh = TRUE, !.pin = p, !.pc = c]
  <1>1. RunOK(f) /\ f.pc = "load"
    BY DEF IInv, RunsOK, Load
  <1>2. id' = id /\ id_pub' = id_pub /\ tmp' = tmp
    BY DEF Load, files
  <1>3. run' = [run EXCEPT ![r].known = k, ![r].fresh = TRUE, ![r].pin = p, ![r].pc = c]
    BY DEF Load
  <1>4. c = "direct" => f.args.direct \/ Pinned(k, l)
    BY DEF TryDirect
  <1>5. c \in {"direct", "boot"}
    OBVIOUS
  <1>6. p = IF Pinned(k, l) THEN k[l] ELSE NoKey
    OBVIOUS
  <1> HIDE DEF k, l, p, c
  <1>7. run' = [run EXCEPT ![r] = g]
    BY <1>3, Zenon
  <1>8. l = LabelOf(f.args)
    BY DEF l
  <1> HIDE DEF f
  <1>9. /\ DOMAIN g = Fields /\ g.pc = c /\ g.key = f.key /\ g.dirty = f.dirty /\ g.args = f.args
        /\ g.mismatch = f.mismatch /\ g.server = f.server /\ g.known = k /\ g.pin = p
    BY <1>1 DEF RunOK, Fields
  <1> HIDE DEF g
  <1>10. RunOK(g)
    BY <1>1, <1>4, <1>5, <1>6, <1>8, <1>9 DEF RunOK, Late
  <1>11. g.key \in {None, f.key} /\ g.pc \notin {"write_key", "migrate", "migrated", "public_key"}
    BY <1>5, <1>9
  <1>12. QED
    BY <1>2, <1>7, <1>10, <1>11, OneRunSteps, Zenon DEF f

-----------------------------------------------------------------------------
\* The attempts to reach a server.

\* A run that met another key than the pinned one is over.
LEMMA MismatchedKeeps ==
    ASSUME IInv, NEW r \in Runs, Mismatched(r), id' = id, id_pub' = id_pub, tmp' = tmp
    PROVE  IInv'
  <1> DEFINE g == [Ended EXCEPT !.mismatch = TRUE]
  <1>1. run' = [run EXCEPT ![r] = g]
    BY DEF Mismatched
  <1>2. /\ DOMAIN g = Fields /\ g.dirty = FALSE /\ g.server = NoKey /\ g.key = None /\ g.pc = "over"
    BY DEF Ended, NewRun, Fields
  <1> HIDE DEF g
  <1>3. RunOK(g)
    BY <1>2 DEF RunOK
  <1>4. QED
    BY <1>1, <1>2, <1>3, OneRunSteps, Zenon

LEMMA DirectReplyKeeps ==
    ASSUME IInv, NEW r \in Runs, DirectReply(r)
    PROVE  IInv'
  <1> DEFINE f == run[r]
             l == LabelOf(f.args)
             s == server[l].key
             v == Tofu(f.known, l, s)
             k == CheckOrAdd(f.known, l, s)
             d == (v = "New")
             c == IF v = "New" THEN "save" ELSE AfterDirect(r)
             g == [f EXCEPT !.known = k, !.dirty = d, !.server = s, !.pc = c]
  <1>1. RunOK(f) /\ f.pc = "direct"
    BY DEF IInv, RunsOK, DirectReply
  <1>2. id' = id /\ id_pub' = id_pub /\ tmp' = tmp
    BY Zenon DEF DirectReply, files
  <1>3. CASE v = "Mismatch"
    <2>1. Mismatched(r)
      BY <1>3 DEF DirectReply
    <2>2. QED
      BY <1>2, <2>1, MismatchedKeeps
  <1>4. CASE v # "Mismatch"
    <2>1. run' = [run EXCEPT ![r].known = k, ![r].dirty = d, ![r].server = s, ![r].pc = c]
      BY <1>4, Zenon DEF DirectReply
    <2>2. c \in {"save", "upgrade", "session"}
      BY DEF AfterDirect
    <2>3. /\ d \in BOOLEAN
          /\ d => f.pin = NoKey /\ f.args.direct
          /\ ~d => s = f.pin
      BY <1>1, <1>4 DEF RunOK, Tofu
    <2> HIDE DEF l, s, v, k, d, c
    <2>4. run' = [run EXCEPT ![r] = g]
      BY <2>1, Zenon
    <2> HIDE DEF f
    <2>5. /\ DOMAIN g = Fields /\ g.pc = c /\ g.key = f.key /\ g.dirty = d /\ g.args = f.args
          /\ g.mismatch = f.mismatch /\ g.server = s /\ g.pin = f.pin
      BY <1>1 DEF RunOK, Fields
    <2> HIDE DEF g
    <2>6. RunOK(g)
      BY <1>1, <2>2, <2>3, <2>5 DEF RunOK, Late
    <2>7. g.key \in {None, f.key} /\ g.pc \notin {"write_key", "migrate", "migrated", "public_key"}
      BY <2>2, <2>5
    <2>8. QED
      BY <1>2, <2>4, <2>6, <2>7, OneRunSteps, Zenon DEF f
  <1>5. QED
    BY <1>3, <1>4

Bootstrapping == {"boot", "boot_installed", "boot_again", "install", "prompt", "boot_connect", "late_connect"}

LEMMA AttemptKeeps ==
    ASSUME IInv, NEW r \in Runs, NEW n, NEW version, NEW missing, NEW failed,
           Attempt(r, n, version, missing, failed), UNCHANGED files,
           run[r].pc \in Bootstrapping,
           missing \in Bootstrapping \cup {"over"}, failed \in Bootstrapping \cup {"over"}
    PROVE  IInv'
  <1> DEFINE f == run[r]
  <1>1. RunOK(f) /\ f.pc \notin Late /\ f.pc # "over"
    BY DEF IInv, RunsOK, Bootstrapping, Late
  <1>2. id' = id /\ id_pub' = id_pub /\ tmp' = tmp
    BY DEF files
  <1>3. ASSUME NEW pc \in Bootstrapping \cup {"over"}, Goto(r, pc)
        PROVE  IInv'
    <2>1. pc \notin {"direct", "write_key", "migrate", "migrated", "public_key"}
      BY DEF Bootstrapping
    <2>2. QED
      BY <1>1, <1>2, <1>3, <2>1, GotoKeeps DEF MayGoto
  <1>4. ASSUME NEW p, run' = [run EXCEPT ![r].boot = [port |-> p, key |-> OneShotKey(r, n)],
                                         ![r].pc = AfterConnected(r, version, n < 3)]
        PROVE  IInv'
    <2> DEFINE b == [port |-> p, key |-> OneShotKey(r, n)]
               c == AfterConnected(r, version, n < 3)
               g == [f EXCEPT !.boot = b, !.pc = c]
    <2>1. c \in {"prompt", "boot_connect"}
      BY DEF AfterConnected
    <2> HIDE DEF b, c
    <2>2. run' = [run EXCEPT ![r] = g]
      BY <1>4, Zenon DEF b, c
    <2> HIDE DEF f
    <2>3. /\ DOMAIN g = Fields /\ g.pc = c /\ g.key = f.key /\ g.dirty = f.dirty
          /\ g.mismatch = f.mismatch /\ g.server = f.server
      BY <1>1 DEF RunOK, Fields
    <2> HIDE DEF g
    <2>4. RunOK(g)
      BY <1>1, <2>1, <2>3 DEF RunOK, Late
    <2>5. g.key \in {None, f.key} /\ g.pc \notin {"write_key", "migrate", "migrated", "public_key"}
      BY <2>1, <2>3
    <2>6. QED
      BY <1>2, <2>2, <2>4, <2>5, OneRunSteps, Zenon DEF f
  <1>5. \/ Goto(r, missing) \/ Goto(r, failed) \/ Goto(r, "over")
        \/ \E p : run' = [run EXCEPT ![r].boot = [port |-> p, key |-> OneShotKey(r, n)],
                                     ![r].pc = AfterConnected(r, version, n < 3)]
    BY Zenon DEF Attempt
  <1>6. QED
    BY <1>3, <1>4, <1>5, Zenon

LEMMA BootstrapKeeps ==
    ASSUME IInv, NEW r \in Runs, BootstrapFirst(r) \/ BootstrapInstalled(r) \/ BootstrapAgain(r)
    PROVE  IInv'
  <1>1. CASE BootstrapFirst(r)
    <2> DEFINE missing == IF MayInstall(run[r].args) THEN "boot_installed" ELSE "over"
    <2>1. missing \in Bootstrapping \cup {"over"} /\ "over" \in Bootstrapping \cup {"over"}
          /\ run[r].pc \in Bootstrapping /\ UNCHANGED files
      BY <1>1 DEF Bootstrapping, BootstrapFirst
    <2>2. PICK version : Attempt(r, 1, version, missing, "over")
      BY <1>1 DEF BootstrapFirst
    <2> HIDE DEF missing
    <2>3. QED
      BY <2>1, <2>2, AttemptKeeps
  <1>2. CASE BootstrapInstalled(r)
    <2>1. "install" \in Bootstrapping \cup {"over"} /\ run[r].pc \in Bootstrapping /\ UNCHANGED files
      BY <1>2 DEF Bootstrapping, BootstrapInstalled
    <2>2. Attempt(r, 2, installed[run[r].args.host].local, "install", "install")
      BY <1>2 DEF BootstrapInstalled
    <2>3. QED
      BY <2>1, <2>2, AttemptKeeps
  <1>3. CASE BootstrapAgain(r)
    <2>1. "over" \in Bootstrapping \cup {"over"} /\ run[r].pc \in Bootstrapping /\ UNCHANGED files
      BY <1>3 DEF Bootstrapping, BootstrapAgain
    <2>2. Attempt(r, 3, installed[run[r].args.host].local, "over", "over")
      BY <1>3 DEF BootstrapAgain
    <2>3. QED
      BY <2>1, <2>2, AttemptKeeps
  <1>4. QED
    BY <1>1, <1>2, <1>3

LEMMA BootReplyKeeps ==
    ASSUME IInv, NEW r \in Runs, BootReply(r)
    PROVE  IInv'
  <1> DEFINE f == run[r]
             l == At(f.args.host, f.boot.port)
             s == server[l].key
             v == Tofu(BootKnown(r, l), l, s)
             g == [f EXCEPT !.server = s, !.pc = "session"]
  <1>1. RunOK(f) /\ f.pc \notin Late /\ f.pc # "over"
    BY DEF IInv, RunsOK, BootReply, Late
  <1>2. id' = id /\ id_pub' = id_pub /\ tmp' = tmp
    BY DEF BootReply, files
  <1>3. CASE v = "Mismatch"
    <2>1. Mismatched(r)
      BY <1>3 DEF BootReply
    <2>2. QED
      BY <1>2, <2>1, MismatchedKeeps
  <1>4. CASE v # "Mismatch"
    <2>1. run' = [run EXCEPT ![r].server = s, ![r].pc = "session"]
      BY <1>4 DEF BootReply
    <2>2. s = f.boot.key
      BY <1>4 DEF Tofu, BootKnown, CheckOrAdd, NoPins, Pinned
    <2> HIDE DEF l, s, v
    <2>3. run' = [run EXCEPT ![r] = g]
      BY <2>1, Zenon
    <2> HIDE DEF f
    <2>4. /\ DOMAIN g = Fields /\ g.pc = "session" /\ g.key = f.key /\ g.dirty = f.dirty
          /\ g.mismatch = f.mismatch /\ g.server = s /\ g.boot = f.boot
      BY <1>1 DEF RunOK, Fields
    <2> HIDE DEF g
    <2>5. RunOK(g)
      BY <1>1, <2>2, <2>4 DEF RunOK, Late
    <2>6. g.key \in {None, f.key} /\ g.pc \notin {"write_key", "migrate", "migrated", "public_key"}
      BY <2>4
    <2>7. QED
      BY <1>2, <2>3, <2>5, <2>6, OneRunSteps, Zenon DEF f
  <1>5. QED
    BY <1>3, <1>4

\* Steps that only move the run on: timeouts, prompts, installs, and the ends of runs.
LEMMA WaitsKeep ==
    ASSUME IInv, NEW r \in Runs,
           \/ DirectTimeout(r) \/ Install(r) \/ AnswerUpgrade(r) \/ BootTimeout(r)
           \/ UpgradeStanding(r) \/ SessionEnds(r) \/ Crash(r)
    PROVE  IInv'
  <1>1. id' = id /\ id_pub' = id_pub /\ tmp' = tmp
    BY DEF DirectTimeout, Install, AnswerUpgrade, BootTimeout, UpgradeStanding, SessionEnds, Crash, files
  <1>2. ASSUME NEW pc \in {"over", "boot", "boot_again", "late_connect", "session"}, Goto(r, pc),
               MayGoto(run[r].pc, pc)
        PROVE  IInv'
    <2>1. pc \notin {"direct", "write_key", "migrate", "migrated", "public_key"}
      OBVIOUS
    <2>2. QED
      BY <1>1, <1>2, <2>1, GotoKeeps
  <1>3. Goto(r, "over") => IInv'
    BY <1>2 DEF MayGoto
  <1>4. CASE DirectTimeout(r)
    <2>1. run[r].pc \notin Late \cup {"over"} /\ (Goto(r, "over") \/ Goto(r, "boot"))
      BY <1>4 DEF DirectTimeout, Late
    <2>2. QED
      BY <1>2, <1>3, <2>1 DEF MayGoto
  <1>5. CASE Install(r)
    <2>1. run[r].pc \notin Late \cup {"over"} /\ (Goto(r, "over") \/ Goto(r, "boot_again"))
      BY <1>5 DEF Install, InstallRemote, Late
    <2>2. QED
      BY <1>2, <1>3, <2>1 DEF MayGoto
  <1>6. CASE AnswerUpgrade(r)
    <2>1. run[r].pc \notin Late \cup {"over"} /\ Goto(r, "late_connect")
      BY <1>6 DEF AnswerUpgrade, InstallRemote, Late
    <2>2. QED
      BY <1>2, <2>1 DEF MayGoto
  <1>7. CASE UpgradeStanding(r)
    <2>1. Goto(r, "session") /\ "session" \in Late /\ run[r].pc # "over"
      BY <1>7 DEF UpgradeStanding, InstallRemote, Late
    <2>2. QED
      BY <1>2, <2>1 DEF MayGoto
  <1>8. CASE BootTimeout(r) \/ SessionEnds(r) \/ Crash(r)
    BY <1>3, <1>8 DEF BootTimeout, SessionEnds, Crash
  <1>9. QED
    BY <1>4, <1>5, <1>6, <1>7, <1>8

LEMMA SaveKeeps ==
    ASSUME IInv, NEW r \in Runs, SaveCreate(r) \/ SaveWrite(r)
    PROVE  IInv'
  <1>1. PICK x : tmp' = [tmp EXCEPT ![<<"known_hosts", r>>] = x]
    BY DEF SaveCreate, SaveWrite, TmpName
  <1>2. DOMAIN tmp' = DOMAIN tmp /\ \A q \in Runs : tmp'[<<"id", q>>] = tmp[<<"id", q>>]
    BY <1>1 DEF IInv, KeysOK
  <1>3. id' = id /\ id_pub' = id_pub
    BY DEF SaveCreate, SaveWrite
  <1>4. "write" \in Late /\ "rename" \in Late /\ run[r].pc # "over" /\ (Goto(r, "write") \/ Goto(r, "rename"))
    BY DEF SaveCreate, SaveWrite, Late
  <1>5. QED
    BY <1>2, <1>3, <1>4, GotoKeeps DEF MayGoto

LEMMA SaveRenameKeeps ==
    ASSUME IInv, NEW r \in Runs, SaveRename(r)
    PROVE  IInv'
  <1>1. DOMAIN tmp' = DOMAIN tmp /\ \A q \in Runs : tmp'[<<"id", q>>] = tmp[<<"id", q>>]
    BY DEF SaveRename, TmpName, IInv, KeysOK
  <1>2. id' = id /\ id_pub' = id_pub
    BY DEF SaveRename
  <1> DEFINE stays(q) == [run[q] EXCEPT !.fresh = FALSE]
             on == [run[r] EXCEPT !.pc = AfterDirect(r)]
  <1>3. DOMAIN run' = Runs /\ run'[r] \in {Ended, on} /\ \A q \in Runs \ {r} : run'[q] = stays(q)
    BY DEF SaveRename
  <1>4. ASSUME NEW q \in Runs
        PROVE  /\ RunOK(run'[q]) /\ run'[q].key \in {None, run[q].key}
               /\ run'[q].pc = "write_key" => run[q].pc = "write_key"
               /\ run'[q].pc \in {"migrate", "migrated", "public_key"} => run'[q].key # None
    <2> DEFINE f == run[q]
    <2>1. RunOK(f) /\ (f.pc \in {"migrate", "migrated", "public_key"} => f.key # None)
      BY DEF IInv, RunsOK, KeysOK
    <2>2. CASE q # r
      <3> DEFINE g == [f EXCEPT !.fresh = FALSE]
      <3>1. run'[q] = g
        BY <1>3, <2>2
      <3> HIDE DEF f
      <3>2. /\ DOMAIN g = Fields /\ g.pc = f.pc /\ g.args = f.args /\ g.key = f.key /\ g.known = f.known
            /\ g.dirty = f.dirty /\ g.pin = f.pin /\ g.mismatch = f.mismatch /\ g.boot = f.boot
            /\ g.server = f.server
        BY <2>1 DEF RunOK, Fields
      <3> HIDE DEF g
      <3>3. RunOK(g)
        BY <2>1, <3>2 DEF RunOK
      <3>4. QED
        BY <2>1, <3>1, <3>2, <3>3 DEF f
    <2>3. CASE q = r /\ run'[r] = on
      <3> DEFINE c == AfterDirect(r)
                 g == [f EXCEPT !.pc = c]
      <3>1. run'[q] = g /\ f.pc \in Late
        BY <2>3 DEF SaveRename, Late
      <3>2. c \in {"upgrade", "session"}
        BY DEF AfterDirect
      <3> HIDE DEF f, c
      <3>3. /\ DOMAIN g = Fields /\ g.pc = c /\ g.args = f.args /\ g.key = f.key /\ g.known = f.known
            /\ g.dirty = f.dirty /\ g.pin = f.pin /\ g.mismatch = f.mismatch /\ g.boot = f.boot
            /\ g.server = f.server
        BY <2>1 DEF RunOK, Fields
      <3> HIDE DEF g
      <3>4. RunOK(g)
        BY <2>1, <3>1, <3>2, <3>3 DEF RunOK, Late
      <3>5. QED
        BY <3>1, <3>2, <3>3, <3>4 DEF f
    <2>4. CASE q = r /\ run'[r] = Ended
      BY <2>4, NewRunFacts
    <2>5. QED
      BY <1>3, <2>2, <2>3, <2>4
  <1>5. RunsOK'
    BY <1>3, <1>4, Zenon DEF RunsOK, RunOK
  <1>6. KeysOK'
    BY <1>1, <1>2, <1>4, KeysUntouched DEF IInv
  <1>7. QED
    BY <1>5, <1>6 DEF IInv

-----------------------------------------------------------------------------
\* The key files.

LEMMA FindKeyKeeps ==
    ASSUME IInv, NEW r \in Runs, FindKey(r)
    PROVE  IInv'
  <1>1. run[r].pc \notin Late \cup {"over"} /\ (Goto(r, "read_key") \/ Goto(r, "generate"))
    BY DEF FindKey, Late
  <1>2. id' = id /\ id_pub' = id_pub /\ tmp' = tmp
    BY DEF FindKey, files
  <1>3. QED
    BY <1>1, <1>2, GotoKeeps DEF MayGoto

\* What one run's step may do to its own locals while the key files change.
LEMMA OneRunChanges ==
    ASSUME IInv, NEW r \in Runs, NEW g, run' = [run EXCEPT ![r] = g], RunOK(g)
    PROVE  /\ RunsOK' /\ run'[r] = g /\ DOMAIN run' = Runs
           /\ \A q \in Runs \ {r} : run'[q] = run[q]
  <1>1. run'[r] = g /\ DOMAIN run' = Runs /\ \A q \in Runs \ {r} : run'[q] = run[q]
    BY DEF IInv, RunsOK
  <1>2. \A q \in Runs : RunOK(run'[q])
    BY <1>1 DEF IInv, RunsOK
  <1>3. QED
    BY <1>1, <1>2 DEF RunsOK, RunOK

LEMMA ReadKeyKeeps ==
    ASSUME IInv, NEW r \in Runs, ReadKey(r)
    PROVE  IInv'
  <1> DEFINE f == run[r]
             k == id.lines[1].key
             c == IF id.lines[1].legacy THEN "migrate" ELSE "public_key"
             g == [f EXCEPT !.key = k, !.pc = c]
  <1>1. RunOK(f) /\ f.pc = "read_key"
    BY DEF IInv, RunsOK, ReadKey
  <1>2. id' = id /\ id_pub' = id_pub /\ tmp' = tmp
    BY DEF ReadKey, files
  <1>3. CASE id.lines = <<>>
    <2>1. Goto(r, "over")
      BY <1>3 DEF ReadKey
    <2>2. QED
      BY <1>2, <2>1, GotoKeeps DEF MayGoto
  <1>4. CASE id.lines # <<>>
    <2>1. run' = [run EXCEPT ![r].key = k, ![r].pc = c]
      BY <1>4 DEF ReadKey
    <2>2. c \in {"migrate", "public_key"}
      OBVIOUS
    <2>3. PICK j : Identity(j)
      BY DEF IInv, KeysOK
    <2>4. k = j /\ k # None /\ id.exists /\ ~Virgin
      BY <1>4, <2>3 DEF Identity, Holds, Blank, Virgin
    <2> HIDE DEF k, c
    <2>5. run' = [run EXCEPT ![r] = g]
      BY <2>1, Zenon
    <2> HIDE DEF f
    <2>6. /\ DOMAIN g = Fields /\ g.pc = c /\ g.key = k /\ g.dirty = f.dirty
          /\ g.mismatch = f.mismatch /\ g.server = f.server
      BY <1>1 DEF RunOK, Fields
    <2> HIDE DEF g
    <2>7. RunOK(g)
      BY <1>1, <2>2, <2>6 DEF RunOK, Late
    <2>8. /\ RunsOK' /\ run'[r] = g /\ \A q \in Runs \ {r} : run'[q] = run[q]
      BY <2>5, <2>7, OneRunChanges, Zenon
    <2>9. Identity(j)'
      <3>1. \A q \in Runs : run'[q].key \in {None, j}
        BY <2>3, <2>4, <2>6, <2>8, Zenon DEF Identity
      <3>2. QED
        BY <1>2, <2>3, <3>1 DEF Identity, Holds, Blank
    <2>10. \A q \in Runs : ~Writing(q)'
      BY <2>2, <2>4, <2>6, <2>8 DEF IInv, KeysOK, Writing
    <2>11. \A q \in Runs : run'[q].pc \in {"migrate", "migrated", "public_key"} => run'[q].key # None
      BY <2>4, <2>6, <2>8 DEF IInv, KeysOK
    <2>12. KeysOK'
      BY <1>2, <2>4, <2>9, <2>10, <2>11 DEF IInv, KeysOK
    <2>13. QED
      BY <2>8, <2>12 DEF IInv
  <1>5. QED
    BY <1>3, <1>4

LEMMA CreateKeyKeeps ==
    ASSUME IInv, NEW r \in Runs, CreateKey(r)
    PROVE  IInv'
  <1>1. id_pub' = id_pub /\ tmp' = tmp /\ run[r].pc \notin Late /\ run[r].pc # "over"
    BY DEF CreateKey, Late
  <1>2. CASE id.exists
    <2>1. id' = id /\ Goto(r, "over")
      BY <1>2 DEF CreateKey
    <2>2. QED
      BY <1>1, <2>1, GotoKeeps DEF MayGoto
  <1>3. CASE ~id.exists
    <2>1. id' = File(<<>>) /\ Goto(r, "write_key")
      BY <1>3 DEF CreateKey
    <2>2. PICK g : run' = [run EXCEPT ![r] = g] /\ RunOK(g) /\ g.pc = "write_key" /\ g.key = run[r].key
      BY <1>1, <2>1, GotoFacts DEF MayGoto
    <2>3. /\ RunsOK' /\ run'[r] = g /\ \A q \in Runs \ {r} : run'[q] = run[q]
      BY <2>2, OneRunChanges, Zenon
    <2>4. Virgin /\ \A q \in Runs : ~Writing(q)
      BY <1>3 DEF IInv, KeysOK
    <2>5. id'.exists /\ Blank(id')
      BY <2>1 DEF File, Blank
    <2>6. \A q \in Runs : run'[q].key = None
      BY <2>2, <2>3, <2>4, Zenon DEF Virgin
    <2>7. Virgin'
      BY <1>1, <2>4, <2>5, <2>6 DEF Virgin, Blank
    <2>8. PICK k : Identity(k)
      BY DEF IInv, KeysOK
    <2>9. Identity(k)'
      BY <1>1, <2>5, <2>6, <2>8 DEF Identity, Holds, Blank
    <2>10. \A q, p \in Runs : Writing(q)' /\ Writing(p)' => q = p
      BY <2>3, <2>4 DEF Writing
    <2>11. \A q \in Runs : run'[q].pc \in {"migrate", "migrated", "public_key"} => run'[q].key # None
      BY <2>2, <2>3 DEF IInv, KeysOK
    <2>12. KeysOK'
      BY <1>1, <2>5, <2>7, <2>9, <2>10, <2>11 DEF IInv, KeysOK
    <2>13. QED
      BY <2>3, <2>12 DEF IInv
  <1>4. QED
    BY <1>2, <1>3

LEMMA WriteKeyKeeps ==
    ASSUME IInv, NEW r \in Runs, WriteKey(r)
    PROVE  IInv'
  <1> DEFINE f == run[r]
             g == [f EXCEPT !.key = r, !.pc = "public_key"]
  <1>1. RunOK(f) /\ f.pc = "write_key"
    BY DEF IInv, RunsOK, WriteKey
  <1>2. id_pub' = id_pub /\ tmp' = tmp /\ id' = KeyFile(r)
    BY DEF WriteKey
  <1>3. run' = [run EXCEPT ![r] = g]
    BY Zenon DEF WriteKey
  <1>4. Virgin /\ \A q \in Runs : Writing(q) => q = r
    BY <1>1 DEF IInv, KeysOK, Writing
  <1> HIDE DEF f
  <1>5. /\ DOMAIN g = Fields /\ g.pc = "public_key" /\ g.key = r /\ g.dirty = f.dirty
        /\ g.mismatch = f.mismatch /\ g.server = f.server
    BY <1>1 DEF RunOK, Fields
  <1> HIDE DEF g
  <1>6. RunOK(g)
    BY <1>1, <1>5 DEF RunOK, Late
  <1>7. /\ RunsOK' /\ run'[r] = g /\ \A q \in Runs \ {r} : run'[q] = run[q]
    BY <1>3, <1>6, OneRunChanges, Zenon
  <1>8. id'.exists /\ DOMAIN id'.lines = {1} /\ id'.lines[1].key = r /\ r # None
    BY <1>2, KeyAssumption DEF KeyFile, File
  <1>9. Identity(r)'
    <2>1. \A q \in Runs : run'[q].key \in {None, r}
      BY <1>4, <1>5, <1>7, Zenon DEF Virgin
    <2>2. QED
      BY <1>2, <1>4, <1>8, <2>1 DEF Identity, Holds, Blank, Virgin
  <1>10. \A q \in Runs : ~Writing(q)'
    BY <1>4, <1>5, <1>7 DEF Writing
  <1>11. \A q \in Runs : run'[q].pc \in {"migrate", "migrated", "public_key"} => run'[q].key # None
    BY <1>5, <1>7, <1>8 DEF IInv, KeysOK
  <1>12. KeysOK'
    BY <1>2, <1>8, <1>9, <1>10, <1>11 DEF IInv, KeysOK
  <1>13. QED
    BY <1>7, <1>12 DEF IInv

\* A run that has the key copies it about.
LEMMA KeyHolderSteps ==
    ASSUME IInv, NEW r \in Runs, run[r].key # None, NEW k, Identity(k), NEW g,
           run' = [run EXCEPT ![r] = g], RunOK(g), g.key \in {None, k}, g.pc # "write_key",
           g.pc \in {"migrate", "migrated", "public_key"} => g.key # None,
           id'.exists, Holds(id', k), Holds(id_pub', k), DOMAIN tmp' = DOMAIN tmp,
           \A q \in Runs : Holds(tmp'[<<"id", q>>], k)
    PROVE  IInv'
  <1>1. /\ RunsOK' /\ run'[r] = g /\ \A q \in Runs \ {r} : run'[q] = run[q]
    BY OneRunChanges, Zenon
  <1>2. \A q \in Runs : ~Writing(q)
    BY Zenon DEF IInv, KeysOK, Virgin
  <1>3. \A q \in Runs : ~Writing(q)'
    BY <1>1, <1>2 DEF Writing
  <1>4. Identity(k)'
    <2>1. \A q \in Runs : run'[q].key \in {None, k}
      BY <1>1, Zenon DEF Identity
    <2>2. QED
      BY <2>1 DEF Identity, Holds, Blank
  <1>5. \A q \in Runs : run'[q].pc \in {"migrate", "migrated", "public_key"} => run'[q].key # None
    BY <1>1 DEF IInv, KeysOK
  <1>6. KeysOK'
    BY <1>3, <1>4, <1>5 DEF IInv, KeysOK
  <1>7. QED
    BY <1>1, <1>6 DEF IInv

LEMMA CopyKeyKeeps ==
    ASSUME IInv, NEW r \in Runs, Migrate(r) \/ RenameKey(r) \/ PublicKey(r)
    PROVE  IInv'
  <1>1. PICK k : Identity(k)
    BY DEF IInv, KeysOK
  <1>2. run[r].key # None /\ run[r].pc \notin Late /\ run[r].pc # "over"
    BY DEF Migrate, RenameKey, PublicKey, IInv, KeysOK, Late
  <1>3. run[r].key = k /\ k # None /\ id.exists
    BY <1>1, <1>2, Zenon DEF Identity, IInv, KeysOK, Virgin
  <1>4. Holds(KeyFile(k), k) /\ Holds(NoFile, k) /\ KeyFile(k).exists
    BY DEF Holds, Blank, KeyFile, File, NoFile
  <1>5. /\ Holds(id, k) /\ Holds(id_pub, k) /\ DOMAIN tmp = {"known_hosts", "id"} \X Runs
        /\ \A q \in Runs : Holds(tmp[<<"id", q>>], k)
    BY <1>1 DEF Identity, IInv, KeysOK
  <1>6. ASSUME NEW x, Holds(x, k), tmp' = [tmp EXCEPT ![<<"id", r>>] = x]
        PROVE  DOMAIN tmp' = DOMAIN tmp /\ \A q \in Runs : Holds(tmp'[<<"id", q>>], k)
    <2>1. DOMAIN tmp' = DOMAIN tmp /\ tmp'[<<"id", r>>] = x
          /\ \A q \in Runs \ {r} : tmp'[<<"id", q>>] = tmp[<<"id", q>>]
      BY <1>5, <1>6
    <2>2. QED
      BY <1>5, <1>6, <2>1
  <1>7. ASSUME NEW pc \in {"migrated", "public_key", "over", "load"}, Goto(r, pc),
               id'.exists, Holds(id', k), Holds(id_pub', k), DOMAIN tmp' = DOMAIN tmp,
               \A q \in Runs : Holds(tmp'[<<"id", q>>], k)
        PROVE  IInv'
    <2>1. PICK g : /\ run' = [run EXCEPT ![r] = g] /\ RunOK(g) /\ g.pc = pc
                   /\ g.key = IF pc = "over" THEN None ELSE run[r].key
      BY <1>2, <1>7, GotoFacts DEF MayGoto
    <2>2. g.key \in {None, k} /\ g.pc # "write_key"
          /\ (g.pc \in {"migrate", "migrated", "public_key"} => g.key # None)
      BY <1>3, <2>1
    <2>3. QED
      BY <1>1, <1>2, <1>7, <2>1, <2>2, KeyHolderSteps, Zenon
  <1>8. CASE Migrate(r)
    <2>1. id' = id /\ id_pub' = id_pub
      BY <1>8 DEF Migrate
    <2>2. \/ tmp' = [tmp EXCEPT ![<<"id", r>>] = KeyFile(k)] /\ Goto(r, "migrated")
          \/ tmp' = [tmp EXCEPT ![<<"id", r>>] = NoFile] /\ Goto(r, "public_key")
      BY <1>3, <1>8 DEF Migrate, TmpName
    <2>3. DOMAIN tmp' = DOMAIN tmp /\ \A q \in Runs : Holds(tmp'[<<"id", q>>], k)
      BY <1>4, <1>6, <2>2
    <2>4. QED
      BY <1>3, <1>5, <1>7, <2>1, <2>2, <2>3
  <1>9. CASE RenameKey(r)
    <2>1. /\ id' = IF tmp[<<"id", r>>].exists THEN tmp[<<"id", r>>] ELSE id
          /\ id_pub' = id_pub /\ tmp' = [tmp EXCEPT ![<<"id", r>>] = NoFile] /\ Goto(r, "public_key")
      BY <1>9 DEF RenameKey, TmpName
    <2>2. id'.exists /\ Holds(id', k)
      BY <1>3, <1>5, <2>1
    <2>3. DOMAIN tmp' = DOMAIN tmp /\ \A q \in Runs : Holds(tmp'[<<"id", q>>], k)
      BY <1>4, <1>6, <2>1, Zenon
    <2>4. QED
      BY <1>5, <1>7, <2>1, <2>2, <2>3
  <1>10. CASE PublicKey(r)
    <2>1. /\ id_pub' = IF id_pub.exists THEN id_pub ELSE KeyFile(k)
          /\ id' = id /\ tmp' = tmp /\ (Goto(r, "over") \/ Goto(r, "load"))
      BY <1>3, <1>10 DEF PublicKey
    <2>2. Holds(id_pub', k)
      BY <1>4, <1>5, <2>1
    <2>3. QED
      BY <1>3, <1>5, <1>7, <2>1, <2>2
  <1>11. QED
    BY <1>8, <1>9, <1>10

-----------------------------------------------------------------------------

LEMMA InitHolds == ConnectInit => IInv
  <1> SUFFICES ASSUME ConnectInit PROVE IInv
    OBVIOUS
  <1>1. \A r \in Runs : run[r] = NewRun
    BY DEF ConnectInit
  <1>2. RunsOK
    BY <1>1, NewRunFacts DEF ConnectInit, RunsOK
  <1>3. /\ id \in InitialIds /\ Blank(id_pub) /\ DOMAIN tmp = {"known_hosts", "id"} \X Runs
        /\ \A r \in Runs : Blank(tmp[<<"id", r>>])
    BY DEF ConnectInit, NoFile, Blank
  <1>4. \A r \in Runs : run[r].key = None /\ run[r].pc = "new"
    BY <1>1, NewRunFacts
  <1>5. Blank(id) \/ (id.exists /\ DOMAIN id.lines = {1} /\ id.lines[1].key # None)
    BY <1>3, KeyAssumption DEF Blank
  <1>6. \E k : Identity(k)
    <2> DEFINE k == IF Blank(id) THEN "some key" ELSE id.lines[1].key
    <2>1. k # None /\ Holds(id, k)
      BY <1>5, Zenon DEF None, Holds
    <2> HIDE DEF k
    <2>2. Identity(k)
      BY <1>3, <1>4, <2>1 DEF Identity, Holds
    <2>3. QED
      BY <2>2
  <1>7. ~id.exists => Virgin
    BY <1>3, <1>4, <1>5 DEF Virgin
  <1>8. KeysOK
    BY <1>3, <1>4, <1>6, <1>7 DEF KeysOK, Writing
  <1>9. QED
    BY <1>2, <1>8 DEF IInv

LEMMA NextKeeps ==
    ASSUME IInv, [ConnectNext]_connectVars
    PROVE  IInv'
  <1>1. ASSUME NEW r \in Runs, RunStep(r)
        PROVE  IInv'
    BY <1>1, ForgetKeeps, FindKeyKeeps, ReadKeyKeeps, CreateKeyKeeps, WriteKeyKeeps, CopyKeyKeeps,
       LoadKeeps, DirectReplyKeeps, WaitsKeep, BootstrapKeeps, BootReplyKeeps, SaveKeeps, SaveRenameKeeps
       DEF RunStep
  <1>2. ASSUME NEW r \in Runs, UserStep(r)
        PROVE  IInv'
    BY <1>2, StartKeeps, WaitsKeep DEF UserStep
  <1>3. CASE ServerStep
    <2>1. UNCHANGED <<run, files>>
      BY <1>3 DEF ServerStep, StandingStarts, StandingStops, Rekey, OneShotExits
    <2>2. QED
      BY <2>1, NothingOfRunsChanges
  <1>4. CASE UNCHANGED connectVars
    <2>1. UNCHANGED <<run, files>>
      BY <1>4 DEF connectVars, files
    <2>2. QED
      BY <2>1, NothingOfRunsChanges
  <1>5. QED
    BY <1>1, <1>2, <1>3, <1>4 DEF ConnectNext

\* The bookkeeping of runs and key files, IInv, holds in every state of run() and of
\* load_or_generate_keypair.
THEOREM ConnectInvariant == ConnectSpec => []IInv
  <1>1. IInv /\ [ConnectNext]_connectVars => IInv'
    BY NextKeeps
  <1>2. QED
    BY <1>1, InitHolds, PTL DEF ConnectSpec

\* However many runs share the directory, whichever servers come, go and change their
\* keys, and wherever a run is killed: a run's server is the one pinned for its label,
\* one met on first use under --direct, or the one-shot it started itself over SSH, and
\* never one whose key differed from the pin (noissh.rs:554-661).
THEOREM ConnectSessionsTrusted == ConnectSpec => []SessionsTrusted
  <1>1. IInv => SessionsTrusted
    <2> SUFFICES ASSUME IInv, NEW r \in Runs, run[r].server # NoKey
                 PROVE  /\ ~run[r].mismatch
                        /\ \/ run[r].server = run[r].pin
                           \/ run[r].pin = NoKey /\ run[r].args.direct /\ run[r].dirty
                           \/ run[r].server = run[r].boot.key /\ ~run[r].dirty
      BY DEF SessionsTrusted
    <2>1. RunOK(run[r])
      BY DEF IInv, RunsOK
    <2>2. QED
      BY <2>1 DEF RunOK, Late
  <1>2. QED
    BY <1>1, ConnectInvariant, PTL

\* However many first runs race to create the key file, and wherever each is killed, all
\* keys in use and in the two key files are one (config.rs:45-95, 159-185).
THEOREM ConnectOneIdentity == ConnectSpec => []OneIdentity
  <1>1. IInv => OneIdentity
    <2> SUFFICES ASSUME IInv PROVE OneIdentity
      OBVIOUS
    <2>1. PICK k : Identity(k)
      BY DEF IInv, KeysOK
    <2> DEFINE inUse == {run[r].key : r \in Runs} \ {None}
               stored == UNION {{f.lines[i].key : i \in DOMAIN f.lines} : f \in {id, id_pub}}
    <2>2. \A j \in inUse : j = k
      BY <2>1, Zenon DEF Identity
    <2>3. ASSUME NEW f \in {id, id_pub}, NEW i \in DOMAIN f.lines
          PROVE  f.lines[i].key = k
      BY <2>1 DEF Identity, Holds, Blank
    <2>4. \A j \in stored : j = k
      BY <2>3
    <2>5. QED
      BY <2>2, <2>4, Zenon DEF OneIdentity
  <1>2. QED
    BY <1>1, ConnectInvariant, PTL

-----------------------------------------------------------------------------
\* Facts about numbers and positions, for the lines of a file.

\* Least numbers stand in for induction: what fails somewhere fails first somewhere.
LEMMA Least ==
    ASSUME NEW T \in SUBSET Nat, T # {}
    PROVE  \E m \in T : \A n \in T : m <= n
  <1> DEFINE R == OpToRel(<, Nat)
  <1>1. PICK m \in T : \A n \in T : ~(<<n, m>> \in R)
    <2>1. IsWellFoundedOn(R, Nat)
      BY NatLessThanWellFounded, Zenon
    <2> HIDE DEF R
    <2>2. QED
      BY <2>1, WFMin, Zenon
  <1>2. \A n \in T : ~(n < m)
    BY <1>1, Zenon DEF OpToRel
  <1>3. QED
    BY <1>2

\* The last of some positions, such as that of the line for a label.
LEMMA Greatest ==
    ASSUME NEW N \in Nat, NEW S \in SUBSET (1..N), S # {}
    PROVE  \E m \in S : \A n \in S : n <= m
  <1> DEFINE T == {m \in Nat : \A n \in S : n <= m}
  <1>0. \A j \in S : j \in Nat /\ 1 <= j /\ j <= N
    OBVIOUS
  <1>1. T \in SUBSET Nat /\ N \in T
    BY <1>0
  <1>2. PICK m \in T : \A n \in T : m <= n
    <2> HIDE DEF T
    <2>1. QED
      BY <1>1, Least
  <1>3. CASE m \in S
    BY <1>3
  <1>4. CASE m \notin S
    <2>1. m \in Nat /\ \A n \in S : n < m /\ n \in Nat
      BY <1>0, <1>4
    <2>2. m - 1 \in T
      <3>0. PICK k \in S : TRUE
        BY Zenon
      <3>1. m - 1 \in Nat
        BY <2>1, <3>0
      <3>2. \A n \in S : n <= m - 1
        BY <2>1
      <3>3. QED
        BY <3>1, <3>2
    <2>3. QED
      BY <1>2, <2>1, <2>2
  <1>5. QED
    BY <1>3, <1>4

\* For every n up to their number, some member has n of them up to it.
LEMMA Ranked ==
    ASSUME NEW N \in Nat, NEW S \in SUBSET (1..N), NEW n \in 1..Cardinality(S)
    PROVE  \E i \in S : Cardinality({j \in S : j <= i}) = n
  <1> DEFINE U(i) == {j \in S : j <= i}
             T == {i \in Nat : Cardinality(U(i)) >= n}
  <1>0. \A j \in S : j \in Nat /\ 1 <= j /\ j <= N
    OBVIOUS
  <1>1. IsFiniteSet(S) /\ Cardinality(S) \in Nat
    <2>1. IsFiniteSet(1..N)
      BY FS_Interval
    <2>2. QED
      BY <2>1, FS_Subset, FS_CardinalityType, Zenon
  <1>2. \A i \in Nat : IsFiniteSet(U(i)) /\ Cardinality(U(i)) \in Nat
    BY <1>1, FS_Subset, FS_CardinalityType
  <1>3. N \in T
    <2>1. U(N) = S
      BY <1>0, Zenon
    <2>2. QED
      BY <1>1, <2>1
  <1>4. PICK i \in T : \A k \in T : i <= k
    <2>1. T \in SUBSET Nat /\ T # {}
      BY <1>3, Zenon
    <2> HIDE DEF T
    <2>2. QED
      BY <2>1, Least
  <1>5. i # 0
    <2>1. \A j \in S : ~(j <= 0)
      BY <1>0
    <2>2. U(0) = {}
      BY <2>1, Zenon
    <2>3. QED
      BY <2>2, FS_EmptySet
  <1>6. i \in Nat /\ i - 1 \in Nat /\ Cardinality(U(i - 1)) < n /\ n \in Nat
    <2>1. i \in Nat /\ i - 1 \in Nat /\ ~(i <= i - 1) /\ n \in Nat
      BY <1>1, <1>5
    <2>2. i - 1 \notin T
      BY <1>4, <2>1, Zenon
    <2>3. ~(Cardinality(U(i - 1)) >= n) /\ Cardinality(U(i - 1)) \in Nat
      BY <1>2, <2>1, <2>2, Zenon
    <2> HIDE DEF U
    <2>4. QED
      BY <2>1, <2>3
  <1>a. \A j \in S : (j <= i <=> j <= i - 1 \/ j = i) /\ ~(i <= i - 1)
    BY <1>0, <1>6
  <1>7. i \in S /\ U(i) = U(i - 1) \cup {i}
    <2>1. CASE i \notin S
      <3>1. U(i) = U(i - 1)
        BY <1>a, <2>1, Zenon
      <3>2. Cardinality(U(i)) >= n /\ Cardinality(U(i - 1)) \in Nat
        BY <1>2, <1>4, <1>6, Zenon
      <3> HIDE DEF U
      <3>3. QED
        BY <1>6, <3>1, <3>2
    <2>2. CASE i \in S
      BY <1>a, <2>2, Zenon
    <2>3. QED
      BY <2>1, <2>2
  <1>8. Cardinality(U(i)) = Cardinality(U(i - 1)) + 1
    <2>1. i \notin U(i - 1) /\ IsFiniteSet(U(i - 1))
      BY <1>2, <1>6, <1>7, <1>a, Zenon
    <2> HIDE DEF U
    <2>2. QED
      BY <1>7, <2>1, FS_AddElement, Zenon
  <1>9. Cardinality(U(i)) = n
    <2>1. Cardinality(U(i)) >= n /\ Cardinality(U(i - 1)) \in Nat
      BY <1>2, <1>4, <1>6, Zenon
    <2> HIDE DEF U
    <2>2. QED
      BY <1>6, <1>8, <2>1
  <1>10. QED
    BY <1>7, <1>9, Zenon

\* No two members have as many up to them.
LEMMA RankedOnce ==
    ASSUME NEW N \in Nat, NEW S \in SUBSET (1..N), NEW i \in S
    PROVE  /\ Cardinality({j \in S : j <= i}) \in 1..Cardinality(S)
           /\ \A k \in S : Cardinality({j \in S : j <= i}) = Cardinality({j \in S : j <= k}) => i = k
  <1> DEFINE U(x) == {j \in S : j <= x}
  <1>0. \A j \in S : j \in Nat /\ 1 <= j /\ j <= N
    OBVIOUS
  <1>1. IsFiniteSet(S) /\ Cardinality(S) \in Nat
    <2>1. IsFiniteSet(1..N)
      BY FS_Interval
    <2>2. QED
      BY <2>1, FS_Subset, FS_CardinalityType, Zenon
  <1>2. ASSUME NEW A, NEW B, A \subseteq B, B \subseteq S
        PROVE /\ Cardinality(A) \in Nat /\ Cardinality(B) \in Nat /\ Cardinality(A) <= Cardinality(B)
              /\ A # B => Cardinality(A) < Cardinality(B)
    <2>1. IsFiniteSet(B) /\ IsFiniteSet(A)
      BY <1>1, <1>2, FS_Subset, Zenon
    <2>2. Cardinality(A) \in Nat /\ Cardinality(B) \in Nat
      BY <2>1, FS_CardinalityType
    <2>3. Cardinality(A) <= Cardinality(B) /\ (Cardinality(B) = Cardinality(A) => B = A)
      BY <1>2, <2>1, FS_Subset, Zenon
    <2>4. QED
      BY <2>2, <2>3
  <1>3. ASSUME NEW x \in S, NEW y \in S, x < y
        PROVE  Cardinality(U(x)) < Cardinality(U(y))
    <2>1. U(x) \subseteq U(y) /\ U(y) \subseteq S /\ y \in U(y) /\ y \notin U(x)
      <3>1. \A j \in S : j <= x => j <= y
        BY <1>0, <1>3
      <3>2. y <= y /\ ~(y <= x)
        BY <1>0, <1>3
      <3>3. QED
        BY <3>1, <3>2, Zenon
    <2> HIDE DEF U
    <2>2. QED
      BY <1>2, <2>1
  <1>4. ASSUME NEW k \in S, Cardinality(U(i)) = Cardinality(U(k))
        PROVE  i = k
    <2>1. ~(i < k) /\ ~(k < i)
      <3>1. Cardinality(U(i)) \in Nat /\ Cardinality(U(k)) \in Nat
        BY <1>1, FS_Subset, FS_CardinalityType
      <3>2. QED
        BY <1>3, <1>4, <3>1
    <2>2. QED
      BY <1>0, <2>1
  <1>5. Cardinality(U(i)) \in 1..Cardinality(S)
    <2>1. {} \subseteq U(i) /\ U(i) \subseteq S /\ {} # U(i) /\ S \subseteq S
      OBVIOUS
    <2> HIDE DEF U
    <2>2. Cardinality(U(i)) \in Nat /\ Cardinality(U(i)) <= Cardinality(S) /\ Cardinality({}) < Cardinality(U(i))
      BY <1>2, <2>1
    <2>3. QED
      BY <1>1, <2>2, FS_EmptySet
  <1>6. QED
    BY <1>4, <1>5

\* The lines of a file that pin l.
PinsFor(lines, l) == {i \in DOMAIN lines : lines[i] # Malformed /\ lines[i].label = l}

\* The lines of a file, in their order.
Lines(s) == \E n \in Nat : DOMAIN s = 1..n

\* Parse takes the last line for a label.
LEMMA ParseFacts ==
    ASSUME NEW lines, Lines(lines)
    PROVE  /\ DOMAIN Parse(lines) = {l \in LabelSet : PinsFor(lines, l) # {}}
           /\ \A l \in DOMAIN Parse(lines) :
                 \E i \in PinsFor(lines, l) : /\ \A j \in PinsFor(lines, l) : j <= i
                                              /\ Parse(lines)[l] = lines[i].key
  <1>1. PICK n \in Nat : DOMAIN lines = 1..n
    BY DEF Lines
  <1> DEFINE last(l) == CHOOSE i \in PinsFor(lines, l) : \A j \in PinsFor(lines, l) : j <= i
  <1>2. Parse(lines) = [l \in {m \in LabelSet : PinsFor(lines, m) # {}} |-> lines[last(l)].key]
    BY DEF Parse, PinsFor
  <1>3. ASSUME NEW l, PinsFor(lines, l) # {}
        PROVE  last(l) \in PinsFor(lines, l) /\ \A j \in PinsFor(lines, l) : j <= last(l)
    <2>1. PinsFor(lines, l) \in SUBSET (1..n)
      BY <1>1 DEF PinsFor
    <2>2. \E i \in PinsFor(lines, l) : \A j \in PinsFor(lines, l) : j <= i
      BY <1>3, <2>1, Greatest, Zenon
    <2>3. QED
      BY <2>2
  <1> HIDE DEF last
  <1>4. QED
    BY <1>2, <1>3

\* to_text writes a line for every pin, and no other.
LEMMA ToTextFacts ==
    ASSUME NEW known
    PROVE  /\ Lines(ToText(known))
           /\ \A n \in DOMAIN ToText(known) :
                 \E l \in LabelSet : Pinned(known, l) /\ ToText(known)[n] = Line(l, known[l])
           /\ \A l \in LabelSet : Pinned(known, l) =>
                 \E n \in DOMAIN ToText(known) : ToText(known)[n] = Line(l, known[l])
  <1> DEFINE P == {i \in DOMAIN Labels : Pinned(known, Labels[i])}
             rank(i) == Cardinality({j \in P : j <= i})
             nth(n) == CHOOSE i \in P : rank(i) = n
             line(n) == Line(Labels[nth(n)], known[Labels[nth(n)]])
  <1>1. PICK N \in Nat : DOMAIN Labels = 1..N
    BY LabelsAssumption
  <1>2. P \in SUBSET (1..N) /\ Cardinality(P) \in Nat
    <2>1. P \in SUBSET (1..N)
      BY <1>1
    <2>2. IsFiniteSet(1..N)
      BY FS_Interval
    <2> HIDE DEF P
    <2>3. QED
      BY <2>1, <2>2, FS_Subset, FS_CardinalityType, Zenon
  <1>3. ToText(known) = [n \in 1..Cardinality(P) |-> line(n)]
    BY DEF ToText
  <1>4. \A i \in P : Labels[i] \in LabelSet /\ Pinned(known, Labels[i])
    BY DEF LabelSet
  <1>5. ASSUME NEW l \in LabelSet, Pinned(known, l)
        PROVE  \E i \in P : Labels[i] = l
    BY <1>5 DEF LabelSet
  <1> HIDE DEF P
  <1>6. ASSUME NEW n \in 1..Cardinality(P)
        PROVE  nth(n) \in P /\ rank(nth(n)) = n
    <2>1. \E i \in P : rank(i) = n
      BY <1>2, Ranked, Zenon
    <2> HIDE DEF rank
    <2>2. QED
      BY <2>1
  <1>7. ASSUME NEW i \in P
        PROVE  rank(i) \in 1..Cardinality(P) /\ nth(rank(i)) = i
    <2>1. rank(i) \in 1..Cardinality(P) /\ \A k \in P : rank(i) = rank(k) => i = k
      BY <1>2, RankedOnce
    <2> HIDE DEF rank
    <2>2. nth(rank(i)) \in P /\ rank(nth(rank(i))) = rank(i)
      BY <1>6, <2>1
    <2>3. QED
      BY <2>1, <2>2
  <1> HIDE DEF rank, nth
  <1>8. Lines(ToText(known))
    BY <1>2, <1>3 DEF Lines
  <1>9. ASSUME NEW n \in DOMAIN ToText(known)
        PROVE  \E l \in LabelSet : Pinned(known, l) /\ ToText(known)[n] = Line(l, known[l])
    <2>1. n \in 1..Cardinality(P) /\ ToText(known)[n] = line(n)
      BY <1>3
    <2>2. QED
      BY <1>4, <1>6, <2>1
  <1>10. ASSUME NEW l \in LabelSet, Pinned(known, l)
         PROVE  \E n \in DOMAIN ToText(known) : ToText(known)[n] = Line(l, known[l])
    <2>1. PICK i \in P : Labels[i] = l
      BY <1>5, <1>10
    <2>2. rank(i) \in DOMAIN ToText(known) /\ ToText(known)[rank(i)] = line(rank(i))
      BY <1>3, <1>7
    <2>3. QED
      BY <1>7, <2>1, <2>2
  <1>11. QED
    BY <1>8, <1>9, <1>10

\* What was saved is what is read back.
LEMMA ReadBack ==
    ASSUME NEW known, NEW l \in LabelSet, Pinned(known, l)
    PROVE  Pinned(Parse(ToText(known)), l) /\ Parse(ToText(known))[l] = known[l]
  <1> DEFINE text == ToText(known)
  <1>1. /\ Lines(text)
        /\ \A n \in DOMAIN text : \E m \in LabelSet : text[n] = Line(m, known[m])
        /\ \E n \in DOMAIN text : text[n] = Line(l, known[l])
    BY ToTextFacts
  <1> HIDE DEF text
  <1>2. \A m : Line(m, known[m]).label = m /\ Line(m, known[m]).key = known[m]
    BY DEF Line
  <1>3. PinsFor(text, l) # {}
    <2>1. PICK n \in DOMAIN text : text[n] = Line(l, known[l])
      BY <1>1
    <2>2. text[n] # Malformed
      <3>1. l # <<>>
        BY LabelsAssumption DEF LabelSet
      <3>2. Malformed.label = <<>>
        BY DEF Malformed
      <3>3. QED
        BY <1>2, <2>1, <3>1, <3>2
    <2>3. QED
      BY <1>2, <2>1, <2>2 DEF PinsFor
  <1>4. Pinned(Parse(text), l)
    BY <1>1, <1>3, ParseFacts, Zenon DEF Pinned
  <1>5. PICK i \in PinsFor(text, l) : Parse(text)[l] = text[i].key
    BY <1>1, <1>4, ParseFacts, Zenon DEF Pinned
  <1>6. text[i].key = known[l]
    <2>1. i \in DOMAIN text /\ text[i].label = l
      BY <1>5 DEF PinsFor
    <2>2. QED
      BY <1>1, <1>2, <2>1
  <1>7. QED
    BY <1>4, <1>5, <1>6 DEF text

-----------------------------------------------------------------------------
\* The pins.

\* What may be in known_hosts: what was there at first, and first uses.
Trusted == first_uses \cup UNION {{f[j] : j \in DOMAIN f} : f \in InitialHosts}

\* A file of such lines, and a table of such pins.
FileIn(s, T) == Lines(s) /\ \A i \in DOMAIN s : s[i] \in T /\ s[i] = Line(s[i].label, s[i].key)
TableIn(known, T) == \A l \in DOMAIN known : Line(l, known[l]) \in T

\* A table to be saved has the pins of the file it was read from, but for those that
\* --forget-host takes out.
KeepsPins(f, lines) ==
    \A l \in DOMAIN Parse(lines) :
        \/ Pinned(f.known, l) /\ f.known[l] = Parse(lines)[l]
        \/ f.args.kind = "forget" /\ Matches(l, f.args.host)

Holding == {"direct", "save", "write", "rename"}
Saved(r) == tmp[<<"known_hosts", r>>]

\* All tables and files hold trusted pins, a table read from the file as it is has its
\* pins, and what is about to be renamed is the whole table.
PinsOK ==
    /\ FileIn(known_hosts, Trusted)
    /\ \A r \in Runs :
          /\ TableIn(run[r].known, Trusted) /\ FileIn(Saved(r).lines, Trusted)
          /\ run[r].fresh /\ run[r].pc \in Holding => KeepsPins(run[r], known_hosts)
          /\ run[r].pc = "rename" => Saved(r) = File(ToText(run[r].known))
          /\ run[r].pc = "forget" => run[r].args.kind = "forget"

\* Reading a file of trusted lines gives a table of trusted pins, and writing such a table
\* gives such a file (KnownHosts::parse and to_text).
LEMMA TablesAndFiles ==
    ASSUME NEW T
    PROVE  /\ TableIn(NoPins, T) /\ FileIn(<<>>, T)
           /\ \A s : FileIn(s, T) => TableIn(Parse(s), T)
           /\ \A known : TableIn(known, T) => FileIn(ToText(known), T)
  <1>1. TableIn(NoPins, T) /\ FileIn(<<>>, T)
    <2>1. DOMAIN <<>> = 1..0
      OBVIOUS
    <2>2. QED
      BY <2>1 DEF TableIn, NoPins, FileIn, Lines
  <1>2. ASSUME NEW s, FileIn(s, T) PROVE TableIn(Parse(s), T)
    <2> SUFFICES ASSUME NEW l \in DOMAIN Parse(s) PROVE Line(l, Parse(s)[l]) \in T
      BY DEF TableIn
    <2>1. PICK i \in PinsFor(s, l) : Parse(s)[l] = s[i].key
      BY <1>2, ParseFacts, Zenon DEF FileIn
    <2>2. i \in DOMAIN s /\ s[i].label = l
      BY DEF PinsFor
    <2>3. QED
      BY <1>2, <2>1, <2>2 DEF FileIn
  <1>3. ASSUME NEW known, TableIn(known, T) PROVE FileIn(ToText(known), T)
    <2>1. Lines(ToText(known))
      BY ToTextFacts
    <2>2. ASSUME NEW n \in DOMAIN ToText(known)
          PROVE  LET x == ToText(known)[n] IN x \in T /\ x = Line(x.label, x.key)
      <3>1. PICK l \in LabelSet : Pinned(known, l) /\ ToText(known)[n] = Line(l, known[l])
        BY ToTextFacts
      <3>2. Line(l, known[l]) = Line(Line(l, known[l]).label, Line(l, known[l]).key)
        BY DEF Line
      <3>3. Line(l, known[l]) \in T
        BY <1>3, <3>1 DEF TableIn, Pinned
      <3>4. QED
        BY <3>1, <3>2, <3>3
    <2>3. QED
      BY <2>1, <2>2 DEF FileIn
  <1>4. QED
    BY <1>1, <1>2, <1>3

\* More may be trusted later.
LEMMA TrustGrows ==
    ASSUME NEW T, NEW U, T \subseteq U
    PROVE  /\ \A known : TableIn(known, T) => TableIn(known, U)
           /\ \A s : FileIn(s, T) => FileIn(s, U)
  BY DEF TableIn, FileIn

\* A step of one run that does not rename.
LEMMA OneRunPins ==
    ASSUME IInv, PinsOK, NEW r \in Runs, NEW g, run' = [run EXCEPT ![r] = g],
           known_hosts' = known_hosts, first_uses \subseteq first_uses',
           \A q \in Runs \ {r} : tmp'[<<"known_hosts", q>>] = tmp[<<"known_hosts", q>>],
           TableIn(g.known, Trusted'), FileIn(tmp'[<<"known_hosts", r>>].lines, Trusted'),
           g.fresh /\ g.pc \in Holding => KeepsPins(g, known_hosts),
           g.pc = "rename" => tmp'[<<"known_hosts", r>>] = File(ToText(g.known)),
           g.pc = "forget" => g.args.kind = "forget"
    PROVE  PinsOK'
  <1>1. run'[r] = g /\ \A q \in Runs \ {r} : run'[q] = run[q]
    BY Zenon DEF IInv, RunsOK
  <1>2. Trusted \subseteq Trusted'
    BY DEF Trusted
  <1>3. FileIn(known_hosts, Trusted')
    BY <1>2, TrustGrows, Zenon DEF PinsOK
  <1>4. ASSUME NEW q \in Runs
        PROVE  /\ TableIn(run'[q].known, Trusted') /\ FileIn(Saved(q)'.lines, Trusted')
               /\ run'[q].fresh /\ run'[q].pc \in Holding => KeepsPins(run'[q], known_hosts)
               /\ run'[q].pc = "rename" => Saved(q)' = File(ToText(run'[q].known))
               /\ run'[q].pc = "forget" => run'[q].args.kind = "forget"
    <2>1. CASE q = r
      BY <1>1, <2>1, Zenon DEF Saved
    <2>2. CASE q # r
      <3>1. run'[q] = run[q] /\ Saved(q)' = Saved(q)
        BY <1>1, <2>2 DEF Saved
      <3>2. TableIn(run[q].known, Trusted') /\ FileIn(Saved(q).lines, Trusted')
        BY <1>2, TrustGrows, Zenon DEF PinsOK
      <3>3. QED
        BY <3>1, <3>2, Zenon DEF PinsOK
    <2>3. QED
      BY <2>1, <2>2, Zenon
  <1>5. (FileIn(known_hosts, Trusted))'
    BY <1>3, Zenon DEF FileIn, Lines
  <1>6. ASSUME NEW q \in Runs
        PROVE  TableIn(run[q].known, Trusted)' /\ FileIn(Saved(q).lines, Trusted)'
    BY <1>4, Zenon DEF TableIn, Line, FileIn, Lines
  <1>7. ASSUME NEW q \in Runs
        PROVE  (run[q].fresh /\ run[q].pc \in Holding => KeepsPins(run[q], known_hosts))'
    <2>1. run'[q].fresh /\ run'[q].pc \in Holding => KeepsPins(run'[q], known_hosts')
      BY <1>4, Zenon
    <2>2. QED
      BY <2>1, Zenon DEF KeepsPins, Pinned, Parse, Malformed, LabelSet, Holding
  <1>8. ASSUME NEW q \in Runs
        PROVE  (run[q].pc = "rename" => Saved(q) = File(ToText(run[q].known)))'
    BY <1>4, Zenon DEF File, ToText, Line, Pinned
  <1>9. QED
    BY <1>4, <1>5, <1>6, <1>7, <1>8, Zenon DEF PinsOK

\* A step that neither reads nor writes the file.
Quiet(r, g) ==
    /\ run' = [run EXCEPT ![r] = g] /\ g.known \in {NoPins, run[r].known} /\ g.pc \notin Holding
    /\ g.pc = "forget" => g.args.kind = "forget"
    /\ known_hosts' = known_hosts /\ first_uses' = first_uses
    /\ \A q \in Runs : tmp'[<<"known_hosts", q>>] = tmp[<<"known_hosts", q>>]

\* A run that neither reads nor writes the file keeps all the pins.
LEMMA QuietKeeps ==
    ASSUME IInv, PinsOK, NEW r \in Runs, NEW g, Quiet(r, g)
    PROVE  PinsOK'
  <1>1. Trusted' = Trusted
    BY DEF Quiet, Trusted
  <1>2. TableIn(g.known, Trusted) /\ FileIn(Saved(r).lines, Trusted)
    BY TablesAndFiles DEF Quiet, PinsOK
  <1>3. g.pc # "rename" /\ g.pc \notin Holding
    BY DEF Quiet, Holding
  <1>4. QED
    BY <1>1, <1>2, <1>3, OneRunPins, Zenon DEF Quiet, Saved

\* A step that moves a run on, ends it, or gives it a key, leaves the pins alone.
LEMMA GotoQuiet ==
    ASSUME IInv, NEW r \in Runs, NEW pc, pc \notin Holding \cup {"forget"}, Goto(r, pc),
           known_hosts' = known_hosts, first_uses' = first_uses,
           \A q \in Runs : tmp'[<<"known_hosts", q>>] = tmp[<<"known_hosts", q>>]
    PROVE  \E g : Quiet(r, g)
  <1>1. CASE pc = "over"
    <2>1. run' = [run EXCEPT ![r] = Ended]
      BY <1>1 DEF Goto
    <2>2. Ended.known = NoPins /\ Ended.pc \notin Holding /\ Ended.pc # "forget"
      BY DEF Ended, NewRun, Holding
    <2>3. Quiet(r, Ended)
      BY <2>1, <2>2 DEF Quiet
    <2>4. QED
      BY <2>3
  <1>2. CASE pc # "over"
    <2> DEFINE g == [run[r] EXCEPT !.pc = pc]
    <2>1. run' = [run EXCEPT ![r] = g]
      BY <1>2 DEF Goto
    <2>2. g.known = run[r].known /\ g.pc = pc
      BY DEF IInv, RunsOK, RunOK, Fields
    <2> HIDE DEF g
    <2>3. Quiet(r, g)
      BY <2>1, <2>2 DEF Quiet
    <2>4. QED
      BY <2>3
  <1>3. QED
    BY <1>1, <1>2

\* The steps about keys.
LEMMA KeyStepsQuiet ==
    ASSUME IInv, NEW r \in Runs,
           \/ FindKey(r) \/ ReadKey(r) \/ CreateKey(r) \/ WriteKey(r)
           \/ Migrate(r) \/ RenameKey(r) \/ PublicKey(r)
    PROVE  \E g : Quiet(r, g)
  <1>1. /\ known_hosts' = known_hosts /\ first_uses' = first_uses
        /\ \A q \in Runs : tmp'[<<"known_hosts", q>>] = tmp[<<"known_hosts", q>>]
    <2>1. DOMAIN tmp = {"known_hosts", "id"} \X Runs
      BY DEF IInv, KeysOK
    <2>2. tmp' = tmp \/ \E x : tmp' = [tmp EXCEPT ![<<"id", r>>] = x]
      BY DEF FindKey, ReadKey, CreateKey, WriteKey, Migrate, RenameKey, PublicKey, files, TmpName
    <2>3. \A q \in Runs : tmp'[<<"known_hosts", q>>] = tmp[<<"known_hosts", q>>]
      BY <2>1, <2>2
    <2>4. QED
      BY <2>3 DEF FindKey, ReadKey, CreateKey, WriteKey, Migrate, RenameKey, PublicKey, files
  <1>2. ASSUME NEW k, NEW pc \in {"migrate", "public_key"},
               run' = [run EXCEPT ![r].key = k, ![r].pc = pc]
        PROVE  \E g : Quiet(r, g)
    <2> DEFINE g == [run[r] EXCEPT !.key = k, !.pc = pc]
    <2>1. run' = [run EXCEPT ![r] = g]
      BY <1>2, Zenon
    <2>2. g.known = run[r].known /\ g.pc \notin Holding /\ g.pc # "forget"
      BY DEF IInv, RunsOK, RunOK, Fields, Holding
    <2> HIDE DEF g
    <2>3. Quiet(r, g)
      BY <1>1, <2>1, <2>2 DEF Quiet
    <2>4. QED
      BY <2>3
  <1>3. CASE ReadKey(r) /\ id.lines # <<>>
    <2>1. PICK pc \in {"migrate", "public_key"} : run' = [run EXCEPT ![r].key = id.lines[1].key, ![r].pc = pc]
      BY <1>3 DEF ReadKey
    <2>2. QED
      BY <1>2, <2>1, Zenon
  <1>4. CASE WriteKey(r)
    <2>1. run' = [run EXCEPT ![r].key = r, ![r].pc = "public_key"]
      BY <1>4 DEF WriteKey
    <2>2. QED
      BY <1>2, <2>1, Zenon
  <1>5. CASE ~WriteKey(r) /\ ~(ReadKey(r) /\ id.lines # <<>>)
    <2>1. \E pc \in {"read_key", "generate", "over", "write_key", "migrated", "public_key", "load"} :
             Goto(r, pc) /\ pc \notin Holding \cup {"forget"}
      BY <1>5 DEF FindKey, ReadKey, CreateKey, Migrate, RenameKey, PublicKey, Holding
    <2>2. QED
      BY <1>1, <2>1, GotoQuiet, Zenon
  <1>6. QED
    BY <1>3, <1>4, <1>5

\* The first step, the attempts over SSH, and waiting.
LEMMA MismatchedQuiet ==
    ASSUME IInv, NEW r \in Runs, Mismatched(r), UNCHANGED <<files, first_uses>>
    PROVE  \E g : Quiet(r, g)
  <1> DEFINE g == [Ended EXCEPT !.mismatch = TRUE]
  <1>1. run' = [run EXCEPT ![r] = g]
    BY DEF Mismatched
  <1>2. g.known = NoPins /\ g.pc \notin Holding /\ g.pc # "forget"
    BY DEF Ended, NewRun, Holding
  <1> HIDE DEF g
  <1>3. Quiet(r, g)
    BY <1>1, <1>2 DEF Quiet, files
  <1>4. QED
    BY <1>3

\* A run starts with no table.
LEMMA StartQuiet ==
    ASSUME IInv, NEW r \in Runs, NEW a \in Invocations, Start(r, a)
    PROVE  \E g : Quiet(r, g)
  <1> DEFINE x(pc) == [run[r] EXCEPT !.args = a, !.pc = pc]
  <1>1. PICK g : /\ run' = [run EXCEPT ![r] = g]
                 /\ g = Ended \/ g = x("key") \/ (g = x("forget") /\ a.kind = "forget")
    <2>1. CASE a.kind = "usage"
      BY <2>1, Zenon DEF Start
    <2>2. CASE a.kind # "usage" /\ a.kind = "forget"
      BY <2>2, Zenon DEF Start
    <2>3. CASE a.kind # "usage" /\ a.kind # "forget"
      BY <2>3, Zenon DEF Start
    <2>4. QED
      BY <2>1, <2>2, <2>3
  <1>2. \A pc : x(pc).known = run[r].known /\ x(pc).pc = pc /\ x(pc).args = a
    BY DEF IInv, RunsOK, RunOK, Fields
  <1>3. Ended.known = NoPins /\ Ended.pc = "over"
    BY DEF Ended, NewRun
  <1> HIDE DEF x
  <1>4. /\ g.known \in {NoPins, run[r].known} /\ g.pc \notin Holding
        /\ g.pc = "forget" => g.args.kind = "forget"
    BY <1>1, <1>2, <1>3 DEF Holding
  <1>5. Quiet(r, g)
    BY <1>1, <1>4, Zenon DEF Quiet, Start, files
  <1>6. QED
    BY <1>5

\* An attempt over SSH changes no table: what it brings is a key, not a pin.
LEMMA AttemptQuiet ==
    ASSUME IInv, NEW r \in Runs, NEW n, NEW version, NEW missing, NEW failed,
           Attempt(r, n, version, missing, failed), UNCHANGED <<files, first_uses>>,
           missing \in Bootstrapping \cup {"over"}, failed \in Bootstrapping \cup {"over"}
    PROVE  \E g : Quiet(r, g)
  <1>1. ASSUME NEW pc \in Bootstrapping \cup {"over"}, Goto(r, pc)
        PROVE  \E g : Quiet(r, g)
    <2>1. pc \notin Holding \cup {"forget"}
      BY DEF Bootstrapping, Holding
    <2>2. QED
      BY <1>1, <2>1, GotoQuiet DEF files
  <1>2. ASSUME NEW p, run' = [run EXCEPT ![r].boot = [port |-> p, key |-> OneShotKey(r, n)],
                                         ![r].pc = AfterConnected(r, version, n < 3)]
        PROVE  \E g : Quiet(r, g)
    <2> DEFINE b == [port |-> p, key |-> OneShotKey(r, n)]
               c == AfterConnected(r, version, n < 3)
               g == [run[r] EXCEPT !.boot = b, !.pc = c]
    <2>1. c \notin Holding /\ c # "forget"
      BY DEF AfterConnected, Holding
    <2> HIDE DEF b, c
    <2>2. run' = [run EXCEPT ![r] = g]
      BY <1>2, Zenon DEF b, c
    <2>3. g.known = run[r].known /\ g.pc = c
      BY DEF IInv, RunsOK, RunOK, Fields
    <2> HIDE DEF g
    <2>4. Quiet(r, g)
      BY <2>1, <2>2, <2>3 DEF Quiet, files
    <2>5. QED
      BY <2>4
  <1>3. \/ Goto(r, missing) \/ Goto(r, failed) \/ Goto(r, "over")
        \/ \E p : run' = [run EXCEPT ![r].boot = [port |-> p, key |-> OneShotKey(r, n)],
                                     ![r].pc = AfterConnected(r, version, n < 3)]
    BY Zenon DEF Attempt
  <1>4. QED
    BY <1>1, <1>2, <1>3, Zenon

\* Nor does any of the three bootstraps.
LEMMA BootstrapQuiet ==
    ASSUME IInv, NEW r \in Runs,
           BootstrapFirst(r) \/ BootstrapInstalled(r) \/ BootstrapAgain(r) \/ BootReply(r)
    PROVE  \E g : Quiet(r, g)
  <1>1. /\ UNCHANGED <<files, first_uses>>
        /\ {"over", "install", "boot_installed"} \subseteq Bootstrapping \cup {"over"}
    BY Zenon DEF BootstrapFirst, BootstrapInstalled, BootstrapAgain, BootReply, Bootstrapping
  <1>2. CASE BootstrapFirst(r)
    <2> DEFINE missing == IF MayInstall(run[r].args) THEN "boot_installed" ELSE "over"
    <2>1. PICK version :
            Attempt(r, 1, version, missing, "over")
            /\ missing \in Bootstrapping \cup {"over"} /\ "over" \in Bootstrapping \cup {"over"}
      BY <1>1, <1>2, Zenon DEF BootstrapFirst
    <2> HIDE DEF missing
    <2>2. QED
      BY <1>1, <2>1, AttemptQuiet
  <1>3. CASE BootstrapInstalled(r)
    <2>1. Attempt(r, 2, installed[run[r].args.host].local, "install", "install")
          /\ "install" \in Bootstrapping \cup {"over"}
      BY <1>1, <1>3 DEF BootstrapInstalled
    <2>2. QED
      BY <1>1, <2>1, AttemptQuiet
  <1>4. CASE BootstrapAgain(r)
    <2>1. Attempt(r, 3, installed[run[r].args.host].local, "over", "over")
          /\ "over" \in Bootstrapping \cup {"over"}
      BY <1>1, <1>4 DEF BootstrapAgain
    <2>2. QED
      BY <1>1, <2>1, AttemptQuiet
  <1>5. CASE BootReply(r)
    <2> DEFINE s == server[At(run[r].args.host, run[r].boot.port)].key
               g == [run[r] EXCEPT !.server = s, !.pc = "session"]
    <2>1. Mismatched(r) \/ run' = [run EXCEPT ![r].server = s, ![r].pc = "session"]
      BY <1>5, Zenon DEF BootReply
    <2> HIDE DEF s
    <2>2. ASSUME run' = [run EXCEPT ![r].server = s, ![r].pc = "session"]
          PROVE  Quiet(r, g)
      <3>1. run' = [run EXCEPT ![r] = g]
        BY <2>2, Zenon
      <3>2. g.known = run[r].known /\ g.pc \notin Holding /\ g.pc # "forget"
        BY DEF IInv, RunsOK, RunOK, Fields, Holding
      <3> HIDE DEF g
      <3>3. QED
        BY <1>1, <3>1, <3>2 DEF Quiet, files
    <2>3. QED
      BY <1>1, <2>1, <2>2, MismatchedQuiet
  <1>6. QED
    BY <1>2, <1>3, <1>4, <1>5

\* Nor do time-outs, an install, an exit or a kill.
LEMMA WaitsQuiet ==
    ASSUME IInv, NEW r \in Runs,
           \/ DirectTimeout(r) \/ Install(r) \/ AnswerUpgrade(r) \/ BootTimeout(r)
           \/ UpgradeStanding(r) \/ SessionEnds(r) \/ Crash(r)
    PROVE  \E g : Quiet(r, g)
  <1>1. UNCHANGED <<files, first_uses>>
    BY DEF DirectTimeout, Install, AnswerUpgrade, BootTimeout, UpgradeStanding, SessionEnds, Crash
  <1>2. PICK pc \in {"over", "boot", "boot_again", "late_connect", "session"} : Goto(r, pc)
    BY DEF DirectTimeout, Install, AnswerUpgrade, BootTimeout, UpgradeStanding, SessionEnds, Crash,
           InstallRemote
  <1>3. pc \notin Holding \cup {"forget"}
    BY DEF Holding
  <1>4. QED
    BY <1>1, <1>2, <1>3, GotoQuiet DEF files

-----------------------------------------------------------------------------
\* The steps that read or write the file.

\* --forget-host takes the pins of its host out of the table it just read, and no others.
LEMMA ForgetPins ==
    ASSUME IInv, PinsOK, NEW r \in Runs, Forget(r)
    PROVE  PinsOK'
  <1> DEFINE f == run[r]
             k == Parse(known_hosts)
             left == RemoveMatching(k, f.args.host)
             g == [f EXCEPT !.known = left, !.fresh = TRUE, !.pc = "save"]
  <1>1. /\ known_hosts' = known_hosts /\ tmp' = tmp /\ first_uses' = first_uses
        /\ (run' = [run EXCEPT ![r] = Ended] \/ run' = [run EXCEPT ![r] = g])
    BY Zenon DEF Forget, files
  <1>2. CASE run' = [run EXCEPT ![r] = Ended]
    <2>1. Ended.known = NoPins /\ Ended.pc \notin Holding /\ Ended.pc # "forget"
      BY DEF Ended, NewRun, Holding
    <2>2. Quiet(r, Ended)
      BY <1>1, <1>2, <2>1 DEF Quiet
    <2>3. QED
      BY <2>2, QuietKeeps
  <1>3. CASE run' = [run EXCEPT ![r] = g]
    <2>1. Trusted' = Trusted /\ TableIn(k, Trusted)
      BY <1>1, TablesAndFiles DEF Trusted, PinsOK
    <2>2. f.pc = "forget"
      BY DEF Forget
    <2>3. /\ DOMAIN left = {l \in DOMAIN k : ~Matches(l, f.args.host)}
          /\ \A l \in DOMAIN left : left[l] = k[l]
      BY DEF RemoveMatching
    <2> HIDE DEF k, left
    <2>4. g.known = left /\ g.pc = "save" /\ g.args = f.args
      BY DEF IInv, RunsOK, RunOK, Fields
    <2>5. TableIn(left, Trusted')
      BY <2>1, <2>3 DEF TableIn
    <2>6. f.args.kind = "forget"
      BY <2>2 DEF PinsOK
    <2>7. KeepsPins(g, known_hosts)
      BY <2>3, <2>4, <2>6 DEF KeepsPins, Pinned, k
    <2> HIDE DEF g
    <2>8. FileIn(tmp'[<<"known_hosts", r>>].lines, Trusted')
      BY <1>1, <2>1, Zenon DEF PinsOK, Saved
    <2>9. QED
      BY <1>1, <1>3, <2>4, <2>5, <2>7, <2>8, OneRunPins, Zenon
  <1>4. QED
    BY <1>1, <1>2, <1>3

\* load_known_hosts: the table is the file, as it is at this moment.
LEMMA LoadPins ==
    ASSUME IInv, PinsOK, NEW r \in Runs, Load(r)
    PROVE  PinsOK'
  <1> DEFINE f == run[r]
             k == Parse(known_hosts)
             p == IF Pinned(k, LabelOf(f.args)) THEN k[LabelOf(f.args)] ELSE NoKey
             c == IF TryDirect(f.args, k) THEN "direct" ELSE "boot"
             g == [f EXCEPT !.known = k, !.fresh = TRUE, !.pin = p, !.pc = c]
  <1>1. known_hosts' = known_hosts /\ tmp' = tmp /\ first_uses' = first_uses
    BY DEF Load, files
  <1>2. run' = [run EXCEPT ![r].known = k, ![r].fresh = TRUE, ![r].pin = p, ![r].pc = c]
    BY DEF Load
  <1>3. Trusted' = Trusted /\ TableIn(k, Trusted)
    BY <1>1, TablesAndFiles, Zenon DEF Trusted, PinsOK
  <1>4. c # "rename" /\ c # "forget"
    OBVIOUS
  <1> HIDE DEF p, c, k
  <1>5. run' = [run EXCEPT ![r] = g]
    BY <1>2, Zenon
  <1>6. g.known = k /\ g.pc = c
    BY DEF IInv, RunsOK, RunOK, Fields
  <1>7. KeepsPins(g, known_hosts)
    BY <1>6 DEF KeepsPins, Pinned, k
  <1> HIDE DEF g
  <1>8. FileIn(tmp'[<<"known_hosts", r>>].lines, Trusted')
    BY <1>1, <1>3 DEF PinsOK, Saved
  <1>9. QED
    BY <1>1, <1>3, <1>4, <1>5, <1>6, <1>7, <1>8, OneRunPins, Zenon

\* A first use adds the key that was met, and becomes trusted with it; no pin is replaced.
LEMMA DirectReplyPins ==
    ASSUME IInv, PinsOK, NEW r \in Runs, DirectReply(r)
    PROVE  PinsOK'
  <1> DEFINE f == run[r]
             l == LabelOf(f.args)
             s == server[l].key
             v == Tofu(f.known, l, s)
             k == CheckOrAdd(f.known, l, s)
             d == (v = "New")
             c == IF v = "New" THEN "save" ELSE AfterDirect(r)
             g == [f EXCEPT !.known = k, !.dirty = d, !.server = s, !.pc = c]
  <1>1. known_hosts' = known_hosts /\ tmp' = tmp /\ UNCHANGED files
    BY DEF DirectReply, files
  <1>2. CASE v = "Mismatch"
    <2>1. Mismatched(r) /\ first_uses' = first_uses
      BY <1>2 DEF DirectReply
    <2>2. \E x : Quiet(r, x)
      BY <1>1, <2>1, MismatchedQuiet
    <2>3. QED
      BY <2>2, QuietKeeps
  <1>3. CASE v # "Mismatch"
    <2>1. /\ run' = [run EXCEPT ![r].known = k, ![r].dirty = d, ![r].server = s, ![r].pc = c]
          /\ first_uses' = first_uses \cup {x \in {Line(l, s)} : v = "New"}
      BY <1>3, Zenon DEF DirectReply
    <2>2. /\ \A m \in DOMAIN f.known : m \in DOMAIN k /\ k[m] = f.known[m]
          /\ \A m \in DOMAIN k : m \in DOMAIN f.known \/ (v = "New" /\ m = l /\ k[m] = s)
      BY Zenon DEF CheckOrAdd, Tofu, Pinned
    <2>3. c # "rename" /\ c # "forget"
      BY DEF AfterDirect
    <2>4. first_uses \subseteq first_uses' /\ (v = "New" => Line(l, s) \in first_uses')
      BY <2>1, Zenon
    <2> HIDE DEF v, k, c, d, s, l
    <2>5. run' = [run EXCEPT ![r] = g]
      BY <2>1, Zenon
    <2>6. g.known = k /\ g.pc = c /\ g.args = f.args /\ g.fresh = f.fresh
      BY DEF IInv, RunsOK, RunOK, Fields
    <2>7. Trusted \subseteq Trusted' /\ first_uses' \subseteq Trusted'
      BY <2>4 DEF Trusted
    <2>8. TableIn(k, Trusted')
      <3> SUFFICES ASSUME NEW m \in DOMAIN k PROVE Line(m, k[m]) \in Trusted'
        BY DEF TableIn
      <3>1. CASE m \in DOMAIN f.known
        BY <2>2, <2>7, <3>1, Zenon DEF PinsOK, TableIn
      <3>2. CASE v = "New" /\ m = l /\ k[m] = s
        BY <2>4, <2>7, <3>2
      <3>3. QED
        BY <2>2, <3>1, <3>2
    <2>9. f.fresh => KeepsPins(f, known_hosts)
      BY Zenon DEF PinsOK, DirectReply, Holding
    <2>10. g.fresh => KeepsPins(g, known_hosts)
      <3> HIDE DEF f, g
      <3>1. QED
        BY <2>2, <2>6, <2>9, Zenon DEF KeepsPins, Pinned
    <2> HIDE DEF g
    <2>11. FileIn(tmp'[<<"known_hosts", r>>].lines, Trusted')
      BY <1>1, <2>7, TrustGrows, Zenon DEF PinsOK, Saved
    <2>12. QED
      BY <1>1, <2>3, <2>4, <2>5, <2>6, <2>8, <2>10, <2>11, OneRunPins, Zenon
  <1>4. QED
    BY <1>2, <1>3

\* The temporary file of a run is its own: empty when created, then its whole table.
LEMMA SavePins ==
    ASSUME IInv, PinsOK, NEW r \in Runs, SaveCreate(r) \/ SaveWrite(r)
    PROVE  PinsOK'
  <1> DEFINE f == run[r]
             c == IF SaveCreate(r) THEN "write" ELSE "rename"
             x == IF SaveCreate(r) THEN File(<<>>) ELSE File(ToText(f.known))
             g == [f EXCEPT !.pc = c]
  <1>1. /\ known_hosts' = known_hosts /\ first_uses' = first_uses
        /\ tmp' = [tmp EXCEPT ![<<"known_hosts", r>>] = x]
        /\ run' = [run EXCEPT ![r] = g] /\ f.pc \in Holding
    BY DEF SaveCreate, SaveWrite, TmpName, Goto, Holding
  <1>2. c # "forget" /\ (c # "rename" \/ x = File(ToText(f.known)))
    OBVIOUS
  <1>3. FileIn(x.lines, Trusted)
    <2>1. File(<<>>).lines = <<>> /\ File(ToText(f.known)).lines = ToText(f.known)
      BY DEF File
    <2>2. FileIn(<<>>, Trusted) /\ FileIn(ToText(f.known), Trusted)
      BY TablesAndFiles, Zenon DEF PinsOK
    <2>3. x = File(<<>>) \/ x = File(ToText(f.known))
      OBVIOUS
    <2> HIDE DEF x
    <2>4. QED
      BY <2>1, <2>2, <2>3
  <1> HIDE DEF c, x
  <1>4. g.known = f.known /\ g.pc = c /\ g.args = f.args /\ g.fresh = f.fresh
    BY DEF IInv, RunsOK, RunOK, Fields
  <1>5. Trusted' = Trusted
    BY <1>1 DEF Trusted
  <1>6. /\ tmp'[<<"known_hosts", r>>] = x
        /\ \A q \in Runs \ {r} : tmp'[<<"known_hosts", q>>] = tmp[<<"known_hosts", q>>]
    BY <1>1 DEF IInv, KeysOK
  <1>7. TableIn(f.known, Trusted) /\ (f.fresh => KeepsPins(f, known_hosts))
    BY <1>1 DEF PinsOK
  <1>8. g.fresh => KeepsPins(g, known_hosts)
    <2> HIDE DEF f, g
    <2>1. QED
      BY <1>4, <1>7 DEF KeepsPins
  <1> HIDE DEF g
  <1>9. QED
    BY <1>1, <1>2, <1>3, <1>4, <1>5, <1>6, <1>7, <1>8, OneRunPins, Zenon

\* The rename makes the table the file, and every other table that was read before stale.
LEMMA SaveRenamePins ==
    ASSUME IInv, PinsOK, NEW r \in Runs, SaveRename(r)
    PROVE  PinsOK' /\ known_hosts' = ToText(run[r].known)
  <1> DEFINE x == ToText(run[r].known)
  <1>1. Saved(r) = File(x) /\ run[r].pc = "rename"
    BY DEF SaveRename, PinsOK
  <1>2. File(x).exists /\ File(x).lines = x
    BY DEF File
  <1> HIDE DEF x
  <1>3. known_hosts' = x
    BY <1>1, <1>2 DEF SaveRename, TmpName, Saved
  <1>4. Trusted' = Trusted
    BY DEF SaveRename, Trusted
  <1>5. FileIn(x, Trusted) /\ FileIn(NoFile.lines, Trusted)
    BY TablesAndFiles, Zenon DEF PinsOK, x, NoFile
  <1>6. /\ Saved(r)' = NoFile
        /\ \A q \in Runs \ {r} : Saved(q)' = Saved(q)
    BY DEF SaveRename, TmpName, Saved, IInv, KeysOK
  <1>7. ASSUME NEW q \in Runs
        PROVE  /\ TableIn(run'[q].known, Trusted) /\ FileIn(Saved(q)'.lines, Trusted)
               /\ run'[q].pc \in Holding => ~run'[q].fresh
               /\ run'[q].pc = "rename" => Saved(q)' = File(ToText(run'[q].known))
               /\ run'[q].pc = "forget" => run'[q].args.kind = "forget"
    <2> DEFINE f == run[q]
               g == [f EXCEPT !.fresh = FALSE]
               on == [f EXCEPT !.pc = AfterDirect(r)]
    <2>1. /\ TableIn(f.known, Trusted) /\ FileIn(Saved(q).lines, Trusted)
          /\ f.pc = "rename" => Saved(q) = File(ToText(f.known))
          /\ f.pc = "forget" => f.args.kind = "forget"
      BY Zenon DEF PinsOK
    <2>2. CASE q # r
      <3>1. run'[q] = g
        BY <2>2 DEF SaveRename
      <3>2. g.known = f.known /\ g.pc = f.pc /\ g.args = f.args /\ g.fresh = FALSE
        BY DEF IInv, RunsOK, RunOK, Fields
      <3> HIDE DEF f, g
      <3>3. QED
        BY <1>6, <2>1, <2>2, <3>1, <3>2, Zenon
    <2>3. CASE q = r
      <3>1. run'[q] = Ended \/ run'[q] = on
        BY <2>3 DEF SaveRename
      <3>2. on.known = f.known /\ on.pc \notin Holding \cup {"forget"}
        BY DEF IInv, RunsOK, RunOK, Fields, AfterDirect, Holding
      <3>3. Ended.known = NoPins /\ Ended.pc \notin Holding \cup {"forget"}
        BY DEF Ended, NewRun, Holding
      <3>4. TableIn(NoPins, Trusted) /\ "rename" \in Holding
        BY TablesAndFiles DEF Holding
      <3> HIDE DEF f, on
      <3>5. QED
        BY <1>5, <1>6, <2>1, <2>3, <3>1, <3>2, <3>3, <3>4, Zenon
    <2>4. QED
      BY <2>2, <2>3, Zenon
  <1>8. (FileIn(known_hosts, Trusted))'
    <2>1. FileIn(known_hosts', Trusted')
      BY <1>3, <1>4, <1>5
    <2>2. QED
      BY <2>1 DEF FileIn, Lines
  <1>9. ASSUME NEW q \in Runs
        PROVE  TableIn(run[q].known, Trusted)' /\ FileIn(Saved(q).lines, Trusted)'
    <2>1. TableIn(run'[q].known, Trusted') /\ FileIn(Saved(q)'.lines, Trusted')
      BY <1>4, <1>7, Zenon
    <2>2. QED
      BY <2>1, Zenon DEF TableIn, Line, FileIn, Lines
  <1>10. ASSUME NEW q \in Runs
         PROVE  (run[q].pc = "rename" => Saved(q) = File(ToText(run[q].known)))'
    BY <1>7, Zenon DEF File, ToText, Line, Pinned
  <1>11. PinsOK'
    BY <1>7, <1>8, <1>9, <1>10, Zenon DEF PinsOK
  <1>12. QED
    BY <1>3, <1>11 DEF x

\* The servers do not touch the files of the client's machine.
LEMMA PinsStay ==
    ASSUME PinsOK, UNCHANGED <<run, known_hosts, tmp, first_uses>>
    PROVE  PinsOK'
  <1>1. Trusted' = Trusted
    BY DEF Trusted
  <1>2. (FileIn(known_hosts, Trusted))'
    <2>1. FileIn(known_hosts', Trusted')
      BY <1>1 DEF PinsOK
    <2>2. QED
      BY <2>1 DEF FileIn, Lines
  <1>3. ASSUME NEW q \in Runs
        PROVE  TableIn(run[q].known, Trusted)' /\ FileIn(Saved(q).lines, Trusted)'
    <2>1. TableIn(run'[q].known, Trusted') /\ FileIn(Saved(q)'.lines, Trusted')
      BY <1>1, Zenon DEF PinsOK, Saved
    <2>2. QED
      BY <2>1 DEF TableIn, Line, FileIn, Lines
  <1>4. ASSUME NEW q \in Runs
        PROVE  (run[q].fresh /\ run[q].pc \in Holding => KeepsPins(run[q], known_hosts))'
    <2>1. run'[q].fresh /\ run'[q].pc \in Holding => KeepsPins(run'[q], known_hosts')
      BY DEF PinsOK
    <2>2. QED
      BY <2>1, Zenon DEF KeepsPins, Pinned, Parse, Malformed, LabelSet, Holding
  <1>5. ASSUME NEW q \in Runs
        PROVE  (run[q].pc = "rename" => Saved(q) = File(ToText(run[q].known)))'
    <2>1. run'[q].pc = "rename" => Saved(q)' = File(ToText(run'[q].known))
      BY Zenon DEF PinsOK, Saved
    <2>2. QED
      BY <2>1, Zenon DEF File, ToText, Line, Pinned
  <1>6. ASSUME NEW q \in Runs PROVE (run[q].pc = "forget" => run[q].args.kind = "forget")'
    BY DEF PinsOK
  <1>7. QED
    BY <1>2, <1>3, <1>4, <1>5, <1>6, Zenon DEF PinsOK

\* At first there are no tables, and the pins are the initial ones.
LEMMA InitPins == ConnectInit => PinsOK
  <1> SUFFICES ASSUME ConnectInit PROVE PinsOK
    OBVIOUS
  <1>1. FileIn(known_hosts, Trusted)
    <2>1. /\ known_hosts \in InitialHosts
          /\ known_hosts \in Seq({known_hosts[i] : i \in DOMAIN known_hosts})
          /\ \A i \in DOMAIN known_hosts : known_hosts[i] = Line(known_hosts[i].label, known_hosts[i].key)
      BY HostsAssumption, Zenon DEF ConnectInit
    <2>2. Len(known_hosts) \in Nat /\ DOMAIN known_hosts = 1..Len(known_hosts)
      BY <2>1
    <2>3. \A i \in DOMAIN known_hosts : known_hosts[i] \in Trusted
      BY <2>1 DEF Trusted
    <2>4. QED
      BY <2>1, <2>2, <2>3, Zenon DEF FileIn, Lines
  <1>2. ASSUME NEW r \in Runs
        PROVE  /\ run[r].known = NoPins /\ run[r].pc = "new" /\ Saved(r).lines = <<>>
    BY DEF ConnectInit, NewRun, Saved, NoFile
  <1>3. QED
    BY <1>1, <1>2, TablesAndFiles, Zenon DEF PinsOK, Holding

\* Only a rename changes known_hosts.
LEMMA PinsStep ==
    ASSUME IInv, PinsOK, [ConnectNext]_connectVars
    PROVE  /\ PinsOK'
           /\ \/ known_hosts' = known_hosts
              \/ \E r \in Runs : SaveRename(r) /\ known_hosts' = ToText(run[r].known)
  <1> DEFINE Goal == /\ PinsOK'
                     /\ \/ known_hosts' = known_hosts
                        \/ \E r \in Runs : SaveRename(r) /\ known_hosts' = ToText(run[r].known)
  <1>1. ASSUME NEW r \in Runs, \E g : Quiet(r, g) PROVE Goal
    <2>1. PinsOK'
      BY <1>1, QuietKeeps
    <2>2. QED
      BY <1>1, <2>1 DEF Quiet
  <1>2. ASSUME NEW r \in Runs, Forget(r) \/ Load(r) \/ DirectReply(r) \/ SaveCreate(r) \/ SaveWrite(r)
        PROVE  Goal
    <2>1. PinsOK'
      BY <1>2, ForgetPins, LoadPins, DirectReplyPins, SavePins
    <2>2. known_hosts' = known_hosts
      BY <1>2, Zenon DEF Forget, Load, DirectReply, SaveCreate, SaveWrite, files
    <2>3. QED
      BY <2>1, <2>2
  <1>3. ASSUME NEW r \in Runs, SaveRename(r) PROVE Goal
    BY <1>3, SaveRenamePins
  <1>4. ASSUME ServerStep \/ UNCHANGED connectVars PROVE Goal
    <2>1. UNCHANGED <<run, known_hosts, tmp, first_uses>>
      BY <1>4, Zenon DEF ServerStep, StandingStarts, StandingStops, Rekey, OneShotExits, files, connectVars
    <2>2. QED
      BY <2>1, PinsStay
  <1> HIDE DEF Goal
  <1>5. ASSUME NEW r \in Runs, RunStep(r) PROVE Goal
    <2>1. CASE \/ FindKey(r) \/ ReadKey(r) \/ CreateKey(r) \/ WriteKey(r)
               \/ Migrate(r) \/ RenameKey(r) \/ PublicKey(r)
      BY <1>1, <2>1, KeyStepsQuiet
    <2>2. CASE BootstrapFirst(r) \/ BootstrapInstalled(r) \/ BootstrapAgain(r) \/ BootReply(r)
      BY <1>1, <2>2, BootstrapQuiet
    <2>3. CASE DirectTimeout(r) \/ Install(r) \/ BootTimeout(r)
      BY <1>1, <2>3, WaitsQuiet
    <2>4. QED
      BY <1>2, <1>3, <1>5, <2>1, <2>2, <2>3 DEF RunStep
  <1>6. ASSUME NEW r \in Runs, UserStep(r) PROVE Goal
    BY <1>1, <1>6, StartQuiet, WaitsQuiet DEF UserStep
  <1>7. Goal
    BY <1>4, <1>5, <1>6 DEF ConnectNext
  <1>8. QED
    BY <1>7 DEF Goal

\* Whatever runs race to save it, known_hosts holds trusted pins only, and a run that
\* read it as it is has its pins.
THEOREM ConnectPinsInvariant == ConnectSpec => [](IInv /\ PinsOK)
  <1>1. ConnectInit => IInv /\ PinsOK
    BY InitHolds, InitPins
  <1>2. IInv /\ PinsOK /\ [ConnectNext]_connectVars => (IInv /\ PinsOK)'
    BY NextKeeps, PinsStep
  <1>3. QED
    BY <1>1, <1>2, PTL DEF ConnectSpec

\* However many runs connect, forget hosts, save and die: a session is with a server whose key
\* was pinned, was just met with --direct or came over SSH, and known_hosts holds a pin only if
\* it did at first or the key was met on first use (noissh.rs:544-662, config.rs:208-236): no
\* save, however it races with others, makes up a pin or re-pins a host.
THEOREM ConnectTrustedServer == ConnectSpec => []TrustedServer
  <1>1. IInv /\ PinsOK /\ SessionsTrusted => TrustedServer
    <2> SUFFICES ASSUME PinsOK, SessionsTrusted, NEW i \in DOMAIN known_hosts
                 PROVE  \/ known_hosts[i] \in first_uses
                        \/ \E f \in InitialHosts : \E j \in DOMAIN f : known_hosts[i] = f[j]
      BY DEF TrustedServer
    <2>1. known_hosts[i] \in Trusted
      BY Zenon DEF PinsOK, FileIn
    <2>2. QED
      BY <2>1 DEF Trusted
  <1>2. QED
    BY <1>1, ConnectPinsInvariant, ConnectSessionsTrusted, PTL

\* A pin may be lost in the rename of --forget-host with a name its label matches, or in that
\* of a run that read the file before another one saved it.
LostPin(l) ==
    \E r \in Runs : /\ run[r].pc = "rename" /\ run'[r].pc # "rename"
                    /\ \/ run[r].args.kind = "forget" /\ Matches(l, run[r].args.host)
                       \/ ~run[r].fresh

\* No step loses or replaces a pin but those: a save that is killed before its rename, or that
\* runs beside that of another run, never does (save_known_hosts, config.rs:217-236).
THEOREM ConnectPinsKept == ConnectSpec => PinsKept
  <1> DEFINE Kept == \A l \in DOMAIN Parse(known_hosts) :
                        \/ Pinned(Parse(known_hosts'), l) /\ Parse(known_hosts')[l] = Parse(known_hosts)[l]
                        \/ LostPin(l)
  <1>1. ASSUME IInv, PinsOK, [ConnectNext]_connectVars PROVE [Kept]_known_hosts
    <2> SUFFICES ASSUME known_hosts' # known_hosts, NEW l \in DOMAIN Parse(known_hosts), ~LostPin(l)
                 PROVE  Pinned(Parse(known_hosts'), l) /\ Parse(known_hosts')[l] = Parse(known_hosts)[l]
      OBVIOUS
    <2>1. PICK r \in Runs : SaveRename(r) /\ known_hosts' = ToText(run[r].known)
      BY <1>1, PinsStep
    <2>2. run[r].pc = "rename" /\ run'[r].pc # "rename"
      <3>1. Ended.pc # "rename" /\ AfterDirect(r) # "rename"
        BY DEF Ended, NewRun, AfterDirect
      <3>2. run'[r] = Ended \/ run'[r] = [run[r] EXCEPT !.pc = AfterDirect(r)]
        BY <2>1 DEF SaveRename
      <3>3. [run[r] EXCEPT !.pc = AfterDirect(r)].pc = AfterDirect(r)
        BY <1>1 DEF IInv, RunsOK, RunOK, Fields
      <3>4. QED
        BY <2>1, <3>1, <3>2, <3>3 DEF SaveRename
    <2>3. run[r].fresh /\ ~(run[r].args.kind = "forget" /\ Matches(l, run[r].args.host))
      BY <2>2 DEF LostPin
    <2>4. Pinned(run[r].known, l) /\ run[r].known[l] = Parse(known_hosts)[l]
      BY <1>1, <2>2, <2>3, Zenon DEF PinsOK, KeepsPins, Holding
    <2>5. l \in LabelSet
      BY <1>1, ParseFacts, Zenon DEF PinsOK, FileIn
    <2>6. QED
      BY <2>1, <2>4, <2>5, ReadBack
  <1>2. QED
    BY <1>1, ConnectPinsInvariant, PTL DEF ConnectSpec, PinsKept, LostPin

=============================================================================
