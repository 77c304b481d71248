------------------------------ MODULE Connect ------------------------------
(***************************************************************************)
(* How a run of noissh gets its session, and whom it trusts: run() of       *)
(* src/bin/noissh.rs with the files of its configuration directory          *)
(* (src/config.rs), the direct attempt (Client::connect_with), the          *)
(* bootstrap over SSH (src/ssh.rs) and the servers of src/bin/noisshd.rs.   *)
(*                                                                         *)
(* Several runs on one machine share the directory, and each may die at any *)
(* point.  A step of a run is what it does between two accesses to          *)
(* something others can see: a file, a server, the user.  A handshake is    *)
(* one step, in which the server that holds the port shows its key, or a    *)
(* timeout, whatever the reason (modules Session and Lifecycle have the     *)
(* datagrams).  ssh, the installer and the network of the host are          *)
(* external: they work or they fail.                                        *)
(***************************************************************************)
EXTENDS KnownHosts

CONSTANTS Runs, Hosts,
          Conventional,         \* the default of --port
          Ephemeral,            \* the ports a bind to port 0 may get
          Invocations,          \* the arguments a run may have
          InitialHosts,         \* what known_hosts may hold at the start
          InitialIds,           \* what id may hold
          InitialInstalls,      \* the noisshd binaries a host may have
          MaxRekeys             \* bound: how often a standing server changes its key

ASSUME ConnectAssumption ==
    /\ Conventional \notin Ephemeral /\ MaxRekeys \in Nat
    /\ \A h \in Hosts, p \in {Conventional} \cup Ephemeral : [host |-> h, port |-> p] \in LabelSet
    /\ \A a \in Invocations : a.kind = "connect" =>
         \A p \in {a.port, a.server_port} : [host |-> a.host, port |-> p] \in LabelSet

VARIABLES run,          \* run[r]: where it is in run(), and its locals
          known_hosts,  \* the lines of the file
          id, id_pub,   \* the private and the public key file
          tmp,          \* tmp[n]: the temporary file of name n
          server,       \* server[l]: what holds the UDP port of label l
          installed,    \* installed[h]: the noisshd on PATH and in ~/.local/bin
          rekeys,       \* rekeys[h]: how often h's standing server changed its key
          first_uses    \* history: what was pinned on first use

connectVars == <<run, known_hosts, id, id_pub, tmp, server, installed, rekeys, first_uses>>

None == "none"

\* A file is there or not, and has lines.  A key file has one, the key and whether the
\* public half stands beside it, as it did in old versions.
NoFile == [exists |-> FALSE, lines |-> <<>>]
File(lines) == [exists |-> TRUE, lines |-> lines]
KeyFile(key) == File(<<[key |-> key, legacy |-> FALSE]>>)

\* A run that makes a key names it.  There is a key in a key file, or nothing yet.
ASSUME KeyAssumption ==
    /\ None \notin Runs
    /\ \A f \in InitialIds : \/ f.lines = <<>>
                             \/ f.exists /\ DOMAIN f.lines = {1} /\ f.lines[1].key # None

\* known_hosts is a text file.
ASSUME HostsAssumption ==
    \A f \in InitialHosts : /\ f \in Seq({f[i] : i \in DOMAIN f})
                            /\ \A i \in DOMAIN f : f[i] = Line(f[i].label, f[i].key)

\* The keys of servers.
NoKey == [kind |-> None, of |-> None, n |-> 0]
StandingKey(h, n) == [kind |-> "standing", of |-> h, n |-> n]
OneShotKey(r, n) == [kind |-> "one-shot", of |-> r, n |-> n]

Ports == {Conventional} \cup Ephemeral
At(host, port) == [host |-> host, port |-> port]
NoServer == [kind |-> None, key |-> NoKey, clients |-> {}]
Standing(h, n) == [kind |-> "standing", key |-> StandingKey(h, n), clients |-> {}]
OneShot(r, n) == [kind |-> "one-shot", key |-> OneShotKey(r, n), clients |-> {}]

NewRun == [pc |-> "new", args |-> None, key |-> None, known |-> NoPins, dirty |-> FALSE,
           fresh |-> FALSE, pin |-> NoKey, mismatch |-> FALSE,
           boot |-> [port |-> None, key |-> NoKey], server |-> NoKey]

\* The process is no more, and neither are its locals.
Ended == [NewRun EXCEPT !.pc = "over"]
Over(r) == run[r].pc = "over"

\* The label a run's direct attempt goes to: the host that sshconfig resolves the
\* target to, and --port.
LabelOf(a) == At(a.host, a.port)

ConnectInit ==
    /\ run = [r \in Runs |-> NewRun]
    /\ known_hosts \in InitialHosts
    /\ id \in InitialIds
    /\ id_pub = NoFile
    /\ tmp = [n \in {"known_hosts", "id"} \X Runs |-> NoFile]
    /\ server = [l \in LabelSet |-> NoServer]
    /\ installed \in [Hosts -> InitialInstalls]
    /\ rekeys = [h \in Hosts |-> 0]
    /\ first_uses = {}

\* r goes on at pc, or ends there.
Goto(r, pc) == run' = [run EXCEPT ![r] = IF pc = "over" THEN Ended ELSE [@ EXCEPT !.pc = pc]]

files == <<known_hosts, id, id_pub, tmp>>
remote == <<server, installed, rekeys>>

-----------------------------------------------------------------------------
\* Arguments and keys.

\* parse_args, and what run() does first.
Start(r, a) ==
    /\ run[r].pc = "new"
    /\ run' = [run EXCEPT ![r] =
                   CASE a.kind = "usage" -> Ended
                     [] a.kind = "forget" -> [@ EXCEPT !.args = a, !.pc = "forget"]
                     [] OTHER -> [@ EXCEPT !.args = a, !.pc = "key"]]
    /\ UNCHANGED <<files, remote, first_uses>>

\* --forget-host: the table without the host; nothing to save if it was not pinned.
Forget(r) ==
    /\ run[r].pc = "forget"
    /\ LET known == Parse(known_hosts)
           left == RemoveMatching(known, run[r].args.host)
       IN  run' = [run EXCEPT ![r] = IF left = known THEN Ended
                                     ELSE [@ EXCEPT !.known = left, !.fresh = TRUE, !.pc = "save"]]
    /\ UNCHANGED <<files, remote, first_uses>>

\* load_or_generate_keypair: is there a key file?
FindKey(r) ==
    /\ run[r].pc = "key"
    /\ Goto(r, IF id.exists THEN "read_key" ELSE "generate")
    /\ UNCHANGED <<files, remote, first_uses>>

\* It is read: a file without a private key ends the run, one of an old version is
\* rewritten.
ReadKey(r) ==
    /\ run[r].pc = "read_key"
    /\ IF id.lines = <<>>
       THEN Goto(r, "over")
       ELSE run' = [run EXCEPT ![r].key = id.lines[1].key,
                               ![r].pc = IF id.lines[1].legacy THEN "migrate" ELSE "public_key"]
    /\ UNCHANGED <<files, remote, first_uses>>

\* write_private creates the file, which must not be there yet, and then writes it.
\* Mutant: it may be there.
CreateKeyOver(r) ==
    /\ run[r].pc = "generate"
    /\ id' = File(<<>>) /\ Goto(r, "write_key")
    /\ UNCHANGED <<known_hosts, id_pub, tmp, remote, first_uses>>

CreateKey(r) ==
    /\ run[r].pc = "generate"
    /\ IF id.exists THEN UNCHANGED id /\ Goto(r, "over") ELSE id' = File(<<>>) /\ Goto(r, "write_key")
    /\ UNCHANGED <<known_hosts, id_pub, tmp, remote, first_uses>>

WriteKey(r) ==
    /\ run[r].pc = "write_key"
    /\ id' = KeyFile(r)
    /\ run' = [run EXCEPT ![r].key = r, ![r].pc = "public_key"]
    /\ UNCHANGED <<known_hosts, id_pub, tmp, remote, first_uses>>

\* The name of a temporary file carries the process id.
\* Mutant: it does not.
TmpNameShared(file, r) == <<file, CHOOSE q \in Runs : TRUE>>

TmpName(file, r) == <<file, r>>

\* rewrite_private: a temporary file, renamed over the old one.  A failure is ignored.
Migrate(r) ==
    /\ run[r].pc = "migrate"
    /\ \/ /\ tmp' = [tmp EXCEPT ![TmpName("id", r)] = KeyFile(run[r].key)]
          /\ Goto(r, "migrated")
       \/ tmp' = [tmp EXCEPT ![TmpName("id", r)] = NoFile] /\ Goto(r, "public_key")
    /\ UNCHANGED <<known_hosts, id, id_pub, remote, first_uses>>

RenameKey(r) ==
    /\ run[r].pc = "migrated"
    /\ id' = IF tmp[TmpName("id", r)].exists THEN tmp[TmpName("id", r)] ELSE id
    /\ tmp' = [tmp EXCEPT ![TmpName("id", r)] = NoFile]
    /\ Goto(r, "public_key")
    /\ UNCHANGED <<known_hosts, id_pub, remote, first_uses>>

\* ensure_public_key_file; --copy-id then hands the key to the host's
\* authorized_keys over SSH and ends the run.
PublicKey(r) ==
    /\ run[r].pc = "public_key"
    /\ id_pub' = IF id_pub.exists THEN id_pub ELSE KeyFile(run[r].key)
    /\ Goto(r, IF run[r].args.kind = "copy-id" THEN "over" ELSE "load")
    /\ UNCHANGED <<known_hosts, id, tmp, remote, first_uses>>

-----------------------------------------------------------------------------
\* The direct attempt.

\* Whether there is one: --direct, or a pin and no --ssh.
TryDirect(a, known) == a.direct \/ (~a.ssh /\ Pinned(known, LabelOf(a)))

\* load_known_hosts.
Load(r) ==
    /\ run[r].pc = "load"
    /\ LET known == Parse(known_hosts)
           l == LabelOf(run[r].args)
       IN  run' = [run EXCEPT ![r].known = known, ![r].fresh = TRUE,
                              ![r].pin = IF Pinned(known, l) THEN known[l] ELSE NoKey,
                              ![r].pc = IF TryDirect(run[r].args, known) THEN "direct" ELSE "boot"]
    /\ UNCHANGED <<files, remote, first_uses>>

\* r has a session with the server of label l.
Joined(r, l) == [server EXCEPT ![l].clients = @ \cup {r}]

\* handle_handshake: verify_server on the key shown by what holds the port.  A
\* mismatch is an error, and run() returns it; that there was one is history.
\* Mutant: it falls back to SSH as a timeout does.
MismatchedFallsBack(r) ==
    run' = [run EXCEPT ![r] = IF @.args.direct THEN Ended ELSE [@ EXCEPT !.mismatch = TRUE, !.pc = "boot"]]

Mismatched(r) == run' = [run EXCEPT ![r] = [Ended EXCEPT !.mismatch = TRUE]]

\* A direct session with a user at a terminal first learns the server's version.
AfterDirect(r) ==
    IF run[r].args.shell /\ run[r].args.install /\ run[r].args.tty THEN "upgrade" ELSE "session"

DirectReply(r) ==
    /\ run[r].pc = "direct"
    /\ LET l == LabelOf(run[r].args)
           key == server[l].key
           verdict == Tofu(run[r].known, l, key)
       IN  /\ server[l] # NoServer
           /\ IF verdict = "Mismatch"
              THEN Mismatched(r) /\ UNCHANGED <<server, first_uses>>
              ELSE /\ run' = [run EXCEPT ![r].known = CheckOrAdd(@, l, key),
                                         ![r].dirty = (verdict = "New"),
                                         ![r].server = key,
                                         ![r].pc = IF verdict = "New" THEN "save" ELSE AfterDirect(r)]
                   /\ server' = Joined(r, l)
                   /\ first_uses' = first_uses \cup {x \in {Line(l, key)} : verdict = "New"}
    /\ UNCHANGED <<files, installed, rekeys>>

\* Nothing answers in DIRECT_CONNECT_TIMEOUT, or the host does not resolve.
DirectTimeout(r) ==
    /\ run[r].pc = "direct"
    /\ Goto(r, IF run[r].args.direct THEN "over" ELSE "boot")
    /\ UNCHANGED <<files, remote, first_uses>>

-----------------------------------------------------------------------------
\* The bootstrap.

\* run_one_shot: the port asked for, or one the system picks when it is taken.
Bindable(h, port) ==
    IF server[At(h, port)] = NoServer THEN {port} ELSE {p \in Ephemeral : server[At(h, p)] = NoServer}

\* What attempt() makes of the one-shot that was started on port p: the connect line.
Launch(r, n, p) ==
    server' = [server EXCEPT ![At(run[r].args.host, p)] = OneShot(r, n)]

\* Nothing is installed over a --server-cmd.
MayInstall(a) == a.install /\ a.default_cmd

\* After a connect line: ask about an upgrade first if the server is older, a prompt is
\* possible, and it was not installed just now.
AfterConnected(r, version, offer) ==
    IF offer /\ version = "old" /\ MayInstall(run[r].args) /\ run[r].args.tty THEN "prompt" ELSE "boot_connect"

\* attempt number n of bootstrap(), with a noisshd of the given version, or none.  ssh
\* may fail before the server starts or after, and what attempt() cannot
\* even try, or resolve, ends the run.
Attempt(r, n, version, missing, failed) ==
    \/ /\ version = None
       /\ Goto(r, missing) /\ UNCHANGED server
    \/ /\ version # None
       /\ \E p \in Bindable(run[r].args.host, run[r].args.server_port) :
            /\ Launch(r, n, p)
            /\ \/ run' = [run EXCEPT ![r].boot = [port |-> p, key |-> OneShotKey(r, n)],
                                     ![r].pc = AfterConnected(r, version, n < 3)]
               \/ Goto(r, failed) \/ Goto(r, "over")
    \/ (Goto(r, failed) \/ Goto(r, "over")) /\ UNCHANGED server

\* The command as given: noisshd on PATH, or whatever --server-cmd names.  If it is
\* missing, and may be installed, the place the installer uses comes next.
Given(a) == IF a.default_cmd THEN {installed[a.host].path} ELSE {None, "old", "new"}

BootstrapFirst(r) ==
    /\ run[r].pc = "boot"
    /\ \E version \in Given(run[r].args) :
         Attempt(r, 1, version, IF MayInstall(run[r].args) THEN "boot_installed" ELSE "over", "over")
    /\ UNCHANGED <<files, installed, rekeys, first_uses>>

BootstrapInstalled(r) ==
    /\ run[r].pc = "boot_installed"
    /\ Attempt(r, 2, installed[run[r].args.host].local, "install", "install")
    /\ UNCHANGED <<files, installed, rekeys, first_uses>>

BootstrapAgain(r) ==
    /\ run[r].pc = "boot_again"
    /\ Attempt(r, 3, installed[run[r].args.host].local, "over", "over")
    /\ UNCHANGED <<files, installed, rekeys, first_uses>>

\* install_remote puts this version in ~/.local/bin, or fails.
InstallRemote(r, done, failed) ==
    \/ installed' = [installed EXCEPT ![run[r].args.host].local = "new"] /\ Goto(r, done)
    \/ UNCHANGED installed /\ Goto(r, failed)

Install(r) ==
    /\ run[r].pc = "install"
    /\ InstallRemote(r, "boot_again", "over")
    /\ UNCHANGED <<files, server, rekeys, first_uses>>

\* maybe_offer_upgrade: whatever the answer, and whatever becomes of the install, the
\* server already started is used.
AnswerUpgrade(r) ==
    /\ run[r].pc = "prompt"
    /\ \/ Goto(r, "late_connect") /\ UNCHANGED installed
       \/ InstallRemote(r, "late_connect", "late_connect")
    /\ UNCHANGED <<files, server, rekeys, first_uses>>

\* connect_with again: the key that came over SSH is pinned in a table that is not
\* saved.
BootKnown(r, l) == CheckOrAdd(NoPins, l, run[r].boot.key)

BootReply(r) ==
    /\ run[r].pc \in {"boot_connect", "late_connect"}
    /\ LET l == At(run[r].args.host, run[r].boot.port)
           verdict == Tofu(BootKnown(r, l), l, server[l].key)
       IN  /\ server[l] # NoServer
           /\ IF verdict = "Mismatch"
              THEN Mismatched(r) /\ UNCHANGED server
              ELSE /\ run' = [run EXCEPT ![r].server = server[l].key, ![r].pc = "session"]
                   /\ server' = Joined(r, l)
    /\ UNCHANGED <<files, installed, rekeys, first_uses>>

\* Nothing answers in BOOTSTRAP_CONNECT_TIMEOUT.
BootTimeout(r) ==
    /\ run[r].pc \in {"boot_connect", "late_connect"}
    /\ Goto(r, "over")
    /\ UNCHANGED <<files, remote, first_uses>>

-----------------------------------------------------------------------------
\* save_known_hosts: create, write and rename.
SaveCreate(r) ==
    /\ run[r].pc = "save"
    /\ tmp' = [tmp EXCEPT ![TmpName("known_hosts", r)] = File(<<>>)]
    /\ Goto(r, "write")
    /\ UNCHANGED <<known_hosts, id, id_pub, remote, first_uses>>

SaveWrite(r) ==
    /\ run[r].pc = "write"
    /\ tmp' = [tmp EXCEPT ![TmpName("known_hosts", r)] = File(ToText(run[r].known))]
    /\ Goto(r, "rename")
    /\ UNCHANGED <<known_hosts, id, id_pub, remote, first_uses>>

SaveRename(r) ==
    /\ run[r].pc = "rename"
    /\ LET written == tmp[TmpName("known_hosts", r)]
       IN  /\ known_hosts' = IF written.exists THEN written.lines ELSE known_hosts
           /\ run' = [q \in Runs |->
                        IF q # r THEN [run[q] EXCEPT !.fresh = FALSE]
                        ELSE IF run[r].args.kind = "forget" \/ ~written.exists THEN Ended
                        ELSE [run[r] EXCEPT !.pc = AfterDirect(r)]]
    /\ tmp' = [tmp EXCEPT ![TmpName("known_hosts", r)] = NoFile]
    /\ UNCHANGED <<id, id_pub, remote, first_uses>>

\* wait_for_server_version and maybe_offer_direct_upgrade: the server is not older or
\* does not say, or the user declines, or this version is installed beside it.
UpgradeStanding(r) ==
    /\ run[r].pc = "upgrade"
    /\ \/ Goto(r, "session") /\ UNCHANGED installed
       \/ InstallRemote(r, "session", "session")
    /\ UNCHANGED <<files, server, rekeys, first_uses>>

\* The session ends; the server forgets it (module Lifecycle).
SessionEnds(r) ==
    /\ run[r].pc = "session"
    /\ Goto(r, "over")
    /\ UNCHANGED <<files, remote, first_uses>>

\* The process is killed.
Crash(r) ==
    /\ run[r].pc \notin {"new", "over"}
    /\ Goto(r, "over")
    /\ UNCHANGED <<files, remote, first_uses>>

-----------------------------------------------------------------------------
\* The servers.

\* run_standalone binds the conventional port.
StandingStarts(h) ==
    /\ server[At(h, Conventional)] = NoServer
    /\ server' = [server EXCEPT ![At(h, Conventional)] = Standing(h, rekeys[h])]
    /\ UNCHANGED <<run, files, installed, rekeys, first_uses>>

StandingStops(h) ==
    /\ server[At(h, Conventional)].kind = "standing"
    /\ server' = [server EXCEPT ![At(h, Conventional)] = NoServer]
    /\ UNCHANGED <<run, files, installed, rekeys, first_uses>>

\* The server's key file is replaced while it is down.
Rekey(h) ==
    /\ server[At(h, Conventional)].kind # "standing" /\ rekeys[h] < MaxRekeys
    /\ rekeys' = [rekeys EXCEPT ![h] = @ + 1]
    /\ UNCHANGED <<run, files, server, installed, first_uses>>

\* A one-shot exits when its sessions have ended, or when nobody came in the grace
\* period.  That is longer than the client's connect timeout, but not than a user takes
\* to answer.
\* Mutant: it waits for somebody to come.
OneShotStays(l) ==
    /\ server[l].kind = "one-shot" /\ server[l].clients # {}
    /\ \A r \in server[l].clients : Over(r)
    /\ server' = [server EXCEPT ![l] = NoServer]
    /\ UNCHANGED <<run, files, installed, rekeys, first_uses>>

OneShotExits(l) ==
    /\ server[l].kind = "one-shot"
    /\ \A r \in server[l].clients : Over(r)
    /\ server[l].clients = {} => run[server[l].key.of].pc # "boot_connect"
    /\ server' = [server EXCEPT ![l] = NoServer]
    /\ UNCHANGED <<run, files, installed, rekeys, first_uses>>

-----------------------------------------------------------------------------
\* What r does by itself, and what is up to its user.
RunStep(r) ==
    \/ Forget(r) \/ FindKey(r) \/ ReadKey(r) \/ CreateKey(r) \/ WriteKey(r)
    \/ Migrate(r) \/ RenameKey(r) \/ PublicKey(r) \/ Load(r)
    \/ DirectReply(r) \/ DirectTimeout(r)
    \/ BootstrapFirst(r) \/ BootstrapInstalled(r) \/ Install(r) \/ BootstrapAgain(r)
    \/ BootReply(r) \/ BootTimeout(r)
    \/ SaveCreate(r) \/ SaveWrite(r) \/ SaveRename(r)

UserStep(r) ==
    \/ \E a \in Invocations : Start(r, a)
    \/ AnswerUpgrade(r) \/ UpgradeStanding(r) \/ SessionEnds(r) \/ Crash(r)

ServerStep ==
    \/ \E h \in Hosts : StandingStarts(h) \/ StandingStops(h) \/ Rekey(h)
    \/ \E l \in LabelSet : OneShotExits(l)

ConnectNext == (\E r \in Runs : RunStep(r) \/ UserStep(r)) \/ ServerStep

ConnectSpec == ConnectInit /\ [][ConnectNext]_connectVars

\* A process goes on while its user leaves it alone, and a one-shot server polls its
\* clock.  One condition does for all of them: none can go on for ever.
ConnectFairness == WF_connectVars((\E r \in Runs : RunStep(r)) \/ \E l \in LabelSet : OneShotExits(l))

-----------------------------------------------------------------------------

\* A session is with a server the user has reason to trust: the one pinned for the
\* label when the run read known_hosts, one pinned just now on first use under
\* --direct (noissh.rs:554-559), or the one-shot this run started, whose key came
\* over SSH (noissh.rs:655-661).  A run that met another key than the pinned one has
\* no session, by no way round ("must not silently trigger an SSH bootstrap that would
\* re-pin a key", noissh.rs:623-624).
SessionsTrusted ==
    \A r \in Runs : run[r].server # NoKey =>
         /\ ~run[r].mismatch
         /\ \/ run[r].server = run[r].pin
            \/ run[r].pin = NoKey /\ run[r].args.direct /\ run[r].dirty
            \/ run[r].server = run[r].boot.key /\ ~run[r].dirty

\* Sessions are with trusted servers, and only what was met on first use is ever pinned.
TrustedServer ==
    /\ SessionsTrusted
    /\ \A i \in DOMAIN known_hosts :
         \/ known_hosts[i] \in first_uses
         \/ \E f \in InitialHosts : \E j \in DOMAIN f : known_hosts[i] = f[j]

\* "A crash mid-write can therefore never truncate or corrupt the existing pin file"
\* (config.rs:217-220), nor can another run saving at the same time: a pin is lost or
\* replaced only by --forget-host with a name its label matches, or by a run that read
\* the file before another one saved it.
PinsKept ==
    [][\A l \in DOMAIN Parse(known_hosts) :
          \/ Pinned(Parse(known_hosts'), l) /\ Parse(known_hosts')[l] = Parse(known_hosts)[l]
          \/ \E r \in Runs : /\ run[r].pc = "rename" /\ run'[r].pc # "rename"
                             /\ \/ run[r].args.kind = "forget" /\ Matches(l, run[r].args.host)
                                \/ ~run[r].fresh]_known_hosts

\* There is one identity: however many first runs race to create the key file, and
\* wherever one dies (config.rs:45-95, 159-185), no two of them go on with different
\* keys, and both key files hold that key.
OneIdentity ==
    LET inUse == {run[r].key : r \in Runs} \ {None}
        stored == UNION {{f.lines[i].key : i \in DOMAIN f.lines} : f \in {id, id_pub}}
    IN  \A k, j \in inUse \cup stored : k = j

\* A run gets a session or ends, unless it waits for its user, and a one-shot server
\* whose clients are over, or that nobody came to, exits (noisshd.rs:254-271): whatever
\* fails, or is killed, on the way.
EveryoneEnds ==
    /\ \A r \in Runs : []<>(run[r].pc \in {"new", "session", "prompt", "upgrade", "over"})
    /\ \A l \in LabelSet : []<>(server[l].kind = "one-shot" => \E r \in server[l].clients : ~Over(r))

============================================================================
