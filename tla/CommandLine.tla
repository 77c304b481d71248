---------------------------- MODULE CommandLine ----------------------------
(***************************************************************************)
(* The command line of noissh: parse_args and what it calls in              *)
(* src/bin/noissh.rs, and what run() decides to do with the result.         *)
(*                                                                         *)
(* An argument is a sequence of symbols: a symbol is a letter of a cluster  *)
(* of short options, a whole long option, or a piece of text no parser      *)
(* looks into (a name, a number).  The value of an option is an argument,   *)
(* or the rest of one.                                                      *)
(***************************************************************************)
EXTENDS SshConfig

CONSTANTS Arguments,    \* the arguments a line may have
          MaxArgs       \* bound: how many

VARIABLES argv,         \* the arguments read so far
          scan          \* the state of the scanner

commandLineVars == <<argv, scan>>

\* The numbers among the symbols.
NumberOf == [n0 |-> 0, n22 |-> 22, n80 |-> 80]
IsNumber(v) == Len(v) = 1 /\ v[1] \in DOMAIN NumberOf

\* Options by what they do.
Valued == {"L", "R", "D", "e", "o", "F", "p"}       \* F and p stand for b B c E F i J l m p
Toggles == [v |-> "verbose", A |-> "forward_agent", N |-> "no_command", n |-> "null_stdin"]
Ignored == {"T"}                                    \* for 4 6 a C g k K q s T t x X Y y
Informs == {"h", "V"}                               \* help and version: print and exit
LongToggles ==
    ("--ssh" :> "ssh") @@ ("--direct" :> "direct") @@ ("--copy-id" :> "copy_id") @@
    ("--no-install" :> "no_install") @@ ("--verbose" :> "verbose") @@
    ("--forward-agent" :> "forward_agent")
LongValued == {"--forget-host", "--port", "--server-port", "--server-cmd", "--put", "--get"}
LongUnknown == {"--other"}                          \* for every other that starts with "--"

\* Options of -o that are not handed to the bootstrap's ssh.
SSH_OPTIONS_NOT_PASSED == {"requesttty"}

\* Args, with an Option as a sequence of at most one element.
NoArgs == [ssh |-> FALSE, direct |-> FALSE, copy_id |-> FALSE, no_install |-> FALSE,
           verbose |-> FALSE, forward_agent |-> FALSE, no_command |-> FALSE, null_stdin |-> FALSE,
           port |-> 51820, server_port |-> <<>>, server_cmd |-> <<"noisshd">>,
           target |-> <<>>, command |-> <<>>, ssh_args |-> <<>>, ssh_config |-> <<>>,
           forget_host |-> <<>>, transfer |-> <<>>,
           local_forwards |-> <<>>, remote_forwards |-> <<>>, dynamic_forwards |-> <<>>]

\* The scanner: the arguments so far, the option that takes the next argument as its
\* value, where all the rest goes, and whether the process has exited.
Scanner == [args |-> NoArgs, pending |-> "", rest |-> "", exit |-> ""]

Set(s, field, v) == [s EXCEPT !.args = [@ EXCEPT ![field] = v]]
Push(s, field, vs) == [s EXCEPT !.args = [@ EXCEPT ![field] = @ \o vs]]
UsageExit(s) == [s EXCEPT !.exit = "usage"]

-----------------------------------------------------------------------------
\* Values.

\* Where v is split at its first, or last, colon; 0 if it has none.
FirstColon(v) == SelectInSeq(v, LAMBDA c : c = ":")
LastColon(v) == SelectLastInSeq(v, LAMBDA c : c = ":")
Before(v, i) == SubSeq(v, 1, i - 1)
After(v, i) == SubSeq(v, i + 1, Len(v))

\* parse_forward: PORT ":" and a target.
ParseForward(s, field, v) ==
    LET i == FirstColon(v)
    IN  IF i # 0 /\ IsNumber(Before(v, i)) /\ After(v, i) # <<>>
        THEN Push(s, field, <<[port |-> NumberOf[v[1]], target |-> After(v, i)]>>)
        ELSE UsageExit(s)

\* parse_dynamic: a port, after an address to bind or loopback.
ParseDynamic(s, v) ==
    LET i == LastColon(v)
        bind == IF i > 1 THEN Before(v, i) ELSE <<"127.0.0.1">>
    IN  IF IsNumber(After(v, i))
        THEN Push(s, "dynamic_forwards", <<[bind |-> bind, port |-> NumberOf[v[Len(v)]]]>>)
        ELSE UsageExit(s)

\* port_value: not zero.
PortValue(s, field, v) ==
    IF IsNumber(v) /\ NumberOf[v[1]] > 0
    THEN Set(s, field, IF field = "port" THEN NumberOf[v[1]] ELSE <<NumberOf[v[1]]>>)
    ELSE UsageExit(s)

\* --put LOCAL:REMOTE and --get REMOTE:LOCAL.
Transfer(s, c, v) ==
    LET i == FirstColon(v)
        remote == IF c = "--put" THEN After(v, i) ELSE Before(v, i)
        local == IF c = "--put" THEN Before(v, i) ELSE After(v, i)
    IN  IF i # 0 /\ local # <<>> /\ remote # <<>>
        THEN Set(s, "transfer", <<[op |-> c, remote |-> remote, local |-> local]>>)
        ELSE UsageExit(s)

\* apply_valued_option, and the long options that take a value.
ApplyValued(s, c, v) ==
    CASE c = "L" -> ParseForward(s, "local_forwards", v)
      [] c = "R" -> ParseForward(s, "remote_forwards", v)
      [] c = "D" -> ParseDynamic(s, v)
      [] c = "e" -> s
      [] c = "o" -> IF v # <<>> /\ v[1] \in SSH_OPTIONS_NOT_PASSED THEN s
                    ELSE Push(s, "ssh_args", <<<<"-", c>>, v>>)
      [] c = "F" -> Push(Set(s, "ssh_config", <<v>>), "ssh_args", <<<<"-", c>>, v>>)
      [] c = "p" -> Push(s, "ssh_args", <<<<"-", c>>, v>>)
      [] c = "--forget-host" -> Set(s, "forget_host", <<v>>)
      [] c = "--port" -> PortValue(s, "port", v)
      [] c = "--server-port" -> PortValue(s, "server_port", v)
      [] c = "--server-cmd" -> Set(s, "server_cmd", v)
      [] c \in {"--put", "--get"} -> Transfer(s, c, v)

-----------------------------------------------------------------------------
\* parse_short_options: letter by letter, up to one that takes a value, which is the
\* rest of the cluster or else the next argument.
Letter(s, c) ==
    CASE c \in DOMAIN Toggles -> Set(s, Toggles[c], TRUE)
      [] c \in Ignored -> s
      [] c \in Informs -> [s EXCEPT !.exit = "informed"]
      [] OTHER -> UsageExit(s)

TakeValue(s, flags, i) ==
    IF i = Len(flags) THEN [s EXCEPT !.pending = flags[i]] ELSE ApplyValued(s, flags[i], After(flags, i))

\* Mutant: the letters of a value are options too.
ReturnsNot(s, flags, i) == [s |-> TakeValue(s, flags, i), returned |-> FALSE]

Returns(s, flags, i) == [s |-> TakeValue(s, flags, i), returned |-> TRUE]

ShortOptions(s, flags) ==
    LET step(acc, i) ==
          IF acc.returned \/ acc.s.exit # "" THEN acc
          ELSE IF flags[i] \in Valued THEN Returns(acc.s, flags, i)
          ELSE [acc EXCEPT !.s = Letter(acc.s, flags[i])]
    IN  FoldLeft(step, [s |-> s, returned |-> FALSE], [i \in DOMAIN flags |-> i]).s

IsCluster(arg) == Len(arg) > 1 /\ arg[1] = "-"

\* One turn of the loop of parse_args, with what next() and extend() take from the rest.
ParseArg(s, arg) ==
    CASE s.exit # "" -> s
      [] s.exit = "" /\ s.pending # "" -> ApplyValued([s EXCEPT !.pending = ""], s.pending, arg)
      [] s.exit = "" /\ s.pending = "" /\ s.rest # "" -> Push(s, s.rest, <<arg>>)
      [] s.exit = "" /\ s.pending = "" /\ s.rest = "" ->
           IF s.args.target # <<>> /\ arg # <<"--">> THEN Push([s EXCEPT !.rest = "command"], "command", <<arg>>)
           ELSE IF arg = <<"--">> THEN [s EXCEPT !.rest = "ssh_args"]
           ELSE IF arg[1] \in {"--help", "--version"} THEN [s EXCEPT !.exit = "informed"]
           ELSE IF arg[1] \in DOMAIN LongToggles THEN Set(s, LongToggles[arg[1]], TRUE)
           ELSE IF arg[1] \in LongValued THEN [s EXCEPT !.pending = arg[1]]
           ELSE IF IsCluster(arg) THEN ShortOptions(s, Tail(arg))
           ELSE IF arg[1] \in {"-"} \cup LongUnknown THEN UsageExit(s)
           ELSE Set(s, "target", <<arg>>)

Scan(args) == FoldLeft(ParseArg, Scanner, args)

\* The end of the line: an option without its value is a usage error.
ParseArgs(s) == IF s.exit = "" /\ s.pending # "" THEN UsageExit(s) ELSE s

CommandLineInit == argv = <<>> /\ scan = Scanner

NextArg(arg) == Len(argv) < MaxArgs /\ argv' = Append(argv, arg) /\ scan' = ParseArg(scan, arg)

CommandLineNext == \E arg \in Arguments : NextArg(arg)

-----------------------------------------------------------------------------
\* What run() makes of the arguments.
HasForwards(a) == a.local_forwards # <<>> \/ a.remote_forwards # <<>> \/ a.dynamic_forwards # <<>>
Command(a) == IF a.no_command THEN <<>> ELSE a.command
ForwardOnly(a) == a.no_command \/ (HasForwards(a) /\ Command(a) = <<>>)

\* Whether the server is asked for a shell, and what the client does with the session.
WantShell(a) == ~ForwardOnly(a) /\ ~HasForwards(a) /\ a.transfer = <<>> /\ Command(a) = <<>>

Dispatch(a) ==
    IF Command(a) # <<>> THEN "exec"
    ELSE IF a.transfer # <<>> THEN "transfer"
    ELSE IF ForwardOnly(a) THEN "forwards"
    ELSE "shell"

\* host_of: what follows the last at sign; then the HostName of the configuration.
HostOf(target, lines) ==
    LET alias == After(target, SelectLastInSeq(target, LAMBDA c : c = "@"))
        hostname == Resolve(lines, alias).hostname
    IN  IF hostname # <<>> THEN hostname ELSE alias

\* A name as labels have it: a port in it is a number.
Numbers(v) == [i \in DOMAIN v |-> IF v[i] \in DOMAIN NumberOf THEN NumberOf[v[i]] ELSE v[i]]

\* What the rest of run() depends on (module Connect), in the order it looks.
Invocation(s, lines) ==
    [kind |-> IF s.exit # "" THEN "usage"
              ELSE IF s.args.forget_host # <<>> THEN "forget"
              ELSE IF s.args.target = <<>> THEN "usage"
              ELSE IF s.args.copy_id THEN "copy-id" ELSE "connect",
     host |-> IF s.args.forget_host # <<>> THEN Numbers(s.args.forget_host[1])
              ELSE IF s.args.target # <<>> THEN HostOf(s.args.target[1], lines) ELSE <<>>,
     port |-> s.args.port,
     server_port |-> IF s.args.server_port # <<>> THEN s.args.server_port[1] ELSE s.args.port,
     default_cmd |-> s.args.server_cmd = NoArgs.server_cmd,
     direct |-> s.args.direct, ssh |-> s.args.ssh, install |-> ~s.args.no_install,
     shell |-> WantShell(s.args)]

-----------------------------------------------------------------------------
\* A cluster, spelt as one argument for each option and each value.
Separate(arg) ==
    LET flags == Tail(arg)
        valued == {i \in DOMAIN flags : flags[i] \in Valued}
        end == IF valued = {} THEN Len(flags) ELSE CHOOSE i \in valued : \A j \in valued : i <= j
    IN  [i \in 1..end |-> <<"-", flags[i]>>]
        \o IF end = Len(flags) THEN <<>> ELSE <<After(flags, end)>>

ExpectsOption(s) == s.pending = "" /\ s.rest = "" /\ s.args.target = <<>>

\* "accepting ssh's own flags so noissh can stand in for ssh" (noissh.rs:332-334): as
\* with getopt, options mean the same in a cluster and apart, and a value the same in
\* its own argument and attached, wherever in the line an option is expected.  And the
\* server is asked for a shell exactly when the client goes on to show one, whatever
\* the options are combined with (noissh.rs:491-506 against 728-753).
CommandLineExact ==
    /\ \A i \in DOMAIN argv :
         IsCluster(argv[i]) /\ ExpectsOption(Scan(Before(argv, i)))
         => ParseArgs(Scan(Before(argv, i) \o Separate(argv[i]) \o After(argv, i))) = ParseArgs(scan)
    /\ LET a == ParseArgs(scan).args IN WantShell(a) <=> Dispatch(a) = "shell"

\* Both what the arguments and what ~/.ssh/config say of an invocation is read exactly.
InvocationExact == CommandLineExact /\ SshConfigExact

=============================================================================
