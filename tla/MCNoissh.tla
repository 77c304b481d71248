------------------------------ MODULE MCNoissh ------------------------------
(***************************************************************************)
(* The noissh command for TLC: its parts side by side, of which each        *)
(* behaviour runs one.  They meet in constants: the runs of module Connect  *)
(* are invoked with what CommandLine makes of some command lines.           *)
(***************************************************************************)
EXTENDS Connect, CommandLine, Console, Renderer

VARIABLE part

\* Three hosts by their real names, of which one runs servers; the others have pins, and
\* the name of one goes on after the first one's with a colon, as an IPv6 address may.
HostA == <<"a">>
HostB == <<"b">>
HostC == <<"a", ":", "c">>
OneHost == {HostA}
FourLabels ==
    <<[host |-> HostA, port |-> 22], [host |-> HostA, port |-> 51820],
      [host |-> HostC, port |-> 51820], [host |-> HostB, port |-> 51820]>>

\* An alias for the first host, behind a default for all others.
Aliased == <<HostLine(<<Pattern(FALSE, <<"x">>), Pattern(FALSE, <<"y", "*">>)>>), Setting("hostname", HostA)>>

CommandLines ==
    {<<<<"--forget-host">>, HostA>>,
     <<<<"u", "@", "x">>>>,
     <<<<"--direct">>, <<"--no-install">>, <<"-", "n", "p", "n22">>, HostA, <<"w">>>>,
     <<<<"--ssh">>, <<"--port">>, <<"n22">>, <<"--server-cmd">>, <<"w">>, <<"y", "x">>>>,
     <<<<"--copy-id">>, HostA>>,
     <<<<"-", "L">>>>}

\* The user is at a terminal for a shell.
SixInvocations ==
    {[kind |-> i.kind, host |-> i.host, port |-> i.port, server_port |-> i.server_port,
      default_cmd |-> i.default_cmd, direct |-> i.direct, ssh |-> i.ssh, install |-> i.install,
      shell |-> i.shell, tty |-> i.shell] :
        i \in {Invocation(ParseArgs(Scan(line)), Aliased) : line \in CommandLines}}

\* No pins, or one for each host around a line that does not parse.
PinFiles == {<<>>, <<Line(FourLabels[2], StandingKey(HostA, 0)), Malformed,
                     Line(FourLabels[3], StandingKey(HostC, 0)),
                     Line(FourLabels[4], StandingKey(HostB, 0))>>}
\* No key, or one in a file of an old version.
KeyFiles == {NoFile, File(<<[key |-> "old", legacy |-> TRUE]>>)}
Installs == {[path |-> None, local |-> None], [path |-> "old", local |-> None]}

Arguments16 ==
    {<<"--">>, <<"--ssh">>, <<"--port">>, <<"--put">>, <<"--copy-id">>, <<"--other">>, <<"-">>, <<"a">>,
     <<"n22">>, <<"n80", ":", "a">>, <<"-", "N">>, <<"-", "L">>, <<"-", "v", "L", "n80", ":", "a">>,
     <<"-", "D", ":", "n0">>, <<"-", "o", "requesttty">>, <<"-", "F", "h">>}

EightLines ==
    {HostLine(<<Pattern(FALSE, <<"*">>)>>), HostLine(<<Pattern(FALSE, <<"a">>)>>),
     HostLine(<<Pattern(FALSE, <<"a", "?">>), Pattern(TRUE, <<"*", "b">>)>>),
     Setting("hostname", <<"b">>), Setting("hostname", <<"c">>), Setting("user", <<"u">>),
     Setting("port", <<"?">>), Setting("port", <<"n22">>)}
ThreeAliases == {<<"a">>, <<"a", "b">>, <<"a", "c">>}
Chars == {"a", "b", "*", "?"}

\* The last key is typed on a link that has long been up and stays so: two keys at the
\* most go with a link that changes.
Settled(l) == l.up /\ l.since = Horizon

allVars == <<part, connectVars, commandLineVars, sshConfigVars, consoleVars, rendererVars>>

Init ==
    /\ part \in {"connect", "command line", "ssh config", "console", "renderer"}
    /\ ConnectInit /\ CommandLineInit /\ SshConfigInit /\ ConsoleInit /\ RendererInit
    \* a new machine has neither key nor pins, an old one both
    /\ id = NoFile <=> known_hosts = <<>>
    \* what the other parts start with makes no difference
    /\ part # "connect" => id = NoFile /\ \A h \in Hosts : installed[h].path = None
    /\ part # "renderer" => last_size = 1

Next ==
    /\ UNCHANGED part
    /\ \/ /\ part = "connect" /\ ConnectNext
          /\ UNCHANGED <<commandLineVars, sshConfigVars, consoleVars, rendererVars>>
       \/ /\ part = "command line" /\ CommandLineNext
          /\ UNCHANGED <<connectVars, sshConfigVars, consoleVars, rendererVars>>
       \/ /\ part = "ssh config" /\ SshConfigNext
          /\ UNCHANGED <<connectVars, commandLineVars, consoleVars, rendererVars>>
       \/ /\ part = "console" /\ ConsoleNext /\ (Len(typed') = MaxTyped => Settled(link'))
          /\ UNCHANGED <<connectVars, commandLineVars, sshConfigVars, rendererVars>>
       \/ /\ part = "renderer" /\ RendererNext
          /\ UNCHANGED <<connectVars, commandLineVars, sshConfigVars, consoleVars>>

Spec == Init /\ [][Next]_allVars /\ ConnectFairness

=============================================================================
