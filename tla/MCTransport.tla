---------------------------- MODULE MCTransport ----------------------------
(***************************************************************************)
(* The parts of the transport that are checked on their own, one at a time: *)
(* the clock of a stream, its reassembly buffer, the codecs and the SOCKS   *)
(* negotiation.                                                             *)
(***************************************************************************)
EXTENDS StreamTiming, Reassembly, Wire, Socks

VARIABLE part

\* Gaps of every size between segments, and segments that join several others.
EightBytes == <<"a", "b", "c", "d", "e", "f", "g", "h">>

\* Frames with every kind of field, at the edges of the varints and of the integers.
Tagged(tag, fields) == [tag |-> tag, fields |-> fields]
FrameSet ==
    {Tagged("Ack", <<127>>), Tagged("Ping", <<128>>), Tagged("Pong", <<0>>),
     Tagged("Input", <<32767, <<32, 1>>>>), Tagged("StateDiff", <<16384, 0, <<>>>>),
     Tagged("Resize", <<1023, 80>>), Tagged("StreamOpen", <<1, 4, <<255, 0>>>>),
     Tagged("StreamData", <<16383, 300, TRUE, <<1, 2, 3, 4, 5, 6, 7, 8, 9>>>>),
     Tagged("StreamAck", <<1, 2, 1023>>), Tagged("StreamClose", <<1, -512>>),
     Tagged("StreamClose", <<2, 511>>), Tagged("StreamReset", <<0>>),
     Tagged("Control", <<Encode(ControlTags, ControlLayouts, Tagged("Exit", <<-1>>))>>)}
MessageSet ==
    {Tagged("OpenShell", <<80, 1023, <<120>>, TRUE>>), Tagged("Resize", <<0, 128>>),
     Tagged("Exit", <<-512>>), Tagged("Exit", <<511>>), Tagged("RemoteForward", <<1023, <<>>>>),
     Tagged("Bye", <<>>), Tagged("ServerVersion", <<<<48, 46>>>>)}
RequestSet ==
    [op : {"PUT"}, size : {"5"}, path : {<<"a">>, <<" ", "a">>, <<"a", " ", "b">>, <<"PUT ">>}]
      \cup [op : {"GET"}, size : {""}, path : {<<"a">>, <<" ">>, <<"GET ">>}]
ByteSet == {0, 1, 2, 3, 127, 128, 129, 130, 254, 255}

\* Requests of each kind: with data behind them that looks like a request, without, and
\* one byte short; and ones to be refused.
Port80 == <<1, 80>>
Greeting == <<5, 2, 0, 1>>
Connect5(atyp, address) == Greeting \o <<5, 1, 0, atyp>> \o address \o Port80
Connect4(address, rest) == <<4, 1>> \o Port80 \o address \o rest
Behind == <<5, 1, 0, 4>>
Proper(bytes, form, host) ==
    {Script(bytes \o Behind, TargetOf(form, host, Port80), Behind, TRUE),
     Script(bytes, TargetOf(form, host, Port80), <<>>, TRUE),
     Script(SubSeq(bytes, 1, Len(bytes) - 1), NoTarget, <<>>, FALSE)}
Refused == {<<5, 0, 1, 2>>, <<6>>, Greeting \o <<4, 1, 0, 1>>, Greeting \o <<5, 1, 0, 2>>,
            Greeting \o <<5, 2, 0, 1, 1, 2, 3, 4, 0, 80>>, Connect5(3, <<1, InvalidUtf8>>),
            Connect4(<<0, 0, 0, 0>>, <<65, 0>>), <<4, 2>> \o Port80 \o <<1, 2, 3, 4, 0>>,
            Connect4(<<0, 0, 0, 2>>, <<0, InvalidUtf8, 0>>)}
ScriptSet ==
    UNION {Proper(Connect5(1, <<1, 2, 3, 4>>), "dotted", <<1, 2, 3, 4>>),
           Proper(Connect5(3, <<2, 97, 5>>), "name", <<97, 5>>),
           Proper(Connect5(4, <<7, 0>>), "brackets", <<7, 0>>),
           Proper(Connect4(<<9, 0, 0, 1>>, <<65, 0>>), "dotted", <<9, 0, 0, 1>>),
           Proper(Connect4(<<0, 0, 0, 1>>, <<0, 97, 98, 0>>), "name", <<97, 98>>),
           {Script(bytes \o <<0, 0, 1>>, NoTarget, <<>>, TRUE) : bytes \in Refused}}

Init ==
    /\ part \in {"clock", "reassembly", "wire", "socks"}
    /\ TimingInit /\ ReassemblyInit /\ WireInit /\ SocksInit
    \* what the others start with makes no difference
    /\ part # "socks" => script.bytes = <<6, 0, 0, 1>>

Next ==
    /\ UNCHANGED part
    /\ \/ part = "clock" /\ TimingNext /\ UNCHANGED <<reassemblyVars, frames, socksVars>>
       \/ part = "reassembly" /\ ReassemblyNext /\ UNCHANGED <<timingVars, frames, socksVars>>
       \/ part = "wire" /\ WireNext /\ UNCHANGED <<timingVars, reassemblyVars, socksVars>>
       \/ part = "socks" /\ SocksNext /\ UNCHANGED <<timingVars, reassemblyVars, frames>>

Spec == Init /\ [][Next]_<<part, timingVars, reassemblyVars, frames, socksVars>>

============================================================================
