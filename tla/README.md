# noissh in TLA+

A verification development kept beside noissh, a resilient remote shell over Noise and UDP.
It models what is hard to test in it: lost, repeated and reordered datagrams, clients that
roam, die and come back, half-closed streams, retransmission, commands and transfers that
fail half-way, typing ahead of the server's screen, runs that share a configuration directory
and are killed anywhere. TLC checks every module on small instances; TLAPS proves the central
safety properties, and three refinements, for every value of the constants.

`PROJECT.json` lists the components, the runs, the mutants (a plausible bug for every checked
property that breaks it), the source lines every definition stands for, the hazards and the
theorems. Source paths there and here are those of the repository.

```
tlc -workers 2 -config MCSession.cfg MCSession      # a run
tlapm TransportProofs.tla                           # proofs
```

## 1. The system

A client (`src/client.rs`) and a server (`src/server.rs`) share one UDP session. Each is a
single-threaded loop: receive packets, handle them, tick, send. Nothing in the code runs in
parallel inside a process; concurrency is between the two processes, the network, the
shell or command on a PTY or on pipes, the applications behind forwarded sockets, and other
runs of noissh on the same machine. So an action is one turn of a handler or of a tick, and
the interleaving is that of the processes.

| part | state | operations | interacts with |
|---|---|---|---|
| replay filter `transport/src/replay.rs` | highest nonce, 64-bit bitmap | `check_and_set` | session |
| session `transport/src/lib.rs` | send nonce, filter, peer address | `seal`, `seal_many`, `open` | everything; roaming |
| wire format `wire`, `proto/src/control.rs`, `proto/src/xfer.rs` | — | varints, frames, control messages, transfer requests | session |
| input channel `transport/src/input.rs`, `proto/src/shell.rs` | unacknowledged suffix, its base; bytes received | `push`, `pending`, `on_ack`; `ingest` | PTY |
| screen sync `proto/src/shell.rs`, `term/src/diff.rs` | numbered screens, acknowledged number, `force_full`; client grid and number | `poll_diff`, `on_state_ack`, `rebind_to_new_client`; `apply_state_diff` | emulator, predictor, reattach |
| emulator `term/src/grid.rs` | cells, cursor, region, alternate screen, pending wrap | the `Perform` handlers, `resize` | screen sync |
| predictor `predict/src/lib.rs` | base screen, predictions, cursor, flags | `predict_input`, `reconcile`, `overlay` | input, screen sync |
| stream multiplexer `transport/src/stream.rs` | per stream: send offsets, windows, timer, reassembly buffer, half states | `open`, `write`, `read`, `close`, `reset`, `on_frame`, `poll_transmit` | forwarding, exec, transfer |
| lifecycle `server.rs`, `client.rs`, `proto/src/handshake.rs`, `pty` | pending handshakes, sessions, their shells; the client's state | handshake, OpenShell, reattach, Bye, Exit, reap | all of the above |
| forwarding `src/forward.rs`, `src/socks.rs`, both pumps | socket buffers, half-close flags, stall counter; a SOCKS request | accept, connect, `negotiate`, `read_tcp`, `flush`, pump | streams |
| the server's driver `src/server.rs` | remote listeners, agent sockets, connections, transfers, commands of all sessions | `poll_once`, `pump_forwards` | lifecycle, forwarding, exec, transfer |
| exec `src/exec.rs` and both loops | child, pipes, stdin buffer; exit code, stream ids | spawn, pump, `run_exec_with` | streams |
| file transfer `src/xfer.rs` and both loops | temporary file, offsets | create, write, finalize, drop; `run_transfer` | streams, disk |
| connecting `src/bin/noissh.rs`, `src/config.rs`, `src/ssh.rs`, `src/bin/noisshd.rs` | a run's locals; `known_hosts`, `id`, `id.pub`; the servers that hold ports | keys, direct attempt, bootstrap, install, upgrade, save | other runs, SSH, servers |
| command line `src/bin/noissh.rs`, `src/sshconfig.rs` | the scanner; the resolver | `parse_args`, `resolve` | connecting |
| interactive loop `src/bin/noissh.rs`, `src/status.rs`, `src/tty.rs` | detach key, keepalive and poll times, banner; last frame painted | a turn of `interactive_loop`, `Renderer::paint` | user, terminal |

## 2. Modules

Each component is a module with its state, one action per operation, and its properties;
pure operators it is built from are in a module of their own; `MC…` modules give the
constants their values for TLC; `…Proofs` modules hold the theorems, some of them those of
several components.

| modules | models | checked by | proved in |
|---|---|---|---|
| `Replay` (operators), `Session` | replay filter, seal/open, roaming | `session` | `TransportProofs` |
| `InputChannel`; `InputStream` (abstract) | keystrokes to the PTY | `input`, `input_pty_full` | `DeliveryProofs` |
| `ScreenDiff` (operators), `StateSync` | screens to the client, acks, reattach | `screen` | `ScreenProofs` |
| `Stream` (operators), `StreamMux`; `BytePipe` (abstract) | one stream end to end | `stream` | `StreamMuxProofs` |
| `StreamTiming` | RTT estimate, RTO, retransmit timer | `transport_parts` | `TransportProofs` |
| `Reassembly` (refines the view `Stream` takes) | the reassembly buffer with its bytes | `transport_parts` | `TransportProofs` |
| `Wire` | codecs, packing of frames into datagrams | `transport_parts` | — |
| `Socks` | the SOCKS negotiation | `transport_parts` | — |
| `Lifecycle` | handshake, sessions, shells, reaping | `lifecycle` | `ServerProofs` |
| `Forward` | forwarded connections | `forward` | `ForwardProofs` |
| `Listeners` | the server's driver | `forward` | `ForwardProofs` |
| `Exec` | remote commands | `exec` | `ClientProofs` |
| `Transfer` | uploads and downloads | `transfer` | `DeliveryProofs` |
| `Grid` (operators), `Emulator`, `Predictor` (composes them) | terminal and predictive echo | `terminal` | `ServerProofs` (`Emulator`) |
| `KnownHosts` (operators), `Connect` | runs of noissh, their files and servers | `noissh` | `ConnectProofs` |
| `SshConfig`, `CommandLine` | `~/.ssh/config`, the command line | `noissh` | — |
| `Console`, `Renderer` | the interactive loop | `noissh` | `ClientProofs` (`Console`), `ScreenProofs` (`Renderer`) |

`MCTransport`, `MCForward` and `MCNoissh` put several modules that share no variables into
one run: a variable `part`, chosen initially, says which of them a behaviour is about, and
the others stand still.

The modules build on each other by what they promise rather than by one product state.
`Session` shows that a sealed packet's frames are handed up at most once; so above it a
frame in flight arrives at most once per time it is sent. `StreamMux` implements `BytePipe`;
`Forward`, `Exec` and `Transfer` take a stream as counted bytes that arrive in order, a
StreamClose that may overtake them, and StreamOpen and StreamReset frames that are sent
once; in `Exec` and `Transfer` an early ack may end the resending of a FIN and a StreamClose.
`Reassembly` shows, as a refinement, that the set of offsets `Stream` uses for a
receive buffer is what the segments amount to. `Predictor` extends `Emulator`, and takes
from `InputChannel` that keys arrive in order and from `StateSync` that screens arrive
newest-wins. `Socks` ends where `Forward` starts: the bytes behind a request are the
`leftover` of `ForwardInit`. `Listeners` takes from `Lifecycle` how sessions come and go.
The runs of `Connect` are invoked with what `CommandLine` and `SshConfig` make of some
command lines (`SixInvocations` of `MCNoissh`).

## 3. How the modules correspond to the code

**Session.** `send_nonce`, `filter`, `peer_addr` are the fields of the code's `Session`, per
end. `wire` is the set of all datagrams ever sealed; any of them may arrive, any number of
times, in any order, or never, so loss, duplication and reordering need no actions of their
own. `OpenForged` and `OpenForeign` are packets that do not authenticate or name another
session. The filter is a record of its two fields; its bitmap is the set of one bits, and its
width is the constant `WINDOW` (64 in the code). `handed`, `roams` and `roam_nonce` are
history.

**InputChannel.** `buffer` and `base` are the `InputSender`, `received` the `InputReceiver`.
`PollFrames` sends the whole unacknowledged suffix, as `pending` does, if it fits a datagram.
`Ingest` is the whole server arm: `ingest`, the PTY write, the ack. The PTY queue has room
for `PtyCapacity` bytes and takes what fits; what `write` returns is ignored, as in the code.
`InputStream` is the promise: bytes are typed, and delivered in order (`Safety`), all of them in
the end (`Handover`). The second is promised of behaviours in which the suffix fits a datagram
again and again (`Fits`).

**StateSync.** A screen is its dimensions and cells; a diff is `TAG_FULL` with all cells or
`TAG_DELTA` with the changed ones, and `ApplyDiff` applies it the way `apply_diff` does,
refusing a delta of other dimensions. `PollDiff` numbers the screen if it changed and sends
unless it is acknowledged; `force_full` is cleared by the send. `RebindToNewClient` is a
reattach: the server's history starts again, its numbers go on, the client is new. `snap` is
history: the screen each number stood for.

**Stream, StreamMux.** A `StreamState` is a record with the code's fields. A byte never
changes once written, so data is modelled by offsets. `Frames` and `Transmitted` are what a
poll sends and leaves behind; `OnData`, `OnAck` and the arms of `OnFrame` are the receiving
half. Whether an armed timer is due is left to the caller. The congestion window is modelled
as the code computes it. A variable `use`, chosen initially, says who writes how much, who
closes, who resets and how many frames may be in flight, so that one run covers four uses.
`BytePipe` is the promise: per direction, bytes are written and read in order, and the reader
meets the end after the writer closed and everything before it was read. It may be cut short
instead, by a reset at either end, or by the grace period once both ends have closed: the code
reports a stream that left the map as finished (`None => true`, `stream.rs:525`), whatever was
missing. `ToldOfEnd` says which of the two an end is told of.

**StreamTiming.** The same sender with the tick counter, `srtt`, `rttvar`, `rto`, backoff,
the probe and the timer, with the code's integer arithmetic. `copies` and `last_sent` are
history: how often and when each byte left.

**Reassembly.** `segs` maps the first offset of a segment to its bytes. `InsertSegment` trims
what has been delivered, finds the segments that touch, and merges them into a zero-filled
buffer in the code's order.

**Wire.** Bytes are bytes. The layout of every frame and control message is the sequence of
its fields' kinds; `Encode` and `Decode` are one codec for all of them, with varints, zigzag
and length checks as in the code. Integers are narrower (15 bits for 64, 10 for 16 and 32), in
the same relation to the 7-bit groups of a varint, so that both the cut at the widest byte and
the cut of a narrow field happen. `SealMany` packs frames greedily, as the code does.

**Socks.** An application sends a script of bytes at its own pace; each call of `negotiate`
finds some piece of it. The parser works on the record of the fields of `SocksConn`.

**Lifecycle.** A client is a run of noissh with a random session id and a static key that
other runs may share. `pending` and `sessions` are the server's maps, `ptys` the shells ever
spawned. `HandleHandshake`, `HandleTransport` and `Tick` are the server's handlers, the
first with its early returns (a full table, an unreadable message, an unauthorized key) and
the reattach to a running shell of the same key; `Tick` handles all sessions in one step,
sends exit notices, counts idle ticks and reaps. Handshake packets may arrive again and
again.

**Forward.** `conn[e]` is the `ForwardConn` with its output buffer and flags, `app[e]` what is
behind its socket, `stream[e]` a direction of the stream. `Pump` is one round of the driver:
events, flush and drain into the buffer as far as the cap allows (`PumpLive`), read the socket
as far as `SEND_CAP` allows, FIN, reclaim (`ReadAndReclaim`). An application reads or never
does, which is chosen initially.

**Listeners.** The driver's maps, by session and kind of stream. `pc` is the place in
`poll_once`: one datagram, then the pumps, then the tick. A session may be reaped or replaced
in `ServerCore` between two pumps; the driver learns of it when it asks. All `-R` requests
want one port, and other processes want it too. A connection may finish because its socket
failed; the driver removes it and neither closes nor resets its stream, which is then in
`abandoned` (history).

**Exec.** `client` holds the locals of `run_exec_with`, `proc` the server's `ExecState`, `child`
the command and what it leaves running with its pipes. `ServerPump` and `ClientRound` are one
round each, in the code's order. `FinAcked` is an ack of all the data, after which neither FIN
nor StreamClose is sent again; `retired` is a client whose half of the stream was done before
the StreamClose came, and `ServerWaits` counts the grace period at the server.

**Transfer.** `disk` has a destination and a temporary name, which are inodes, so that a file
that is open while another is renamed over it stays what it was. Every open, read, write and
rename may fail; a session may vanish at any time; a StreamReset may be lost, and `FinAcked`
may end the resending of an end that has not come.

**Grid, Emulator, Predictor.** A grid is a record with the code's fields; a cell is its
character. An index out of range sets `oob` where the code would panic. `Emulator` has one
action per family of escape sequences. `Predictor` types keys, delivers them to a terminal
that echoes or does not while its program prints anything at all, and reconciles with any of
the screens sent, skipping others. `use` bounds the calls and the keys and says which keys
and sizes occur.

**KnownHosts, Connect.** A run is the locals of `run()` with its place in it, `pc`. A step is
what the run does between two accesses to something others can see, so every file operation
(does it exist, create, write, rename) is a step, and a run may be killed between any two.
`server[l]` is what holds a UDP port: a standing `noisshd`, whose key may change while it is
down, or the one-shot a bootstrap started. An invocation has its `--port`, the port the one-shot
is asked to take, and whether `--server-cmd` is the default; what another command finds is
left open. A handshake is one step, in which whoever holds
the port shows its key, or a timeout. ssh and the installer work or fail. `first_uses`,
`fresh` and `mismatch` are history.

**CommandLine, SshConfig.** An argument is a sequence of symbols, so that clusters of short
options and values that start inside one are real; options with the same effect are one.
The scanner and the resolver take one argument, or one line, per step. `GlobMatch` is the
loop of `glob_match`, compared with a recursive definition of what a pattern means.

**Console, Renderer.** Discrete time: a turn of `interactive_loop` starts when `poll` returns,
and `Turn` is all of it in the code's order. The server answers keepalives, and may send by
itself at any time. The terminal behind `Renderer` is external: a
resize leaves anything on it.

## 4. The runs

Bounds are chosen so that the case a property is about happens: the mutants show, for every
property, a plausible bug that the run's own bounds expose.

| run | what it checks | bounds, and why they are enough |
|---|---|---|
| `session` | `OpensOnlyGenuineOnce`: the filter records exactly the genuine packets, and no packet's frames are handed on twice. `RoamingSettles`: the server's address for the client is right once a packet WINDOW - 1 after the move has been opened. `FreshGetsThrough`: nothing new inside the window is refused | window 2 with 4 packets each way: nonces fall inside, at the edge of and behind the window, and jump over it; two moves between two addresses |
| `input` | `ExactStream`: the server's bytes are a prefix of what was typed. `ImplementsStream`: the channel implements `InputStream`, with liveness if the suffix fits a datagram again and again. `BufferDrains` under the same condition | 3 keys of 2 characters: frames that overlap, repeat and extend each other; datagrams of 2, so that the suffix outgrows one; a PTY of 2, so that it fills |
| `input_pty_full` (violated) | `ShellGetsWhatWasTyped`, see section 6 | PTY of 1 |
| `screen` | `ScreensAgree`: the client shows exactly the screen of its number, and the server holds the screen the next delta starts from. `Converges`: without resizes and reattaches the client catches up again and again | 3 changes (outputs, resizes, reattaches in any mix), 2 sizes, 2 cells: deltas that overtake each other, acks of superseded screens, a reattach with diffs in flight |
| `stream` | `ImplementsPipe`: the stream implements `BytePipe` each way, the ways to be cut short included. `BuffersExact`: acknowledged bytes have been received, buffers are bounded. `RoundTripProgresses`: no state is stuck, an ack and two polls offer the next byte the receiver lacks. `NeverReborn` | windows of 2, chunks of 1, grace of 2; four uses: data and FIN overtaking each other, four bytes with two frames in flight (stale acks, window closed and reopened), both closing, resets crossing closes |
| `transport_parts` | `ClockExact`: Karn's rule, and the timer runs exactly while bytes are outstanding. `BytesExact`, `AgreesWithStream`: reassembly yields the bytes sent, and refines the set of offsets `Stream` takes for it. `WireExact`: what is encoded decodes, what is malformed is refused, frames are packed in order into datagrams that fit. `SocksExact`: however its bytes are cut, a request is handed over for its target with everything behind it | clock: 10 ticks, 4 bytes, RTO 1 to 4, so that backoff reaches its limit; reassembly: 8 bytes, window 6, chunks up to 4, every overlap of three segments; codecs: up to 3 of 13 frames, varints of up to 4 of 10 byte values at the edges of the groups, 12 bytes of plaintext; SOCKS: proper, short and refused requests of every version, limit 17 |
| `lifecycle` | `ShellsOwned`: a running shell has one session and stays with its key. `HandshakeNotSpoilt`. `GoneIsReclaimed` | 2 clients with one key or two, 2 handshakers, 2 PTYs, one pending handshake at a time, limits of 1 or 2 ticks: takeovers of live, idle and exiting sessions |
| `forward` | `BothWaysWhole`: a FIN follows everything that was read, a live connection loses nothing. `DataFlows`, `OutputDrainsOrDies`. `DriverExact`: nothing the driver holds outlives its session by more than a pump, no stream is left open but by a socket that failed, and listeners that were asked for are there | connection: 1 byte up and 3 down over a window of 1, a cap of 2, a socket that takes 1, stall limit 4, so that every limit is hit; driver: two sessions one after the other, three uses |
| `exec` | `OutcomeExact`: the status reported is the command's and its streams are closed once drained. `StdinContiguous`. `RunExecReturns`, but for frames that are lost and not sent again | three commands (`Commands` in `MCExec`): 3 bytes of stdin over a pipe of 1; a byte of output and two of errors, so that an unread stderr fills up; a byte of stdin and of output; grace period of 2 |
| `transfer` | `FilesWhole`: the destination is one whole file, and success means a whole file arrived. `TransferEnds`, but for an end or a reset that is lost and not sent again | an upload and a download of one path, files of 2 chunks, one chunk unacknowledged |
| `terminal` | `NoIndexOutOfRange`, `MainScreenReturns`. `PredictionsSound`: predictions lie in line on the screen, and those of plain text that does not scroll come true | calls on terminals of 2x2, 1x3 and 3x2 that are resized into each other; keys of every kind, and plain text that wraps; both mixed, with resizes |
| `noissh` | `TrustedServer`: sessions are with a pinned server, one met first under `--direct`, or the run's own one-shot, and only first uses are pinned. `OneIdentity`: all runs and both key files agree on one key. `PinsKept`: a pin goes only by a `--forget-host` that its label matches or a run that read the file before another saved it. `EveryoneEnds`: runs and one-shots do. `InvocationExact`: options mean the same in a cluster and apart, the config file's first match wins as its reference definition says. `DetachExact`, `BannerTruthful`, `PaintExact` | two runs with six invocations, one with `--port` and `--server-cmd`, on a host with two names; no pins, or three around a malformed line, of which one is for a host with a colon in its name; key none or legacy; noisshd missing or old; one change of the server's key. 16 arguments, up to 3 per line; 8 config lines, up to 4; globs of up to 4 of 4 characters. Keepalives of 6 and 2 ticks, stale at 4, banner at 8, round trip 1, 3 keys on a steady link and 2 on one that changes. Grids of up to 2 rows |

Together the passing runs take every action. Each takes between seconds and three minutes;
the largest have between 300 and 900 thousand states. Deadlock checking is off where the
system comes to rest within its bounds (everything typed and acknowledged, a stream
reclaimed, a transfer ended); in `session` something can always arrive, and it is on.

**Fairness.** Only what the loops and a network that is not dead give:

- `input`: the client polls and the server's frames and acks are delivered if they are sent
  again and again; `screen` likewise. The code sends again on every tick until acknowledged.
- `lifecycle`: weak fairness of the server's `Tick` and of nothing else; clients and network
  may stop.
- `forward`, `exec`, `transfer`: both loops turn, and what a stream resends until it is
  acknowledged arrives. Frames that are sent once (StreamOpen, StreamReset) may be lost, and
  the properties name that case. Applications that are chosen to read do so; others never do.
- `noissh`: some run that can take a step, or some one-shot that can exit, does. A run that
  waits for its user may wait for ever, and `EveryoneEnds` names it.
- `session`, `stream`, `transport_parts` and `terminal` check safety only and assume none.

## 5. What is proved

The theorems hold for every value of the constants that the named ASSUMEs allow (natural
numbers, non-empty windows, a blank among the glyphs, an absent key that is not a key, and
the like); TLC evaluates those on its instances. For every component the property is a
consequence of an inductive invariant (`IInv`, or `…IInv` where a module has several), shown
to hold initially and to be kept by each action in turn.

### TransportProofs

**Session** (every window width, set of addresses and length): `OpensOnlyGenuineOnce`,
`RoamingSettles` and the action property `FreshGetsThrough`. The lemmas about the filter carry
it: accepting a fresh nonce keeps the bitmap exact for the set of accepted nonces
(`UpdatedExact`: slide, jump, and bit below the maximum), an exact filter refuses what was
accepted and accepts what is new inside the window. `RoamingSettles` is not inductive alone: a
datagram could carry any address. `WireTruthful` says that what was sealed after the last
move carries the current address; with it, and since a packet older than the window is
refused, no opened packet turns the address back.

**StreamTiming** (every window, RTO range and pattern of writes, polls and acks):
`ClockExact`, and that a measured round trip never reads as unmeasured again
(`SampledStaysSampled`). `FreshBytes` (what was not sent has no copies) is the strengthening
the probe needs.

**Reassembly** (every stream of bytes, cut and delivered in any way): `BytesExact`, and the
refinement `AgreesWithStream`, that every `insert` and `read` does to the set of offsets what
`Stream` takes it to do. The segments are kept as pieces of the source (`SegmentsOK`): each
is non-empty, lies past what was read, carries the source's own bytes, and ends before the
next one starts, with a gap. The gap is what makes `read` return all that is contiguous
although it takes one segment at a time, and `insert` keeps it by merging what touches.

### DeliveryProofs

**InputChannel** (every alphabet, length, datagram and PTY size): `ExactStream`, and with
it `NothingForgotten` (the buffer holds all the server lacks) and `FramesTruthful` (frames and
acks in flight are true of what was typed). The three are inductive together only: a fresh
byte is right because its frame is, a frame because the buffer is, the buffer because no ack
is ahead of the receiver. From the same invariant, every step is a step or a stutter of
`InputStream` (`ChannelImplementsStream`).

**Transfer** (one upload, any number of downloads, files of every length): `FilesWhole`. `DiskOK`
lists what the disk can look like: untouched, a temporary file that holds a first part of the
upload, the same without its name once the upload was given up, or the whole upload in
place. `PutOK` ties the sink's offset to what was read from the stream and lets the answer be
sent only after the rename. `GetOK` follows a download through the inode it opened: whatever
is renamed over the path meanwhile, its inode's contents do not change any more. `OneUpload`
is a hypothesis because the code needs it: two uploads of one path share the temporary name
(`xfer.rs:52-59`).

### ScreenProofs

**StateSync** (every set of sizes and glyphs): `ScreensAgree`, and with it
`DiffsTruthful`. A delta is right because the history still has the screen of its base, and it
is applied to the right grid because the client's number is its base; the lemma
`DiffYieldsTarget` says that applying a diff then gives the target.

**Renderer** (screens of every size and content): `PaintExact`. Between frames the terminal has as
many rows as the renderer believes it painted, unless it was resized since; a row that is
not painted again is one that was compared equal.

### StreamMuxProofs

**StreamMux** (every window, chunk, congestion window, grace period and use):
`BuffersExact`, `NeverReborn` and `MuxImplementsPipe`, the safety refinement of `BytePipe`. The
invariant has three parts besides types. `BothWays`: in each direction what the sender takes for
acknowledged has been received, what was received has been written, and the end is known only
of a half that was closed. `FramesTruthful`: a data frame in flight stays inside what was
written, one with a FIN ends where the writer closed, an ack does not exceed what was
received. With `OpenedOnce`, that a StreamOpen is in flight only
if it has not been taken, the stream cannot be reborn. A second invariant, `FlagsTrue`, is what
the refinement needs of readers that are cut short: a StreamReset in flight, or a stream that
was reset, means that an end did reset, and a StreamClose, in flight or received, that the other
end has closed; so the grace period, which counts only at an end that has closed too, runs out
only when both have. The argument has three layers: what
the operators of `Stream` do to one record, what a step of one end leaves true of both, and
which step of the pipe it is.

`RoundTripProgresses`, that one ack that arrives and two polls bring the receiver the byte it
waits for, follows from the same invariant: after the ack the sender's base is what the
receiver has, the window is open again, and the first poll sends from there or marks it for
the second. It is the safety half of the stream's progress; nothing is assumed fair.

### ServerProofs

**Lifecycle** (any number of clients, keys shared in any way, every limit):
`ShellsOwned` and `HandshakeNotSpoilt`. `ShellsOwned` says that a running shell has one session;
the invariant says of every session with a shell, running or not, that its client has the
shell's key (`Owners`), that no two sessions have the same shell (`NotShared`) and that none
runs without a session (`NotOrphaned`); reattach moves a shell, exit and reaping end it, and
each keeps the three only together. `Handshakes` ties the messages in flight to the
handshakers that made them.

**Emulator** (terminals of every size of two columns or more, any calls and resizes):
`NoIndexOutOfRange` and the action property `MainScreenReturns`. `GridOK` says that the cells are
as many as rows and columns ask for, that the cursor is on the screen and the scroll region
inside it, top not below bottom, and that a main screen set aside has as many cells;
`EmulatorIInv` adds that what is set aside is the main screen. One lemma per handler shows what
it keeps (`PutCharKeeps`, `FittedKeeps`, `ResizeOK`, ...); a wide character in the last column is
why there must be two. What the shell echoes in `Predictor` is a sequence of the same calls.

### ForwardProofs

**Forward** (every cap, stall limit, window and socket buffer): `BothWaysWhole`. Outward:
what is on the stream is what was taken from the socket, no more than the application wrote,
and a closed read side means it shut down and all was taken. Inward: while the connection
lives, what waits in its buffer and what the socket took add up to what was read from the
stream, and the socket never holds more than its room. The equation breaks only where the
code gives the connection up.

**Listeners** (any number of sessions): `DriverExact`. `Paired` holds at all times and of sessions
that are gone too: an agent's socket file and a command's child are there exactly with what the
driver holds, and every stream is that of something it holds, of a command's stderr, or was
left by a socket that failed (`abandoned`). `SweptNow` says that after a pump and until
the next tick the driver holds nothing of a session that is gone. For a request of a listener
that was in vain, `InVain` counts: each one met the listener of a session that was gone, and
the same pump dropped it, so there were at most as many as sessions that are gone for good.

### ClientProofs

**Exec** (every cap, window, pipe, amount of input and output and exit code): `OutcomeExact` and
`StdinContiguous`. `InputOK`: while stdin is open, what the child's pipe took and what waits in
`stdin_buf` add up to what was read from the stream. `OutputOK`: an output pipe is given up
only when no process can write to it and all it wrote is on the stream. `CodesOK`: an exit code
anywhere, on its way or reported, is the command's, and the halves are closed after it is
known and both pipes are given up. A half-close therefore carries the whole output.

**Console** (every keepalive, staleness, poll and round-trip time in the order the code's are
in: keepalives of 3 and 1 seconds, stale after 2, polled every second then, banner after 4,
and a round trip shorter than the banner's threshold less a keepalive; `ConsoleAssumption`):
`BannerTruthful`. `ClocksOK` bounds the clocks of the loop against each other: a keepalive is an
idle one only early in a silence, and the loop looks soon enough to put the banner up.
`LinkOK` is what takes it down: on a link that is up, within the interval of a keepalive the
next one is sent or an answer is on its way, and the oldest of them was asked for within that
interval of the link's return; past the banner's threshold the same holds of the shorter
interval.

`DetachExact` (everything the user may type, cut into reads in any way). `KeysOK` adds to the
property that what stdin holds is the end of what was typed, and that a prefix is pending exactly
if the next key is a command, in whichever read it comes. `process_input` is a recursive
function of the read, and the property looks back over a run of prefixes of any length, so
both are followed key by key: `Midway` is what is known after the first n keys of a read,
`ByteKeeps` is one key more, and `ProcessInputExact` takes a least n for which it would fail.

### ConnectProofs

**Connect** (any number of runs, hosts, servers and invocations): `TrustedServer`,
`OneIdentity` and the action property `PinsKept`. For sessions, `RunsOK` follows a run
through its places: a mismatch is its end, it has no server before the handshake, and at the
direct attempt the pin is what `known_hosts` said. For identities, `KeysOK` names one
identity that every file and run holds, if it holds any; a run may create a key only while no
key file exists and nobody has one, and the exclusive create lets one through.

For pins, `PinsOK` says that `known_hosts`, every run's table and every temporary file hold
only trusted lines (there at first, or a first use), that a table read from the file as it
is now still has its pins but for those `--forget-host` takes out, and that what is about to
be renamed is a run's whole table. Only a rename changes the file (`PinsStep`). What the new
file says is then `ReadBack`: `parse` of what `to_text` wrote is the table again, for
tables of any size. That rests on how many lines precede a label's (`Ranked`, `RankedOnce`),
since the text has one line per pin in the order of the labels. `LabelsAssumption` and
`HostsAssumption` say that labels and the lines of an initial file are sequences of such.

### Only model-checked

- All liveness properties: fairness and ENABLED are out of the prover's reach.
- `WireExact` and `InvocationExact`: codecs, a scanner and a resolver, recursive where the code
  loops. `Wire` and `SshConfig` declare RECURSIVE operators, about which the prover can show
  nothing.
- `SocksExact`: what a negotiation makes of every way to cut its bytes.
- `PredictionsSound`: the predictions kept by `reconcile` are a filtered sequence.

The backends cannot instantiate an induction scheme. Where a theorem needs one over data
(`ReadBack`, `ProcessInputExact`), it is replaced by a least counterexample: a set of numbers
that is not empty has a least member (`Least`, from the library's `WFMin`), and the claim
at the one before it yields the claim there.

## 6. Where the code and its documentation disagree

The run `input_pty_full` shows one: `server.rs:312` ignores what `pty.write` returns, so input
that a full PTY does not take is acknowledged and dropped, while `docs/ARCHITECTURE.md:115`
says keystrokes are retransmitted until acked and written to the PTY.

Modelling met others. The checked properties are stated so as to hold of the code; these are
the places where a stronger statement, which a comment or document makes, does not. They are
listed for whoever works on that code.

| source | what the code does | what is said |
|---|---|---|
| `transport/src/input.rs:33` | the whole unacknowledged suffix goes into one frame; beyond a datagram's size it is never sent | "the server reconstructs the exact contiguous stream regardless of loss" (`input.rs:3-5`) |
| `proto/src/shell.rs:186` | a full snapshot is applied whatever its number; a late one takes the client back behind the acknowledged screen, and no later delta applies until the next resize | "This converges under arbitrary loss/reorder" (`docs/PROTOCOL.md:152`) |
| `proto/src/shell.rs:118` | `force_full` is cleared when the snapshot is sent, not when it is acknowledged | "so a fresh client … can apply it unconditionally" (`shell.rs:115-117`) |
| `proto/src/shell.rs:53` | after a reattach to a blank screen the current number has no history entry, and its ack is ignored | "until the client catches up" (`shell.rs:102-103`) |
| `transport/src/stream.rs:388` | the timer is looked at only when no new data may be sent | "Unacked data is retransmitted after a retransmit timeout" (`docs/PROTOCOL.md:194`) |
| `transport/src/stream.rs:262` | a reordered ack brings back an older, larger window | "keeps this bounded by the advertised window" (`stream.rs:645`) |
| `transport/src/stream.rs:293` | an ack of all data counts as the FIN's ack although it may have left before the FIN arrived | "FIN … is now reliably delivered" (`CHANGELOG.md:443`) |
| `transport/src/stream.rs:247` | the grace period drops a stream whose live peer still retransmits | "cannot drop data a live peer would resend" (`stream.rs:191-194`) |
| `transport/src/stream.rs:402` | a timeout resends all that is outstanding at once | "respecting flow control and the congestion window" (`stream.rs:364`) |
| `transport/src/stream.rs:370`, `:613` | StreamOpen and StreamReset are sent once; when one is lost the other end never learns | "reliable, ordered, flow-controlled byte streams" (`docs/PROTOCOL.md:187`) |
| `transport/src/stream.rs:442` | an end that has the peer's FIN but no ack of its own keeps the stream for ever when the peer is gone | "a dead peer can't leak the stream forever" (`stream.rs:243-246`) |
| `transport/src/stream.rs:525` | a stream that was reset, or dropped by the grace period, counts as received to its end | "True once the peer has closed and we've read everything" (`stream.rs:518`) |
| `src/server.rs:248` | a new session takes over any live session of its key | "its previous connection went silent" (`server.rs:242`) |
| `src/client.rs:203` | a duplicate of the handshake answer ends an established client | "transport-layer junk is dropped" (`client.rs:983-984`) |
| `src/client.rs:206` | the third handshake message is sent once | "On completion both sides hold each other's authenticated static key" (`docs/ARCHITECTURE.md:104`) |
| `src/forward.rs:156` | a StreamClose that overtakes data ends the connection | "without dropping buffered data" (`forward.rs:3-4`) |
| `src/client.rs:1243` | a socket is not shut down for writing when the peer has closed its half | "propagate half-close" (`client.rs:1235`) |
| `src/server.rs:950` | a StreamClose that overtakes data closes the command's stdin | "stdin is forwarded from our stdin until EOF" (`client.rs:807`) |
| `transport/src/stream.rs:239`, `src/client.rs:938` | a client that has read the output and whose stdin is acknowledged drops the stream; a StreamClose that comes later, with the exit code, is ignored, and `run_exec` waits on | "noissh exits with the command's exit code" (`docs/USER_GUIDE.md:395`) |
| `src/client.rs:939-940` | a stream dropped by the grace period, or a stderr stream not heard of yet, counts as drained | "all of stdout/stderr is drained" (`client.rs:938`) |
| `src/xfer.rs:57` | two uploads to one path share a temporary file | "never truncates or partially overwrites an existing destination" (`xfer.rs:40-42`) |
| `term/src/grid.rs:149` | on one column a wide character's spacer goes to the next line, or past the cells | "A width-2 glyph cannot straddle the right edge" (`grid.rs:126`) |
| `term/src/grid.rs:143` | overwriting half of a wide character leaves the other half | "rendering and the latest-wins diff stay aligned" (`grid.rs:146`) |
| `term/src/grid.rs:615` | ESC E and ESC 8 keep a pending wrap | "Resolve a pending autowrap from the previous glyph" (`grid.rs:119`) |
| `predict/src/lib.rs:122` | after Backspace with nothing predicted, the next prediction is one cell off and may stay painted | "reconciles or abandons predictions" (`lib.rs:6-7`) |
| `predict/src/lib.rs:170` | a line that scrolls moves the cells under predictions that stay where they were made | "reconciles or abandons predictions" (`lib.rs:6-7`) |
| `predict/src/lib.rs:77` | an echo confirmed earlier lets typing at a silent prompt be painted | "hides typing at non-echoing prompts" (`lib.rs:23`) |
| `predict/src/lib.rs:199` | after a shrink the predicted cursor may be on a predicted cell | no stacking of "predictions on one cell" (`lib.rs:102-104`) |
| `src/server.rs:1172` | a call of `poll_once` receives one datagram | "drain ready packets, then tick" (`server.rs:1172`) |
| `src/server.rs:800-806` | a stream opened for a `-R` connection whose socket cannot be wrapped stays open; the agent's path resets it | "so it isn't orphaned" (`server.rs:850-853`) |
| `src/server.rs:376-378` | a session that reattached has its shell already and is given no agent socket | "expose a Unix socket and point SSH_AUTH_SOCK at it" (`server.rs:379-380`) |
| `src/server.rs:1007-1009`, `:1105-1107` | a connection whose socket failed is removed, its stream neither closed nor reset; the other end learns nothing | "fully finished and can be reclaimed" (`forward.rs:153`) |
| `src/socks.rs:97` | bytes the application sends behind its request count against the limit if they come in the same read | "anything larger is a malformed/stalling client" (`socks.rs:93-96`) |
| `src/bin/noissh.rs:559` | a host without a pin is not tried directly unless `--direct` is given | "Direct first … pinning the server's key via TOFU" (`docs/USER_GUIDE.md:66-68`; `noissh.rs:521-523`) |
| `src/bin/noissh.rs:559` | a pinned host whose daemon is down while a one-shot holds the port ends in a mismatch | the probe is restricted lest it "spuriously mismatch" (`noissh.rs:554-558`) |
| `src/bin/noisshd.rs:256` | a prompt answered after the one-shot's grace period finds it gone, and reports a blocked port | "keep using the already-live session now" (`ssh.rs:361-362`) |
| `src/ssh.rs:258` | an upgrade installs into `~/.local/bin` while the `noisshd` found first, on PATH, stays old | the new binary "takes effect on the *next* connection" (`ssh.rs:361`) |
| `src/bin/noisshd.rs:139` | authorized keys are read when the daemon starts | after `--copy-id`, "Afterwards `noissh user@server` can connect directly" (`docs/USER_GUIDE.md:277-278`) |
| `src/config.rs:179` | killed between creating the key file and writing it, a run leaves an empty one, and every later run ends with `BadKeyFile` | `load_or_generate_keypair`: loads the key or makes one |
| `auth/src/lib.rs:228-232` | `--forget-host` takes out every label that goes on with a colon after the name, so also those of other IPv6 addresses that begin with it | "matches `host` or `host:<port>` (any port)" (`lib.rs:224`) |
| `auth/src/lib.rs:6-8` | two runs that load, pin and save at the same time keep the pins of one | "the client pins a server's static public key on first contact" (also `docs/SECURITY.md:20-22`) |
| `src/bin/noisshd.rs:235` | a one-shot takes the conventional port if it is free | "binds an **ephemeral** UDP port" (`docs/USER_GUIDE.md:140`) |
| `src/client.rs:979-994` | any datagram counts as contact | "heard an authenticated datagram" (`noissh.rs:804`) |
| `src/bin/noissh.rs:757` | the first keepalive after the link went stale is still the idle one; until then recovery may take an idle interval | "detected within about a second" (`noissh.rs:757-758`) |
| `src/bin/noissh.rs:913` | a terminal resized away and back between two looks is not painted anew | "Force a full repaint on the next `paint` (e.g. after a resize)" (`src/tty.rs:240`) |

This is why the properties have the conditions they have:

- `ImplementsStream` and `BufferDrains` promise delivery if the unacknowledged suffix fits a
  datagram again and again; one that outgrows a datagram is never sent.
- `Converges` is about behaviours without resizes and reattaches.
- `ImplementsPipe` lets a reader be cut short by a reset, or by the grace period once both ends
  have closed.
- `TransferEnds` excepts a session that is gone, a reset that is lost, and an end that is lost
  after an early ack was taken for its acknowledgement. `transfer` has one upload.
- `RunExecReturns` excepts a lost reset; a lost StreamOpen of stderr, which then fills up at the
  server and holds it; a FIN that is not sent again after an early ack or after the server's
  grace period; and a client that dropped its stream before the StreamClose came.
- `NoOrphans` in `Listeners` excepts the streams of connections, of `-L`, `-R` and the agent,
  whose socket failed, and of `-R` connections whose socket could not be wrapped.
- Terminals have two columns or more. `PredictionsSound` asks predictions to stay in line with
  the cursor on terminals that keep their size, and to come true of plain text that fits on the
  screen, so that no line scrolls.
- `PinsKept` allows for a run that saved what it had read before another saved, and for
  `--forget-host` with any name the label's text matches.
- `PaintExact` names a terminal resized and back.

## 7. What is not modelled

- Cryptography: a packet authenticates or does not. Noise is a library (snow), and
  `noise-core` wraps it without state of its own.
- The byte encoding of a screen diff, the text of the connect and version lines, of
  `authorized_keys` and of fingerprints.
- Pen, colours, cursor visibility and query replies of the emulator: none of them decides
  where the cursor is or which cell is written. The escape parser is a library (vte).
- Display modes of the predictor other than adaptive.
- Several streams in one multiplexer: ids, their parity and `MAX_STREAMS`. Streams share
  nothing but the tick and the list of events.
- Machine integers: nonces, offsets and state numbers are 64-bit counters that do not wrap
  in practice, and are natural numbers here; widths matter, and are kept, in `Wire`.
- System calls: raw mode, `TtyWriter`, PTY creation, privilege separation, daemonizing, signals.
- `noissh-keygen` and the configuration file's defaults: one-shot reads and writes without
  state that another step reads back.

Components are composed where one reads the other's state (`Predictor` with `Emulator`,
`CommandLine` with `SshConfig`) and by their promises elsewhere (section 2); there is no
product of all of them, which would be far out of TLC's reach.

## 8. Keeping it true

When code changes, `map` in `PROJECT.json` names the definitions that stand for its lines. A
change there should be made in the module, the run of section 2 repeated, and the proofs
rechecked; a proof that fails names the action and the conjunct it disturbs.
