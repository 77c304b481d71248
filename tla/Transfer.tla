------------------------------ MODULE Transfer ------------------------------
(***************************************************************************)
(* File transfers: Client::run_transfer (src/client.rs), the transfer part  *)
(* of Server::pump_forwards (src/server.rs), FileSource and FileSink        *)
(* (src/xfer.rs).  Each transfer has a client and a session of its own; all *)
(* of them name the same file of the server.                                *)
(*                                                                         *)
(* A file is a sequence of chunks, and a chunk is known by the transfer it  *)
(* comes from.  Files have inodes: a FileSink writes to the inode it opened *)
(* at its own offset, whatever becomes of the name.  Streams deliver in     *)
(* order, the FIN last; a StreamReset is sent once, and a FIN until the     *)
(* sender has an ack of all its data (module StreamMux).  The behaviours of *)
(* a transfer start when the server learns of its stream.                   *)
(***************************************************************************)
EXTENDS Integers, Sequences

CONSTANTS Puts, Gets,           \* the transfers
          SEND_CAP,             \* chunks unacknowledged before the sender holds back
          Size                  \* chunks of an uploaded file

Transfers == Puts \cup Gets

ASSUME TransferAssumption ==
    Puts \cap Gets = {} /\ SEND_CAP \in Nat \ {0} /\ Size \in Nat

VARIABLES disk,         \* the server's directory entries tmp and dest, and the inodes
          server,       \* server[t]: XferState, and the session that carries it
          client,       \* client[t]: the locals of run_transfer
          stream        \* stream[t]: data from the sender to the receiver, its end, the
                        \* other half's end (the answer), the ends taken for acknowledged

transferVars == <<disk, server, client, stream>>

NoInode == 0
Whole(t) == [i \in 1 .. Size |-> t]
Old == <<"old", "old">>

TransferInit ==
    /\ disk = [tmp |-> NoInode, dest |-> 1, data |-> <<Old>>]
    /\ server = [t \in Transfers |->
                    [session |-> TRUE, status |-> "opened", inode |-> NoInode, offset |-> 0]]
    /\ client = [t \in Transfers |-> [sent_fin |-> FALSE, result |-> "running", dest |-> Old]]
    /\ stream = [t \in Transfers |->
                    [sent |-> <<>>, arrived |-> 0, read |-> <<>>, fin |-> FALSE, fin_known |-> FALSE,
                     answer |-> FALSE, answer_known |-> FALSE, fin_acked |-> {}, reset |-> "none"]]

\* Room for another chunk.
HasWindow(t) == Len(stream[t].sent) - stream[t].arrived < SEND_CAP

\* is_recv_finished of the data direction once the arrived chunks are read.
DataFinished(t) == stream[t].fin_known /\ stream[t].arrived = Len(stream[t].sent)

NewChunks(t) == SubSeq(stream[t].sent, Len(stream[t].read) + 1, stream[t].arrived)

-----------------------------------------------------------------------------
\* FileSink on the server.

\* create: File::create opens and truncates an existing temporary file.
\* Mutant: the destination itself is opened.
SinkCreatesDest(d) == [d EXCEPT !.tmp = d.dest, !.data[d.dest] = <<>>]

SinkCreate(d) ==
    IF d.tmp # NoInode THEN [d EXCEPT !.data[d.tmp] = <<>>]
    ELSE [d EXCEPT !.tmp = Len(d.data) + 1, !.data = Append(@, <<>>)]

\* `count` chunks of t at an offset; a gap left by a truncation reads as zeroes.
WriteAt(file, offset, count, t) ==
    IF count = 0 THEN file
    ELSE [i \in 1 .. (IF Len(file) > offset + count THEN Len(file) ELSE offset + count) |->
             IF i \in offset + 1 .. offset + count THEN t
             ELSE IF i <= Len(file) THEN file[i] ELSE "zero"]

\* All the chunks of t that have arrived, written in one go.
SinkWrite(d, t, count) ==
    LET inode == server[t].inode
    IN  [d EXCEPT !.data[inode] = WriteAt(@, server[t].offset, count, t)]

\* finalize: rename takes the name tmp, whichever inode it has.
Renames(d) == d.tmp # NoInode
SinkFinalize(d) == [d EXCEPT !.dest = d.tmp, !.tmp = NoInode]

\* Drop of a sink that was not finalized.
SinkDrop(d) == [d EXCEPT !.tmp = NoInode]

-----------------------------------------------------------------------------
\* The server.

\* Opened: the file is opened, or the stream reset.
ServerOpens(t) ==
    /\ server[t].status = "opened" /\ server[t].session
    /\ \E fails \in BOOLEAN :
        IF fails
        THEN /\ server' = [server EXCEPT ![t].status = "gone"]
             /\ stream' = [stream EXCEPT ![t].reset = "sent"]
             /\ UNCHANGED disk
        ELSE /\ disk' = IF t \in Puts THEN SinkCreate(disk) ELSE disk
             /\ server' = [server EXCEPT ![t].status = "active",
                                         ![t].inode = IF t \in Puts THEN SinkCreate(disk).tmp
                                                      ELSE disk.dest]
             /\ UNCHANGED stream
    /\ UNCHANGED client

\* An upload: drain the stream into the sink; when it has ended, close and finalize; reset
\* on a failure.
\* Mutants: a failed rename is not reported; the end is not answered.
PumpPutSilent(t) ==
    \E write_fails, rename_fails \in BOOLEAN :
        LET fresh == NewChunks(t)
            written == SinkWrite(disk, t, Len(fresh))
            lands == DataFinished(t)
        IN  /\ ~write_fails
            /\ disk' = IF ~lands THEN written
                       ELSE IF Renames(written) /\ ~rename_fails THEN SinkFinalize(written)
                       ELSE SinkDrop(written)
            /\ server' = [server EXCEPT ![t].offset = @ + Len(fresh),
                                        ![t].status = IF lands THEN "gone" ELSE @]
            /\ stream' = [stream EXCEPT ![t].read = @ \o fresh, ![t].answer = lands]

PumpPutMute(t) ==
    LET fresh == NewChunks(t)
        written == SinkWrite(disk, t, Len(fresh))
    IN  /\ disk' = IF DataFinished(t) THEN SinkFinalize(written) ELSE written
        /\ server' = [server EXCEPT ![t].offset = @ + Len(fresh),
                                    ![t].status = IF DataFinished(t) THEN "gone" ELSE @]
        /\ stream' = [stream EXCEPT ![t].read = @ \o fresh]

PumpPut(t) ==
    \E write_fails, rename_fails \in BOOLEAN :
        LET fresh == NewChunks(t)
            abort == write_fails /\ fresh # <<>>
            written == IF abort THEN disk ELSE SinkWrite(disk, t, Len(fresh))
            done == abort \/ DataFinished(t)
            lands == done /\ ~abort /\ Renames(written) /\ ~rename_fails
        IN  /\ disk' = IF ~done THEN written
                       ELSE IF lands THEN SinkFinalize(written) ELSE SinkDrop(written)
            /\ server' = [server EXCEPT ![t].offset = @ + Len(fresh),
                                        ![t].status = IF done THEN "gone" ELSE @]
            /\ stream' = [stream EXCEPT ![t].read = @ \o fresh,
                                        ![t].answer = lands,
                                        ![t].reset = IF done /\ ~lands THEN "sent" ELSE @]

\* A download: the next chunk of the file if there is room, the close at its end; reset on
\* a failed read.
PumpGet(t) ==
    /\ HasWindow(t)
    /\ \E fails \in BOOLEAN :
        LET file == disk.data[server[t].inode]
            ends == ~fails /\ server[t].offset >= Len(file)
        IN  /\ server' = [server EXCEPT ![t].status = IF ends \/ fails THEN "gone" ELSE @,
                                        ![t].offset = IF ends \/ fails THEN @ ELSE @ + 1]
            /\ stream' = [stream EXCEPT
                             ![t].sent = IF ends \/ fails THEN @
                                         ELSE Append(@, file[server[t].offset + 1]),
                             ![t].fin = ends,
                             ![t].reset = IF fails THEN "sent" ELSE @]
    /\ UNCHANGED disk

\* A transfer whose session is gone is dropped before anything is pumped.
ServerPump(t) ==
    /\ server[t].status = "active"
    /\ IF server[t].session
       THEN IF t \in Puts THEN PumpPut(t) ELSE PumpGet(t)
       ELSE /\ server' = [server EXCEPT ![t].status = "gone"]
            /\ disk' = IF t \in Puts THEN SinkDrop(disk) ELSE disk
            /\ UNCHANGED stream
    /\ UNCHANGED client

SessionVanishes(t) ==
    /\ server[t].session
    /\ server' = [server EXCEPT ![t].session = FALSE]
    /\ UNCHANGED <<disk, client, stream>>

-----------------------------------------------------------------------------
\* One round of run_transfer.

\* An upload: the next chunk, or the close at the end of the file; done when the server
\* has closed its half.
PutRound(t) ==
    LET sends == ~client[t].sent_fin /\ HasWindow(t)
        ends == sends /\ Len(stream[t].sent) = Size
        sent_fin == client[t].sent_fin \/ ends
    IN  /\ client' = [client EXCEPT ![t].sent_fin = sent_fin,
                                    ![t].result = IF sent_fin /\ stream[t].answer_known THEN "ok" ELSE @]
        /\ stream' = [stream EXCEPT ![t].sent = IF sends /\ ~ends THEN Append(@, t) ELSE @,
                                    ![t].fin = sent_fin]

\* A download: the arrived chunks into the sink; at the end close, and move it into place.
GetRound(t) ==
    LET got == stream[t].read \o NewChunks(t)
    IN  /\ stream' = [stream EXCEPT ![t].read = got, ![t].answer = DataFinished(t)]
        /\ client' = IF DataFinished(t)
                     THEN [client EXCEPT ![t].result = "ok", ![t].dest = got] ELSE client

ClientRound(t) ==
    /\ client[t].result = "running" /\ stream[t].reset # "event"
    /\ IF t \in Puts THEN PutRound(t) ELSE GetRound(t)
    /\ UNCHANGED <<disk, server>>

\* A Reset event, or a failure of the local file, ends it with an error; a local sink is
\* dropped.
ClientFails(t) ==
    /\ client[t].result = "running"
    /\ client' = [client EXCEPT ![t].result = "err"]
    /\ UNCHANGED <<disk, server, stream>>

-----------------------------------------------------------------------------
\* The streams, while both ends are there.

Connected(t) == server[t].session /\ client[t].result = "running"

\* A server that has reset the stream takes no more data.
Receives(t) == t \in Puts => stream[t].reset = "none"

Arrive(t) ==
    /\ Connected(t) /\ Receives(t) /\ stream[t].arrived < Len(stream[t].sent)
    /\ stream' = [stream EXCEPT ![t].arrived = @ + 1]
    /\ UNCHANGED <<disk, server, client>>

FinArrives(t) ==
    /\ Connected(t) /\ Receives(t) /\ stream[t].fin /\ ~stream[t].fin_known
    /\ stream' = [stream EXCEPT ![t].fin_known = TRUE]
    /\ UNCHANGED <<disk, server, client>>

\* The other half ends, by its FIN or by the grace period after its StreamClose.
AnswerArrives(t) ==
    /\ Connected(t) /\ stream[t].answer /\ ~stream[t].answer_known
    /\ stream' = [stream EXCEPT ![t].answer_known = TRUE]
    /\ UNCHANGED <<disk, server, client>>

\* An ack that left before the FIN came covers all the data, and the sender takes the FIN
\* for acknowledged: neither it nor the StreamClose is sent again (stream.rs:293, 406, 430).
FinAcked(t) ==
    /\ Connected(t)
    /\ \/ /\ stream[t].fin /\ ~stream[t].fin_known /\ stream[t].arrived = Len(stream[t].sent)
          /\ stream' = [stream EXCEPT ![t].fin_acked = @ \cup {"data"}]
       \/ /\ stream[t].answer /\ ~stream[t].answer_known
          /\ stream' = [stream EXCEPT ![t].fin_acked = @ \cup {"answer"}]
    /\ UNCHANGED <<disk, server, client>>

ResetArrives(t) ==
    /\ Connected(t) /\ stream[t].reset = "sent"
    /\ stream' = [stream EXCEPT ![t].reset = "event"]
    /\ UNCHANGED <<disk, server, client>>

ResetLost(t) ==
    /\ stream[t].reset = "sent"
    /\ stream' = [stream EXCEPT ![t].reset = "lost"]
    /\ UNCHANGED <<disk, server, client>>

TransferNext ==
    \E t \in Transfers :
        \/ ServerOpens(t) \/ ServerPump(t) \/ SessionVanishes(t)
        \/ ClientRound(t) \/ ClientFails(t)
        \/ Arrive(t) \/ FinArrives(t) \/ AnswerArrives(t) \/ FinAcked(t)
        \/ ResetArrives(t) \/ ResetLost(t)

TransferSpec == TransferInit /\ [][TransferNext]_transferVars

\* The loops turn, and as long as something is sent again and again some of it arrives.
Serve == \E t \in Transfers : ServerOpens(t) \/ ServerPump(t)

RunTransfer ==
    \E t \in Transfers : ClientRound(t) \/ (stream[t].reset = "event" /\ ClientFails(t))

Deliver ==
    \E t \in Transfers :
        \/ Arrive(t) \/ ResetArrives(t)
        \/ "data" \notin stream[t].fin_acked /\ FinArrives(t)
        \/ "answer" \notin stream[t].fin_acked /\ AnswerArrives(t)

TransferFairness == WF_transferVars(Serve) /\ WF_transferVars(RunTransfer) /\ WF_transferVars(Deliver)

FairTransferSpec == TransferSpec /\ TransferFairness

-----------------------------------------------------------------------------

\* The destination always holds one whole file, the old one or an uploaded one, however
\* a transfer ends and whoever reads it meanwhile (xfer.rs:39-42).
DestIsOneFile == disk.data[disk.dest] \in {Old} \cup {Whole(t) : t \in Puts}

\* A transfer reported to have succeeded has moved one whole file, its rename included: an
\* upload is what the destination names, unless another upload has replaced it since
\* (server.rs:1058-1070); a download is never part of a file or a mixture of what the path
\* named before and after an upload, and one that fails leaves the client's old file
\* (client.rs:784-795).
OkMeansWholeFile ==
    /\ \A t \in Puts : client[t].result = "ok" => disk.data[disk.dest] \in {Whole(u) : u \in Puts}
    /\ \A t \in Gets : client[t].dest \in {Old} \cup {Whole(u) : u \in Puts}
    /\ \A t \in Gets : client[t].result # "ok" => client[t].dest = Old

\* Both: no file at either end is ever part of one or a mixture.
FilesWhole == DestIsOneFile /\ OkMeansWholeFile

\* The end of a direction is not sent any more, and has not come.
Forgotten(t) ==
    /\ stream[t].reset = "none"
    /\ \/ "data" \in stream[t].fin_acked /\ ~stream[t].fin_known
       \/ "answer" \in stream[t].fin_acked /\ ~stream[t].answer_known

\* A transfer comes to its end, one way or the other, unless its session is gone, the one
\* StreamReset that would have ended it is lost, or the end it waits for is lost after an
\* early ack has been taken for its acknowledgement (stream.rs:293).
TransferEnds ==
    <>[](\A t \in Transfers :
            \/ client[t].result # "running" \/ ~server[t].session
            \/ stream[t].reset = "lost" \/ Forgotten(t))

=============================================================================
