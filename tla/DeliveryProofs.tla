--------------------------- MODULE DeliveryProofs ---------------------------
(***************************************************************************)
(* What is sent arrives whole.                                              *)
(*                                                                         *)
(* Input: for every alphabet, every amount of input and every size of       *)
(* datagram and PTY queue, the input channel hands over exactly what was    *)
(* typed, and implements the safety part of InputStream.                    *)
(*                                                                         *)
(* Files: for every size of file, every cap and any number of downloads,    *)
(* no file at either end is ever part of one or a mixture.                  *)
(***************************************************************************)
EXTENDS InputChannel, Transfer, SequenceTheorems, TLAPS

\* The three safety invariants are inductive together: a fresh byte is right
\* because its frame is (FramesTruthful), a frame because the buffer is
\* (NothingForgotten), and the buffer keeps its bytes because no ack in flight
\* is ahead of the receiver (FramesTruthful again).
IInv == TypeOK /\ ExactStream /\ NothingForgotten /\ FramesTruthful

\* What Drop returns: the bytes from n + 1 on, as InputSender's drain(0..n) and
\* ingest's data[skip..] leave them.
LEMMA DropFacts ==
    ASSUME NEW S, NEW s \in Seq(S), NEW n \in 0 .. Len(s)
    PROVE  /\ Drop(s, n) \in Seq(S)
           /\ Len(Drop(s, n)) = Len(s) - n
           /\ \A i \in 1 .. Len(s) - n : Drop(s, n)[i] = s[n + i]
  BY DEF Drop

\* What appending one sequence to another leaves where.
LEMMA ConcatFacts ==
    ASSUME NEW S, NEW a \in Seq(S), NEW b \in Seq(S)
    PROVE  /\ Len(a \o b) = Len(a) + Len(b)
           /\ \A i \in 1 .. Len(a) : (a \o b)[i] = a[i]
           /\ \A i \in 1 .. Len(b) : (a \o b)[Len(a) + i] = b[i]
  OBVIOUS

\* What ingest returns when it returns something: the frame starts at or before
\* `received`, ends after it, and the bytes are those from `received` on.
LEMMA FreshFacts ==
    ASSUME TypeOK, NEW f \in InputFrames, Fresh(f) # <<>>
    PROVE  /\ f.offset <= received
           /\ received < f.offset + Len(f.data)
           /\ Fresh(f) \in Seq(Bytes)
           /\ Len(Fresh(f)) = f.offset + Len(f.data) - received
           /\ \A i \in 1 .. Len(Fresh(f)) : Fresh(f)[i] = f.data[received - f.offset + i]
  <1>1. f.offset \in Nat /\ f.data \in Seq(Bytes) /\ received \in Nat
    BY DEF InputFrames, TypeOK
  <1>2. f.offset <= received /\ received < f.offset + Len(f.data)
    BY <1>1 DEF Fresh
  <1>3. Fresh(f) = Drop(f.data, received - f.offset)
    BY <1>1, <1>2 DEF Fresh
  <1>4. received - f.offset \in 0 .. Len(f.data) /\ Len(f.data) \in Nat
    BY <1>1, <1>2
  <1>5. /\ Fresh(f) \in Seq(Bytes)
        /\ Len(Fresh(f)) = Len(f.data) - (received - f.offset)
        /\ \A i \in 1 .. Len(f.data) - (received - f.offset) :
             Fresh(f)[i] = f.data[received - f.offset + i]
    <2> DEFINE data == f.data
               skip == received - f.offset
    <2>1. data \in Seq(Bytes) /\ skip \in 0 .. Len(data) /\ Fresh(f) = Drop(data, skip)
      BY <1>1, <1>3, <1>4
    <2> HIDE DEF data, skip
    <2>2. /\ Drop(data, skip) \in Seq(Bytes)
          /\ Len(Drop(data, skip)) = Len(data) - skip
          /\ \A i \in 1 .. Len(data) - skip : Drop(data, skip)[i] = data[skip + i]
      BY <2>1, DropFacts, Zenon
    <2>3. QED
      BY <2>1, <2>2 DEF data, skip
  <1>6. Len(f.data) - (received - f.offset) = f.offset + Len(f.data) - received
    BY <1>1, <1>4
  <1>7. QED
    BY <1>2, <1>5, <1>6

\* The state of new shells and an idle link.
LEMMA InitIInv == Init => IInv
  BY PtyCapacityAssumption
  DEF Init, IInv, TypeOK, ExactStream, NothingForgotten, FramesTruthful

\* Typing appends to the buffer and to what was typed; no byte already there moves.
LEMMA PushIInv ==
    ASSUME IInv, NEW b \in Bytes, Push(b)
    PROVE  IInv'
  <1>1. /\ Len(typed) \in Nat /\ Len(typed') = Len(typed) + 1 /\ typed' \in Seq(Bytes)
        /\ \A i \in 1 .. Len(typed) : typed'[i] = typed[i]
        /\ typed'[Len(typed) + 1] = b
    BY DEF IInv, TypeOK, Push
  <1>2. /\ Len(buffer) \in Nat /\ Len(buffer') = Len(buffer) + 1 /\ buffer' \in Seq(Bytes)
        /\ \A i \in 1 .. Len(buffer) : buffer'[i] = buffer[i]
        /\ buffer'[Len(buffer) + 1] = b
    BY DEF IInv, TypeOK, Push
  <1>3. /\ base \in Nat /\ received \in Nat
        /\ UNCHANGED <<base, received, to_server, to_client, delivered>>
    BY DEF IInv, TypeOK, Push
  <1>4. TypeOK'
    BY <1>1, <1>2 DEF IInv, TypeOK, Push
  <1>5. ExactStream'
    BY <1>1, <1>3 DEF IInv, ExactStream
  <1>6. NothingForgotten'
    <2>1. /\ base <= received /\ base + Len(buffer) = Len(typed)
          /\ \A i \in 1 .. Len(buffer) : buffer[i] = typed[base + i]
      BY DEF IInv, NothingForgotten
    <2>2. ASSUME NEW i \in 1 .. Len(buffer) + 1
          PROVE  buffer'[i] = typed'[base + i]
      <3>1. CASE i \in 1 .. Len(buffer)
        <4>1. base + i \in 1 .. Len(typed)
          BY <1>1, <1>2, <1>3, <2>1, <3>1
        <4>2. QED
          BY <1>1, <1>2, <2>1, <3>1, <4>1
      <3>2. CASE i = Len(buffer) + 1
        <4>1. base + i = Len(typed) + 1
          <5>1. base \in Nat /\ Len(buffer) \in Nat /\ base + Len(buffer) = Len(typed)
            BY <1>2, <1>3, <2>1
          <5>2. QED
            BY <3>2, <5>1
        <4>2. QED
          BY <1>1, <1>2, <3>2, <4>1
      <3>3. QED
        BY <1>2, <3>1, <3>2
    <2>3. base' <= received' /\ base' + Len(buffer') = Len(typed')
      BY <1>1, <1>2, <1>3, <2>1
    <2>4. QED
      BY <1>2, <1>3, <2>2, <2>3 DEF NothingForgotten
  <1>7. FramesTruthful'
    <2>1. ASSUME NEW f \in to_server
          PROVE  /\ f.offset + Len(f.data) <= Len(typed')
                 /\ \A i \in 1 .. Len(f.data) : f.data[i] = typed'[f.offset + i]
      <3>1. f.offset \in Nat /\ Len(f.data) \in Nat
        BY DEF IInv, TypeOK, InputFrames
      <3>2. f.offset + Len(f.data) <= Len(typed)
        BY DEF IInv, FramesTruthful
      <3>3. \A i \in 1 .. Len(f.data) : f.data[i] = typed[f.offset + i]
        BY DEF IInv, FramesTruthful
      <3>4. Len(typed) \in Nat /\ Len(typed') = Len(typed) + 1
        BY <1>1
      <3>5. f.offset + Len(f.data) <= Len(typed')
        BY <3>1, <3>2, <3>4
      <3>6. ASSUME NEW i \in 1 .. Len(f.data)
            PROVE  f.data[i] = typed'[f.offset + i]
        <4>1. f.offset + i \in 1 .. Len(typed)
          BY <3>1, <3>2, <3>4
        <4>2. typed'[f.offset + i] = typed[f.offset + i]
          BY <1>1, <4>1
        <4>3. QED
          BY <3>3, <4>2
      <3>7. QED
        BY <3>5, <3>6
    <2>2. QED
      BY <1>3, <2>1 DEF IInv, FramesTruthful
  <1>8. QED
    BY <1>4, <1>5, <1>6, <1>7 DEF IInv

\* A polled frame is a copy of the buffer at base.
LEMMA PollFramesIInv ==
    ASSUME IInv, PollFrames
    PROVE  IInv'
  <1> DEFINE sent == [offset |-> base, data |-> buffer]
  <1>1. to_server' \subseteq to_server \cup {sent}
    BY DEF PollFrames, Pending
  <1>2. /\ sent \in InputFrames /\ sent.offset = base /\ sent.data = buffer
    BY DEF IInv, TypeOK, InputFrames
  <1> HIDE DEF sent
  <1>3. TypeOK'
    BY <1>1, <1>2 DEF PollFrames, IInv, TypeOK
  <1>4. FramesTruthful'
    <2>1. /\ sent.offset + Len(sent.data) <= Len(typed)
          /\ \A i \in 1 .. Len(sent.data) : sent.data[i] = typed[sent.offset + i]
      BY <1>2 DEF IInv, TypeOK, NothingForgotten
    <2>2. QED
      BY <1>1, <2>1 DEF PollFrames, IInv, FramesTruthful
  <1>5. QED
    BY <1>3, <1>4 DEF PollFrames, IInv, ExactStream, NothingForgotten

\* A frame the receiver ingests extends what was handed over by the bytes typed
\* next, and the ack sent back is what it then has.
LEMMA IngestIInv ==
    ASSUME IInv, NEW f \in to_server, Ingest(f)
    PROVE  IInv'
  <1> DEFINE fresh == Fresh(f)
             taken == PtyWrite(Len(fresh))
  <1>1. f \in InputFrames /\ f.offset \in Nat /\ f.data \in Seq(Bytes) /\ Len(f.data) \in Nat
    BY DEF IInv, TypeOK, InputFrames
  <1>2. /\ received \in Nat /\ Len(typed) \in Nat
        /\ delivered \in Seq(Bytes) /\ pty_input \in Seq(Bytes)
    BY DEF IInv, TypeOK
  <1>3. /\ received' = (IF fresh = <<>> THEN received ELSE f.offset + Len(f.data))
        /\ delivered' = delivered \o fresh
        /\ pty_input' = pty_input \o SubSeq(fresh, 1, taken)
        /\ pty_unread' = pty_unread + taken
        /\ to_client' = to_client \cup {received'}
        /\ to_server' = to_server \ {f}
        /\ UNCHANGED <<buffer, base, typed>>
    BY DEF Ingest
  <1>4. ASSUME fresh # <<>>
        PROVE  /\ f.offset <= received /\ received < f.offset + Len(f.data)
               /\ fresh \in Seq(Bytes)
               /\ Len(fresh) = f.offset + Len(f.data) - received
               /\ \A i \in 1 .. Len(fresh) : fresh[i] = f.data[received - f.offset + i]
    BY <1>1, <1>4, FreshFacts DEF IInv
  <1> HIDE DEF fresh
  <1>5. fresh \in Seq(Bytes) /\ Len(fresh) \in Nat
    <2>1. CASE fresh = <<>>
      BY <2>1
    <2>2. CASE fresh # <<>>
      BY <1>4, <2>2
    <2>3. QED
      BY <2>1, <2>2
  <1>6. taken \in 0 .. Len(fresh) /\ pty_unread + taken \in 0 .. PtyCapacity
    BY <1>5, PtyCapacityAssumption DEF IInv, TypeOK, PtyWrite, Min2
  <1> HIDE DEF taken
  <1>7. /\ received' \in Nat /\ received <= received' /\ received' <= Len(typed)
        /\ received' = received + Len(fresh)
    <2>1. CASE fresh = <<>>
      BY <1>2, <1>3, <2>1 DEF IInv, ExactStream
    <2>2. CASE fresh # <<>>
      <3>1. f.offset + Len(f.data) <= Len(typed)
        BY DEF IInv, FramesTruthful
      <3>2. received' = f.offset + Len(f.data)
        BY <1>3, <2>2
      <3>3. received < f.offset + Len(f.data) /\ Len(fresh) = f.offset + Len(f.data) - received
        BY <1>4, <2>2
      <3>4. f.offset \in Nat /\ Len(f.data) \in Nat /\ received \in Nat
        BY <1>1, <1>2
      <3>5. received + Len(fresh) = f.offset + Len(f.data)
        BY <3>3, <3>4
      <3>6. f.offset + Len(f.data) \in Nat /\ received <= f.offset + Len(f.data)
        BY <3>3, <3>4
      <3>7. QED
        BY <3>1, <3>2, <3>5, <3>6
    <2>3. QED
      BY <2>1, <2>2
  <1>8. ASSUME NEW i \in 1 .. Len(fresh)
        PROVE  fresh[i] = typed[received + i]
    <2>1. fresh # <<>> /\ i \in Nat /\ 1 <= i /\ i <= Len(fresh)
      BY <1>5
    <2>2. fresh[i] = f.data[received - f.offset + i]
      BY <1>4, <2>1
    <2>3. /\ received - f.offset + i \in 1 .. Len(f.data)
          /\ f.offset + (received - f.offset + i) = received + i
      <3>1. f.offset <= received /\ Len(fresh) = f.offset + Len(f.data) - received
        BY <1>4, <2>1
      <3>2. \A o, r, l, n \in Nat :
              (o <= r /\ n = o + l - r /\ i <= n) =>
                (r - o + i \in 1 .. l /\ o + (r - o + i) = r + i)
        BY <2>1
      <3>3. QED
        BY <1>1, <1>2, <1>5, <2>1, <3>1, <3>2, Zenon
    <2>4. f.data[received - f.offset + i] = typed[f.offset + (received - f.offset + i)]
      BY <2>3 DEF IInv, FramesTruthful
    <2>5. QED
      BY <2>2, <2>3, <2>4
  <1>9. TypeOK'
    <2>1. delivered' \in Seq(Bytes)
      BY <1>2, <1>3, <1>5
    <2>2. pty_input' \in Seq(Bytes)
      <3>1. SubSeq(fresh, 1, taken) \in Seq(Bytes)
        BY <1>5, <1>6
      <3>2. QED
        BY <1>2, <1>3, <3>1
    <2>3. to_server' \subseteq InputFrames /\ to_client' \subseteq Nat
      BY <1>3, <1>7, Zenon DEF IInv, TypeOK
    <2>4. QED
      BY <1>3, <1>6, <1>7, <2>1, <2>2, <2>3 DEF IInv, TypeOK
  <1>10. ExactStream'
    <2>1. Len(delivered) = received /\ \A i \in 1 .. received : delivered[i] = typed[i]
      BY DEF IInv, ExactStream
    <2>2. /\ Len(delivered') = received + Len(fresh)
          /\ \A i \in 1 .. received : delivered'[i] = delivered[i]
          /\ \A i \in 1 .. Len(fresh) : delivered'[received + i] = fresh[i]
      <3>1. delivered \in Seq(Bytes) /\ delivered' = delivered \o fresh
        BY <1>2, <1>3
      <3>2. QED
        BY <1>5, <2>1, <3>1, ConcatFacts
    <2>3. Len(delivered') = received'
      BY <1>7, <2>2
    <2>4. ASSUME NEW i \in 1 .. received'
          PROVE  delivered'[i] = typed[i]
      <3>1. CASE i <= received
        BY <1>2, <2>1, <2>2, <3>1
      <3>2. CASE i > received
        <4> DEFINE j == i - received
        <4>1. j \in 1 .. Len(fresh) /\ received + j = i
          BY <1>2, <1>5, <1>7, <3>2
        <4> HIDE DEF j
        <4>2. delivered'[received + j] = fresh[j]
          BY <2>2, <4>1
        <4>3. fresh[j] = typed[received + j]
          BY <1>8, <4>1
        <4>4. QED
          BY <4>1, <4>2, <4>3
      <3>3. QED
        BY <1>2, <3>1, <3>2
    <2>5. QED
      BY <1>3, <1>7, <2>3, <2>4 DEF ExactStream
  <1>11. NothingForgotten'
    BY <1>2, <1>3, <1>7 DEF IInv, TypeOK, NothingForgotten
  <1>12. FramesTruthful'
    BY <1>2, <1>3, <1>7, SMTT(30) DEF IInv, TypeOK, FramesTruthful
  <1>13. QED
    BY <1>9, <1>10, <1>11, <1>12 DEF IInv

\* on_ack drains bytes the receiver has: an ack in flight is never ahead of it.
LEMMA ReceiveAckIInv ==
    ASSUME IInv, NEW seq \in to_client, ReceiveAck(seq)
    PROVE  IInv'
  <1> DEFINE new_base == Min2(seq, base + Len(buffer))
  <1>1. /\ seq \in Nat /\ seq <= received /\ base \in Nat /\ received \in Nat
        /\ buffer \in Seq(Bytes) /\ Len(buffer) \in Nat
    BY DEF IInv, TypeOK, FramesTruthful
  <1>2. CASE new_base > base
    <2>1. /\ new_base \in Nat /\ new_base <= received
          /\ new_base - base \in 0 .. Len(buffer)
      BY <1>1, <1>2 DEF Min2
    <2>2. buffer' = Drop(buffer, new_base - base) /\ base' = new_base
      BY <1>2 DEF ReceiveAck, OnAck
    <2>3. /\ buffer' \in Seq(Bytes)
          /\ Len(buffer') = Len(buffer) - (new_base - base)
          /\ \A i \in 1 .. Len(buffer) - (new_base - base) :
               buffer'[i] = buffer[new_base - base + i]
      BY <1>1, <2>1, <2>2, DropFacts, Zenon
    <2> HIDE DEF new_base
    <2>4. TypeOK'
      BY <2>1, <2>2, <2>3 DEF ReceiveAck, IInv, TypeOK
    <2>5. NothingForgotten'
      <3>1. base' <= received' /\ base' + Len(buffer') = Len(typed')
        BY <1>1, <2>1, <2>2, <2>3 DEF ReceiveAck, IInv, NothingForgotten
      <3>2. ASSUME NEW i \in 1 .. Len(buffer')
            PROVE  buffer'[i] = typed'[base' + i]
        <4>1. /\ i \in 1 .. Len(buffer) - (new_base - base)
              /\ new_base - base + i \in 1 .. Len(buffer)
              /\ base + (new_base - base + i) = new_base + i
          BY <1>1, <2>1, <2>3
        <4>2. buffer[new_base - base + i] = typed[base + (new_base - base + i)]
          BY <4>1 DEF IInv, NothingForgotten
        <4>3. QED
          BY <2>2, <2>3, <4>1, <4>2 DEF ReceiveAck
      <3>3. QED
        BY <3>1, <3>2 DEF NothingForgotten
    <2>6. QED
      BY <2>4, <2>5 DEF ReceiveAck, IInv, ExactStream, FramesTruthful
  <1>3. CASE ~(new_base > base)
    <2>1. UNCHANGED <<buffer, base>>
      BY <1>3 DEF ReceiveAck, OnAck
    <2>2. QED
      BY <2>1 DEF ReceiveAck, IInv, TypeOK, ExactStream, NothingForgotten, FramesTruthful
  <1>4. QED
    BY <1>2, <1>3

\* Every step of the channel preserves the inductive invariant.
LEMMA NextIInv == IInv /\ [Next]_vars => IInv'
  <1> SUFFICES ASSUME IInv, [Next]_vars PROVE IInv'
    OBVIOUS
  <1>1. ASSUME NEW b \in Bytes, Push(b) PROVE IInv'
    BY <1>1, PushIInv
  <1>2. CASE PollFrames
    BY <1>2, PollFramesIInv
  <1>3. CASE IngestAny
    BY <1>3, IngestIInv DEF IngestAny
  <1>4. CASE ReceiveAnyAck
    BY <1>4, ReceiveAckIInv DEF ReceiveAnyAck
  <1>5. ASSUME NEW f \in to_server, LoseInput(f) PROVE IInv'
    BY <1>5 DEF LoseInput, IInv, TypeOK, ExactStream, NothingForgotten, FramesTruthful
  <1>6. ASSUME NEW seq \in to_client, LoseAck(seq) PROVE IInv'
    BY <1>6 DEF LoseAck, IInv, TypeOK, ExactStream, NothingForgotten, FramesTruthful
  <1>7. CASE ShellReads
    <2>1. pty_unread' \in 0 .. PtyCapacity
      BY <1>7, PtyCapacityAssumption DEF ShellReads, IInv, TypeOK
    <2>2. QED
      BY <1>7, <2>1 DEF ShellReads, IInv, TypeOK, ExactStream, NothingForgotten, FramesTruthful
  <1>8. CASE UNCHANGED vars
    BY <1>8 DEF vars, IInv, TypeOK, ExactStream, NothingForgotten, FramesTruthful
  <1>9. QED
    BY <1>1, <1>2, <1>3, <1>4, <1>5, <1>6, <1>7, <1>8 DEF Next

\* The inductive invariant holds of every behaviour.
LEMMA ChannelIInv == Spec => []IInv
  BY InitIInv, NextIInv, PTL DEF Spec

\* Sender, receiver, PTY queue and links keep their types (input.rs:16-19, 62-64).
THEOREM ChannelTypeCorrect == Spec => []TypeOK
  BY ChannelIInv, PTL DEF IInv

\* ingest (input.rs:74-87) "reconstructs the exact contiguous stream regardless of
\* loss, reorder, or duplication", whatever is typed and however it is framed.
THEOREM ChannelExactStream == Spec => []ExactStream
  BY ChannelIInv, PTL DEF IInv

\* on_ack (input.rs:49-57) drains no byte the server has not got.
THEOREM ChannelNothingForgotten == Spec => []NothingForgotten
  BY ChannelIInv, PTL DEF IInv

\* However late a frame or ack is, it is still true of what was typed.
THEOREM ChannelFramesTruthful == Spec => []FramesTruthful
  BY ChannelIInv, PTL DEF IInv

-----------------------------------------------------------------------------

\* A step of the channel is a keystroke, a delivery or a stutter of the promise.
LEMMA StepRefines ==
    IInv /\ IInv' /\ [Next]_vars => [Stream!Next]_<<typed, delivered>>
  <1> SUFFICES ASSUME IInv, IInv', [Next]_vars
               PROVE  [Stream!Next]_<<typed, delivered>>
    OBVIOUS
  <1>1. ASSUME NEW b \in Bytes, Push(b) PROVE Stream!Next
    BY <1>1 DEF Push, Stream!Next, Stream!Type
  <1>2. ASSUME NEW f \in to_server, Ingest(f)
        PROVE  Stream!Next \/ UNCHANGED <<typed, delivered>>
    <2>1. /\ typed' = typed /\ typed \in Seq(Bytes) /\ Len(typed) \in Nat
          /\ delivered' \in Seq(Bytes) /\ received' \in Nat
          /\ Len(delivered') = received' /\ received' <= Len(typed)
          /\ \A i \in 1 .. received' : delivered'[i] = typed[i]
      BY <1>2, SMTT(30) DEF Ingest, IInv, TypeOK, ExactStream
    <2>2. delivered' = SubSeq(typed, 1, received')
      BY <2>1
    <2>3. CASE Fresh(f) = <<>>
      BY <1>2, <2>3 DEF Ingest, IInv, TypeOK
    <2>4. CASE Fresh(f) # <<>>
      <3>1. f \in InputFrames /\ f.offset \in Nat /\ Len(f.data) \in Nat
        BY DEF IInv, TypeOK, InputFrames
      <3>2. received < f.offset + Len(f.data)
        BY <2>4, <3>1, FreshFacts DEF IInv
      <3>3. received' = f.offset + Len(f.data)
        BY <1>2, <2>4 DEF Ingest
      <3>4. received \in Nat /\ Len(delivered) = received
        BY DEF IInv, TypeOK, ExactStream
      <3>5. received' \in Len(delivered) + 1 .. Len(typed)
        BY <2>1, <3>2, <3>3, <3>4
      <3>6. QED
        BY <2>1, <2>2, <3>5, Zenon DEF Stream!Next, Stream!Deliver
    <2>5. QED
      BY <2>3, <2>4
  <1>3. CASE PollFrames
    BY <1>3 DEF PollFrames
  <1>4. CASE ReceiveAnyAck
    BY <1>4 DEF ReceiveAnyAck, ReceiveAck
  <1>5. ASSUME NEW f \in to_server, LoseInput(f) PROVE UNCHANGED <<typed, delivered>>
    BY <1>5 DEF LoseInput
  <1>6. ASSUME NEW seq \in to_client, LoseAck(seq) PROVE UNCHANGED <<typed, delivered>>
    BY <1>6 DEF LoseAck
  <1>7. CASE ShellReads
    BY <1>7 DEF ShellReads
  <1>8. CASE UNCHANGED vars
    BY <1>8 DEF vars
  <1>9. QED
    BY <1>1, <1>2, <1>3, <1>4, <1>5, <1>6, <1>7, <1>8 DEF Next, IngestAny

\* The channel implements the safety part of InputStream: under any loss, reorder
\* or duplication, what the server hands over grows along what was typed.
THEOREM ChannelImplementsStream == Spec => Stream!Safety
  <1>1. Init => Stream!Init
    BY DEF Init, Stream!Init
  <1>2. QED
    BY <1>1, ChannelIInv, StepRefines, PTL DEF Spec, Stream!Safety

-----------------------------------------------------------------------------
\* File transfers (module Transfer).

\* One upload at a time: two of one path share a temporary file (temp_path, xfer.rs:52-59).
OneUpload == \A t, u \in Puts : t = u

WholeFiles == {Old} \cup {Whole(u) : u \in Puts}
Chunks == Puts \cup {"old", "zero"}
Servers == [session : BOOLEAN, status : {"opened", "active", "gone"}, inode : Nat, offset : Nat]
Clients == [sent_fin : BOOLEAN, result : {"running", "ok", "err"}, dest : WholeFiles]
Streams == [sent : Seq(Chunks), arrived : Nat, read : Seq(Chunks), fin : BOOLEAN,
            fin_known : BOOLEAN, answer : BOOLEAN, answer_known : BOOLEAN,
            fin_acked : SUBSET {"data", "answer"}, reset : {"none", "sent", "event", "lost"}]

\* The first part of t, as far as the sink has written it.
Part(t, n) == [i \in 1 .. n |-> t]

\* What the server's disk holds before, during and after the upload.
Untouched == [tmp |-> NoInode, dest |-> 1, data |-> <<Old>>]
Writing(t, n) == [tmp |-> 2, dest |-> 1, data |-> <<Old, Part(t, n)>>]
Landed(t) == [tmp |-> NoInode, dest |-> 2, data |-> <<Old, Whole(t)>>]

DiskOK ==
    \/ disk = Untouched
    \/ \E t \in Puts : disk = Landed(t) /\ server[t].status = "gone"
    \/ \E t \in Puts, n \in Nat :
          \/ disk = Writing(t, n) /\ server[t].status = "active"
          \/ disk = [Writing(t, n) EXCEPT !.tmp = NoInode] /\ server[t].status = "gone"

StreamOK(t) ==
    /\ Len(stream[t].read) <= stream[t].arrived /\ stream[t].arrived <= Len(stream[t].sent)
    /\ stream[t].fin_known => stream[t].fin

\* An upload: the end is sent after the whole file, and answered after the rename.
PutOK(t) ==
    /\ Len(stream[t].sent) <= Size
    /\ client[t].sent_fin => Len(stream[t].sent) = Size
    /\ stream[t].fin => client[t].sent_fin
    /\ server[t].status = "opened" => disk = Untouched /\ server[t].offset = 0 /\ stream[t].read = <<>>
    /\ server[t].status = "active" =>
          /\ server[t].inode = 2 /\ server[t].offset = Len(stream[t].read)
          /\ disk = Writing(t, server[t].offset)
    /\ stream[t].answer => disk = Landed(t)
    /\ stream[t].answer_known => stream[t].answer
    /\ client[t].result = "ok" => stream[t].answer_known

\* A download: it reads one inode, whose contents do not change any more.
GetOK(t) ==
    /\ server[t].status = "opened" => stream[t].sent = <<>> /\ server[t].offset = 0
    /\ server[t].status # "gone" => ~stream[t].fin
    /\ server[t].status = "active" =>
          /\ server[t].inode = 1 \/ (server[t].inode = 2 /\ disk.dest = 2)
          /\ server[t].offset <= Len(disk.data[server[t].inode])
          /\ stream[t].sent = SubSeq(disk.data[server[t].inode], 1, server[t].offset)
    /\ stream[t].fin => stream[t].sent \in WholeFiles
    /\ stream[t].read = SubSeq(stream[t].sent, 1, Len(stream[t].read))
    /\ client[t].result # "ok" => client[t].dest = Old

TransferTypeOK ==
    server \in [Transfers -> Servers] /\ client \in [Transfers -> Clients]
        /\ stream \in [Transfers -> Streams]

TransferIInv ==
    /\ TransferTypeOK /\ DiskOK
    /\ \A t \in Transfers : StreamOK(t)
    /\ \A t \in Puts : PutOK(t)
    /\ \A t \in Gets : GetOK(t)

\* A step of one transfer leaves the others alone; only the upload changes the disk, while
\* the old file is still in its place.
LEMMA OthersKeep ==
    ASSUME OneUpload, TransferIInv, NEW t \in Transfers, TransferTypeOK', DiskOK',
           \A x \in Transfers : x # t =>
               server'[x] = server[x] /\ client'[x] = client[x] /\ stream'[x] = stream[x],
           StreamOK(t)', t \in Puts => PutOK(t)', t \in Gets => GetOK(t)',
           \/ disk' = disk
           \/ t \in Puts /\ disk.dest = 1 /\ disk'.data[1] = disk.data[1]
    PROVE  TransferIInv'
  <1>1. ASSUME NEW x \in Transfers PROVE StreamOK(x)'
    BY <1>1 DEF TransferIInv, StreamOK
  <1>2. ASSUME NEW x \in Puts PROVE PutOK(x)'
    <2>1. CASE x # t
      <3>1. disk' = disk
        BY <2>1 DEF OneUpload
      <3>2. QED
        BY <2>1, <3>1 DEF TransferIInv, PutOK, Transfers
    <2>2. QED
      BY <2>1
  <1>3. ASSUME NEW x \in Gets PROVE GetOK(x)'
    <2>1. CASE x # t
      <3>1. GetOK(x) /\ server'[x] = server[x] /\ client'[x] = client[x] /\ stream'[x] = stream[x]
        BY <2>1 DEF TransferIInv, Transfers
      <3>2. CASE disk' = disk
        BY <3>1, <3>2, Zenon DEF GetOK
      <3>3. CASE disk.dest = 1 /\ disk'.data[1] = disk.data[1]
        BY <3>1, <3>3 DEF GetOK
      <3>4. QED
        BY <3>2, <3>3
    <2>2. QED
      BY <2>1
  <1>4. QED
    BY <1>1, <1>2, <1>3 DEF TransferIInv

\* What DiskOK says of the disk does not depend on the rest of the server's state.
LEMMA DiskKeeps ==
    ASSUME DiskOK, disk' = disk, \A x \in Puts : server'[x].status = server[x].status
    PROVE  DiskOK'
  BY DEF DiskOK

\* Something of a transfer's stream arrives, or is lost.
LEMMA StreamArrives ==
    ASSUME OneUpload, TransferIInv, NEW t \in Transfers, NEW f \in Streams,
           stream' = [stream EXCEPT ![t] = f], UNCHANGED <<disk, server, client>>,
           f.sent = stream[t].sent, f.read = stream[t].read, f.fin = stream[t].fin,
           f.answer = stream[t].answer, stream[t].arrived <= f.arrived,
           f.arrived <= Len(stream[t].sent), f.fin_known => f.fin,
           t \in Puts => (f.answer_known => f.answer), stream[t].answer_known => f.answer_known
    PROVE  TransferIInv'
  <1>1. stream \in [Transfers -> Streams] /\ stream[t] \in Streams
    BY DEF TransferIInv, TransferTypeOK
  <1>2. stream'[t] = f /\ \A x \in Transfers : x # t => stream'[x] = stream[x]
    BY <1>1
  <1>3. TransferTypeOK'
    BY <1>1 DEF TransferIInv, TransferTypeOK
  <1>4. StreamOK(t)'
    <2>1. Len(stream[t].read) <= stream[t].arrived
      BY DEF TransferIInv, StreamOK
    <2>2. Len(stream[t].read) \in Nat /\ stream[t].arrived \in Nat /\ f.arrived \in Nat
      BY <1>1 DEF Streams
    <2>3. QED
      BY <1>2, <2>1, <2>2 DEF StreamOK
  <1>5. ASSUME t \in Puts PROVE PutOK(t)'
    BY <1>2, <1>5 DEF TransferIInv, PutOK
  <1>6. ASSUME t \in Gets PROVE GetOK(t)'
    BY <1>2, <1>6, SMTT(30) DEF TransferIInv, GetOK
  <1>7. DiskOK'
    BY DiskKeeps DEF TransferIInv
  <1>8. QED
    BY <1>2, <1>3, <1>4, <1>5, <1>6, <1>7, OthersKeep

LEMMA DeliveryKeeps ==
    ASSUME OneUpload, TransferIInv, NEW t \in Transfers,
           \/ Arrive(t) \/ FinArrives(t) \/ AnswerArrives(t) \/ FinAcked(t)
           \/ ResetArrives(t) \/ ResetLost(t)
    PROVE  TransferIInv'
  <1> DEFINE s == stream[t]
  <1>1. s \in Streams /\ stream \in [Transfers -> Streams]
    BY DEF TransferIInv, TransferTypeOK
  <1>2. /\ s.arrived \in Nat /\ Len(s.sent) \in Nat /\ s.arrived <= Len(s.sent)
        /\ s.fin_known => s.fin
    BY <1>1 DEF TransferIInv, StreamOK, Streams
  <1>3. t \in Puts => (s.answer_known => s.answer)
    BY DEF TransferIInv, PutOK
  <1>4. UNCHANGED <<disk, server, client>>
    BY DEF Arrive, FinArrives, AnswerArrives, FinAcked, ResetArrives, ResetLost
  <1>5. CASE Arrive(t)
    <2>0. PICK n \in Nat : n = s.arrived + 1
      BY <1>2
    <2> DEFINE f == [s EXCEPT !.arrived = n]
    <2>1. stream' = [stream EXCEPT ![t] = f] /\ n <= Len(s.sent) /\ s.arrived <= n
      BY <1>2, <1>5, <2>0 DEF Arrive
    <2> HIDE DEF s
    <2>2. f \in Streams
      BY <1>1, <1>2, Zenon DEF Streams
    <2>3. /\ f.sent = s.sent /\ f.read = s.read /\ f.fin = s.fin /\ f.answer = s.answer
          /\ f.fin_known = s.fin_known /\ f.answer_known = s.answer_known /\ f.arrived = n
      BY <1>1 DEF Streams
    <2> HIDE DEF f
    <2>4. /\ s.arrived <= f.arrived /\ f.arrived <= Len(s.sent) /\ (f.fin_known => f.fin)
          /\ (t \in Puts => (f.answer_known => f.answer)) /\ (s.answer_known => f.answer_known)
      BY <1>2, <1>3, <2>1, <2>3
    <2>5. QED
      BY <1>4, <2>1, <2>2, <2>3, <2>4, StreamArrives, Zenon DEF s
  <1>6. CASE FinArrives(t)
    <2> DEFINE f == [s EXCEPT !.fin_known = TRUE]
    <2>1. stream' = [stream EXCEPT ![t] = f] /\ s.fin
      BY <1>6 DEF FinArrives
    <2> HIDE DEF s
    <2>2. f \in Streams
      BY <1>1, <1>2, Zenon DEF Streams
    <2>3. /\ f.sent = s.sent /\ f.read = s.read /\ f.fin = s.fin /\ f.answer = s.answer
          /\ f.arrived = s.arrived /\ f.answer_known = s.answer_known /\ f.fin_known = TRUE
      BY <1>1 DEF Streams
    <2> HIDE DEF f
    <2>4. /\ s.arrived <= f.arrived /\ f.arrived <= Len(s.sent) /\ (f.fin_known => f.fin)
          /\ (t \in Puts => (f.answer_known => f.answer)) /\ (s.answer_known => f.answer_known)
      BY <1>2, <1>3, <2>1, <2>3
    <2>5. QED
      BY <1>4, <2>1, <2>2, <2>3, <2>4, StreamArrives, Zenon DEF s
  <1>7. CASE AnswerArrives(t)
    <2> DEFINE f == [s EXCEPT !.answer_known = TRUE]
    <2>1. stream' = [stream EXCEPT ![t] = f] /\ s.answer
      BY <1>7 DEF AnswerArrives
    <2> HIDE DEF s
    <2>2. f \in Streams
      BY <1>1, <1>2, Zenon DEF Streams
    <2>3. /\ f.sent = s.sent /\ f.read = s.read /\ f.fin = s.fin /\ f.answer = s.answer
          /\ f.arrived = s.arrived /\ f.fin_known = s.fin_known /\ f.answer_known = TRUE
      BY <1>1 DEF Streams
    <2> HIDE DEF f
    <2>4. /\ s.arrived <= f.arrived /\ f.arrived <= Len(s.sent) /\ (f.fin_known => f.fin)
          /\ (t \in Puts => (f.answer_known => f.answer)) /\ (s.answer_known => f.answer_known)
      BY <1>2, <1>3, <2>1, <2>3
    <2>5. QED
      BY <1>4, <2>1, <2>2, <2>3, <2>4, StreamArrives, Zenon DEF s
  <1>8. CASE ResetArrives(t)
    <2> DEFINE f == [s EXCEPT !.reset = "event"]
    <2>1. stream' = [stream EXCEPT ![t] = f]
      BY <1>8 DEF ResetArrives
    <2> HIDE DEF s
    <2>2. f \in Streams
      BY <1>1, <1>2, Zenon DEF Streams
    <2>3. /\ f.sent = s.sent /\ f.read = s.read /\ f.fin = s.fin /\ f.answer = s.answer
          /\ f.arrived = s.arrived /\ f.fin_known = s.fin_known /\ f.answer_known = s.answer_known
      BY <1>1 DEF Streams
    <2> HIDE DEF f
    <2>4. /\ s.arrived <= f.arrived /\ f.arrived <= Len(s.sent) /\ (f.fin_known => f.fin)
          /\ (t \in Puts => (f.answer_known => f.answer)) /\ (s.answer_known => f.answer_known)
      BY <1>2, <1>3, <2>1, <2>3
    <2>5. QED
      BY <1>4, <2>1, <2>2, <2>3, <2>4, StreamArrives, Zenon DEF s
  <1>9. CASE ResetLost(t)
    <2> DEFINE f == [s EXCEPT !.reset = "lost"]
    <2>1. stream' = [stream EXCEPT ![t] = f]
      BY <1>9 DEF ResetLost
    <2> HIDE DEF s
    <2>2. f \in Streams
      BY <1>1, <1>2, Zenon DEF Streams
    <2>3. /\ f.sent = s.sent /\ f.read = s.read /\ f.fin = s.fin /\ f.answer = s.answer
          /\ f.arrived = s.arrived /\ f.fin_known = s.fin_known /\ f.answer_known = s.answer_known
      BY <1>1 DEF Streams
    <2> HIDE DEF f
    <2>4. /\ s.arrived <= f.arrived /\ f.arrived <= Len(s.sent) /\ (f.fin_known => f.fin)
          /\ (t \in Puts => (f.answer_known => f.answer)) /\ (s.answer_known => f.answer_known)
      BY <1>2, <1>3, <2>1, <2>3
    <2>5. QED
      BY <1>4, <2>1, <2>2, <2>3, <2>4, StreamArrives, Zenon DEF s
  <1>10. CASE FinAcked(t)
    <2>0. PICK way \in {"data", "answer"} : stream' = [stream EXCEPT ![t].fin_acked = @ \cup {way}]
      BY <1>10 DEF FinAcked
    <2> DEFINE f == [s EXCEPT !.fin_acked = s.fin_acked \cup {way}]
    <2>1. stream' = [stream EXCEPT ![t] = f]
      BY <2>0
    <2> HIDE DEF s
    <2>2. f \in Streams
      BY <1>1 DEF Streams
    <2>3. /\ f.sent = s.sent /\ f.read = s.read /\ f.fin = s.fin /\ f.answer = s.answer
          /\ f.arrived = s.arrived /\ f.fin_known = s.fin_known /\ f.answer_known = s.answer_known
      BY <1>1 DEF Streams
    <2> HIDE DEF f
    <2>4. /\ s.arrived <= f.arrived /\ f.arrived <= Len(s.sent) /\ (f.fin_known => f.fin)
          /\ (t \in Puts => (f.answer_known => f.answer)) /\ (s.answer_known => f.answer_known)
      BY <1>2, <1>3, <2>1, <2>3
    <2>5. QED
      BY <1>4, <2>1, <2>2, <2>3, <2>4, StreamArrives, Zenon DEF s
  <1>11. QED
    BY <1>5, <1>6, <1>7, <1>8, <1>9, <1>10


LEMMA ClientFailsKeeps ==
    ASSUME OneUpload, TransferIInv, NEW t \in Transfers, ClientFails(t)
    PROVE  TransferIInv'
  <1> DEFINE c == [client[t] EXCEPT !.result = "err"]
  <1>1. /\ client \in [Transfers -> Clients] /\ client[t] \in Clients
        /\ client' = [client EXCEPT ![t] = c] /\ client[t].result = "running"
        /\ UNCHANGED <<disk, server, stream>>
    BY DEF TransferIInv, TransferTypeOK, ClientFails
  <1>2. /\ c \in Clients /\ c.result = "err" /\ c.sent_fin = client[t].sent_fin
        /\ c.dest = client[t].dest
    BY <1>1 DEF Clients
  <1> HIDE DEF c
  <1>3. client'[t] = c /\ \A x \in Transfers : x # t => client'[x] = client[x]
    BY <1>1
  <1>4. TransferTypeOK' /\ DiskOK' /\ StreamOK(t)'
    BY <1>1, <1>2, DiskKeeps DEF TransferIInv, TransferTypeOK, StreamOK
  <1>5. ASSUME t \in Puts PROVE PutOK(t)'
    BY <1>1, <1>2, <1>3, <1>5 DEF TransferIInv, PutOK
  <1>6. ASSUME t \in Gets PROVE GetOK(t)'
    BY <1>1, <1>2, <1>3, <1>6, Zenon DEF TransferIInv, GetOK
  <1>7. QED
    BY <1>1, <1>3, <1>4, <1>5, <1>6, OthersKeep

LEMMA SessionVanishesKeeps ==
    ASSUME OneUpload, TransferIInv, NEW t \in Transfers, SessionVanishes(t)
    PROVE  TransferIInv'
  <1> DEFINE g == [server[t] EXCEPT !.session = FALSE]
  <1>1. /\ server \in [Transfers -> Servers] /\ server[t] \in Servers
        /\ server' = [server EXCEPT ![t] = g] /\ UNCHANGED <<disk, client, stream>>
    BY DEF TransferIInv, TransferTypeOK, SessionVanishes
  <1>2. /\ g \in Servers /\ g.status = server[t].status
        /\ g.inode = server[t].inode /\ g.offset = server[t].offset
    BY <1>1, Zenon DEF Servers
  <1> HIDE DEF g
  <1>3. server'[t] = g /\ \A x \in Transfers : x # t => server'[x] = server[x]
    BY <1>1
  <1>4. TransferTypeOK' /\ StreamOK(t)'
    BY <1>1, <1>2 DEF TransferIInv, TransferTypeOK, StreamOK
  <1>5. DiskOK'
    BY <1>1, <1>2, <1>3, DiskKeeps DEF TransferIInv, Transfers
  <1>6. ASSUME t \in Puts PROVE PutOK(t)'
    BY <1>1, <1>2, <1>3, <1>6 DEF TransferIInv, PutOK
  <1>7. ASSUME t \in Gets PROVE GetOK(t)'
    BY <1>1, <1>2, <1>3, <1>7, Zenon DEF TransferIInv, GetOK
  <1>8. QED
    BY <1>1, <1>3, <1>4, <1>5, <1>6, <1>7, OthersKeep

\* Files: the first part of one, and what a write at its end makes of it.
LEMMA FileFacts ==
    ASSUME NEW t \in Puts, NEW n \in Nat
    PROVE  /\ Part(t, n) \in Seq(Chunks) /\ Len(Part(t, n)) = n /\ Part(t, 0) = <<>>
           /\ Whole(t) = Part(t, Size)
           /\ \A c \in Nat : WriteAt(Part(t, n), n, c, t) = Part(t, n + c)
  <1>1. Part(t, n) \in [1 .. n -> Chunks]
    BY DEF Part, Chunks
  <1>2. Part(t, n) \in Seq(Chunks) /\ Len(Part(t, n)) = n
    BY <1>1
  <1>3. Part(t, 0) = <<>>
    <2>1. Part(t, 0) \in [1 .. 0 -> Chunks]
      BY DEF Part, Chunks
    <2>2. Part(t, 0) \in Seq(Chunks) /\ Len(Part(t, 0)) = 0
      BY <2>1
    <2>3. QED
      BY <2>2
  <1>4. ASSUME NEW c \in Nat PROVE WriteAt(Part(t, n), n, c, t) = Part(t, n + c)
    <2>1. CASE c = 0
      BY <2>1 DEF WriteAt
    <2>2. CASE c # 0
      <3>1. WriteAt(Part(t, n), n, c, t) =
              [i \in 1 .. n + c |-> IF i \in n + 1 .. n + c THEN t
                                    ELSE IF i <= n THEN Part(t, n)[i] ELSE "zero"]
        BY <1>2, <2>2 DEF WriteAt
      <3>2. \A i \in 1 .. n + c : i \notin n + 1 .. n + c => i <= n /\ Part(t, n)[i] = t
        BY DEF Part
      <3>3. [i \in 1 .. n + c |-> IF i \in n + 1 .. n + c THEN t
                                  ELSE IF i <= n THEN Part(t, n)[i] ELSE "zero"]
              = [i \in 1 .. n + c |-> t]
        BY <3>2
      <3>4. QED
        BY <3>1, <3>3 DEF Part
    <2>3. QED
      BY <2>1, <2>2
  <1>5. QED
    BY <1>2, <1>3, <1>4 DEF Whole, Part

LEMMA WholeFilesAreSeqs == WholeFiles \subseteq Seq(Chunks)
  <1>1. Old \in Seq(Chunks)
    BY DEF Old, Chunks
  <1>2. ASSUME NEW u \in Puts PROVE Whole(u) \in Seq(Chunks)
    BY FileFacts, TransferAssumption
  <1>3. QED
    BY <1>1, <1>2 DEF WholeFiles

\* The name of the destination is always that of a whole file.
LEMMA DiskFacts ==
    ASSUME DiskOK
    PROVE  /\ disk.dest \in {1, 2} /\ disk.data[1] = Old
           /\ disk.dest = 2 => \E u \in Puts : disk = Landed(u) /\ server[u].status = "gone"
           /\ disk.data[disk.dest] \in WholeFiles
  <1>1. CASE disk = Untouched
    BY <1>1 DEF Untouched, WholeFiles
  <1>2. ASSUME NEW t \in Puts, disk = Landed(t), server[t].status = "gone"
        PROVE  /\ disk.dest = 2 /\ disk.data[1] = Old /\ disk.data[2] \in WholeFiles
    BY <1>2 DEF Landed, WholeFiles
  <1>3. ASSUME NEW t \in Puts, NEW n \in Nat,
               disk = Writing(t, n) \/ disk = [Writing(t, n) EXCEPT !.tmp = NoInode]
        PROVE  disk.dest = 1 /\ disk.data[1] = Old
    BY <1>3 DEF Writing
  <1>4. Old \in WholeFiles
    BY DEF WholeFiles
  <1>5. QED
    BY <1>1, <1>2, <1>3, <1>4 DEF DiskOK


LEMMA AppendToOne ==
    ASSUME NEW a, NEW b
    PROVE  Append(<<a>>, b) = <<a, b>> /\ Len(<<a>>) + 1 = 2
  <1> DEFINE S == {a, b}
             p == Append(<<a>>, b)
             q == <<a, b>>
  <1>1. <<a>> \in Seq(S) /\ q \in Seq(S) /\ Len(<<a>>) = 1 /\ Len(q) = 2
    OBVIOUS
  <1>2. p \in Seq(S) /\ Len(p) = 2 /\ p[1] = a /\ p[2] = b
    BY <1>1
  <1>3. \A i \in 1 .. Len(p) : p[i] = q[i]
    BY <1>2
  <1> HIDE DEF p, q, S
  <1>4. p = q
    BY <1>1, <1>2, <1>3, SeqEqual
  <1>5. QED
    BY <1>1, <1>4 DEF p, q

LEMMA ExceptSecond ==
    ASSUME NEW a, NEW b, NEW c
    PROVE  [<<a, b>> EXCEPT ![2] = c] = <<a, c>>
  OBVIOUS

LEMMA ServerOpensKeeps ==
    ASSUME OneUpload, TransferIInv, NEW t \in Transfers, ServerOpens(t)
    PROVE  TransferIInv'
  <1>1. /\ server \in [Transfers -> Servers] /\ server[t] \in Servers
        /\ stream \in [Transfers -> Streams] /\ stream[t] \in Streams
        /\ client' = client /\ server[t].status = "opened"
    BY DEF TransferIInv, TransferTypeOK, ServerOpens
  <1>2. /\ t \in Puts => PutOK(t)
        /\ t \in Gets => GetOK(t)
        /\ DiskOK /\ StreamOK(t)
    BY DEF TransferIInv
  <1>3. ASSUME server' = [server EXCEPT ![t].status = "gone"],
               stream' = [stream EXCEPT ![t].reset = "sent"], disk' = disk
        PROVE  TransferIInv'
    <2> DEFINE g == [server[t] EXCEPT !.status = "gone"]
               f == [stream[t] EXCEPT !.reset = "sent"]
    <2>1. server' = [server EXCEPT ![t] = g] /\ stream' = [stream EXCEPT ![t] = f]
      BY <1>3
    <2>2. g \in Servers /\ g.status = "gone"
      BY <1>1 DEF Servers
    <2>3. f \in Streams
      BY <1>1, Zenon DEF Streams
    <2>4. /\ f.sent = stream[t].sent /\ f.read = stream[t].read /\ f.fin = stream[t].fin
          /\ f.answer = stream[t].answer /\ f.arrived = stream[t].arrived
          /\ f.fin_known = stream[t].fin_known /\ f.answer_known = stream[t].answer_known
      BY <1>1 DEF Streams
    <2> HIDE DEF f, g
    <2>5. /\ server'[t] = g /\ stream'[t] = f
          /\ \A x \in Transfers : x # t => server'[x] = server[x] /\ stream'[x] = stream[x]
      BY <1>1, <2>1
    <2>6. TransferTypeOK' /\ StreamOK(t)'
      BY <1>1, <1>2, <2>1, <2>2, <2>3, <2>4, <2>5 DEF TransferIInv, TransferTypeOK, StreamOK
    <2>7. DiskOK'
      <3>1. CASE t \in Puts
        BY <1>1, <1>2, <1>3, <3>1 DEF PutOK, DiskOK
      <3>2. CASE t \notin Puts
        BY <1>2, <1>3, <2>5, <3>2, DiskKeeps DEF Transfers
      <3>3. QED
        BY <3>1, <3>2
    <2>8. ASSUME t \in Puts PROVE PutOK(t)'
      BY <1>1, <1>2, <1>3, <2>2, <2>4, <2>5, <2>8 DEF PutOK
    <2>9. ASSUME t \in Gets PROVE GetOK(t)'
      BY <1>1, <1>2, <1>3, <2>2, <2>4, <2>5, <2>9 DEF GetOK
    <2>10. QED
      BY <1>1, <1>3, <2>5, <2>6, <2>7, <2>8, <2>9, OthersKeep
  <1>4. ASSUME t \in Puts, disk' = SinkCreate(disk), stream' = stream,
               server' = [server EXCEPT ![t].status = "active", ![t].inode = SinkCreate(disk).tmp]
        PROVE  TransferIInv'
    <2>1. disk = Untouched /\ server[t].offset = 0 /\ stream[t].read = <<>>
      BY <1>1, <1>2, <1>4 DEF PutOK
    <2>2. SinkCreate(disk) = Writing(t, 0)
      <3>1. SinkCreate(disk) = [tmp |-> 2, dest |-> 1, data |-> <<Old, <<>>>>]
        <4>1. Append(<<Old>>, <<>>) = <<Old, <<>>>> /\ Len(<<Old>>) + 1 = 2
          BY AppendToOne
        <4>2. disk = [tmp |-> NoInode, dest |-> 1, data |-> <<Old>>]
          BY <2>1 DEF Untouched
        <4>3. SinkCreate(disk) = [disk EXCEPT !.tmp = 2, !.data = <<Old, <<>>>>]
          BY <4>1, <4>2, Zenon DEF SinkCreate
        <4>4. QED
          BY <4>2, <4>3, Zenon
      <3>2. Part(t, 0) = <<>>
        BY <1>4, FileFacts
      <3>3. QED
        BY <3>1, <3>2 DEF Writing
    <2>3. Writing(t, 0).tmp = 2 /\ Writing(t, 0).data[1] = Old
      BY DEF Writing
    <2> DEFINE g == [server[t] EXCEPT !.status = "active", !.inode = 2]
    <2>4. server' = [server EXCEPT ![t] = g]
      BY <1>1, <1>4, <2>2, <2>3, Zenon
    <2>5. g \in Servers /\ g.status = "active" /\ g.inode = 2 /\ g.offset = 0
      BY <1>1, <2>1, Zenon DEF Servers
    <2> HIDE DEF g
    <2>6. server'[t] = g /\ \A x \in Transfers : x # t => server'[x] = server[x]
      BY <1>1, <2>4
    <2>7. TransferTypeOK' /\ StreamOK(t)'
      BY <1>1, <1>2, <1>4, <2>4, <2>5, Zenon DEF TransferIInv, TransferTypeOK, StreamOK
    <2>8. DiskOK'
      <3>1. disk' = Writing(t, 0) /\ server'[t].status = "active" /\ 0 \in Nat
        BY <1>4, <2>2, <2>5, <2>6
      <3>2. QED
        BY <1>4, <3>1, Zenon DEF DiskOK
    <2>9. PutOK(t)'
      <3>1. ~stream[t].answer
        BY <1>2, <1>4, <2>1 DEF PutOK, Untouched, Landed
      <3>2. Len(stream[t].read) = 0
        BY <2>1
      <3>3. QED
        BY <1>1, <1>2, <1>4, <2>2, <2>5, <2>6, <3>1, <3>2, Zenon DEF PutOK
    <2>10. t \notin Gets
      BY <1>4, TransferAssumption
    <2>11. disk.dest = 1 /\ disk.data[1] = Old /\ disk'.data[1] = Old
      BY <1>4, <2>1, <2>2, <2>3 DEF Untouched
    <2>12. QED
      BY <1>1, <1>4, <2>6, <2>7, <2>8, <2>9, <2>10, <2>11, OthersKeep
  <1>5. ASSUME t \notin Puts, disk' = disk, stream' = stream,
               server' = [server EXCEPT ![t].status = "active", ![t].inode = disk.dest]
        PROVE  TransferIInv'
    <2> DEFINE g == [server[t] EXCEPT !.status = "active", !.inode = disk.dest]
    <2>1. /\ disk.dest \in {1, 2} /\ disk.data[disk.dest] \in WholeFiles
          /\ t \in Gets /\ GetOK(t)
      BY <1>2, <1>5, DiskFacts DEF Transfers
    <2>2. server' = [server EXCEPT ![t] = g]
      BY <1>1, <1>5, Zenon
    <2>3. g \in Servers /\ g.status = "active" /\ g.inode = disk.dest /\ g.offset = server[t].offset
      <3>1. disk.dest \in Nat
        BY <2>1
      <3>2. g \in Servers
        BY <1>1, <3>1, Zenon DEF Servers
      <3>3. QED
        BY <1>1, <3>1, <3>2 DEF Servers
    <2> HIDE DEF g
    <2>4. server'[t] = g /\ \A x \in Transfers : x # t => server'[x] = server[x]
      BY <1>1, <2>2
    <2>5. TransferTypeOK' /\ StreamOK(t)'
      BY <1>1, <1>2, <1>5, <2>2, <2>3, Zenon DEF TransferIInv, TransferTypeOK, StreamOK
    <2>6. DiskOK'
      BY <1>2, <1>5, <2>4, DiskKeeps, Zenon DEF Transfers
    <2>7. GetOK(t)'
      <3> DEFINE file == disk.data[disk.dest]
      <3>1. file \in Seq(Chunks) /\ Len(file) >= 0 /\ SubSeq(file, 1, 0) = <<>>
        BY <2>1, WholeFilesAreSeqs, SubSeqEmpty
      <3> HIDE DEF file
      <3>2. stream[t].sent = <<>> /\ g.offset = 0
        BY <1>1, <2>1, <2>3 DEF GetOK
      <3>3. QED
        BY <1>1, <1>5, <2>1, <2>3, <2>4, <3>1, <3>2, Zenon DEF GetOK, file
    <2>8. QED
      BY <1>1, <1>5, <2>1, <2>4, <2>5, <2>6, <2>7, OthersKeep
  <1>6. QED
    BY <1>3, <1>4, <1>5 DEF ServerOpens

\* A step of the upload: it goes on, has landed or is dropped.
LEMMA UploadStep ==
    ASSUME OneUpload, TransferIInv, NEW t \in Puts, server[t].status = "active",
           NEW g \in Servers, server' = [server EXCEPT ![t] = g], client' = client,
           NEW f \in Streams, stream' = [stream EXCEPT ![t] = f],
           f.sent = stream[t].sent, f.arrived = stream[t].arrived, f.fin = stream[t].fin,
           f.fin_known = stream[t].fin_known, f.answer_known = stream[t].answer_known,
           Len(f.read) <= f.arrived,
           \/ /\ g.status = "active" /\ g.inode = 2 /\ g.offset = Len(f.read)
              /\ disk' = Writing(t, g.offset) /\ ~f.answer
           \/ g.status = "gone" /\ f.answer /\ disk' = Landed(t)
           \/ /\ g.status = "gone" /\ ~f.answer
              /\ \E n \in Nat : disk' = [Writing(t, n) EXCEPT !.tmp = NoInode]
    PROVE  TransferIInv'
  <1>1. /\ server \in [Transfers -> Servers] /\ stream \in [Transfers -> Streams]
        /\ t \in Transfers /\ t \notin Gets /\ PutOK(t) /\ StreamOK(t)
    BY TransferAssumption DEF TransferIInv, TransferTypeOK, Transfers
  <1>2. /\ server'[t] = g /\ stream'[t] = f
        /\ \A x \in Transfers : x # t => server'[x] = server[x] /\ stream'[x] = stream[x]
    BY <1>1
  <1>3. TransferTypeOK' /\ StreamOK(t)'
    BY <1>1, <1>2 DEF TransferIInv, TransferTypeOK, StreamOK
  <1>4. disk.dest = 1 /\ disk.data[1] = Old /\ disk'.data[1] = Old
    <2>1. disk = Writing(t, server[t].offset)
      BY <1>1 DEF PutOK
    <2>2. \A n \in Nat : [Writing(t, n) EXCEPT !.tmp = NoInode].data[1] = Old
      BY DEF Writing
    <2>3. Landed(t).data[1] = Old /\ Writing(t, g.offset).data[1] = Old
      BY DEF Writing, Landed
    <2>4. QED
      BY <2>1, <2>2, <2>3, Zenon DEF Writing
  <1>5. DiskOK'
    <2>1. g.offset \in Nat
      BY DEF Servers
    <2>2. QED
      BY <1>2, <2>1 DEF DiskOK
  <1>6. ~stream[t].answer /\ ~stream[t].answer_known /\ client[t].result # "ok"
    BY <1>1, <1>4 DEF PutOK, Landed
  <1>7. PutOK(t)'
    BY <1>1, <1>2, <1>6 DEF PutOK
  <1>8. QED
    BY <1>1, <1>2, <1>3, <1>4, <1>5, <1>7, OthersKeep


\* What NewChunks is: what has arrived and was not read.
LEMMA NewChunksFacts ==
    ASSUME TransferIInv, NEW t \in Transfers
    PROVE  /\ NewChunks(t) \in Seq(Chunks)
           /\ Len(NewChunks(t)) = stream[t].arrived - Len(stream[t].read)
           /\ stream[t].read \o NewChunks(t) \in Seq(Chunks)
           /\ Len(stream[t].read \o NewChunks(t)) = stream[t].arrived
  <1> DEFINE s == stream[t]
             m == Len(s.read) + 1
  <1>1. s \in Streams
    BY DEF TransferIInv, TransferTypeOK
  <1>2. /\ s.sent \in Seq(Chunks) /\ s.read \in Seq(Chunks) /\ s.arrived \in Nat
        /\ Len(s.read) \in Nat /\ Len(s.sent) \in Nat
        /\ Len(s.read) <= s.arrived /\ s.arrived <= Len(s.sent)
    BY <1>1 DEF Streams, TransferIInv, StreamOK
  <1>3. NewChunks(t) = SubSeq(s.sent, m, s.arrived)
    BY DEF NewChunks
  <1> HIDE DEF s
  <1>4. /\ m \in Int /\ s.arrived \in Int /\ \A i \in m .. s.arrived : s.sent[i] \in Chunks
        /\ s.arrived - m + 1 = s.arrived - Len(s.read)
        /\ m <= s.arrived \/ s.arrived - Len(s.read) = 0
    BY <1>2
  <1> HIDE DEF m
  <1>5. /\ NewChunks(t) \in Seq(Chunks)
        /\ Len(NewChunks(t)) = IF m <= s.arrived THEN s.arrived - m + 1 ELSE 0
    BY <1>3, <1>4, SubSeqProperties
  <1>6. Len(NewChunks(t)) = s.arrived - Len(s.read)
    BY <1>2, <1>4, <1>5 DEF m
  <1>7. /\ s.read \o NewChunks(t) \in Seq(Chunks)
        /\ Len(s.read \o NewChunks(t)) = Len(s.read) + Len(NewChunks(t))
    BY <1>2, <1>5, ConcatProperties
  <1>8. QED
    BY <1>2, <1>5, <1>6, <1>7 DEF s

LEMMA PumpPutKeeps ==
    ASSUME OneUpload, TransferIInv, NEW t \in Puts, server[t].status = "active", PumpPut(t),
           client' = client
    PROVE  TransferIInv'
  <1> DEFINE fresh == NewChunks(t)
             count == Len(fresh)
             n == server[t].offset
             s == stream[t]
  <1>1. /\ server \in [Transfers -> Servers] /\ server[t] \in Servers
        /\ stream \in [Transfers -> Streams] /\ s \in Streams /\ t \in Transfers
        /\ PutOK(t) /\ StreamOK(t)
    BY DEF TransferIInv, TransferTypeOK, Transfers
  <1>2. /\ n \in Nat /\ server[t].inode = 2 /\ n = Len(s.read) /\ disk = Writing(t, n)
        /\ s.arrived \in Nat /\ Len(s.sent) \in Nat
    BY <1>1 DEF PutOK, Servers, Streams
  <1>3. /\ count \in Nat /\ n + count = s.arrived /\ n <= s.arrived
        /\ s.read \o fresh \in Seq(Chunks) /\ Len(s.read \o fresh) = s.arrived
    BY <1>1, <1>2, NewChunksFacts DEF StreamOK
  <1>4. SinkWrite(disk, t, count) = Writing(t, s.arrived)
    <2>1. WriteAt(Part(t, n), n, count, t) = Part(t, s.arrived)
      BY <1>2, <1>3, FileFacts, Zenon
    <2>2. disk = [tmp |-> 2, dest |-> 1, data |-> <<Old, Part(t, n)>>]
      BY <1>2 DEF Writing
    <2>3. SinkWrite(disk, t, count) = [disk EXCEPT !.data[2] = WriteAt(disk.data[2], n, count, t)]
      BY <1>2 DEF SinkWrite
    <2>4. disk.data[2] = Part(t, n)
      BY <2>2
    <2>5. SinkWrite(disk, t, count) = [disk EXCEPT !.data[2] = Part(t, s.arrived)]
      BY <2>1, <2>3, <2>4
    <2>6. [disk.data EXCEPT ![2] = Part(t, s.arrived)] = <<Old, Part(t, s.arrived)>>
      BY <2>2, ExceptSecond
    <2>7. QED
      BY <2>2, <2>5, <2>6 DEF Writing
  <1> HIDE DEF fresh, count, n, s
  <1>5. PICK write_fails \in BOOLEAN, rename_fails \in BOOLEAN :
          LET abort == write_fails /\ fresh # <<>>
              written == IF abort THEN disk ELSE SinkWrite(disk, t, count)
              done == abort \/ DataFinished(t)
              lands == done /\ ~abort /\ Renames(written) /\ ~rename_fails
          IN  /\ disk' = IF ~done THEN written
                         ELSE IF lands THEN SinkFinalize(written) ELSE SinkDrop(written)
              /\ server' = [server EXCEPT ![t].offset = n + count,
                                          ![t].status = IF done THEN "gone" ELSE "active"]
              /\ stream' = [stream EXCEPT ![t].read = s.read \o fresh,
                                          ![t].answer = lands,
                                          ![t].reset = IF done /\ ~lands THEN "sent" ELSE s.reset]
    BY <1>1, ZenonT(60) DEF PumpPut, fresh, count, n, s
  <1> DEFINE abort == write_fails /\ fresh # <<>>
             written == IF abort THEN disk ELSE SinkWrite(disk, t, count)
             done == abort \/ DataFinished(t)
             lands == done /\ ~abort /\ Renames(written) /\ ~rename_fails
             g == [server[t] EXCEPT !.offset = n + count, !.status = IF done THEN "gone" ELSE "active"]
             f == [s EXCEPT !.read = s.read \o fresh, !.answer = lands,
                            !.reset = IF done /\ ~lands THEN "sent" ELSE s.reset]
  <1>6. /\ disk' = IF ~done THEN written
                   ELSE IF lands THEN SinkFinalize(written) ELSE SinkDrop(written)
        /\ server' = [server EXCEPT ![t] = g] /\ stream' = [stream EXCEPT ![t] = f]
    BY <1>1, <1>5, Zenon DEF s
  <1>7. /\ done \in BOOLEAN /\ lands \in BOOLEAN /\ (lands => done)
        /\ abort => written = Writing(t, n)
        /\ ~abort => written = Writing(t, s.arrived)
        /\ lands => written = Writing(t, Size)
    <2>1. DataFinished(t) => s.arrived = Size
      BY <1>1 DEF DataFinished, StreamOK, PutOK, s
    <2>2. QED
      BY <1>2, <1>4, <2>1 DEF Renames
  <1>8. \E m \in Nat : written = Writing(t, m)
    BY <1>2, <1>7
  <1>9. SinkFinalize(Writing(t, Size)) = Landed(t)
    <2>1. Writing(t, Size) = [tmp |-> 2, dest |-> 1, data |-> <<Old, Whole(t)>>]
      BY FileFacts, TransferAssumption, Zenon DEF Writing
    <2>2. PICK w : w = Writing(t, Size)
      OBVIOUS
    <2>3. SinkFinalize(w) = [w EXCEPT !.dest = w.tmp, !.tmp = NoInode]
      BY DEF SinkFinalize
    <2>4. [w EXCEPT !.dest = w.tmp, !.tmp = NoInode]
            = [tmp |-> NoInode, dest |-> 2, data |-> <<Old, Whole(t)>>]
      <3>1. PICK data : data = <<Old, Whole(t)>>
        BY Zenon
      <3>2. w = [tmp |-> 2, dest |-> 1, data |-> data]
        BY <2>1, <2>2, <3>1
      <3>3. [w EXCEPT !.dest = w.tmp, !.tmp = NoInode] = [tmp |-> NoInode, dest |-> 2, data |-> data]
        <4>1. PICK u : u = [w EXCEPT !.dest = 2]
          BY Zenon
        <4>2. u = [tmp |-> 2, dest |-> 2, data |-> data]
          BY <3>2, <4>1
        <4>3. [u EXCEPT !.tmp = NoInode] = [tmp |-> NoInode, dest |-> 2, data |-> data]
          BY <4>2
        <4>4. w.tmp = 2
          BY <3>2
        <4>5. QED
          BY <4>1, <4>3, <4>4
      <3>4. QED
        BY <3>1, <3>3
    <2>5. QED
      BY <2>2, <2>3, <2>4 DEF Landed
  <1> HIDE DEF done, lands, written, abort
  <1>10. g \in Servers /\ g.inode = 2 /\ g.offset = s.arrived /\ g.status = IF done THEN "gone" ELSE "active"
    <2>1. g \in Servers
      BY <1>1, <1>2, <1>3, Zenon DEF Servers
    <2>2. QED
      BY <1>1, <1>2, <1>3, <2>1 DEF Servers
  <1>11. f \in Streams
    BY <1>1, <1>3, <1>7, Zenon DEF Streams
  <1>12. /\ f.sent = s.sent /\ f.arrived = s.arrived /\ f.fin = s.fin /\ f.fin_known = s.fin_known
         /\ f.answer_known = s.answer_known /\ f.read = s.read \o fresh /\ f.answer = lands
    BY <1>1 DEF Streams
  <1> HIDE DEF f, g
  <1>13. Len(f.read) = f.arrived
    BY <1>3, <1>12
  <1>14. \/ /\ g.status = "active" /\ g.inode = 2 /\ g.offset = Len(f.read)
            /\ disk' = Writing(t, g.offset) /\ ~f.answer
         \/ g.status = "gone" /\ f.answer /\ disk' = Landed(t)
         \/ /\ g.status = "gone" /\ ~f.answer
            /\ \E m \in Nat : disk' = [Writing(t, m) EXCEPT !.tmp = NoInode]
    <2>1. CASE ~done
      <3>1. ~abort
        BY <2>1 DEF done
      <3>2. QED
        BY <1>3, <1>6, <1>7, <1>10, <1>12, <2>1, <3>1
    <2>2. CASE done /\ lands
      BY <1>6, <1>7, <1>9, <1>10, <1>12, <2>2
    <2>3. CASE done /\ ~lands
      <3>1. disk' = SinkDrop(written) /\ g.status = "gone" /\ ~f.answer
        BY <1>6, <1>10, <1>12, <2>3
      <3>2. QED
        BY <1>8, <3>1 DEF SinkDrop
    <2>4. QED
      BY <2>1, <2>2, <2>3
  <1>15. QED
    <2>1. Len(f.read) <= f.arrived
      BY <1>2, <1>12, <1>13
    <2>2. /\ f.sent = stream[t].sent /\ f.arrived = stream[t].arrived /\ f.fin = stream[t].fin
          /\ f.fin_known = stream[t].fin_known /\ f.answer_known = stream[t].answer_known
      BY <1>12 DEF s
    <2>3. QED
      BY <1>6, <1>10, <1>11, <1>14, <2>1, <2>2, UploadStep, Zenon

\* Sequences that agree up to k have the same prefix of that length.
LEMMA SamePrefix ==
    ASSUME NEW S, NEW a \in Seq(S), NEW b \in Seq(S), NEW k \in Nat, k <= Len(a), k <= Len(b),
           \A i \in 1 .. k : a[i] = b[i]
    PROVE  SubSeq(a, 1, k) = SubSeq(b, 1, k)
  <1> DEFINE p == SubSeq(a, 1, k)
             q == SubSeq(b, 1, k)
  <1>1. \A i \in 1 .. k : a[i] \in S /\ b[i] \in S
    OBVIOUS
  <1>2. /\ p \in Seq(S) /\ Len(p) = IF 1 <= k THEN k - 1 + 1 ELSE 0
        /\ \A i \in 1 .. k - 1 + 1 : p[i] = a[1 + i - 1]
    BY <1>1, SubSeqProperties
  <1>3. /\ q \in Seq(S) /\ Len(q) = IF 1 <= k THEN k - 1 + 1 ELSE 0
        /\ \A i \in 1 .. k - 1 + 1 : q[i] = b[1 + i - 1]
    BY <1>1, SubSeqProperties
  <1> HIDE DEF p, q
  <1>4. Len(p) = k /\ Len(q) = k /\ \A i \in 1 .. k : p[i] = a[i] /\ q[i] = b[i]
    BY <1>2, <1>3
  <1>5. p = q
    BY <1>2, <1>3, <1>4, SeqEqual
  <1>6. QED
    BY <1>5 DEF p, q

\* A download sends the next chunk of its file, or has sent all of it, or fails.
LEMMA PumpGetKeeps ==
    ASSUME OneUpload, TransferIInv, NEW t \in Gets, server[t].status = "active", PumpGet(t),
           client' = client
    PROVE  TransferIInv'
  <1> DEFINE file == disk.data[server[t].inode]
             n == server[t].offset
             s == stream[t]
  <1>1. /\ server \in [Transfers -> Servers] /\ server[t] \in Servers /\ n \in Nat
        /\ stream \in [Transfers -> Streams] /\ s \in Streams /\ t \in Transfers
        /\ GetOK(t) /\ StreamOK(t) /\ DiskOK /\ t \notin Puts
    BY TransferAssumption DEF TransferIInv, TransferTypeOK, Transfers, Servers
  <1>2. file \in WholeFiles /\ file \in Seq(Chunks) /\ Len(file) \in Nat
    <2>1. server[t].inode = 1 \/ (server[t].inode = 2 /\ disk.dest = 2)
      BY <1>1 DEF GetOK
    <2>2. file \in WholeFiles
      BY <1>1, <2>1, DiskFacts, Zenon DEF WholeFiles
    <2>3. QED
      BY <2>2, WholeFilesAreSeqs
  <1>3. n <= Len(file) /\ s.sent = SubSeq(file, 1, n) /\ ~s.fin /\ ~s.fin_known
    BY <1>1 DEF GetOK, StreamOK
  <1>4. disk' = disk
    BY Zenon DEF PumpGet
  <1>5. PICK fails \in BOOLEAN :
          LET ends == ~fails /\ n >= Len(file)
          IN  /\ server' = [server EXCEPT ![t].status = IF ends \/ fails THEN "gone" ELSE "active",
                                          ![t].offset = IF ends \/ fails THEN n ELSE n + 1]
              /\ stream' = [stream EXCEPT
                               ![t].sent = IF ends \/ fails THEN s.sent
                                           ELSE Append(s.sent, file[n + 1]),
                               ![t].fin = ends,
                               ![t].reset = IF fails THEN "sent" ELSE s.reset]
    BY <1>1, Zenon DEF PumpGet
  <1> DEFINE ends == ~fails /\ n >= Len(file)
             next == ~(ends \/ fails)
             sent == IF next THEN Append(s.sent, file[n + 1]) ELSE s.sent
             g == [server[t] EXCEPT !.status = IF next THEN "active" ELSE "gone",
                                    !.offset = IF next THEN n + 1 ELSE n]
             f == [s EXCEPT !.sent = sent, !.fin = ends, !.reset = IF fails THEN "sent" ELSE s.reset]
  <1>6. server' = [server EXCEPT ![t] = g] /\ stream' = [stream EXCEPT ![t] = f]
    BY <1>1, <1>5, Zenon
  <1> HIDE DEF file, n, s
  <1>7. /\ s.sent \in Seq(Chunks) /\ s.read \in Seq(Chunks) /\ Len(s.sent) = n
        /\ s.arrived \in Nat /\ Len(s.read) \in Nat /\ Len(s.read) <= s.arrived /\ s.arrived <= n
        /\ s.read = SubSeq(s.sent, 1, Len(s.read))
        /\ ends \in BOOLEAN
    <2>1. \A i \in 1 .. n : file[i] \in Chunks
      BY <1>1, <1>2, <1>3
    <2>2. Len(SubSeq(file, 1, n)) = IF 1 <= n THEN n - 1 + 1 ELSE 0
      BY <1>1, <2>1, SubSeqProperties
    <2>3. Len(s.sent) = n
      BY <1>1, <1>3, <2>2
    <2>4. QED
      BY <1>1, <2>3, SMTT(30) DEF Streams, StreamOK, GetOK, s
  <1>8. next => n + 1 <= Len(file) /\ file[n + 1] \in Chunks
    BY <1>1, <1>2, <1>3
  <1>9. /\ sent \in Seq(Chunks) /\ Len(sent) = (IF next THEN n + 1 ELSE n)
        /\ \A i \in 1 .. n : sent[i] = s.sent[i]
    BY <1>1, <1>7, <1>8
  <1>10. next => sent = SubSeq(file, 1, n + 1)
    <2> SUFFICES ASSUME next PROVE sent = SubSeq(file, 1, n + 1)
      BY Zenon
    <2> DEFINE q == SubSeq(file, 1, n + 1)
    <2>1. \A i \in 1 .. n : s.sent[i] = file[i]
      <3>1. \A i \in 1 .. n : file[i] \in Chunks
        BY <1>1, <1>2, <1>3
      <3>2. \A i \in 1 .. n - 1 + 1 : SubSeq(file, 1, n)[i] = file[1 + i - 1]
        BY <1>1, <3>1, SubSeqProperties
      <3>3. QED
        BY <1>1, <1>3, <3>2
    <2>2. /\ q \in Seq(Chunks) /\ Len(q) = n + 1
          /\ \A i \in 1 .. n + 1 : q[i] = file[i]
      <3>1. PICK m \in Nat : m = n + 1
        BY <1>1
      <3>2. \A i \in 1 .. m : file[i] \in Chunks
        BY <1>1, <1>2, <1>8, <3>1
      <3>3. /\ SubSeq(file, 1, m) \in Seq(Chunks)
            /\ Len(SubSeq(file, 1, m)) = IF 1 <= m THEN m - 1 + 1 ELSE 0
            /\ \A i \in 1 .. m - 1 + 1 : SubSeq(file, 1, m)[i] = file[1 + i - 1]
        BY <3>2, SubSeqProperties
      <3>4. q = SubSeq(file, 1, m)
        BY <3>1
      <3> HIDE DEF q
      <3>5. q \in Seq(Chunks) /\ Len(q) = m /\ \A i \in 1 .. m : q[i] = file[i]
        BY <1>1, <3>1, <3>3, <3>4
      <3>6. QED
        BY <3>1, <3>5
    <2> HIDE DEF q
    <2>3. sent[n + 1] = file[n + 1]
      BY <1>7, <1>8
    <2> HIDE DEF sent, next
    <2>4. \A i \in 1 .. Len(sent) : sent[i] = q[i]
      BY <1>1, <1>9, <2>1, <2>2, <2>3
    <2>5. sent = q
      BY <1>9, <2>2, <2>4, SeqEqual
    <2>6. QED
      BY <2>5 DEF q
  <1>11. ends => sent = file
    BY <1>1, <1>2, <1>3, SubSeqFull
  <1>12. s.read = SubSeq(sent, 1, Len(s.read))
    <2> DEFINE k == Len(s.read)
    <2>1. k \in Nat /\ k <= n /\ s.read = SubSeq(s.sent, 1, k)
      BY <1>1, <1>7
    <2> HIDE DEF k, sent
    <2>2. SubSeq(sent, 1, k) = SubSeq(s.sent, 1, k)
      BY <1>1, <1>7, <1>9, <2>1, SamePrefix
    <2>3. QED
      BY <2>1, <2>2 DEF k
  <1>13. g \in Servers
    <2>1. PICK m \in Nat : m = IF next THEN n + 1 ELSE n
      BY <1>1
    <2>2. g = [server[t] EXCEPT !.status = IF next THEN "active" ELSE "gone", !.offset = m]
      BY <2>1
    <2> HIDE DEF next, g
    <2>3. QED
      BY <1>1, <2>2, Zenon DEF Servers
  <1>14. /\ g.status = (IF next THEN "active" ELSE "gone") /\ g.offset = (IF next THEN n + 1 ELSE n)
         /\ g.inode = server[t].inode
    BY <1>1 DEF Servers
  <1> HIDE DEF sent, ends, next
  <1>15. f \in Streams
    BY <1>1, <1>7, <1>9, Zenon DEF Streams
  <1>16. /\ f.sent = sent /\ f.arrived = s.arrived /\ f.read = s.read /\ f.fin = ends
         /\ f.fin_known = s.fin_known
    BY <1>1 DEF Streams
  <1> HIDE DEF f, g
  <1>17. /\ server'[t] = g /\ stream'[t] = f
         /\ \A x \in Transfers : x # t => server'[x] = server[x] /\ stream'[x] = stream[x]
    BY <1>1, <1>6
  <1>18. TransferTypeOK'
    BY <1>1, <1>6, <1>13, <1>15 DEF TransferIInv, TransferTypeOK
  <1>19. StreamOK(t)'
    BY <1>1, <1>3, <1>7, <1>9, <1>16, <1>17, SMTT(30) DEF StreamOK
  <1>20. DiskOK'
    BY <1>1, <1>4, <1>17, DiskKeeps DEF Transfers
  <1>21. GetOK(t)'
    <2>1. next => ~ends
      BY DEF next
    <2>2. /\ client[t].result # "ok" => client[t].dest = Old
          /\ server[t].inode = 1 \/ (server[t].inode = 2 /\ disk.dest = 2)
      BY <1>1, Zenon DEF GetOK
    <2>3. next => n + 1 <= Len(file) /\ sent = SubSeq(file, 1, n + 1)
      BY <1>8, <1>10
    <2>4. QED
      BY <1>2, <1>4, <1>11, <1>12, <1>14, <1>16, <1>17, <2>1, <2>2, <2>3, Zenon DEF GetOK, file
  <1>22. QED
    BY <1>1, <1>4, <1>17, <1>18, <1>19, <1>20, <1>21, OthersKeep


LEMMA ServerPumpKeeps ==
    ASSUME OneUpload, TransferIInv, NEW t \in Transfers, ServerPump(t)
    PROVE  TransferIInv'
  <1>1. /\ server \in [Transfers -> Servers] /\ server[t] \in Servers
        /\ stream \in [Transfers -> Streams] /\ stream[t] \in Streams
        /\ server[t].status = "active" /\ client' = client /\ StreamOK(t)
    BY DEF TransferIInv, TransferTypeOK, ServerPump
  <1>2. CASE server[t].session /\ t \in Puts
    BY <1>1, <1>2, PumpPutKeeps DEF ServerPump
  <1>3. CASE server[t].session /\ t \notin Puts
    BY <1>1, <1>3, PumpGetKeeps DEF ServerPump, Transfers
  <1>4. CASE ~server[t].session
    <2> DEFINE g == [server[t] EXCEPT !.status = "gone"]
    <2>1. /\ server' = [server EXCEPT ![t] = g] /\ stream' = stream
          /\ disk' = IF t \in Puts THEN SinkDrop(disk) ELSE disk
      BY <1>4 DEF ServerPump
    <2>2. g \in Servers /\ g.status = "gone"
      BY <1>1 DEF Servers
    <2> HIDE DEF g
    <2>3. CASE t \in Puts
      <3>1. PutOK(t) /\ server[t].offset \in Nat /\ disk = Writing(t, server[t].offset)
        BY <1>1, <2>3, Zenon DEF TransferIInv, PutOK, Servers
      <3>2. \E n \in Nat : disk' = [Writing(t, n) EXCEPT !.tmp = NoInode]
        BY <2>1, <2>3, <3>1 DEF SinkDrop
      <3>3. ~stream[t].answer
        <4>1. disk.dest = 1 /\ Landed(t).dest = 2
          BY <3>1 DEF Writing, Landed
        <4>2. QED
          BY <3>1, <4>1, SMTT(30) DEF PutOK
      <3>4. stream' = [stream EXCEPT ![t] = stream[t]] /\ Len(stream[t].read) <= stream[t].arrived
        BY <1>1, <2>1 DEF StreamOK
      <3>5. QED
        BY <1>1, <2>1, <2>2, <2>3, <3>2, <3>3, <3>4, UploadStep, Zenon
    <2>4. CASE t \notin Puts
      <3>1. server'[t] = g /\ \A x \in Transfers : x # t => server'[x] = server[x]
        BY <1>1, <2>1
      <3>2. TransferTypeOK' /\ StreamOK(t)'
        BY <1>1, <2>1, <2>2 DEF TransferIInv, TransferTypeOK, StreamOK
      <3>3. DiskOK'
        BY <2>1, <2>4, <3>1, DiskKeeps DEF TransferIInv, Transfers
      <3>4. GetOK(t)'
        BY <1>1, <2>1, <2>2, <2>4, <3>1, Zenon DEF TransferIInv, GetOK, Transfers
      <3>5. QED
        BY <1>1, <2>1, <2>4, <3>1, <3>2, <3>3, <3>4, OthersKeep
    <2>5. QED
      BY <2>3, <2>4
  <1>5. QED
    BY <1>2, <1>3, <1>4

\* A round of run_transfer: what it does to the client's locals and to the stream.
LEMMA PutRoundKeeps ==
    ASSUME OneUpload, TransferIInv, NEW t \in Puts, client[t].result = "running", PutRound(t),
           UNCHANGED <<disk, server>>
    PROVE  TransferIInv'
  <1> DEFINE s == stream[t]
             sends == ~client[t].sent_fin /\ HasWindow(t)
             ends == sends /\ Len(s.sent) = Size
             sent_fin == client[t].sent_fin \/ ends
             sent == IF sends /\ ~ends THEN Append(s.sent, t) ELSE s.sent
             result == IF sent_fin /\ s.answer_known THEN "ok" ELSE "running"
             c == [client[t] EXCEPT !.sent_fin = sent_fin, !.result = result]
             f == [s EXCEPT !.sent = sent, !.fin = sent_fin]
  <1>1. /\ client \in [Transfers -> Clients] /\ client[t] \in Clients
        /\ stream \in [Transfers -> Streams] /\ s \in Streams /\ t \in Transfers
        /\ PutOK(t) /\ StreamOK(t) /\ DiskOK /\ t \notin Gets
    BY TransferAssumption DEF TransferIInv, TransferTypeOK, Transfers
  <1>2. client' = [client EXCEPT ![t] = c] /\ stream' = [stream EXCEPT ![t] = f]
    BY <1>1, Zenon DEF PutRound
  <1>3. /\ s.sent \in Seq(Chunks) /\ Len(s.sent) \in Nat /\ Len(s.sent) <= Size /\ Size \in Nat
        /\ client[t].sent_fin \in BOOLEAN /\ s.arrived \in Nat /\ s.arrived <= Len(s.sent)
        /\ client[t].sent_fin => Len(s.sent) = Size
        /\ s.fin => client[t].sent_fin
    BY <1>1, TransferAssumption, SMTT(30) DEF Streams, Clients, PutOK, StreamOK
  <1> HIDE DEF s
  <1>4. /\ sent \in Seq(Chunks) /\ Len(sent) \in Nat /\ Len(sent) <= Size /\ Len(s.sent) <= Len(sent)
        /\ sent_fin => Len(sent) = Size
    <2>1. t \in Chunks
      BY DEF Chunks
    <2>2. CASE sends /\ ~ends
      <3>1. sent = Append(s.sent, t) /\ Len(s.sent) # Size /\ ~sent_fin
        BY <2>2
      <3> HIDE DEF sent, sends, ends, sent_fin
      <3>2. sent \in Seq(Chunks) /\ Len(sent) = Len(s.sent) + 1
        BY <1>3, <2>1, <3>1
      <3>3. QED
        BY <1>3, <3>1, <3>2
    <2>3. CASE ~(sends /\ ~ends)
      BY <1>3, <2>3
    <2>4. QED
      BY <2>2, <2>3, Zenon
  <1>5. sent_fin \in BOOLEAN /\ (client[t].sent_fin => sent_fin)
    BY <1>3
  <1> HIDE DEF sent, sends, ends, sent_fin
  <1>6. result \in {"running", "ok"} /\ (result = "ok" => s.answer_known)
    OBVIOUS
  <1> HIDE DEF result
  <1>7. c \in Clients
    BY <1>1, <1>5, <1>6, Zenon DEF Clients
  <1>8. c.sent_fin = sent_fin /\ c.result = result
    BY <1>1 DEF Clients
  <1>9. f \in Streams
    BY <1>1, <1>4, <1>5, Zenon DEF Streams
  <1>10. /\ f.sent = sent /\ f.fin = sent_fin /\ f.read = s.read /\ f.arrived = s.arrived
         /\ f.fin_known = s.fin_known /\ f.answer = s.answer /\ f.answer_known = s.answer_known
    BY <1>1 DEF Streams
  <1> HIDE DEF c, f
  <1>11. /\ client'[t] = c /\ stream'[t] = f
         /\ \A x \in Transfers : x # t => client'[x] = client[x] /\ stream'[x] = stream[x]
    BY <1>1, <1>2
  <1>12. TransferTypeOK'
    BY <1>1, <1>2, <1>7, <1>9 DEF TransferIInv, TransferTypeOK
  <1>13. StreamOK(t)'
    <2>1. Len(s.read) <= s.arrived /\ (s.fin_known => s.fin)
      BY <1>1 DEF StreamOK, s
    <2>2. QED
      BY <1>3, <1>4, <1>5, <1>10, <1>11, <2>1, SMTT(30) DEF StreamOK
  <1>14. DiskOK'
    BY <1>1, DiskKeeps
  <1>15. PutOK(t)'
    BY <1>1, <1>4, <1>6, <1>8, <1>10, <1>11, Zenon DEF PutOK, s
  <1>16. QED
    BY <1>1, <1>11, <1>12, <1>13, <1>14, <1>15, OthersKeep, Zenon

LEMMA GetRoundKeeps ==
    ASSUME OneUpload, TransferIInv, NEW t \in Gets, client[t].result = "running", GetRound(t),
           UNCHANGED <<disk, server>>
    PROVE  TransferIInv'
  <1> DEFINE s == stream[t]
             got == s.read \o NewChunks(t)
             f == [s EXCEPT !.read = got, !.answer = DataFinished(t)]
             c == IF DataFinished(t) THEN [client[t] EXCEPT !.result = "ok", !.dest = got]
                  ELSE client[t]
  <1>1. /\ client \in [Transfers -> Clients] /\ client[t] \in Clients
        /\ stream \in [Transfers -> Streams] /\ s \in Streams /\ t \in Transfers
        /\ GetOK(t) /\ StreamOK(t) /\ DiskOK /\ t \notin Puts
    BY TransferAssumption DEF TransferIInv, TransferTypeOK, Transfers
  <1>2. client' = [client EXCEPT ![t] = c] /\ stream' = [stream EXCEPT ![t] = f]
    BY <1>1, Zenon DEF GetRound
  <1>3. /\ s.sent \in Seq(Chunks) /\ Len(s.sent) \in Nat /\ Len(s.read) \in Nat
        /\ s.arrived \in Nat /\ s.arrived <= Len(s.sent) /\ Len(s.read) <= s.arrived
        /\ s.read = SubSeq(s.sent, 1, Len(s.read))
    BY <1>1 DEF Streams, GetOK, StreamOK
  <1>4. got \in Seq(Chunks) /\ Len(got) = s.arrived /\ got = SubSeq(s.sent, 1, s.arrived)
    <2>1. got \in Seq(Chunks) /\ Len(got) = s.arrived
      BY <1>1, NewChunksFacts
    <2>2. got = SubSeq(s.sent, 1, Len(s.read)) \o SubSeq(s.sent, Len(s.read) + 1, s.arrived)
      BY <1>3, Zenon DEF NewChunks
    <2> HIDE DEF s, got
    <2>3. QED
      <3>1. PICK k : k = Len(s.read)
        BY Zenon
      <3>2. 1 \in 1 .. Len(s.sent) + 1 /\ k \in 1 - 1 .. Len(s.sent) /\ s.arrived \in k .. Len(s.sent)
        BY <1>3, <3>1
      <3>3. SubSeq(s.sent, 1, k) \o SubSeq(s.sent, k + 1, s.arrived) = SubSeq(s.sent, 1, s.arrived)
        BY <1>3, <3>2, ConcatAdjacentSubSeq, Zenon
      <3>4. QED
        BY <2>1, <2>2, <3>1, <3>3, Zenon
  <1>5. DataFinished(t) => got = s.sent /\ s.sent \in WholeFiles
    <2>1. DataFinished(t) => s.fin /\ s.arrived = Len(s.sent)
      BY <1>1 DEF DataFinished, StreamOK
    <2>2. s.fin => s.sent \in WholeFiles
      BY <1>1, Zenon DEF GetOK
    <2> HIDE DEF s, got
    <2>3. QED
      BY <1>3, <1>4, <2>1, <2>2, SubSeqFull, Zenon
  <1>6. DataFinished(t) \in BOOLEAN
    BY DEF DataFinished
  <1> HIDE DEF s, got
  <1>7. c \in Clients /\ (c.result # "ok" => c.dest = Old)
    <2>1. c \in Clients
      BY <1>1, <1>5, Zenon DEF Clients
    <2>2. client[t].dest = Old
      BY <1>1, Zenon DEF GetOK
    <2>3. QED
      BY <1>1, <2>1, <2>2 DEF Clients
  <1>8. f \in Streams
    BY <1>1, <1>4, <1>6, Zenon DEF Streams
  <1>9. /\ f.sent = s.sent /\ f.fin = s.fin /\ f.read = got /\ f.arrived = s.arrived
        /\ f.fin_known = s.fin_known
    BY <1>1 DEF Streams
  <1> HIDE DEF c, f
  <1>10. /\ client'[t] = c /\ stream'[t] = f
         /\ \A x \in Transfers : x # t => client'[x] = client[x] /\ stream'[x] = stream[x]
    BY <1>1, <1>2
  <1>11. TransferTypeOK'
    BY <1>1, <1>2, <1>7, <1>8 DEF TransferIInv, TransferTypeOK
  <1>12. StreamOK(t)'
    BY <1>1, <1>3, <1>4, <1>9, <1>10, SMTT(30) DEF StreamOK, s
  <1>13. DiskOK'
    BY <1>1, DiskKeeps
  <1>14. GetOK(t)'
    BY <1>1, <1>4, <1>7, <1>9, <1>10, Zenon DEF GetOK, s
  <1>15. QED
    BY <1>1, <1>10, <1>11, <1>12, <1>13, <1>14, OthersKeep, Zenon

LEMMA TransferNextKeeps ==
    ASSUME OneUpload
    PROVE  TransferIInv /\ [TransferNext]_transferVars => TransferIInv'
  <1> SUFFICES ASSUME TransferIInv, [TransferNext]_transferVars PROVE TransferIInv'
    OBVIOUS
  <1>1. ASSUME NEW t \in Transfers, ClientRound(t) PROVE TransferIInv'
    <2>1. CASE t \in Puts
      BY <1>1, <2>1, PutRoundKeeps DEF ClientRound
    <2>2. CASE t \notin Puts
      BY <1>1, <2>2, GetRoundKeeps DEF ClientRound, Transfers
    <2>3. QED
      BY <2>1, <2>2
  <1>2. CASE UNCHANGED transferVars
    BY <1>2 DEF transferVars, TransferIInv, TransferTypeOK, DiskOK, StreamOK, PutOK, GetOK
  <1>3. QED
    BY <1>1, <1>2, ServerOpensKeeps, ServerPumpKeeps, SessionVanishesKeeps, ClientFailsKeeps,
       DeliveryKeeps DEF TransferNext

LEMMA TransferInitOK == TransferInit => TransferIInv
  <1> SUFFICES ASSUME TransferInit PROVE TransferIInv
    OBVIOUS
  <1>1. <<>> \in Seq(Chunks) /\ Len(<<>>) = 0 /\ Old \in WholeFiles
    BY DEF WholeFiles
  <1>2. server \in [Transfers -> Servers] /\ client \in [Transfers -> Clients]
    BY <1>1 DEF TransferInit, Servers, Clients, NoInode
  <1>3. stream \in [Transfers -> Streams]
    BY <1>1, Zenon DEF TransferInit, Streams
  <1>4. DiskOK /\ disk = Untouched
    BY DEF TransferInit, DiskOK, Untouched
  <1>5. \A t \in Transfers : StreamOK(t)
    BY <1>1 DEF TransferInit, StreamOK
  <1>6. \A t \in Puts : PutOK(t)
    BY <1>1, <1>4, TransferAssumption DEF TransferInit, PutOK, Transfers
  <1>7. \A t \in Gets : GetOK(t)
    <2>1. SubSeq(<<>>, 1, Len(<<>>)) = <<>>
      BY <1>1, SubSeqEmpty
    <2>2. QED
      BY <1>1, <2>1, Zenon DEF TransferInit, GetOK, Transfers
  <1>8. QED
    BY <1>2, <1>3, <1>4, <1>5, <1>6, <1>7 DEF TransferIInv, TransferTypeOK

\* With one upload of a path at a time, and any number of downloads of it: the destination
\* is always one whole file, a transfer that succeeds has moved one, and one that fails
\* leaves the old one, whatever fails, is lost or goes away on the way (FileSink,
\* xfer.rs:39-95; server.rs:1013-1074; run_transfer, client.rs:687-804).
THEOREM TransferFilesWhole ==
    ASSUME OneUpload
    PROVE  TransferSpec => []FilesWhole
  <1>1. TransferIInv => FilesWhole
    <2> SUFFICES ASSUME TransferIInv PROVE FilesWhole
      OBVIOUS
    <2>1. DestIsOneFile
      BY DiskFacts DEF TransferIInv, DestIsOneFile, WholeFiles
    <2>2. ASSUME NEW t \in Puts, client[t].result = "ok"
          PROVE  disk.data[disk.dest] \in {Whole(u) : u \in Puts}
      <3>1. disk = Landed(t)
        BY <2>2 DEF TransferIInv, PutOK
      <3>2. QED
        BY <3>1 DEF Landed
    <2>3. ASSUME NEW t \in Gets
          PROVE  client[t].dest \in WholeFiles /\ (client[t].result # "ok" => client[t].dest = Old)
      BY DEF TransferIInv, TransferTypeOK, Clients, GetOK, Transfers
    <2>4. QED
      BY <2>1, <2>2, <2>3 DEF FilesWhole, OkMeansWholeFile, WholeFiles
  <1>2. TransferIInv /\ [TransferNext]_transferVars => TransferIInv'
    BY TransferNextKeeps
  <1>3. QED
    BY <1>1, <1>2, TransferInitOK, PTL DEF TransferSpec

=============================================================================
