-------------------------------- MODULE Wire --------------------------------
(***************************************************************************)
(* The codecs: frames (crates/wire), control messages and transfer requests *)
(* (crates/proto), and how seal_many packs frames into datagrams            *)
(* (crates/transport).                                                      *)
(*                                                                         *)
(* Bytes are numbers below 256, and a varint has 7 bits in a byte.  The     *)
(* integers are narrower than in the code and in the same relations: Wide   *)
(* stands for 64 bits (a number of whole groups and one bit), Narrow for    *)
(* the 16 and 32 of the fields that are cut down after decoding.  A frame   *)
(* or message is a tag and a sequence of fields, its layout their kinds:    *)
(*   wide    a u64, as a varint           narrow  a u16 or u32, likewise    *)
(*   signed  an i32, zigzag, likewise     bytes   a length and that many    *)
(*   text    bytes that must be UTF-8     flag    a byte, zero or not       *)
(*   kind    a byte, a StreamKind                                           *)
(***************************************************************************)
EXTENDS Integers, Sequences, SequencesExt

CONSTANTS Wide, Narrow,
          WireFrames,           \* the frames of a payload
          MaxFrames,            \* bound: how many
          MaxPlaintext,         \* of a datagram, in bytes
          Messages, Requests,   \* control messages and transfer requests to encode
          SomeBytes, MaxBytes   \* for the varints: bytes, and how many

VARIABLE frames                 \* the frames given to seal_many so far

InvalidByte == 255              \* never in UTF-8
Ok(v, pos) == [ok |-> TRUE, v |-> v, pos |-> pos]
Invalid == [ok |-> FALSE, v |-> <<>>, pos |-> 0]

Tags == [Ack |-> 1, Input |-> 2, StateDiff |-> 3, Resize |-> 4, Ping |-> 5, Pong |-> 6,
         StreamOpen |-> 16, StreamData |-> 17, StreamAck |-> 18, StreamClose |-> 19,
         StreamReset |-> 20, Control |-> 32]
Layouts == [Ack |-> <<"wide">>, Input |-> <<"wide", "bytes">>, StateDiff |-> <<"wide", "wide", "bytes">>,
            Resize |-> <<"narrow", "narrow">>, Ping |-> <<"wide">>, Pong |-> <<"wide">>,
            StreamOpen |-> <<"wide", "kind", "bytes">>, StreamData |-> <<"wide", "wide", "flag", "bytes">>,
            StreamAck |-> <<"wide", "wide", "narrow">>, StreamClose |-> <<"wide", "signed">>,
            StreamReset |-> <<"wide">>, Control |-> <<"bytes">>]

ControlTags == [OpenShell |-> 1, Resize |-> 2, Exit |-> 3, RemoteForward |-> 6, Bye |-> 7, ServerVersion |-> 8]
ControlLayouts == [OpenShell |-> <<"narrow", "narrow", "text", "flag">>, Resize |-> <<"narrow", "narrow">>,
                   Exit |-> <<"signed">>, RemoteForward |-> <<"narrow", "text">>, Bye |-> <<>>,
                   ServerVersion |-> <<"text">>]

-----------------------------------------------------------------------------
\* put_varint and get_varint.
RECURSIVE PutVarint(_)
PutVarint(v) == IF v < 128 THEN <<v>> ELSE <<128 + (v % 128)>> \o PutVarint(v \div 128)

\* The bits of a byte that do not fit above shift.
\* Mutant: only a shift past the end is an overflow.
OverflowsPastEnd(byte, shift) == shift >= Wide

Overflows(byte, shift) == shift >= Wide \/ (shift = Wide - 1 /\ byte % 128 > 1)

RECURSIVE GetVarintFrom(_, _, _, _)
GetVarintFrom(buf, pos, shift, result) ==
    IF pos > Len(buf) \/ Overflows(buf[pos], shift) THEN Invalid
    ELSE LET r == (result + (buf[pos] % 128) * 2^shift) % 2^Wide
         IN  IF buf[pos] < 128 THEN Ok(r, pos + 1) ELSE GetVarintFrom(buf, pos + 1, shift + 7, r)

GetVarint(buf, pos) == GetVarintFrom(buf, pos, 0, 0)

\* zigzag, and its inverse cut down to the narrow signed type.
Zigzag(v) == IF v >= 0 THEN 2 * v ELSE -2 * v - 1
Unzigzag(v) ==
    LET wide == IF v % 2 = 0 THEN v \div 2 ELSE -((v + 1) \div 2)
        cut == wide % 2^Narrow
    IN  IF cut < 2^(Narrow - 1) THEN cut ELSE cut - 2^Narrow

\* put_bytes, get_bytes and get_str.
PutBytes(data) == PutVarint(Len(data)) \o data
GetBytes(buf, pos) ==
    LET len == GetVarint(buf, pos)
    IN  IF ~len.ok \/ len.pos + len.v > Len(buf) + 1 THEN Invalid
        ELSE Ok(SubSeq(buf, len.pos, len.pos + len.v - 1), len.pos + len.v)

PutField(kind, v) ==
    CASE kind \in {"wide", "narrow"} -> PutVarint(v)
      [] kind = "signed" -> PutVarint(Zigzag(v))
      [] kind \in {"bytes", "text"} -> PutBytes(v)
      [] kind = "flag" -> <<IF v THEN 1 ELSE 0>>
      [] kind = "kind" -> <<v>>

GetField(kind, buf, pos) ==
    CASE kind \in {"wide", "narrow", "signed"} ->
           LET n == GetVarint(buf, pos)
           IN  IF ~n.ok THEN n
               ELSE [n EXCEPT !.v = CASE kind = "wide" -> @ [] kind = "narrow" -> @ % 2^Narrow
                                      [] kind = "signed" -> Unzigzag(@)]
      [] kind = "bytes" -> GetBytes(buf, pos)
      [] kind = "text" -> LET b == GetBytes(buf, pos)
                          IN  IF b.ok /\ \E i \in DOMAIN b.v : b.v[i] = InvalidByte THEN Invalid ELSE b
      [] kind = "flag" -> IF pos > Len(buf) THEN Invalid ELSE Ok(buf[pos] # 0, pos + 1)
      [] kind = "kind" -> IF pos > Len(buf) \/ buf[pos] > 4 THEN Invalid ELSE Ok(buf[pos], pos + 1)

-----------------------------------------------------------------------------
\* Frame::encode and ControlMsg::encode: the tag and the fields.
Encode(tags, layouts, m) ==
    <<tags[m.tag]>> \o FlattenSeq([i \in DOMAIN m.fields |-> PutField(layouts[m.tag][i], m.fields[i])])

\* Frame::decode and ControlMsg::decode.
Decode(tags, layouts, buf, pos) ==
    LET named == IF pos > Len(buf) THEN {} ELSE {t \in DOMAIN tags : tags[t] = buf[pos]}
        tag == CHOOSE t \in named : TRUE
        field(s, kind) ==
          IF ~s.ok THEN s
          ELSE LET f == GetField(kind, buf, s.pos) IN IF f.ok THEN Ok(Append(s.v, f.v), f.pos) ELSE Invalid
    IN  IF named = {} THEN Invalid
        ELSE LET fields == FoldLeft(field, Ok(<<>>, pos + 1), layouts[tag])
             IN  IF fields.ok THEN Ok([tag |-> tag, fields |-> fields.v], fields.pos) ELSE Invalid

EncodeFrames(fs) == FlattenSeq([i \in DOMAIN fs |-> Encode(Tags, Layouts, fs[i])])

\* decode_frames: all of them, or an error.
RECURSIVE DecodeFramesFrom(_, _, _)
DecodeFramesFrom(buf, pos, fs) ==
    IF pos > Len(buf) THEN Ok(fs, pos)
    ELSE LET f == Decode(Tags, Layouts, buf, pos)
         IN  IF f.ok THEN DecodeFramesFrom(buf, f.pos, Append(fs, f.v)) ELSE Invalid

DecodeFrames(buf) == DecodeFramesFrom(buf, 1, <<>>)

\* XferRequest::encode and parse, on words and the spaces between them: a size is one
\* word, a path any sequence.
EncodeRequest(r) == IF r.op = "PUT" THEN <<"PUT ", r.size, " ">> \o r.path ELSE <<"GET ">> \o r.path
ParseRequest(meta) ==
    IF meta # <<>> /\ meta[1] = "PUT "
    THEN LET i == SelectInSeq(meta, LAMBDA w : w = " ")
         IN  IF i # 3 \/ i = Len(meta) THEN Invalid
             ELSE Ok([op |-> "PUT", size |-> meta[2], path |-> SubSeq(meta, 4, Len(meta))], 0)
    ELSE IF meta # <<>> /\ meta[1] = "GET " /\ Len(meta) > 1
    THEN Ok([op |-> "GET", size |-> "", path |-> Tail(meta)], 0)
    ELSE Invalid

-----------------------------------------------------------------------------
\* seal_many: into the current group unless it would grow too long.
\* Mutant: a group is closed only when it is too long already.
FitsBefore(len, flen) == len <= MaxPlaintext

Fits(len, flen) == len + flen <= MaxPlaintext

SealMany(fs) ==
    LET place(s, f) ==
          LET flen == Len(EncodeFrames(<<f>>))
          IN  IF s.group # <<>> /\ ~Fits(s.len, flen)
              THEN [packets |-> Append(s.packets, s.group), group |-> <<f>>, len |-> flen]
              ELSE [s EXCEPT !.group = Append(@, f), !.len = @ + flen]
        end == FoldLeft(place, [packets |-> <<>>, group |-> <<>>, len |-> 0], fs)
    IN  IF end.group = <<>> THEN end.packets ELSE Append(end.packets, end.group)

WireInit == frames = <<>>

\* The next frame of the payload.
NextFrame(f) == Len(frames) < MaxFrames /\ frames' = Append(frames, f)

WireNext == \E f \in WireFrames : NextFrame(f)

-----------------------------------------------------------------------------
\* What is decoded is what was encoded, frame by frame, and a payload cut short is an
\* error or ends between two frames: never a frame nobody sent.  The same holds for a
\* control message and a transfer request.  A varint is read as the number its bytes
\* stand for, or refused: none is cut down to the width of the integer
\* (wire/src/lib.rs:146-158).  (What does not depend on the frames is looked at once.)
CodecExact ==
    LET payload == EncodeFrames(frames)
    IN  /\ DecodeFrames(payload) = Ok(frames, Len(payload) + 1)
        /\ \A n \in 0..Len(payload) - 1 :
             LET cut == DecodeFrames(SubSeq(payload, 1, n))
             IN  cut.ok => \E i \in 0..Len(frames) - 1 :
                             /\ cut.v = SubSeq(frames, 1, i)
                             /\ n = Len(EncodeFrames(SubSeq(frames, 1, i)))
        /\ Len(frames) = 1 =>
             /\ \A m \in Messages : Decode(ControlTags, ControlLayouts, Encode(ControlTags, ControlLayouts, m), 1).v = m
             /\ \A r \in Requests : ParseRequest(EncodeRequest(r)).v = r
             /\ \A n \in 1..MaxBytes : \A buf \in [1..n -> SomeBytes] :
                  LET got == GetVarint(buf, 1)
                      number == FoldLeft(LAMBDA sum, i : sum + (buf[i] % 128) * 2^(7 * (i - 1)), 0,
                                         [i \in 1..(got.pos - 1) |-> i])
                  IN  got.ok => got.v = number /\ number < 2^Wide

\* seal_many loses, repeats and reorders nothing; every datagram stays within the limit
\* unless it is one frame that alone is longer, and none is closed before it has to be
\* (transport/src/lib.rs:167-192).
PackingExact ==
    LET packets == SealMany(frames)
        size(i) == Len(EncodeFrames(packets[i]))
    IN  /\ FlattenSeq(packets) = frames
        /\ \A i \in DOMAIN packets :
             /\ size(i) <= MaxPlaintext \/ Len(packets[i]) = 1
             /\ i > 1 => size(i - 1) + Len(EncodeFrames(<<packets[i][1]>>)) > MaxPlaintext

\* What one side encodes the other decodes (wire/src/lib.rs, control.rs, proto/src/xfer.rs),
\* and what seal_many takes it seals, in order, in datagrams that fit
\* (transport/src/lib.rs:167-192).
WireExact == CodecExact /\ PackingExact

=============================================================================
