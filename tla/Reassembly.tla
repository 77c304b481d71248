----------------------------- MODULE Reassembly -----------------------------
(***************************************************************************)
(* The Reassembler of crates/transport/src/stream.rs with its bytes: a map  *)
(* of segments by start offset, merged as data arrives in any order, over   *)
(* and over, and read from the front.  It is shown to keep the set of       *)
(* offsets by which module Stream describes it.                             *)
(***************************************************************************)
EXTENDS Stream, Sequences

CONSTANTS Source        \* the bytes the sender writes

ASSUME ReassemblyAssumption == Source \in Seq({Source[i] : i \in DOMAIN Source})

VARIABLES delivered, segs,      \* Reassembler; segs[k] is the segment that starts at k
          arrived,              \* history: the offsets inserted so far
          taken                   \* history: the bytes read so far

reassemblyVars == <<delivered, segs, arrived, taken>>

Filler == "0"                   \* what vec![0u8; n] holds
EndOf(k) == k + Len(segs[k])
Covered == UNION {k .. EndOf(k) - 1 : k \in DOMAIN segs}

ReassemblyInit == delivered = 0 /\ segs = <<>> /\ arrived = {} /\ taken = <<>>

\* The already delivered prefix is dropped from the data, and the offset follows.
\* Mutant: the data stays whole.
TrimmedWhole(offset, data) ==
    IF offset < delivered THEN [at |-> delivered, data |-> data] ELSE [at |-> offset, data |-> data]

Trimmed(offset, data) ==
    IF offset < delivered
    THEN [at |-> delivered, data |-> SubSeq(data, delivered - offset + 1, Len(data))]
    ELSE [at |-> offset, data |-> data]

\* The segments that overlap [from, to) or touch it.
\* Mutant: the ones that overlap it.
Overlapping(from, to) == {k \in DOMAIN segs : k < to /\ EndOf(k) > from}

Touching(from, to) == {k \in DOMAIN segs : k <= to /\ EndOf(k) >= from}

\* The segment that replaces those of `keys` and the new data d.
Merged(keys, d) ==
    LET to == d.at + Len(d.data)
        start == CHOOSE k \in keys \cup {d.at} : \A j \in keys \cup {d.at} : k <= j
        end == CHOOSE e \in {EndOf(k) : k \in keys} \cup {to} :
                   \A x \in {EndOf(k) : k \in keys} \cup {to} : x <= e
        ByteAt(p) ==
            IF p \in d.at .. to - 1 THEN d.data[p - d.at + 1]
            ELSE IF \E k \in keys : p \in k .. EndOf(k) - 1
            THEN LET k == CHOOSE k \in keys : p \in k .. EndOf(k) - 1 IN segs[k][p - k + 1]
            ELSE Filler
    IN  [at |-> start, data |-> [i \in 1 .. end - start |-> ByteAt(start + i - 1)]]

\* Reassembler::insert of the `len` bytes at `offset`.
InsertSegment(offset, len) ==
    LET d == Trimmed(offset, SubSeq(Source, offset + 1, offset + len))
        keys == Touching(d.at, d.at + Len(d.data))
        new == Merged(keys, d)
    IN  /\ arrived' = arrived \cup (offset .. offset + len - 1)
        /\ segs' = IF d.data = <<>> THEN segs
                   ELSE [k \in (DOMAIN segs \ keys) \cup {new.at} |->
                            IF k = new.at THEN new.data ELSE segs[k]]
        /\ UNCHANGED <<delivered, taken>>

\* Reassembler::read
Read ==
    /\ delivered \in DOMAIN segs
    /\ taken' = taken \o segs[delivered]
    /\ delivered' = EndOf(delivered)
    /\ segs' = [k \in DOMAIN segs \ {delivered} |-> segs[k]]
    /\ UNCHANGED arrived

ReassemblyNext ==
    \/ \E offset \in 0 .. Len(Source), len \in 0 .. MAX_STREAM_CHUNK :
           offset + len <= Len(Source) /\ InsertSegment(offset, len)
    \/ Read

ReassemblySpec == ReassemblyInit /\ [][ReassemblyNext]_reassemblyVars

-----------------------------------------------------------------------------

\* Every byte that arrived is held or was read, and is the byte the sender wrote at
\* that offset: no merge loses a byte, moves one or leaves a zero in its place.
BytesExact ==
    /\ Covered = {k \in arrived : k >= delivered}
    /\ 0 .. delivered - 1 \subseteq arrived
    /\ \A k \in DOMAIN segs : segs[k] = SubSeq(Source, k + 1, EndOf(k))
    /\ taken = SubSeq(Source, 1, delivered)

\* A Reassembler as module Stream sees it.
View == [delivered |-> delivered, segs |-> Covered]

\* Segments are "non-overlapping, coalesced" (stream.rs:70) well enough for ack_point(),
\* which looks up one of them (stream.rs:125-130), to find the first byte missing, and
\* insert and read do to the offsets what module Stream says.
AgreesWithStream ==
    [][/\ AckPoint(View) = IF delivered \in DOMAIN segs THEN EndOf(delivered) ELSE delivered
       /\ Read => View' = ReadAll(View)
       /\ \A offset \in 0 .. Len(Source), len \in 1 .. MAX_STREAM_CHUNK :
            InsertSegment(offset, len) => View' = Insert(View, offset, len)]_reassemblyVars

=============================================================================
