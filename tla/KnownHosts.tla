----------------------------- MODULE KnownHosts -----------------------------
(***************************************************************************)
(* The client's pinned server keys (KnownHosts in crates/auth/src/lib.rs):  *)
(* a table of keys by label, a label being a host and a port, and the text  *)
(* file it is read from and written to, a sequence of lines.                *)
(***************************************************************************)
EXTENDS Naturals, Sequences, FiniteSets

CONSTANT Labels         \* the labels in the order to_text writes them: a sequence

ASSUME LabelsAssumption ==
    Labels \in Seq({Labels[i] : i \in DOMAIN Labels}) /\ \A i \in DOMAIN Labels : Labels[i] # <<>>

LabelSet == {Labels[i] : i \in DOMAIN Labels}

\* A line of the file: a pin, or a line that does not parse.
Line(label, key) == [label |-> label, key |-> key]
Malformed == [label |-> <<>>, key |-> <<>>]

NoPins == [l \in {} |-> <<>>]
Pinned(known, label) == label \in DOMAIN known

\* KnownHosts::parse: a malformed line is skipped, of two lines for one label the
\* later one counts.
Parse(lines) ==
    LET pins(l) == {i \in DOMAIN lines : lines[i] # Malformed /\ lines[i].label = l}
        last(l) == CHOOSE i \in pins(l) : \A j \in pins(l) : j <= i
    IN  [l \in {m \in LabelSet : pins(m) # {}} |-> lines[last(l)].key]

\* KnownHosts::to_text: one line for each pin, in the order of the labels.
ToText(known) ==
    LET pinned == {i \in DOMAIN Labels : Pinned(known, Labels[i])}
        nth(n) == CHOOSE i \in pinned : Cardinality({j \in pinned : j <= i}) = n
    IN  [n \in 1..Cardinality(pinned) |-> Line(Labels[nth(n)], known[Labels[nth(n)]])]

\* What remove_matching compares is text.  A label's is the host, a colon and the port,
\* and it matches a name that is all of it or is followed by a colon in it: the name of
\* its host, or, where the host is an IPv6 address, what stands before any of its colons.
Matches(label, name) ==
    LET text == label.host \o <<":", label.port>>
        prefix == name \o <<":">>
    IN  text = name \/ (Len(prefix) <= Len(text) /\ SubSeq(text, 1, Len(prefix)) = prefix)

\* remove_matching.
RemoveMatching(known, name) ==
    [l \in {m \in DOMAIN known : ~Matches(m, name)} |-> known[l]]

\* check_or_add: the verdict, and the table after it.
Tofu(known, label, key) ==
    IF ~Pinned(known, label) THEN "New" ELSE IF known[label] = key THEN "Match" ELSE "Mismatch"

CheckOrAdd(known, label, key) ==
    IF Pinned(known, label) THEN known
    ELSE [l \in DOMAIN known \cup {label} |-> IF l = label THEN key ELSE known[l]]

=============================================================================
