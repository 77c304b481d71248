----------------------------- MODULE SshConfig -----------------------------
(***************************************************************************)
(* The subset of ~/.ssh/config that noissh reads for the UDP address        *)
(* (src/sshconfig.rs).  A line is a keyword with a value, without its       *)
(* comments and blanks; the value of a Host line is a sequence of patterns. *)
(* A pattern and a name are sequences of characters.                        *)
(***************************************************************************)
EXTENDS Naturals, Sequences, SequencesExt

CONSTANTS ConfigLines,          \* the lines a configuration may have
          MaxLines,             \* bound: how many
          Aliases,              \* the names asked for
          GlobChars, MaxGlob    \* the characters of a pattern and its length, for GlobExact

VARIABLES config,       \* the lines read so far
          resolver      \* resolver[a]: what resolve() has found for a

sshConfigVars == <<config, resolver>>

Pattern(neg, glob) == [neg |-> neg, glob |-> glob]
HostLine(patterns) == [key |-> "host", patterns |-> patterns, value |-> <<>>]
Setting(key, value) == [key |-> key, patterns |-> <<>>, value |-> value]

\* glob_match: the loop on the text with its two positions, and where to go back to,
\* the last star and the text it has swallowed; from 1, star is 0 if there was none.
\* Mutant: the text is not gone back in.
RetryAhead(star, mark, ti) == [pi |-> star + 1, ti |-> ti + 1, mark |-> mark + 1]

Retry(star, mark, ti) == [pi |-> star + 1, ti |-> mark + 1, mark |-> mark + 1]

RECURSIVE GlobLoop(_, _, _, _, _, _)
GlobLoop(p, t, pi, ti, star, mark) ==
    IF ti > Len(t) THEN \A i \in pi..Len(p) : p[i] = "*"
    ELSE IF pi <= Len(p) /\ p[pi] \in {"?", t[ti]} THEN GlobLoop(p, t, pi + 1, ti + 1, star, mark)
    ELSE IF pi <= Len(p) /\ p[pi] = "*" THEN GlobLoop(p, t, pi + 1, ti, pi, ti)
    ELSE IF star # 0 THEN LET r == Retry(star, mark, ti) IN GlobLoop(p, t, r.pi, r.ti, star, r.mark)
    ELSE FALSE

GlobMatch(p, t) == GlobLoop(p, t, 1, 1, 0, 0)

\* host_patterns_match: some pattern, and no negated one.
HostPatternsMatch(patterns, alias) ==
    LET matching(neg) == {i \in DOMAIN patterns : patterns[i].neg = neg /\ GlobMatch(patterns[i].glob, alias)}
    IN  matching(TRUE) = {} /\ matching(FALSE) # {}

NoHostConfig == [hostname |-> <<>>, user |-> <<>>, port |-> <<>>]

\* resolve: line by line.  A port that is no number is as if it were not there.
ResolveLine(s, line, alias) ==
    IF line.key = "host" THEN [s EXCEPT !.active = HostPatternsMatch(line.patterns, alias)]
    ELSE IF ~s.active \/ line.key \notin DOMAIN s.out \/ s.out[line.key] # <<>> THEN s
    ELSE IF line.key = "port" /\ line.value = <<"?">> THEN s
    ELSE [s EXCEPT !.out[line.key] = line.value]

Resolver == [out |-> NoHostConfig, active |-> FALSE]
Resolve(lines, alias) == FoldLeft(LAMBDA s, line : ResolveLine(s, line, alias), Resolver, lines).out

SshConfigInit == config = <<>> /\ resolver = [a \in Aliases |-> Resolver]

ReadLine(line) ==
    /\ Len(config) < MaxLines
    /\ config' = Append(config, line)
    /\ resolver' = [a \in Aliases |-> ResolveLine(resolver[a], line, a)]

SshConfigNext == \E line \in ConfigLines : ReadLine(line)

-----------------------------------------------------------------------------
\* What a pattern means: a star stands for any run of characters.
RECURSIVE Denotes(_, _)
Denotes(p, t) ==
    IF p = <<>> THEN t = <<>>
    ELSE IF Head(p) = "*" THEN \E k \in 0..Len(t) : Denotes(Tail(p), SubSeq(t, k + 1, Len(t)))
    ELSE t # <<>> /\ Head(p) \in {"?", Head(t)} /\ Denotes(Tail(p), Tail(t))

\* The line a key is taken from: the first one with a usable value of those whose block,
\* the one the nearest Host line before it opens, applies to the alias.
Usable(i, key, alias) ==
    /\ config[i].key = key /\ ~(key = "port" /\ config[i].value = <<"?">>)
    /\ \E h \in 1..i - 1 :
         /\ config[h].key = "host" /\ \A j \in h + 1..i - 1 : config[j].key # "host"
         /\ \E x \in DOMAIN config[h].patterns :
              ~config[h].patterns[x].neg /\ Denotes(config[h].patterns[x].glob, alias)
         /\ \A x \in DOMAIN config[h].patterns :
              config[h].patterns[x].neg => ~Denotes(config[h].patterns[x].glob, alias)

\* "keys are scanned top-to-bottom and the first value seen for each key (within any
\* Host block whose pattern matches the alias) wins" (sshconfig.rs:47-50): reading line
\* by line gives each key the value of its first usable line and no value if it has
\* none.  And the two-pointer glob_match agrees with what patterns mean, on every
\* pattern and text within the bounds (looked at with the first line).
SshConfigExact ==
    /\ \A a \in Aliases, key \in DOMAIN NoHostConfig :
         LET lines == {i \in DOMAIN config : Usable(i, key, a)}
         IN  resolver[a].out[key] = IF lines = {} THEN <<>>
                                    ELSE config[CHOOSE i \in lines : \A j \in lines : i <= j].value
    /\ Len(config) = 1 => \A m \in 0..MaxGlob, n \in 0..MaxGlob :
         \A p \in [1..m -> GlobChars], t \in [1..n -> GlobChars \ {"*", "?"}] :
           GlobMatch(p, t) <=> Denotes(p, t)

=============================================================================
