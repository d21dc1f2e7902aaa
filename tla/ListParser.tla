----------------------------- MODULE ListParser -----------------------------
(***************************************************************************)
(* The blocklist parser (crates/filter/src/parse.rs) as operators.  A line *)
(* is a sequence of ASCII bytes; the only white space is the space.  What  *)
(* the standard library takes for an IP address is given by the constants. *)
(***************************************************************************)
EXTENDS Naturals, SequencesExt

CONSTANTS
    MaxName,        \* longest DNS name, 253
    MaxLabel,       \* longest label, 63
    SinkIp,         \* spellings of unspecified and loopback addresses
    OtherIp,        \* spellings of other addresses
    LocalName       \* LOCALHOST_NAMES

ASSUME ParserAssumption ==
    /\ MaxName \in Nat \ {0} /\ MaxLabel \in Nat \ {0}
    /\ SinkIp \cap OtherIp = {}

Space == 32
Bang == 33
Hash == 35
Dollar == 36
Percent == 37
Star == 42
Hyphen == 45
Dot == 46
Slash == 47
Question == 63
At == 64
Caret == 94
Underscore == 95
Pipe == 124

Uppercase == 65 .. 90
Alphanumeric == 97 .. 122 \cup 48 .. 57

-----------------------------------------------------------------------------
(* Sequences.                                                              *)

\* The numbers up to n that are in S, in order.
NumbersOf(S, n) ==
    LET f[k \in 0 .. n] ==
            IF k = 0 THEN <<>> ELSE IF k \in S THEN Append(f[k - 1], k) ELSE f[k - 1]
    IN  f

InOrder(S, n) == NumbersOf(S, n)[n]

\* The elements of s whose places are in S.
Chosen(s, S) ==
    LET places == InOrder(S, Len(s))
    IN  [k \in 1 .. Len(places) |-> s[places[k]]]

\* Sequences one after the other.
ConcatOf(ss) ==
    LET f[n \in 0 .. Len(ss)] == IF n = 0 THEN <<>> ELSE f[n - 1] \o ss[n]
    IN  f

Concat(ss) == ConcatOf(ss)[Len(ss)]

-----------------------------------------------------------------------------
(* str methods.                                                            *)

StripPrefix(s, p) == IF IsPrefix(p, s) THEN SubSeq(s, Len(p) + 1, Len(s)) ELSE s
EndsWith(s, b) == s # <<>> /\ Last(s) = b
StripSuffix(s, b) == IF EndsWith(s, b) THEN Front(s) ELSE s
Lowercase(s) == [i \in DOMAIN s |-> IF s[i] \in Uppercase THEN s[i] + 32 ELSE s[i]]
HasPart(s, part) == \E i \in 0 .. Len(s) : IsPrefix(part, SubSeq(s, i + 1, Len(s)))

\* What comes before the first byte sep.
Before(s, sep) == SubSeq(s, 1, Min({i \in DOMAIN s : s[i] = sep} \cup {Len(s) + 1}) - 1)

\* The parts between the occurrences of byte sep.
Ends(s, sep) == {i \in DOMAIN s : s[i] = sep} \cup {0, Len(s) + 1}
Parts(s, sep) ==
    {SubSeq(s, c[1] + 1, c[2] - 1) :
        c \in {c \in Ends(s, sep) \X Ends(s, sep) :
                 c[1] < c[2] /\ \A i \in Ends(s, sep) : i <= c[1] \/ c[2] <= i}}

split_whitespace(s) ==
    LET begins == InOrder({i \in DOMAIN s : s[i] # Space /\ (i = 1 \/ s[i - 1] = Space)}, Len(s))
    IN  [k \in 1 .. Len(begins) |-> Before(SubSeq(s, begins[k], Len(s)), Space)]

Trim(s) ==
    LET solid == {i \in DOMAIN s : s[i] # Space}
    IN  IF solid = {} THEN <<>> ELSE SubSeq(s, Min(solid), Max(solid))

-----------------------------------------------------------------------------
(* Names.  <<>> stands for None: no valid name is empty.                   *)

lower_strip(s) == Lowercase(StripSuffix(s, Dot))

LabelOK(l) ==
    /\ l # <<>> /\ Len(l) <= MaxLabel
    /\ Head(l) # Hyphen /\ Last(l) # Hyphen

normalize_domain(s) ==
    LET d == lower_strip(s)
    IN  IF /\ d # <<>> /\ Len(d) <= MaxName
           /\ \A l \in Parts(d, Dot) :
                 LabelOK(l) /\ ToSet(l) \subseteq Alphanumeric \cup {Hyphen, Underscore}
        THEN d ELSE <<>>

normalize_wildcard(s) ==
    LET d == lower_strip(s)
    IN  IF /\ d # <<>> /\ Len(d) <= MaxName
           /\ ToSet(d) \cap Alphanumeric # {}
           /\ ToSet(d) \subseteq Alphanumeric \cup {Hyphen, Underscore, Dot, Star}
           /\ \A l \in Parts(d, Dot) : Contains(l, Star) \/ LabelOK(l)
        THEN d ELSE <<>>

-----------------------------------------------------------------------------
(* Lines.  A line leads to rules and to issues.                            *)

Rule(except, kind, name, covers, text, no) ==
    [except |-> except, kind |-> kind, name |-> name, include_subdomains |-> covers,
     text |-> text, line |-> no]

Issue(no, reason) == [line |-> no, reason |-> reason]

Nothing == [rules |-> <<>>, issues |-> <<>>]
Accepted(rule) == [rules |-> <<rule>>, issues |-> <<>>]
Rejected(no, reason) == [rules |-> <<>>, issues |-> <<Issue(no, reason)>>]

\* Markers that open a cosmetic rule without a domain; `##` only before
\* something that is not a heading.
OpensCosmetic(line) ==
    \/ \E m \in {At, Question, Dollar, Percent} : IsPrefix(<<Hash, m, Hash>>, line)
    \/ Len(line) > 2 /\ line[1] = Hash /\ line[2] = Hash /\ line[3] \notin {Hash, Space}

IsComment(line) ==
    \/ line = <<>>
    \/ Head(line) \in {Bang, Hash}
    \/ Head(line) = 91 /\ Last(line) = 93       \* [Adblock Plus]

IsLocal(name) == Lowercase(StripSuffix(name, Dot)) \in LocalName

\* The names of a hosts line, without the comment and the local machine's.
HostNames(line) ==
    LET words == split_whitespace(Before(line, Hash))
        names == SubSeq(words, 2, Len(words))
    IN  Chosen(names, {i \in DOMAIN names : ~IsLocal(names[i])})

Good(names) == {i \in DOMAIN names : normalize_domain(names[i]) # <<>>}

\* Each name of a hosts line is a rule of its own, or an issue.
EachName(names, line, no) ==
    LET good == Chosen(names, Good(names))
        bad == Chosen(names, DOMAIN names \ Good(names))
    IN  [rules |-> [k \in 1 .. Len(good) |->
                      Rule(FALSE, "exact", normalize_domain(good[k]), FALSE, line, no)],
         issues |-> [k \in 1 .. Len(bad) |-> Issue(no, "InvalidDomain")]]

\* Mutant of parse_hosts_line: the first bad name ends the line.
parse_hosts_lineToFirstBad(line, ip, no) ==
    LET names == HostNames(line)
        last == Min((DOMAIN names \ Good(names)) \cup {Len(names)})
    IN  IF names = <<>> THEN Nothing
        ELSE IF ip \notin SinkIp THEN Rejected(no, "UnsupportedHostsEntry")
        ELSE EachName(SubSeq(names, 1, last), line, no)

parse_hosts_line(line, ip, no) ==
    LET names == HostNames(line)
    IN  IF names = <<>> THEN Nothing
        ELSE IF ip \notin SinkIp THEN Rejected(no, "UnsupportedHostsEntry")
        ELSE EachName(names, line, no)

\* [@@][||]name[^], where the name may be a wildcard.
ParseRule(line, no) ==
    LET body == StripPrefix(line, <<At, At>>)
        covers == IsPrefix(<<Pipe, Pipe>>, body)
        rest == StripSuffix(StripPrefix(body, <<Pipe, Pipe>>), Caret)
        wild == Contains(rest, Star)
        name == IF wild THEN normalize_wildcard(rest) ELSE normalize_domain(rest)
        kind == IF wild THEN "wildcard" ELSE IF covers THEN "subtree" ELSE "exact"
    IN  IF Contains(rest, Caret) \/ IsPrefix(<<Pipe>>, rest)
        THEN Rejected(no, "UnsupportedSyntax")
        ELSE IF name = <<>> THEN Rejected(no, "InvalidDomain")
        ELSE Accepted(Rule(IsPrefix(<<At, At>>, line), kind, name, wild /\ covers, line, no))

Cosmetic == {<<Hash, Hash>>} \cup {<<Hash, m, Hash>> : m \in {At, Question, Dollar, Percent}}

parse_line(line, no) ==
    LET ip == Before(split_whitespace(line)[1], Percent)
    IN  IF ip \in SinkIp \cup OtherIp THEN parse_hosts_line(line, ip, no)
        ELSE IF \E m \in Cosmetic : HasPart(line, m) THEN Rejected(no, "CosmeticRule")
        ELSE IF Contains(line, Dollar) THEN Rejected(no, "UnsupportedModifier")
        ELSE IF Len(line) > 1 /\ Head(line) = Slash /\ Last(line) = Slash
             THEN Rejected(no, "UnsupportedSyntax")
        ELSE ParseRule(line, no)

\* A comment is consumed here, unless it is a cosmetic rule.
skip_or_report_comment(line, no) ==
    IF OpensCosmetic(line) THEN Rejected(no, "CosmeticRule") ELSE Nothing

\* What line no of a text leads to.
Outcome(text, no) ==
    LET line == Trim(text[no])
    IN  IF IsComment(line) THEN skip_or_report_comment(line, no) ELSE parse_line(line, no)

parse_list_streamed(text) ==
    [rules |-> Concat([no \in 1 .. Len(text) |-> Outcome(text, no).rules]),
     issues |-> Concat([no \in 1 .. Len(text) |-> Outcome(text, no).issues])]
=============================================================================
