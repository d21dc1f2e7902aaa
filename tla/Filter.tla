------------------------------- MODULE Filter -------------------------------
(***************************************************************************)
(* The compiled matcher (crates/filter/src/engine.rs, EngineBuilder of     *)
(* lib.rs): lists are added one after the other, the indexes are sorted    *)
(* once, and then names are looked up.  Offsets count from 0 as in the     *)
(* code; rules, lists and wildcards are numbered from 1.                   *)
(***************************************************************************)
EXTENDS ListParser

CONSTANTS
    List,           \* texts of blocklists, each a sequence of lines
    QueryName,      \* names that are looked up
    MaxLists,       \* bound on lists
    MaxSpan,        \* longest text kept, 255
    None            \* absent

\* A name on the wire has no empty label.
ASSUME FilterAssumption ==
    /\ MaxLists \in Nat /\ MaxSpan \in Nat /\ MaxName <= MaxSpan
    /\ List \subseteq Seq(Seq(Nat)) /\ QueryName \subseteq Seq(Nat)
    /\ \A name \in QueryName : ~EndsWith(lower_strip(name), Dot)

VARIABLES
    engine,
    phase,          \* "adding" lists, or "built"
    lists,          \* history: each list with what the parser made of it
    asked           \* history: the last name looked up and its verdict

vars == <<engine, phase, lists, asked>>

-----------------------------------------------------------------------------
(* Key indexes.                                                            *)

NoKeys == [arena |-> <<>>, offs |-> <<>>, lens |-> <<>>, rules |-> <<>>]

Slice(arena, off, len) == SubSeq(arena, off + 1, off + len)
KeyAt(ix, i) == Slice(ix.arena, ix.offs[i], ix.lens[i])

insert(ix, key, rule) ==
    [arena |-> ix.arena \o key, offs |-> Append(ix.offs, Len(ix.arena)),
     lens |-> Append(ix.lens, Len(key)), rules |-> Append(ix.rules, rule)]

\* The order of byte strings.
Below(s, t) ==
    \/ IsStrictPrefix(s, t)
    \/ \E i \in DOMAIN s \cap DOMAIN t :
          s[i] < t[i] /\ \A j \in 1 .. i - 1 : s[j] = t[j]

\* The orders an unstable sort by key may give.
Orders(ix) ==
    {o \in SetToSeqs(DOMAIN ix.rules) :
        \A i, j \in DOMAIN o : i < j => ~Below(KeyAt(ix, o[j]), KeyAt(ix, o[i]))}

\* The next entry in sorted order; its key is in the arena if it was the last one.
Place(out, ix, i) ==
    LET key == KeyAt(ix, i)
        again == out.offs # <<>> /\ KeyAt(out, Len(out.offs)) = key
    IN  [arena |-> IF again THEN out.arena ELSE out.arena \o key,
         offs |-> Append(out.offs, IF again THEN Last(out.offs) ELSE Len(out.arena)),
         lens |-> Append(out.lens, ix.lens[i]),
         rules |-> Append(out.rules, ix.rules[i])]

\* After the first n entries, for every n.
SortedOf(ix, order) ==
    LET f[n \in 0 .. Len(order)] == IF n = 0 THEN NoKeys ELSE Place(f[n - 1], ix, order[n])
    IN  f

Sorted(ix, order) == SortedOf(ix, order)[Len(order)]

\* One round of the binary search.
Halve(ix, needle, s) ==
    LET mid == s.lo + (s.hi - s.lo) \div 2
    IN  IF s.lo >= s.hi THEN s
        ELSE IF Below(KeyAt(ix, mid + 1), needle) THEN [lo |-> mid + 1, hi |-> s.hi]
        ELSE [lo |-> s.lo, hi |-> mid]

\* After k rounds, for every k; there are never more than keys.
SearchOf(ix, needle) ==
    LET f[k \in 0 .. Len(ix.rules)] ==
            IF k = 0 THEN [lo |-> 0, hi |-> Len(ix.rules)] ELSE Halve(ix, needle, f[k - 1])
    IN  f

\* The number of keys below the needle.
partition_point(ix, needle) == SearchOf(ix, needle)[Len(ix.rules)].lo

\* The rules whose key is the needle.
equal_range(ix, needle) ==
    LET lo == partition_point(ix, needle)
        others == {i \in lo + 1 .. Len(ix.rules) : KeyAt(ix, i) # needle}
        hi == IF others = {} THEN Len(ix.rules) ELSE Min(others) - 1
    IN  SubSeq(ix.rules, lo + 1, hi)

-----------------------------------------------------------------------------
(* Rules.                                                                  *)

\* The labels in reverse order: the name turned round, and each label turned back.
\* Dots that end the name go.
reverse_labels(name) ==
    LET n == Max({i \in DOMAIN name : name[i] # Dot} \cup {0})
        before(j) == Max({i \in 1 .. j - 1 : name[i] = Dot} \cup {0})
        after(j) == Min({i \in j + 1 .. n : name[i] = Dot} \cup {n + 1})
        turned(j) == IF name[j] = Dot THEN Dot ELSE name[before(j) + after(j) - j]
    IN  [k \in 1 .. n |-> turned(n + 1 - k)]

\* Where the last star is, 0 when there is none.
LastStar(expr) == Max({i \in DOMAIN expr : expr[i] = Star} \cup {0})

\* Mutant of wildcard_anchor: the label the last star stands in is taken for whole.
wildcard_anchorPartial(expr) == SubSeq(expr, LastStar(expr) + 1, Len(expr))

\* The whole labels after the last star; <<>> when there are none.
wildcard_anchor(expr) ==
    LET dots == {i \in LastStar(expr) + 1 .. Len(expr) : expr[i] = Dot}
    IN  IF dots = {} THEN <<>> ELSE SubSeq(expr, Min(dots) + 1, Len(expr))

HostsZero == <<48, Dot, 48, Dot, 48, Dot, 48, Space>>

\* How the text of a rule can be rebuilt from its key.
Form(rule) ==
    LET body == IF rule.except THEN StripPrefix(rule.text, <<At, At>>) ELSE rule.text
    IN  IF rule.kind = "subtree"
        THEN IF body = <<Pipe, Pipe>> \o Append(rule.name, Caret) THEN "subtree" ELSE "verbatim"
        ELSE IF rule.kind = "wildcard" THEN "verbatim"
        ELSE IF body = rule.name THEN "exact"
        ELSE IF body = Append(rule.name, Caret) THEN "caret"
        ELSE IF ~rule.except /\ body = HostsZero \o rule.name THEN "hosts"
        ELSE "verbatim"

NoRules ==
    [store |-> <<>>, verbatim |-> <<>>, subtree |-> NoKeys, exact |-> NoKeys,
     wildcards |-> <<>>, buckets |-> [anchor \in {} |-> <<>>], unanchored |-> <<>>]

\* Store::push and push_verbatim: the text is kept only if it cannot be rebuilt.
push(e, list, rule) ==
    LET kept == Form(rule) = "verbatim"
        entry == [list |-> list, line |-> rule.line, except |-> rule.except, form |-> Form(rule),
                  off |-> IF kept THEN Len(e.verbatim) ELSE 0,
                  len |-> IF kept THEN Min({Len(rule.text), MaxSpan}) ELSE 0]
    IN  [e EXCEPT !.store = Append(@, entry),
                  !.verbatim = IF kept THEN @ \o rule.text ELSE @]

\* File a wildcard under its anchor.
PushWildcard(e, rule, id) ==
    LET anchor == wildcard_anchor(rule.name)
        idx == Len(e.wildcards) + 1
        bucket == IF anchor \in DOMAIN e.buckets THEN e.buckets[anchor] ELSE <<>>
    IN  [e EXCEPT
            !.wildcards = Append(@, [expr |-> rule.name, rule |-> id,
                                     include_subdomains |-> rule.include_subdomains]),
            !.buckets = IF anchor = <<>> THEN @
                        ELSE [a \in DOMAIN @ \cup {anchor} |-> IF a = anchor THEN Append(bucket, idx) ELSE @[a]],
            !.unanchored = IF anchor = <<>> THEN Append(@, idx) ELSE @]

add_rule(e, list, rule) ==
    LET stored == push(e, list, rule)
        id == Len(stored.store)
    IN  IF rule.kind = "wildcard" THEN PushWildcard(stored, rule, id)
        ELSE IF rule.kind = "subtree"
        THEN [stored EXCEPT !.subtree = insert(@, reverse_labels(rule.name), id)]
        ELSE [stored EXCEPT !.exact = insert(@, rule.name, id)]

\* The rules of a list after the first n of them, for every n.
AddedOf(e, list, rules) ==
    LET f[n \in 0 .. Len(rules)] == IF n = 0 THEN e ELSE add_rule(f[n - 1], list, rules[n])
    IN  f

\* Mutant of Relocated: the spans keep the lengths of their keys, not the places.
RelocatedLengths(store, ix, forms) ==
    [id \in DOMAIN store |->
        IF store[id].form \in forms
        THEN LET i == CHOOSE i \in DOMAIN ix.rules : ix.rules[i] = id
             IN  [store[id] EXCEPT !.len = ix.lens[i]]
        ELSE store[id]]

\* Rules that borrow their text from an index follow their key.
Relocated(store, ix, forms) ==
    [id \in DOMAIN store |->
        IF store[id].form \in forms
        THEN LET i == CHOOSE i \in DOMAIN ix.rules : ix.rules[i] = id
             IN  [store[id] EXCEPT !.off = ix.offs[i], !.len = ix.lens[i]]
        ELSE store[id]]

finish(e, subtree, exact) ==
    [e EXCEPT !.subtree = subtree, !.exact = exact,
              !.store = Relocated(Relocated(@, subtree, {"subtree"}),
                                  exact, {"exact", "caret", "hosts"})]

-----------------------------------------------------------------------------
(* Matching.                                                               *)

\* The two-pointer matcher: p and t are the next bytes, sp and st the last star
\* and the byte from which it was last tried, 0 when there was none.
GlobState(pat, text) ==
    {s \in [p : 1 .. Len(pat) + 1, t : 1 .. Len(text) + 1, sp : 0 .. Len(pat), st : 0 .. Len(text) + 1] :
        s.sp < s.p /\ s.st <= s.t}

GlobFrom(pat, text) ==
    LET go[s \in GlobState(pat, text)] ==
            IF s.t > Len(text) THEN \A i \in s.p .. Len(pat) : pat[i] = Star
            ELSE IF s.p <= Len(pat) /\ pat[s.p] = text[s.t]
            THEN go[[p |-> s.p + 1, t |-> s.t + 1, sp |-> s.sp, st |-> s.st]]
            ELSE IF s.p <= Len(pat) /\ pat[s.p] = Star
            THEN go[[p |-> s.p + 1, t |-> s.t, sp |-> s.p, st |-> s.t]]
            ELSE s.sp # 0 /\ go[[p |-> s.sp + 1, t |-> s.st + 1, sp |-> s.sp, st |-> s.st + 1]]
    IN  go

glob_match(pat, text) == GlobFrom(pat, text)[[p |-> 1, t |-> 1, sp |-> 0, st |-> 0]]

\* The name and what follows each of its dots, longest first.
LabelSuffixes(name) ==
    LET starts == InOrder({k \in 1 .. Len(name) + 1 : k = 1 \/ name[k - 1] = Dot}, Len(name) + 1)
    IN  [k \in 1 .. Len(starts) |-> SubSeq(name, starts[k], Len(name))]

wildcard_matches(w, name) ==
    \/ glob_match(w.expr, name)
    \/ w.include_subdomains
       /\ \E rest \in ToSet(LabelSuffixes(name)) : rest # name /\ glob_match(w.expr, rest)

\* The rules with a key, for each of the needles.
Under(ix, needles) == Concat([k \in 1 .. Len(needles) |-> equal_range(ix, needles[k])])

\* What a reversed name has before each of its dots, and all of it.
ReversedPrefixes(rev) ==
    LET cuts == InOrder({k \in 1 .. Len(rev) + 1 : k = Len(rev) + 1 \/ rev[k] = Dot}, Len(rev) + 1)
    IN  [k \in 1 .. Len(cuts) |-> SubSeq(rev, 1, cuts[k] - 1)]

\* The wildcards that a name is tried against.
Tried(e, name) ==
    LET ends == LabelSuffixes(name)
    IN  Concat([k \in 1 .. Len(ends) |->
                  IF ends[k] \in DOMAIN e.buckets THEN e.buckets[ends[k]] ELSE <<>>])
        \o e.unanchored

\* The rules that match, in the order in which verdict considers them.
Considered(e, name) ==
    LET tried == Tried(e, name)
        wild == Chosen(tried, {k \in DOMAIN tried : wildcard_matches(e.wildcards[tried[k]], name)})
    IN  equal_range(e.exact, name)
        \o Under(e.subtree, ReversedPrefixes(reverse_labels(name)))
        \o [k \in 1 .. Len(wild) |-> e.wildcards[wild[k]].rule]

\* The rule as it is reported, its text rebuilt or copied.
matched(e, id) ==
    LET s == e.store[id]
        at == IF s.except THEN <<At, At>> ELSE <<>>
        key == Slice(IF s.form = "subtree" THEN e.subtree.arena ELSE e.exact.arena, s.off, s.len)
        text == CASE s.form = "subtree" -> at \o <<Pipe, Pipe>> \o Append(reverse_labels(key), Caret)
                  [] s.form = "exact" -> at \o key
                  [] s.form = "caret" -> at \o Append(key, Caret)
                  [] s.form = "hosts" -> HostsZero \o key
                  [] OTHER -> Slice(e.verbatim, s.off, s.len)
    IN  [kind |-> IF s.except THEN "Except" ELSE "Block", list |-> s.list, line |-> s.line,
         text |-> text]

NoMatch == [kind |-> "NoMatch"]

\* An exception ends the search; without one the first block rule decides.
verdict(e, query) ==
    LET name == lower_strip(query)
        ids == Considered(e, name)
        excepts == Chosen(ids, {k \in DOMAIN ids : e.store[ids[k]].except})
    IN  IF Len(name) \notin 1 .. MaxName \/ ids = <<>> THEN NoMatch
        ELSE matched(e, Head(excepts \o ids))

-----------------------------------------------------------------------------
Init ==
    /\ engine = NoRules /\ phase = "adding"
    /\ lists = <<>> /\ asked = None

\* A list is parsed straight into the engine.
add_list_text(text) ==
    /\ phase = "adding"
    /\ Len(lists) < MaxLists
    /\ LET out == parse_list_streamed(text)
       IN  /\ engine' = AddedOf(engine, Len(lists) + 1, out.rules)[Len(out.rules)]
           /\ lists' = Append(lists, [text |-> text, rules |-> out.rules, issues |-> out.issues])
    /\ UNCHANGED <<phase, asked>>

build ==
    /\ phase = "adding"
    /\ \E so \in Orders(engine.subtree), eo \in Orders(engine.exact) :
          engine' = finish(engine, Sorted(engine.subtree, so), Sorted(engine.exact, eo))
    /\ phase' = "built"
    /\ UNCHANGED <<lists, asked>>

\* A lookup leaves the engine as it is: one is enough.
Query(name) ==
    /\ phase = "built" /\ asked = None
    /\ asked' = [name |-> name, verdict |-> verdict(engine, name)]
    /\ UNCHANGED <<engine, phase, lists>>

Next ==
    \/ \E text \in List : add_list_text(text)
    \/ build
    \/ \E name \in QueryName : Query(name)

Spec == Init /\ [][Next]_vars

-----------------------------------------------------------------------------
(***************************************************************************)
(* Properties                                                              *)
(***************************************************************************)

\* Where the text may go on so that the last n bytes of the pattern match all of
\* it, for every n: a star stands for any bytes.
MatchedFrom(pat, text) ==
    LET f[n \in 0 .. Len(pat)] ==
            LET b == pat[Len(pat) + 1 - n]
            IN  IF n = 0 THEN {Len(text) + 1}
                ELSE IF b = Star THEN {t \in 1 .. Len(text) + 1 : \E u \in f[n - 1] : t <= u}
                ELSE {t \in 1 .. Len(text) : text[t] = b /\ t + 1 \in f[n - 1]}
    IN  f

Means(pat, text) == 1 \in MatchedFrom(pat, text)[Len(pat)]

\* Does a rule apply to a name?  A rule that covers subdomains applies to what
\* ends, at a label boundary, in a name it matches.
Applies(rule, name) ==
    \E i \in 0 .. Len(name) :
        /\ i = 0 \/ (name[i] = Dot /\ (rule.kind = "subtree" \/ rule.include_subdomains))
        /\ Means(rule.name, SubSeq(name, i + 1, Len(name)))

Applying(name) == {r \in UNION {ToSet(lists[l].rules) : l \in DOMAIN lists} : Applies(r, name)}

\* The verdict is that of a scan of all rules, an exception in any list beating
\* every block rule.
AsScanned ==
    LET name == lower_strip(asked.name)
        rules == IF Len(name) <= MaxName THEN Applying(name) ELSE {}
    IN  asked.verdict.kind = IF \E r \in rules : r.except THEN "Except"
                             ELSE IF rules # {} THEN "Block" ELSE "NoMatch"

\* The indexes, the anchors of wildcards and the matcher find what a scan of all
\* rules would find, and an exception in any list beats every block rule
\* (engine.rs: verdict; lib.rs: "Exceptions always win over block rules").  Not so
\* for a name with a star as a byte: glob_match takes a star of the rule that meets
\* it for that byte, and does not come back to it.
VerdictAgrees == asked # None /\ ~Contains(asked.name, Star) => AsScanned

\* The reported rule is one that applies, with its list, its line and the text as
\* it was written (a very long one cut), although most texts are rebuilt from keys that several rules
\* share and that sorting has moved (engine.rs: finish, matched).
ReportsItsRule ==
    asked # None /\ asked.verdict # NoMatch =>
        LET v == asked.verdict
        IN  \E r \in ToSet(lists[v.list].rules) :
                /\ r.line = v.line /\ r.except = (v.kind = "Except")
                /\ Applies(r, lower_strip(asked.name))
                /\ \/ v.text = r.text
                   \/ Len(r.text) > MaxSpan /\ v.text = SubSeq(r.text, 1, MaxSpan)

\* A hosts line that has an address and no name at all.
Nameless(line) ==
    /\ ~IsComment(line)
    /\ Before(split_whitespace(line)[1], Percent) \in SinkIp \cup OtherIp
    /\ Len(split_whitespace(Before(line, Hash))) <= 1

\* What a line owes: one rule or one issue, one for each name of a hosts line, and
\* nothing for a comment or the local machine's names.
Due(line) ==
    LET ip == Before(split_whitespace(line)[1], Percent)
        names == Len(HostNames(line))
    IN  IF IsComment(line) THEN IF OpensCosmetic(line) THEN 1 ELSE 0
        ELSE IF ip \notin SinkIp \cup OtherIp THEN 1
        ELSE IF ip \in SinkIp \/ names = 0 THEN names ELSE 1

OfLine(s, no) == {i \in DOMAIN s : s[i].line = no}

\* No line is dropped in silence: apart from comments and the local machine's
\* names, each rule line leaves one rule or one issue, and each name of a hosts
\* line its own (lib.rs: "rejected loudly ... never silently dropped").  The
\* property says nothing of a line that is an address without a name: parse.rs
\* does drop it in silence, against lib.rs.
EachLineAccounted ==
    \A l \in DOMAIN lists : \A no \in DOMAIN lists[l].text :
        ~Nameless(Trim(lists[l].text[no])) =>
            Cardinality(OfLine(lists[l].rules, no)) + Cardinality(OfLine(lists[l].issues, no))
                = Due(Trim(lists[l].text[no]))
=============================================================================
