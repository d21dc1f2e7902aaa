---------------------------- MODULE CacheEntries ----------------------------
(***************************************************************************)
(* What crates/core/src/cache.rs decides about one response (whether it is *)
(* stored, how long it lives, how an entry of some age is answered), and   *)
(* what the cache as a whole promises: a list of entries, most recently    *)
(* used first, cut to the entry cap and to the longest prefix within the   *)
(* byte budget.  Times are whole seconds (the code compares as_secs).      *)
(***************************************************************************)
EXTENDS Naturals, Sequences, FiniteSets

CONSTANTS
    Capacity,       \* most entries
    MaxBytes,       \* max_bytes, exceeded by a single entry at most
    ServeStale,     \* serve_stale_secs: seconds an expired entry stays servable
    StaleTtl        \* STALE_ANSWER_TTL_SECS: TTL on every stale record

ASSUME CacheAssumption ==
    /\ Capacity \in Nat \ {0}
    /\ MaxBytes \in Nat \ {0}
    /\ ServeStale \in Nat
    /\ StaleTtl \in Nat

Least(S) == CHOOSE m \in S : \A x \in S : m <= x

\* One record of a response: its TTL, and the MINIMUM field if it is an SOA.
RecordLife(r) ==
    IF r.soa /\ r.minimum < r.ttl THEN r.minimum ELSE r.ttl

\* Cache::insert keeps only NOERROR and NXDOMAIN, and only with some record.
Storable(msg) == msg.rcode \in {"NOERROR", "NXDOMAIN"} /\ msg.records # {}

\* Mutant of Lifetime: the entry lives as long as its longest record.
LifetimeLongest(msg) ==
    CHOOSE m \in {RecordLife(r) : r \in msg.records} :
        \A r \in msg.records : RecordLife(r) <= m

\* effective_ttl_secs: no record outlives it, and no floor is applied.
Lifetime(msg) == Least({RecordLife(r) : r \in msg.records})

\* now.duration_since(inserted_at) is zero for an entry stored "later".
Age(e, now) == IF now > e.at THEN now - e.at ELSE 0

Expired(e, now) == Age(e, now) >= e.ttl + ServeStale

Fresh(e, now) == Age(e, now) < e.ttl

\* The TTL a record with original TTL `orig` carries in the answer
\* (u32::saturating_sub, floor of one second).
AnswerTtl(e, orig, now) ==
    IF Fresh(e, now)
    THEN IF orig > Age(e, now) THEN orig - Age(e, now) ELSE 1
    ELSE StaleTtl

\* The answer Cache::get builds from an entry that has not expired.
AnswerFrom(e, now) ==
    [kind |-> IF Fresh(e, now) THEN "fresh" ELSE "stale",
     ttls |-> {AnswerTtl(e, r.ttl, now) : r \in e.msg.records}]

-----------------------------------------------------------------------------
(* The cache as a list of entries, most recently used first.               *)

Keys(s) == {s[i].key : i \in 1 .. Len(s)}

Entry(k, msg, at) ==
    [key |-> k, ttl |-> Lifetime(msg), at |-> at, bytes |-> msg.bytes, msg |-> msg]

\* The place of a key that is in the list; a key has one.
PlaceOf(s, k) == CHOOSE i \in 1 .. Len(s) : s[i].key = k

EntryOf(s, k) == s[PlaceOf(s, k)]

Without(s, k) == SubSeq(s, 1, PlaceOf(s, k) - 1) \o SubSeq(s, PlaceOf(s, k) + 1, Len(s))

\* Bytes of the first i entries, for every i.
BytesUpTo(s) ==
    LET sum[i \in 0 .. Len(s)] == IF i = 0 THEN 0 ELSE sum[i - 1] + s[i].bytes
    IN  sum

\* The first n entries are within the budget, or the newest is alone.
Fits(s, n) == n = 1 \/ BytesUpTo(s)[n] <= MaxBytes

\* The longest prefix that fits.
Trim(s) ==
    SubSeq(s, 1, CHOOSE n \in 1 .. Len(s) : Fits(s, n) /\ \A m \in n + 1 .. Len(s) : ~Fits(s, m))

Stored(s, e) ==
    Trim(<<e>> \o (IF e.key \in Keys(s) THEN Without(s, e.key)
                   ELSE IF Len(s) >= Capacity THEN SubSeq(s, 1, Len(s) - 1)
                   ELSE s))

Touched(s, k) == <<EntryOf(s, k)>> \o Without(s, k)
=============================================================================
