------------------------------ MODULE Migrate ------------------------------
(***************************************************************************)
(* `sumidero migrate`: what convert (crates/cli/src/commands/migrate.rs)   *)
(* makes of an AdGuardHome.yaml.  The AdGuard file is a record of what     *)
(* convert reads of it; a warning is what it is about.                     *)
(***************************************************************************)
EXTENDS Config

CONSTANTS
    Lower,          \* words as to_ascii_lowercase writes them; anything else in a
                    \* list's name is a mark
    Numeral,        \* numbers as they are written, up to a bound
    U64             \* how many numbers a u64 holds

\* What convert reads of an AdGuardHome.yaml; the rest is ignored.
Client == [kind : Text, net : Text]
AghFilter == [enabled : BOOLEAN, name : Seq(Text), url : Url]
Agh ==
    [hosts : Seq(Text), upstreams : Seq(Url), fallback : BOOLEAN,
     bootstrap : Seq(Text), timeout : [unit : Text, n : Nat],
     clients : Seq(Client), filters : Seq(AghFilter),
     user_rules : Seq(Text), blocked_hosts : Seq(Text),
     safe : [enabled : BOOLEAN, on : SUBSET Text], sections : SUBSET Text]

ASSUME MigrateAssumption ==
    /\ \A word \in DOMAIN Lower : Lower[word] \in Text
    /\ Numeral \in Seq(Text) /\ U64 \in Nat \ {0}
    /\ \A i, j \in 1 .. Len(Numeral) : Numeral[i] = Numeral[j] => i = j

\* Hosts, clients and upstreams as convert tells them apart.
V4Any == "0.0.0.0"
V6Any == "::"
Usable == {"https", "quic"}

UserRules == <<"user", "-", "rules">>
RulesPath == Absolute("user-rules.txt")

\* The local networks a missing allowlist becomes.
LocalNets == <<Net("192.168.0.0/16"), Net("10.0.0.0/8"), Net("172.16.0.0/12"),
               Net("127.0.0.0/8"), Net("::1/128")>>

-----------------------------------------------------------------------------
\* Of the first n of s those in S, in order, for every n.
KeptOf(s, S) ==
    LET f[n \in 0 .. Len(s)] ==
            IF n = 0 THEN <<>>
            ELSE IF s[n] \in S THEN Append(f[n - 1], s[n]) ELSE f[n - 1]
    IN  f

Keep(s, S) == KeptOf(s, S)[Len(s)]

\* slug: lower case, a dash for every run of marks, none at the ends.
slug(name) ==
    LET IsWord(i) == name[i] \in DOMAIN Lower
        Joins(i) == /\ ~IsWord(i) /\ i > 1 /\ IsWord(i - 1)
                    /\ \E j \in i .. Len(name) : IsWord(j)
        kept == Keep([i \in 1 .. Len(name) |-> i],
                     {i \in 1 .. Len(name) : IsWord(i) \/ Joins(i)})
    IN  [k \in 1 .. Len(kept) |-> IF IsWord(kept[k]) THEN Lower[name[kept[k]]] ELSE "-"]

Numbered(name, n) == name \o <<"-", Numeral[n]>>

\* The name itself, or with the least number that makes it new.
Unused(name, used) ==
    IF name \notin used THEN name
    ELSE LET n == CHOOSE n \in 2 .. Len(Numeral) :
                     /\ Numbered(name, n) \notin used
                     /\ \A m \in 2 .. n - 1 : Numbered(name, m) \in used
         IN  Numbered(name, n)

\* Mutant of Reserved: any name is free at first.
ReservedNone == {}

\* Names the filters may not take.
Reserved == {UserRules}

\* A filter that is enabled becomes a list under a name of its own.
AddFilter(done, i, f) ==
    LET base == IF slug(f.name) = <<>> THEN <<"list", "-", Numeral[i]>> ELSE slug(f.name)
        name == Unused(base, done.used)
    IN  IF ~f.enabled
        THEN [done EXCEPT !.warnings = @ \cup {<<"disabled", i>>}]
        ELSE [used |-> done.used \cup {name},
              lists |-> Append(done.lists, ListSource(name, f.url, None)),
              warnings |-> done.warnings \cup
                           (IF name = base THEN {} ELSE {<<"renamed", i>>})]

\* The first n filters, for every n.
NamedOf(filters) ==
    LET f[n \in 0 .. Len(filters)] ==
            IF n = 0 THEN [used |-> Reserved, lists |-> <<>>, warnings |-> {}]
            ELSE AddFilter(f[n - 1], n, filters[n])
    IN  f

Named(filters) == NamedOf(filters)[Len(filters)]

\* Every host once; 0.0.0.0 stands for both families.
Both(host) == IF host = V4Any THEN <<V4Any, V6Any>> ELSE <<host>>

BindsOf(hosts) ==
    LET f[n \in 0 .. Len(hosts)] ==
            IF n = 0 THEN <<>>
            ELSE f[n - 1] \o Keep(Both(hosts[n]), ToSet(Both(hosts[n])) \ ToSet(f[n - 1]))
    IN  f

Binds(hosts) == BindsOf(hosts)[Len(hosts)]

\* Addresses become networks, networks stay, anything else is left out.
Networks(clients) ==
    LET kept == Keep(clients, {c \in ToSet(clients) : c.kind # "id"})
    IN  [i \in 1 .. Len(kept) |-> [net |-> kept[i].net, parses |-> kept[i].kind # "malformed"]]

Allow(clients) == IF Networks(clients) = <<>> THEN LocalNets ELSE Networks(clients)

\* parse_go_duration_ms, or the default.  A release build wraps the product.
TimeoutParses(timeout) == timeout.unit \in {"ms", "s"} /\ timeout.n < U64

Millis(timeout) ==
    CASE TimeoutParses(timeout) /\ timeout.unit = "ms" -> timeout.n
      [] TimeoutParses(timeout) /\ timeout.unit = "s" -> (timeout.n * 1000) % U64
      [] OTHER -> 5000

\* The supported providers that were on.
Providers(safe) ==
    IF safe.enabled THEN Keep(<<"google", "youtube", "bing", "duckduckgo">>, safe.on)
    ELSE <<>>

-----------------------------------------------------------------------------
If(condition, warning) == IF condition THEN {warning} ELSE {}

Warnings(agh) ==
    {<<"upstream", u>> : u \in {u \in ToSet(agh.upstreams) : u.scheme \notin Usable}}
    \cup If(agh.fallback, <<"fallback">>) \cup If(~TimeoutParses(agh.timeout), <<"timeout">>)
    \cup If(Networks(agh.clients) = <<>>, <<"allow">>)
    \cup {<<"client", c>> : c \in {c \in ToSet(agh.clients) : c.kind = "id"}}
    \cup Named(agh.filters).warnings
    \cup {<<"provider", p>> : p \in IF agh.safe.enabled THEN agh.safe.on \ SUPPORTED_PROVIDERS ELSE {}}
    \cup If(agh.safe.enabled /\ Providers(agh.safe) = <<>>, <<"safe search">>)
    \cup {<<"section", s>> : s \in agh.sections}

\* The rules of both kinds, which become a local list.
Rules(agh) == agh.user_rules \o agh.blocked_hosts

\* The generated file.
Toml(agh) ==
    LET servers == Keep(agh.upstreams, {u \in ToSet(agh.upstreams) : u.scheme \in Usable})
        local == IF Rules(agh) = <<>> THEN <<>> ELSE <<ListSource(UserRules, None, RulesPath)>>
        providers == Providers(agh.safe)
    IN  [profile |-> None, lists |-> Named(agh.filters).lists \o local,
         safe_search |-> [enabled |-> providers # <<>>, providers |-> providers],
         extra_roots |-> <<>>, max_entries |-> DefaultEntries, serve_stale_secs |-> DefaultStale,
         bind |-> Binds(agh.hosts), allow |-> Allow(agh.clients),
         list_dir |-> Absolute("lists"), database |-> Absolute("sqlite"),
         servers |-> servers, bootstrap |-> agh.bootstrap, timeout_ms |-> Millis(agh.timeout)]

\* Why convert fails: a host that is no address, nothing to ask or to filter
\* with, or a file that would not load.
Refused(agh) ==
    \/ "malformed" \in ToSet(agh.hosts)
    \/ \A u \in ToSet(agh.upstreams) : u.scheme \notin Usable
    \/ agh.bootstrap = <<>>
    \/ Named(agh.filters).lists = <<>> /\ Rules(agh) = <<>>

SelfCheckFails(agh) == ~Refused(agh) /\ ~loads(Toml(agh))

Converts(agh) == ~Refused(agh) /\ loads(Toml(agh))
=============================================================================
