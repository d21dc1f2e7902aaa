----------------------------- MODULE MCCommands -----------------------------
(***************************************************************************)
(* Two processes.  One scenario per AdGuard file: it is migrated while,    *)
(* unless it has many filters, another process waits to serve it.  One per *)
(* configuration written by hand: it is served.  One per pair of commands  *)
(* and old database: they race.                                            *)
(***************************************************************************)
EXTENDS Commands, TLC

CONSTANTS p1, p2

Words == [w \in {"a", "A", "2", "user", "rules", "list", "1"} |-> IF w = "A" THEN "a" ELSE w]

Strings == STRING

Numbers == <<"1", "2", "3", "4", "5">>

SeqsUpTo(S, n) == UNION {[1 .. k -> S] : k \in 0 .. n}

Quic(place) == [scheme |-> "quic", place |-> place]
Http(place) == [scheme |-> "http", place |-> place]

Filter(enabled, name, url) == [enabled |-> enabled, name |-> name, url |-> url]

\* An AdGuard file that converts, and what each part of it may be instead.
Plain ==
    [hosts |-> <<V4Any>>, upstreams |-> <<Https("one")>>, fallback |-> FALSE,
     bootstrap |-> <<"1.1.1.1">>, timeout |-> [unit |-> "s", n |-> 5],
     clients |-> <<[kind |-> "network", net |-> "lan"]>>,
     filters |-> <<Filter(TRUE, <<"a">>, Https("f1"))>>,
     user_rules |-> <<"rule">>, blocked_hosts |-> <<>>,
     safe |-> [enabled |-> TRUE, on |-> {"google"}], sections |-> {}]

FilterNames == {<<"a">>, <<"A", "!">>, <<"a", " ", "!", "2">>, <<"user", "-", "rules">>,
                <<"!">>, <<"list", " ", "1">>}

FilterSeqs ==
    {[i \in 1 .. Len(s) |-> Filter(TRUE, s[i], Https(<<"f1", "f2", "f3">>[i]))] : s \in SeqsUpTo(FilterNames, 3)}
    \cup {<<Filter(on, <<"a">>, Https("f1")), Filter(TRUE, <<"a">>, url)>> :
             on \in BOOLEAN, url \in {Https("f2"), Http("f2")}}

Yamls ==
    {[Plain EXCEPT !.filters = f] : f \in FilterSeqs}
    \cup {[Plain EXCEPT !.filters = <<>>, !.user_rules = u, !.blocked_hosts = b] :
             u \in {<<>>, <<"rule">>}, b \in {<<>>, <<"host">>}}
    \cup {[Plain EXCEPT !.upstreams = u] :
             u \in SeqsUpTo({Https("one"), Quic("two"), Http("three")}, 2)}
    \cup {[Plain EXCEPT !.clients = c] :
             c \in SeqsUpTo({[kind |-> "network", net |-> "lan"], [kind |-> "address", net |-> "host"],
                             [kind |-> "id", net |-> "phone"], [kind |-> "malformed", net |-> "x/y"]}, 2)}
    \cup {[Plain EXCEPT !.safe = [enabled |-> e, on |-> on]] :
             e \in BOOLEAN, on \in SUBSET {"google", "bing", "ecosia"}}
    \cup {[Plain EXCEPT !.hosts = h] : h \in SeqsUpTo({V4Any, V6Any, "192.0.2.1", "malformed"}, 2)}
    \cup {[Plain EXCEPT !.timeout = [unit |-> u, n |-> n]] :
             u \in {"ms", "s", "other"}, n \in {0, 30, 31, 66, 99, 100, 65536}}
    \cup {[Plain EXCEPT !.fallback = TRUE, !.sections = {"dhcp", "tls", "ratelimit"}],
          [Plain EXCEPT !.bootstrap = <<>>]}

\* Files written by hand: lists that add, override, repeat or lack something.
HandLists ==
    {ListSource(<<"mine">>, Https("mine"), None), ListSource(<<"mine">>, Https("other"), None),
     ListSource(<<"hagezi", "-", "pro">>, None, Absolute("mine.txt")),
     ListSource(<<>>, Https("mine"), None), ListSource(<<"bare">>, None, None),
     ListSource(<<"plain">>, Http("mine"), None),
     ListSource(<<"gone">>, None, Absolute("gone.txt")),
     ListSource(<<"here">>, None, [absolute |-> FALSE, file |-> "mine.txt"])}

OwnFiles == {Absolute("mine.txt")}

HandWritten ==
    {[starter_config(profile) EXCEPT !.lists = lists] :
         profile \in {None, "minimal", "strict"}, lists \in SeqsUpTo(HandLists, 2)}
    \cup {[starter_config("strict") EXCEPT !.safe_search = [enabled |-> e, providers |-> s]] :
             e \in BOOLEAN, s \in SeqsUpTo({"google", "bing", "ecosia"}, 2)}
    \cup {[starter_config("minimal") EXCEPT !.extra_roots = <<[absolute |-> FALSE, file |-> "ca"]>>],
          [starter_config("minimal") EXCEPT !.max_entries = 0],
          [starter_config("minimal") EXCEPT !.serve_stale_secs = MaxStale + 1]}

\* Where rows are not the point: none is left to log or to sweep.
Settled == Released(SCHEMA_VERSION, Row \ Expired)

\* What a release may have left, with rows to log and to sweep where the table is
\* to be rebuilt; a version that is no number is read as 0.
OldDatabases ==
    {NoDatabase} \cup {Released(v, {"old", "r1"}) : v \in 1 .. 2}
    \cup {Released(3, Row), Settled}
    \cup {[Settled EXCEPT !.version = v] : v \in {0, SCHEMA_VERSION + 1}}

Runs(one, two) == p1 :> one @@ p2 :> two
Commands2 == {"init", "init --force", "migrate", "migrate --force", "serve", "status"}

Scenarios ==
    {[yaml |-> y, config |-> None, db |-> Settled,
      run |-> Runs("migrate", IF Len(y.filters) < 3 THEN "serve" ELSE "none")] : y \in Yamls}
    \cup {[yaml |-> Plain, config |-> c, db |-> Settled, run |-> Runs("serve", "none")] : c \in HandWritten}
    \cup {[yaml |-> Plain, config |-> c, db |-> Settled, run |-> Runs(one, two)] :
         c \in {None, starter_config("minimal")}, one, two \in Commands2}
    \cup {[yaml |-> Plain, config |-> starter_config("minimal"), db |-> d, run |-> Runs("serve", two)] :
         d \in OldDatabases, two \in {"serve", "status"}}
=============================================================================
