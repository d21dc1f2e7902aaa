-------------------------- MODULE MCPipelinePolicy --------------------------
(* Every kind of request, two policies that are swapped under the queries, *)
(* answers whose chain one policy blocks, and a cache with one place.      *)
EXTENDS Pipeline, TLC

CONSTANTS
    site, tracker,      \* a name, and a name its chain may lead to
    search, safe,       \* a rewritten name and its enforced endpoint
    home, stranger      \* clients

MCKey == {site, search, safe}

MCRequest ==
    {[kind |-> "plain", name |-> n, client |-> home] : n \in {site, search}}
    \cup {[kind |-> k, name |-> site, client |-> home] : k \in {"empty", "any", "unparsable"}}
    \cup {[kind |-> "plain", name |-> site, client |-> stranger]}

NoRewrite == [n \in {} |-> n]

MCPolicy ==
    {[allow |-> {home, stranger}, block |-> {tracker}, except |-> {},
      rewrite |-> [n \in {search} |-> safe]],
     [allow |-> {home}, block |-> {site, search}, except |-> {search}, rewrite |-> NoRewrite]}

MCMessage ==
    {[rcode |-> "NOERROR", cnames |-> {tracker}, bytes |-> 1,
      records |-> {[soa |-> FALSE, ttl |-> 1, minimum |-> 0]}],
     [rcode |-> "NXDOMAIN", cnames |-> {}, bytes |-> 1, records |-> {}]}

Symmetry == Permutations(Query)
=============================================================================
