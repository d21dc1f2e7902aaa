-------------------------- MODULE MCPipelineFlight --------------------------
(* Queries for one name, racing each other, their lookups and refreshes.   *)
EXTENDS Pipeline, TLC

CONSTANTS site, home

MCKey == {site}
MCRequest == {[kind |-> "plain", name |-> site, client |-> home]}
MCPolicy == {[allow |-> {home}, block |-> {}, except |-> {}, rewrite |-> [n \in {} |-> n]]}

MCMessage ==
    {[rcode |-> "NOERROR", cnames |-> {}, bytes |-> 1,
      records |-> {[soa |-> FALSE, ttl |-> 1, minimum |-> 0]}],
     [rcode |-> "SERVFAIL", cnames |-> {}, bytes |-> 1, records |-> {}]}

Symmetry == Permutations(Query)
=============================================================================
