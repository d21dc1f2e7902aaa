------------------------------ MODULE MCCache -------------------------------
(* Four keys for three places; answers of different sizes and lifetimes, a *)
(* negative answer whose SOA MINIMUM is its lifetime, a TTL of zero, and   *)
(* two answers that are never stored.                                      *)
EXTENDS Cache, TLC

RR(ttl) == [soa |-> FALSE, ttl |-> ttl, minimum |-> 0]
SOA(ttl, minimum) == [soa |-> TRUE, ttl |-> ttl, minimum |-> minimum]
Msg(rcode, records, bytes) == [rcode |-> rcode, records |-> records, bytes |-> bytes]

MCMessage ==
    {Msg("NOERROR", {RR(1), RR(2)}, 1),
     Msg("NXDOMAIN", {SOA(2, 1)}, 3),
     Msg("NOERROR", {RR(0)}, 2),
     Msg("NOERROR", {}, 1),
     Msg("SERVFAIL", {RR(1)}, 1)}

Symmetry == Permutations(Key)
=============================================================================
