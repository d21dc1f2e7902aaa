------------------------------- MODULE Shadow -------------------------------
(***************************************************************************)
(* How an answer is compared with the one of the reference resolver        *)
(* (crates/core/src/shadow.rs).  A reply is its response code and the      *)
(* addresses it holds: none at all, other records only, only unspecified   *)
(* ones, or at least one that is specified.                                *)
(***************************************************************************)
Reply == [rcode : {"NoError", "NXDomain", "ServFail"},
          holds : {"nothing", "no address", "unspecified", "address"}]

looks_blocked(reply) ==
    \/ reply.rcode = "NXDomain"
    \/ reply.rcode = "NoError" /\ reply.holds = "unspecified"

\* The class of a divergence, or "none".
classify(ours, ours_blocked, theirs) ==
    LET same == ours.rcode = theirs.rcode
        empty == theirs.rcode = "NoError" /\ theirs.holds = "nothing"
    IN  CASE ours_blocked /\ looks_blocked(theirs) -> IF same THEN "none" ELSE "expected"
          [] ours_blocked /\ ~looks_blocked(theirs) ->
                IF empty THEN "expected" ELSE "we-block-they-answer"
          [] ~ours_blocked /\ looks_blocked(theirs) ->
                IF looks_blocked(ours) THEN "none" ELSE "they-block-we-answer"
          [] OTHER -> IF same THEN "none" ELSE "rcode-mismatch"
=============================================================================
