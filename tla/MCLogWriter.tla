---------------------------- MODULE MCLogWriter ----------------------------
(* A query over UDP that is blocked and one over TCP that is not; two      *)
(* connections for one slot.                                               *)
EXTENDS LogWriter

CONSTANTS u1, t1

Answers ==
    [q \in {u1, t1} |->
        IF q = u1 THEN [reply |-> [rcode |-> "NXDomain", holds |-> "nothing"], blocked |-> TRUE]
        ELSE [reply |-> [rcode |-> "NoError", holds |-> "address"], blocked |-> FALSE]]
=============================================================================
