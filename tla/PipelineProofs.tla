--------------------------- MODULE PipelineProofs ---------------------------
(***************************************************************************)
(* Proofs about the request pipeline, for any number of queries, names,    *)
(* policies and messages, and any cache and hold-down.                     *)
(***************************************************************************)
EXTENDS Pipeline, FiniteSetTheorems, SequenceTheorems, WellFoundedInduction, TLAPS

(***************************************************************************)
(* The invariants                                                          *)
(***************************************************************************)

\* What TypeOK leaves open: a message may be anything, but every query has one
\* place for it, and a log record has its four fields.
Shapes ==
    /\ answer = [q \in Query |-> answer[q]]
    /\ inbox = [q \in Query |-> inbox[q]]
    /\ tans = [q \in Query |-> tans[q]]
    /\ log = [q \in Query |-> log[q]]
    /\ \A q \in Query : DOMAIN log[q] = {"verdict", "source", "rcode", "cnames"}

\* Stages of a query past the policy check and before its answer.
Resolving == {"lookup", "stale", "missed", "join", "wait", "finish"}

\* A query that arrived has a request; one that resolves has a key and keeps it
\* for its task; a task starts when its query can start no other.
Places ==
    \A q \in Query :
        /\ pc[q] # "idle" => req[q] \in Request
        /\ pc[q] \in Resolving => key[q] \in Key
        /\ tpc[q] # "none" => /\ key[q] \in Key
                              /\ pc[q] \in {"wait", "finish", "done"}
                              /\ tkind[q] \in {"lookup", "refresh"}
        /\ tpc[q] = "start" => tkind[q] = "refresh"
        /\ tpc[q] = "publish" => tkind[q] = "lookup"

FlightInv == AdmissionBound /\ Shapes /\ Places /\ SingleFlight

-----------------------------------------------------------------------------
LEMMA FlightInit == Init => FlightInv
<1> SUFFICES ASSUME Init PROVE FlightInv
    OBVIOUS
<1>1. TypeOK /\ Places
    BY PipelineAssumption DEF Init, TypeOK, Places, Resolving, Stage, TaskStage
<1>2. Shapes
    BY DEF Init, Shapes, NewLog
<1>3. SingleFlight
    BY DEF Init, SingleFlight, LookupsExact, RefreshesExact, Registered, Refreshing
<1>4. Inside = {} /\ Admitted = {}
    BY DEF Init, Inside, Admitted
<1>5. AdmissionBound
    BY <1>1, <1>4, FS_EmptySet, PipelineAssumption DEF AdmissionBound, Init
<1> QED
    BY <1>1, <1>2, <1>3, <1>5 DEF FlightInv

\* A step of a query that starts no task keeps the tasks and their keys.
LEMMA QueryKeeps ==
    ASSUME FlightInv, NEW q \in Query,
           Shed(q) \/ RejectEmpty(q) \/ Refuse(q) \/ Judge(q) \/ RejectName(q)
               \/ LookupCache(q) \/ CheckHold(q) \/ Receive(q) \/ Finish(q)
    PROVE  /\ UNCHANGED <<lookups, refreshing, tpc, tkind>>
           /\ \A t \in Query : tpc[t] # "none" => key'[t] = key[t]
<1>1. UNCHANGED <<lookups, refreshing, tpc, tkind>>
    BY DEF Shed, RejectEmpty, Refuse, Judge, RejectName, LookupCache, CheckHold, Receive, Finish,
           Leave, Answering, shared, task
<1>2. ASSUME NEW t \in Query, tpc[t] # "none" PROVE key'[t] = key[t]
    <2>1. CASE Judge(q)
        BY <1>2, <2>1 DEF Judge, FlightInv, AdmissionBound, Places, TypeOK
    <2>2. CASE ~Judge(q)
        BY <2>2 DEF Shed, RejectEmpty, Refuse, RejectName, LookupCache, CheckHold, Receive, Finish
    <2> QED
        BY <2>1, <2>2
<1> QED
    BY <1>1, <1>2

LEMMA TasksKept ==
    ASSUME FlightInv, UNCHANGED <<lookups, refreshing, tpc, tkind>>,
           \A t \in Query : tpc[t] # "none" => key'[t] = key[t]
    PROVE  SingleFlight'
<1>1. LookupsExact'
    BY PipelineAssumption DEF FlightInv, AdmissionBound, SingleFlight, LookupsExact, Registered, TypeOK
<1>2. \A t \in Query : Refreshing(t)' <=> Refreshing(t)
    BY DEF Refreshing
<1>3. \A t \in Query : Refreshing(t) => key'[t] = key[t]
    BY DEF Refreshing
<1>4. RefreshesExact'
    BY <1>2, <1>3 DEF FlightInv, SingleFlight, RefreshesExact
<1> QED
    BY <1>1, <1>4 DEF SingleFlight

-----------------------------------------------------------------------------
(* Admission.                                                              *)

LEMMA Counts ==
    ASSUME TypeOK
    PROVE  /\ IsFiniteSet(Inside) /\ IsFiniteSet(Admitted)
           /\ Cardinality(Inside) \in Nat /\ Cardinality(Admitted) \in Nat
           /\ Admitted \subseteq Inside /\ Cardinality(Admitted) <= Cardinality(Inside)
<1>1. Inside \subseteq Query /\ Admitted \subseteq Inside
    BY DEF Inside, Admitted
<1> QED
    BY <1>1, PipelineAssumption, FS_Subset, FS_CardinalityType

\* Entering: in the code one fetch_add.
LEMMA Enters ==
    ASSUME AdmissionBound, NEW q \in Query, NEW r \in Request, Arrive(q, r)
    PROVE  AdmissionBound'
<1>1. TypeOK'
    BY DEF Arrive, AdmissionBound, TypeOK, Stage, task
<1>2. q \notin Inside /\ Inside' = Inside \cup {q}
    BY DEF Arrive, AdmissionBound, TypeOK, Inside, Stage
<1>3. in_flight' = Cardinality(Inside')
    BY <1>2, Counts, FS_AddElement DEF Arrive, AdmissionBound
<1>4. CASE in_flight >= MaxInFlight
    <2>1. Admitted' = Admitted
        BY <1>4 DEF Arrive, AdmissionBound, TypeOK, Admitted, Stage
    <2> QED
        BY <1>1, <1>3, <2>1 DEF AdmissionBound
<1>5. CASE ~(in_flight >= MaxInFlight)
    <2>1. Admitted' = Admitted \cup {q} /\ q \notin Admitted
        BY <1>5 DEF Arrive, AdmissionBound, TypeOK, Admitted, Stage
    <2>2. /\ IsFiniteSet(Admitted) /\ Cardinality(Admitted) \in Nat
          /\ Cardinality(Admitted) <= in_flight
        BY Counts DEF AdmissionBound
    <2>3. Cardinality(Admitted') = Cardinality(Admitted) + 1
        BY <2>1, <2>2, FS_AddElement
    <2>4. in_flight \in Nat /\ MaxInFlight \in Nat
        BY PipelineAssumption DEF AdmissionBound, TypeOK
    <2>5. Cardinality(Admitted') <= MaxInFlight
        BY <1>5, <2>2, <2>3, <2>4
    <2> QED
        BY <1>1, <1>3, <2>5 DEF AdmissionBound
<1> QED
    BY <1>4, <1>5

\* Leaving: the guard drops once.
LEMMA Leaves ==
    ASSUME AdmissionBound, NEW q \in Query, pc[q] \notin {"idle", "done"},
           pc' = [pc EXCEPT ![q] = "done"], in_flight' = in_flight - 1
    PROVE  /\ in_flight' \in Nat
           /\ in_flight' = Cardinality(Inside')
           /\ Cardinality(Admitted') <= MaxInFlight
<1>0. TypeOK /\ in_flight = Cardinality(Inside) /\ Cardinality(Admitted) <= MaxInFlight
    BY DEF AdmissionBound
<1>1. q \in Inside /\ Inside' = Inside \ {q} /\ Admitted' \subseteq Admitted
    BY <1>0 DEF TypeOK, Inside, Admitted
<1>2. IsFiniteSet(Inside) /\ IsFiniteSet(Admitted)
    BY <1>0, Counts
<1>3. Cardinality(Inside') = Cardinality(Inside) - 1
    BY <1>1, <1>2, FS_RemoveElement
<1>4. IsFiniteSet(Inside') /\ IsFiniteSet(Admitted') /\ Cardinality(Admitted') <= Cardinality(Admitted)
    BY <1>1, <1>2, FS_Subset
<1>5. /\ Cardinality(Inside') \in Nat /\ Cardinality(Admitted) \in Nat
      /\ Cardinality(Admitted') \in Nat
    BY <1>2, <1>4, FS_CardinalityType
<1>6. MaxInFlight \in Nat
    BY PipelineAssumption
<1> QED
    BY <1>0, <1>3, <1>4, <1>5, <1>6

\* Any other step of a query stays between the two.
LEMMA Stays ==
    ASSUME AdmissionBound, NEW q \in Query, NEW next \in Resolving,
           pc[q] \notin {"idle", "shed", "done"},
           pc' = [pc EXCEPT ![q] = next], in_flight' = in_flight
    PROVE  /\ in_flight' = Cardinality(Inside')
           /\ Cardinality(Admitted') <= MaxInFlight
<1>1. Inside' = Inside /\ Admitted' = Admitted
    BY DEF AdmissionBound, TypeOK, Inside, Admitted, Resolving
<1> QED
    BY <1>1 DEF AdmissionBound

\* Leaving, in every action that does.
LEMMA LeaveKeeps ==
    ASSUME AdmissionBound, NEW q \in Query, pc[q] \notin {"idle", "done"},
           NEW rec, NEW tap, Leave(q, rec, tap)
    PROVE  /\ in_flight' \in Nat
           /\ in_flight' = Cardinality(Inside')
           /\ Cardinality(Admitted') <= MaxInFlight
           /\ pc' \in [Query -> Stage]
           /\ tapped' \subseteq Query
<1>1. pc' = [pc EXCEPT ![q] = "done"] /\ in_flight' = in_flight - 1
    BY DEF Leave
<1>2. pc' \in [Query -> Stage] /\ tapped' \subseteq Query
    BY <1>1 DEF Leave, AdmissionBound, TypeOK, Stage
<1> QED
    BY <1>1, <1>2, Leaves

LEMMA AdmissionStep ==
    ASSUME FlightInv, Next
    PROVE  AdmissionBound'
<1> USE DEF FlightInv
<1> DEFINE Counted == /\ in_flight' = Cardinality(Inside')
                      /\ Cardinality(Admitted') <= MaxInFlight
<1>0. AdmissionBound /\ TypeOK
    BY DEF AdmissionBound
<1>1. ASSUME NEW q \in Query, Shed(q) \/ RejectEmpty(q) \/ Refuse(q) \/ Finish(q)
      PROVE  AdmissionBound'
    <2>1. pc[q] \notin {"idle", "done"} /\ \E rec : \E tap : Leave(q, rec, tap)
        <3>1. CASE Shed(q)
            BY <3>1 DEF Shed
        <3>2. CASE RejectEmpty(q)
            BY <3>2 DEF RejectEmpty
        <3>3. CASE Refuse(q)
            BY <3>3 DEF Refuse
        <3>4. CASE Finish(q)
            BY <3>4, Zenon DEF Finish
        <3> QED
            BY <1>1, <3>1, <3>2, <3>3, <3>4
    <2>2. Counted /\ in_flight' \in Nat /\ pc' \in [Query -> Stage] /\ tapped' \subseteq Query
        BY <1>0, <2>1, LeaveKeeps
    <2>3. snap' \in [Query -> Policy \cup {None}]
        BY <1>0, <1>1 DEF Shed, RejectEmpty, Refuse, Finish, TypeOK
    <2>4. UNCHANGED <<clock, policy, lookups, refreshing, req, now, key, chan, tpc, tkind, tat>>
        BY <1>1 DEF Shed, RejectEmpty, Refuse, Finish, task
    <2> QED
        BY <1>0, <2>2, <2>3, <2>4 DEF AdmissionBound, TypeOK
<1>2. ASSUME NEW q \in Query, Judge(q) PROVE AdmissionBound'
    <2>1. pc[q] \notin {"idle", "shed", "done"}
        BY <1>2 DEF Judge
    <2>2. snap' \in [Query -> Policy \cup {None}] /\ key' \in [Query -> Key \cup {None}]
        <3>1. req[q] \in Request
            BY <2>1 DEF Places
        <3>2. req[q].name \in Key
            BY <3>1, PipelineAssumption
        <3>3. \A n \in DOMAIN policy.rewrite : policy.rewrite[n] \in Key
            BY <1>0, PipelineAssumption DEF TypeOK
        <3>4. key' = key \/ \E k \in Key : key' = [key EXCEPT ![q] = k]
            BY <1>2, <3>2, <3>3 DEF Judge
        <3>5. snap' = [snap EXCEPT ![q] = policy]
            BY <1>2 DEF Judge
        <3> QED
            BY <1>0, <3>4, <3>5 DEF TypeOK
    <2>3. UNCHANGED <<clock, policy, lookups, refreshing, req, now, chan, tpc, tkind, tat>>
        BY <1>2 DEF Judge, task
    <2>4. CASE Verdict(policy, req[q].name) = "blocked"
        <3>1. \E rec : \E tap : Leave(q, rec, tap)
            BY <1>2, <2>4, Zenon DEF Judge
        <3> QED
            BY <1>0, <2>1, <2>2, <2>3, <3>1, LeaveKeeps DEF AdmissionBound, TypeOK
    <2>5. CASE Verdict(policy, req[q].name) # "blocked"
        <3>1. pc' = [pc EXCEPT ![q] = "lookup"] /\ UNCHANGED <<in_flight, tapped>>
            BY <1>2, <2>5 DEF Judge
        <3>2. Counted
            BY <1>0, <2>1, <3>1, Stays DEF Resolving
        <3> QED
            BY <1>0, <2>2, <2>3, <3>1, <3>2 DEF AdmissionBound, TypeOK, Stage
    <2> QED
        BY <2>4, <2>5
<1>3. ASSUME NEW q \in Query,
             RejectName(q) \/ LookupCache(q) \/ SpawnRefresh(q) \/ CheckHold(q) \/ Join(q) \/ Receive(q)
      PROVE  AdmissionBound'
    <2>1. pc[q] \notin {"idle", "shed", "done"} /\ \E next \in Resolving : pc' = [pc EXCEPT ![q] = next]
        BY <1>3 DEF RejectName, LookupCache, SpawnRefresh, CheckHold, Join, Receive, Answering, Resolving
    <2>2. UNCHANGED <<clock, in_flight, policy, tapped, req, now, snap, key>>
        BY <1>3 DEF RejectName, LookupCache, SpawnRefresh, CheckHold, Join, Receive, shared
    <2>3. Counted /\ pc' \in [Query -> Stage]
        BY <1>0, <2>1, <2>2, Stays DEF Resolving, TypeOK, Stage
    <2>4. lookups' \in [Key -> Query \cup {None}] /\ refreshing' \subseteq Key /\ chan' \in [Query -> Query \cup {None}]
        BY <1>0, <1>3 DEF RejectName, LookupCache, SpawnRefresh, CheckHold, Join, Receive, shared,
           TypeOK, Places, Resolving
    <2>5. /\ tpc' \in [Query -> TaskStage] /\ tkind' \in [Query -> {"lookup", "refresh", None}]
          /\ tat' \in [Query -> Nat]
        BY <1>0, <1>3 DEF RejectName, LookupCache, SpawnRefresh, CheckHold, Join, Receive, task,
           TypeOK, TaskStage
    <2> QED
        BY <1>0, <2>2, <2>3, <2>4, <2>5 DEF AdmissionBound, TypeOK
<1>4. ASSUME NEW t \in Query, TaskStep(t) PROVE AdmissionBound'
    <2>1. /\ UNCHANGED <<clock, in_flight, policy, tapped, req, now, snap, key, pc, chan, tkind>>
        BY <1>4 DEF TaskStep, StartRefresh, Resolve, Answered, AllFailed, Die, Store, Unregister, Publish,
           query, shared
    <2>2. tpc' \in [Query -> TaskStage]
        BY <1>0, <1>4 DEF TaskStep, StartRefresh, Resolve, Answered, AllFailed, Die, Store, Unregister, Publish,
           TypeOK, TaskStage
    <2>3. tat' \in [Query -> Nat]
        BY <1>0, <1>4 DEF TaskStep, StartRefresh, Resolve, Answered, AllFailed, Die, Store, Unregister, Publish,
           TypeOK
    <2>4. lookups' \in [Key -> Query \cup {None}] /\ refreshing' \subseteq Key
        BY <1>0, <1>4 DEF TaskStep, StartRefresh, Resolve, Answered, AllFailed, Die, Store, Unregister, Publish,
           TypeOK, shared
    <2>5. Counted
        BY <1>0, <2>1 DEF AdmissionBound, Inside, Admitted
    <2> QED
        BY <1>0, <2>1, <2>2, <2>3, <2>4, <2>5 DEF AdmissionBound, TypeOK
<1>5. ASSUME NEW p \in Policy, Install(p) PROVE AdmissionBound'
    BY <1>0, <1>5 DEF Install, AdmissionBound, TypeOK, query, task, Inside, Admitted
<1>6. CASE Tick
    BY <1>0, <1>6 DEF Tick, AdmissionBound, TypeOK, shared, query, task, Inside, Admitted
<1> QED
    BY <1>0, <1>1, <1>2, <1>3, <1>4, <1>5, <1>6, Enters DEF Next, QueryStep

-----------------------------------------------------------------------------
(* Records and places.                                                     *)

LEMMA ShapesStep ==
    ASSUME FlightInv, Next
    PROVE  Shapes'
<1> USE DEF FlightInv
<1>1. answer' = [q \in Query |-> answer'[q]]
    <2>1. \/ UNCHANGED answer
          \/ \E q \in Query : \E msg : answer' = [answer EXCEPT ![q] = msg]
        <3>1. ASSUME NEW q \in Query, RejectName(q) \/ LookupCache(q) \/ CheckHold(q) \/ Receive(q)
              PROVE  UNCHANGED answer \/ \E msg : answer' = [answer EXCEPT ![q] = msg]
            BY <3>1, Zenon DEF RejectName, LookupCache, CheckHold, Receive, Answering
        <3>2. ASSUME NEW q \in Query, Shed(q) \/ RejectEmpty(q) \/ Refuse(q) \/ Judge(q) \/ SpawnRefresh(q)
                                          \/ Join(q) \/ Finish(q) \/ TaskStep(q)
              PROVE  UNCHANGED answer
            BY <3>2 DEF Shed, RejectEmpty, Refuse, Judge, SpawnRefresh, Join, Finish, TaskStep, StartRefresh,
               Resolve, Answered, AllFailed, Die, Store, Unregister, Publish, query
        <3>3. ASSUME Tick \/ (\E p \in Policy : Install(p))
                         \/ \E q \in Query, r \in Request : Arrive(q, r)
              PROVE  UNCHANGED answer
            BY <3>3 DEF Tick, Install, Arrive, query
        <3> QED
            BY <3>1, <3>2, <3>3 DEF Next, QueryStep
    <2> QED
        BY <2>1 DEF Shapes
<1>2. inbox' = [q \in Query |-> inbox'[q]]
    BY DEF Next, QueryStep, TaskStep, Resolve, Shapes, Arrive, Shed, RejectEmpty, Refuse, Judge, RejectName,
       LookupCache, SpawnRefresh, CheckHold, Join, Receive, Finish, StartRefresh, Answered,
       AllFailed, Die, Store, Unregister, Publish, Install, Tick, query
<1>3. tans' = [q \in Query |-> tans'[q]]
    <2>1. ASSUME NEW q \in Query, QueryStep(q) \/ \E r \in Request : Arrive(q, r) PROVE UNCHANGED tans
        BY <2>1 DEF QueryStep, Arrive, Shed, RejectEmpty, Refuse, Judge, RejectName, LookupCache,
           SpawnRefresh, CheckHold, Join, Receive, Finish, task
    <2>2. ASSUME NEW t \in Query, TaskStep(t)
          PROVE  UNCHANGED tans \/ \E out : tans' = [tans EXCEPT ![t] = out]
        BY <2>2, Zenon DEF TaskStep, StartRefresh, Resolve, Answered, AllFailed, Die, Store, Unregister, Publish
    <2>3. ASSUME Tick \/ \E p \in Policy : Install(p) PROVE UNCHANGED tans
        BY <2>3 DEF Tick, Install, task
    <2> QED
        BY <2>1, <2>2, <2>3 DEF Next, Shapes
<1> DEFINE Fields == {"verdict", "source", "rcode", "cnames"}
<1> DEFINE Logged == log' = [q \in Query |-> log'[q]] /\ \A q \in Query : DOMAIN log'[q] = Fields
<1>4. Logged
    <2>0. log = [q \in Query |-> log[q]] /\ \A q \in Query : DOMAIN log[q] = Fields
        BY DEF Shapes
    <2>1. ASSUME NEW q \in Query, \E rec : DOMAIN rec = Fields /\ log' = [log EXCEPT ![q] = rec]
          PROVE  Logged
        BY <2>0, <2>1
    <2>2. ASSUME NEW q \in Query, Shed(q) \/ RejectEmpty(q) \/ Refuse(q) PROVE Logged
        BY <2>1, <2>2 DEF Shed, RejectEmpty, Refuse, Leave, NewLog
    <2>3. ASSUME NEW q \in Query, Judge(q) PROVE Logged
        BY <2>0, <2>1, <2>3 DEF Judge, Leave, NewLog
    <2>4. ASSUME NEW q \in Query, RejectName(q) \/ LookupCache(q) \/ CheckHold(q) \/ Receive(q)
          PROVE  Logged
        BY <2>0, <2>4 DEF RejectName, LookupCache, CheckHold, Receive, Answering
    <2>5. ASSUME NEW q \in Query, Finish(q) PROVE Logged
        <3> DEFINE out == [log[q] EXCEPT !.rcode = answer[q].rcode, !.cnames = answer[q].cnames]
        <3>1. PICK rec : /\ log' = [log EXCEPT ![q] = rec]
                         /\ \/ rec = out \/ rec = [out EXCEPT !.cnames = {}]
                            \/ rec = [log[q] EXCEPT !.verdict = "blocked", !.rcode = "NXDOMAIN"]
            BY <2>5, Zenon DEF Finish, Leave
        <3>2. DOMAIN log[q] = Fields
            BY <2>0
        <3>3. DOMAIN rec = Fields
            BY <3>1, <3>2
        <3> QED
            BY <2>1, <3>1, <3>3
    <2>6. ASSUME UNCHANGED log PROVE Logged
        BY <2>0, <2>6
    <2>7. ASSUME NEW q \in Query, SpawnRefresh(q) \/ Join(q) \/ TaskStep(q) PROVE UNCHANGED log
        BY <2>7 DEF SpawnRefresh, Join, TaskStep, StartRefresh, Resolve, Answered, AllFailed, Die, Store,
           Unregister, Publish, query
    <2>8. ASSUME NEW q \in Query, NEW r \in Request, Arrive(q, r) PROVE UNCHANGED log
        BY <2>8 DEF Arrive
    <2>9. ASSUME Tick \/ \E p \in Policy : Install(p) PROVE UNCHANGED log
        BY <2>9 DEF Tick, Install, query
    <2> QED
        BY <2>2, <2>3, <2>4, <2>5, <2>6, <2>7, <2>8, <2>9 DEF Next, QueryStep
<1> QED
    BY <1>1, <1>2, <1>3, <1>4 DEF Shapes

LEMMA PlacesStep ==
    ASSUME FlightInv, Next
    PROVE  Places'
<1> USE DEF FlightInv
<1>0. TypeOK /\ Places /\ LookupsExact /\ RefreshesExact
    BY DEF AdmissionBound, SingleFlight
<1>1. ASSUME NEW q \in Query, NEW r \in Request, Arrive(q, r) PROVE Places'
    BY <1>0, <1>1 DEF Arrive, TypeOK, Places, Resolving, Stage, task
<1>2. ASSUME NEW q \in Query, Shed(q) \/ RejectEmpty(q) \/ Refuse(q) \/ Finish(q) PROVE Places'
    <2>1. /\ pc' = [pc EXCEPT ![q] = "done"] /\ pc[q] # "idle"
          /\ UNCHANGED <<req, key, tpc, tkind>>
        BY <1>2 DEF Shed, RejectEmpty, Refuse, Finish, Leave, task
    <2> QED
        BY <1>0, <2>1 DEF TypeOK, Places, Resolving
<1>3. ASSUME NEW q \in Query, Judge(q) PROVE Places'
    <2>1. /\ pc[q] = "judge" /\ UNCHANGED <<req, tpc, tkind>>
        BY <1>3 DEF Judge, task
    <2>2. req[q] \in Request /\ req[q].name \in Key /\ tpc[q] = "none"
        BY <1>0, <2>1, PipelineAssumption DEF Places
    <2>3. \A n \in DOMAIN policy.rewrite : policy.rewrite[n] \in Key
        BY <1>0, PipelineAssumption DEF TypeOK
    <2>4. \/ pc' = [pc EXCEPT ![q] = "done"] /\ key' = key
          \/ pc' = [pc EXCEPT ![q] = "lookup"] /\ \E k \in Key : key' = [key EXCEPT ![q] = k]
        BY <1>3, <2>2, <2>3 DEF Judge, Leave
    <2> QED
        BY <1>0, <2>1, <2>2, <2>4 DEF TypeOK, Places, Resolving
<1>4. ASSUME NEW q \in Query,
             RejectName(q) \/ LookupCache(q) \/ SpawnRefresh(q) \/ CheckHold(q) \/ Join(q) \/ Receive(q)
      PROVE  Places'
    <2>1. /\ pc[q] \in Resolving /\ UNCHANGED <<req, key>>
          /\ \/ /\ \E next \in Resolving : pc' = [pc EXCEPT ![q] = next] /\ (pc[q] = "wait" => next = "finish")
                /\ pc[q] # "finish" /\ UNCHANGED <<tpc, tkind>>
             \/ /\ \E next \in {"wait", "finish"} : pc' = [pc EXCEPT ![q] = next]
                /\ pc[q] # "finish"
                /\ \/ tpc' = [tpc EXCEPT ![q] = "start"] /\ tkind' = [tkind EXCEPT ![q] = "refresh"]
                   \/ tpc' = [tpc EXCEPT ![q] = "asking"] /\ tkind' = [tkind EXCEPT ![q] = "lookup"]
        BY <1>4 DEF RejectName, LookupCache, SpawnRefresh, CheckHold, Join, Receive, Answering, Resolving, task
    <2> QED
        BY <1>0, <2>1 DEF TypeOK, Places, Resolving
<1>5. ASSUME NEW t \in Query, TaskStep(t) PROVE Places'
    <2> DEFINE Goes(next) == tpc' = [tpc EXCEPT ![t] = next]
    <2>1. UNCHANGED <<req, key, pc, tkind>> /\ tpc[t] # "none"
        BY <1>5 DEF TaskStep, StartRefresh, Resolve, Answered, AllFailed, Die, Store, Unregister, Publish, query
    <2>2. CASE StartRefresh(t)
        BY <1>0, <2>1, <2>2 DEF StartRefresh, TypeOK, Places, TaskStage
    <2>3. CASE Resolve(t)
        <3>1. Goes("unregister") \/ Goes("store")
            BY <2>3 DEF Resolve, Answered, AllFailed, Die
        <3> QED
            BY <1>0, <2>1, <3>1 DEF TypeOK, Places, TaskStage
    <2>4. CASE Store(t) \/ Unregister(t) \/ Publish(t)
        <3>1. Goes("unregister") \/ Goes("done") \/ (Goes("publish") /\ tkind[t] = "lookup")
            BY <2>4 DEF Store, Unregister, Publish
        <3> QED
            BY <1>0, <2>1, <3>1 DEF TypeOK, Places, TaskStage
    <2> QED
        BY <1>5, <2>2, <2>3, <2>4 DEF TaskStep
<1>6. ASSUME Tick \/ \E p \in Policy : Install(p) PROVE Places'
    <2>1. UNCHANGED <<req, key, pc, tpc, tkind>>
        BY <1>6 DEF Tick, Install, query, task
    <2> QED
        BY <1>0, <2>1 DEF Places
<1> QED
    BY <1>1, <1>2, <1>3, <1>4, <1>5, <1>6 DEF Next, QueryStep

-----------------------------------------------------------------------------
(* One lookup and one refresh per key.                                     *)

\* Leading a lookup: the map had no entry for the key, so no lookup of it runs.
LEMMA JoinFlight ==
    ASSUME FlightInv, NEW q \in Query, Join(q)
    PROVE  SingleFlight'
<1> USE DEF FlightInv
<1>0. TypeOK /\ Places /\ LookupsExact /\ RefreshesExact
    BY DEF AdmissionBound, SingleFlight
<1>1. CASE lookups[key[q]] # None
    <2>1. UNCHANGED <<lookups, refreshing, tpc, tkind, key>>
        BY <1>1 DEF Join, task
    <2> QED
        BY <2>1, TasksKept
<1>2. CASE lookups[key[q]] = None
    <2>1. /\ key[q] \in Key /\ tpc[q] = "none" /\ UNCHANGED <<refreshing, key>>
          /\ lookups' = [lookups EXCEPT ![key[q]] = q]
          /\ tpc' = [tpc EXCEPT ![q] = "asking"] /\ tkind' = [tkind EXCEPT ![q] = "lookup"]
        BY <1>0, <1>2 DEF Join, Places, Resolving
    <2>2. \A t \in Query : Registered(t)' <=> t = q \/ Registered(t)
        BY <1>0, <2>1 DEF Registered, TypeOK
    <2>3. \A t \in Query : Refreshing(t)' <=> Refreshing(t)
        BY <1>0, <2>1 DEF Refreshing, TypeOK
    <2>4. ASSUME NEW t \in Query, Registered(t)' PROVE lookups'[key'[t]] = t
        <3>1. CASE t = q
            BY <1>0, <2>1, <3>1 DEF TypeOK
        <3>2. CASE t # q
            <4>1. lookups[key[t]] = t
                BY <2>2, <2>4, <3>2, <1>0 DEF LookupsExact
            <4>2. key[t] # key[q]
                BY <1>2, <4>1, PipelineAssumption
            <4> QED
                BY <1>0, <2>1, <4>1, <4>2 DEF TypeOK, LookupsExact
        <3> QED
            BY <3>1, <3>2
    <2>5. ASSUME NEW k \in Key, lookups'[k] # None
          PROVE  (Registered(lookups[k]) /\ key[lookups[k]] = k)'
        <3>1. CASE k = key[q]
            <4>1. lookups'[k] = q
                BY <1>0, <2>1, <3>1 DEF TypeOK
            <4> QED
                BY <2>1, <2>2, <3>1, <4>1 DEF Registered
        <3>2. CASE k # key[q]
            <4>1. lookups'[k] = lookups[k] /\ lookups[k] \in Query
                BY <1>0, <2>1, <2>5, <3>2 DEF TypeOK
            <4>2. Registered(lookups[k]) /\ key[lookups[k]] = k
                BY <1>0, <2>5, <4>1 DEF LookupsExact
            <4> QED
                BY <2>1, <2>2, <4>1, <4>2 DEF Registered
        <3> QED
            BY <3>1, <3>2
    <2>6. RefreshesExact'
        BY <1>0, <2>1, <2>3 DEF RefreshesExact
    <2> QED
        BY <2>4, <2>5, <2>6 DEF SingleFlight, LookupsExact
<1> QED
    BY <1>1, <1>2

LEMMA SpawnFlight ==
    ASSUME FlightInv, NEW q \in Query, SpawnRefresh(q)
    PROVE  SingleFlight'
<1> USE DEF FlightInv
<1>0. TypeOK /\ Places /\ LookupsExact /\ RefreshesExact
    BY DEF AdmissionBound, SingleFlight
<1>1. CASE key[q] \in refreshing
    <2>1. UNCHANGED <<lookups, refreshing, tpc, tkind, key>>
        BY <1>1 DEF SpawnRefresh, task
    <2> QED
        BY <2>1, TasksKept
<1>2. CASE key[q] \notin refreshing
    <2>1. /\ key[q] \in Key /\ tpc[q] = "none" /\ UNCHANGED <<lookups, key>>
          /\ refreshing' = refreshing \cup {key[q]}
          /\ tpc' = [tpc EXCEPT ![q] = "start"] /\ tkind' = [tkind EXCEPT ![q] = "refresh"]
        BY <1>0, <1>2 DEF SpawnRefresh, Places, Resolving
    <2>2. \A t \in Query : Registered(t)' <=> Registered(t)
        BY <1>0, <2>1 DEF Registered, TypeOK
    <2>3. \A t \in Query : Refreshing(t)' <=> t = q \/ Refreshing(t)
        BY <1>0, <2>1 DEF Refreshing, TypeOK
    <2>4. LookupsExact'
        BY <1>0, <2>1, <2>2 DEF LookupsExact, TypeOK
    <2>5. refreshing' = {key'[t] : t \in {u \in Query : Refreshing(u)'}}
        BY <1>0, <2>1, <2>3 DEF RefreshesExact
    <2>6. \A t, u \in Query : Refreshing(t)' /\ Refreshing(u)' /\ key'[t] = key'[u] => t = u
        BY <1>0, <1>2, <2>1, <2>3 DEF RefreshesExact
    <2> QED
        BY <2>4, <2>5, <2>6 DEF SingleFlight, RefreshesExact
<1> QED
    BY <1>1, <1>2

\* A task on its way keeps its registration; the guard takes only its own.
LEMMA TaskFlight ==
    ASSUME FlightInv, NEW t \in Query, TaskStep(t)
    PROVE  SingleFlight'
<1> USE DEF FlightInv
<1>0. TypeOK /\ Places /\ LookupsExact /\ RefreshesExact
    BY DEF AdmissionBound, SingleFlight
<1>1. UNCHANGED <<key, tkind>>
    BY DEF TaskStep, StartRefresh, Resolve, Answered, AllFailed, Die, Store, Unregister, Publish, query
<1>2. CASE StartRefresh(t) \/ Resolve(t) \/ Store(t) \/ Publish(t)
    <2>1. UNCHANGED <<lookups, refreshing>>
        BY <1>2 DEF StartRefresh, Resolve, Answered, AllFailed, Die, Store, Publish, shared
    <2>2. \/ tpc[t] = "start" /\ \E next \in {"unregister", "asking"} : tpc' = [tpc EXCEPT ![t] = next]
          \/ tpc[t] \in {"asking", "store"} /\ \E next \in {"unregister", "store"} : tpc' = [tpc EXCEPT ![t] = next]
          \/ tpc[t] = "publish" /\ tpc' = [tpc EXCEPT ![t] = "done"]
        BY <1>2 DEF StartRefresh, Resolve, Answered, AllFailed, Die, Store, Publish
    <2>3. \A u \in Query : (Registered(u)' <=> Registered(u)) /\ (Refreshing(u)' <=> Refreshing(u))
        BY <1>0, <1>1, <2>2 DEF Registered, Refreshing, TypeOK, Places
    <2>4. LookupsExact'
        BY <1>0, <1>1, <2>1, <2>3 DEF LookupsExact, TypeOK
    <2>5. RefreshesExact'
        BY <1>0, <1>1, <2>1, <2>3 DEF RefreshesExact
    <2> QED
        BY <2>4, <2>5 DEF SingleFlight
<1>3. CASE Unregister(t) /\ tkind[t] = "lookup"
    <2>1. /\ tpc[t] = "unregister" /\ UNCHANGED refreshing /\ key[t] \in Key
          /\ lookups' = [lookups EXCEPT ![key[t]] = None] /\ tpc' = [tpc EXCEPT ![t] = "publish"]
        BY <1>0, <1>3 DEF Unregister, Places
    <2>2. lookups[key[t]] = t
        BY <1>0, <1>3, <2>1 DEF LookupsExact, Registered
    <2>3. \A u \in Query : /\ Registered(u)' <=> u # t /\ Registered(u)
                           /\ Refreshing(u)' <=> Refreshing(u)
        BY <1>0, <1>1, <1>3, <2>1 DEF Registered, Refreshing, TypeOK
    <2>4. ASSUME NEW u \in Query, Registered(u)' PROVE lookups'[key'[u]] = u
        BY <1>0, <1>1, <2>1, <2>2, <2>3, <2>4 DEF LookupsExact, TypeOK, Places, Registered
    <2>5. ASSUME NEW k \in Key, lookups'[k] # None
          PROVE  (Registered(lookups[k]) /\ key[lookups[k]] = k)'
        <3>1. k # key[t] /\ lookups'[k] = lookups[k] /\ lookups[k] \in Query
            BY <1>0, <2>1, <2>5 DEF TypeOK
        <3>2. Registered(lookups[k]) /\ key[lookups[k]] = k
            BY <1>0, <2>5, <3>1 DEF LookupsExact
        <3> QED
            BY <1>1, <2>3, <3>1, <3>2 DEF Registered
    <2>6. RefreshesExact'
        BY <1>0, <1>1, <2>1, <2>3 DEF RefreshesExact
    <2> QED
        BY <2>4, <2>5, <2>6 DEF SingleFlight, LookupsExact
<1>4. CASE Unregister(t) /\ tkind[t] # "lookup"
    <2>1. /\ tpc[t] = "unregister" /\ tkind[t] = "refresh" /\ UNCHANGED lookups
          /\ refreshing' = refreshing \ {key[t]} /\ tpc' = [tpc EXCEPT ![t] = "done"]
        BY <1>4 DEF Unregister
    <2>2. Refreshing(t)
        BY <2>1 DEF Refreshing
    <2>3. \A u \in Query : /\ Registered(u)' <=> Registered(u)
                           /\ Refreshing(u)' <=> u # t /\ Refreshing(u)
        BY <1>0, <1>1, <2>1 DEF Registered, Refreshing, TypeOK
    <2>4. LookupsExact'
        BY <1>0, <1>1, <2>1, <2>3 DEF LookupsExact, TypeOK
    <2>5. refreshing' = {key'[u] : u \in {v \in Query : Refreshing(v)'}}
        BY <1>0, <1>1, <2>1, <2>2, <2>3 DEF RefreshesExact
    <2>6. \A u, v \in Query : Refreshing(u)' /\ Refreshing(v)' /\ key'[u] = key'[v] => u = v
        BY <1>0, <1>1, <2>3 DEF RefreshesExact
    <2> QED
        BY <2>4, <2>5, <2>6 DEF SingleFlight, RefreshesExact
<1> QED
    BY <1>2, <1>3, <1>4 DEF TaskStep

LEMMA FlightStep ==
    ASSUME FlightInv, [Next]_vars
    PROVE  FlightInv'
<1>1. CASE Next
    <2>1. ASSUME NEW q \in Query, QueryStep(q) PROVE SingleFlight'
        BY <2>1, QueryKeeps, TasksKept, JoinFlight, SpawnFlight DEF QueryStep
    <2>2. ASSUME Tick \/ (\E p \in Policy : Install(p)) \/ \E q \in Query, r \in Request : Arrive(q, r)
          PROVE  SingleFlight'
        <3>1. UNCHANGED <<lookups, refreshing, tpc, tkind, key>>
            BY <2>2 DEF Tick, Install, Arrive, shared, query, task
        <3> QED
            BY <3>1, TasksKept
    <2>3. SingleFlight'
        BY <1>1, <2>1, <2>2, TaskFlight DEF Next
    <2> QED
        BY <1>1, <2>3, AdmissionStep, ShapesStep, PlacesStep DEF FlightInv
<1>2. CASE UNCHANGED vars
    BY <1>2 DEF FlightInv, AdmissionBound, TypeOK, Inside, Admitted, Shapes, Places, SingleFlight, LookupsExact,
       RefreshesExact, Registered, Refreshing, vars, shared, query, task
<1> QED
    BY <1>1, <1>2

\* The in-flight counter is exact and the cap holds for any number of queries
\* in any interleaving (server.rs: fetch_add, the InFlight guard).
THEOREM Admission == Spec => []AdmissionBound
<1>1. FlightInv => AdmissionBound
    BY DEF FlightInv
<1> QED
    BY <1>1, FlightInit, FlightStep, PTL DEF Spec

\* No key ever has two lookups or two refreshes, and none is left behind
\* (server.rs: resolve_shared, spawn_refresh and their drop guards).
THEOREM OneFlightPerKey == Spec => []SingleFlight
<1>1. FlightInv => SingleFlight
    BY DEF FlightInv
<1> QED
    BY <1>1, FlightInit, FlightStep, PTL DEF Spec

-----------------------------------------------------------------------------
(***************************************************************************)
(* What a lookup came to reaches everyone who joined it.                   *)
(***************************************************************************)

\* A channel belongs to a lookup that was spawned; whoever waits on it has in
\* its inbox what the lookup published, and nothing before that; and whoever
\* stopped waiting did so after the lookup ended, so its outcome is final.
Channels ==
    \A q \in Query :
        /\ chan[q] # None => /\ pc[q] \in {"wait", "finish", "done"}
                             /\ tkind[chan[q]] = "lookup" /\ tpc[chan[q]] # "none"
        /\ pc[q] = "wait" => chan[q] # None
        /\ pc[q] \in {"finish", "done"} /\ chan[q] # None => tpc[chan[q]] = "done"
        /\ pc[q] \notin {"wait", "finish", "done"} => inbox[q] = Nothing
        /\ pc[q] = "wait" => inbox[q] = IF tpc[chan[q]] = "done" /\ tans[chan[q]].tag # "died"
                                        THEN tans[chan[q]] ELSE Nothing
        /\ tkind[q] = "lookup" /\ tpc[q] \in {"store", "unregister", "publish", "done"} =>
              tans[q].tag \in {"ok", "failed", "died"}

ChannelInv == Channels /\ SharedOutcome

\* Steps of a query that is not on a channel, or that only leaves.
LEMMA OffChannel ==
    ASSUME FlightInv, ChannelInv, NEW q \in Query, NEW next \in Stage,
           pc' = [pc EXCEPT ![q] = next], UNCHANGED <<chan, inbox, tkind, tpc, tans>>,
           \/ chan[q] = None /\ next # "wait" /\ pc[q] \notin {"wait", "finish", "done"}
                 /\ \E msg : answer' \in {answer, [answer EXCEPT ![q] = msg]}
           \/ pc[q] = "finish" /\ next = "done" /\ answer' = answer
           \/ chan[q] = None /\ next = "done" /\ answer' = answer
    PROVE  ChannelInv'
<1>0. TypeOK /\ Channels /\ SharedOutcome /\ Shapes
    BY DEF FlightInv, AdmissionBound, ChannelInv
<1>1. Channels'
    BY <1>0 DEF Channels, TypeOK, Stage
<1>2. ASSUME NEW r \in Query, pc'[r] \in {"finish", "done"}, chan'[r] # None
      PROVE  pc[r] \in {"finish", "done"} /\ answer'[r] = answer[r]
    BY <1>0, <1>2 DEF Channels, TypeOK, Shapes
<1>3. SharedOutcome'
    BY <1>0, <1>2 DEF SharedOutcome
<1> QED
    BY <1>1, <1>3 DEF ChannelInv

LEMMA ReceiveOutcome ==
    ASSUME FlightInv, ChannelInv, NEW q \in Query, Receive(q)
    PROVE  ChannelInv'
<1>0. TypeOK /\ Channels /\ SharedOutcome /\ Shapes
    BY DEF FlightInv, AdmissionBound, ChannelInv
<1>1. /\ pc[q] = "wait" /\ pc' = [pc EXCEPT ![q] = "finish"]
      /\ UNCHANGED <<chan, inbox, tkind, tpc, tans>>
    BY DEF Receive, Answering, task
<1>2. chan[q] \in Query /\ tkind[chan[q]] = "lookup"
    BY <1>0, <1>1 DEF Channels, TypeOK
<1>3. tpc[chan[q]] = "done"
    BY <1>0, <1>1 DEF Channels, Receive, Closed, Nothing
<1>4. tans[chan[q]].tag \in {"ok", "failed", "died"}
    BY <1>0, <1>2, <1>3 DEF Channels
<1>5. inbox[q] = IF tans[chan[q]].tag # "died" THEN tans[chan[q]] ELSE Nothing
    BY <1>0, <1>1, <1>3 DEF Channels
<1>6. \/ inbox[q].tag = "ok" /\ answer' = [answer EXCEPT ![q] = inbox[q].msg]
      \/ inbox[q].tag # "ok" /\ answer' = [answer EXCEPT ![q] = Synthetic("SERVFAIL")]
    BY DEF Receive, Answering
<1>7. IF tans[chan[q]].tag = "ok" THEN answer'[q] = tans[chan[q]].msg
      ELSE tans[chan[q]].tag \in {"failed", "died"} /\ answer'[q] = Synthetic("SERVFAIL")
    BY <1>0, <1>4, <1>5, <1>6 DEF Shapes, Nothing
<1>8. \A r \in Query \ {q} : answer'[r] = answer[r] /\ pc'[r] = pc[r]
    BY <1>0, <1>1, <1>6 DEF Shapes, TypeOK
<1>9. SharedOutcome'
    BY <1>0, <1>1, <1>7, <1>8 DEF SharedOutcome
<1>10. Channels'
    BY <1>0, <1>1, <1>3 DEF Channels, TypeOK
<1> QED
    BY <1>9, <1>10 DEF ChannelInv

LEMMA JoinOutcome ==
    ASSUME FlightInv, ChannelInv, NEW q \in Query, Join(q)
    PROVE  ChannelInv'
<1>0. TypeOK /\ Channels /\ SharedOutcome /\ Shapes /\ Places /\ LookupsExact
    BY DEF FlightInv, AdmissionBound, ChannelInv, SingleFlight
<1>1. /\ pc[q] = "join" /\ pc' = [pc EXCEPT ![q] = "wait"] /\ UNCHANGED <<inbox, tans, answer>>
      /\ key[q] \in Key /\ tpc[q] = "none" /\ inbox[q] = Nothing /\ chan[q] = None
    BY <1>0 DEF Join, task, Places, Resolving, Channels
<1>2. CASE lookups[key[q]] # None
    <2>1. chan' = [chan EXCEPT ![q] = lookups[key[q]]] /\ UNCHANGED <<tkind, tpc>>
        BY <1>2 DEF Join, task
    <2>2. lookups[key[q]] \in Query /\ Registered(lookups[key[q]])
        BY <1>0, <1>1, <1>2 DEF TypeOK, LookupsExact
    <2>3. Channels'
        BY <1>0, <1>1, <2>1, <2>2, PipelineAssumption DEF Channels, TypeOK, Registered
    <2>4. SharedOutcome'
        BY <1>0, <1>1, <2>1 DEF SharedOutcome, TypeOK
    <2> QED
        BY <2>3, <2>4 DEF ChannelInv
<1>3. CASE lookups[key[q]] = None
    <2>1. /\ chan' = [chan EXCEPT ![q] = q] /\ tpc' = [tpc EXCEPT ![q] = "asking"]
          /\ tkind' = [tkind EXCEPT ![q] = "lookup"]
        BY <1>3 DEF Join
    <2>2. \A r \in Query : chan[r] # q
        BY <1>0, <1>1, PipelineAssumption DEF Channels
    <2>3. Channels'
        BY <1>0, <1>1, <2>1, <2>2, PipelineAssumption DEF Channels, TypeOK
    <2>4. SharedOutcome'
        BY <1>0, <1>1, <2>1 DEF SharedOutcome, TypeOK
    <2> QED
        BY <2>3, <2>4 DEF ChannelInv
<1> QED
    BY <1>2, <1>3

\* A task's own steps: its outcome is settled before it unregisters, and told
\* to everyone on the channel when it publishes.
LEMMA TaskOutcome ==
    ASSUME FlightInv, ChannelInv, NEW t \in Query, TaskStep(t)
    PROVE  ChannelInv'
<1>0. TypeOK /\ Channels /\ SharedOutcome /\ Shapes /\ Places
    BY DEF FlightInv, AdmissionBound, ChannelInv
<1>1. UNCHANGED <<pc, chan, answer, tkind>>
    BY DEF TaskStep, StartRefresh, Resolve, Answered, AllFailed, Die, Store, Unregister, Publish, query
<1>2. CASE Publish(t)
    <2>1. /\ tpc[t] = "publish" /\ tpc' = [tpc EXCEPT ![t] = "done"] /\ UNCHANGED tans
          /\ inbox' = [q \in Query |-> IF chan[q] = t /\ pc[q] = "wait" /\ tans[t].tag # "died"
                                       THEN tans[t] ELSE inbox[q]]
        BY <1>2 DEF Publish
    <2>2. Channels'
        BY <1>0, <1>1, <2>1 DEF Channels, TypeOK, Places
    <2>3. SharedOutcome'
        BY <1>0, <1>1, <2>1 DEF SharedOutcome
    <2> QED
        BY <2>2, <2>3 DEF ChannelInv
<1>3. CASE StartRefresh(t) \/ Store(t) \/ Unregister(t)
    <2>1. UNCHANGED <<inbox, tans>>
        BY <1>3 DEF StartRefresh, Store, Unregister, query
    <2>2. \/ /\ tkind[t] # "lookup" /\ tpc[t] # "done"
             /\ \E next \in TaskStage \ {"none"} : tpc' = [tpc EXCEPT ![t] = next]
          \/ /\ tpc[t] \in {"store", "unregister"}
             /\ \E next \in {"unregister", "publish"} : tpc' = [tpc EXCEPT ![t] = next]
        BY <1>0, <1>3 DEF StartRefresh, Store, Unregister, Places, TaskStage
    <2>3. Channels'
        BY <1>0, <1>1, <2>1, <2>2 DEF Channels, TypeOK
    <2>4. SharedOutcome'
        BY <1>0, <1>1, <2>1 DEF SharedOutcome
    <2> QED
        BY <2>3, <2>4 DEF ChannelInv
<1>4. CASE Resolve(t)
    <2>1. PICK out : tans' = [tans EXCEPT ![t] = out] /\ out.tag \in {"ok", "failed", "died"}
        <3>1. (\E a : tans' = [tans EXCEPT ![t] = Ok(a)]) \/ tans' = [tans EXCEPT ![t] = Failed]
                 \/ tans' = [tans EXCEPT ![t] = Died]
            BY <1>4, Zenon DEF Resolve, Answered, AllFailed, Die
        <3>2. (\A a : Ok(a).tag = "ok") /\ Failed.tag = "failed" /\ Died.tag = "died"
            BY DEF Ok, Failed, Died
        <3> QED
            BY <3>1, <3>2
    <2>2. /\ tpc[t] = "asking" /\ UNCHANGED inbox
          /\ \E next \in {"store", "unregister"} : tpc' = [tpc EXCEPT ![t] = next]
        BY <1>4 DEF Resolve, Answered, AllFailed, Die, query
    <2>3. \A r \in Query \ {t} : tans'[r] = tans[r] /\ tpc'[r] = tpc[r]
        BY <1>0, <2>1, <2>2 DEF Shapes, TypeOK
    <2>4. tpc'[t] \in {"store", "unregister"} /\ tans'[t].tag \in {"ok", "failed", "died"}
        BY <1>0, <2>1, <2>2 DEF Shapes, TypeOK
    <2>5. Channels'
        BY <1>0, <1>1, <2>2, <2>3, <2>4 DEF Channels, TypeOK
    <2>6. \A q \in Query : pc[q] \in {"finish", "done"} /\ chan[q] # None => chan[q] \in Query \ {t}
        BY <1>0, <2>2 DEF Channels, TypeOK
    <2>7. SharedOutcome'
        BY <1>0, <1>1, <2>3, <2>6 DEF SharedOutcome
    <2> QED
        BY <2>5, <2>7 DEF ChannelInv
<1> QED
    BY <1>2, <1>3, <1>4 DEF TaskStep

LEMMA ChannelStep ==
    ASSUME FlightInv, ChannelInv, [Next]_vars
    PROVE  ChannelInv'
<1>0. TypeOK /\ Channels /\ SharedOutcome /\ Shapes /\ Places
    BY DEF FlightInv, AdmissionBound, ChannelInv
<1>1. ASSUME NEW q \in Query, Shed(q) \/ RejectEmpty(q) \/ Refuse(q) \/ Judge(q) \/ Finish(q)
      PROVE  ChannelInv'
    <2>1. UNCHANGED <<chan, inbox, answer, tkind, tpc, tans>>
        BY <1>1 DEF Shed, RejectEmpty, Refuse, Judge, Finish, task
    <2>2. \/ pc[q] \in {"shed", "judge"} /\ \E next \in {"done", "lookup"} : pc' = [pc EXCEPT ![q] = next]
          \/ pc[q] = "finish" /\ pc' = [pc EXCEPT ![q] = "done"]
        BY <1>1 DEF Shed, RejectEmpty, Refuse, Judge, Finish, Leave
    <2>3. pc[q] \in {"shed", "judge"} => chan[q] = None
        BY <1>0 DEF Channels
    <2> QED
        BY <2>1, <2>2, <2>3, OffChannel DEF Stage
<1>2. ASSUME NEW q \in Query, RejectName(q) \/ LookupCache(q) \/ CheckHold(q) PROVE ChannelInv'
    <2>1. UNCHANGED <<chan, inbox, tkind, tpc, tans>>
        BY <1>2 DEF RejectName, LookupCache, CheckHold, task
    <2>2. /\ pc[q] \in {"lookup", "missed"}
          /\ \E next \in {"finish", "missed", "stale", "join"} : pc' = [pc EXCEPT ![q] = next]
        BY <1>2 DEF RejectName, LookupCache, CheckHold, Answering
    <2>3. \E msg : answer' \in {answer, [answer EXCEPT ![q] = msg]}
        BY <1>2, Zenon DEF RejectName, LookupCache, CheckHold, Answering
    <2>4. chan[q] = None
        BY <1>0, <2>2 DEF Channels
    <2> QED
        BY <2>1, <2>2, <2>3, <2>4, OffChannel DEF Stage
<1>3. ASSUME NEW q \in Query, SpawnRefresh(q) PROVE ChannelInv'
    <2>1. /\ pc[q] = "stale" /\ pc' = [pc EXCEPT ![q] = "finish"] /\ chan[q] = None /\ tpc[q] = "none"
          /\ UNCHANGED <<chan, inbox, answer, tans>>
        BY <1>0, <1>3 DEF SpawnRefresh, Channels, Places, task
    <2>2. CASE UNCHANGED <<tpc, tkind>>
        BY <2>1, <2>2, OffChannel DEF Stage
    <2>3. CASE tpc' = [tpc EXCEPT ![q] = "start"] /\ tkind' = [tkind EXCEPT ![q] = "refresh"]
        <3>1. \A r \in Query : chan[r] # q
            BY <1>0, <2>1, PipelineAssumption DEF Channels
        <3>2. Channels'
            BY <1>0, <2>1, <2>3, <3>1 DEF Channels, TypeOK
        <3>3. SharedOutcome'
            BY <1>0, <2>1, <2>3 DEF SharedOutcome, TypeOK
        <3> QED
            BY <3>2, <3>3 DEF ChannelInv
    <2> QED
        BY <1>3, <2>2, <2>3 DEF SpawnRefresh, task
<1>4. ASSUME NEW q \in Query, NEW r \in Request, Arrive(q, r) PROVE ChannelInv'
    <2>1. /\ pc[q] = "idle" /\ \E next \in {"shed", "judge"} : pc' = [pc EXCEPT ![q] = next]
          /\ UNCHANGED <<chan, inbox, answer, tkind, tpc, tans>>
        BY <1>4 DEF Arrive, task
    <2>2. chan[q] = None
        BY <1>0, <2>1 DEF Channels
    <2> QED
        BY <2>1, <2>2, OffChannel DEF Stage
<1>5. ASSUME Tick \/ (\E p \in Policy : Install(p)) \/ UNCHANGED vars PROVE ChannelInv'
    <2>1. UNCHANGED <<pc, chan, inbox, answer, tkind, tpc, tans>>
        BY <1>5 DEF Tick, Install, query, task, vars
    <2> QED
        BY <1>0, <2>1 DEF ChannelInv, Channels, SharedOutcome
<1> QED
    BY <1>1, <1>2, <1>3, <1>4, <1>5, JoinOutcome, ReceiveOutcome, TaskOutcome DEF Next, QueryStep

\* Everyone who joined a lookup gets what it came to (server.rs: the key leaves
\* the map before the result is sent).
THEOREM OutcomeShared == Spec => []SharedOutcome
<1>1. Init => ChannelInv
    BY PipelineAssumption DEF Init, ChannelInv, Channels, SharedOutcome
<1>2. FlightInv /\ ChannelInv /\ [Next]_vars => (FlightInv /\ ChannelInv)'
    BY FlightStep, ChannelStep
<1>3. ChannelInv => SharedOutcome
    BY DEF ChannelInv
<1> QED
    BY <1>1, <1>2, <1>3, FlightInit, PTL DEF Spec

-----------------------------------------------------------------------------
(***************************************************************************)
(* One snapshot decides the answer.                                        *)
(***************************************************************************)

\* What a query that passed the policy check knows of its snapshot.
Judged(q) ==
    LET p == snap[q]
        name == req[q].name
    IN  /\ p \in Policy
        /\ req[q].kind # "any" /\ req[q].client \in p.allow
        /\ Verdict(p, name) # "blocked"
        /\ log[q].verdict = IF name \in DOMAIN p.rewrite THEN "rewritten" ELSE Verdict(p, name)

Snapshots ==
    \A q \in Query :
        /\ pc[q] \in {"idle", "shed", "judge"} => snap[q] = None /\ log[q] = NewLog
        /\ pc[q] \in Resolving => Judged(q)

\* What SnapshotDecides says of one query.
Decided(q) ==
    pc[q] = "done" /\ snap[q] # None =>
        LET p == snap[q]
            verdict == Verdict(p, req[q].name)
            taken == req[q].client \in p.allow /\ req[q].kind # "any"
            chained == taken /\ verdict = "allowed" /\ BlockedTargets(p, answer[q]) # {}
            unsettled == chained /\ req[q].name \in DOMAIN p.rewrite
        IN  ~unsettled =>
                (log[q].verdict = "blocked" <=> (taken /\ verdict = "blocked") \/ chained)

DecideInv == Snapshots /\ SnapshotDecides

\* What a query knows of itself is changed by its own steps only.
Same(r) ==
    /\ pc'[r] = pc[r] /\ req'[r] = req[r] /\ now'[r] = now[r] /\ snap'[r] = snap[r]
    /\ log'[r] = log[r] /\ answer'[r] = answer[r]

LEMMA OthersSame ==
    ASSUME FlightInv, NEW q \in Query, NEW r \in Query \ {q},
           QueryStep(q) \/ \E x \in Request : Arrive(q, x)
    PROVE  Same(r)
<1>0. TypeOK /\ Shapes
    BY DEF FlightInv, AdmissionBound
<1>1. pc'[r] = pc[r] /\ req'[r] = req[r] /\ now'[r] = now[r]
    BY <1>0 DEF QueryStep, Arrive, Shed, RejectEmpty, Refuse, Judge, RejectName, LookupCache,
       SpawnRefresh, CheckHold, Join, Receive, Finish, Leave, Answering, TypeOK
<1>2. snap'[r] = snap[r]
    BY <1>0 DEF QueryStep, Arrive, Shed, RejectEmpty, Refuse, Judge, RejectName, LookupCache,
       SpawnRefresh, CheckHold, Join, Receive, Finish, TypeOK
<1>3. UNCHANGED answer \/ \E msg : answer' = [answer EXCEPT ![q] = msg]
    BY Zenon DEF QueryStep, Arrive, Shed, RejectEmpty, Refuse, Judge, RejectName, LookupCache,
       SpawnRefresh, CheckHold, Join, Receive, Finish, Answering
<1>4. UNCHANGED log \/ \E rec : log' = [log EXCEPT ![q] = rec]
    <2>1. CASE Shed(q) \/ RejectEmpty(q) \/ Refuse(q) \/ Finish(q)
        BY <2>1, Zenon DEF Shed, RejectEmpty, Refuse, Finish, Leave
    <2>2. CASE Judge(q)
        BY <2>2, Zenon DEF Judge, Leave
    <2>3. CASE RejectName(q) \/ LookupCache(q) \/ CheckHold(q) \/ Receive(q)
        BY <2>3, Zenon DEF RejectName, LookupCache, CheckHold, Receive, Answering
    <2>4. CASE SpawnRefresh(q) \/ Join(q) \/ \E x \in Request : Arrive(q, x)
        BY <2>4 DEF SpawnRefresh, Join, Arrive
    <2> QED
        BY <2>1, <2>2, <2>3, <2>4 DEF QueryStep
<1>5. answer'[r] = answer[r] /\ log'[r] = log[r]
    BY <1>0, <1>3, <1>4 DEF Shapes
<1> QED
    BY <1>1, <1>2, <1>5 DEF Same

\* So only the query that steps has to be looked at.
LEMMA DecideOne ==
    ASSUME FlightInv, DecideInv, NEW q \in Query, \A r \in Query \ {q} : Same(r),
           /\ pc'[q] \in {"idle", "shed", "judge"} => snap'[q] = None /\ log'[q] = NewLog
           /\ pc'[q] \in Resolving => Judged(q)',
           Decided(q)'
    PROVE  DecideInv'
<1>1. Snapshots'
    BY DEF DecideInv, Snapshots, Judged, Same
<1>2. ASSUME NEW r \in Query PROVE Decided(r)'
    <2>1. CASE r = q
        BY <2>1
    <2>2. CASE r # q
        BY <2>2 DEF DecideInv, SnapshotDecides, Decided, Same
    <2> QED
        BY <2>1, <2>2
<1>3. SnapshotDecides'
    BY <1>2 DEF SnapshotDecides, Decided
<1> QED
    BY <1>1, <1>3 DEF DecideInv

LEMMA DecideStep ==
    ASSUME FlightInv, DecideInv, [Next]_vars
    PROVE  DecideInv'
<1>0. TypeOK /\ Shapes /\ Places /\ Snapshots
    BY DEF FlightInv, AdmissionBound, DecideInv
<1>1. ASSUME NEW q \in Query, QueryStep(q) \/ \E x \in Request : Arrive(q, x),
             /\ pc'[q] \in {"idle", "shed", "judge"} => snap'[q] = None /\ log'[q] = NewLog
             /\ pc'[q] \in Resolving => Judged(q)',
             Decided(q)'
      PROVE  DecideInv'
    BY <1>1, OthersSame, DecideOne
<1>2. ASSUME NEW q \in Query, NEW x \in Request, Arrive(q, x) PROVE DecideInv'
    <2>1. pc[q] = "idle" /\ pc'[q] \in {"shed", "judge"} /\ UNCHANGED <<snap, log>>
        BY <1>0, <1>2 DEF Arrive, TypeOK
    <2> QED
        BY <1>0, <1>1, <1>2, <2>1 DEF Snapshots, Decided, Resolving
<1>3. ASSUME NEW q \in Query, Shed(q) \/ RejectEmpty(q) PROVE DecideInv'
    <2>1. pc[q] \in {"shed", "judge"} /\ pc'[q] = "done" /\ UNCHANGED snap
        BY <1>0, <1>3 DEF Shed, RejectEmpty, Leave, TypeOK
    <2>2. snap'[q] = None
        BY <1>0, <2>1 DEF Snapshots
    <2> QED
        BY <1>1, <1>3, <2>1, <2>2 DEF QueryStep, Decided, Resolving
<1>4. ASSUME NEW q \in Query, Refuse(q) PROVE DecideInv'
    <2>1. pc'[q] = "done" /\ snap'[q] = policy /\ UNCHANGED req
        BY <1>0, <1>4 DEF Refuse, Leave, TypeOK
    <2>2. log'[q].verdict = "allowed"
        BY <1>0, <1>4 DEF Refuse, Leave, NewLog, Shapes
    <2>3. req[q].client \notin policy.allow \/ req[q].kind = "any"
        BY <1>4 DEF Refuse
    <2>4. Decided(q)'
        BY <2>1, <2>2, <2>3 DEF Decided
    <2> QED
        BY <1>1, <1>4, <2>1, <2>4 DEF QueryStep, Resolving
<1>5. ASSUME NEW q \in Query, Judge(q) PROVE DecideInv'
    <2> DEFINE name == req[q].name
    <2>1. /\ pc[q] = "judge" /\ snap'[q] = policy /\ policy \in Policy /\ UNCHANGED req
          /\ req[q].client \in policy.allow /\ req[q].kind # "any"
        BY <1>0, <1>5 DEF Judge, TypeOK
    <2>2. CASE Verdict(policy, name) = "blocked"
        <3>1. pc'[q] = "done" /\ log'[q].verdict = "blocked"
            <4> DEFINE rec == [NewLog EXCEPT !.verdict = "blocked", !.rcode = "NXDOMAIN"]
            <4>1. pc' = [pc EXCEPT ![q] = "done"] /\ log' = [log EXCEPT ![q] = rec]
                BY <1>5, <2>2, Zenon DEF Judge, Leave
            <4>2. rec.verdict = "blocked"
                BY DEF NewLog
            <4> HIDE DEF rec
            <4> QED
                BY <1>0, <4>1, <4>2 DEF Shapes, TypeOK
        <3>2. Decided(q)'
            BY <2>1, <2>2, <3>1 DEF Decided
        <3> QED
            BY <1>1, <1>5, <3>1, <3>2 DEF QueryStep, Resolving
    <2>3. CASE Verdict(policy, name) # "blocked"
        <3>1. pc' = [pc EXCEPT ![q] = "lookup"]
            BY <1>5, <2>3 DEF Judge
        <3>2. log' = [log EXCEPT ![q].verdict = IF name \in DOMAIN policy.rewrite THEN "rewritten"
                                                ELSE Verdict(policy, name)]
            BY <1>5, <2>3 DEF Judge
        <3>3. log'[q].verdict = IF name \in DOMAIN policy.rewrite THEN "rewritten" ELSE Verdict(policy, name)
            BY <1>0, <3>2 DEF Shapes
        <3>4. pc'[q] = "lookup"
            BY <1>0, <3>1 DEF TypeOK
        <3>5. Judged(q)' /\ Decided(q)'
            BY <2>1, <2>3, <3>3, <3>4 DEF Judged, Decided
        <3> QED
            BY <1>1, <1>5, <3>4, <3>5 DEF QueryStep
    <2> QED
        BY <2>2, <2>3
<1>6. ASSUME NEW q \in Query,
             RejectName(q) \/ LookupCache(q) \/ SpawnRefresh(q) \/ CheckHold(q) \/ Join(q) \/ Receive(q)
      PROVE  DecideInv'
    <2>1. pc[q] \in Resolving /\ pc'[q] \in Resolving /\ UNCHANGED <<req, snap>>
        BY <1>0, <1>6 DEF RejectName, LookupCache, SpawnRefresh, CheckHold, Join, Receive, Answering, Resolving,
           TypeOK
    <2>2. log' = log \/ \E src : log' = [log EXCEPT ![q].source = src]
        BY <1>6, Zenon DEF RejectName, LookupCache, SpawnRefresh, CheckHold, Join, Receive, Answering
    <2>3. log'[q].verdict = log[q].verdict
        BY <1>0, <2>2 DEF Shapes
    <2>4. Judged(q)' /\ Decided(q)'
        BY <1>0, <2>1, <2>3 DEF Snapshots, Judged, Decided, Resolving
    <2> QED
        BY <1>1, <1>6, <2>1, <2>4 DEF QueryStep, Resolving
<1>7. ASSUME NEW q \in Query, Finish(q) PROVE DecideInv'
    <2> DEFINE msg == answer[q]
               p == snap[q]
               name == req[q].name
               cloaked == log[q].verdict # "excepted" /\ BlockedTargets(p, msg) # {}
    <2>1. pc[q] = "finish" /\ pc'[q] = "done" /\ UNCHANGED <<req, snap, answer>>
        BY <1>0, <1>7 DEF Finish, Leave, TypeOK
    <2>2. Judged(q) /\ DOMAIN log[q] = {"verdict", "source", "rcode", "cnames"}
        BY <1>0, <2>1 DEF Snapshots, Resolving, Shapes
    <2>3. log'[q].verdict = IF log[q].verdict # "rewritten" /\ cloaked THEN "blocked" ELSE log[q].verdict
        <3> DEFINE out == [log[q] EXCEPT !.rcode = msg.rcode, !.cnames = msg.cnames]
        <3>1. \/ /\ log[q].verdict = "rewritten"
                 /\ log' = [log EXCEPT ![q] = IF msg.rcode = "NOERROR" THEN out ELSE [out EXCEPT !.cnames = {}]]
              \/ /\ log[q].verdict # "rewritten" /\ cloaked
                 /\ log' = [log EXCEPT ![q] = [log[q] EXCEPT !.verdict = "blocked", !.rcode = "NXDOMAIN"]]
              \/ /\ log[q].verdict # "rewritten" /\ ~cloaked
                 /\ log' = [log EXCEPT ![q] = out]
            BY <1>7, Zenon DEF Finish, Leave
        <3>2. out.verdict = log[q].verdict /\ [out EXCEPT !.cnames = {}].verdict = log[q].verdict
            BY <2>2
        <3>3. [log[q] EXCEPT !.verdict = "blocked", !.rcode = "NXDOMAIN"].verdict = "blocked"
            BY <2>2
        <3>4. \A rec : log' = [log EXCEPT ![q] = rec] => log'[q] = rec
            BY <1>0 DEF Shapes
        <3> HIDE DEF out, cloaked
        <3> QED
            BY <3>1, <3>2, <3>3, <3>4
    <2>4. Verdict(p, name) \in {"excepted", "blocked", "allowed"}
        BY DEF Verdict
    <2>5. Decided(q)'
        BY <2>1, <2>2, <2>3, <2>4 DEF Judged, Decided
    <2> QED
        BY <1>1, <1>7, <2>1, <2>5 DEF QueryStep, Resolving
<1>8. ASSUME Tick \/ (\E p \in Policy : Install(p)) \/ (\E t \in Query : TaskStep(t)) \/ UNCHANGED vars
      PROVE  DecideInv'
    <2>1. UNCHANGED <<pc, req, snap, log, answer>>
        BY <1>8 DEF Tick, Install, TaskStep, StartRefresh, Resolve, Answered, AllFailed, Die, Store, Unregister,
           Publish, query, vars
    <2> QED
        BY <2>1 DEF DecideInv, Snapshots, Judged, SnapshotDecides
<1> QED
    BY <1>2, <1>3, <1>4, <1>5, <1>6, <1>7, <1>8 DEF Next, QueryStep

\* Whatever policy is installed meanwhile and whoever filled the cache, a query
\* is blocked exactly when its own snapshot says so, the chains of names that
\* safe search rewrites left aside (server.rs: handle_at).
THEOREM OneSnapshotDecides == Spec => []SnapshotDecides
<1>1. Init => DecideInv
    BY DEF Init, DecideInv, Snapshots, SnapshotDecides, Resolving
<1>2. FlightInv /\ DecideInv /\ [Next]_vars => (FlightInv /\ DecideInv)'
    BY FlightStep, DecideStep
<1>3. DecideInv => SnapshotDecides
    BY DEF DecideInv
<1> QED
    BY <1>1, <1>2, <1>3, FlightInit, PTL DEF Spec

-----------------------------------------------------------------------------
(***************************************************************************)
(* A cached answer is served in time.  First, what the cache's operators   *)
(* keep: entries are moved and dropped, never altered.                     *)
(***************************************************************************)

\* Every non-empty set of numbers has a least one.
LEMMA LeastNat ==
    ASSUME NEW T \in SUBSET Nat, T # {}
    PROVE  \E x \in T : \A y \in T : x <= y
<1>1. OpToRel(<, Nat) = {ss \in Nat \X Nat : ss[1] < ss[2]}
    BY Zenon DEF OpToRel
<1>2. \A a, b \in Nat : <<a, b>> \in {ss \in Nat \X Nat : ss[1] < ss[2]} <=> a < b
    OBVIOUS
<1>3. T \subseteq Nat
    OBVIOUS
<1>4. PICK x \in T : \A y \in T : ~(<<y, x>> \in OpToRel(<, Nat))
    BY <1>3, NatLessThanWellFounded, WFMin, Zenon
<1>5. \A y \in T : ~(y < x)
    BY <1>1, <1>2, <1>3, <1>4, Zenon
<1> QED
    BY <1>5, <1>3

LEMMA PlaceOfKey ==
    ASSUME NEW S, NEW s \in Seq(S), NEW k \in Keys(s)
    PROVE  PlaceOf(s, k) \in 1 .. Len(s) /\ s[PlaceOf(s, k)].key = k
<1>1. \E i \in 1 .. Len(s) : s[i].key = k
    BY DEF Keys
<1> QED
    BY <1>1 DEF PlaceOf

LEMMA WithoutType ==
    ASSUME NEW S, NEW s \in Seq(S), NEW k \in Keys(s)
    PROVE  Without(s, k) \in Seq(S)
<1>1. PlaceOf(s, k) \in 1 .. Len(s) /\ Len(s) \in Nat
    BY PlaceOfKey, LenProperties
<1>2. SubSeq(s, 1, PlaceOf(s, k) - 1) \in Seq(S) /\ SubSeq(s, PlaceOf(s, k) + 1, Len(s)) \in Seq(S)
    BY <1>1
<1> QED
    BY <1>2, ConcatProperties DEF Without

LEMMA TouchedType ==
    ASSUME NEW S, NEW s \in Seq(S), NEW k \in Keys(s)
    PROVE  EntryOf(s, k) \in S /\ Touched(s, k) \in Seq(S)
<1>1. EntryOf(s, k) \in S
    BY PlaceOfKey DEF EntryOf
<1>2. <<EntryOf(s, k)>> \in Seq(S)
    BY <1>1
<1> QED
    BY <1>1, <1>2, WithoutType, ConcatProperties DEF Touched

\* There is a longest prefix that fits: the newest entry alone always does.
LEMMA TrimType ==
    ASSUME NEW S, NEW s \in Seq(S), Len(s) > 0
    PROVE  Trim(s) \in Seq(S)
<1> DEFINE L == Len(s)
           T == {m \in Nat : m < L /\ Fits(s, L - m)}
<1>1. L \in Nat \ {0}
    BY LenProperties
<1>2. L - 1 \in T
    BY <1>1 DEF Fits
<1>3. PICK x \in T : \A y \in T : x <= y
    BY <1>2, LeastNat
<1> DEFINE n == L - x
<1>4. n \in 1 .. L /\ Fits(s, n)
    BY <1>1, <1>3
<1>5. ASSUME NEW m \in n + 1 .. L, Fits(s, m) PROVE FALSE
    <2>1. L - m \in Nat /\ L - m < L /\ L - (L - m) = m /\ L - m < x
        BY <1>1, <1>3, <1>4
    <2>2. L - m \in T
        BY <2>1, <1>5
    <2> QED
        BY <1>3, <2>1, <2>2
<1> DEFINE c == CHOOSE i \in 1 .. Len(s) : Fits(s, i) /\ \A m \in i + 1 .. Len(s) : ~Fits(s, m)
<1>6. c \in 1 .. Len(s)
    BY <1>4, <1>5
<1>7. SubSeq(s, 1, c) \in Seq(S)
    <2> HIDE DEF c
    <2> QED
        BY <1>6
<1> QED
    BY <1>7 DEF Trim

LEMMA StoredType ==
    ASSUME NEW S, NEW s \in Seq(S), NEW e \in S
    PROVE  Stored(s, e) \in Seq(S)
<1> DEFINE rest == IF e.key \in Keys(s) THEN Without(s, e.key)
                   ELSE IF Len(s) >= Capacity THEN SubSeq(s, 1, Len(s) - 1) ELSE s
<1>1. rest \in Seq(S)
    <2>1. CASE e.key \in Keys(s)
        BY <2>1, WithoutType
    <2>2. CASE e.key \notin Keys(s) /\ Len(s) >= Capacity
        <3>1. Len(s) \in Nat /\ SubSeq(s, 1, Len(s) - 1) \in Seq(S)
            BY LenProperties
        <3> QED
            BY <2>2, <3>1
    <2> QED
        BY <2>1, <2>2
<1> HIDE DEF rest
<1>2. <<e>> \o rest \in Seq(S) /\ Len(<<e>> \o rest) > 0
    <2>1. <<e>> \in Seq(S) /\ Len(<<e>>) = 1
        OBVIOUS
    <2> QED
        BY <1>1, <2>1, ConcatProperties, LenProperties
<1>3. Trim(<<e>> \o rest) \in Seq(S)
    BY <1>2, TrimType
<1> QED
    BY <1>3 DEF Stored, rest

\* An upstream's message and the instant it came.
UpstreamAnswer ==
    {[rcode |-> m.rcode, cnames |-> m.cnames, records |-> m.records, bytes |-> m.bytes, born |-> b] :
        m \in Message, b \in Nat}

\* An entry is stamped no later than its answer was born, and lives as long as
\* the answer's records.
TrueEntry ==
    {e \in [key : Key, ttl : Nat, at : Nat, bytes : Nat, msg : UpstreamAnswer] :
        e.at <= e.msg.born /\ e.ttl = Lifetime(e.msg)}

Stamps ==
    /\ \A q \in Query : now[q] <= clock /\ tat[q] <= clock
    /\ cache \in Seq(TrueEntry)
    /\ \A t \in Query : tpc[t] = "store" => /\ tans[t].msg \in UpstreamAnswer
                                            /\ tat[t] <= tans[t].msg.born
    /\ \A q \in Query : pc[q] \notin {"stale", "finish", "done"} => log[q].source = "synth"

\* What ServedInTime says of one query.
Timely(q) ==
    /\ log[q].source = "cache" => now[q] < answer[q].born + Lifetime(answer[q])
    /\ log[q].source = "stale" => now[q] < answer[q].born + Lifetime(answer[q]) + ServeStale

TimeInv == Stamps /\ ServedInTime

LEMMA LifetimeType ==
    ASSUME NEW a \in UpstreamAnswer, a.records # {}
    PROVE  Lifetime(a) \in Nat
<1> DEFINE T == {RecordLife(r) : r \in a.records}
<1>1. \A r \in a.records : r.ttl \in Nat /\ r.minimum \in Nat
    BY PipelineAssumption DEF UpstreamAnswer
<1>2. T \in SUBSET Nat /\ T # {}
    BY <1>1 DEF RecordLife
<1>3. \E x \in T : \A y \in T : x <= y
    BY <1>2, LeastNat
<1>4. Least(T) \in T
    <2> HIDE DEF T
    <2> QED
        BY <1>3 DEF Least
<1> QED
    BY <1>2, <1>4 DEF Lifetime

\* The stamp is never later than the birth, so age within the entry's lifetime
\* is time within the answer's.
LEMMA ServedEntry ==
    ASSUME NEW e \in TrueEntry, NEW t \in Nat
    PROVE  /\ Fresh(e, t) => t < e.msg.born + Lifetime(e.msg)
           /\ ~Expired(e, t) => t < e.msg.born + Lifetime(e.msg) + ServeStale
<1>1. /\ e.at \in Nat /\ e.ttl \in Nat /\ e.ttl = Lifetime(e.msg) /\ e.at <= e.msg.born
      /\ e.msg \in UpstreamAnswer
    BY DEF TrueEntry
<1>2. e.msg.born \in Nat /\ ServeStale \in Nat
    BY <1>1, CacheAssumption DEF UpstreamAnswer
<1> DEFINE at == e.at
           ttl == e.ttl
           born == e.msg.born
<1>3. at \in Nat /\ ttl \in Nat /\ born \in Nat /\ at <= born
    BY <1>1, <1>2
<1>4. Fresh(e, t) => t < born + ttl
    <2>1. Fresh(e, t) <=> (IF t > at THEN t - at ELSE 0) < ttl
        BY DEF Fresh, Age
    <2> HIDE DEF at, ttl, born
    <2> QED
        BY <1>3, <2>1
<1>5. ~Expired(e, t) => t < born + ttl + ServeStale
    <2>1. Expired(e, t) <=> (IF t > at THEN t - at ELSE 0) >= ttl + ServeStale
        BY DEF Expired, Age
    <2> HIDE DEF at, ttl, born
    <2> QED
        BY <1>2, <1>3, <2>1
<1> QED
    BY <1>1, <1>4, <1>5

\* Cache::insert at the end of a task.
LEMMA StoreStamps ==
    ASSUME FlightInv, TimeInv, NEW t \in Query, Store(t)
    PROVE  cache' \in Seq(TrueEntry)
<1>0. /\ tpc[t] = "store" /\ tat[t] \in Nat /\ tans[t].msg \in UpstreamAnswer
      /\ tat[t] <= tans[t].msg.born /\ key[t] \in Key /\ cache \in Seq(TrueEntry)
    BY DEF Store, FlightInv, AdmissionBound, TypeOK, Places, TimeInv, Stamps
<1>1. CASE ~Storable(tans[t].msg)
    BY <1>0, <1>1 DEF Store
<1>2. CASE Storable(tans[t].msg)
    <2> DEFINE e == Entry(key[t], tans[t].msg, tat[t])
    <2>1. Lifetime(tans[t].msg) \in Nat
        BY <1>0, <1>2, LifetimeType DEF Storable
    <2>2. tans[t].msg.bytes \in Nat
        BY <1>0, PipelineAssumption DEF UpstreamAnswer
    <2>3. e \in TrueEntry
        BY <1>0, <2>1, <2>2 DEF Entry, TrueEntry
    <2>4. cache' = Stored(cache, e)
        BY <1>2 DEF Store
    <2> QED
        BY <1>0, <2>3, <2>4, StoredType
<1> QED
    BY <1>1, <1>2

\* Cache::get on behalf of a query.
LEMMA LookupTimely ==
    ASSUME FlightInv, TimeInv, NEW q \in Query, LookupCache(q)
    PROVE  cache' \in Seq(TrueEntry) /\ Timely(q)'
<1> DEFINE k == key[q]
           e == EntryOf(cache, k)
<1>0. /\ pc[q] = "lookup" /\ cache \in Seq(TrueEntry) /\ now[q] \in Nat /\ UNCHANGED now
      /\ log[q].source = "synth" /\ Shapes
    BY DEF LookupCache, FlightInv, AdmissionBound, TypeOK, TimeInv, Stamps
<1>1. CASE UNCHANGED <<cache, answer, log>>
    BY <1>0, <1>1 DEF Timely
<1>2. CASE k \in Keys(cache) /\ cache' = Without(cache, k) /\ UNCHANGED <<answer, log>>
    BY <1>0, <1>2, WithoutType DEF Timely
<1>3. ASSUME NEW source \in {"cache", "stale"}, NEW next, k \in Keys(cache), cache' = Touched(cache, k),
             Answering(q, e.msg, source, next),
             source = "cache" => Fresh(e, now[q]), source = "stale" => ~Expired(e, now[q])
      PROVE  cache' \in Seq(TrueEntry) /\ Timely(q)'
    <2>1. e \in TrueEntry /\ cache' \in Seq(TrueEntry)
        BY <1>0, <1>3, TouchedType
    <2> HIDE DEF e
    <2>2. answer' = [answer EXCEPT ![q] = e.msg]
        BY <1>3 DEF Answering
    <2>3. log' = [log EXCEPT ![q].source = IF log[q].verdict = "rewritten" THEN "synth" ELSE source]
        BY <1>3 DEF Answering
    <2>4. answer'[q] = e.msg /\ log'[q].source \in {"synth", source}
        BY <1>0, <2>2, <2>3 DEF Shapes
    <2>5. /\ source = "cache" => now[q] < e.msg.born + Lifetime(e.msg)
          /\ source = "stale" => now[q] < e.msg.born + Lifetime(e.msg) + ServeStale
        BY <1>0, <1>3, <2>1, ServedEntry
    <2> QED
        BY <1>0, <2>1, <2>4, <2>5 DEF Timely
<1>4. \/ UNCHANGED <<cache, answer, log>>
      \/ k \in Keys(cache) /\ cache' = Without(cache, k) /\ UNCHANGED <<answer, log>>
      \/ /\ k \in Keys(cache) /\ Fresh(e, now[q]) /\ cache' = Touched(cache, k)
         /\ Answering(q, e.msg, "cache", "finish")
      \/ /\ k \in Keys(cache) /\ ~Expired(e, now[q]) /\ ~Fresh(e, now[q]) /\ cache' = Touched(cache, k)
         /\ Answering(q, e.msg, "stale", "stale")
    BY Zenon DEF LookupCache
<1> HIDE DEF e, k
<1> QED
    BY <1>1, <1>2, <1>3, <1>4

\* The steps of a query.
LEMMA QueryTime ==
    ASSUME FlightInv, TimeInv, NEW q \in Query, QueryStep(q) \/ \E x \in Request : Arrive(q, x)
    PROVE  TimeInv'
<1>0. TypeOK /\ Shapes /\ Places /\ Stamps /\ \A r \in Query : Timely(r)
    BY DEF FlightInv, AdmissionBound, TimeInv, ServedInTime, Timely
<1>1. \A r \in Query \ {q} : Same(r)
    BY OthersSame
<1>2. UNCHANGED <<clock, tans>>
    BY DEF QueryStep, Arrive, Shed, RejectEmpty, Refuse, Judge, RejectName, LookupCache, SpawnRefresh, CheckHold,
       Join, Receive, Finish, task
<1>3. now'[q] <= clock
    <2>1. UNCHANGED now \/ now' = [now EXCEPT ![q] = clock]
        BY DEF QueryStep, Arrive, Shed, RejectEmpty, Refuse, Judge, RejectName, LookupCache, SpawnRefresh,
           CheckHold, Join, Receive, Finish
    <2> QED
        BY <1>0, <2>1 DEF Stamps, TypeOK
<1>4. \A t \in Query : tat'[t] <= clock
    BY <1>0 DEF QueryStep, Arrive, Shed, RejectEmpty, Refuse, Judge, RejectName, LookupCache, SpawnRefresh,
       CheckHold, Join, Receive, Finish, Stamps, TypeOK, task
<1>5. \A t \in Query : tpc'[t] = "store" => tpc[t] = "store" /\ tat'[t] = tat[t]
    BY <1>0 DEF QueryStep, Arrive, Shed, RejectEmpty, Refuse, Judge, RejectName, LookupCache, SpawnRefresh,
       CheckHold, Join, Receive, Finish, Places, TypeOK, task
<1>6. cache' \in Seq(TrueEntry)
    <2>1. LookupCache(q) \/ UNCHANGED cache
        BY DEF QueryStep, Arrive, Shed, RejectEmpty, Refuse, Judge, RejectName, SpawnRefresh, CheckHold, Join,
           Receive, Finish, shared
    <2> QED
        BY <1>0, <2>1, LookupTimely DEF Stamps
<1>7. Timely(q)' /\ (pc'[q] \notin {"stale", "finish", "done"} => log'[q].source = "synth")
    <2>1. CASE \E x \in Request : Arrive(q, x)
        <3>1. pc[q] = "idle" /\ UNCHANGED log
            BY <2>1 DEF Arrive
        <3> QED
            BY <1>0, <3>1 DEF Stamps, Timely
    <2>2. CASE Shed(q) \/ RejectEmpty(q) \/ Refuse(q)
        <3> DEFINE shed == [NewLog EXCEPT !.source = "failed", !.rcode = "SERVFAIL"]
                   empty == [NewLog EXCEPT !.rcode = "FORMERR"]
                   refused == [NewLog EXCEPT !.rcode = "REFUSED"]
        <3>1. /\ pc' = [pc EXCEPT ![q] = "done"]
              /\ \E rec \in {shed, empty, refused} : log' = [log EXCEPT ![q] = rec]
            BY <2>2, Zenon DEF Shed, RejectEmpty, Refuse, Leave
        <3>2. \A rec \in {shed, empty, refused} : rec.source \in {"failed", "synth"}
            BY DEF NewLog
        <3> HIDE DEF shed, empty, refused
        <3> QED
            BY <1>0, <3>1, <3>2 DEF Timely, TypeOK, Shapes
    <2>3. CASE Judge(q)
        <3>1. pc[q] = "judge" /\ log[q].source = "synth"
            BY <1>0, <2>3 DEF Judge, Stamps
        <3>2. \/ log' = [log EXCEPT ![q] = [NewLog EXCEPT !.verdict = "blocked", !.rcode = "NXDOMAIN"]]
              \/ \E v : log' = [log EXCEPT ![q].verdict = v]
            BY <2>3, Zenon DEF Judge, Leave
        <3>3. [NewLog EXCEPT !.verdict = "blocked", !.rcode = "NXDOMAIN"].source = "synth"
            BY DEF NewLog
        <3>4. log'[q].source = "synth"
            BY <1>0, <3>1, <3>2, <3>3 DEF Shapes
        <3> QED
            BY <3>4 DEF Timely
    <2>4. CASE RejectName(q) \/ CheckHold(q) \/ Receive(q)
        <3>1. pc[q] \in {"lookup", "missed", "wait"} /\ log[q].source = "synth"
            BY <1>0, <2>4 DEF RejectName, CheckHold, Receive, Stamps
        <3>2. \/ UNCHANGED log
              \/ /\ pc' = [pc EXCEPT ![q] = "finish"]
                 /\ \E src \in {"synth", "failure_cached", "upstream", "failed"} :
                        log' = [log EXCEPT ![q].source = src]
            BY <2>4 DEF RejectName, CheckHold, Receive, Answering
        <3> QED
            BY <1>0, <3>1, <3>2 DEF Timely, Shapes, TypeOK
    <2>5. CASE LookupCache(q)
        <3>1. \/ UNCHANGED log \/ pc' = [pc EXCEPT ![q] = "finish"] \/ pc' = [pc EXCEPT ![q] = "stale"]
            BY <2>5 DEF LookupCache, Answering
        <3>2. pc'[q] \notin {"stale", "finish", "done"} => log'[q].source = "synth"
            BY <1>0, <2>5, <3>1 DEF LookupCache, Stamps, TypeOK
        <3> QED
            BY <2>5, <3>2, LookupTimely
    <2>6. CASE SpawnRefresh(q) \/ Join(q)
        <3>1. UNCHANGED <<log, now, answer>> /\ (SpawnRefresh(q) => pc'[q] = "finish") /\ (Join(q) => pc[q] = "join")
            BY <1>0, <2>6 DEF SpawnRefresh, Join, TypeOK
        <3> QED
            BY <1>0, <2>6, <3>1 DEF Stamps, Timely
    <2>7. CASE Finish(q)
        <3>1. pc'[q] = "done" /\ UNCHANGED <<now, answer>> /\ DOMAIN log[q] = {"verdict", "source", "rcode", "cnames"}
            BY <1>0, <2>7 DEF Finish, Leave, TypeOK, Shapes
        <3> DEFINE out == [log[q] EXCEPT !.rcode = answer[q].rcode, !.cnames = answer[q].cnames]
        <3>2. PICK rec : /\ log' = [log EXCEPT ![q] = rec]
                         /\ \/ rec = out \/ rec = [out EXCEPT !.cnames = {}]
                            \/ rec = [log[q] EXCEPT !.verdict = "blocked", !.rcode = "NXDOMAIN"]
            BY <2>7, Zenon DEF Finish, Leave
        <3>3. rec.source = log[q].source
            BY <3>1, <3>2
        <3>4. log'[q].source = log[q].source
            BY <1>0, <3>2, <3>3 DEF Shapes
        <3> QED
            BY <1>0, <3>1, <3>4 DEF Timely
    <2> QED
        BY <2>1, <2>2, <2>3, <2>4, <2>5, <2>6, <2>7 DEF QueryStep
<1>8. Stamps'
    BY <1>0, <1>1, <1>2, <1>3, <1>4, <1>5, <1>6, <1>7 DEF Stamps, Same
<1>9. \A r \in Query : Timely(r)'
    BY <1>0, <1>1, <1>7 DEF Timely, Same
<1> QED
    BY <1>8, <1>9 DEF TimeInv, ServedInTime, Timely

LEMMA TimeStep ==
    ASSUME FlightInv, TimeInv, [Next]_vars
    PROVE  TimeInv'
<1>0. TypeOK /\ Shapes /\ Stamps /\ ServedInTime
    BY DEF FlightInv, AdmissionBound, TimeInv
<1>1. ASSUME UNCHANGED <<pc, log, now, answer>> PROVE ServedInTime'
    BY <1>0, <1>1 DEF ServedInTime
<1>2. ASSUME NEW t \in Query, TaskStep(t) PROVE TimeInv'
    <2>1. UNCHANGED <<clock, pc, log, now, answer>>
        BY <1>2 DEF TaskStep, StartRefresh, Resolve, Answered, AllFailed, Die, Store, Unregister, Publish, query
    <2>2. \A u \in Query : tat'[u] <= clock
        <3>1. UNCHANGED tat \/ tat' = [tat EXCEPT ![t] = clock]
            BY <1>2, Zenon DEF TaskStep, StartRefresh, Resolve, Answered, AllFailed, Die, Store, Unregister, Publish
        <3>2. tat \in [Query -> Nat] /\ clock \in Nat /\ \A u \in Query : tat[u] <= clock
            BY <1>0 DEF TypeOK, Stamps
        <3> QED
            BY <3>1, <3>2
    <2>3. cache' \in Seq(TrueEntry)
        <3>1. Store(t) \/ UNCHANGED cache
            BY <1>2 DEF TaskStep, StartRefresh, Resolve, Answered, AllFailed, Die, Unregister, Publish, shared
        <3> QED
            BY <1>0, <3>1, StoreStamps DEF Stamps
    <2>4. \A u \in Query : tpc'[u] = "store" => tans'[u].msg \in UpstreamAnswer /\ tat'[u] <= tans'[u].msg.born
        <3>1. ASSUME NEW msg \in Message, Answered(t, msg)
              PROVE  tans'[t].msg \in UpstreamAnswer /\ tat'[t] <= tans'[t].msg.born
            <4> DEFINE a == [rcode |-> msg.rcode, cnames |-> msg.cnames, records |-> msg.records,
                             bytes |-> msg.bytes, born |-> clock]
            <4>1. tans' = [tans EXCEPT ![t] = Ok(a)] /\ UNCHANGED tat
                BY <3>1 DEF Answered
            <4>2. a \in UpstreamAnswer /\ a.born = clock
                BY <1>0 DEF UpstreamAnswer, TypeOK
            <4>3. Ok(a).msg = a
                BY DEF Ok
            <4> HIDE DEF a
            <4>4. tans'[t].msg = a
                BY <1>0, <4>1, <4>3 DEF Shapes
            <4> QED
                BY <1>0, <4>1, <4>2, <4>4 DEF Stamps
        <3>2. ASSUME NEW u \in Query \ {t} PROVE tpc'[u] = tpc[u] /\ tat'[u] = tat[u] /\ tans'[u] = tans[u]
            <4>1. tpc'[u] = tpc[u] /\ tat'[u] = tat[u]
                BY <1>0, <1>2 DEF TaskStep, StartRefresh, Resolve, Answered, AllFailed, Die, Store, Unregister,
                   Publish, TypeOK
            <4>2. UNCHANGED tans \/ \E out : tans' = [tans EXCEPT ![t] = out]
                BY <1>2, Zenon DEF TaskStep, StartRefresh, Resolve, Answered, AllFailed, Die, Store, Unregister,
                   Publish
            <4> QED
                BY <1>0, <4>1, <4>2 DEF Shapes
        <3>3. tpc'[t] = "store" => \E msg \in Message : Answered(t, msg)
            BY <1>0, <1>2 DEF TaskStep, StartRefresh, Resolve, AllFailed, Die, Store, Unregister, Publish, TypeOK
        <3> QED
            BY <1>0, <3>1, <3>2, <3>3 DEF Stamps
    <2>5. Stamps'
        BY <1>0, <2>1, <2>2, <2>3, <2>4 DEF Stamps
    <2> QED
        BY <1>1, <2>1, <2>5 DEF TimeInv
<1>3. ASSUME Tick \/ (\E p \in Policy : Install(p)) \/ UNCHANGED vars PROVE TimeInv'
    <2>1. /\ UNCHANGED <<pc, log, now, answer, cache, tpc, tat, tans>>
          /\ clock' \in Nat /\ clock <= clock'
        BY <1>0, <1>3 DEF Tick, Install, shared, query, task, vars, TypeOK
    <2>2. Stamps'
        BY <1>0, <2>1 DEF Stamps, TypeOK
    <2> QED
        BY <1>1, <2>1, <2>2 DEF TimeInv
<1> QED
    BY <1>2, <1>3, QueryTime DEF Next

\* No answer is served past its time, however long lookups, refreshes and
\* inserts take (server.rs: the instant is taken before the upstream is asked).
THEOREM CacheServesInTime == Spec => []ServedInTime
<1>1. Init => TimeInv
    <2> SUFFICES ASSUME Init PROVE TimeInv
        OBVIOUS
    <2>1. cache \in Seq(TrueEntry)
        BY DEF Init
    <2>2. Stamps
        BY <2>1 DEF Init, Stamps, NewLog
    <2>3. ServedInTime
        BY DEF Init, ServedInTime, NewLog
    <2> QED
        BY <2>2, <2>3 DEF TimeInv
<1>2. FlightInv /\ TimeInv /\ [Next]_vars => (FlightInv /\ TimeInv)'
    BY FlightStep, TimeStep
<1>3. TimeInv => ServedInTime
    BY DEF TimeInv
<1> QED
    BY <1>1, <1>2, <1>3, FlightInit, PTL DEF Spec
=============================================================================
