------------------------------ MODULE Pipeline ------------------------------
(***************************************************************************)
(* The request pipeline (crates/core/src/server.rs): every query is a task *)
(* that runs handle_at, and may leave a background task behind it, either  *)
(* the upstream lookup it leads (resolve_shared) or a serve-stale refresh  *)
(* (spawn_refresh).  Tasks share the policy pointer, the in-flight         *)
(* counter, the cache, the failure cache, the lookup map and the refresh   *)
(* set; each access to one of them is a step, and nothing is held from one *)
(* step to the next.  A background task is named by the query it came from *)
(* (a query leaves at most one).                                           *)
(***************************************************************************)
EXTENDS CacheEntries, FailureCache

CONSTANTS
    Query,          \* the queries that arrive
    Request,        \* requests: [kind, name, client]
    Policy,         \* policies: [allow, block, except, rewrite]
    Message,        \* answers an upstream may give: [rcode, cnames, records, bytes]
    MaxInFlight,    \* MAX_IN_FLIGHT_QUERIES
    ShadowOn,       \* is a shadow resolver configured?
    MaxClock,       \* bound on time
    None            \* absent

ASSUME PipelineAssumption ==
    /\ IsFiniteSet(Query)
    /\ None \notin Query
    /\ \A r \in Request : r.name \in Key
    /\ \A p \in Policy : \A n \in DOMAIN p.rewrite : p.rewrite[n] \in Key
    /\ \A m \in Message : m.bytes \in Nat /\ \A r \in m.records : r.ttl \in Nat /\ r.minimum \in Nat
    /\ MaxInFlight \in Nat \ {0}
    /\ ShadowOn \in BOOLEAN

VARIABLES
    clock,          \* Instant::now()
    policy,         \* the installed policy
    in_flight,      \* queries inside handle_at
    cache,          \* the cache, as its recency list
    failures,       \* the failure cache
    lookups,        \* per key the lookup whose channel is in the map, or None
    refreshing,     \* keys with a refresh running
    tapped,         \* queries mirrored to the shadow resolver
    pc,             \* where each query is
    req,            \* its request
    now,            \* its arrival instant
    snap,           \* its policy snapshot
    key,            \* the cache key it resolves
    answer,         \* the message it is answering with
    log,            \* its log record: verdict, source, rcode, chain answered
    chan,           \* the lookup it subscribed to
    inbox,          \* what its channel delivered
    tpc,            \* where its background task is
    tkind,          \* "lookup" or "refresh"
    tat,            \* the instant the task stamps entries and holds with
    tans            \* what the upstream gave the task

shared == <<policy, in_flight, cache, failures, lookups, refreshing, tapped>>
query == <<pc, req, now, snap, key, answer, log, chan, inbox>>
task == <<tpc, tkind, tat, tans>>
vars == <<clock, shared, query, task>>

\* What a lookup comes to: an answer, `None` because every upstream failed, or
\* nothing because the task panicked before it could publish.
Ok(msg) == [tag |-> "ok", msg |-> msg]
Failed == [tag |-> "failed"]
Died == [tag |-> "died"]
Nothing == [tag |-> "nothing"]

Synthetic(rcode) == [rcode |-> rcode, cnames |-> {}]

NewLog == [verdict |-> "allowed", source |-> "synth", rcode |-> "NOERROR", cnames |-> {}]

Verdict(p, name) ==
    CASE name \in p.except -> "excepted"
      [] name \in p.block \ p.except -> "blocked"
      [] OTHER -> "allowed"

\* blocked_cname_target: the names in the chain that the policy blocks.
BlockedTargets(p, msg) == {c \in msg.cnames : Verdict(p, c) = "blocked"}

Inside == {q \in Query : pc[q] \notin {"idle", "done"}}

Admitted == {q \in Query : pc[q] \notin {"idle", "shed", "done"}}

Init ==
    /\ clock = 0
    /\ policy \in Policy
    /\ in_flight = 0
    /\ cache = <<>>
    /\ failures = NoFailures
    /\ lookups = [k \in Key |-> None]
    /\ refreshing = {}
    /\ tapped = {}
    /\ pc = [q \in Query |-> "idle"]
    /\ req = [q \in Query |-> None]
    /\ now = [q \in Query |-> 0]
    /\ snap = [q \in Query |-> None]
    /\ key = [q \in Query |-> None]
    /\ answer = [q \in Query |-> None]
    /\ log = [q \in Query |-> NewLog]
    /\ chan = [q \in Query |-> None]
    /\ inbox = [q \in Query |-> Nothing]
    /\ tpc = [q \in Query |-> "none"]
    /\ tkind = [q \in Query |-> None]
    /\ tat = [q \in Query |-> 0]
    /\ tans = [q \in Query |-> Nothing]

-----------------------------------------------------------------------------
(* A query.  Leave(q, rec, tap) is finish(), the shadow tap and the        *)
(* return: the record goes to the log writer and the in-flight guard drops.*)

Leave(q, rec, tap) ==
    /\ pc' = [pc EXCEPT ![q] = "done"]
    /\ log' = [log EXCEPT ![q] = rec]
    /\ in_flight' = in_flight - 1
    /\ tapped' = IF tap /\ ShadowOn THEN tapped \cup {q} ELSE tapped

\* Mutant of Arrive: the cap is off by one.
ArrivePastCap(q, r) ==
    /\ pc[q] = "idle"
    /\ pc' = [pc EXCEPT ![q] = IF in_flight > MaxInFlight THEN "shed" ELSE "judge"]
    /\ in_flight' = in_flight + 1
    /\ req' = [req EXCEPT ![q] = r]
    /\ now' = [now EXCEPT ![q] = clock]
    /\ UNCHANGED <<clock, policy, cache, failures, lookups, refreshing, tapped,
                   snap, key, answer, log, chan, inbox, task>>

\* The counter is read and raised in one fetch_add; past the cap the query is
\* shed.
Arrive(q, r) ==
    /\ pc[q] = "idle"
    /\ pc' = [pc EXCEPT ![q] = IF in_flight >= MaxInFlight THEN "shed" ELSE "judge"]
    /\ in_flight' = in_flight + 1
    /\ req' = [req EXCEPT ![q] = r]
    /\ now' = [now EXCEPT ![q] = clock]
    /\ UNCHANGED <<clock, policy, cache, failures, lookups, refreshing, tapped,
                   snap, key, answer, log, chan, inbox, task>>

\* shed_overload: SERVFAIL past the cap.
Shed(q) ==
    /\ pc[q] = "shed"
    /\ Leave(q, [NewLog EXCEPT !.source = "failed", !.rcode = "SERVFAIL"], FALSE)
    /\ UNCHANGED <<clock, policy, cache, failures, lookups, refreshing,
                   req, now, snap, key, answer, chan, inbox, task>>

\* No question section: FORMERR, before any policy is read.
RejectEmpty(q) ==
    /\ pc[q] = "judge"
    /\ req[q].kind = "empty"
    /\ Leave(q, [NewLog EXCEPT !.rcode = "FORMERR"], FALSE)
    /\ UNCHANGED <<clock, policy, cache, failures, lookups, refreshing,
                   req, now, snap, key, answer, chan, inbox, task>>

\* Load the policy, then refuse a stranger or an ANY query.
Refuse(q) ==
    /\ pc[q] = "judge"
    /\ req[q].kind # "empty"
    /\ req[q].client \notin policy.allow \/ req[q].kind = "any"
    /\ snap' = [snap EXCEPT ![q] = policy]
    /\ Leave(q, [NewLog EXCEPT !.rcode = "REFUSED"], FALSE)
    /\ UNCHANGED <<clock, policy, cache, failures, lookups, refreshing,
                   req, now, key, answer, chan, inbox, task>>

\* Load the policy and judge the name: block it, rewrite it or go on.
Judge(q) ==
    LET name == req[q].name
        verdict == Verdict(policy, name)
    IN  /\ pc[q] = "judge"
        /\ req[q].kind \notin {"empty", "any"}
        /\ req[q].client \in policy.allow
        /\ snap' = [snap EXCEPT ![q] = policy]
        /\ \/ /\ verdict = "blocked"
              /\ Leave(q, [NewLog EXCEPT !.verdict = "blocked", !.rcode = "NXDOMAIN"], TRUE)
              /\ UNCHANGED key
           \/ /\ verdict # "blocked"
              /\ pc' = [pc EXCEPT ![q] = "lookup"]
              /\ \/ /\ name \in DOMAIN policy.rewrite
                    /\ key' = [key EXCEPT ![q] = policy.rewrite[name]]
                    /\ log' = [log EXCEPT ![q].verdict = "rewritten"]
                 \/ /\ name \notin DOMAIN policy.rewrite
                    /\ key' = [key EXCEPT ![q] = name]
                    /\ log' = [log EXCEPT ![q].verdict = verdict]
              /\ UNCHANGED <<in_flight, tapped>>
        /\ UNCHANGED <<clock, policy, cache, failures, lookups, refreshing,
                       req, now, answer, chan, inbox, task>>

\* resolve_cached hands a message and its provenance back to handle_at (the
\* safe-search path drops the provenance).
Answering(q, msg, source, next) ==
    /\ pc' = [pc EXCEPT ![q] = next]
    /\ answer' = [answer EXCEPT ![q] = msg]
    /\ log' = [log EXCEPT ![q].source =
                   IF log[q].verdict = "rewritten" THEN "synth" ELSE source]

\* The queried name does not parse as a domain name.
RejectName(q) ==
    /\ pc[q] = "lookup"
    /\ req[q].kind = "unparsable" /\ log[q].verdict # "rewritten"
    /\ Answering(q, Synthetic("FORMERR"), "synth", "finish")
    /\ UNCHANGED <<clock, shared, req, now, snap, key, chan, inbox, task>>

\* Cache::get of the query's key at its arrival instant.
LookupCache(q) ==
    LET k == key[q]
        e == EntryOf(cache, k)
    IN  /\ pc[q] = "lookup"
        /\ req[q].kind # "unparsable" \/ log[q].verdict = "rewritten"
        /\ \/ /\ k \notin Keys(cache)
              /\ pc' = [pc EXCEPT ![q] = "missed"]
              /\ UNCHANGED <<cache, answer, log>>
           \/ /\ k \in Keys(cache) /\ Expired(e, now[q])
              /\ cache' = Without(cache, k)
              /\ pc' = [pc EXCEPT ![q] = "missed"]
              /\ UNCHANGED <<answer, log>>
           \/ /\ k \in Keys(cache) /\ Fresh(e, now[q])
              /\ cache' = Touched(cache, k)
              /\ Answering(q, e.msg, "cache", "finish")
           \/ /\ k \in Keys(cache) /\ ~Expired(e, now[q]) /\ ~Fresh(e, now[q])
              /\ cache' = Touched(cache, k)
              /\ Answering(q, e.msg, "stale", "stale")
        /\ UNCHANGED <<clock, policy, in_flight, failures, lookups, refreshing, tapped,
                       req, now, snap, key, chan, inbox, task>>

\* Mutant of SpawnRefresh: every stale hit spawns one.
SpawnRefreshAlways(q) ==
    /\ pc[q] = "stale"
    /\ pc' = [pc EXCEPT ![q] = "finish"]
    /\ refreshing' = refreshing \cup {key[q]}
    /\ tpc' = [tpc EXCEPT ![q] = "start"]
    /\ tkind' = [tkind EXCEPT ![q] = "refresh"]
    /\ UNCHANGED <<clock, policy, in_flight, cache, failures, lookups, tapped,
                   req, now, snap, key, answer, log, chan, inbox, tat, tans>>

\* spawn_refresh: at most one refresh per key.
SpawnRefresh(q) ==
    /\ pc[q] = "stale"
    /\ pc' = [pc EXCEPT ![q] = "finish"]
    /\ \/ /\ key[q] \in refreshing
          /\ UNCHANGED <<refreshing, task>>
       \/ /\ key[q] \notin refreshing
          /\ refreshing' = refreshing \cup {key[q]}
          /\ tpc' = [tpc EXCEPT ![q] = "start"]
          /\ tkind' = [tkind EXCEPT ![q] = "refresh"]
          /\ UNCHANGED <<tat, tans>>
    /\ UNCHANGED <<clock, policy, in_flight, cache, failures, lookups, tapped,
                   req, now, snap, key, answer, log, chan, inbox>>

\* A miss on a held key is SERVFAIL at once; otherwise look it up.
CheckHold(q) ==
    /\ pc[q] = "missed"
    /\ \/ /\ held(failures, key[q], now[q])
          /\ Answering(q, Synthetic("SERVFAIL"), "failure_cached", "finish")
       \/ /\ ~held(failures, key[q], now[q])
          /\ pc' = [pc EXCEPT ![q] = "join"]
          /\ UNCHANGED <<answer, log>>
    /\ UNCHANGED <<clock, shared, req, now, snap, key, chan, inbox, task>>

\* Mutant of Join: the map is not consulted before a lookup is registered.
JoinAlone(q) ==
    LET k == key[q]
    IN  /\ pc[q] = "join"
        /\ pc' = [pc EXCEPT ![q] = "wait"]
        /\ chan' = [chan EXCEPT ![q] = q]
        /\ lookups' = [lookups EXCEPT ![k] = q]
        /\ tpc' = [tpc EXCEPT ![q] = "asking"]
        /\ tkind' = [tkind EXCEPT ![q] = "lookup"]
        /\ tat' = [tat EXCEPT ![q] = now[q]]
        /\ UNCHANGED <<clock, policy, in_flight, cache, failures, refreshing, tapped,
                       req, now, snap, key, answer, log, inbox, tans>>

\* Under the lookup map's lock: subscribe to the key's lookup, or register and
\* spawn one.
Join(q) ==
    LET k == key[q]
    IN  /\ pc[q] = "join"
        /\ pc' = [pc EXCEPT ![q] = "wait"]
        /\ \/ /\ lookups[k] # None
              /\ chan' = [chan EXCEPT ![q] = lookups[k]]
              /\ UNCHANGED <<lookups, task>>
           \/ /\ lookups[k] = None
              /\ chan' = [chan EXCEPT ![q] = q]
              /\ lookups' = [lookups EXCEPT ![k] = q]
              /\ tpc' = [tpc EXCEPT ![q] = "asking"]
              /\ tkind' = [tkind EXCEPT ![q] = "lookup"]
              /\ tat' = [tat EXCEPT ![q] = now[q]]
              /\ UNCHANGED tans
        /\ UNCHANGED <<clock, policy, in_flight, cache, failures, refreshing, tapped,
                       req, now, snap, key, answer, log, inbox>>

\* Every sender of the channel is gone: the task ended and left the map.
Closed(l) == tpc[l] = "done" /\ \A k \in Key : lookups[k] # l

\* Mutant of Receive: a failed lookup is told to the client as NXDOMAIN.
ReceiveDenying(q) ==
    /\ pc[q] = "wait"
    /\ \/ /\ inbox[q].tag = "ok"
          /\ Answering(q, inbox[q].msg, "upstream", "finish")
       \/ /\ inbox[q].tag = "failed" \/ (inbox[q].tag = "nothing" /\ Closed(chan[q]))
          /\ Answering(q, Synthetic("NXDOMAIN"), "failed", "finish")
    /\ UNCHANGED <<clock, shared, req, now, snap, key, chan, inbox, task>>

\* rx.recv(): the lookup's result, or SERVFAIL if it failed or went silent.
Receive(q) ==
    /\ pc[q] = "wait"
    /\ \/ /\ inbox[q].tag = "ok"
          /\ Answering(q, inbox[q].msg, "upstream", "finish")
       \/ /\ inbox[q].tag = "failed" \/ (inbox[q].tag = "nothing" /\ Closed(chan[q]))
          /\ Answering(q, Synthetic("SERVFAIL"), "failed", "finish")
    /\ UNCHANGED <<clock, shared, req, now, snap, key, chan, inbox, task>>

\* Mutant of Finish: the chain is judged by the policy in force at the end.
FinishUnderNewPolicy(q) ==
    LET msg == answer[q]
        out == [log[q] EXCEPT !.rcode = msg.rcode, !.cnames = msg.cnames]
        cloaked == log[q].verdict # "excepted" /\ BlockedTargets(policy, msg) # {}
    IN  /\ pc[q] = "finish"
        /\ \/ /\ log[q].verdict = "rewritten"
              /\ Leave(q, IF msg.rcode = "NOERROR" THEN out ELSE [out EXCEPT !.cnames = {}],
                       FALSE)
           \/ /\ log[q].verdict # "rewritten" /\ cloaked
              /\ Leave(q, [log[q] EXCEPT !.verdict = "blocked", !.rcode = "NXDOMAIN"], TRUE)
           \/ /\ log[q].verdict # "rewritten" /\ ~cloaked
              /\ Leave(q, out, TRUE)
        /\ UNCHANGED <<clock, policy, cache, failures, lookups, refreshing,
                       req, now, snap, key, answer, chan, inbox, task>>

\* The tail of handle_at.  A rewritten name is answered with the target's
\* records, or with its rcode; a chain that the snapshot blocks becomes the
\* block answer unless the queried name is excepted; anything else goes out.
Finish(q) ==
    LET msg == answer[q]
        out == [log[q] EXCEPT !.rcode = msg.rcode, !.cnames = msg.cnames]
        cloaked == log[q].verdict # "excepted" /\ BlockedTargets(snap[q], msg) # {}
    IN  /\ pc[q] = "finish"
        /\ \/ /\ log[q].verdict = "rewritten"
              /\ Leave(q, IF msg.rcode = "NOERROR" THEN out ELSE [out EXCEPT !.cnames = {}],
                       FALSE)
           \/ /\ log[q].verdict # "rewritten" /\ cloaked
              /\ Leave(q, [log[q] EXCEPT !.verdict = "blocked", !.rcode = "NXDOMAIN"], TRUE)
           \/ /\ log[q].verdict # "rewritten" /\ ~cloaked
              /\ Leave(q, out, TRUE)
        /\ UNCHANGED <<clock, policy, cache, failures, lookups, refreshing,
                       req, now, snap, key, answer, chan, inbox, task>>

-----------------------------------------------------------------------------
(* A background task t.                                                    *)

\* The refresh reads its instant; a held key is not refreshed.
StartRefresh(t) ==
    /\ tpc[t] = "start"
    /\ tat' = [tat EXCEPT ![t] = clock]
    /\ tpc' = [tpc EXCEPT ![t] =
                   IF held(failures, key[t], clock) THEN "unregister" ELSE "asking"]
    /\ UNCHANGED <<clock, shared, query, tkind, tans>>

\* An upstream answered (`born` remembers when).  settle(): SERVFAIL holds the
\* key down, anything else clears its failures and goes on to the cache.
Answered(t, msg) ==
    /\ tpc[t] = "asking"
    /\ tans' = [tans EXCEPT ![t] =
                    Ok([rcode |-> msg.rcode, cnames |-> msg.cnames,
                        records |-> msg.records, bytes |-> msg.bytes, born |-> clock])]
    /\ \/ /\ msg.rcode = "SERVFAIL"
          /\ failures' \in record(failures, key[t], tat[t])
          /\ tpc' = [tpc EXCEPT ![t] = "unregister"]
       \/ /\ msg.rcode # "SERVFAIL"
          /\ failures' = clear(failures, key[t])
          /\ tpc' = [tpc EXCEPT ![t] = "store"]
    /\ UNCHANGED <<clock, policy, in_flight, cache, lookups, refreshing, tapped,
                   query, tkind, tat>>

\* No upstream could answer.
AllFailed(t) ==
    /\ tpc[t] = "asking"
    /\ tans' = [tans EXCEPT ![t] = Failed]
    /\ failures' \in record(failures, key[t], tat[t])
    /\ tpc' = [tpc EXCEPT ![t] = "unregister"]
    /\ UNCHANGED <<clock, policy, in_flight, cache, lookups, refreshing, tapped,
                   query, tkind, tat>>

\* Mutant of Die: no drop guard, so the key stays in the map or the set.
DieSilently(t) ==
    /\ tpc[t] = "asking"
    /\ tans' = [tans EXCEPT ![t] = Died]
    /\ tpc' = [tpc EXCEPT ![t] = "done"]
    /\ UNCHANGED <<clock, shared, query, tkind, tat>>

\* The task panics inside the resolve: only its drop guards run.
Die(t) ==
    /\ tpc[t] = "asking"
    /\ tans' = [tans EXCEPT ![t] = Died]
    /\ tpc' = [tpc EXCEPT ![t] = "unregister"]
    /\ UNCHANGED <<clock, shared, query, tkind, tat>>

\* Mutant of Store: the entry is stamped when it is inserted.
StoreStampedLate(t) ==
    /\ tpc[t] = "store"
    /\ cache' = IF Storable(tans[t].msg)
                THEN Stored(cache, Entry(key[t], tans[t].msg, clock)) ELSE cache
    /\ tpc' = [tpc EXCEPT ![t] = "unregister"]
    /\ UNCHANGED <<clock, policy, in_flight, failures, lookups, refreshing, tapped,
                   query, tkind, tat, tans>>

\* The second half of settle(): Cache::insert, stamped with the task's instant.
Store(t) ==
    /\ tpc[t] = "store"
    /\ cache' = IF Storable(tans[t].msg)
                THEN Stored(cache, Entry(key[t], tans[t].msg, tat[t])) ELSE cache
    /\ tpc' = [tpc EXCEPT ![t] = "unregister"]
    /\ UNCHANGED <<clock, policy, in_flight, failures, lookups, refreshing, tapped,
                   query, tkind, tat, tans>>

\* RemoveOnDrop / RemoveFromSetOnDrop: the key leaves the map or the set.
Unregister(t) ==
    /\ tpc[t] = "unregister"
    /\ \/ /\ tkind[t] = "lookup"
          /\ lookups' = [lookups EXCEPT ![key[t]] = None]
          /\ tpc' = [tpc EXCEPT ![t] = "publish"]
          /\ UNCHANGED refreshing
       \/ /\ tkind[t] = "refresh"
          /\ refreshing' = refreshing \ {key[t]}
          /\ tpc' = [tpc EXCEPT ![t] = "done"]
          /\ UNCHANGED lookups
    /\ UNCHANGED <<clock, policy, in_flight, cache, failures, tapped,
                   query, tkind, tat, tans>>

\* tx.send and the end of the task: every subscriber so far gets the result; a
\* task that died sends nothing.
Publish(t) ==
    /\ tpc[t] = "publish"
    /\ inbox' = [q \in Query |-> IF chan[q] = t /\ pc[q] = "wait" /\ tans[t].tag # "died"
                                 THEN tans[t] ELSE inbox[q]]
    /\ tpc' = [tpc EXCEPT ![t] = "done"]
    /\ UNCHANGED <<clock, shared, pc, req, now, snap, key, answer, log, chan,
                   tkind, tat, tans>>

-----------------------------------------------------------------------------
(* The daemon installs a new policy (reload); time passes.                 *)

Install(p) ==
    /\ p # policy
    /\ policy' = p
    /\ UNCHANGED <<clock, in_flight, cache, failures, lookups, refreshing, tapped,
                   query, task>>

Tick ==
    /\ clock < MaxClock
    /\ clock' = clock + 1
    /\ UNCHANGED <<shared, query, task>>

QueryStep(q) ==
    \/ Shed(q) \/ RejectEmpty(q) \/ Refuse(q) \/ Judge(q)
    \/ RejectName(q) \/ LookupCache(q) \/ SpawnRefresh(q)
    \/ CheckHold(q) \/ Join(q) \/ Receive(q) \/ Finish(q)

Resolve(t) == AllFailed(t) \/ Die(t) \/ \E msg \in Message : Answered(t, msg)

TaskStep(t) ==
    \/ StartRefresh(t) \/ Resolve(t) \/ Store(t) \/ Unregister(t) \/ Publish(t)

Next ==
    \/ \E q \in Query : \/ \E r \in Request : Arrive(q, r)
                        \/ QueryStep(q)
                        \/ TaskStep(q)
    \/ \E p \in Policy : Install(p)
    \/ Tick

Spec == Init /\ [][Next]_vars

\* The runtime runs every ready task, and an upstream resolve always returns:
\* each leg is bounded by upstreams.timeout_ms.
Fairness == \A q \in Query : WF_vars(QueryStep(q)) /\ WF_vars(TaskStep(q))

FairSpec == Spec /\ Fairness

-----------------------------------------------------------------------------
(***************************************************************************)
(* Properties                                                              *)
(***************************************************************************)

Stage == {"idle", "shed", "judge", "lookup", "stale", "missed", "join", "wait",
          "finish", "done"}

TaskStage == {"none", "start", "asking", "store", "unregister", "publish", "done"}

TypeOK ==
    /\ clock \in Nat
    /\ in_flight \in Nat
    /\ policy \in Policy
    /\ lookups \in [Key -> Query \cup {None}]
    /\ refreshing \subseteq Key
    /\ tapped \subseteq Query
    /\ pc \in [Query -> Stage]
    /\ req \in [Query -> Request \cup {None}]
    /\ now \in [Query -> Nat]
    /\ snap \in [Query -> Policy \cup {None}]
    /\ key \in [Query -> Key \cup {None}]
    /\ chan \in [Query -> Query \cup {None}]
    /\ tpc \in [Query -> TaskStage]
    /\ tkind \in [Query -> {"lookup", "refresh", None}]
    /\ tat \in [Query -> Nat]

\* A lookup task whose key should be in the lookup map.
Registered(t) == tkind[t] = "lookup" /\ tpc[t] \in {"asking", "store", "unregister"}

\* A refresh task that has not ended.
Refreshing(t) == tkind[t] = "refresh" /\ tpc[t] \in {"start", "asking", "store", "unregister"}

\* The variables keep to their types, the in-flight counter is exact and at most
\* MAX_IN_FLIGHT_QUERIES queries are past admission control, although shed
\* queries pass through the counter too (server.rs: fetch_add, the InFlight
\* guard, the cap).
AdmissionBound ==
    /\ TypeOK
    /\ in_flight = Cardinality(Inside)
    /\ Cardinality(Admitted) <= MaxInFlight

\* The lookup map names exactly the lookups that are running, each under its
\* own key.
LookupsExact ==
    /\ \A t \in Query : Registered(t) => lookups[key[t]] = t
    /\ \A k \in Key : lookups[k] # None => Registered(lookups[k]) /\ key[lookups[k]] = k

\* The refresh set holds exactly the keys of running refreshes, and no key has
\* two.
RefreshesExact ==
    /\ refreshing = {key[t] : t \in {u \in Query : Refreshing(u)}}
    /\ \A t, u \in Query : Refreshing(t) /\ Refreshing(u) /\ key[t] = key[u] => t = u

\* No two lookups and no two refreshes run for one key, none is lost by
\* another's clean-up, and no key stays behind when its task is gone (server.rs:
\* resolve_shared, spawn_refresh, and the guards RemoveOnDrop and
\* RemoveFromSetOnDrop, which remove by key and not by task).
SingleFlight == LookupsExact /\ RefreshesExact

\* Everyone who joined a lookup is answered with what that lookup came to: its
\* message, or SERVFAIL only if it failed or died, never because the query
\* subscribed too late to hear it (server.rs: the key is removed before the
\* result is sent).
SharedOutcome ==
    \A q \in Query :
        pc[q] \in {"finish", "done"} /\ chan[q] # None =>
            IF tans[chan[q]].tag = "ok" THEN answer[q] = tans[chan[q]].msg
            ELSE /\ tans[chan[q]].tag \in {"failed", "died"}
                 /\ answer[q] = Synthetic("SERVFAIL")

\* The answer is the one the policy loaded on arrival decides: a query is
\* blocked exactly when that policy blocks its name, or, unless the name is
\* excepted, a name of the chain it was about to be sent, whether the chain came
\* from an upstream or from a cache filled under another policy (server.rs: one
\* snapshot from the first check to the CNAME check).  The property says nothing
\* of a name that safe search rewrites and whose chain holds a blocked name: the
\* code sends such an answer without the CNAME check, docs/SEMANTICS.md lists
\* that check among the steps its target goes through.
SnapshotDecides ==
    \A q \in Query : pc[q] = "done" /\ snap[q] # None =>
        LET p == snap[q]
            verdict == Verdict(p, req[q].name)
            taken == req[q].client \in p.allow /\ req[q].kind # "any"
            chained == taken /\ verdict = "allowed" /\ BlockedTargets(p, answer[q]) # {}
            unsettled == chained /\ req[q].name \in DOMAIN p.rewrite
        IN  ~unsettled =>
                (log[q].verdict = "blocked" <=> (taken /\ verdict = "blocked") \/ chained)

\* A cached answer is given as fresh only within its lifetime, and as stale only
\* within its window, counted from the moment the upstream produced it: slow
\* lookups and late inserts never stretch it (server.rs: entries are stamped
\* with an instant taken before the upstream was asked).
ServedInTime ==
    \A q \in Query :
        /\ log[q].source = "cache" =>
              now[q] < answer[q].born + Lifetime(answer[q])
        /\ log[q].source = "stale" =>
              now[q] < answer[q].born + Lifetime(answer[q]) + ServeStale

\* Every query that arrives is answered, whatever its leader's task does
\* (server.rs: handle_at is infallible by contract), and a key never stays marked
\* as being refreshed (a panicking refresh must not block every later refresh of
\* its name).
EveryQueryAnswered ==
    /\ \A q \in Query : pc[q] # "idle" ~> pc[q] = "done"
    /\ \A k \in Key : k \in refreshing ~> k \notin refreshing
=============================================================================
