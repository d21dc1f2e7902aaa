----------------------------- MODULE LogWriter -----------------------------
(***************************************************************************)
(* The query log on its way to disk (DbWriter, writer_loop and Db::flush   *)
(* in crates/core/src/db.rs) and the shutdown that must not lose it        *)
(* (daemon::run in crates/core/src/daemon.rs).  Query tasks put records in *)
(* a bounded queue and never wait; one thread takes them out in batches    *)
(* and commits each batch in a transaction; flush is a message in the same *)
(* queue that is acknowledged when its batch is done.  Around it stand the *)
(* listeners and connections that queries arrive on (serve and             *)
(* serve_tcp_conn in crates/core/src/server.rs) and the comparisons with a *)
(* reference resolver, which log into the same queue (spawn_compare in     *)
(* crates/core/src/shadow.rs).                                             *)
(***************************************************************************)
EXTENDS Naturals, Sequences, FiniteSets, Shadow

CONSTANTS
    Query,          \* queries; each leaves one record
    Tcp,            \* the ones that arrive on TCP connections
    Conn,           \* TCP connections
    MaxConns,       \* MAX_TCP_CONNECTIONS
    Ours,           \* the answer each query gets: [reply, blocked]
    MaxCompares,    \* MAX_INFLIGHT comparisons; 0 when there is no reference
    Capacity,       \* WRITER_QUEUE_CAPACITY
    BatchSize,      \* BATCH_SIZE
    DbMayFail,      \* may a transaction fail?
    Flush           \* the flush message

\* The record a comparison leaves when the resolvers disagree.
Divergence(q) == <<"divergence", q>>

ASSUME LogAssumption ==
    /\ Capacity \in Nat \ {0} /\ BatchSize \in Nat \ {0}
    /\ DbMayFail \in BOOLEAN
    /\ MaxConns \in Nat /\ MaxCompares \in Nat
    /\ Ours \in [Query -> [reply : Reply, blocked : BOOLEAN]]
    /\ Tcp \subseteq Query /\ IsFiniteSet(Query) /\ Flush \notin Query
    /\ \A q \in Query : Divergence(q) \notin Query \cup {Flush}

VARIABLES
    task,           \* the task of each query
    inside,         \* queries counted in flight
    conn,           \* each connection: closed, idle, or the query it carries
    compare,        \* the comparison of each query: none, asking, diverged
    queue,          \* the writer's channel
    drops,          \* dropped records
    wpc, batch,     \* the writer thread: its place and batch
    disk,           \* rows of the query log, in the order of their ids
    phase,          \* of the daemon
    flush,          \* the call of flush
    accepted,       \* history: records taken by the channel, in order
    lost,           \* history: records of failed transactions
    counted,        \* history: queries in flight when shutdown began
    covered,        \* history: records accepted when flush was called
    hurried         \* history: the drain ended at its deadline

history == <<accepted, lost, counted, covered, hurried>>
net == <<conn, compare>>
vars == <<task, inside, net, queue, drops, wpc, batch, disk, phase, flush, history>>

Elements(s) == {s[i] : i \in 1 .. Len(s)}

\* What is left of the first n of s, for every n, when the members of S go.
Sifted(s, S) ==
    LET f[n \in 0 .. Len(s)] ==
            IF n = 0 THEN <<>>
            ELSE IF s[n] \in S THEN f[n - 1] ELSE Append(f[n - 1], s[n])
    IN  f

Sift(s, S) == Sifted(s, S)[Len(s)]

Records(s) == Sift(s, {Flush})

Running == phase # "exited"

\* The channel's free places.  A place that becomes free while flush waits for
\* one belongs to flush (external: tokio's mpsc is fair).
Room == Len(queue) + (IF flush = "granted" THEN 1 ELSE 0) < Capacity
Granted == IF flush = "blocked" THEN "granted" ELSE flush

\* The thread runs, or has ended at once because it could not open the database.
Init ==
    /\ task = [q \in Query |-> "none"] /\ inside = {}
    /\ conn = [c \in Conn |-> "closed"] /\ compare = [q \in Query |-> "none"]
    /\ queue = <<>> /\ drops = 0
    /\ wpc \in {"recv", "dead"} /\ batch = <<>>
    /\ disk = <<>>
    /\ phase = "serving" /\ flush = "none"
    /\ accepted = <<>> /\ lost = {} /\ counted = {} /\ covered = {} /\ hurried = FALSE

-----------------------------------------------------------------------------
(* Connections.                                                            *)

\* The listener accepts a client that is allowed, while there is a slot; any
\* other connection is closed at once.
Accept(c) ==
    /\ phase = "serving" /\ conn[c] = "closed"
    /\ Cardinality({d \in Conn : conn[d] # "closed"}) < MaxConns
    /\ conn' = [conn EXCEPT ![c] = "idle"]
    /\ UNCHANGED <<task, inside, compare, queue, drops, wpc, batch, disk, phase, flush, history>>

\* Nothing for ten seconds, garbage, or the client is gone.
IdleEnds(c) ==
    /\ conn[c] = "idle" /\ Running
    /\ conn' = [conn EXCEPT ![c] = "closed"]
    /\ UNCHANGED <<task, inside, compare, queue, drops, wpc, batch, disk, phase, flush, history>>

\* Mutant of WriteAnswer: a client that does not read is waited for.
WriteAnswerWaiting(c) ==
    /\ conn[c] \in Query /\ Running
    /\ task[conn[c]] = "logged" /\ conn[c] \notin inside
    /\ \E next \in {"idle", "stuck"} : conn' = [conn EXCEPT ![c] = next]
    /\ UNCHANGED <<task, inside, compare, queue, drops, wpc, batch, disk, phase, flush, history>>

\* The answer is written and the next query awaited, or the client did not take
\* it within ten seconds.
WriteAnswer(c) ==
    /\ conn[c] \in Query /\ Running
    /\ task[conn[c]] = "logged" /\ conn[c] \notin inside
    /\ \E next \in {"idle", "closed"} : conn' = [conn EXCEPT ![c] = next]
    /\ UNCHANGED <<task, inside, compare, queue, drops, wpc, batch, disk, phase, flush, history>>

-----------------------------------------------------------------------------
(* A query.                                                                *)

\* The UDP listener reads it and spawns its task, until shutdown.
Receive(q) ==
    /\ q \notin Tcp /\ task[q] = "none" /\ phase = "serving"
    /\ task' = [task EXCEPT ![q] = "spawned"]
    /\ UNCHANGED <<inside, net, queue, drops, wpc, batch, disk, phase, flush, history>>

\* A connection reads it.  Shutdown does not end connections.
ReceiveTcp(q, c) ==
    /\ q \in Tcp /\ task[q] = "none" /\ conn[c] = "idle" /\ Running
    /\ task' = [task EXCEPT ![q] = "spawned"]
    /\ conn' = [conn EXCEPT ![c] = q]
    /\ UNCHANGED <<inside, compare, queue, drops, wpc, batch, disk, phase, flush, history>>

Enter(q) ==
    /\ task[q] = "spawned" /\ Running
    /\ task' = [task EXCEPT ![q] = "handling"]
    /\ inside' = inside \cup {q}
    /\ UNCHANGED <<net, queue, drops, wpc, batch, disk, phase, flush, history>>

\* DbWriter::log, which drops and counts when the queue is full or closed.
Put(record) ==
    \/ /\ wpc # "dead" /\ Room
       /\ queue' = Append(queue, record)
       /\ accepted' = Append(accepted, record)
       /\ UNCHANGED drops
    \/ /\ wpc = "dead" \/ ~Room
       /\ drops' = drops + 1
       /\ UNCHANGED <<queue, accepted>>

\* finish: the answer is there and its record is logged.
Log(q) ==
    /\ task[q] = "handling" /\ Running
    /\ task' = [task EXCEPT ![q] = "logged"]
    /\ Put(q)
    /\ UNCHANGED <<inside, net, wpc, batch, disk, phase, flush, lost, counted, covered, hurried>>

\* shadow_tap and the end of the query, which drops the in-flight guard.  An
\* answer that is mirrored gets its comparison while there is a permit.
Leave(q) ==
    /\ task[q] = "logged" /\ q \in inside /\ Running
    /\ inside' = inside \ {q}
    /\ \/ UNCHANGED compare
       \/ /\ Cardinality({r \in Query : compare[r] = "asking"}) < MaxCompares
          /\ compare' = [compare EXCEPT ![q] = "asking"]
    /\ UNCHANGED <<task, conn, queue, drops, wpc, batch, disk, phase, flush, history>>

-----------------------------------------------------------------------------
(* A comparison, in a task of its own.                                     *)

\* What the comparison of a query may come to.
Classes(q) == {classify(Ours[q].reply, Ours[q].blocked, theirs) : theirs \in Reply}

\* The reference does not answer in three seconds, or agrees.
Agrees(q) ==
    /\ compare[q] = "asking" /\ Running
    /\ compare' = [compare EXCEPT ![q] = "none"]
    /\ UNCHANGED <<task, inside, conn, queue, drops, wpc, batch, disk, phase, flush, history>>

\* It says something else, and that is logged.
Diverges(q) ==
    /\ compare[q] = "asking" /\ Running
    /\ Classes(q) # {"none"}
    /\ compare' = [compare EXCEPT ![q] = "diverged"]
    /\ Put(Divergence(q))
    /\ UNCHANGED <<task, inside, conn, wpc, batch, disk, phase, flush, lost, counted, covered, hurried>>

-----------------------------------------------------------------------------
(* The writer thread.                                                      *)

\* blocking_recv: the first message of a batch.
Recv ==
    /\ wpc = "recv" /\ queue # <<>> /\ Running
    /\ batch' = <<Head(queue)>>
    /\ queue' = Tail(queue)
    /\ flush' = Granted
    /\ wpc' = "take"
    /\ UNCHANGED <<task, inside, net, drops, disk, phase, history>>

\* try_recv: more, while there are any and the batch has room.
TakeMore ==
    /\ wpc = "take" /\ queue # <<>> /\ Len(batch) < BatchSize /\ Running
    /\ batch' = Append(batch, Head(queue))
    /\ queue' = Tail(queue)
    /\ flush' = Granted
    /\ UNCHANGED <<task, inside, net, drops, wpc, disk, phase, history>>

\* Mutant of StopTaking: a flush is acknowledged when it is taken.
StopTakingAcking ==
    /\ wpc = "take" /\ (queue = <<>> \/ Len(batch) = BatchSize) /\ Running
    /\ wpc' = "write"
    /\ flush' = IF Flush \in Elements(batch) THEN "done" ELSE flush
    /\ UNCHANGED <<task, inside, net, queue, drops, batch, disk, phase, history>>

\* Mutant of StopTaking: the batch waits until it is full.
StopTakingFull ==
    /\ wpc = "take" /\ Len(batch) = BatchSize /\ Running
    /\ wpc' = "write"
    /\ UNCHANGED <<task, inside, net, queue, drops, batch, disk, phase, flush, history>>

StopTaking ==
    /\ wpc = "take" /\ (queue = <<>> \/ Len(batch) = BatchSize) /\ Running
    /\ wpc' = "write"
    /\ UNCHANGED <<task, inside, net, queue, drops, batch, disk, phase, flush, history>>

\* The batch is over: a flush in it is answered.
BatchDone ==
    /\ flush' = IF Flush \in Elements(batch) THEN "done" ELSE flush
    /\ batch' = <<>>
    /\ wpc' = "recv"

\* process_batch: every record in one transaction, then the acknowledgements.
Commit ==
    /\ wpc = "write" /\ Running
    /\ disk' = disk \o Records(batch)
    /\ BatchDone
    /\ UNCHANGED <<task, inside, net, queue, drops, phase, history>>

\* Mutant of CommitFails: without a transaction the first record stays.
CommitFailsHalfway ==
    /\ wpc = "write" /\ DbMayFail /\ Running
    /\ LET kept == IF Records(batch) = <<>> THEN 0 ELSE 1
       IN  disk' = disk \o SubSeq(Records(batch), 1, kept)
    /\ lost' = lost \cup (Elements(batch) \ {Flush})
    /\ BatchDone
    /\ UNCHANGED <<task, inside, net, queue, drops, phase, accepted, counted, covered, hurried>>

\* The transaction fails somewhere and rolls back; its records are lost and its
\* flush is released, by an acknowledgement or because the sender is dropped.
CommitFails ==
    /\ wpc = "write" /\ DbMayFail /\ Running
    /\ lost' = lost \cup (Elements(batch) \ {Flush})
    /\ BatchDone
    /\ UNCHANGED <<task, inside, net, queue, drops, disk, phase, accepted, counted, covered, hurried>>

-----------------------------------------------------------------------------
(* Shutdown.                                                               *)

\* server.shutdown(): the listeners end.
Stop ==
    /\ phase = "serving"
    /\ phase' = "draining"
    /\ counted' = inside
    /\ UNCHANGED <<task, inside, net, queue, drops, wpc, batch, disk, flush,
                   accepted, lost, covered, hurried>>

\* Db::flush: queue the message, or let a thread wait for a place in the queue.
CallFlush ==
    /\ phase' = "flushing"
    /\ covered' = Elements(accepted)
    /\ \/ /\ wpc # "dead" /\ Room
          /\ queue' = Append(queue, Flush) /\ flush' = "waiting"
       \/ /\ wpc # "dead" /\ ~Room
          /\ flush' = "blocked" /\ UNCHANGED queue
       \/ /\ wpc = "dead"
          /\ flush' = "done" /\ UNCHANGED queue

\* Mutant of Drained: the log is flushed without waiting for queries.
DrainedAtOnce ==
    /\ phase = "draining"
    /\ CallFlush
    /\ UNCHANGED <<task, inside, net, drops, wpc, batch, disk, accepted, lost, counted, hurried>>

\* The drain ends when nothing is in flight.
Drained ==
    /\ phase = "draining" /\ inside = {}
    /\ CallFlush
    /\ UNCHANGED <<task, inside, net, drops, wpc, batch, disk, accepted, lost, counted, hurried>>

\* The drain ends at its deadline.
DrainTimeout ==
    /\ phase = "draining" /\ inside # {}
    /\ hurried' = TRUE
    /\ CallFlush
    /\ UNCHANGED <<task, inside, net, drops, wpc, batch, disk, accepted, lost, counted>>

Push ==
    /\ flush = "granted" /\ Running
    /\ queue' = Append(queue, Flush)
    /\ flush' = "waiting"
    /\ UNCHANGED <<task, inside, net, drops, wpc, batch, disk, phase, history>>

Exit ==
    /\ phase = "flushing" /\ flush = "done"
    /\ phase' = "exited"
    /\ UNCHANGED <<task, inside, net, queue, drops, wpc, batch, disk, flush, history>>

-----------------------------------------------------------------------------
Writer == Recv \/ TakeMore \/ StopTaking \/ Commit \/ CommitFails

Handle(q) == Enter(q) \/ Log(q) \/ Leave(q)

Compare(q) == Agrees(q) \/ Diverges(q)

Connection(c) == IdleEnds(c) \/ WriteAnswer(c)

Shutdown == Drained \/ DrainTimeout \/ Push \/ Exit

Next ==
    \/ \E c \in Conn : Accept(c) \/ Connection(c)
    \/ \E q \in Query : Receive(q) \/ Handle(q) \/ Compare(q)
    \/ \E q \in Query, c \in Conn : ReceiveTcp(q, c)
    \/ Writer
    \/ Stop \/ Shutdown

Spec == Init /\ [][Next]_vars

\* The thread and the tasks run; every batch ends, since SQLite waits at most its
\* busy timeout; the drain has a deadline; a connection that neither sends nor
\* reads is timed out.
Fairness ==
    /\ WF_vars(Writer) /\ WF_vars(Shutdown)
    /\ \A q \in Query : WF_vars(Handle(q))
    /\ \A c \in Conn : WF_vars(Connection(c))

FairSpec == Spec /\ Fairness

-----------------------------------------------------------------------------
(***************************************************************************)
(* Properties                                                              *)
(***************************************************************************)

\* Every query that has been handled, and every divergence found, is accounted
\* for: its record was refused and counted, also when the writer never started,
\* or was taken, and then it is on disk, in the batch or in the queue, once and
\* in the order of taking, or was lost with its whole transaction; and no
\* divergence comes before the record of its query (db.rs: log, writer_loop,
\* process_batch; shadow.rs: spawn_compare).
LogAccounted ==
    LET made == Cardinality({q \in Query : task[q] = "logged"})
                + Cardinality({q \in Query : compare[q] = "diverged"})
    IN  /\ Sift(accepted, lost) = disk \o Records(batch) \o Records(queue)
        /\ made = Len(accepted) + drops
        /\ \A i, j \in 1 .. Len(accepted), q \in Query :
              accepted[i] = Divergence(q) /\ accepted[j] = q => j < i

\* When flush returns, every record accepted before it was called has been
\* committed or reported lost, also when flush had to wait for room.
FlushCovers == flush = "done" => covered \subseteq Elements(disk) \cup lost

\* A daemon whose drain was not cut short has settled the record of every query
\* that was in flight when shutdown began.
DrainedQueriesSettled ==
    phase = "exited" /\ ~hurried =>
        \A q \in counted : /\ task[q] = "logged"
                           /\ q \in Elements(accepted) => q \in Elements(disk) \cup lost

\* What was logged before flush was called, and by every query that was in flight
\* when shutdown began if the drain was not cut short, is on disk or reported
\* lost when the daemon exits (db.rs: acknowledgement after commit; daemon.rs:
\* drain, then flush).
ShutdownSettles == FlushCovers /\ DrainedQueriesSettled

FlushReturns == phase = "flushing" ~> phase = "exited"

ConnectionsEnd == \A c \in Conn : conn[c] # "closed" ~> conn[c] = "closed" \/ ~Running

\* Nothing is waited for without end: flush returns and the daemon exits, also
\* when the queue is full and transactions fail (db.rs: flush), and a connection
\* gives its slot back, whether its client is silent or stops reading (server.rs:
\* "a client that never reads cannot pin the task").
WaitsEnd == FlushReturns /\ ConnectionsEnd
=============================================================================
