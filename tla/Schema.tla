------------------------------- MODULE Schema -------------------------------
(***************************************************************************)
(* Opening the database (Db::open in crates/core/src/db.rs).  Every        *)
(* command does it, the daemon included: create what is missing, read the  *)
(* schema version, bring an older database up to date, write the version.  *)
(* A statement is a transaction of its own, but for the rebuild of the     *)
(* table queries, which is one transaction of five, so processes           *)
(* interleave between statements, and a process may die between any two.   *)
(* SQLite, which is external, is its write lock, the copy of the database  *)
(* that an open transaction works on, and its commit or rollback.          *)
(***************************************************************************)
EXTENDS Naturals, Sequences

CONSTANTS
    Proc,           \* processes that open the database
    Row,            \* rows of the query log
    Expired,        \* those older than the retention window
    Nobody,         \* holds no lock
    Databases,      \* what may be on disk at first
    MaxFaults,      \* bound on failing statements and deaths
    NoVersion       \* meta holds no version

SCHEMA_VERSION == 4

\* What create_schema makes, in its order.
Objects == <<"meta", "queries", "idx_queries_ts", "heartbeat", "daemon_stats",
             "divergences", "idx_divergences_ts">>

\* What later versions added to a table; a table made now has it.
Feature == {"log_events_dropped_recent", "rewritten", "runtime_json"}
Born(object) ==
    CASE object = "queries" -> {"rewritten"}
      [] object = "daemon_stats" -> {"log_events_dropped_recent", "runtime_json"}
      [] OTHER -> {}

\* The upgrades, each for databases below its version.
Upgrades == <<[to |-> 2, adds |-> "log_events_dropped_recent"],
              [to |-> 3, adds |-> "rewritten"],
              [to |-> 4, adds |-> "runtime_json"]>>

\* A database: the objects in it, what its tables have of the features, the
\* version in meta, the rows of queries.
Database == [objects : SUBSET {Objects[i] : i \in 1 .. Len(Objects)},
             features : SUBSET Feature,
             version : Nat \cup {NoVersion},
             rows : SUBSET Row]

NoDatabase == [objects |-> {}, features |-> {}, version |-> NoVersion, rows |-> {}]

\* A database that release v left.
Released(v, rows) ==
    [objects |-> {Objects[i] : i \in 1 .. Len(Objects)},
     features |-> {Upgrades[i].adds : i \in {j \in 1 .. Len(Upgrades) : Upgrades[j].to <= v}},
     version |-> v, rows |-> rows]

\* A transaction: who is in it, the database as it sees it, and the rows of
\* queries_v2, a table that only the rebuild has.
NoTransaction == [by |-> Nobody, db |-> NoDatabase, old |-> {}]

Current(d) ==
    /\ d.objects = {Objects[i] : i \in 1 .. Len(Objects)}
    /\ d.features = Feature
    /\ d.version = SCHEMA_VERSION

\* What a database on disk may be at first: one that has a version has what it
\* stands for; one that has none is this release's, created at most half-way (one
\* that an older release left so is outside the model: it would be stamped as is).
Left(d) ==
    /\ d.version = NoVersion => \A object \in d.objects : Born(object) \subseteq d.features
    /\ \A i \in 1 .. Len(Upgrades) :
          d.version # NoVersion /\ d.version >= Upgrades[i].to => Upgrades[i].adds \in d.features

ASSUME SchemaAssumption ==
    /\ Databases \subseteq Database /\ MaxFaults \in Nat /\ NoVersion \notin Nat
    /\ Expired \subseteq Row /\ Nobody \notin Proc
    /\ \A d \in Databases : Left(d)

VARIABLES
    db,             \* the database on disk, as committed
    txn,            \* the transaction of several statements that is open
    opener,         \* each process: its place, the statement or upgrade it is at, and
                    \* the version it read
    faults          \* faults so far

schemaVars == <<db, txn, opener, faults>>

Closed == [pc |-> "closed", at |-> 1, from |-> NoVersion]
Rebuilding == {"make", "copy", "drop", "index", "commit"}
Opening == {"create", "version", "look", "alter", "record", "stamp", "failed"} \cup Rebuilding

SchemaInit ==
    /\ db \in Databases
    /\ txn = NoTransaction
    /\ opener = [p \in Proc |-> Closed]
    /\ faults = 0

Goto(p, pc, at) == opener' = [opener EXCEPT ![p].pc = pc, ![p].at = at]

\* A statement that writes waits for the write lock; StatementFails, below, when
\* it waits for longer than the busy timeout.
Unlocked == txn.by = Nobody

\* A connection that is closed rolls its transaction back.
Rollback(p) == txn' = IF txn.by = p THEN NoTransaction ELSE txn

-----------------------------------------------------------------------------
\* Connection::open and its pragmas; a failed open is tried again.
Open(p) ==
    /\ opener[p].pc \in {"closed", "failed"}
    /\ Goto(p, "create", 1)
    /\ UNCHANGED <<db, txn, faults>>

\* One CREATE ... IF NOT EXISTS, which only reads when the object is there.
CreateObject(p) ==
    /\ opener[p].pc = "create"
    /\ LET i == opener[p].at
       IN  /\ Objects[i] \in db.objects \/ Unlocked
           /\ db' = IF Objects[i] \in db.objects THEN db
                    ELSE [db EXCEPT !.objects = @ \cup {Objects[i]},
                                    !.features = @ \cup Born(Objects[i])]
           /\ IF i < Len(Objects) THEN Goto(p, "create", i + 1) ELSE Goto(p, "version", 1)
    /\ UNCHANGED <<txn, faults>>

\* ensure_schema_version reads the version and decides.
ReadVersion(p) ==
    /\ opener[p].pc = "version"
    /\ opener' = [opener EXCEPT
          ![p].from = db.version,
          ![p].pc = IF db.version = NoVersion THEN "stamp"
                    ELSE IF db.version > SCHEMA_VERSION THEN "refused"
                    ELSE IF db.version < SCHEMA_VERSION THEN "look"
                    ELSE "open"]
    /\ UNCHANGED <<db, txn, faults>>

\* A version that cannot be read is taken for an absent one (.ok()).
ReadVersionFails(p) ==
    /\ opener[p].pc = "version" /\ faults < MaxFaults
    /\ faults' = faults + 1
    /\ Goto(p, "stamp", 1)
    /\ UNCHANGED <<db, txn>>

\* Mutant of Stamp: a version that is there is overwritten.
StampOver(p) ==
    /\ opener[p].pc = "stamp" /\ Unlocked
    /\ db' = [db EXCEPT !.version = SCHEMA_VERSION]
    /\ Goto(p, "open", 1)
    /\ UNCHANGED <<txn, faults>>

\* INSERT of the version, which fails on a key that is there by now.
Stamp(p) ==
    /\ opener[p].pc = "stamp" /\ Unlocked
    /\ \/ /\ db.version = NoVersion
          /\ db' = [db EXCEPT !.version = SCHEMA_VERSION]
          /\ Goto(p, "open", 1)
       \/ /\ db.version # NoVersion
          /\ Goto(p, "failed", 1)
          /\ UNCHANGED db
    /\ UNCHANGED <<txn, faults>>

-----------------------------------------------------------------------------
(* migrate_schema.                                                         *)

NextUpgrade(p) ==
    IF opener[p].at < Len(Upgrades) THEN Goto(p, "look", opener[p].at + 1) ELSE Goto(p, "record", 1)

\* Mutant of Look: an upgrade that is due is made without looking.
LookAway(p) ==
    /\ opener[p].pc = "look"
    /\ LET u == Upgrades[opener[p].at]
       IN  \/ opener[p].from < u.to /\ Goto(p, "alter", opener[p].at)
           \/ opener[p].from >= u.to /\ NextUpgrade(p)
    /\ UNCHANGED <<db, txn, faults>>

\* Is the upgrade due for this version, and not already in the table?
Look(p) ==
    /\ opener[p].pc = "look"
    /\ LET u == Upgrades[opener[p].at]
       IN  \/ opener[p].from < u.to /\ u.adds \notin db.features /\ Goto(p, "alter", opener[p].at)
           \/ opener[p].from >= u.to /\ NextUpgrade(p)
           \/ opener[p].from < u.to /\ u.adds \in db.features /\ NextUpgrade(p)
    /\ UNCHANGED <<db, txn, faults>>

\* ALTER TABLE ADD COLUMN, which fails on a column that is there by now.
AddColumn(p) ==
    /\ opener[p].pc = "alter" /\ Upgrades[opener[p].at].adds # "rewritten" /\ Unlocked
    /\ LET column == Upgrades[opener[p].at].adds
       IN  \/ /\ column \notin db.features
              /\ db' = [db EXCEPT !.features = @ \cup {column}]
              /\ NextUpgrade(p)
           \/ /\ column \in db.features
              /\ Goto(p, "failed", 1)
              /\ UNCHANGED db
    /\ UNCHANGED <<txn, faults>>

\* What the statements of the rebuild make of a database: ALTER TABLE queries RENAME
\* TO queries_v2 (its index goes along, and so does what its CHECK allows), CREATE
\* TABLE queries, INSERT INTO queries SELECT * FROM queries_v2, DROP TABLE queries_v2
\* with its index, and CREATE INDEX IF NOT EXISTS, whose name is free again.
Renamed(d) == [d EXCEPT !.objects = @ \ {"queries"}, !.features = @ \ Born("queries"), !.rows = {}]
Made(d) == [d EXCEPT !.objects = @ \cup {"queries"}, !.features = @ \cup Born("queries")]
Copied(d, old) == [d EXCEPT !.rows = @ \cup old]
Dropped(d) == [d EXCEPT !.objects = @ \ {"idx_queries_ts"}]
Indexed(d) == [d EXCEPT !.objects = @ \cup {"idx_queries_ts"}]

\* Mutant of Rename: the BEGIN is missing.
RenameBare(p) ==
    /\ opener[p].pc = "alter" /\ Upgrades[opener[p].at].adds = "rewritten" /\ Unlocked
    /\ db' = Renamed(db)
    /\ txn' = [by |-> p, db |-> Renamed(db), old |-> db.rows]
    /\ Goto(p, "make", opener[p].at)
    /\ UNCHANGED faults

\* BEGIN and the first statement, which takes the lock: the table is rebuilt also
\* when another process has done it since Look.
Rename(p) ==
    /\ opener[p].pc = "alter" /\ Upgrades[opener[p].at].adds = "rewritten" /\ Unlocked
    /\ txn' = [by |-> p, db |-> Renamed(db), old |-> db.rows]
    /\ Goto(p, "make", opener[p].at)
    /\ UNCHANGED <<db, faults>>

InTransaction(p, place, next) ==
    /\ opener[p].pc = place
    /\ Goto(p, next, opener[p].at)
    /\ UNCHANGED <<db, faults>>

MakeTable(p) == InTransaction(p, "make", "copy") /\ txn' = [txn EXCEPT !.db = Made(txn.db)]
CopyRows(p) == InTransaction(p, "copy", "drop") /\ txn' = [txn EXCEPT !.db = Copied(txn.db, txn.old)]
DropTable(p) == InTransaction(p, "drop", "index") /\ txn' = [txn EXCEPT !.db = Dropped(txn.db), !.old = {}]
MakeIndex(p) == InTransaction(p, "index", "commit") /\ txn' = [txn EXCEPT !.db = Indexed(txn.db)]

Commit(p) ==
    /\ opener[p].pc = "commit"
    /\ db' = txn.db
    /\ txn' = NoTransaction
    /\ NextUpgrade(p)
    /\ UNCHANGED faults

RecordVersion(p) ==
    /\ opener[p].pc = "record" /\ Unlocked
    /\ db' = [db EXCEPT !.version = SCHEMA_VERSION]
    /\ Goto(p, "open", 1)
    /\ UNCHANGED <<txn, faults>>

-----------------------------------------------------------------------------
\* A statement fails: the disk is full, or another process held the lock for
\* longer than the busy timeout.
StatementFails(p) ==
    /\ opener[p].pc \in Opening \ {"version", "failed"} /\ faults < MaxFaults
    /\ faults' = faults + 1
    /\ Goto(p, "failed", 1) /\ Rollback(p)
    /\ UNCHANGED db

\* The process ends, at any point.
Ends(p) == opener' = [opener EXCEPT ![p] = Closed] /\ Rollback(p)

Dies(p) ==
    /\ opener[p].pc \notin {"closed", "refused"} /\ faults < MaxFaults
    /\ faults' = faults + 1
    /\ Ends(p)
    /\ UNCHANGED db

\* A process that is done with its database, or did not get it open, exits.
Exits(p) ==
    /\ opener[p].pc \in {"open", "failed"}
    /\ Ends(p)
    /\ UNCHANGED <<db, faults>>

\* A process that has opened the database logs a query.
LogRow(p, row) ==
    /\ opener[p].pc = "open" /\ Unlocked
    /\ db' = [db EXCEPT !.rows = @ \cup {row}]
    /\ UNCHANGED <<txn, opener, faults>>

\* retention_sweep deletes the rows older than the window; one that fails changes
\* nothing and is only logged.
Sweep(p) ==
    /\ opener[p].pc = "open" /\ Unlocked
    /\ db' = [db EXCEPT !.rows = @ \ Expired]
    /\ UNCHANGED <<txn, opener, faults>>

OpenStep(p) ==
    \/ Open(p) \/ CreateObject(p) \/ ReadVersion(p) \/ Stamp(p)
    \/ Look(p) \/ AddColumn(p) \/ RecordVersion(p)
    \/ Rename(p) \/ MakeTable(p) \/ CopyRows(p) \/ DropTable(p) \/ MakeIndex(p) \/ Commit(p)

OpenFault(p) == ReadVersionFails(p) \/ StatementFails(p)

SchemaNext ==
    \E p \in Proc :
        \/ OpenStep(p) \/ OpenFault(p) \/ Dies(p) \/ Exits(p) \/ Sweep(p)
        \/ \E row \in Row \ Expired : LogRow(p, row)

SchemaSpec == SchemaInit /\ [][SchemaNext]_schemaVars

-----------------------------------------------------------------------------
(***************************************************************************)
(* Properties                                                              *)
(***************************************************************************)

\* A process that got its database open has all of the current schema under it,
\* whoever died half-way through creating or upgrading it, and whoever opens it at
\* the same time (db.rs: create_schema, ensure_schema_version, migrate_schema).  It
\* is so of databases that are Left as above: tables that an older release left
\* without a version would be stamped as they are (db.rs:459).
OpenedIsCurrent == \A p \in Proc : opener[p].pc = "open" => Current(db)

\* Only the sweep takes a row from the query log, and only one that is older than
\* the window, which does not come back.  The rebuild empties the table on its way
\* and fills it from its copy, and yet no row is lost when it fails or its process
\* dies at any of its statements, when two processes rebuild one after the other,
\* or when others log and sweep around it (db.rs: migrate_schema, "rebuild the
\* table in one transaction, keeping every row and id"; retention_sweep).
RowsKept ==
    [][db.rows \ db'.rows \subseteq Expired /\ db'.rows \cap Expired \subseteq db.rows]_db

\* An open that failed succeeds when it is tried again: what a race or a death
\* left half-done never keeps the database shut (db.rs: "Each one is
\* idempotent"); only a newer release's database is refused.
OpensInTheEnd ==
    \A p \in Proc : opener[p].pc \in Opening ~> opener[p].pc \in {"open", "refused", "closed"}
=============================================================================
