--------------------------- MODULE StorageProofs ---------------------------
(***************************************************************************)
(* Theorems about what is kept on disk: the stored copy of a blocklist,    *)
(* for any number of contents and crashes, with a disk that works or       *)
(* fails; the database, for any number of processes that open it; and the  *)
(* configuration and the user's rules, for any number of commands, any     *)
(* AdGuard file and any configuration that is there at first.              *)
(***************************************************************************)
EXTENDS ListStore, Commands, FiniteSetTheorems, FunctionTheorems, SequenceTheorems, WellFoundedInduction, TLAPS

(***************************************************************************)
(* The stored copy of a list                                               *)
(***************************************************************************)

\* The ETag on disk is never newer than the body, and neither is the one a
\* request carries: whoever gets a 304 for it has the host's content.
TagsBehind ==
    /\ etag # Absent => body # Absent /\ etag <= body
    /\ pc = "asked" /\ sent # Absent => body # Absent /\ sent <= body
    /\ body # Absent => body <= host

\* A download is not older than the stored copy it replaces.
DownloadAhead ==
    /\ pc = "body" => /\ got \in [content : Version, etag : Version \cup {Absent}]
                      /\ got.content <= host /\ got.etag \in {got.content, Absent}
                      /\ body # Absent => body <= got.content
    /\ pc = "etag" => /\ got \in [content : Version, etag : Version \cup {Absent}]
                      /\ got.etag \in {got.content, Absent}
                      /\ body = got.content

\* The stored copy is the newest content ever stored.
NewestStored == newest = IF body = Absent THEN Seed ELSE body

StoreInv ==
    TypeOK /\ StoredCopyConfirmed /\ NeverOlder /\ TagsBehind /\ DownloadAhead /\ NewestStored

\* What the parts of the invariant say; Absent is no number.
LEMMA AbsentIsNoContent == Absent \notin Version /\ Absent # Seed /\ Version \subseteq Nat /\ Seed \in Nat
BY ListAssumption DEF Version, Seed

LEMMA StoreInvInit == StoreInit => StoreInv
BY AbsentIsNoContent, ListAssumption
   DEF StoreInit, StoreInv, TypeOK, StoredCopyConfirmed, NeverOlder, TagsBehind, DownloadAhead,
       NewestStored, Version, Seed

LEMMA StoreInvStep == StoreInv /\ [StoreNext]_storeVars => StoreInv'
<1> SUFFICES ASSUME StoreInv, [StoreNext]_storeVars PROVE StoreInv'
    OBVIOUS
<1> USE AbsentIsNoContent, ListAssumption
    DEF StoreInv, TypeOK, StoredCopyConfirmed, NeverOlder, TagsBehind, DownloadAhead, NewestStored
<1>1. CASE PublishNew
    BY <1>1 DEF PublishNew, Version
<1>2. CASE OfflineLoad
    BY <1>2 DEF OfflineLoad, Seed
<1>3. CASE Refresh \/ Request
    BY <1>3 DEF Refresh, Request
<1>4. CASE NotModified
    <2>1. body = host
        BY <1>4 DEF NotModified
    <2> QED
        BY <1>4, <2>1 DEF NotModified
<1>5. CASE Downloaded
    BY <1>5 DEF Downloaded
<1>6. CASE FetchFailed
    <2>1. text' \in Version \cup {Seed, Absent} /\ pc' \in {"failed", "serving"}
        BY <1>6 DEF FetchFailed
    <2>2. text' # Absent => text' >= newest
        <3>1. CASE body # Absent
            BY <1>6, <3>1 DEF FetchFailed
        <3>2. CASE body = Absent
            BY <2>1, <3>2 DEF Seed
        <3> QED
            BY <3>1, <3>2
    <2> QED
        BY <1>6, <2>1, <2>2 DEF FetchFailed
<1>7. CASE StoreBody
    <2>1. CASE body' = got.content /\ confirmed' = got.content /\ newest' = Newer(got.content)
               /\ pc' = "etag" /\ UNCHANGED <<etag, text, got>>
        <3>1. newest' = got.content
            BY <1>7, <2>1 DEF StoreBody, Newer, Seed, Version
        <3>2. TypeOK'
            BY <1>7, <2>1, <3>1 DEF StoreBody
        <3>3. TagsBehind'
            BY <1>7, <2>1, <3>1 DEF StoreBody, Version
        <3>4. DownloadAhead'
            BY <1>7, <2>1, <3>1 DEF StoreBody
        <3>5. StoredCopyConfirmed' /\ NeverOlder' /\ NewestStored'
            BY <1>7, <2>1, <3>1 DEF StoreBody
        <3> QED
            BY <3>2, <3>3, <3>4, <3>5
    <2>2. CASE etag' \in {Absent, etag} /\ InForce /\ UNCHANGED <<body, confirmed, newest>>
        BY <1>7, <2>2 DEF StoreBody, InForce, Seed
    <2> QED
        BY <1>7, <2>1, <2>2 DEF StoreBody
<1>8. CASE StoreEtag
    BY <1>8 DEF StoreEtag, InForce
<1>9. CASE Restart \/ Crash
    BY <1>9 DEF Restart, Crash
<1>10. CASE UNCHANGED storeVars
    BY <1>10 DEF storeVars
<1> QED
    BY <1>1, <1>2, <1>3, <1>4, <1>5, <1>6, <1>7, <1>8, <1>9, <1>10 DEF StoreNext, Load

\* The stored copy is what the host served when its mtime was set, through
\* crashes between the two files and writes that fail (lists.rs: fetch_with_etag).
THEOREM StoredCopyIsConfirmed == StoreSpec => [](TypeOK /\ StoredCopyConfirmed)
<1>1. StoreInv => TypeOK /\ StoredCopyConfirmed
    BY DEF StoreInv
<1> QED
    BY <1>1, StoreInvInit, StoreInvStep, PTL DEF StoreSpec

\* A list that was stored is never replaced by an older one or by the seed
\* (lists.rs: acquire_list).
THEOREM NothingOlderServed == StoreSpec => []NeverOlder
<1>1. StoreInv => NeverOlder
    BY DEF StoreInv
<1> QED
    BY <1>1, StoreInvInit, StoreInvStep, PTL DEF StoreSpec

-----------------------------------------------------------------------------
(***************************************************************************)
(* The database                                                            *)
(***************************************************************************)

\* What create_schema makes has every feature.
AllObjects == {Objects[i] : i \in 1 .. Len(Objects)}

OpenerState ==
    [pc : Opening \cup {"closed", "open", "refused"}, at : Nat, from : Nat \cup {NoVersion}]

Txn == [by : Proc \cup {Nobody}, db : Database, old : SUBSET Row]

SchemaTypeOK ==
    /\ db \in Database
    /\ txn \in Txn
    /\ opener \in [Proc -> OpenerState]
    /\ faults \in Nat

\* How far a process has come is true of the database, whatever the others have
\* done to it since: objects and features only grow, and so does the version.
Progress(p) ==
    LET o == opener[p]
    IN  /\ o.pc = "create" => o.at \in 1 .. Len(Objects) /\ \A j \in 1 .. o.at - 1 : Objects[j] \in db.objects
        /\ o.pc = "version" => o.at = 1
        /\ o.pc \in {"version", "look", "alter", "record", "stamp", "open"} \cup Rebuilding => db.objects = AllObjects
        /\ o.pc \in {"look", "alter"} \cup Rebuilding =>
              /\ o.at \in 1 .. Len(Upgrades)
              /\ o.from \in Nat /\ o.from < SCHEMA_VERSION
              /\ db.version \in Nat /\ o.from <= db.version
              /\ \A j \in 1 .. o.at - 1 : Upgrades[j].adds \in db.features
        /\ o.pc \in {"record", "open"} => db.features = Feature
        /\ o.pc = "record" => db.version \in Nat
        /\ o.pc = "open" => db.version = SCHEMA_VERSION

\* What the rebuild has made of its copy, statement by statement: the database on
\* disk, which nobody writes meanwhile, with the table queries taken apart.
Copy(place, objects, features) ==
    /\ txn.db.objects = objects /\ txn.db.features = features
    /\ place \in {"make", "copy"} => txn.old = db.rows /\ txn.db.rows = {}
    /\ place \in {"drop", "index", "commit"} => txn.db.rows = db.rows

Stage(p) ==
    LET place == opener[p].pc
    IN  /\ place \in Rebuilding <=> txn.by = p
        /\ place \in Rebuilding => txn.db.version = db.version /\ Upgrades[opener[p].at].adds = "rewritten"
        /\ place = "make" => Copy(place, AllObjects \ {"queries"}, db.features \ {"rewritten"})
        /\ place \in {"copy", "drop", "commit"} => Copy(place, AllObjects, db.features \cup {"rewritten"})
        /\ place = "index" => Copy(place, AllObjects \ {"idx_queries_ts"}, db.features \cup {"rewritten"})

SchemaInv == SchemaTypeOK /\ Left(db) /\ \A p \in Proc : Progress(p) /\ Stage(p)

LEMMA SchemaFacts ==
    /\ Len(Objects) = 7 /\ Len(Upgrades) = 3
    /\ {"queries", "daemon_stats"} \subseteq AllObjects
    /\ \A i \in 1 .. 7 : Objects[i] \in AllObjects
    /\ \A x : x \in AllObjects => \E i \in 1 .. 7 : x = Objects[i]
    /\ Born("queries") \cup Born("daemon_stats") = Feature
    /\ \A x : Born(x) \subseteq Feature
<1>1. Len(Objects) = 7 /\ Len(Upgrades) = 3
    BY DEF Objects, Upgrades
<1>2. Objects[2] = "queries" /\ Objects[5] = "daemon_stats"
    BY DEF Objects
<1>3. {"queries", "daemon_stats"} \subseteq AllObjects
    BY <1>1, <1>2 DEF AllObjects
<1>4. Born("queries") \cup Born("daemon_stats") = Feature
    BY DEF Born, Feature
<1>5. \A x : Born(x) \subseteq Feature
    BY DEF Born, Feature
<1> QED
    BY <1>1, <1>3, <1>4, <1>5 DEF AllObjects

LEMMA UpgradeFacts ==
    /\ Upgrades[1].to = 2 /\ Upgrades[2].to = 3 /\ Upgrades[3].to = 4
    /\ \A i \in 1 .. 3 : Upgrades[i].adds \in Feature /\ Upgrades[i].to \in Nat /\ Upgrades[i].to <= SCHEMA_VERSION
    /\ \A x \in Feature : \E i \in 1 .. 3 : x = Upgrades[i].adds
BY DEF Upgrades, Feature, SCHEMA_VERSION

LEMMA SchemaInitInv == SchemaInit => SchemaInv
<1> SUFFICES ASSUME SchemaInit PROVE SchemaInv
    OBVIOUS
<1>1. NoDatabase \in Database /\ NoTransaction \in Txn
    BY DEF NoDatabase, Database, NoTransaction, Txn
<1>2. \A p \in Proc : opener[p].pc = "closed" /\ txn.by # p
    BY SchemaAssumption DEF SchemaInit, Closed, NoTransaction
<1>3. \A p \in Proc : Progress(p)
    BY <1>2 DEF Progress, Rebuilding
<1>4. \A p \in Proc : Stage(p)
    BY <1>2 DEF Stage, Rebuilding
<1> QED
    BY <1>1, <1>3, <1>4, SchemaAssumption DEF SchemaInit, SchemaInv, SchemaTypeOK, Closed, OpenerState, Opening

\* A process that does nothing keeps its progress while the database grows.
Grows ==
    /\ db' \in Database /\ db.objects \subseteq db'.objects /\ db.features \subseteq db'.features
    /\ db'.version \in {db.version, SCHEMA_VERSION}

LEMMA ProgressKept ==
    ASSUME SchemaTypeOK, Grows, NEW q \in Proc, Progress(q), opener'[q] = opener[q]
    PROVE  Progress(q)'
<1>1. db'.objects \subseteq AllObjects /\ db'.features \subseteq Feature /\ SCHEMA_VERSION = 4
    BY DEF Grows, Database, AllObjects, SCHEMA_VERSION
<1> DEFINE o == opener[q]
<1>2. o \in OpenerState /\ opener'[q] = o
    BY DEF SchemaTypeOK
<1> HIDE DEF o
<1>3. o.pc = "create" => o.at \in 1 .. Len(Objects) /\ \A j \in 1 .. o.at - 1 : Objects[j] \in db'.objects
    BY DEF Progress, Grows, o
<1>4. o.pc \in {"version", "look", "alter", "record", "stamp", "open"} \cup Rebuilding => db'.objects = AllObjects
    BY <1>1 DEF Progress, Grows, o
<1>5. o.pc \in {"look", "alter"} \cup Rebuilding =>
          /\ o.at \in 1 .. Len(Upgrades)
          /\ o.from \in Nat /\ o.from < SCHEMA_VERSION
          /\ db'.version \in Nat /\ o.from <= db'.version
          /\ \A j \in 1 .. o.at - 1 : Upgrades[j].adds \in db'.features
    BY <1>1 DEF Progress, Grows, o
<1>6. o.pc \in {"record", "open"} => db'.features = Feature
    BY <1>1 DEF Progress, Grows, o
<1>7. (o.pc = "record" => db'.version \in Nat) /\ (o.pc = "open" => db'.version = SCHEMA_VERSION)
    BY <1>1 DEF Progress, Grows, o
<1>8. o.pc = "version" => o.at = 1
    BY DEF Progress, o
<1> QED
    BY <1>2, <1>3, <1>4, <1>5, <1>6, <1>7, <1>8 DEF Progress

\* A process writes, the database or its copy, only when no other has the lock.
Alone(p) == {txn.by, txn'.by} \subseteq {Nobody, p} \/ UNCHANGED <<db, txn>>

LEMMA StageKept ==
    ASSUME SchemaInv, NEW p \in Proc, Alone(p), NEW q \in Proc, q # p, opener'[q] = opener[q]
    PROVE  Stage(q)'
<1>0. Stage(q) /\ Nobody # q
    BY SchemaAssumption DEF SchemaInv
<1>1. CASE UNCHANGED <<db, txn>>
    BY <1>0, <1>1 DEF Stage, Copy
<1>2. CASE txn.by \in {Nobody, p} /\ txn'.by \in {Nobody, p}
    <2>1. opener[q].pc \notin Rebuilding /\ txn'.by # q
        BY <1>0, <1>2 DEF Stage
    <2> QED
        BY <2>1 DEF Stage, Rebuilding
<1> QED
    BY <1>1, <1>2 DEF Alone

\* One process takes a step within its transaction, or begins it.
LEMMA SchemaInside ==
    ASSUME SchemaInv, NEW p \in Proc, Grows, Left(db'), faults' \in Nat, Alone(p), txn' \in Txn,
           NEW o \in OpenerState, opener' = [opener EXCEPT ![p] = o], Progress(p)', Stage(p)'
    PROVE  SchemaInv'
<1>1. opener' \in [Proc -> OpenerState] /\ \A q \in Proc : q # p => opener'[q] = opener[q]
    BY DEF SchemaInv, SchemaTypeOK
<1>2. \A q \in Proc : Progress(q)'
    BY <1>1, ProgressKept DEF SchemaInv
<1>3. \A q \in Proc : Stage(q)'
    BY <1>1, StageKept
<1> QED
    BY <1>1, <1>2, <1>3 DEF SchemaInv, SchemaTypeOK, Grows, Left

\* A step of a process that has no transaction after it.
Outside(p) == Alone(p) /\ txn' \in Txn /\ txn'.by # p

LEMMA SchemaOne ==
    ASSUME SchemaInv, NEW p \in Proc, Grows, Left(db'), faults' \in Nat, Outside(p),
           NEW o \in OpenerState, o.pc \notin Rebuilding, opener' = [opener EXCEPT ![p] = o], Progress(p)'
    PROVE  SchemaInv'
<1>1. opener'[p].pc \notin Rebuilding
    BY DEF SchemaInv, SchemaTypeOK
<1>2. Stage(p)'
    BY <1>1 DEF Stage, Outside, Rebuilding
<1> QED
    BY <1>2, SchemaInside DEF Outside

\* A process outside of any transaction has none after a statement of its own.
LEMMA OutsideStays ==
    ASSUME SchemaInv, NEW p \in Proc, opener[p].pc \notin Rebuilding, UNCHANGED txn, Unlocked \/ UNCHANGED db
    PROVE  Outside(p)
<1>1. txn \in Txn /\ txn.by # p
    BY DEF SchemaInv, SchemaTypeOK, Stage
<1> QED
    BY <1>1 DEF Outside, Alone, Unlocked

LEMMA OutsideRollback ==
    ASSUME SchemaInv, NEW p \in Proc, Rollback(p), UNCHANGED db PROVE Outside(p)
<1>1. txn \in Txn /\ NoTransaction \in Txn /\ NoTransaction.by = Nobody /\ Nobody # p
    BY SchemaAssumption DEF SchemaInv, SchemaTypeOK, NoTransaction, Txn, NoDatabase, Database
<1> QED
    BY <1>1 DEF Outside, Alone, Rollback

At(o, place, n) == [o EXCEPT !.pc = place, !.at = n]

LEMMA GotoIs ==
    ASSUME SchemaTypeOK, NEW p \in Proc, NEW place \in Opening \cup {"closed", "open", "refused"}, NEW n \in Nat,
           Goto(p, place, n)
    PROVE  /\ At(opener[p], place, n) \in OpenerState
           /\ opener' = [opener EXCEPT ![p] = At(opener[p], place, n)]
           /\ opener'[p].pc = place /\ opener'[p].at = n /\ opener'[p].from = opener[p].from
           /\ At(opener[p], place, n).pc = place
BY DEF SchemaTypeOK, OpenerState, Goto, At

\* A step that leaves the database alone.
LEMMA SchemaStays ==
    ASSUME SchemaInv, NEW p \in Proc, UNCHANGED db, faults' \in Nat, Outside(p),
           NEW o \in OpenerState, o.pc \notin Rebuilding, opener' = [opener EXCEPT ![p] = o], Progress(p)'
    PROVE  SchemaInv'
<1>1. Grows /\ Left(db')
    BY DEF Grows, SchemaInv, SchemaTypeOK, Left
<1> QED
    BY <1>1, SchemaOne

\* A process that goes where nothing is promised.
LEMMA SchemaIdles ==
    ASSUME SchemaInv, NEW p \in Proc, UNCHANGED db, faults' \in Nat, Outside(p),
           NEW place \in {"closed", "refused", "failed"}, NEW n \in Nat, Goto(p, place, n)
    PROVE  SchemaInv'
<1>1. /\ At(opener[p], place, n) \in OpenerState
      /\ opener' = [opener EXCEPT ![p] = At(opener[p], place, n)]
      /\ opener'[p].pc = place /\ At(opener[p], place, n).pc = place
    BY GotoIs DEF SchemaInv, Opening
<1>2. Progress(p)'
    BY <1>1 DEF Progress, Rebuilding
<1> QED
    BY <1>1, <1>2, SchemaStays DEF Rebuilding

LEMMA OpenKeeps ==
    ASSUME SchemaInv, NEW p \in Proc, Open(p) PROVE SchemaInv'
<1>1. /\ At(opener[p], "create", 1) \in OpenerState
      /\ opener' = [opener EXCEPT ![p] = At(opener[p], "create", 1)]
      /\ opener'[p].pc = "create" /\ opener'[p].at = 1 /\ At(opener[p], "create", 1).pc = "create"
    BY GotoIs DEF Open, SchemaInv, Opening
<1>2. Progress(p)'
    BY <1>1, SchemaFacts DEF Progress, Rebuilding
<1>3. Outside(p)
    BY OutsideStays DEF Open, Rebuilding
<1> QED
    BY <1>1, <1>2, <1>3, SchemaStays DEF Open, SchemaInv, SchemaTypeOK, Rebuilding

LEMMA CreateKeeps ==
    ASSUME SchemaInv, NEW p \in Proc, CreateObject(p) PROVE SchemaInv'
<1> DEFINE i == opener[p].at
           x == Objects[i]
<1>0. SchemaTypeOK /\ Left(db) /\ Progress(p)
    BY DEF SchemaInv
<1>1. /\ i \in 1 .. 7 /\ x \in AllObjects /\ UNCHANGED faults
      /\ \A j \in 1 .. i - 1 : Objects[j] \in db.objects
      /\ db' = IF x \in db.objects THEN db
               ELSE [db EXCEPT !.objects = @ \cup {x}, !.features = @ \cup Born(x)]
    BY <1>0, SchemaFacts DEF CreateObject, Progress
<1>10. Outside(p)
    <2>1. opener[p].pc \notin Rebuilding /\ UNCHANGED txn
        BY DEF CreateObject, Rebuilding
    <2>2. Unlocked \/ UNCHANGED db
        BY <1>1 DEF CreateObject
    <2> QED
        BY <2>1, <2>2, OutsideStays
<1> HIDE DEF x
<1>2. /\ Grows /\ db'.objects = db.objects \cup {x} /\ db'.version = db.version
      /\ x \notin db.objects => db'.features = db.features \cup Born(x)
      /\ x \in db.objects => db'.features = db.features
    <2>1. db.objects \subseteq AllObjects /\ db.features \subseteq Feature /\ Born(x) \subseteq Feature
        BY <1>0, SchemaFacts DEF SchemaTypeOK, Database, AllObjects
    <2> QED
        BY <1>0, <1>1, <2>1 DEF Grows, SchemaTypeOK, Database, AllObjects
<1>3. Left(db')
    BY <1>0, <1>2 DEF Left, Grows
<1>4. \A j \in 1 .. i : Objects[j] \in db'.objects
    BY <1>1, <1>2 DEF x
<1>5. CASE i < Len(Objects)
    <2>1. Goto(p, "create", i + 1)
        BY <1>5 DEF CreateObject
    <2>2. /\ At(opener[p], "create", i + 1) \in OpenerState
          /\ opener' = [opener EXCEPT ![p] = At(opener[p], "create", i + 1)]
          /\ opener'[p].pc = "create" /\ opener'[p].at = i + 1 /\ At(opener[p], "create", i + 1).pc = "create"
        <3>1. i + 1 \in Nat /\ "create" \in Opening
            BY <1>1 DEF Opening
        <3> HIDE DEF i
        <3> QED
            BY <1>0, <2>1, <3>1, GotoIs
    <2> HIDE DEF i
    <2>3. Progress(p)'
        BY <1>1, <1>4, <1>5, <2>2, SchemaFacts DEF Progress, Rebuilding
    <2> QED
        BY <1>0, <1>1, <1>2, <1>3, <1>10, <2>2, <2>3, SchemaOne DEF SchemaTypeOK, Rebuilding
<1>6. CASE ~(i < Len(Objects))
    <2>1. Goto(p, "version", 1)
        BY <1>6 DEF CreateObject
    <2>2. /\ At(opener[p], "version", 1) \in OpenerState
          /\ opener' = [opener EXCEPT ![p] = At(opener[p], "version", 1)]
          /\ opener'[p].pc = "version" /\ opener'[p].at = 1 /\ At(opener[p], "version", 1).pc = "version"
        BY <1>0, <2>1, GotoIs DEF Opening
    <2>3. i = 7
        BY <1>1, <1>6, SchemaFacts
    <2> HIDE DEF i
    <2>4. db'.objects = AllObjects
        BY <1>2, <1>4, <2>3, SchemaFacts DEF Grows, Database, AllObjects
    <2>5. Progress(p)'
        BY <2>2, <2>4 DEF Progress, Rebuilding
    <2> QED
        BY <1>0, <1>1, <1>2, <1>3, <1>10, <2>2, <2>5, SchemaOne DEF SchemaTypeOK, Rebuilding
<1> QED
    BY <1>5, <1>6

LEMMA ReadKeeps ==
    ASSUME SchemaInv, NEW p \in Proc, ReadVersion(p) PROVE SchemaInv'
<1> DEFINE place == IF db.version = NoVersion THEN "stamp"
                 ELSE IF db.version > SCHEMA_VERSION THEN "refused"
                 ELSE IF db.version < SCHEMA_VERSION THEN "look" ELSE "open"
           o == [opener[p] EXCEPT !.from = db.version, !.pc = place]
<1>0. SchemaTypeOK /\ Left(db) /\ Progress(p) /\ opener[p].pc = "version" /\ UNCHANGED <<db, faults>>
      /\ SCHEMA_VERSION = 4 /\ db.version \in Nat \cup {NoVersion} /\ NoVersion \notin Nat
    BY SchemaAssumption DEF SchemaInv, ReadVersion, SCHEMA_VERSION, SchemaTypeOK, Database
<1>1. /\ o \in OpenerState /\ opener' = [opener EXCEPT ![p] = o]
      /\ opener'[p].pc = place /\ opener'[p].from = db.version /\ opener'[p].at = opener[p].at
    BY <1>0 DEF ReadVersion, SchemaTypeOK, OpenerState, Opening
<1>4. o.pc \notin Rebuilding
    BY <1>0, <1>1 DEF Rebuilding, SchemaTypeOK, OpenerState
<1>5. Outside(p)
    BY <1>0, OutsideStays DEF ReadVersion, Rebuilding
<1> HIDE DEF o
<1>2. db.objects = AllObjects
    BY <1>0 DEF Progress
<1>3. Progress(p)'
    <2>1. CASE place \in {"stamp", "refused"}
        BY <1>0, <1>1, <1>2, <2>1 DEF Progress, Rebuilding
    <2>2. CASE place = "look"
        <3>1. db.version \in Nat /\ db.version < SCHEMA_VERSION
            BY <1>0, <2>2
        <3>2. opener'[p].pc = "look" /\ opener'[p].from = db.version /\ opener'[p].at = 1
            BY <1>0, <1>1, <2>2 DEF Progress
        <3> HIDE DEF place
        <3> QED
            BY <1>0, <1>2, <3>1, <3>2, SchemaFacts DEF Progress, Rebuilding
    <2>3. CASE place = "open"
        <3>1. db.version = SCHEMA_VERSION
            BY <1>0, <2>3
        <3>2. db.features = Feature
            <4>1. db.version \in Nat /\ db.version # NoVersion /\ db.features \subseteq Feature
                BY <1>0, <3>1 DEF SchemaTypeOK, Database
            <4>2. \A i \in 1 .. 3 : Upgrades[i].adds \in db.features
                BY <1>0, <3>1, <4>1, SchemaFacts, UpgradeFacts DEF Left
            <4>3. \A x \in Feature : x \in db.features
                BY <4>2, UpgradeFacts
            <4> QED
                BY <4>1, <4>3
        <3>3. opener'[p].pc = "open"
            BY <1>1, <2>3
        <3> HIDE DEF place
        <3> QED
            BY <1>0, <1>2, <3>1, <3>2, <3>3 DEF Progress, Rebuilding
    <2> QED
        BY <2>1, <2>2, <2>3
<1> QED
    BY <1>0, <1>1, <1>3, <1>4, <1>5, SchemaStays DEF SchemaTypeOK

LEMMA ReadFailsKeeps ==
    ASSUME SchemaInv, NEW p \in Proc, ReadVersionFails(p) PROVE SchemaInv'
<1>0. SchemaTypeOK /\ Progress(p) /\ opener[p].pc = "version" /\ UNCHANGED db /\ Goto(p, "stamp", 1) /\ faults' \in Nat
    BY DEF SchemaInv, ReadVersionFails, SchemaTypeOK
<1>1. /\ At(opener[p], "stamp", 1) \in OpenerState
      /\ opener' = [opener EXCEPT ![p] = At(opener[p], "stamp", 1)] /\ opener'[p].pc = "stamp"
      /\ At(opener[p], "stamp", 1).pc = "stamp"
    BY <1>0, GotoIs DEF Opening
<1>2. Progress(p)'
    BY <1>0, <1>1 DEF Progress, Rebuilding
<1>3. Outside(p)
    BY <1>0, OutsideStays DEF ReadVersionFails, Rebuilding
<1> QED
    BY <1>0, <1>1, <1>2, <1>3, SchemaStays DEF Rebuilding

\* A database with all objects and no version was created by this release, so it
\* has every feature when it is stamped.
LEMMA StampKeeps ==
    ASSUME SchemaInv, NEW p \in Proc, Stamp(p) PROVE SchemaInv'
<1>0. SchemaTypeOK /\ Left(db) /\ Progress(p) /\ opener[p].pc = "stamp" /\ UNCHANGED faults /\ SCHEMA_VERSION \in Nat
      /\ SCHEMA_VERSION # NoVersion
    BY SchemaAssumption DEF SchemaInv, Stamp, SCHEMA_VERSION
<1>3. Outside(p)
    BY <1>0, OutsideStays DEF Stamp, Rebuilding
<1>1. CASE db.version # NoVersion
    BY <1>0, <1>1, <1>3, SchemaIdles DEF Stamp, SchemaTypeOK
<1>2. CASE db.version = NoVersion
    <2>1. db' = [db EXCEPT !.version = SCHEMA_VERSION] /\ Goto(p, "open", 1)
        BY <1>2 DEF Stamp
    <2>2. Grows /\ db'.objects = db.objects /\ db'.features = db.features /\ db'.version = SCHEMA_VERSION
        BY <1>0, <2>1 DEF Grows, SchemaTypeOK, Database
    <2>3. db.objects = AllObjects
        BY <1>0 DEF Progress
    <2>4. db.features = Feature
        <3>1. Born("queries") \subseteq db.features /\ Born("daemon_stats") \subseteq db.features
            BY <1>0, <1>2, <2>3, SchemaFacts DEF Left
        <3> QED
            BY <1>0, <3>1, SchemaFacts DEF SchemaTypeOK, Database
    <2>5. Left(db')
        BY <1>0, <2>2, <2>4, SchemaFacts, UpgradeFacts DEF Left
    <2>6. /\ At(opener[p], "open", 1) \in OpenerState
          /\ opener' = [opener EXCEPT ![p] = At(opener[p], "open", 1)] /\ opener'[p].pc = "open"
          /\ At(opener[p], "open", 1).pc = "open"
        BY <1>0, <2>1, GotoIs DEF Opening
    <2>7. Progress(p)'
        BY <2>2, <2>3, <2>4, <2>6 DEF Progress, Rebuilding
    <2> QED
        BY <1>0, <1>3, <2>2, <2>5, <2>6, <2>7, SchemaOne DEF SchemaTypeOK, Rebuilding
<1> QED
    BY <1>1, <1>2

\* An upgrade that is made, or that is there already, or that the version stands for.
LEMMA UpgradeKeeps ==
    ASSUME SchemaInv, NEW p \in Proc, opener[p].pc \in {"look", "alter", "commit"}, NextUpgrade(p),
           UNCHANGED faults, Outside(p), Grows, Left(db'), db'.version = db.version, Upgrades[opener[p].at].adds \in db'.features
    PROVE  SchemaInv'
<1> DEFINE i == opener[p].at
<1>0. SchemaTypeOK /\ Progress(p)
    BY DEF SchemaInv
<1>1. /\ i \in 1 .. 3 /\ db.objects = AllObjects
      /\ opener[p].from \in Nat /\ opener[p].from < SCHEMA_VERSION
      /\ db.version \in Nat /\ opener[p].from <= db.version
      /\ \A j \in 1 .. i - 1 : Upgrades[j].adds \in db.features
    BY <1>0, SchemaFacts DEF Progress, Rebuilding
<1>2. \A j \in 1 .. i : Upgrades[j].adds \in db'.features
    BY <1>1 DEF Grows
<1>3. db'.objects = AllObjects
    BY <1>1 DEF Grows, Database, AllObjects
<1>4. CASE i < Len(Upgrades)
    <2>1. Goto(p, "look", i + 1)
        BY <1>4 DEF NextUpgrade
    <2>2. /\ At(opener[p], "look", i + 1) \in OpenerState
          /\ opener' = [opener EXCEPT ![p] = At(opener[p], "look", i + 1)]
          /\ opener'[p].pc = "look" /\ opener'[p].at = i + 1 /\ opener'[p].from = opener[p].from
          /\ At(opener[p], "look", i + 1).pc = "look"
        BY <1>0, <1>1, <2>1, GotoIs DEF Opening
    <2>3. i + 1 \in 1 .. Len(Upgrades) /\ \A j \in 1 .. (i + 1) - 1 : Upgrades[j].adds \in db'.features
        BY <1>1, <1>2, <1>4, SchemaFacts
    <2> HIDE DEF i
    <2>4. Progress(p)'
        BY <1>1, <1>3, <2>2, <2>3 DEF Progress, Rebuilding
    <2> QED
        BY <1>0, <2>2, <2>4, SchemaOne DEF SchemaTypeOK, Rebuilding
<1>5. CASE ~(i < Len(Upgrades))
    <2>1. Goto(p, "record", 1)
        BY <1>5 DEF NextUpgrade
    <2>2. /\ At(opener[p], "record", 1) \in OpenerState
          /\ opener' = [opener EXCEPT ![p] = At(opener[p], "record", 1)] /\ opener'[p].pc = "record"
          /\ At(opener[p], "record", 1).pc = "record"
        BY <1>0, <2>1, GotoIs DEF Opening
    <2>3. i = 3
        BY <1>1, <1>5, SchemaFacts
    <2>4. db'.features = Feature
        <3>1. \A j \in 1 .. 3 : Upgrades[j].adds \in db'.features
            BY <1>2, <2>3
        <3>2. Feature \subseteq db'.features
            BY <3>1, UpgradeFacts
        <3> QED
            BY <3>2 DEF Grows, Database
    <2>5. Progress(p)'
        BY <1>1, <1>3, <2>2, <2>4 DEF Progress, Rebuilding
    <2> QED
        BY <1>0, <2>2, <2>5, SchemaOne DEF SchemaTypeOK, Rebuilding
<1> QED
    BY <1>4, <1>5

LEMMA LookKeeps ==
    ASSUME SchemaInv, NEW p \in Proc, Look(p) PROVE SchemaInv'
<1> DEFINE i == opener[p].at
<1>0. SchemaTypeOK /\ Left(db) /\ Progress(p) /\ opener[p].pc = "look" /\ UNCHANGED <<db, faults>>
      /\ NoVersion \notin Nat
    BY SchemaAssumption DEF SchemaInv, Look
<1>6. Outside(p)
    BY <1>0, OutsideStays DEF Look, Rebuilding
<1>1. /\ i \in 1 .. 3 /\ db.objects = AllObjects
      /\ opener[p].from \in Nat /\ opener[p].from < SCHEMA_VERSION
      /\ db.version \in Nat /\ opener[p].from <= db.version
      /\ \A j \in 1 .. i - 1 : Upgrades[j].adds \in db.features
    BY <1>0, SchemaFacts DEF Progress
<1>2. Upgrades[i].to \in Nat
    BY <1>1, UpgradeFacts
<1>3. Grows /\ Left(db') /\ db'.version = db.version
    BY <1>0 DEF Grows, SchemaTypeOK
<1>4. CASE Goto(p, "alter", i)
    <2>1. /\ At(opener[p], "alter", i) \in OpenerState
          /\ opener' = [opener EXCEPT ![p] = At(opener[p], "alter", i)]
          /\ opener'[p].pc = "alter" /\ opener'[p].at = i /\ opener'[p].from = opener[p].from
          /\ At(opener[p], "alter", i).pc = "alter"
        BY <1>0, <1>1, <1>4, GotoIs DEF Opening
    <2> HIDE DEF i
    <2>2. i \in 1 .. Len(Upgrades) /\ UNCHANGED db
        BY <1>0, <1>1, SchemaFacts
    <2>3. Progress(p)'
        BY <1>1, <2>1, <2>2 DEF Progress, Rebuilding
    <2> QED
        BY <1>0, <1>6, <2>1, <2>3, SchemaStays DEF SchemaTypeOK, Rebuilding
<1>5. CASE ~Goto(p, "alter", i)
    <2>1. NextUpgrade(p) /\ (opener[p].from >= Upgrades[i].to \/ Upgrades[i].adds \in db.features)
        BY <1>5 DEF Look
    <2>2. Upgrades[i].adds \in db'.features
        <3>1. CASE opener[p].from >= Upgrades[i].to
            BY <1>0, <1>1, <1>2, <3>1, SchemaFacts DEF Left
        <3>2. CASE Upgrades[i].adds \in db.features
            BY <1>0, <3>2
        <3> QED
            BY <2>1, <3>1, <3>2
    <2> QED
        BY <1>0, <1>3, <1>6, <2>1, <2>2, UpgradeKeeps
<1> QED
    BY <1>4, <1>5

LEMMA AddColumnKeeps ==
    ASSUME SchemaInv, NEW p \in Proc, AddColumn(p) PROVE SchemaInv'
<1> DEFINE x == Upgrades[opener[p].at].adds
<1>0. SchemaTypeOK /\ Left(db) /\ Progress(p) /\ opener[p].pc = "alter" /\ UNCHANGED faults
    BY DEF SchemaInv, AddColumn
<1>1. x \in Feature
    BY <1>0, SchemaFacts, UpgradeFacts DEF Progress
<1>4. Outside(p)
    BY <1>0, OutsideStays DEF AddColumn, Rebuilding
<1>2. CASE Goto(p, "failed", 1) /\ UNCHANGED db
    BY <1>0, <1>2, <1>4, SchemaIdles DEF SchemaTypeOK
<1>3. CASE db' = [db EXCEPT !.features = @ \cup {x}] /\ NextUpgrade(p)
    <2>1. x \in Feature /\ db' = [db EXCEPT !.features = @ \cup {x}]
        BY <1>1, <1>3
    <2> HIDE DEF x
    <2>2. Grows /\ db'.features = db.features \cup {x} /\ db'.objects = db.objects /\ db'.version = db.version
        BY <1>0, <2>1 DEF Grows, SchemaTypeOK, Database
    <2>3. Left(db')
        BY <1>0, <2>2 DEF Left
    <2>4. x \in db'.features
        BY <2>2
    <2> QED
        BY <1>0, <1>3, <1>4, <2>2, <2>3, <2>4, UpgradeKeeps DEF x
<1> QED
    BY <1>2, <1>3 DEF AddColumn

LEMMA RebuildFacts ==
    /\ Born("queries") = {"rewritten"} /\ "rewritten" \in Feature
    /\ "queries" \in AllObjects /\ "idx_queries_ts" \in AllObjects
<1>1. Objects[2] = "queries" /\ Objects[3] = "idx_queries_ts"
    BY DEF Objects
<1> QED
    BY <1>1, SchemaFacts DEF Born, Feature

\* BEGIN, and the table is renamed in the copy.
LEMMA RenameKeeps ==
    ASSUME SchemaInv, NEW p \in Proc, Rename(p) PROVE SchemaInv'
<1> DEFINE i == opener[p].at
<1>0. /\ SchemaTypeOK /\ Left(db) /\ Progress(p) /\ opener[p].pc = "alter" /\ UNCHANGED <<db, faults>>
      /\ Unlocked /\ Upgrades[i].adds = "rewritten" /\ Goto(p, "make", i)
      /\ txn' = [by |-> p, db |-> Renamed(db), old |-> db.rows]
    BY DEF SchemaInv, Rename
<1>1. /\ i \in 1 .. Len(Upgrades) /\ db.objects = AllObjects
      /\ opener[p].from \in Nat /\ opener[p].from < SCHEMA_VERSION
      /\ db.version \in Nat /\ opener[p].from <= db.version
      /\ \A j \in 1 .. i - 1 : Upgrades[j].adds \in db.features
    BY <1>0 DEF Progress
<1>2. /\ At(opener[p], "make", i) \in OpenerState
      /\ opener' = [opener EXCEPT ![p] = At(opener[p], "make", i)]
      /\ opener'[p].pc = "make" /\ opener'[p].at = i /\ opener'[p].from = opener[p].from
    BY <1>0, <1>1, SchemaFacts, GotoIs DEF Opening, Rebuilding
<1>3. /\ Renamed(db) \in Database /\ Renamed(db).version = db.version /\ Renamed(db).rows = {}
      /\ Renamed(db).objects = AllObjects \ {"queries"} /\ Renamed(db).features = db.features \ {"rewritten"}
    BY <1>0, <1>1, RebuildFacts DEF Renamed, SchemaTypeOK, Database
<1>4. txn' \in Txn /\ txn'.by = p /\ txn'.db = Renamed(db) /\ txn'.old = db.rows
    BY <1>0, <1>3 DEF Txn, SchemaTypeOK, Database
<1>5. Alone(p)
    BY <1>0, <1>4 DEF Alone, Unlocked
<1> HIDE DEF i
<1>6. Progress(p)'
    BY <1>0, <1>1, <1>2 DEF Progress, Rebuilding
<1>7. Stage(p)'
    BY <1>0, <1>2, <1>3, <1>4 DEF Stage, Copy, Rebuilding
<1>8. Grows /\ Left(db')
    BY <1>0 DEF Grows, SchemaTypeOK, Left
<1> QED
    BY <1>0, <1>2, <1>4, <1>5, <1>6, <1>7, <1>8, SchemaInside DEF SchemaTypeOK

\* A statement of the transaction.
LEMMA StatementKeeps ==
    ASSUME SchemaInv, NEW p \in Proc, NEW place \in Rebuilding, NEW next \in Rebuilding,
           InTransaction(p, place, next), txn' \in Txn, txn'.by = txn.by,
           opener'[p].pc = next /\ opener'[p].at = opener[p].at => Stage(p)'
    PROVE  SchemaInv'
<1> DEFINE i == opener[p].at
<1>0. /\ SchemaTypeOK /\ Left(db) /\ Progress(p) /\ Stage(p) /\ opener[p].pc = place /\ UNCHANGED <<db, faults>>
      /\ Goto(p, next, i)
    BY DEF SchemaInv, InTransaction
<1>1. i \in 1 .. Len(Upgrades) /\ i \in Nat
    BY <1>0, SchemaFacts DEF Progress
<1>2. /\ At(opener[p], next, i) \in OpenerState
      /\ opener' = [opener EXCEPT ![p] = At(opener[p], next, i)]
      /\ opener'[p].pc = next /\ opener'[p].at = i /\ opener'[p].from = opener[p].from
    BY <1>0, <1>1, GotoIs, ZenonT(30) DEF Opening
<1>3. Stage(p)'
    BY <1>2
<1>4. Alone(p)
    BY <1>0 DEF Alone, Stage
<1> HIDE DEF i
<1>5. Progress(p)'
    BY <1>0, <1>2 DEF Progress, Rebuilding, i
<1>6. Grows /\ Left(db')
    BY <1>0 DEF Grows, SchemaTypeOK, Left
<1> QED
    BY <1>0, <1>2, <1>3, <1>4, <1>5, <1>6, SchemaInside DEF SchemaTypeOK

LEMMA CopyIs ==
    ASSUME SchemaInv, NEW p \in Proc, opener[p].pc \in Rebuilding
    PROVE  /\ Stage(p) /\ txn \in Txn /\ txn.db \in Database /\ txn.by = p /\ db \in Database
           /\ txn.db.version = db.version
           /\ Upgrades[opener[p].at].adds = "rewritten" /\ db.objects = AllObjects
BY DEF SchemaInv, SchemaTypeOK, Stage, Progress, Txn

\* The copy after each statement.
LEMMA RebuildKeeps ==
    ASSUME SchemaInv, NEW p \in Proc, MakeTable(p) \/ CopyRows(p) \/ DropTable(p) \/ MakeIndex(p)
    PROVE  SchemaInv'
<1>0. UNCHANGED db /\ opener[p].pc \in Rebuilding
    BY DEF MakeTable, CopyRows, DropTable, MakeIndex, InTransaction, Rebuilding
<1>00. /\ Stage(p) /\ txn \in Txn /\ txn.db \in Database /\ txn.by = p /\ db \in Database
       /\ txn.db.version = db.version
       /\ Upgrades[opener[p].at].adds = "rewritten" /\ db.objects = AllObjects
    BY <1>0, CopyIs
<1>1. CASE MakeTable(p)
    <2>1. InTransaction(p, "make", "copy") /\ opener[p].pc = "make"
        BY <1>1 DEF MakeTable, InTransaction
    <2>2. Copy("make", AllObjects \ {"queries"}, db.features \ {"rewritten"})
        BY <1>00, <2>1 DEF Stage
    <2> DEFINE d == Made(txn.db)
    <2>3. /\ d \in Database /\ d.objects = AllObjects /\ d.features = db.features \cup {"rewritten"}
          /\ d.version = db.version /\ d.rows = {}
        <3>1. /\ d.objects = txn.db.objects \cup {"queries"} /\ d.features = txn.db.features \cup {"rewritten"}
              /\ d.version = txn.db.version /\ d.rows = txn.db.rows
              /\ d.objects \subseteq AllObjects /\ d.features \subseteq Feature => d \in Database
            BY <1>00, RebuildFacts DEF Made, Database, AllObjects
        <3>2. /\ txn.db.objects = AllObjects \ {"queries"} /\ txn.db.features = db.features \ {"rewritten"}
              /\ txn.db.rows = {} /\ db.features \subseteq Feature
            BY <1>00, <2>2 DEF Copy, Database
        <3> HIDE DEF d
        <3>3. d.objects = AllObjects /\ d.features = db.features \cup {"rewritten"}
            BY <3>1, <3>2, RebuildFacts
        <3> QED
            BY <1>00, <3>1, <3>2, <3>3, RebuildFacts
    <2>4. txn' = [txn EXCEPT !.db = d]
        BY <1>1 DEF MakeTable
    <2> HIDE DEF d
    <2>5. txn' \in Txn /\ txn'.by = txn.by /\ txn'.db = d /\ txn'.old = txn.old
        BY <1>00, <2>3, <2>4 DEF Txn
    <2>6. ASSUME opener'[p].pc = "copy", opener'[p].at = opener[p].at PROVE Stage(p)'
        BY <1>0, <1>00, <2>2, <2>3, <2>5, <2>6 DEF Stage, Copy, Rebuilding
    <2> QED
        BY <2>1, <2>5, <2>6, StatementKeeps DEF Rebuilding
<1>2. CASE CopyRows(p)
    <2>1. InTransaction(p, "copy", "drop") /\ opener[p].pc = "copy"
        BY <1>2 DEF CopyRows, InTransaction
    <2>2. Copy("copy", AllObjects, db.features \cup {"rewritten"})
        BY <1>00, <2>1 DEF Stage
    <2> DEFINE d == Copied(txn.db, txn.old)
    <2>3. /\ d \in Database /\ d.objects = AllObjects /\ d.features = db.features \cup {"rewritten"}
          /\ d.version = db.version /\ d.rows = db.rows
        BY <1>00, <2>2 DEF Copy, Database, Copied
    <2>4. txn' = [txn EXCEPT !.db = d]
        BY <1>2 DEF CopyRows
    <2> HIDE DEF d
    <2>5. txn' \in Txn /\ txn'.by = txn.by /\ txn'.db = d /\ txn'.old = txn.old
        BY <1>00, <2>3, <2>4 DEF Txn
    <2>6. ASSUME opener'[p].pc = "drop", opener'[p].at = opener[p].at PROVE Stage(p)'
        BY <1>0, <1>00, <2>3, <2>5, <2>6 DEF Stage, Copy, Rebuilding
    <2> QED
        BY <2>1, <2>5, <2>6, StatementKeeps DEF Rebuilding
<1>3. CASE DropTable(p)
    <2>1. InTransaction(p, "drop", "index") /\ opener[p].pc = "drop"
        BY <1>3 DEF DropTable, InTransaction
    <2>2. Copy("drop", AllObjects, db.features \cup {"rewritten"})
        BY <1>00, <2>1 DEF Stage
    <2> DEFINE d == Dropped(txn.db)
    <2>3. /\ d \in Database /\ d.objects = AllObjects \ {"idx_queries_ts"} /\ d.features = db.features \cup {"rewritten"}
          /\ d.version = db.version /\ d.rows = db.rows
        BY <1>00, <2>2 DEF Copy, Database, Dropped
    <2>4. txn' = [txn EXCEPT !.db = d, !.old = {}]
        BY <1>3 DEF DropTable
    <2> HIDE DEF d
    <2>5. txn' \in Txn /\ txn'.by = txn.by /\ txn'.db = d
        BY <1>00, <2>3, <2>4 DEF Txn
    <2>6. ASSUME opener'[p].pc = "index", opener'[p].at = opener[p].at PROVE Stage(p)'
        BY <1>0, <1>00, <2>3, <2>5, <2>6 DEF Stage, Copy, Rebuilding
    <2> QED
        BY <2>1, <2>5, <2>6, StatementKeeps DEF Rebuilding
<1>4. CASE MakeIndex(p)
    <2>1. InTransaction(p, "index", "commit") /\ opener[p].pc = "index"
        BY <1>4 DEF MakeIndex, InTransaction
    <2>2. Copy("index", AllObjects \ {"idx_queries_ts"}, db.features \cup {"rewritten"})
        BY <1>00, <2>1 DEF Stage
    <2> DEFINE d == Indexed(txn.db)
    <2>3. /\ d \in Database /\ d.objects = AllObjects /\ d.features = db.features \cup {"rewritten"}
          /\ d.version = db.version /\ d.rows = db.rows
        <3>1. /\ d.objects = txn.db.objects \cup {"idx_queries_ts"} /\ d.features = txn.db.features
              /\ d.version = txn.db.version /\ d.rows = txn.db.rows
              /\ d.objects \subseteq AllObjects => d \in Database
            BY <1>00 DEF Indexed, Database, AllObjects
        <3>2. /\ txn.db.objects = AllObjects \ {"idx_queries_ts"} /\ txn.db.features = db.features \cup {"rewritten"}
              /\ txn.db.rows = db.rows
            BY <2>2 DEF Copy
        <3> HIDE DEF d
        <3>3. d.objects = AllObjects
            BY <3>1, <3>2, RebuildFacts
        <3> QED
            BY <1>00, <3>1, <3>2, <3>3
    <2>4. txn' = [txn EXCEPT !.db = d]
        BY <1>4 DEF MakeIndex
    <2> HIDE DEF d
    <2>5. txn' \in Txn /\ txn'.by = txn.by /\ txn'.db = d
        BY <1>00, <2>3, <2>4 DEF Txn
    <2>6. ASSUME opener'[p].pc = "commit", opener'[p].at = opener[p].at PROVE Stage(p)'
        BY <1>0, <1>00, <2>3, <2>5, <2>6 DEF Stage, Copy, Rebuilding
    <2> QED
        BY <2>1, <2>5, <2>6, StatementKeeps DEF Rebuilding
<1> QED
    BY <1>1, <1>2, <1>3, <1>4

\* What is committed is the database with the upgrade and all of its rows.
LEMMA CommitIs ==
    ASSUME SchemaInv, NEW p \in Proc, Commit(p)
    PROVE  /\ db' \in Database /\ db'.objects = db.objects /\ db'.version = db.version
           /\ db'.features = db.features \cup {"rewritten"} /\ db'.rows = db.rows
<1>1. opener[p].pc = "commit" /\ db' = txn.db
    BY DEF Commit
<1>2. Stage(p) /\ txn.db \in Database /\ txn.db.version = db.version /\ db.objects = AllObjects
    BY <1>1, CopyIs DEF Rebuilding
<1>3. Copy("commit", AllObjects, db.features \cup {"rewritten"})
    BY <1>1, <1>2 DEF Stage
<1> QED
    BY <1>1, <1>2, <1>3 DEF Copy

LEMMA CommitKeeps ==
    ASSUME SchemaInv, NEW p \in Proc, Commit(p) PROVE SchemaInv'
<1>0. opener[p].pc = "commit" /\ NextUpgrade(p) /\ UNCHANGED faults /\ txn' = NoTransaction /\ Left(db)
    BY DEF Commit, SchemaInv
<1>1. /\ db' \in Database /\ db'.objects = db.objects /\ db'.version = db.version
      /\ db'.features = db.features \cup {"rewritten"}
    BY CommitIs
<1>2. txn.by = p /\ Upgrades[opener[p].at].adds = "rewritten"
    BY <1>0, CopyIs DEF Rebuilding
<1>3. NoTransaction \in Txn /\ NoTransaction.by = Nobody /\ Nobody # p
    BY SchemaAssumption DEF NoTransaction, Txn, NoDatabase, Database
<1>4. Outside(p)
    BY <1>0, <1>2, <1>3 DEF Outside, Alone
<1>5. Grows
    BY <1>1 DEF Grows
<1>6. Left(db')
    BY <1>0, <1>1 DEF Left
<1> QED
    BY <1>0, <1>1, <1>2, <1>4, <1>5, <1>6, UpgradeKeeps

LEMMA RecordKeeps ==
    ASSUME SchemaInv, NEW p \in Proc, RecordVersion(p) PROVE SchemaInv'
<1>0. SchemaTypeOK /\ Left(db) /\ Progress(p) /\ opener[p].pc = "record" /\ UNCHANGED faults /\ SCHEMA_VERSION \in Nat
      /\ db' = [db EXCEPT !.version = SCHEMA_VERSION] /\ Goto(p, "open", 1) /\ SCHEMA_VERSION # NoVersion
    BY SchemaAssumption DEF SchemaInv, RecordVersion, SCHEMA_VERSION
<1>1. Grows /\ db'.objects = db.objects /\ db'.features = db.features /\ db'.version = SCHEMA_VERSION
    BY <1>0 DEF Grows, SchemaTypeOK, Database
<1>2. db.objects = AllObjects /\ db.features = Feature
    BY <1>0 DEF Progress
<1>3. Left(db')
    BY <1>0, <1>1, <1>2, SchemaFacts, UpgradeFacts DEF Left
<1>4. /\ At(opener[p], "open", 1) \in OpenerState
      /\ opener' = [opener EXCEPT ![p] = At(opener[p], "open", 1)] /\ opener'[p].pc = "open"
      /\ At(opener[p], "open", 1).pc = "open"
    BY <1>0, GotoIs DEF Opening
<1>5. Progress(p)'
    BY <1>1, <1>2, <1>4 DEF Progress, Rebuilding
<1>6. Outside(p)
    BY <1>0, OutsideStays DEF RecordVersion, Rebuilding
<1> QED
    BY <1>0, <1>1, <1>3, <1>4, <1>5, <1>6, SchemaOne DEF SchemaTypeOK, Rebuilding

LEMMA EndsKeeps ==
    ASSUME SchemaInv, NEW p \in Proc, Ends(p), UNCHANGED db, faults' \in Nat PROVE SchemaInv'
<1>1. Closed \in OpenerState /\ opener' = [opener EXCEPT ![p] = Closed] /\ Closed.pc \notin Rebuilding
    BY DEF Ends, Closed, OpenerState, Rebuilding
<1>2. opener'[p].pc = "closed"
    BY <1>1 DEF SchemaInv, SchemaTypeOK, Closed
<1>3. Progress(p)'
    BY <1>2 DEF Progress, Rebuilding
<1>4. Outside(p)
    BY OutsideRollback DEF Ends
<1> QED
    BY <1>1, <1>3, <1>4, SchemaStays

\* Rows come and go outside of any transaction.
LEMMA RowsKeep ==
    ASSUME SchemaInv, NEW rows \in SUBSET Row, db' = [db EXCEPT !.rows = rows], Unlocked,
           UNCHANGED <<txn, opener, faults>>
    PROVE  SchemaInv'
<1>0. SchemaTypeOK /\ Left(db)
    BY DEF SchemaInv
<1>1. Grows /\ db'.objects = db.objects /\ db'.features = db.features /\ db'.version = db.version
    BY <1>0 DEF Grows, SchemaTypeOK, Database
<1>2. Left(db')
    BY <1>0, <1>1 DEF Left
<1>3. \A q \in Proc : Progress(q)'
    BY <1>0, <1>1, ProgressKept DEF SchemaInv
<1>4. ASSUME NEW q \in Proc PROVE Stage(q)'
    <2>1. txn'.by # q /\ opener'[q].pc \notin Rebuilding
        BY SchemaAssumption DEF SchemaInv, Stage, Unlocked
    <2> QED
        BY <2>1 DEF Stage, Rebuilding
<1> QED
    BY <1>0, <1>1, <1>2, <1>3, <1>4 DEF SchemaInv, SchemaTypeOK, Grows, Left

LEMMA LogKeeps ==
    ASSUME SchemaInv, NEW p \in Proc, (\E row \in Row : LogRow(p, row)) \/ Sweep(p) PROVE SchemaInv'
<1>1. db.rows \subseteq Row
    BY DEF SchemaInv, SchemaTypeOK, Database
<1>2. CASE Sweep(p)
    <2>1. db.rows \ Expired \in SUBSET Row /\ db' = [db EXCEPT !.rows = db.rows \ Expired]
        BY <1>1, <1>2 DEF Sweep
    <2> QED
        BY <1>2, <2>1, RowsKeep DEF Sweep
<1>3. ASSUME NEW row \in Row, LogRow(p, row) PROVE SchemaInv'
    <2>1. db.rows \cup {row} \in SUBSET Row /\ db' = [db EXCEPT !.rows = db.rows \cup {row}]
        BY <1>1, <1>3 DEF LogRow
    <2> QED
        BY <1>3, <2>1, RowsKeep DEF LogRow
<1> QED
    BY <1>2, <1>3

LEMMA SchemaStep == SchemaInv /\ [SchemaNext]_schemaVars => SchemaInv'
<1> SUFFICES ASSUME SchemaInv, [SchemaNext]_schemaVars PROVE SchemaInv'
    OBVIOUS
<1>1. ASSUME NEW p \in Proc, OpenStep(p) PROVE SchemaInv'
    BY <1>1, OpenKeeps, CreateKeeps, ReadKeeps, StampKeeps, LookKeeps, AddColumnKeeps, RecordKeeps,
       RenameKeeps, RebuildKeeps, CommitKeeps DEF OpenStep
<1>2. ASSUME NEW p \in Proc, OpenFault(p) PROVE SchemaInv'
    <2>1. CASE StatementFails(p)
        <3>1. faults' \in Nat /\ UNCHANGED db /\ Goto(p, "failed", 1)
            BY <2>1 DEF StatementFails, SchemaInv, SchemaTypeOK
        <3>2. Outside(p)
            BY <2>1, OutsideRollback DEF StatementFails
        <3> QED
            BY <3>1, <3>2, SchemaIdles
    <2> QED
        BY <1>2, <2>1, ReadFailsKeeps DEF OpenFault
<1>3. ASSUME NEW p \in Proc, Dies(p) \/ Exits(p) PROVE SchemaInv'
    <2>1. Ends(p) /\ UNCHANGED db /\ faults' \in Nat
        BY <1>3 DEF Dies, Exits, SchemaInv, SchemaTypeOK
    <2> QED
        BY <2>1, EndsKeeps
<1>4. ASSUME NEW p \in Proc, (\E row \in Row \ Expired : LogRow(p, row)) \/ Sweep(p) PROVE SchemaInv'
    BY <1>4, LogKeeps
<1>5. CASE UNCHANGED schemaVars
    BY <1>5 DEF schemaVars, SchemaInv, SchemaTypeOK, Left, Progress, Stage, Copy
<1> QED
    BY <1>1, <1>2, <1>3, <1>4, <1>5 DEF SchemaNext

\* A process that got its database open has all of the current schema under it,
\* however many processes create and upgrade it at once and wherever they die
\* (db.rs: create_schema, ensure_schema_version, migrate_schema).
THEOREM OpenedSchemaIsCurrent == SchemaSpec => []OpenedIsCurrent
<1>1. SchemaInv => OpenedIsCurrent
    BY DEF SchemaInv, Progress, OpenedIsCurrent, Current, AllObjects
<1> QED
    BY <1>1, SchemaInitInv, SchemaStep, PTL DEF SchemaSpec

\* What a step does to the rows that others can see.
RowsStep == db.rows \ db'.rows \subseteq Expired /\ db'.rows \cap Expired \subseteq db.rows

LEMMA SchemaKeepsRows == SchemaInv /\ [SchemaNext]_schemaVars => [RowsStep]_db
<1> SUFFICES ASSUME SchemaInv, [SchemaNext]_schemaVars, db' # db PROVE RowsStep
    OBVIOUS
<1>0. db \in Database
    BY DEF SchemaInv, SchemaTypeOK
<1>1. ASSUME db'.rows = db.rows PROVE RowsStep
    BY <1>1 DEF RowsStep
<1>2. ASSUME NEW p \in Proc, OpenStep(p) PROVE db'.rows = db.rows
    <2>1. CASE Commit(p)
        BY <2>1, CommitIs
    <2>2. CASE CreateObject(p) \/ Stamp(p) \/ AddColumn(p) \/ RecordVersion(p)
        BY <1>0, <2>2 DEF CreateObject, Stamp, AddColumn, RecordVersion, Database
    <2> QED
        BY <1>2, <2>1, <2>2 DEF OpenStep, Open, ReadVersion, Look, Rename, MakeTable, CopyRows, DropTable,
                                MakeIndex, InTransaction
<1>3. ASSUME NEW p \in Proc, NEW row \in Row \ Expired, LogRow(p, row) PROVE RowsStep
    BY <1>0, <1>3 DEF LogRow, Database, RowsStep
<1>4. ASSUME NEW p \in Proc, Sweep(p) PROVE RowsStep
    BY <1>0, <1>4 DEF Sweep, Database, RowsStep
<1> QED
    BY <1>1, <1>2, <1>3, <1>4 DEF SchemaNext, schemaVars, OpenFault, ReadVersionFails, StatementFails, Dies, Exits

\* For any number of processes and wherever they fail or die, the rebuild's own
\* statements and commit give the table back with every row it had, and rows go
\* only by the sweep (db.rs: migrate_schema, "keeping every row and id";
\* retention_sweep).  It rests on the copy's contents after each statement and on
\* nobody writing while a transaction is open (Stage).
THEOREM NoRowIsLost == SchemaSpec => RowsKept
BY SchemaKeepsRows, SchemaInitInv, SchemaStep, PTL DEF SchemaSpec, RowsKept, RowsStep

(***************************************************************************)
(* What the recursive definitions compute.  Inductions are by a least      *)
(* counterexample.                                                         *)
(***************************************************************************)

\* Every non-empty set of numbers has a least one.
LEMMA LeastNat ==
    ASSUME NEW T \in SUBSET Nat, T # {}
    PROVE  \E x \in T : \A y \in T : x <= y
<1>1. OpToRel(<, Nat) = {ss \in Nat \X Nat : ss[1] < ss[2]}
    BY Zenon DEF OpToRel
<1>2. \A a, b \in Nat : <<a, b>> \in {ss \in Nat \X Nat : ss[1] < ss[2]} <=> a < b
    OBVIOUS
<1>3. T \subseteq Nat
    OBVIOUS
<1>4. PICK x \in T : \A y \in T : ~(<<y, x>> \in OpToRel(<, Nat))
    BY <1>3, NatLessThanWellFounded, WFMin, Zenon
<1>5. \A y \in T : ~(y < x)
    BY <1>1, <1>2, <1>3, <1>4, Zenon
<1> QED
    BY <1>5, <1>3

\* A set of numbers with 0 and, up to L, every successor holds 0 .. L.
LEMMA UpTo ==
    ASSUME NEW L \in Nat, NEW P, 0 \in P, \A n \in 1 .. L : n - 1 \in P => n \in P
    PROVE  0 .. L \subseteq P
<1> DEFINE T == (0 .. L) \ P
<1> SUFFICES ASSUME T # {} PROVE FALSE
    OBVIOUS
<1>0. T \in SUBSET Nat
    OBVIOUS
<1>1. PICK x \in T : \A y \in T : x <= y
    <2> HIDE DEF T
    <2> QED
        BY <1>0, LeastNat
<1>2. x \in 1 .. L /\ x - 1 \in 0 .. L
    BY <1>1
<1>3. x - 1 \in P
    BY <1>1, <1>2
<1> QED
    BY <1>1, <1>2, <1>3

KeptOne(s, S, f, n) ==
    IF n = 0 THEN <<>> ELSE IF s[n] \in S THEN Append(f[n - 1], s[n]) ELSE f[n - 1]

\* The recursions define functions.
LEMMA KeptOfRec ==
    ASSUME NEW s, NEW S, Len(s) \in Nat
    PROVE  KeptOf(s, S) = [n \in 0 .. Len(s) |-> KeptOne(s, S, KeptOf(s, S), n)]
<1> DEFINE P == {n \in 0 .. Len(s) : \E f : f = [m \in 0 .. n |-> KeptOne(s, S, f, m)]}
<1>1. 0 \in P
    <2>1. [m \in 0 .. 0 |-> KeptOne(s, S, <<>>, 0)]
             = [m \in 0 .. 0 |-> KeptOne(s, S, [k \in 0 .. 0 |-> KeptOne(s, S, <<>>, 0)], m)]
        BY DEF KeptOne
    <2> QED
        BY <2>1
<1>2. ASSUME NEW n \in 1 .. Len(s), n - 1 \in P PROVE n \in P
    <2>1. PICK f : f = [m \in 0 .. n - 1 |-> KeptOne(s, S, f, m)]
        BY <1>2
    <2> DEFINE g == [m \in 0 .. n |-> IF m = n THEN KeptOne(s, S, f, n) ELSE f[m]]
    <2>2. ASSUME NEW m \in 0 .. n PROVE g[m] = KeptOne(s, S, g, m)
        <3>1. m = 0 \/ (m - 1 \in 0 .. n - 1 /\ g[m - 1] = f[m - 1])
            OBVIOUS
        <3>2. KeptOne(s, S, g, m) = KeptOne(s, S, f, m)
            BY <3>1 DEF KeptOne
        <3> QED
            BY <2>1, <3>2
    <2>3. g = [m \in 0 .. n |-> KeptOne(s, S, g, m)]
        BY <2>2
    <2>4. n \in 0 .. Len(s)
        OBVIOUS
    <2>5. \E h : h = [m \in 0 .. n |-> KeptOne(s, S, h, m)]
        <3> HIDE DEF g
        <3> QED
            BY <2>3
    <2> QED
        BY <2>4, <2>5
<1>3. Len(s) \in P
    <2> HIDE DEF P
    <2>1. 0 .. Len(s) \subseteq P
        BY <1>1, <1>2, UpTo, Zenon
    <2> QED
        BY <2>1
<1>4. \E f : f = [n \in 0 .. Len(s) |-> KeptOne(s, S, f, n)]
    BY <1>3
<1> QED
    BY <1>4 DEF KeptOf, KeptOne

LEMMA KeptOfSteps ==
    ASSUME NEW s, NEW S, Len(s) \in Nat
    PROVE  /\ KeptOf(s, S)[0] = KeptOne(s, S, KeptOf(s, S), 0)
           /\ \A n \in 1 .. Len(s) : KeptOf(s, S)[n] = KeptOne(s, S, KeptOf(s, S), n)
<1>1. \A n \in 0 .. Len(s) : KeptOf(s, S)[n] = KeptOne(s, S, KeptOf(s, S), n)
    BY KeptOfRec
<1> QED
    BY <1>1

OverriddenOne(c, f, n) ==
    IF n = 0 THEN ProfileLists(c.profile) ELSE OverrideOrAdd(f[n - 1], c.lists[n])

\* How the overrides step.
LEMMA OverriddenRec ==
    ASSUME NEW c, Len(c.lists) \in Nat
    PROVE  Overridden(c) = [n \in 0 .. Len(c.lists) |-> OverriddenOne(c, Overridden(c), n)]
<1> DEFINE P == {n \in 0 .. Len(c.lists) : \E f : f = [m \in 0 .. n |-> OverriddenOne(c, f, m)]}
<1>1. 0 \in P
    <2>1. [m \in 0 .. 0 |-> OverriddenOne(c, <<>>, 0)]
             = [m \in 0 .. 0 |-> OverriddenOne(c, [k \in 0 .. 0 |-> OverriddenOne(c, <<>>, 0)], m)]
        BY DEF OverriddenOne
    <2> QED
        BY <2>1
<1>2. ASSUME NEW n \in 1 .. Len(c.lists), n - 1 \in P PROVE n \in P
    <2>1. PICK f : f = [m \in 0 .. n - 1 |-> OverriddenOne(c, f, m)]
        BY <1>2
    <2> DEFINE g == [m \in 0 .. n |-> IF m = n THEN OverriddenOne(c, f, n) ELSE f[m]]
    <2>2. ASSUME NEW m \in 0 .. n PROVE g[m] = OverriddenOne(c, g, m)
        <3>1. m = 0 \/ (m - 1 \in 0 .. n - 1 /\ g[m - 1] = f[m - 1])
            OBVIOUS
        <3>2. OverriddenOne(c, g, m) = OverriddenOne(c, f, m)
            BY <3>1 DEF OverriddenOne
        <3> QED
            BY <2>1, <3>2
    <2>3. g = [m \in 0 .. n |-> OverriddenOne(c, g, m)]
        BY <2>2
    <2>4. n \in 0 .. Len(c.lists)
        OBVIOUS
    <2>5. \E h : h = [m \in 0 .. n |-> OverriddenOne(c, h, m)]
        <3> HIDE DEF g
        <3> QED
            BY <2>3
    <2> QED
        BY <2>4, <2>5
<1>3. Len(c.lists) \in P
    <2> HIDE DEF P
    <2>1. 0 .. Len(c.lists) \subseteq P
        BY <1>1, <1>2, UpTo, Zenon
    <2> QED
        BY <2>1
<1>4. \E f : f = [n \in 0 .. Len(c.lists) |-> OverriddenOne(c, f, n)]
    BY <1>3
<1> QED
    BY <1>4 DEF Overridden, OverriddenOne

LEMMA OverriddenSteps ==
    ASSUME NEW c, Len(c.lists) \in Nat
    PROVE  /\ Overridden(c)[0] = OverriddenOne(c, Overridden(c), 0)
           /\ \A n \in 1 .. Len(c.lists) : Overridden(c)[n] = OverriddenOne(c, Overridden(c), n)
<1>1. \A n \in 0 .. Len(c.lists) : Overridden(c)[n] = OverriddenOne(c, Overridden(c), n)
    BY OverriddenRec
<1> QED
    BY <1>1

NamedOne(filters, f, n) ==
    IF n = 0 THEN [used |-> Reserved, lists |-> <<>>, warnings |-> {}]
    ELSE AddFilter(f[n - 1], n, filters[n])

\* How names are given out.
LEMMA NamedOfRec ==
    ASSUME NEW filters, Len(filters) \in Nat
    PROVE  NamedOf(filters) = [n \in 0 .. Len(filters) |-> NamedOne(filters, NamedOf(filters), n)]
<1> DEFINE P == {n \in 0 .. Len(filters) : \E f : f = [m \in 0 .. n |-> NamedOne(filters, f, m)]}
<1>1. 0 \in P
    <2>1. [m \in 0 .. 0 |-> NamedOne(filters, <<>>, 0)]
             = [m \in 0 .. 0 |-> NamedOne(filters, [k \in 0 .. 0 |-> NamedOne(filters, <<>>, 0)], m)]
        BY DEF NamedOne
    <2> QED
        BY <2>1
<1>2. ASSUME NEW n \in 1 .. Len(filters), n - 1 \in P PROVE n \in P
    <2>1. PICK f : f = [m \in 0 .. n - 1 |-> NamedOne(filters, f, m)]
        BY <1>2
    <2> DEFINE g == [m \in 0 .. n |-> IF m = n THEN NamedOne(filters, f, n) ELSE f[m]]
    <2>2. ASSUME NEW m \in 0 .. n PROVE g[m] = NamedOne(filters, g, m)
        <3>1. m = 0 \/ (m - 1 \in 0 .. n - 1 /\ g[m - 1] = f[m - 1])
            OBVIOUS
        <3>2. NamedOne(filters, g, m) = NamedOne(filters, f, m)
            BY <3>1 DEF NamedOne
        <3> QED
            BY <2>1, <3>2
    <2>3. g = [m \in 0 .. n |-> NamedOne(filters, g, m)]
        BY <2>2
    <2>4. n \in 0 .. Len(filters)
        OBVIOUS
    <2>5. \E h : h = [m \in 0 .. n |-> NamedOne(filters, h, m)]
        <3> HIDE DEF g
        <3> QED
            BY <2>3
    <2> QED
        BY <2>4, <2>5
<1>3. Len(filters) \in P
    <2> HIDE DEF P
    <2>1. 0 .. Len(filters) \subseteq P
        BY <1>1, <1>2, UpTo, Zenon
    <2> QED
        BY <2>1
<1>4. \E f : f = [n \in 0 .. Len(filters) |-> NamedOne(filters, f, n)]
    BY <1>3
<1> QED
    BY <1>4 DEF NamedOf, NamedOne

LEMMA NamedOfSteps ==
    ASSUME NEW filters, Len(filters) \in Nat
    PROVE  /\ NamedOf(filters)[0] = NamedOne(filters, NamedOf(filters), 0)
           /\ \A n \in 1 .. Len(filters) : NamedOf(filters)[n] = NamedOne(filters, NamedOf(filters), n)
<1>1. \A n \in 0 .. Len(filters) : NamedOf(filters)[n] = NamedOne(filters, NamedOf(filters), n)
    BY NamedOfRec
<1> QED
    BY <1>1

BindsOne(hosts, f, n) ==
    IF n = 0 THEN <<>>
    ELSE f[n - 1] \o Keep(Both(hosts[n]), ToSet(Both(hosts[n])) \ ToSet(f[n - 1]))

\* How the binds are collected.
LEMMA BindsOfRec ==
    ASSUME NEW hosts, Len(hosts) \in Nat
    PROVE  BindsOf(hosts) = [n \in 0 .. Len(hosts) |-> BindsOne(hosts, BindsOf(hosts), n)]
<1> DEFINE P == {n \in 0 .. Len(hosts) : \E f : f = [m \in 0 .. n |-> BindsOne(hosts, f, m)]}
<1>1. 0 \in P
    <2>1. [m \in 0 .. 0 |-> BindsOne(hosts, <<>>, 0)]
             = [m \in 0 .. 0 |-> BindsOne(hosts, [k \in 0 .. 0 |-> BindsOne(hosts, <<>>, 0)], m)]
        BY DEF BindsOne
    <2> QED
        BY <2>1
<1>2. ASSUME NEW n \in 1 .. Len(hosts), n - 1 \in P PROVE n \in P
    <2>1. PICK f : f = [m \in 0 .. n - 1 |-> BindsOne(hosts, f, m)]
        BY <1>2
    <2> DEFINE g == [m \in 0 .. n |-> IF m = n THEN BindsOne(hosts, f, n) ELSE f[m]]
    <2>2. ASSUME NEW m \in 0 .. n PROVE g[m] = BindsOne(hosts, g, m)
        <3>1. m = 0 \/ (m - 1 \in 0 .. n - 1 /\ g[m - 1] = f[m - 1])
            OBVIOUS
        <3>2. BindsOne(hosts, g, m) = BindsOne(hosts, f, m)
            BY <3>1 DEF BindsOne
        <3> QED
            BY <2>1, <3>2
    <2>3. g = [m \in 0 .. n |-> BindsOne(hosts, g, m)]
        BY <2>2
    <2>4. n \in 0 .. Len(hosts)
        OBVIOUS
    <2>5. \E h : h = [m \in 0 .. n |-> BindsOne(hosts, h, m)]
        <3> HIDE DEF g
        <3> QED
            BY <2>3
    <2> QED
        BY <2>4, <2>5
<1>3. Len(hosts) \in P
    <2> HIDE DEF P
    <2>1. 0 .. Len(hosts) \subseteq P
        BY <1>1, <1>2, UpTo, Zenon
    <2> QED
        BY <2>1
<1>4. \E f : f = [n \in 0 .. Len(hosts) |-> BindsOne(hosts, f, n)]
    BY <1>3
<1> QED
    BY <1>4 DEF BindsOf, BindsOne

LEMMA BindsOfSteps ==
    ASSUME NEW hosts, Len(hosts) \in Nat
    PROVE  /\ BindsOf(hosts)[0] = BindsOne(hosts, BindsOf(hosts), 0)
           /\ \A n \in 1 .. Len(hosts) : BindsOf(hosts)[n] = BindsOne(hosts, BindsOf(hosts), n)
<1>1. \A n \in 0 .. Len(hosts) : BindsOf(hosts)[n] = BindsOne(hosts, BindsOf(hosts), n)
    BY BindsOfRec
<1> QED
    BY <1>1

(***************************************************************************)
(* Sequences and the sets of their elements.                               *)
(***************************************************************************)

LEMMA ElementsOf ==
    ASSUME NEW T, NEW s \in Seq(T)
    PROVE  /\ Len(s) \in Nat
           /\ ToSet(s) = {s[i] : i \in 1 .. Len(s)}
           /\ \A i \in 1 .. Len(s) : s[i] \in T
           /\ ToSet(s) \subseteq T
           /\ ToSet(s) = {} <=> s = <<>>
<1>1. Len(s) \in Nat /\ DOMAIN s = 1 .. Len(s) /\ \A i \in 1 .. Len(s) : s[i] \in T
    BY LenProperties, ElementOfSeq
<1>2. ToSet(s) = {s[i] : i \in 1 .. Len(s)}
    BY <1>1 DEF ToSet
<1>3. s = <<>> => ToSet(s) = {}
    BY <1>2
<1>4. ASSUME s # <<>> PROVE ToSet(s) # {}
    <2>1. 1 \in 1 .. Len(s)
        BY <1>1, <1>4, EmptySeq
    <2> QED
        BY <1>2, <2>1
<1> QED
    BY <1>1, <1>2, <1>3, <1>4

LEMMA ElementsAppend ==
    ASSUME NEW T, NEW s \in Seq(T), NEW x \in T
    PROVE  /\ Append(s, x) \in Seq(T) /\ Len(Append(s, x)) = Len(s) + 1
           /\ \A i \in 1 .. Len(s) : Append(s, x)[i] = s[i]
           /\ Append(s, x)[Len(s) + 1] = x
           /\ ToSet(Append(s, x)) = ToSet(s) \cup {x}
<1>1. /\ Append(s, x) \in Seq(T) /\ Len(Append(s, x)) = Len(s) + 1
      /\ \A i \in 1 .. Len(s) : Append(s, x)[i] = s[i]
      /\ Append(s, x)[Len(s) + 1] = x
    BY AppendProperties
<1> DEFINE a == Append(s, x)
<1>2. ToSet(a) = {a[i] : i \in 1 .. Len(a)} /\ ToSet(s) = {s[i] : i \in 1 .. Len(s)} /\ Len(s) \in Nat
    BY <1>1, ElementsOf
<1> HIDE DEF a
<1>3. ToSet(a) = ToSet(s) \cup {x}
    BY <1>1, <1>2 DEF a
<1> QED
    BY <1>1, <1>3 DEF a

LEMMA ElementsConcat ==
    ASSUME NEW T, NEW s \in Seq(T), NEW t \in Seq(T)
    PROVE  /\ s \o t \in Seq(T) /\ Len(s \o t) = Len(s) + Len(t)
           /\ \A i \in 1 .. Len(s) : (s \o t)[i] = s[i]
           /\ \A i \in 1 .. Len(t) : (s \o t)[Len(s) + i] = t[i]
           /\ ToSet(s \o t) = ToSet(s) \cup ToSet(t)
<1>0. Len(s) \in Nat /\ Len(t) \in Nat
    BY LenProperties
<1>1. /\ s \o t \in Seq(T) /\ Len(s \o t) = Len(s) + Len(t)
      /\ \A i \in 1 .. Len(s) : (s \o t)[i] = s[i]
      /\ \A i \in 1 .. Len(t) : (s \o t)[Len(s) + i] = t[i]
    BY <1>0, ConcatProperties
<1> DEFINE c == s \o t
<1>2. /\ ToSet(c) = {c[i] : i \in 1 .. Len(c)} /\ ToSet(s) = {s[i] : i \in 1 .. Len(s)}
      /\ ToSet(t) = {t[i] : i \in 1 .. Len(t)}
    BY <1>1, ElementsOf
<1>c. c \in Seq(T) /\ Len(c) = Len(s) + Len(t) /\ (\A i \in 1 .. Len(s) : c[i] = s[i])
      /\ \A i \in 1 .. Len(t) : c[Len(s) + i] = t[i]
    BY <1>1
<1> HIDE DEF c
<1>3. ASSUME NEW i \in 1 .. Len(c) PROVE c[i] \in ToSet(s) \cup ToSet(t)
    <2>1. CASE i \in 1 .. Len(s)
        BY <2>1, <1>c, <1>2
    <2>2. CASE i \notin 1 .. Len(s)
        <3>1. i - Len(s) \in 1 .. Len(t) /\ i = Len(s) + (i - Len(s))
            BY <2>2, <1>c, <1>0
        <3>2. c[i] = t[i - Len(s)]
            BY <3>1, <1>c
        <3> QED
            BY <3>1, <3>2, <1>2
    <2> QED
        BY <2>1, <2>2
<1>4. ASSUME NEW i \in 1 .. Len(s) PROVE s[i] \in ToSet(c)
    <2>1. i \in 1 .. Len(c) /\ c[i] = s[i]
        BY <1>c, <1>0
    <2> QED
        BY <2>1, <1>2
<1>5. ASSUME NEW i \in 1 .. Len(t) PROVE t[i] \in ToSet(c)
    <2>1. Len(s) + i \in 1 .. Len(c) /\ c[Len(s) + i] = t[i]
        BY <1>c, <1>0
    <2> QED
        BY <2>1, <1>2
<1>6. ToSet(c) = ToSet(s) \cup ToSet(t)
    BY <1>2, <1>3, <1>4, <1>5
<1> QED
    BY <1>1, <1>6 DEF c

\* Keep takes the elements that are in the set and no others.
LEMMA KeepElements ==
    ASSUME NEW T, NEW s \in Seq(T), NEW S
    PROVE  Keep(s, S) \in Seq(T) /\ ToSet(Keep(s, S)) = ToSet(s) \cap S
<1> DEFINE F == KeptOf(s, S)
           P == {n \in 0 .. Len(s) : F[n] \in Seq(T) /\ ToSet(F[n]) = {s[i] : i \in 1 .. n} \cap S}
<1>0. Len(s) \in Nat /\ ToSet(s) = {s[i] : i \in 1 .. Len(s)} /\ \A i \in 1 .. Len(s) : s[i] \in T
    BY ElementsOf
<1>1. F[0] = KeptOne(s, S, F, 0) /\ \A n \in 1 .. Len(s) : F[n] = KeptOne(s, S, F, n)
    BY <1>0, KeptOfSteps
<1> HIDE DEF F
<1>2. 0 \in P
    <2>1. <<>> \in Seq(T) /\ ToSet(<<>>) = {} /\ {s[i] : i \in 1 .. 0} = {}
        BY EmptySeq DEF ToSet
    <2>2. F[0] = <<>> /\ 0 \in 0 .. Len(s)
        BY <1>0, <1>1 DEF KeptOne
    <2> QED
        BY <2>1, <2>2
<1>3. ASSUME NEW n \in 1 .. Len(s), n - 1 \in P PROVE n \in P
    <2>1. F[n - 1] \in Seq(T) /\ ToSet(F[n - 1]) = {s[i] : i \in 1 .. n - 1} \cap S
        BY <1>3
    <2>2. s[n] \in T /\ n \in 0 .. Len(s) /\ n # 0
        BY <1>0
    <2>3. {s[i] : i \in 1 .. n} = {s[i] : i \in 1 .. n - 1} \cup {s[n]}
        BY <1>0
    <2>4. CASE s[n] \in S
        <3>1. F[n] = Append(F[n - 1], s[n])
            BY <1>1, <2>2, <2>4 DEF KeptOne
        <3>2. F[n] \in Seq(T) /\ ToSet(F[n]) = ToSet(F[n - 1]) \cup {s[n]}
            BY <2>1, <2>2, <3>1, ElementsAppend
        <3> QED
            BY <2>1, <2>2, <2>3, <2>4, <3>2
    <2>5. CASE s[n] \notin S
        <3>1. F[n] = F[n - 1]
            BY <1>1, <2>2, <2>5 DEF KeptOne
        <3> QED
            BY <2>1, <2>2, <2>3, <2>5, <3>1
    <2> QED
        BY <2>4, <2>5
<1>4. Len(s) \in P
    <2> HIDE DEF P
    <2>1. 0 .. Len(s) \subseteq P
        BY <1>0, <1>2, <1>3, UpTo, Zenon
    <2> QED
        BY <1>0, <2>1
<1> QED
    BY <1>0, <1>4 DEF Keep, F

(***************************************************************************)
(* The lists of a configuration                                            *)
(***************************************************************************)

\* No two under one name.
Unique(L) == \A i, j \in 1 .. Len(L) : L[i].name = L[j].name => i = j

\* An override replaces the list of its name, or comes last.
LEMMA OverrideOne ==
    ASSUME NEW L \in Seq(Source), Unique(L), NEW x \in Source
    PROVE  /\ OverrideOrAdd(L, x) \in Seq(Source)
           /\ Unique(OverrideOrAdd(L, x))
           /\ ToSet(OverrideOrAdd(L, x)) = {l \in ToSet(L) : l.name # x.name} \cup {x}
<1> DEFINE same == {i \in 1 .. Len(L) : L[i].name = x.name}
           R == OverrideOrAdd(L, x)
<1>0. Len(L) \in Nat /\ DOMAIN L = 1 .. Len(L) /\ ToSet(L) = {L[i] : i \in 1 .. Len(L)}
      /\ \A i \in 1 .. Len(L) : L[i] \in Source
    BY ElementsOf, LenProperties
<1>1. CASE same = {}
    <2>1. R = Append(L, x)
        BY <1>1 DEF OverrideOrAdd
    <2>2. /\ R \in Seq(Source) /\ Len(R) = Len(L) + 1 /\ R[Len(L) + 1] = x
          /\ (\A i \in 1 .. Len(L) : R[i] = L[i]) /\ ToSet(R) = ToSet(L) \cup {x}
        BY <2>1, ElementsAppend
    <2>3. \A i \in 1 .. Len(L) : L[i].name # x.name
        BY <1>1
    <2> HIDE DEF R, same
    <2>4. Unique(R)
        BY <1>0, <2>2, <2>3 DEF Unique
    <2>5. ToSet(R) = {l \in ToSet(L) : l.name # x.name} \cup {x}
        BY <1>0, <2>2, <2>3
    <2> QED
        BY <2>2, <2>4, <2>5 DEF R
<1>2. CASE same # {}
    <2> DEFINE k == CHOOSE i \in same : \A j \in same : i <= j
    <2>0. same \in SUBSET Nat
        BY <1>0
    <2>1. k \in same
        <3> HIDE DEF same
        <3>1. \E i \in same : \A j \in same : i <= j
            BY <1>2, <2>0, LeastNat
        <3> QED
            BY <3>1
    <2>2. R = [L EXCEPT ![k] = x]
        BY <1>2 DEF OverrideOrAdd
    <2>3. k \in 1 .. Len(L) /\ L[k].name = x.name
        BY <2>1
    <2> HIDE DEF R, same, k
    <2>4. /\ R \in Seq(Source) /\ Len(R) = Len(L) /\ R[k] = x
          /\ \A i \in 1 .. Len(L) : i # k => R[i] = L[i]
        BY <1>0, <2>2, <2>3, ExceptSeq
    <2>5. \A i \in 1 .. Len(L) : i # k => L[i].name # x.name
        BY <2>3 DEF Unique
    <2>6. \A i \in 1 .. Len(L) : R[i].name = L[i].name
        BY <2>3, <2>4
    <2>7. Unique(R)
        BY <2>4, <2>6 DEF Unique
    <2>8. ToSet(R) = {R[i] : i \in 1 .. Len(L)}
        BY <2>4, ElementsOf
    <2>9. ToSet(R) = {l \in ToSet(L) : l.name # x.name} \cup {x}
        <3>1. ASSUME NEW i \in 1 .. Len(L) PROVE R[i] \in {l \in ToSet(L) : l.name # x.name} \cup {x}
            BY <1>0, <2>4, <2>5
        <3>2. ASSUME NEW l \in ToSet(L), l.name # x.name PROVE l \in ToSet(R)
            <4>1. PICK i \in 1 .. Len(L) : l = L[i]
                BY <1>0
            <4>2. i # k
                BY <3>2, <4>1, <2>3
            <4> QED
                BY <4>1, <4>2, <2>4, <2>8
        <3>3. x \in ToSet(R)
            BY <2>3, <2>4, <2>8
        <3> QED
            BY <2>8, <3>1, <3>2, <3>3
    <2> QED
        BY <2>4, <2>7, <2>9 DEF R
<1> QED
    BY <1>1, <1>2

\* The lists of a profile.
LEMMA ProfileFacts ==
    ASSUME NEW profile \in Text \cup {None}
    PROVE  ProfileLists(profile) \in Seq(Source) /\ Unique(ProfileLists(profile))
<1> DEFINE hagezi(tier) == ListSource(<<"hagezi", "-", tier>>, Https(tier), None)
<1>0. {"hagezi", "-", "https", "light", "pro", "tif"} \subseteq Text
    BY ConfigAssumption DEF Written
<1>1. \A tier \in Text : hagezi(tier) \in Source /\ hagezi(tier).name = <<"hagezi", "-", tier>>
    <2> TAKE tier \in Text
    <2>1. <<"hagezi", "-", tier>> \in Seq(Text)
        BY <1>0
    <2>2. Https(tier) \in Url
        BY <1>0 DEF Https, Url
    <2> QED
        BY <2>1, <2>2 DEF ListSource, Source
<1>2. hagezi("pro").name # hagezi("tif").name
    <2>1. <<"hagezi", "-", "pro">> # <<"hagezi", "-", "tif">>
        OBVIOUS
    <2> QED
        BY <1>0, <1>1, <2>1
<1> HIDE DEF hagezi
<1>3. \A l \in Source : <<l>> \in Seq(Source) /\ Unique(<<l>>)
    BY DEF Unique
<1>4. \A l, m \in Source : l.name # m.name => <<l, m>> \in Seq(Source) /\ Unique(<<l, m>>)
    BY DEF Unique
<1>5. <<>> \in Seq(Source) /\ Unique(<<>>)
    BY EmptySeq DEF Unique
<1>6. ProfileLists(profile) \in {<<hagezi("light")>>, <<hagezi("pro")>>, <<hagezi("pro"), hagezi("tif")>>, <<>>}
    BY DEF ProfileLists, hagezi
<1>7. hagezi("light") \in Source /\ hagezi("pro") \in Source /\ hagezi("tif") \in Source
    BY <1>0, <1>1
<1> QED
    BY <1>2, <1>3, <1>4, <1>5, <1>6, <1>7

\* Every list of the file, and the profile's lists it does not override.
LEMMA EffectiveLists ==
    ASSUME NEW c, c.lists \in Seq(Source), c.profile \in Text \cup {None}, Unique(c.lists)
    PROVE  /\ effective_lists(c) \in Seq(Source)
           /\ Unique(effective_lists(c))
           /\ ToSet(effective_lists(c)) = ToSet(c.lists) \cup
                 {l \in ToSet(ProfileLists(c.profile)) : l.name \notin {own.name : own \in ToSet(c.lists)}}
<1> DEFINE F == Overridden(c)
           base == ToSet(ProfileLists(c.profile))
           Own(n) == {c.lists[i] : i \in 1 .. n}
           All(n) == Own(n) \cup {l \in base : l.name \notin {own.name : own \in Own(n)}}
           P == {n \in 0 .. Len(c.lists) : F[n] \in Seq(Source) /\ Unique(F[n]) /\ ToSet(F[n]) = All(n)}
<1>0. Len(c.lists) \in Nat /\ ToSet(c.lists) = Own(Len(c.lists))
      /\ \A i \in 1 .. Len(c.lists) : c.lists[i] \in Source
    BY ElementsOf
<1>1. F[0] = OverriddenOne(c, F, 0) /\ \A n \in 1 .. Len(c.lists) : F[n] = OverriddenOne(c, F, n)
    BY <1>0, OverriddenSteps
<1> HIDE DEF F
<1>2. 0 \in P
    <2>1. F[0] = ProfileLists(c.profile) /\ 0 \in 0 .. Len(c.lists)
        BY <1>0, <1>1 DEF OverriddenOne
    <2>2. F[0] \in Seq(Source) /\ Unique(F[0])
        BY <2>1, ProfileFacts
    <2>3. Own(0) = {}
        OBVIOUS
    <2>4. All(0) = base
        BY <2>3
    <2> QED
        BY <2>1, <2>2, <2>4
<1>3. ASSUME NEW n \in 1 .. Len(c.lists), n - 1 \in P PROVE n \in P
    <2> DEFINE x == c.lists[n]
    <2>1. F[n - 1] \in Seq(Source) /\ Unique(F[n - 1]) /\ ToSet(F[n - 1]) = All(n - 1)
        BY <1>3
    <2>2. x \in Source /\ n \in 0 .. Len(c.lists) /\ n # 0
        BY <1>0
    <2>3. F[n] = OverrideOrAdd(F[n - 1], x)
        BY <1>1, <2>2 DEF OverriddenOne
    <2>4. F[n] \in Seq(Source) /\ Unique(F[n]) /\ ToSet(F[n]) = {l \in All(n - 1) : l.name # x.name} \cup {x}
        <3> HIDE DEF x, All
        <3>1. /\ F[n] \in Seq(Source) /\ Unique(F[n])
              /\ ToSet(F[n]) = {l \in ToSet(F[n - 1]) : l.name # x.name} \cup {x}
            BY <2>1, <2>2, <2>3, OverrideOne
        <3> QED
            BY <2>1, <3>1
    <2>5. Own(n) = Own(n - 1) \cup {x}
        BY <1>0
    <2>6. \A l \in Own(n - 1) : l.name # x.name
        <3> TAKE l \in Own(n - 1)
        <3>1. PICK i \in 1 .. n - 1 : l = c.lists[i]
            OBVIOUS
        <3>2. i \in 1 .. Len(c.lists) /\ n \in 1 .. Len(c.lists) /\ i # n
            BY <1>0
        <3> QED
            BY <3>1, <3>2 DEF Unique
    <2>7. {l \in All(n - 1) : l.name # x.name} \cup {x} = All(n)
        <3> HIDE DEF Own, base, x
        <3> QED
            BY <2>5, <2>6
    <2> QED
        BY <2>2, <2>4, <2>7
<1>4. Len(c.lists) \in P
    <2> HIDE DEF P
    <2>1. 0 .. Len(c.lists) \subseteq P
        BY <1>0, <1>2, <1>3, UpTo, Zenon
    <2> QED
        BY <1>0, <2>1
<1> QED
    BY <1>0, <1>4 DEF effective_lists, F

\* As many names as lists.
LEMMA UniqueCounts ==
    ASSUME NEW L \in Seq(Source), Unique(L)
    PROVE  Cardinality({l.name : l \in ToSet(L)}) = Len(L)
<1> DEFINE names == {l.name : l \in ToSet(L)}
           f == [i \in 1 .. Len(L) |-> L[i].name]
<1>1. Len(L) \in Nat /\ ToSet(L) = {L[i] : i \in 1 .. Len(L)}
    BY ElementsOf
<1>2. names = {L[i].name : i \in 1 .. Len(L)}
    BY <1>1
<1> HIDE DEF names
<1>3. f \in Bijection(1 .. Len(L), names)
    <2>1. f \in [1 .. Len(L) -> names]
        BY <1>2
    <2>2. \A i, j \in 1 .. Len(L) : f[i] = f[j] => i = j
        BY DEF Unique
    <2>3. \A y \in names : \E i \in 1 .. Len(L) : f[i] = y
        BY <1>2
    <2> QED
        BY <2>1, <2>2, <2>3, Fun_IsBij
<1>4. ExistsBijection(1 .. Len(L), names)
    BY <1>3 DEF ExistsBijection
<1> QED
    BY <1>1, <1>4, FS_CountingElements DEF names

(***************************************************************************)
(* The names that migrate gives out                                        *)
(***************************************************************************)

\* Numbers make names that differ.
LEMMA NumberedFacts ==
    ASSUME NEW name \in Seq(Text), NEW n \in 1 .. Len(Numeral)
    PROVE  /\ Numbered(name, n) \in Seq(Text) /\ Numbered(name, n) # <<>>
           /\ Numbered(name, n)[Len(name) + 2] = Numeral[n]
<1>0. Numeral \in Seq(Text) /\ Len(name) \in Nat
    BY MigrateAssumption, LenProperties
<1>1. Numeral[n] \in Text /\ "-" \in Text
    <2>1. "-" \in Text
        BY ConfigAssumption DEF Written
    <2> QED
        BY <1>0, <2>1, ElementsOf
<1> DEFINE t == <<"-", Numeral[n]>>
<1>2. t \in Seq(Text) /\ Len(t) = 2 /\ t[2] = Numeral[n]
    BY <1>1
<1> HIDE DEF t
<1>3. name \o t \in Seq(Text) /\ Len(name \o t) = Len(name) + 2
      /\ (name \o t)[Len(name) + 2] = t[2]
    <2>1. /\ name \o t \in Seq(Text) /\ Len(name \o t) = Len(name) + Len(t)
          /\ \A i \in 1 .. Len(t) : (name \o t)[Len(name) + i] = t[i]
        BY <1>2, ElementsConcat, SMTT(30)
    <2>2. 2 \in 1 .. Len(t)
        BY <1>2
    <2> QED
        BY <1>2, <2>1, <2>2
<1>4. name \o t # <<>>
    BY <1>0, <1>3, EmptySeq
<1> QED
    BY <1>2, <1>3, <1>4 DEF Numbered, t

\* Among more numbers than names there is one that makes a new name.
LEMMA UnusedFacts ==
    ASSUME NEW name \in Seq(Text), name # <<>>, NEW used, IsFiniteSet(used),
           Cardinality(used) + 2 <= Len(Numeral)
    PROVE  Unused(name, used) \in Seq(Text) \ used /\ Unused(name, used) # <<>>
<1> DEFINE N == Len(Numeral)
           Free == {n \in 2 .. N : Numbered(name, n) \notin used}
<1>0. N \in Nat /\ Cardinality(used) \in Nat
    BY MigrateAssumption, LenProperties, FS_CardinalityType
<1>1. CASE name \notin used
    BY <1>1 DEF Unused
<1>2. CASE name \in used
    <2>1. Free # {}
        <3> SUFFICES ASSUME Free = {} PROVE FALSE
            OBVIOUS
        <3> DEFINE f == [n \in 2 .. N |-> Numbered(name, n)]
        <3>1. f \in [2 .. N -> used]
            OBVIOUS
        <3>2. \A m, n \in 2 .. N : f[m] = f[n] => m = n
            <4> TAKE m, n \in 2 .. N
            <4>1. m \in 1 .. N /\ n \in 1 .. N
                BY <1>0
            <4>2. Numbered(name, m)[Len(name) + 2] = Numeral[m] /\ Numbered(name, n)[Len(name) + 2] = Numeral[n]
                BY <4>1, NumberedFacts
            <4> QED
                BY <4>1, <4>2, MigrateAssumption
        <3> HIDE DEF f
        <3>3. f \in Injection(2 .. N, used)
            BY <3>1, <3>2, Fun_IsInj
        <3>4. IsFiniteSet(2 .. N) /\ Cardinality(2 .. N) = N - 1
            BY <1>0, FS_Interval
        <3>5. Cardinality(2 .. N) <= Cardinality(used)
            BY <3>3, <3>4, FS_Injection DEF ExistsInjection
        <3> QED
            BY <1>0, <3>4, <3>5
    <2>2. PICK n \in Free : \A m \in Free : n <= m
        <3>1. Free \in SUBSET Nat
            BY <1>0
        <3> HIDE DEF Free
        <3> QED
            BY <2>1, <3>1, LeastNat
    <2> DEFINE Q(k) == Numbered(name, k) \notin used /\ \A m \in 2 .. k - 1 : Numbered(name, m) \in used
               k == CHOOSE k \in 2 .. N : Q(k)
    <2>3. n \in 2 .. N /\ Q(n)
        BY <1>0, <2>2
    <2> HIDE DEF Q
    <2>4. k \in 2 .. N /\ Q(k)
        BY <2>3
    <2>5. Unused(name, used) = Numbered(name, k)
        BY <1>2 DEF Unused, Q
    <2> HIDE DEF k
    <2>6. k \in 1 .. N /\ Numbered(name, k) \notin used
        BY <1>0, <2>4 DEF Q
    <2> QED
        BY <2>5, <2>6, NumberedFacts
<1> QED
    BY <1>1, <1>2

LEMMA SlugType == ASSUME NEW name \in Seq(Text) PROVE slug(name) \in Seq(Text)
<1> DEFINE IsWord(i) == name[i] \in DOMAIN Lower
           Joins(i) == /\ ~IsWord(i) /\ i > 1 /\ IsWord(i - 1)
                       /\ \E j \in i .. Len(name) : IsWord(j)
           places == [i \in 1 .. Len(name) |-> i]
           kept == Keep(places, {i \in 1 .. Len(name) : IsWord(i) \/ Joins(i)})
           Letter(i) == IF IsWord(i) THEN Lower[name[i]] ELSE "-"
<1>1. places \in Seq(Nat)
    BY LenProperties
<1>2. kept \in Seq(Nat)
    BY <1>1, KeepElements
<1>3. Len(kept) \in Nat
    BY <1>2, LenProperties
<1>4. \A i : Letter(i) \in Text
    BY MigrateAssumption, ConfigAssumption DEF Written
<1>5. slug(name) = [k \in 1 .. Len(kept) |-> Letter(kept[k])]
    BY DEF slug
<1> HIDE DEF kept, Letter
<1> QED
    BY <1>3, <1>4, <1>5

\* What is true of the lists given out for the first n filters.
GivenOut(filters, n, done) ==
    /\ done \in [used : SUBSET Seq(Text), lists : Seq(Source),
                 warnings : SUBSET ({"disabled", "renamed"} \X Nat)]
    /\ IsFiniteSet(done.used) /\ Cardinality(done.used) <= n + 1 /\ UserRules \in done.used
    /\ Unique(done.lists)
    /\ \A l \in ToSet(done.lists) :
          /\ l.name \in done.used /\ l.name # UserRules /\ l.name # <<>> /\ l.path = None
          /\ \E i \in 1 .. n : filters[i].enabled /\ l.url = filters[i].url
    /\ \A i \in 1 .. n :
          /\ filters[i].enabled => \E l \in ToSet(done.lists) : l.url = filters[i].url
          /\ ~filters[i].enabled => <<"disabled", i>> \in done.warnings

LEMMA AddFilterKeeps ==
    ASSUME NEW filters \in Seq(AghFilter), Len(filters) + 2 <= Len(Numeral),
           NEW n \in 1 .. Len(filters), NEW done, GivenOut(filters, n - 1, done)
    PROVE  GivenOut(filters, n, AddFilter(done, n, filters[n]))
<1> DEFINE f == filters[n]
           base == IF slug(f.name) = <<>> THEN <<"list", "-", Numeral[n]>> ELSE slug(f.name)
           name == Unused(base, done.used)
           next == AddFilter(done, n, f)
           Result == [used : SUBSET Seq(Text), lists : Seq(Source),
                      warnings : SUBSET ({"disabled", "renamed"} \X Nat)]
<1>0. /\ f \in AghFilter /\ Len(filters) \in Nat /\ Len(Numeral) \in Nat
      /\ done \in Result /\ IsFiniteSet(done.used) /\ Cardinality(done.used) <= n
      /\ Cardinality(done.used) \in Nat
    BY ElementsOf, MigrateAssumption, LenProperties, FS_CardinalityType DEF GivenOut
<1>1. n \in 1 .. Len(Numeral) /\ n \in Nat /\ n - 1 \in Nat /\ Cardinality(done.used) + 2 <= Len(Numeral)
    BY <1>0
<1>2. CASE ~f.enabled
    <2>1. next = [done EXCEPT !.warnings = @ \cup {<<"disabled", n>>}]
        BY <1>2 DEF AddFilter
    <2> HIDE DEF next
    <2>2. /\ next \in Result /\ next.used = done.used /\ next.lists = done.lists
          /\ next.warnings = done.warnings \cup {<<"disabled", n>>}
        BY <1>0, <1>1, <2>1
    <2>3. IsFiniteSet(next.used) /\ Cardinality(next.used) <= n + 1 /\ UserRules \in next.used /\ Unique(next.lists)
        BY <1>0, <2>2 DEF GivenOut
    <2>4. ASSUME NEW l \in ToSet(next.lists)
          PROVE  /\ l.name \in next.used /\ l.name # UserRules /\ l.name # <<>> /\ l.path = None
                 /\ \E i \in 1 .. n : filters[i].enabled /\ l.url = filters[i].url
        <3>1. /\ l.name \in done.used /\ l.name # UserRules /\ l.name # <<>> /\ l.path = None
              /\ \E i \in 1 .. n - 1 : filters[i].enabled /\ l.url = filters[i].url
            BY <2>2 DEF GivenOut
        <3>2. \A i \in 1 .. n - 1 : i \in 1 .. n
            BY <1>1
        <3> QED
            BY <2>2, <3>1, <3>2
    <2>5. ASSUME NEW i \in 1 .. n
          PROVE  /\ filters[i].enabled => \E l \in ToSet(next.lists) : l.url = filters[i].url
                 /\ ~filters[i].enabled => <<"disabled", i>> \in next.warnings
        <3>1. CASE i = n
            BY <1>2, <2>2, <3>1
        <3>2. CASE i # n
            <4>1. i \in 1 .. n - 1
                BY <1>1, <3>2
            <4>2. /\ filters[i].enabled => \E l \in ToSet(done.lists) : l.url = filters[i].url
                  /\ ~filters[i].enabled => <<"disabled", i>> \in done.warnings
                BY <4>1 DEF GivenOut
            <4> QED
                BY <2>2, <4>2
        <3> QED
            BY <3>1, <3>2
    <2> QED
        BY <2>2, <2>3, <2>4, <2>5 DEF GivenOut, next
<1>3. CASE f.enabled
    <2>1. base \in Seq(Text) /\ base # <<>>
        <3>1. slug(f.name) \in Seq(Text)
            BY <1>0, SlugType DEF AghFilter
        <3>2. Numeral[n] \in Text
            BY <1>1, MigrateAssumption, ElementsOf
        <3>3. "list" \in Text /\ "-" \in Text
            BY ConfigAssumption DEF Written
        <3>4. <<"list", "-", Numeral[n]>> \in Seq(Text) /\ <<"list", "-", Numeral[n]>> # <<>>
            BY <3>2, <3>3
        <3> QED
            BY <3>1, <3>4
    <2> HIDE DEF base
    <2>2. name \in Seq(Text) /\ name \notin done.used /\ name # <<>>
        BY <1>0, <1>1, <2>1, UnusedFacts
    <2> DEFINE w == done.warnings \cup (IF name = base THEN {} ELSE {<<"renamed", n>>})
               list == ListSource(name, f.url, None)
    <2>3. next = [used |-> done.used \cup {name}, lists |-> Append(done.lists, list), warnings |-> w]
        BY <1>3 DEF AddFilter, base
    <2> HIDE DEF name
    <2>4. w \in SUBSET ({"disabled", "renamed"} \X Nat) /\ done.warnings \subseteq w
        BY <1>0, <1>1
    <2>5. list \in Source /\ list.name = name /\ list.url = f.url /\ list.path = None
        BY <1>0, <2>2 DEF ListSource, Source, AghFilter
    <2> HIDE DEF w, list, next
    <2>6. done.lists \in Seq(Source) /\ done.used \in SUBSET Seq(Text)
        BY <1>0
    <2>7. /\ Append(done.lists, list) \in Seq(Source)
          /\ Len(Append(done.lists, list)) = Len(done.lists) + 1
          /\ \A i \in 1 .. Len(done.lists) : Append(done.lists, list)[i] = done.lists[i]
          /\ Append(done.lists, list)[Len(done.lists) + 1] = list
          /\ ToSet(Append(done.lists, list)) = ToSet(done.lists) \cup {list}
        BY <2>5, <2>6, ElementsAppend
    <2>8. /\ next.used = done.used \cup {name} /\ next.lists = Append(done.lists, list) /\ next.warnings = w
          /\ next \in Result
        BY <2>2, <2>3, <2>4, <2>6, <2>7
    <2>9. IsFiniteSet(next.used) /\ Cardinality(next.used) <= n + 1 /\ UserRules \in next.used
        <3>1. IsFiniteSet(next.used) /\ Cardinality(next.used) = Cardinality(done.used) + 1
            BY <1>0, <2>2, <2>8, FS_AddElement
        <3> QED
            BY <1>0, <2>8, <3>1 DEF GivenOut
    <2>10. Unique(next.lists)
        <3>1. Len(done.lists) \in Nat /\ ToSet(done.lists) = {done.lists[i] : i \in 1 .. Len(done.lists)}
            BY <2>6, ElementsOf
        <3>2. \A i \in 1 .. Len(done.lists) : done.lists[i].name # name
            BY <2>2, <3>1 DEF GivenOut
        <3>3. Unique(done.lists)
            BY DEF GivenOut
        <3> QED
            BY <2>5, <2>7, <2>8, <3>1, <3>2, <3>3, SMTT(30) DEF Unique
    <2>11. ASSUME NEW l \in ToSet(next.lists)
           PROVE  /\ l.name \in next.used /\ l.name # UserRules /\ l.name # <<>> /\ l.path = None
                  /\ \E i \in 1 .. n : filters[i].enabled /\ l.url = filters[i].url
        <3>1. CASE l = list
            <4>1. UserRules \in done.used
                BY DEF GivenOut
            <4>2. n \in 1 .. n
                BY <1>1
            <4> QED
                BY <1>3, <2>2, <2>5, <2>8, <3>1, <4>1, <4>2
        <3>2. CASE l \in ToSet(done.lists)
            <4>1. /\ l.name \in done.used /\ l.name # UserRules /\ l.name # <<>> /\ l.path = None
                  /\ \E i \in 1 .. n - 1 : filters[i].enabled /\ l.url = filters[i].url
                BY <3>2 DEF GivenOut
            <4>2. \A i \in 1 .. n - 1 : i \in 1 .. n
                BY <1>1
            <4> QED
                BY <2>8, <4>1, <4>2
        <3> QED
            BY <2>7, <2>8, <3>1, <3>2
    <2>12. ASSUME NEW i \in 1 .. n
           PROVE  /\ filters[i].enabled => \E l \in ToSet(next.lists) : l.url = filters[i].url
                  /\ ~filters[i].enabled => <<"disabled", i>> \in next.warnings
        <3>1. CASE i = n
            BY <1>3, <2>5, <2>7, <2>8, <3>1
        <3>2. CASE i # n
            <4>1. i \in 1 .. n - 1
                BY <1>1, <3>2
            <4>2. /\ filters[i].enabled => \E l \in ToSet(done.lists) : l.url = filters[i].url
                  /\ ~filters[i].enabled => <<"disabled", i>> \in done.warnings
                BY <4>1 DEF GivenOut
            <4> QED
                BY <2>4, <2>7, <2>8, <4>2
        <3> QED
            BY <3>1, <3>2
    <2> QED
        BY <2>8, <2>9, <2>10, <2>11, <2>12 DEF GivenOut, next
<1> QED
    BY <1>2, <1>3

LEMMA NamedFacts ==
    ASSUME NEW filters \in Seq(AghFilter), Len(filters) + 2 <= Len(Numeral)
    PROVE  GivenOut(filters, Len(filters), Named(filters))
<1> DEFINE F == NamedOf(filters)
           P == {n \in 0 .. Len(filters) : GivenOut(filters, n, F[n])}
<1>0. Len(filters) \in Nat
    BY LenProperties
<1>1. F[0] = NamedOne(filters, F, 0) /\ \A n \in 1 .. Len(filters) : F[n] = NamedOne(filters, F, n)
    BY <1>0, NamedOfSteps
<1> HIDE DEF F
<1>2. 0 \in P
    <2>1. F[0] = [used |-> {UserRules}, lists |-> <<>>, warnings |-> {}]
        BY <1>1 DEF NamedOne, Reserved
    <2>2. UserRules \in Seq(Text)
        <3>1. "user" \in Text /\ "-" \in Text /\ "rules" \in Text
            BY ConfigAssumption DEF Written
        <3> QED
            BY <3>1 DEF UserRules
    <2>3. IsFiniteSet({UserRules}) /\ Cardinality({UserRules}) = 1
        BY FS_Singleton
    <2>4. <<>> \in Seq(Source) /\ ToSet(<<>>) = {} /\ Unique(<<>>)
        BY EmptySeq DEF ToSet, Unique
    <2>5. GivenOut(filters, 0, F[0])
        BY <2>1, <2>2, <2>3, <2>4 DEF GivenOut
    <2> QED
        BY <1>0, <2>5
<1>3. ASSUME NEW n \in 1 .. Len(filters), n - 1 \in P PROVE n \in P
    <2>1. F[n] = AddFilter(F[n - 1], n, filters[n]) /\ n \in 0 .. Len(filters)
        BY <1>0, <1>1 DEF NamedOne
    <2>2. GivenOut(filters, n - 1, F[n - 1])
        BY <1>3
    <2>3. GivenOut(filters, n, F[n])
        BY <2>1, <2>2, AddFilterKeeps
    <2> QED
        BY <2>1, <2>3
<1>4. Len(filters) \in P
    <2> HIDE DEF P
    <2>1. 0 .. Len(filters) \subseteq P
        BY <1>0, <1>2, <1>3, UpTo, Zenon
    <2> QED
        BY <1>0, <2>1
<1> QED
    BY <1>4 DEF Named, F

(***************************************************************************)
(* The file that migrate writes                                            *)
(***************************************************************************)

\* There is a bind for a host.
LEMMA BindsFacts ==
    ASSUME NEW hosts \in Seq(Text)
    PROVE  Binds(hosts) \in Seq(Text) /\ (hosts # <<>> => Binds(hosts) # <<>>)
<1> DEFINE F == BindsOf(hosts)
           P == {n \in 0 .. Len(hosts) : F[n] \in Seq(Text) /\ (n = 0 \/ F[n] # <<>>)}
<1>0. Len(hosts) \in Nat /\ \A n \in 1 .. Len(hosts) : hosts[n] \in Text
    BY ElementsOf
<1>1. F[0] = BindsOne(hosts, F, 0) /\ \A n \in 1 .. Len(hosts) : F[n] = BindsOne(hosts, F, n)
    BY <1>0, BindsOfSteps
<1> HIDE DEF F
<1>2. 0 \in P
    <2>1. F[0] = <<>> /\ 0 \in 0 .. Len(hosts)
        BY <1>0, <1>1 DEF BindsOne
    <2>2. <<>> \in Seq(Text)
        BY EmptySeq
    <2>3. F[0] \in Seq(Text)
        BY <2>1, <2>2
    <2> QED
        BY <2>1, <2>3, Zenon
<1>3. ASSUME NEW n \in 1 .. Len(hosts), n - 1 \in P PROVE n \in P
    <2> DEFINE b == Both(hosts[n])
               new == Keep(b, ToSet(b) \ ToSet(F[n - 1]))
    <2>1. F[n - 1] \in Seq(Text) /\ n \in 0 .. Len(hosts) /\ n # 0
        BY <1>0, <1>3
    <2>2. F[n] = F[n - 1] \o new
        BY <1>1, <2>1 DEF BindsOne
    <2>3. b \in Seq(Text) /\ b # <<>>
        <3>1. V4Any \in Text /\ V6Any \in Text
            BY ConfigAssumption DEF Written, V4Any, V6Any
        <3> QED
            BY <1>0, <3>1 DEF Both
    <2> HIDE DEF b
    <2>4. new \in Seq(Text) /\ ToSet(new) = ToSet(b) \cap (ToSet(b) \ ToSet(F[n - 1]))
        BY <2>3, KeepElements
    <2> HIDE DEF new
    <2>5. F[n] \in Seq(Text) /\ ToSet(F[n]) = ToSet(F[n - 1]) \cup ToSet(new)
        BY <2>1, <2>2, <2>4, ElementsConcat
    <2>6. ToSet(b) # {}
        BY <2>3, ElementsOf
    <2>7. ToSet(F[n]) # {}
        BY <2>4, <2>5, <2>6
    <2>8. F[n] # <<>>
        BY <2>5, <2>7, ElementsOf
    <2> QED
        BY <2>1, <2>5, <2>8
<1>4. Len(hosts) \in P
    <2> HIDE DEF P
    <2>1. 0 .. Len(hosts) \subseteq P
        BY <1>0, <1>2, <1>3, UpTo, Zenon
    <2> QED
        BY <1>0, <2>1
<1>5. hosts # <<>> => Len(hosts) # 0
    BY <1>0, EmptySeq
<1> QED
    BY <1>4, <1>5 DEF Binds, F

\* Every client but those known only by a name has its network.
AllowedNet == [net : Text, parses : BOOLEAN]

LEMMA NetworksFacts ==
    ASSUME NEW clients \in Seq(Client)
    PROVE  /\ Networks(clients) \in Seq(AllowedNet)
           /\ \A c \in ToSet(clients) : c.kind # "id" => \E net \in ToSet(Networks(clients)) : net.net = c.net
           /\ \A net \in ToSet(Networks(clients)) :
                 \E c \in ToSet(clients) : net.net = c.net /\ net.parses = (c.kind # "malformed")
<1> DEFINE kept == Keep(clients, {c \in ToSet(clients) : c.kind # "id"})
           Of(c) == [net |-> c.net, parses |-> c.kind # "malformed"]
           nets == Networks(clients)
<1>1. kept \in Seq(Client) /\ ToSet(kept) = {c \in ToSet(clients) : c.kind # "id"}
    <2>1. kept \in Seq(Client) /\ ToSet(kept) = ToSet(clients) \cap {c \in ToSet(clients) : c.kind # "id"}
        BY KeepElements
    <2> QED
        BY <2>1
<1>2. nets = [i \in 1 .. Len(kept) |-> Of(kept[i])]
    BY DEF Networks
<1> HIDE DEF kept, nets
<1>3. Len(kept) \in Nat /\ ToSet(kept) = {kept[i] : i \in 1 .. Len(kept)} /\ \A i \in 1 .. Len(kept) : kept[i] \in Client
    BY <1>1, ElementsOf
<1>4. \A c \in Client : Of(c) \in AllowedNet /\ Of(c).net = c.net /\ Of(c).parses = (c.kind # "malformed")
    BY DEF Client, AllowedNet
<1> HIDE DEF Of
<1>5. nets \in Seq(AllowedNet) /\ Len(nets) = Len(kept) /\ \A i \in 1 .. Len(kept) : nets[i] = Of(kept[i])
    BY <1>2, <1>3, <1>4
<1>6. ToSet(nets) = {nets[i] : i \in 1 .. Len(kept)}
    BY <1>5, ElementsOf
<1>7. ToSet(clients) \subseteq Client
    BY ElementsOf
<1>8. ASSUME NEW c \in ToSet(clients), c.kind # "id" PROVE \E net \in ToSet(nets) : net.net = c.net
    <2>1. PICK i \in 1 .. Len(kept) : c = kept[i]
        BY <1>1, <1>3, <1>8
    <2>2. nets[i] \in ToSet(nets) /\ nets[i].net = c.net
        BY <1>4, <1>5, <1>6, <1>7, <2>1
    <2> QED
        BY <2>2
<1>9. ASSUME NEW net \in ToSet(nets)
      PROVE  \E c \in ToSet(clients) : net.net = c.net /\ net.parses = (c.kind # "malformed")
    <2>1. PICK i \in 1 .. Len(kept) : net = Of(kept[i])
        BY <1>5, <1>6
    <2>2. kept[i] \in ToSet(clients) /\ kept[i] \in Client
        BY <1>1, <1>3
    <2> QED
        BY <1>4, <2>1, <2>2
<1> QED
    BY <1>5, <1>8, <1>9 DEF nets

UserList == ListSource(UserRules, None, RulesPath)

\* The paths and names that migrate writes are of their kinds.
LEMMA WrittenFacts ==
    /\ UserRules \in Seq(Text) /\ UserRules # <<>> /\ RulesPath \in Path /\ RulesPath.absolute
    /\ UserList \in Source /\ UserList.name = UserRules /\ UserList.url = None /\ UserList.path = RulesPath
    /\ Absolute("lists") \in Path /\ Absolute("sqlite") \in Path
    /\ Absolute("lists").absolute /\ Absolute("sqlite").absolute
    /\ None \notin Url /\ None \notin Path /\ None \notin Text
<1>1. {"user", "-", "rules", "user-rules.txt", "lists", "sqlite"} \subseteq Text
    BY ConfigAssumption DEF Written
<1>2. UserRules \in Seq(Text) /\ UserRules # <<>>
    BY <1>1 DEF UserRules
<1>3. \A file \in Text : Absolute(file) \in Path /\ Absolute(file).absolute
    BY DEF Absolute, Path
<1>4. RulesPath \in Path /\ RulesPath.absolute
    BY <1>1, <1>3 DEF RulesPath
<1>5. UserList \in Source /\ UserList.name = UserRules /\ UserList.url = None /\ UserList.path = RulesPath
    BY <1>2, <1>4 DEF UserList, ListSource, Source
<1> QED
    BY <1>1, <1>2, <1>3, <1>4, <1>5, ConfigAssumption

LEMMA ProvidersFacts ==
    ASSUME NEW safe \in [enabled : BOOLEAN, on : SUBSET Text]
    PROVE  /\ Providers(safe) \in Seq(Text)
           /\ ToSet(Providers(safe)) = IF safe.enabled THEN SUPPORTED_PROVIDERS \cap safe.on ELSE {}
<1> DEFINE all == <<"google", "youtube", "bing", "duckduckgo">>
<1>1. all \in Seq(Text) /\ ToSet(all) = SUPPORTED_PROVIDERS
    <2>1. "google" \in Text /\ "youtube" \in Text /\ "bing" \in Text /\ "duckduckgo" \in Text
        BY ConfigAssumption DEF Written, SUPPORTED_PROVIDERS
    <2>2. all \in Seq(Text) /\ Len(all) = 4 /\ all[1] = "google" /\ all[2] = "youtube"
          /\ all[3] = "bing" /\ all[4] = "duckduckgo"
        BY <2>1
    <2> HIDE DEF all
    <2>3. ToSet(all) = {all[i] : i \in 1 .. 4}
        BY <2>2, ElementsOf
    <2>4. 1 .. 4 = {1, 2, 3, 4}
        OBVIOUS
    <2> QED
        BY <2>2, <2>3, <2>4 DEF SUPPORTED_PROVIDERS
<1> HIDE DEF all
<1>2. CASE safe.enabled
    <2>1. Providers(safe) = Keep(all, safe.on)
        BY <1>2 DEF Providers, all
    <2> QED
        BY <1>1, <1>2, <2>1, KeepElements
<1>3. CASE ~safe.enabled
    <2>1. Providers(safe) = <<>>
        BY <1>3 DEF Providers
    <2>2. <<>> \in Seq(Text) /\ ToSet(<<>>) = {}
        BY EmptySeq DEF ToSet
    <2> QED
        BY <1>3, <2>1, <2>2
<1> QED
    BY <1>2, <1>3

\* The clients that are let in.
LEMMA AllowFacts ==
    ASSUME NEW clients \in Seq(Client)
    PROVE  /\ Allow(clients) \in Seq(AllowedNet) /\ Allow(clients) # <<>>
           /\ Networks(clients) # <<>> => Allow(clients) = Networks(clients)
           /\ Networks(clients) = <<>> => \A net \in ToSet(Allow(clients)) : net.parses
<1>1. Networks(clients) \in Seq(AllowedNet)
    BY NetworksFacts
<1>2. LocalNets \in Seq(AllowedNet) /\ LocalNets # <<>> /\ \A net \in ToSet(LocalNets) : net.parses
    <2>1. {"192.168.0.0/16", "10.0.0.0/8", "172.16.0.0/12", "127.0.0.0/8", "::1/128"} \subseteq Text
        BY ConfigAssumption DEF Written
    <2>2. \A net \in Text : Net(net) \in {n \in AllowedNet : n.parses}
        BY DEF Net, AllowedNet
    <2> DEFINE Parsed == {n \in AllowedNet : n.parses}
    <2>3. LocalNets \in Seq(Parsed) /\ LocalNets # <<>>
        <3> HIDE DEF Parsed
        <3>1. \A a, b, c, d, e \in Parsed : <<a, b, c, d, e>> \in Seq(Parsed) /\ <<a, b, c, d, e>> # <<>>
            OBVIOUS
        <3>2. \A net \in Text : Net(net) \in Parsed
            BY <2>2 DEF Parsed
        <3> QED
            BY <2>1, <3>1, <3>2 DEF LocalNets
    <2>4. ToSet(LocalNets) \subseteq Parsed
        BY <2>3, ElementsOf
    <2>5. LocalNets \in Seq(AllowedNet)
        BY <2>3
    <2> QED
        BY <2>3, <2>4, <2>5
<1> QED
    BY <1>1, <1>2 DEF Allow

\* A file that can be converted: there is a number for every filter.
Convertible(agh) == agh \in Agh /\ Len(agh.filters) + 2 <= Len(Numeral)

LEMMA TomlLists ==
    ASSUME NEW agh, Convertible(agh)
    PROVE  /\ Toml(agh).lists \in Seq(Source) /\ Unique(Toml(agh).lists)
           /\ ToSet(Toml(agh).lists) = ToSet(Named(agh.filters).lists) \cup
                 (IF Rules(agh) = <<>> THEN {} ELSE {UserList})
<1> DEFINE given == Named(agh.filters).lists
           local == IF Rules(agh) = <<>> THEN <<>> ELSE <<UserList>>
           L == given \o local
<1>1. Toml(agh).lists = L
    BY DEF Toml, UserList
<1>2. GivenOut(agh.filters, Len(agh.filters), Named(agh.filters))
    BY NamedFacts DEF Convertible, Agh
<1>3. given \in Seq(Source) /\ Unique(given) /\ \A l \in ToSet(given) : l.name # UserRules
    BY <1>2 DEF GivenOut
<1> HIDE DEF given
<1>4. local \in Seq(Source) /\ ToSet(local) = (IF Rules(agh) = <<>> THEN {} ELSE {UserList}) /\ Len(local) \in {0, 1}
      /\ (Len(local) = 1 => local[1] = UserList)
    <2>1. UserList \in Source
        BY WrittenFacts
    <2>2. <<>> \in Seq(Source) /\ ToSet(<<>>) = {} /\ Len(<<>>) = 0
        BY EmptySeq DEF ToSet
    <2>3. <<UserList>> \in Seq(Source) /\ Len(<<UserList>>) = 1 /\ <<UserList>>[1] = UserList
        BY <2>1
    <2>4. ToSet(<<UserList>>) = {UserList}
        <3> DEFINE s == <<UserList>>
        <3>1. s \in Seq(Source) /\ Len(s) = 1 /\ s[1] = UserList
            BY <2>3
        <3> HIDE DEF s
        <3>2. ToSet(s) = {s[i] : i \in 1 .. 1}
            BY <3>1, ElementsOf
        <3>3. 1 .. 1 = {1}
            OBVIOUS
        <3>4. ToSet(s) = {UserList}
            BY <3>1, <3>2, <3>3
        <3> QED
            BY <3>4 DEF s
    <2>5. CASE Rules(agh) = <<>>
        BY <2>2, <2>5
    <2>6. CASE Rules(agh) # <<>>
        BY <2>3, <2>4, <2>6
    <2> QED
        BY <2>5, <2>6
<1> HIDE DEF local
<1>5. /\ L \in Seq(Source) /\ Len(L) = Len(given) + Len(local)
      /\ \A i \in 1 .. Len(given) : L[i] = given[i]
      /\ \A i \in 1 .. Len(local) : L[Len(given) + i] = local[i]
      /\ ToSet(L) = ToSet(given) \cup ToSet(local)
    BY <1>3, <1>4, ElementsConcat
<1>6. Len(given) \in Nat /\ \A i \in 1 .. Len(given) : given[i] \in ToSet(given)
    BY <1>3, ElementsOf
<1> HIDE DEF L
<1>7. Unique(L)
    <2>1. CASE Len(local) = 0
        <3>1. Len(L) = Len(given)
            BY <1>5, <1>6, <2>1
        <3> QED
            BY <1>3, <1>5, <3>1 DEF Unique
    <2>2. CASE Len(local) = 1
        <3>1. Len(L) = Len(given) + 1 /\ L[Len(given) + 1] = UserList
            BY <1>4, <1>5, <1>6, <2>2
        <3>2. \A i \in 1 .. Len(given) : L[i].name # UserRules
            BY <1>3, <1>5, <1>6
        <3>3. \A i, j \in 1 .. Len(given) : L[i].name = L[j].name => i = j
            BY <1>3, <1>5 DEF Unique
        <3> QED
            BY <1>6, <3>1, <3>2, <3>3, WrittenFacts DEF Unique
    <2> QED
        BY <1>4, <2>1, <2>2
<1> QED
    BY <1>1, <1>4, <1>5, <1>7 DEF L, given

LEMMA TomlType ==
    ASSUME NEW agh, Convertible(agh)
    PROVE  Toml(agh) \in ConfigFile /\ Toml(agh).profile = None
<1> DEFINE servers == Keep(agh.upstreams, {u \in ToSet(agh.upstreams) : u.scheme \in Usable})
           providers == Providers(agh.safe)
           L == Toml(agh).lists
<1>0. /\ agh.upstreams \in Seq(Url) /\ agh.safe \in [enabled : BOOLEAN, on : SUBSET Text]
      /\ agh.hosts \in Seq(Text) /\ agh.clients \in Seq(Client) /\ agh.bootstrap \in Seq(Text)
      /\ agh.timeout \in [unit : Text, n : Nat]
    BY DEF Convertible, Agh
<1>1. servers \in Seq(Url)
    BY <1>0, KeepElements
<1>2. [enabled |-> providers # <<>>, providers |-> providers] \in Safe
    BY <1>0, ProvidersFacts DEF Safe
<1>3. L \in Seq(Source)
    BY TomlLists
<1>4. Binds(agh.hosts) \in Seq(Text) /\ Allow(agh.clients) \in Seq(AllowedNet)
    BY <1>0, BindsFacts, AllowFacts
<1>5. Millis(agh.timeout) \in Nat
    <2>1. \A m \in Nat, w \in Nat \ {0} : m % w \in Nat
        OBVIOUS
    <2>2. agh.timeout.n \in Nat /\ agh.timeout.n * 1000 \in Nat /\ U64 \in Nat \ {0}
        BY <1>0, MigrateAssumption
    <2>3. (agh.timeout.n * 1000) % U64 \in Nat
        BY <2>1, <2>2
    <2> QED
        BY <2>2, <2>3 DEF Millis
<1>6. Toml(agh) = [profile |-> None, lists |-> L,
                   safe_search |-> [enabled |-> providers # <<>>, providers |-> providers],
                   extra_roots |-> <<>>, max_entries |-> DefaultEntries, serve_stale_secs |-> DefaultStale,
                   bind |-> Binds(agh.hosts), allow |-> Allow(agh.clients),
                   list_dir |-> Absolute("lists"), database |-> Absolute("sqlite"),
                   servers |-> servers, bootstrap |-> agh.bootstrap, timeout_ms |-> Millis(agh.timeout)]
    BY DEF Toml
<1>7. <<>> \in Seq(Path) /\ DefaultEntries \in Nat /\ DefaultStale \in Nat
    BY EmptySeq DEF DefaultEntries, DefaultStale
<1>8. Absolute("lists") \in Path /\ Absolute("sqlite") \in Path
    BY WrittenFacts
<1> HIDE DEF servers, providers, L
<1> QED
    BY <1>0, <1>1, <1>2, <1>3, <1>4, <1>5, <1>6, <1>7, <1>8 DEF ConfigFile, AllowedNet

\* The generated file has no profile: its own lists are all of its lists.
LEMMA EffectiveToml ==
    ASSUME NEW agh, Convertible(agh)
    PROVE  /\ effective_lists(Toml(agh)) \in Seq(Source)
           /\ ToSet(effective_lists(Toml(agh))) = ToSet(Toml(agh).lists)
<1> DEFINE c == Toml(agh)
<1>1. c.lists \in Seq(Source) /\ Unique(c.lists) /\ c.profile = None
    BY TomlLists, TomlType
<1> HIDE DEF c
<1>2. ProfileLists(c.profile) = <<>>
    <2>1. None \notin {"minimal", "balanced", "strict"}
        BY ConfigAssumption DEF Written
    <2> QED
        BY <1>1, <2>1 DEF ProfileLists
<1>3. ToSet(<<>>) = {}
    BY DEF ToSet
<1>4. /\ effective_lists(c) \in Seq(Source)
      /\ ToSet(effective_lists(c)) = ToSet(c.lists) \cup
            {l \in ToSet(ProfileLists(c.profile)) : l.name \notin {own.name : own \in ToSet(c.lists)}}
    BY <1>1, EffectiveLists
<1>5. ToSet(effective_lists(c)) = ToSet(c.lists)
    BY <1>2, <1>3, <1>4
<1> QED
    BY <1>4, <1>5 DEF c

\* What convert reports.
LEMMA Told ==
    ASSUME NEW agh
    PROVE  /\ \A u \in ToSet(agh.upstreams) : u.scheme \notin Usable => <<"upstream", u>> \in Warnings(agh)
           /\ Networks(agh.clients) = <<>> => <<"allow">> \in Warnings(agh)
           /\ \A c \in ToSet(agh.clients) : c.kind = "id" => <<"client", c>> \in Warnings(agh)
           /\ Named(agh.filters).warnings \subseteq Warnings(agh)
           /\ agh.safe.enabled => \A p \in agh.safe.on : p \in SUPPORTED_PROVIDERS \/ <<"provider", p>> \in Warnings(agh)
<1>1. \A u \in ToSet(agh.upstreams) : u.scheme \notin Usable => <<"upstream", u>> \in Warnings(agh)
    BY DEF Warnings
<1>2. Networks(agh.clients) = <<>> => <<"allow">> \in Warnings(agh)
    BY DEF Warnings, If
<1>3. \A c \in ToSet(agh.clients) : c.kind = "id" => <<"client", c>> \in Warnings(agh)
    BY DEF Warnings
<1>4. Named(agh.filters).warnings \subseteq Warnings(agh)
    BY DEF Warnings
<1>5. agh.safe.enabled => \A p \in agh.safe.on : p \in SUPPORTED_PROVIDERS \/ <<"provider", p>> \in Warnings(agh)
    BY DEF Warnings
<1> QED
    BY <1>1, <1>2, <1>3, <1>4, <1>5

\* Upstreams, filters, rules and clients are converted or reported, and nobody
\* else is let in.
LEMMA ConvertedOrTold ==
    ASSUME NEW agh, Convertible(agh)
    PROVE  /\ \A u \in ToSet(agh.upstreams) : u \in ToSet(Toml(agh).servers) \/ <<"upstream", u>> \in Warnings(agh)
           /\ \A i \in 1 .. Len(agh.filters) :
                 \/ <<"disabled", i>> \in Warnings(agh)
                 \/ \E list \in ToSet(effective_lists(Toml(agh))) : list.url = agh.filters[i].url
           /\ Rules(agh) # <<>> => \E list \in ToSet(effective_lists(Toml(agh))) : list.path = RulesPath
           /\ \A c \in ToSet(agh.clients) :
                 <<"client", c>> \in Warnings(agh) \/ \E net \in ToSet(Toml(agh).allow) : net.net = c.net
           /\ \/ <<"allow">> \in Warnings(agh)
              \/ \A net \in ToSet(Toml(agh).allow) : net.net \in {c.net : c \in ToSet(agh.clients)}
<1>0. agh.upstreams \in Seq(Url) /\ agh.clients \in Seq(Client) /\ agh.filters \in Seq(AghFilter)
      /\ Len(agh.filters) + 2 <= Len(Numeral)
    BY DEF Convertible, Agh
<1>1. ASSUME NEW u \in ToSet(agh.upstreams)
      PROVE  u \in ToSet(Toml(agh).servers) \/ <<"upstream", u>> \in Warnings(agh)
    <2> DEFINE usable == {w \in ToSet(agh.upstreams) : w.scheme \in Usable}
    <2>1. Toml(agh).servers = Keep(agh.upstreams, usable)
        BY DEF Toml
    <2>2. ToSet(Keep(agh.upstreams, usable)) = ToSet(agh.upstreams) \cap usable
        BY <1>0, KeepElements
    <2>3. u.scheme \in Usable => u \in ToSet(Toml(agh).servers)
        BY <2>1, <2>2
    <2> QED
        BY <2>3, Told
<1>2. ToSet(effective_lists(Toml(agh))) = ToSet(Named(agh.filters).lists) \cup
          (IF Rules(agh) = <<>> THEN {} ELSE {UserList})
    BY EffectiveToml, TomlLists
<1>3. ASSUME NEW i \in 1 .. Len(agh.filters)
      PROVE  \/ <<"disabled", i>> \in Warnings(agh)
             \/ \E list \in ToSet(effective_lists(Toml(agh))) : list.url = agh.filters[i].url
    <2>1. GivenOut(agh.filters, Len(agh.filters), Named(agh.filters))
        BY <1>0, NamedFacts
    <2>2. /\ agh.filters[i].enabled => \E l \in ToSet(Named(agh.filters).lists) : l.url = agh.filters[i].url
          /\ ~agh.filters[i].enabled => <<"disabled", i>> \in Named(agh.filters).warnings
        BY <2>1 DEF GivenOut
    <2>3. Named(agh.filters).warnings \subseteq Warnings(agh)
        BY Told
    <2> QED
        BY <1>2, <2>2, <2>3
<1>4. Rules(agh) # <<>> => \E list \in ToSet(effective_lists(Toml(agh))) : list.path = RulesPath
    BY <1>2, WrittenFacts
<1>5. Toml(agh).allow = Allow(agh.clients)
    BY DEF Toml
<1>6. Networks(agh.clients) \in Seq(AllowedNet)
    BY <1>0, NetworksFacts
<1>7. ASSUME NEW c \in ToSet(agh.clients)
      PROVE  <<"client", c>> \in Warnings(agh) \/ \E net \in ToSet(Toml(agh).allow) : net.net = c.net
    <2>1. CASE c.kind = "id"
        BY <2>1, Told
    <2>2. CASE c.kind # "id"
        <3>1. PICK net \in ToSet(Networks(agh.clients)) : net.net = c.net
            BY <1>0, <2>2, NetworksFacts
        <3>2. Networks(agh.clients) # <<>>
            BY <1>6, <3>1, ElementsOf
        <3>3. Allow(agh.clients) = Networks(agh.clients)
            BY <1>0, <3>2, AllowFacts
        <3> QED
            BY <1>5, <3>1, <3>3
    <2> QED
        BY <2>1, <2>2
<1>8. \/ <<"allow">> \in Warnings(agh)
      \/ \A net \in ToSet(Toml(agh).allow) : net.net \in {c.net : c \in ToSet(agh.clients)}
    <2>1. CASE Networks(agh.clients) = <<>>
        BY <2>1, Told
    <2>2. CASE Networks(agh.clients) # <<>>
        <3>1. Toml(agh).allow = Networks(agh.clients)
            BY <1>0, <1>5, <2>2, AllowFacts
        <3>2. \A net \in ToSet(Networks(agh.clients)) : \E c \in ToSet(agh.clients) : net.net = c.net
            BY <1>0, NetworksFacts
        <3> QED
            BY <3>1, <3>2
    <2> QED
        BY <2>1, <2>2
<1> QED
    BY <1>1, <1>3, <1>4, <1>7, <1>8

\* So is every provider, and no other is forced.
LEMMA ProvidersOrTold ==
    ASSUME NEW agh, Convertible(agh)
    PROVE  /\ agh.safe.enabled =>
                 \A p \in agh.safe.on : p \in SafeSearch(Toml(agh)) \/ <<"provider", p>> \in Warnings(agh)
           /\ SafeSearch(Toml(agh)) \subseteq (IF agh.safe.enabled THEN agh.safe.on ELSE {})
<1> DEFINE providers == Providers(agh.safe)
<1>1. agh.safe \in [enabled : BOOLEAN, on : SUBSET Text]
    BY DEF Convertible, Agh
<1>2. /\ providers \in Seq(Text)
      /\ ToSet(providers) = IF agh.safe.enabled THEN SUPPORTED_PROVIDERS \cap agh.safe.on ELSE {}
    BY <1>1, ProvidersFacts
<1>3. ToSet(providers) = {} <=> providers = <<>>
    BY <1>2, ElementsOf
<1>4. Toml(agh).safe_search.enabled = (providers # <<>>) /\ Toml(agh).safe_search.providers = providers
    BY DEF Toml
<1> HIDE DEF providers
<1>5. SafeSearch(Toml(agh)) = ToSet(providers)
    BY <1>3, <1>4 DEF SafeSearch
<1> QED
    BY <1>2, <1>5, Told

\* A file that does not pass its own check was wrong on the way in.
RightIn(agh) ==
    /\ agh.hosts # <<>> /\ Millis(agh.timeout) \in TimeoutRange
    /\ \A c \in ToSet(agh.clients) : c.kind # "malformed"
    /\ \A f \in ToSet(agh.filters) : f.enabled => f.url.scheme = "https"

LEMMA SelfCheckPasses ==
    ASSUME NEW agh, Convertible(agh), ~Refused(agh), RightIn(agh)
    PROVE  loads(Toml(agh))
<1> DEFINE toml == Toml(agh)
<1>0. /\ agh.upstreams \in Seq(Url) /\ agh.clients \in Seq(Client) /\ agh.filters \in Seq(AghFilter)
      /\ agh.hosts \in Seq(Text) /\ agh.safe \in [enabled : BOOLEAN, on : SUBSET Text]
      /\ Len(agh.filters) + 2 <= Len(Numeral)
    BY DEF Convertible, Agh
<1>1. toml \notin {None, Unreadable}
    BY TomlType, ConfigAssumption
<1>2. /\ toml.bind = Binds(agh.hosts) /\ toml.allow = Allow(agh.clients)
      /\ toml.servers = Keep(agh.upstreams, {u \in ToSet(agh.upstreams) : u.scheme \in Usable})
      /\ toml.bootstrap = agh.bootstrap /\ toml.timeout_ms = Millis(agh.timeout)
      /\ toml.database = Absolute("sqlite") /\ toml.list_dir = Absolute("lists")
      /\ toml.extra_roots = <<>> /\ toml.max_entries = DefaultEntries /\ toml.serve_stale_secs = DefaultStale
      /\ toml.safe_search.providers = Providers(agh.safe)
    BY DEF Toml
<1>3. toml.lists \in Seq(Source) /\ Unique(toml.lists)
      /\ ToSet(toml.lists) = ToSet(Named(agh.filters).lists) \cup (IF Rules(agh) = <<>> THEN {} ELSE {UserList})
    BY TomlLists
<1>4. effective_lists(toml) \in Seq(Source) /\ ToSet(effective_lists(toml)) = ToSet(toml.lists)
    BY EffectiveToml
<1> HIDE DEF toml
<1>5. \A net \in ToSet(toml.allow) : net.parses
    <2>1. CASE Networks(agh.clients) = <<>>
        BY <1>0, <1>2, <2>1, AllowFacts
    <2>2. CASE Networks(agh.clients) # <<>>
        <3>1. toml.allow = Networks(agh.clients)
            BY <1>0, <1>2, <2>2, AllowFacts
        <3>2. \A net \in ToSet(Networks(agh.clients)) :
                  \E d \in ToSet(agh.clients) : net.parses = (d.kind # "malformed")
            BY <1>0, NetworksFacts
        <3> QED
            BY <3>1, <3>2 DEF RightIn
    <2> QED
        BY <2>1, <2>2
<1>6. toml.bind # <<>> /\ toml.allow # <<>>
    BY <1>0, <1>2, BindsFacts, AllowFacts DEF RightIn
<1>7. toml.servers # <<>> /\ \A s \in ToSet(toml.servers) : s.scheme \in {"https", "quic"}
    <2> DEFINE usable == {u \in ToSet(agh.upstreams) : u.scheme \in Usable}
    <2>1. toml.servers \in Seq(Url) /\ ToSet(toml.servers) = ToSet(agh.upstreams) \cap usable
        BY <1>0, <1>2, KeepElements
    <2>2. \E u \in ToSet(agh.upstreams) : u.scheme \in Usable
        BY DEF Refused
    <2>3. ToSet(toml.servers) # {}
        BY <2>1, <2>2
    <2> QED
        BY <2>1, <2>3, ElementsOf DEF Usable
<1>8. toml.bootstrap # <<>> /\ toml.timeout_ms \in TimeoutRange
    BY <1>2 DEF Refused, RightIn
<1>9. toml.database.absolute /\ toml.list_dir.absolute
    BY <1>2, WrittenFacts
<1>10. TlsValid(toml) /\ CacheValid(toml)
    <2>1. ToSet(<<>>) = {}
        BY DEF ToSet
    <2>2. TlsValid(toml)
        BY <1>2, <2>1 DEF TlsValid
    <2>3. CacheValid(toml)
        BY <1>2 DEF CacheValid, DefaultEntries, DefaultStale, MaxStale
    <2> QED
        BY <2>2, <2>3
<1>11. validate_providers(toml.safe_search.providers)
    BY <1>0, <1>2, ProvidersFacts DEF validate_providers
<1>12. GivenOut(agh.filters, Len(agh.filters), Named(agh.filters))
    BY <1>0, NamedFacts
<1>13. effective_lists(toml) # <<>>
    <2>1. Named(agh.filters).lists \in Seq(Source)
        BY <1>12 DEF GivenOut
    <2>2. Named(agh.filters).lists # <<>> \/ Rules(agh) # <<>>
        BY DEF Refused
    <2>3. ToSet(toml.lists) # {}
        BY <1>3, <2>1, <2>2, ElementsOf
    <2> QED
        BY <1>4, <2>3, ElementsOf
<1>14. ASSUME NEW l \in ToSet(toml.lists) PROVE l.name # <<>> /\ SourceValid(l)
    <2>1. CASE l = UserList
        BY <2>1, WrittenFacts DEF SourceValid
    <2>2. CASE l \in ToSet(Named(agh.filters).lists)
        <3>1. l.name # <<>> /\ l.path = None /\ \E i \in 1 .. Len(agh.filters) : agh.filters[i].enabled /\ l.url = agh.filters[i].url
            BY <1>12, <2>2 DEF GivenOut
        <3>2. PICK i \in 1 .. Len(agh.filters) : agh.filters[i].enabled /\ l.url = agh.filters[i].url
            BY <3>1
        <3>3. agh.filters[i] \in AghFilter /\ agh.filters[i] \in ToSet(agh.filters)
            BY <1>0, ElementsOf
        <3>4. l.url \in Url /\ l.url.scheme = "https"
            BY <3>2, <3>3 DEF AghFilter, RightIn
        <3> QED
            BY <3>1, <3>4, WrittenFacts DEF SourceValid
    <2> QED
        BY <1>3, <2>1, <2>2
<1>15. NamesValid(toml)
    <2>1. \A i \in 1 .. Len(toml.lists) : toml.lists[i] \in ToSet(toml.lists)
        BY <1>3, ElementsOf
    <2> QED
        BY <1>3, <1>14, <2>1 DEF NamesValid, Unique
<1>16. validate(toml)
    BY <1>4, <1>6, <1>7, <1>8, <1>9, <1>10, <1>11, <1>13, <1>14, <1>15 DEF validate
<1> QED
    BY <1>1, <1>5, <1>16 DEF loads, toml

\* All of it.
LEMMA MigrationSays == Convertible(yaml) => MigratesOrSays
<1> SUFFICES ASSUME Convertible(yaml) PROVE MigratesOrSays
    OBVIOUS
<1>1. SelfCheckFails(yaml) =>
          \/ yaml.hosts = <<>> \/ Millis(yaml.timeout) \notin TimeoutRange
          \/ \E c \in ToSet(yaml.clients) : c.kind = "malformed"
          \/ \E f \in ToSet(yaml.filters) : f.enabled /\ f.url.scheme # "https"
    BY SelfCheckPasses DEF SelfCheckFails, RightIn
<1> QED
    BY <1>1, ConvertedOrTold, ProvidersOrTold DEF MigratesOrSays

(***************************************************************************)
(* The processes                                                           *)
(***************************************************************************)

\* What a daemon goes by once its lists are loaded.
Policy == [config : ConfigFile, lists : Seq(Source), safe : SUBSET Text]

Later == {"beat", "stats", "bind", "serving", "sample"}
Places == {"start", "rules", "config", "text", "done", "open"} \cup Later

FilesTypeOK ==
    /\ Convertible(yaml)
    /\ config \in ConfigFile \cup {None, Unreadable}
    /\ at \in [Proc -> Places]
    /\ inforce \in [Proc -> ConfigFile \cup {None} \cup Policy]

\* A process that is about to write a configuration with the user's rules in it
\* has written them.
RulesFirst ==
    \A p \in Proc : Migrates(p) /\ at[p] \in {"config", "text"} /\ Rules(yaml) # <<>> => rules # None

\* A process goes by a configuration that loads, and a daemon's policy is made
\* of it.
Opens(c) == c \in ConfigFile /\ loads(c)

Governs(policy) ==
    /\ Opens(policy.config)
    /\ policy.lists = effective_lists(policy.config)
    /\ policy.safe = SafeSearch(policy.config)

GoesBy ==
    \A p \in Proc :
        /\ at[p] = "open" => Opens(inforce[p])
        /\ at[p] \in Later => Governs(inforce[p])

FilesInv == FilesTypeOK /\ ConfigHasItsRules /\ RulesFirst /\ GoesBy

\* A configuration file names the user's rules only if migrate found some.
LEMMA TomlNamesRules ==
    ASSUME NEW agh, Convertible(agh), NEW l \in ToSet(Toml(agh).lists), l.path = RulesPath
    PROVE  Rules(agh) # <<>>
<1>1. GivenOut(agh.filters, Len(agh.filters), Named(agh.filters))
    BY NamedFacts DEF Convertible, Agh
<1>2. \A k \in ToSet(Named(agh.filters).lists) : k.path = None
    BY <1>1 DEF GivenOut
<1>3. RulesPath # None
    BY WrittenFacts
<1> QED
    BY <1>2, <1>3, TomlLists

LEMMA FileOf ==
    ASSUME NEW name \in Text, NEW lists \in Seq(Source), NEW safe \in Safe, NEW roots \in Seq(Path),
           NEW entries \in Nat, NEW stale \in Nat, NEW hosts \in Seq(Text), NEW nets \in Seq(AllowedNet),
           NEW dir \in Path, NEW base \in Path, NEW urls \in Seq(Url), NEW boots \in Seq(Text), NEW millis \in Nat
    PROVE  [profile |-> name, lists |-> lists, safe_search |-> safe,
            extra_roots |-> roots, max_entries |-> entries, serve_stale_secs |-> stale,
            bind |-> hosts, allow |-> nets, list_dir |-> dir, database |-> base,
            servers |-> urls, bootstrap |-> boots, timeout_ms |-> millis] \in ConfigFile
BY DEF ConfigFile, AllowedNet

LEMMA StarterType ==
    starter_config("balanced") \in ConfigFile /\ starter_config("balanced").lists = <<>>
<1>1. Written \subseteq Text
    BY ConfigAssumption
<1>2. <<"0.0.0.0", "::">> \in Seq(Text) /\ <<"1.1.1.1", "9.9.9.9">> \in Seq(Text) /\ "balanced" \in Text
    <2>1. "0.0.0.0" \in Text /\ "::" \in Text /\ "1.1.1.1" \in Text /\ "9.9.9.9" \in Text /\ "balanced" \in Text
        BY <1>1 DEF Written
    <2> QED
        BY <2>1
<1>3. <<Net("192.168.0.0/16"), Net("127.0.0.0/8"), Net("::1/128")>> \in Seq(AllowedNet)
    <2>1. "192.168.0.0/16" \in Text /\ "127.0.0.0/8" \in Text /\ "::1/128" \in Text
        BY <1>1 DEF Written
    <2>2. \A net \in Text : Net(net) \in AllowedNet
        BY DEF Net, AllowedNet
    <2> QED
        BY <2>1, <2>2
<1>4. <<Https("cloudflare"), Https("google")>> \in Seq(Url)
    <2>1. "cloudflare" \in Text /\ "google" \in Text /\ "https" \in Text
        BY <1>1 DEF Written, SUPPORTED_PROVIDERS
    <2>2. \A place \in Text : Https(place) \in Url
        BY <2>1 DEF Https, Url
    <2> QED
        BY <2>1, <2>2
<1>5. NoSafeSearch \in Safe
    BY EmptySeq DEF NoSafeSearch, Safe
<1>6. <<>> \in Seq(Source) /\ <<>> \in Seq(Path) /\ DefaultEntries \in Nat /\ DefaultStale \in Nat
    BY EmptySeq DEF DefaultEntries, DefaultStale
<1>7. Absolute("lists") \in Path /\ Absolute("sqlite") \in Path
    BY WrittenFacts
<1> DEFINE binds == <<"0.0.0.0", "::">>
           nets == <<Net("192.168.0.0/16"), Net("127.0.0.0/8"), Net("::1/128")>>
           urls == <<Https("cloudflare"), Https("google")>>
           boots == <<"1.1.1.1", "9.9.9.9">>
<1>8. starter_config("balanced") =
         [profile |-> "balanced", lists |-> <<>>, safe_search |-> NoSafeSearch,
          extra_roots |-> <<>>, max_entries |-> DefaultEntries, serve_stale_secs |-> DefaultStale,
          bind |-> binds, allow |-> nets,
          list_dir |-> Absolute("lists"), database |-> Absolute("sqlite"),
          servers |-> urls, bootstrap |-> boots, timeout_ms |-> 3000]
    BY DEF starter_config
<1>9. binds \in Seq(Text) /\ nets \in Seq(AllowedNet) /\ urls \in Seq(Url) /\ boots \in Seq(Text)
    BY <1>2, <1>3, <1>4
<1> DEFINE dir == Absolute("lists")
           base == Absolute("sqlite")
           name == "balanced"
           lists == <<>>
           roots == <<>>
           millis == 3000
<1>10. /\ name \in Text /\ dir \in Path /\ base \in Path /\ millis \in Nat
       /\ lists \in Seq(Source) /\ roots \in Seq(Path) /\ lists = <<>>
    BY <1>2, <1>6, <1>7
<1>11. starter_config("balanced") =
         [profile |-> name, lists |-> lists, safe_search |-> NoSafeSearch,
          extra_roots |-> roots, max_entries |-> DefaultEntries, serve_stale_secs |-> DefaultStale,
          bind |-> binds, allow |-> nets, list_dir |-> dir, database |-> base,
          servers |-> urls, bootstrap |-> boots, timeout_ms |-> millis]
    BY <1>8
<1> HIDE DEF binds, nets, urls, boots, dir, base, name, lists, roots, millis
<1>12. [profile |-> name, lists |-> lists, safe_search |-> NoSafeSearch,
        extra_roots |-> roots, max_entries |-> DefaultEntries, serve_stale_secs |-> DefaultStale,
        bind |-> binds, allow |-> nets, list_dir |-> dir, database |-> base,
        servers |-> urls, bootstrap |-> boots, timeout_ms |-> millis] \in ConfigFile
    BY <1>5, <1>6, <1>9, <1>10, FileOf
<1>13. starter_config("balanced") \in ConfigFile
    BY <1>11, <1>12, Zenon
<1> QED
    BY <1>10, <1>11, <1>13

\* What a write that fails may leave of a generated file keeps its lists.
LEMMA CutsKeep ==
    ASSUME Convertible(yaml), NEW p, NEW cut \in Cuts(p)
    PROVE  /\ cut \in ConfigFile \cup {Unreadable}
           /\ cut \in ConfigFile => Migrates(p) /\ cut.lists = Toml(yaml).lists
<1>1. Toml(yaml) \in ConfigFile
    BY TomlType
<1>2. NoSafeSearch \in Safe
    BY EmptySeq DEF NoSafeSearch, Safe
<1>3. \A c \in ConfigFile :
        /\ [c EXCEPT !.safe_search = NoSafeSearch] \in ConfigFile
        /\ [c EXCEPT !.safe_search = NoSafeSearch].lists = c.lists
        /\ [c EXCEPT !.safe_search.providers = <<>>] \in ConfigFile
        /\ [c EXCEPT !.safe_search.providers = <<>>].lists = c.lists
    <2> TAKE c \in ConfigFile
    <2>1. c.safe_search \in Safe
        BY DEF ConfigFile
    <2>2. [c.safe_search EXCEPT !.providers = <<>>] \in Safe
        BY <2>1, EmptySeq DEF Safe
    <2>3. [c EXCEPT !.safe_search.providers = <<>>] = [c EXCEPT !.safe_search = [c.safe_search EXCEPT !.providers = <<>>]]
        OBVIOUS
    <2>4. \A s \in Safe : [c EXCEPT !.safe_search = s] \in ConfigFile /\ [c EXCEPT !.safe_search = s].lists = c.lists
        BY DEF ConfigFile
    <2> QED
        BY <1>2, <2>2, <2>3, <2>4
<1>4. Unreadable \notin ConfigFile
    BY ConfigAssumption
<1>5. CASE Migrates(p)
    BY <1>1, <1>3, <1>4, <1>5 DEF Cuts
<1>6. CASE ~Migrates(p)
    BY <1>4, <1>6 DEF Cuts
<1> QED
    BY <1>5, <1>6

LEMMA FilesInit == Init => FilesInv
<1> SUFFICES ASSUME Init PROVE FilesInv
    OBVIOUS
<1>1. PICK s \in Scenario : yaml = s.yaml /\ config = s.config
    BY DEF Init
<1>2. /\ s.yaml \in Agh /\ Len(s.yaml.filters) + 2 <= Len(Numeral)
      /\ s.config \in ConfigFile \cup {None, Unreadable}
      /\ s.config \in ConfigFile => \A list \in ToSet(s.config.lists) : list.path # RulesPath
    BY CommandsAssumption
<1>3. FilesTypeOK
    BY <1>1, <1>2 DEF Init, FilesTypeOK, Convertible, Places
<1>4. ConfigHasItsRules
    BY <1>1, <1>2 DEF ConfigHasItsRules
<1>5. RulesFirst /\ GoesBy
    BY DEF Init, RulesFirst, GoesBy, Later
<1> QED
    BY <1>3, <1>4, <1>5 DEF FilesInv

\* One process goes on: what it goes by is right for its place, and the files are.
LEMMA FilesOne ==
    ASSUME FilesInv, NEW p \in Proc, UNCHANGED <<yaml, run>>,
           NEW place \in Places, NEW going \in ConfigFile \cup {None} \cup Policy,
           To(p, place), inforce' = [inforce EXCEPT ![p] = going],
           config' \in ConfigFile \cup {None, Unreadable}, ConfigHasItsRules',
           rules # None => rules' # None,
           Migrates(p) /\ place \in {"config", "text"} /\ Rules(yaml) # <<>> => rules' # None,
           place = "open" => Opens(going),
           place \in Later => Governs(going)
    PROVE  FilesInv'
<1>1. FilesTypeOK /\ RulesFirst /\ GoesBy
    BY DEF FilesInv
<1>2. at \in [Proc -> Places] /\ inforce \in [Proc -> ConfigFile \cup {None} \cup Policy] /\ Convertible(yaml)
    BY <1>1 DEF FilesTypeOK
<1>3. at' = [at EXCEPT ![p] = place]
    BY DEF To
<1>4. at' \in [Proc -> Places] /\ inforce' \in [Proc -> ConfigFile \cup {None} \cup Policy]
    BY <1>2, <1>3, Zenon
<1>5. FilesTypeOK'
    BY <1>2, <1>4 DEF FilesTypeOK, Convertible
<1>6. \A q \in Proc : q # p => at'[q] = at[q] /\ inforce'[q] = inforce[q]
    BY <1>2, <1>3
<1>7. at'[p] = place /\ inforce'[p] = going
    BY <1>2, <1>3
<1>8. \A q \in Proc : Migrates(q)' <=> Migrates(q)
    BY DEF Migrates
<1>9. RulesFirst'
    BY <1>1, <1>6, <1>7, <1>8 DEF RulesFirst
<1>10. GoesBy'
    BY <1>1, <1>6, <1>7, Zenon DEF GoesBy
<1> QED
    BY <1>5, <1>9, <1>10 DEF FilesInv

\* The files are left alone.
LEMMA FilesKept == ConfigHasItsRules /\ UNCHANGED files => ConfigHasItsRules' /\ UNCHANGED config /\ UNCHANGED rules
BY DEF ConfigHasItsRules, files

\* A step of one process by what it went by before.
LEMMA FilesMove ==
    ASSUME FilesInv, NEW p \in Proc, UNCHANGED <<yaml, run, inforce>>,
           NEW place \in Places, To(p, place),
           config' \in ConfigFile \cup {None, Unreadable}, ConfigHasItsRules',
           rules # None => rules' # None,
           Migrates(p) /\ place \in {"config", "text"} /\ Rules(yaml) # <<>> => rules' # None,
           place = "open" => at[p] = "open",
           place \in Later => at[p] \in Later
    PROVE  FilesInv'
<1>1. inforce \in [Proc -> ConfigFile \cup {None} \cup Policy] /\ GoesBy
    BY DEF FilesInv, FilesTypeOK
<1>2. inforce[p] \in ConfigFile \cup {None} \cup Policy /\ inforce' = [inforce EXCEPT ![p] = inforce[p]]
    BY <1>1
<1>3. (place = "open" => Opens(inforce[p])) /\ (place \in Later => Governs(inforce[p]))
    BY <1>1 DEF GoesBy
<1> QED
    BY <1>2, <1>3, FilesOne

\* Nothing of the files and of the processes' places moves.
LEMMA FilesIdle == FilesInv /\ UNCHANGED <<yaml, run, files, at, daemon>> => FilesInv'
<1> SUFFICES ASSUME FilesInv, UNCHANGED <<yaml, run, files, at, daemon>> PROVE FilesInv'
    OBVIOUS
<1>1. UNCHANGED <<yaml, run, config, rules, at, inforce>>
    BY DEF files, daemon
<1>2. FilesTypeOK' /\ ConfigHasItsRules' /\ RulesFirst' /\ GoesBy'
    BY <1>1 DEF FilesInv, FilesTypeOK, ConfigHasItsRules, RulesFirst, GoesBy, Convertible, Migrates
<1> QED
    BY <1>2 DEF FilesInv

LEMMA PlaceFacts ==
    /\ {"start", "rules", "config", "text", "done", "open", "beat", "stats", "bind", "serving", "sample"} = Places
    /\ Later = {"beat", "stats", "bind", "serving", "sample"}
BY DEF Places, Later

\* A configuration written by hand or by the program that loads is of its type.
LEMMA LoadedType == FilesTypeOK /\ loads(config) => Opens(config)
BY DEF FilesTypeOK, loads, Opens

\* The lists of a configuration that loads.
LEMMA LoadedLists ==
    ASSUME NEW c, Opens(c)
    PROVE  /\ effective_lists(c) \in Seq(Source) /\ Unique(effective_lists(c))
           /\ ToSet(effective_lists(c)) = ToSet(c.lists) \cup
                 {l \in ToSet(ProfileLists(c.profile)) : l.name \notin {own.name : own \in ToSet(c.lists)}}
           /\ \A l \in ToSet(effective_lists(c)) : l.url # None \/ l.path # None
           /\ c.safe_search \in Safe
           /\ SafeSearch(c) \subseteq Text
<1>1. c.lists \in Seq(Source) /\ c.profile \in Text \cup {None} /\ c.safe_search \in Safe /\ validate(c)
    BY DEF Opens, ConfigFile, loads
<1>2. NamesValid(c) /\ \A l \in ToSet(effective_lists(c)) : SourceValid(l)
    BY <1>1 DEF validate
<1>3. Unique(c.lists)
    BY <1>2 DEF NamesValid, Unique
<1>4. SUPPORTED_PROVIDERS \subseteq Text
    BY ConfigAssumption DEF Written
<1>5. ToSet(c.safe_search.providers) \subseteq Text
    BY <1>1, ElementsOf DEF Safe
<1>6. SafeSearch(c) \subseteq Text
    BY <1>4, <1>5 DEF SafeSearch
<1> QED
    BY <1>1, <1>2, <1>3, <1>6, EffectiveLists DEF SourceValid

LEMMA BeginFiles == ASSUME FilesInv, NEW p \in Proc, Begin(p) PROVE FilesInv'
<1>1. UNCHANGED <<yaml, run, files, inforce>>
    BY DEF Begin, daemon
<1>2. PICK place \in {"done", "config", "rules"} :
        To(p, place) /\ (Migrates(p) /\ place = "config" => Rules(yaml) = <<>>)
    BY DEF Begin
<1>3. place \in Places /\ place # "open" /\ place \notin Later
    BY PlaceFacts
<1>4. ConfigHasItsRules' /\ config' \in ConfigFile \cup {None, Unreadable} /\ UNCHANGED rules
    BY <1>1, FilesKept DEF FilesInv, FilesTypeOK
<1> QED
    BY <1>1, <1>2, <1>3, <1>4, FilesMove

LEMMA WriteRulesFiles == ASSUME FilesInv, NEW p \in Proc, WriteRules(p) PROVE FilesInv'
<1>1. UNCHANGED <<yaml, run, inforce>> /\ UNCHANGED config
    BY DEF WriteRules, daemon
<1>2. Rules(yaml) # None /\ <<>> # None
    <2>1. yaml.user_rules \in Seq(Text) /\ yaml.blocked_hosts \in Seq(Text)
        BY DEF FilesInv, FilesTypeOK, Convertible, Agh
    <2>2. Rules(yaml) \in Seq(Text)
        BY <2>1, ConcatProperties DEF Rules
    <2>3. <<>> \in Seq(Text)
        BY EmptySeq
    <2> QED
        BY <2>2, <2>3, ConfigAssumption
<1>3. PICK place \in {"done", "config"} :
        To(p, place) /\ (rules # None => rules' # None) /\ (place = "config" => rules' # None)
    BY <1>2 DEF WriteRules
<1>4. place \in Places /\ place # "open" /\ place \notin Later
    BY PlaceFacts
<1>5. ConfigHasItsRules' /\ config' \in ConfigFile \cup {None, Unreadable}
    BY <1>1, <1>3 DEF FilesInv, FilesTypeOK, ConfigHasItsRules
<1> QED
    BY <1>1, <1>3, <1>4, <1>5, FilesMove

\* What a process may leave as the configuration names the user's rules only if
\* they are there.
LEMMA ConfigFiles ==
    ASSUME FilesInv, NEW p \in Proc, at[p] \in {"config", "text"}, NEW place \in {"text", "done"}, To(p, place),
           UNCHANGED <<yaml, run, inforce>>, UNCHANGED rules,
           \/ Migrates(p) /\ config' = Toml(yaml)
           \/ config' = starter_config("balanced")
           \/ config' \in Cuts(p)
           \/ config' = config
    PROVE  FilesInv'
<1>0. Convertible(yaml) /\ RulesFirst /\ ConfigHasItsRules /\ config \in ConfigFile \cup {None, Unreadable}
    BY DEF FilesInv, FilesTypeOK
<1>1. place \in Places /\ place # "open" /\ place \notin Later
    BY PlaceFacts
<1>2. ASSUME Migrates(p), NEW l \in ToSet(Toml(yaml).lists), l.path = RulesPath PROVE rules # None
    BY <1>0, <1>2, TomlNamesRules DEF RulesFirst
<1>7. ASSUME config' \in ConfigFile \cup {None, Unreadable}, ConfigHasItsRules' PROVE FilesInv'
    <2>1. Migrates(p) /\ place \in {"config", "text"} /\ Rules(yaml) # <<>> => rules' # None
        BY <1>0 DEF RulesFirst
    <2> QED
        BY <1>1, <1>7, <2>1, FilesMove
<1>3. CASE Migrates(p) /\ config' = Toml(yaml)
    <2>1. config' \in ConfigFile \cup {None, Unreadable}
        BY <1>0, <1>3, TomlType
    <2>2. ConfigHasItsRules'
        BY <1>2, <1>3 DEF ConfigHasItsRules
    <2> QED
        BY <1>7, <2>1, <2>2
<1>4. CASE config' = starter_config("balanced")
    <2>1. config' \in ConfigFile /\ config'.lists = <<>>
        BY <1>4, StarterType
    <2>2. ToSet(config'.lists) = {}
        BY <2>1, ElementsOf, EmptySeq
    <2>3. ConfigHasItsRules'
        BY <2>2 DEF ConfigHasItsRules
    <2> QED
        BY <1>7, <2>1, <2>3
<1>5. CASE config' \in Cuts(p)
    <2>1. /\ config' \in ConfigFile \cup {Unreadable}
          /\ config' \in ConfigFile => Migrates(p) /\ config'.lists = Toml(yaml).lists
        BY <1>0, <1>5, CutsKeep
    <2>2. ConfigHasItsRules'
        BY <1>2, <2>1 DEF ConfigHasItsRules
    <2> QED
        BY <1>7, <2>1, <2>2
<1>6. CASE config' = config
    <2>1. ConfigHasItsRules'
        BY <1>0, <1>6 DEF ConfigHasItsRules
    <2> QED
        BY <1>0, <1>6, <1>7, <2>1
<1> QED
    BY <1>3, <1>4, <1>5, <1>6

LEMMA WriteConfigFiles == ASSUME FilesInv, NEW p \in Proc, CutConfig(p) \/ WriteConfig(p) PROVE FilesInv'
<1>1. UNCHANGED <<yaml, run, inforce>> /\ UNCHANGED rules /\ at[p] \in {"config", "text"}
    BY DEF CutConfig, WriteConfig, daemon
<1>2. PICK place \in {"text", "done"} : To(p, place)
    BY DEF CutConfig, WriteConfig
<1>3. \/ Migrates(p) /\ config' = Toml(yaml)
      \/ config' = starter_config("balanced")
      \/ config' \in Cuts(p)
      \/ config' = config
    BY DEF CutConfig, WriteConfig
<1> QED
    BY <1>1, <1>2, <1>3, ConfigFiles

LEMMA LoadConfigFiles == ASSUME FilesInv, NEW p \in Proc, LoadConfig(p) PROVE FilesInv'
<1>1. /\ UNCHANGED <<yaml, run, files>> /\ To(p, "open") /\ loads(config)
      /\ inforce' = [inforce EXCEPT ![p] = config]
    BY DEF LoadConfig
<1>2. Opens(config) /\ config \in ConfigFile \cup {None} \cup Policy
    BY <1>1, LoadedType DEF FilesInv, Opens
<1>3. ConfigHasItsRules' /\ config' \in ConfigFile \cup {None, Unreadable} /\ UNCHANGED rules
    BY <1>1, FilesKept DEF FilesInv, FilesTypeOK
<1>4. "open" \in Places /\ "open" \notin Later
    BY PlaceFacts
<1> QED
    BY <1>1, <1>2, <1>3, <1>4, FilesOne

\* A process ends, or begins again.
LEMMA BackFiles ==
    ASSUME FilesInv, NEW p \in Proc, UNCHANGED <<yaml, run, files>>,
           NEW place \in {"start", "done"}, To(p, place), inforce' = [inforce EXCEPT ![p] = None]
    PROVE  FilesInv'
<1>1. ConfigHasItsRules' /\ config' \in ConfigFile \cup {None, Unreadable} /\ UNCHANGED rules
    BY FilesKept DEF FilesInv, FilesTypeOK
<1>2. place \in Places /\ place # "open" /\ place \notin {"config", "text"} /\ place \notin Later
    BY PlaceFacts
<1>3. None \in ConfigFile \cup {None} \cup Policy
    OBVIOUS
<1> QED
    BY <1>1, <1>2, <1>3, FilesOne

\* build_policy.
LEMMA LoadListsFiles == ASSUME FilesInv, NEW p \in Proc, LoadLists(p) PROVE FilesInv'
<1> DEFINE c == inforce[p]
           policy == [config |-> c, lists |-> effective_lists(c), safe |-> SafeSearch(c)]
<1>1. /\ UNCHANGED <<yaml, run, files>> /\ To(p, "beat") /\ at[p] = "open"
      /\ inforce' = [inforce EXCEPT ![p] = policy]
    BY DEF LoadLists
<1>2. Opens(c)
    BY <1>1 DEF FilesInv, GoesBy
<1>3. c \in ConfigFile /\ effective_lists(c) \in Seq(Source) /\ SafeSearch(c) \subseteq Text
    BY <1>2, LoadedLists DEF Opens
<1>4. policy \in Policy
    BY <1>3 DEF Policy
<1>5. Governs(policy)
    BY <1>2 DEF Governs
<1>6. ConfigHasItsRules' /\ config' \in ConfigFile \cup {None, Unreadable} /\ UNCHANGED rules
    BY <1>1, FilesKept DEF FilesInv, FilesTypeOK
<1>7. "beat" \in Places
    BY PlaceFacts
<1> HIDE DEF policy, c
<1> QED
    BY <1>1, <1>4, <1>5, <1>6, <1>7, FilesOne

\* A daemon goes from one of its later places to another.
LEMMA LaterFiles ==
    ASSUME FilesInv, NEW p \in Proc, UNCHANGED <<yaml, run, files, inforce>>,
           at[p] \in Later, NEW place \in Later, To(p, place)
    PROVE  FilesInv'
<1>1. ConfigHasItsRules' /\ config' \in ConfigFile \cup {None, Unreadable} /\ UNCHANGED rules
    BY FilesKept DEF FilesInv, FilesTypeOK
<1>2. place \in Places /\ place # "open" /\ place \notin {"config", "text"}
    BY PlaceFacts
<1> QED
    BY <1>1, <1>2, FilesMove

LEMMA FilesStep == FilesInv /\ [Next]_vars => FilesInv'
<1> SUFFICES ASSUME FilesInv, [Next]_vars PROVE FilesInv'
    OBVIOUS
<1>1. CASE UNCHANGED vars
    BY <1>1, FilesIdle DEF vars
<1>2. ASSUME NEW p \in Proc,
             OpenDb(p) \/ OpenFails(p) \/ SweepLog(p) \/ \E row \in Row \ Expired : LogQuery(p, row)
      PROVE  FilesInv'
    BY <1>2, FilesIdle DEF OpenDb, OpenFails, SweepLog, LogQuery
<1>3. ASSUME NEW p \in Proc, Answer(p) PROVE FilesInv'
    BY <1>3, BackFiles DEF Answer
<1>4. ASSUME NEW p \in Proc, Restarts(p) PROVE FilesInv'
    BY <1>4, BackFiles DEF Restarts
<1>5. ASSUME NEW p \in Proc, WriteBeat(p) PROVE FilesInv'
    <2>1. PICK place \in Later : To(p, place) /\ at[p] \in Later
        BY <1>5, PlaceFacts DEF WriteBeat
    <2> QED
        BY <1>5, <2>1, LaterFiles DEF WriteBeat
<1>6. ASSUME NEW p \in Proc, WriteStats(p) PROVE FilesInv'
    <2>1. PICK place \in Later : To(p, place) /\ at[p] \in Later
        BY <1>6, PlaceFacts DEF WriteStats
    <2> QED
        BY <1>6, <2>1, LaterFiles DEF WriteStats
<1>7. ASSUME NEW p \in Proc, WriteFails(p) PROVE FilesInv'
    <2>1. PICK place \in Later : To(p, place) /\ at[p] \in Later
        BY <1>7, PlaceFacts DEF WriteFails
    <2> QED
        BY <1>7, <2>1, LaterFiles DEF WriteFails, daemon
<1>8. ASSUME NEW p \in Proc, BindPort(p) PROVE FilesInv'
    <2>1. CASE port = None
        <3>1. To(p, "serving") /\ at[p] \in Later /\ "serving" \in Later /\ UNCHANGED <<yaml, run, files, inforce>>
            BY <1>8, <2>1, PlaceFacts DEF BindPort
        <3> QED
            BY <3>1, LaterFiles
    <2> QED
        BY <1>4, <1>8, <2>1 DEF BindPort
<1>9. ASSUME NEW p \in Proc, RunsAgain(p) \/ StartFails(p) \/ Die(p) PROVE FilesInv'
    BY <1>4, <1>9 DEF RunsAgain, StartFails, Die
<1> QED
    BY <1>1, <1>2, <1>3, <1>5, <1>6, <1>7, <1>8, <1>9,
       BeginFiles, WriteRulesFiles, WriteConfigFiles, LoadConfigFiles, LoadListsFiles DEF Next

\* What a daemon's policy is made of is all of its configuration.
LEMMA GovernsAll ==
    ASSUME NEW policy, Governs(policy)
    PROVE  LET c == policy.config
               lists == policy.lists
               own == {list.name : list \in ToSet(c.lists)}
           IN  /\ ToSet(lists) = ToSet(c.lists) \cup
                     {list \in ToSet(ProfileLists(c.profile)) : list.name \notin own}
               /\ Cardinality({list.name : list \in ToSet(lists)}) = Len(lists)
               /\ \A list \in ToSet(lists) : list.url # None \/ list.path # None
               /\ c.safe_search.enabled => policy.safe # {}
               /\ \A provider \in ToSet(c.safe_search.providers) :
                     c.safe_search.enabled <=> provider \in policy.safe
<1> DEFINE c == policy.config
           L == policy.lists
<1>1. Opens(c) /\ L = effective_lists(c) /\ policy.safe = SafeSearch(c)
    BY DEF Governs
<1>2. /\ L \in Seq(Source) /\ Unique(L)
      /\ ToSet(L) = ToSet(c.lists) \cup
            {list \in ToSet(ProfileLists(c.profile)) : list.name \notin {own.name : own \in ToSet(c.lists)}}
      /\ \A list \in ToSet(L) : list.url # None \/ list.path # None
      /\ c.safe_search \in Safe
    BY <1>1, LoadedLists
<1>3. Cardinality({list.name : list \in ToSet(L)}) = Len(L)
    BY <1>2, UniqueCounts
<1>4. c.safe_search.providers \in Seq(Text) /\ c.safe_search.enabled \in BOOLEAN
    BY <1>2 DEF Safe
<1>5. ToSet(c.safe_search.providers) = {} <=> c.safe_search.providers = <<>>
    BY <1>4, ElementsOf
<1>6. SUPPORTED_PROVIDERS # {}
    BY DEF SUPPORTED_PROVIDERS
<1>7. c.safe_search.enabled => policy.safe # {}
    BY <1>1, <1>5, <1>6 DEF SafeSearch
<1>8. \A provider \in ToSet(c.safe_search.providers) : c.safe_search.enabled <=> provider \in policy.safe
    BY <1>1, <1>4, <1>5 DEF SafeSearch
<1> QED
    BY <1>2, <1>3, <1>7, <1>8

\* For every AdGuard file, `migrate` puts in force or reports all that the file
\* says, and lets nobody in and forces nothing beyond it: names that clash, names
\* that only differ before they are slugged, numbers already taken, and the name
\* kept for the user's rules included (migrate.rs: convert, unique_slug,
\* toml_output; config.rs: effective_lists, validate).
THEOREM MigrationIsFaithful == Spec => []MigratesOrSays
<1>1. FilesInv => MigratesOrSays
    BY MigrationSays DEF FilesInv, FilesTypeOK
<1> QED
    BY <1>1, FilesInit, FilesStep, PTL DEF Spec

\* Whoever rewrites the configuration meanwhile, and whatever a failed write
\* leaves of it, a daemon goes by all of one configuration that is valid
\* (daemon.rs: run, build_policy; config.rs: load, effective_lists, validate).
THEOREM ConfigurationIsServed == Spec => []ServesWhatIsConfigured
<1>1. FilesInv => ServesWhatIsConfigured
    <2> SUFFICES ASSUME FilesInv, NEW p \in Proc, at[p] \in Later
                 PROVE  Governs(inforce[p])
        BY GovernsAll DEF ServesWhatIsConfigured, Later
    <2> QED
        BY DEF FilesInv, GoesBy
<1> QED
    BY <1>1, FilesInit, FilesStep, PTL DEF Spec

\* A configuration never stands without the rules it names, wherever any number
\* of `migrate` and `init` processes fail or die (migrate.rs: the rules are
\* written first).
THEOREM RulesComeFirst == Spec => []ConfigHasItsRules
<1>1. FilesInv => ConfigHasItsRules
    BY DEF FilesInv
<1> QED
    BY <1>1, FilesInit, FilesStep, PTL DEF Spec

(***************************************************************************)
(* The database under all commands                                         *)
(***************************************************************************)

\* A step of a process is one of its database's, or lets go of it, or leaves it.
LEMMA OnDatabase ==
    ASSUME SchemaInv, [Next]_vars
    PROVE  \/ [SchemaNext]_schemaVars
           \/ UNCHANGED <<db, txn, opener>> /\ faults' \in Nat
           \/ \E p \in Proc : Ends(p) /\ UNCHANGED db /\ faults' \in Nat
<1>0. faults \in Nat /\ faults + 1 \in Nat
    BY DEF SchemaInv, SchemaTypeOK
<1>1. ASSUME NEW p \in Proc,
             OpenDb(p) \/ OpenFails(p) \/ SweepLog(p) \/ \E row \in Row \ Expired : LogQuery(p, row)
      PROVE  SchemaNext
    BY <1>1 DEF OpenDb, OpenFails, SweepLog, LogQuery, SchemaNext
<1>2. ASSUME NEW p \in Proc, Answer(p) PROVE SchemaNext
    BY <1>2 DEF Answer, SchemaNext
<1>3. ASSUME NEW p \in Proc, RunsAgain(p) \/ StartFails(p) \/ Die(p) PROVE Ends(p) /\ UNCHANGED db /\ faults' \in Nat
    BY <1>0, <1>3 DEF RunsAgain, StartFails, Die, Restarts
<1>4. ASSUME NEW p \in Proc, BindPort(p)
      PROVE  UNCHANGED schemaVars \/ (Ends(p) /\ UNCHANGED db /\ faults' \in Nat)
    BY <1>0, <1>4 DEF BindPort, Restarts
<1>5. ASSUME NEW p \in Proc, WriteRules(p) \/ CutConfig(p) \/ WriteConfig(p) \/ WriteFails(p)
      PROVE  UNCHANGED <<db, txn, opener>> /\ faults' \in Nat
    BY <1>0, <1>5 DEF WriteRules, CutConfig, WriteConfig, WriteFails
<1>6. ASSUME NEW p \in Proc, Begin(p) \/ LoadConfig(p) \/ LoadLists(p) \/ WriteBeat(p) \/ WriteStats(p)
      PROVE  UNCHANGED schemaVars
    BY <1>6 DEF Begin, LoadConfig, LoadLists, WriteBeat, WriteStats
<1>7. CASE UNCHANGED vars
    BY <1>7 DEF vars
<1> QED
    BY <1>1, <1>2, <1>3, <1>4, <1>5, <1>6, <1>7 DEF Next

LEMMA DatabaseStep == SchemaInv /\ [Next]_vars => SchemaInv'
<1> SUFFICES ASSUME SchemaInv, [Next]_vars PROVE SchemaInv'
    OBVIOUS
<1>1. CASE UNCHANGED <<db, txn, opener>> /\ faults' \in Nat
    BY <1>1 DEF SchemaInv, SchemaTypeOK, Left, Progress, Stage, Copy
<1> QED
    BY <1>1, OnDatabase, SchemaStep, EndsKeeps

LEMMA DatabaseInit == Init => SchemaInv
BY SchemaInitInv DEF Init

\* The same of the commands as they use the database: a process of any command
\* that got it open has the current schema under it (db.rs: Db::open).
THEOREM CommandsOpenCurrent == Spec => []OpenedIsCurrent
<1>1. SchemaInv => OpenedIsCurrent
    BY DEF SchemaInv, Progress, OpenedIsCurrent, Current, AllObjects
<1> QED
    BY <1>1, DatabaseInit, DatabaseStep, PTL DEF Spec

\* No command that opens the database takes a row from the query log, whether it
\* upgrades the database, fails or dies; the daemon's sweep takes rows older than
\* the window and no others (db.rs: migrate_schema, retention_sweep; daemon.rs: run).
THEOREM CommandsKeepRows == Spec => RowsKept
<1>1. SchemaInv /\ [Next]_vars => [RowsStep]_db
    BY OnDatabase, SchemaKeepsRows
<1> QED
    BY <1>1, DatabaseInit, DatabaseStep, PTL DEF Spec, RowsKept, RowsStep
=============================================================================
