# Sumidero: TLA+ models, checks and proofs

Sumidero is a filtering DNS resolver for a home network: one Rust daemon that
answers queries from lists, a cache and a pool of encrypted upstreams, and a
command line that inspects and reloads it. This directory models the parts of it
that are hard to test (races, late answers, dead connections, intrusive data
structures, processes that share files), checks them with TLC and proves most of the
safety results, for every value of the constants, with TLAPS.

## 1. The system

| part | source (`crates/...`) | state | operations |
|---|---|---|---|
| query pipeline | `core/src/server.rs` | policy pointer, in-flight counter, lookup map, refresh set | `handle_at`, `resolve_cached`, `resolve_shared`, `spawn_refresh`, `settle`, `install` |
| response cache | `core/src/cache.rs` | hash map, slot vector, recency list, free list, byte count | `insert`, `get` |
| failure cache | `core/src/failcache.rs` | per key: end and length of the hold | `held`, `record`, `clear` |
| upstream connection | `core/src/upstream.rs` | `ConnState`, generation and backoff atomics, watch channel, counters | `send`, `acquire`, `invalidate`, `trigger_repair`, `repair` |
| upstream pool | `core/src/upstream.rs` | upstreams, pool counters | `new` (start-up rounds), `resolve` (race) |
| daemon | `core/src/daemon.rs` | reload channel, runtime report, schedule | signal loop, refresher, heartbeat, shutdown |
| blocklists on disk | `core/src/lists.rs` | stored copy and etag per list | `load`, `acquire_list`, `fetch_with_etag` |
| query log | `core/src/db.rs` | bounded queue, batches, schema version | `log`, `flush`, `writer_loop`, `migrate`, retention |
| filter engine | `filter/src/*.rs` | rule store and indexes, immutable once built | `verdict`, list parsing |
| safe search | `core/src/safesearch.rs` | table | `rewrite` |
| shadow mode | `core/src/shadow.rs` | in-flight cap | `spawn_compare`, `classify` |
| listeners | `core/src/server.rs` | sockets, TCP slots | `serve`, `serve_tcp_conn` |
| configuration | `core/src/config.rs` | the file | `load`, `validate`, `effective_lists` |
| command line | `cli/src` | config, user rules, database, port: all shared between processes | `init`, `migrate`, `serve`, `reload`, `status`, and commands that only read |

How they interact. Every UDP query and every TCP message is a task that runs
`handle_at`. It loads the policy once, consults the cache and the failure cache
(each behind its own mutex), and on a miss shares one detached lookup task per
key with every other query for that key over a broadcast channel. A stale hit is
answered at once and leaves a detached refresh task behind. Both kinds of task
ask the pool, which starts one leg per upstream; a leg waits for a connection
that a detached repair task builds. A reload builds a new policy beside the
running one and swaps the pointer. No lock is held across an await. Every command is a
process of its own: it loads the configuration that `init` or `migrate` wrote, opens and if
need be upgrades the database, and learns of the daemon from the rows it left there.

What is hard. Detached tasks outlive the queries that started them and use
instants read before an await; clean-up is by key or by state, not by task;
panics unwind one task and leave the others running; connections die under
several queries at once; repairs may overlap; the cache is four structures kept
in step by hand; processes create, upgrade and write shared files without a common lock and
may die between two writes.

## 2. The modules

| module | models | kind |
|---|---|---|
| `FailureCache` | `held`, `record`, `clear` as operators on the map | operators |
| `FailureHolds` | the failure cache in use: failures recorded at the instant of their task, late and out of order | state machine |
| `CacheEntries` | what is stored, how long it lives, how it is answered; the cache as a recency list | operators |
| `LruCache` | the recency list as a state machine | abstract specification |
| `Cache` | slots, links, free list, byte count | detailed specification, refines `LruCache` |
| `CacheProofs` | its theorems, the refinement among them | proofs |
| `Pipeline` | queries, lookup tasks, refresh tasks, reload; uses `CacheEntries` and `FailureCache` | composition |
| `PipelineProofs` | its theorems | proofs |
| `Upstream` | one `ReconnectingUpstream`: legs and repairs | state machine |
| `UpstreamProofs` | its theorems | proofs |
| `Pool` | start-up rounds and the race over the upstreams | state machine |
| `PoolProofs` | its theorems | proofs |
| `Daemon` | signal and heartbeat loop, refresher, runtime report, `sumidero reload` | composition of three actors |
| `DaemonProofs` | its theorems | proofs |
| `ListStore` | one `url` list: body and ETag on disk, fetch, fallback, crashes | state machine |
| `LogWriter` | listeners and TCP slots, query tasks, shadow comparisons, the bounded queue, the writer thread, flush, drain and exit; uses `Shadow` | composition |
| `LogWriterProofs` | its theorems | proofs |
| `Shadow` | the classes of a comparison with the reference resolver | operators |
| `Schema` | `Db::open` by several processes: create, read the version, upgrade, stamp | state machine |
| `StorageProofs` | the theorems of `ListStore`, `Schema` and `Commands` | proofs |
| `Config` | the configuration file: profiles, overrides, validation; the providers of safe search | operators |
| `Migrate` | what `migrate` makes of an AdGuard file and what it warns of; uses `Config` | operators |
| `Commands` | the processes on one machine: `init`, `migrate`, `serve`, `status`; uses `Schema` and `Migrate` | composition |
| `ListParser` | the line parser: comments, hosts lines, adblock rules, what is rejected | operators on bytes |
| `Filter` | lists compiled into key indexes and wildcard buckets, `verdict`; uses `ListParser` | state machine with a reference scan |
| `LookupProofs` | the theorems of `Filter` with `ListParser`, and of `FailureHolds` | proofs |
| `MC*` | small instances for TLC | |

Operators with a comment "Mutant of X" are changed forms of X (a
dropped guard, a missing reset) that show that a property notices the change;
no specification uses them.

**Pipeline.** `pc[q]` is the place of query q in `handle_at`; each step is the
code between two accesses to shared state. `snap`, `now`, `key`, `answer` and
`log` are its locals, `chan` and `inbox` its broadcast receiver. A background task
carries the name of the query that spawned it: `tpc`, `tkind` (lookup or
refresh), `tat` (the instant it stamps with: the arrival of the leader for a
lookup, its own start for a refresh) and `tans` (what the pool gave it). The
pool is external here: it answers with any `Message`, fails, or panics. `Verdict`
abstracts the engine to three classes of names, and messages to rcode, CNAME
names, record TTLs and size. `answer.born` is a history of when the answer was
produced, used by one property. The map of lookups holds task names where the
code holds senders; `Closed` says when the last sender is gone. The log record is
part of `Leave`, which is also where the in-flight guard drops.

**Cache.** One variable, `inner`, is the struct behind the mutex; each helper of
`Inner` is an operator from struct to struct, and `Insert`, `GetAbsent`,
`GetExpired`, `GetAnswer` are the public calls. Slots count from 1 and 0 is the code's
`NONE`. Callers pass an instant that may be up to `MaxLag` old.

**Upstream.** A leg is a call of `send`: subscribe, read the state, trigger a
repair, wait, send, prove or tear down, once more after a fatal error. A repair
builds, installs, stores the doubled backoff, and its drop guard concludes; each
lock section and each atomic access that others can observe is a step of its own.
`conn.owner` (who made the state Connecting) is a history field; the code has no
owner, so a guard may act on a state that is not its own. The load of the backoff
is merged with the end of the build and `fetch_add` on `builds` with the install:
generations stay unique either way.

**Pool.** `Round` is one round of `join_all` with any set of upstreams that came up and
any end up to the round's deadline; `Sleep` and `GiveUp` are the two ways on from a
round in which none did. A call of `resolve` has one leg per upstream; a leg ends with
an answer or an error (its inside is `Upstream`) and its result waits in the channel
unless the call has returned. The two atomic updates at the end of a call are two
steps.

**Daemon.** `mpc` is the place of the loop of `daemon::run`, `rpc` that of
`Refresher::run`, `caller[c].pc` that of a `sumidero reload` (or of a plain
SIGHUP: a command that does not wait). `report` is the value behind the mutex; `msnap`, `writing` and
`rsnap` are the copies the two tasks write from. `degraded_reasons` and `status` compute from the
rows what the `status` command says and exits with. SIGHUPs pending together are one. A
config has a part that a reload applies and one that waits for a restart. A build
ends with any list contents, with old copies of lists that could not be fetched, or
with an error. `Outcome.serves` is a history of the commands whose signal had been sent
when the config was read, and `failed` a history of how the refresher's last load ended: the report alone
cannot tell a load that failed from a config the loop refused. The retention sweep is in `Schema` and
`Commands`; the counters of `publish_stats` are left out: they touch nothing else.

**ListStore.** Contents are numbered in the order of publication and a content's ETag is
its number; 0 is the seed file. `Request` reads the ETag, `StoreBody` and `StoreEtag`
are the two `write_atomic` calls with their error branches, and a crash may come
between any two steps. Assumption: a host does not return to an earlier content under
its earlier ETag. Without it the property fails: a crash between the two writes leaves the
new body with the old ETag, the host that goes back answers 304 to it, and the
newer body is marked as confirmed until the host publishes something else.

**LogWriter.** `task[q]` follows a query from its reception to its log record; `inside` is
the in-flight counter as a set; `conn[c]` is a TCP connection, closed, idle or carrying a
query; `compare[q]` is the detached comparison of an answer with the reference resolver,
whose divergence is a record in the same queue. `Put` is `DbWriter::log`. The writer thread is
`recv`, `take`, `write`; a transaction commits or loses its whole batch. `flush` is the one call
shutdown makes, with the thread that waits for a place when the queue is full (tokio's channel
gives a freed place to a waiting sender, so nobody overtakes it). A TCP connection that is
open goes on being served after the listeners have ended, as in the code. Which answers are
mirrored is decided in `Pipeline`; here `Leave` may start a comparison or not.

**Schema.** A database is the objects in it, the columns and checks that later releases added,
the version in `meta` and the rows of the query log. Each SQL statement is a step, because
each is a transaction of its own, but for the rebuild of `queries`, which is inside `BEGIN ... COMMIT`. Its five
statements are five steps on `txn`, the copy of the database that this transaction works on, with the rows
that were renamed away (`old`): `Rename` takes SQLite's write lock and leaves no table `queries`, `MakeTable`
makes an empty one, `CopyRows` fills it, `DropTable` takes the old one and its index away, `MakeIndex` makes the index
again, and only `Commit` makes the copy the database that others see. Until then no other process can
write (`Unlocked`); a statement that fails or a death on the way rolls the copy back. The lock is not
held between `Look` and `Rename`, so two processes may rebuild one after the other. A process that has the
database open logs rows, and sweeps: `Sweep` is `retention_sweep`, which deletes the rows in `Expired`, those
older than the window. A statement may fail, a failed read of the version counts as "no version" (the
code's `.ok()`), and a process may die anywhere. A process whose open failed is run again, and
one that has it open may end (`Exits`). `Left` says what an earlier run may have left on disk: a
version in `meta` stands for the columns of that version, and a database without one was
being created by this release. A database that an older release was still creating when it died
is outside it; see section 3.

**Config and Migrate.** Operators on a parsed file. A name of a list is a sequence of words and
marks, since `slug` is about which names become equal; a url is its scheme and place, a client
a network, an address, an id or malformed. A warning is what it is about. TOML and YAML
themselves are libraries. A timeout is a number of seconds or milliseconds; it parses below `U64`, the width of
the code's integers, and the product that makes milliseconds of seconds wraps there, as it does in a release
build. The code's loops are recursive functions, one value per round, so that
they can be reasoned about. `Text` is the set of texts and `Numeral` the numerals that make a repeated name
unique; there must be more numerals than lists, since `unique_id` counts until a name is free. No
configuration that is there at the start names the rules file that `migrate` writes.

**Commands.** `at[p]` is the place of a process in its command, `opener[p]` its place in `Db::open`.
`init` and `migrate` look whether the configuration exists and write later. A write in place cuts the file first
(`CutConfig`), which others may read before it has its text (`WriteConfig`), and may fail in between; `Cuts`
says which prefixes of a generated file still parse. `serve` loads
the configuration, opens the database, loads every list or none, writes its first heartbeat
and counters and only then binds the port; from then on it logs and sweeps (`SweepLog`). The commands that only read are `status`.

**Filter.** Lists are added, the engine is built, a name is asked. Text is bytes here, because the
subject is text: a key is a slice of an arena that `finish` rebuilds with each key once, a
wildcard is filed under the whole labels after its last star, and most rule texts are not
stored but rebuilt from a shared key. `sort_unstable_by` may leave equal keys in any order,
so `build` takes every order that sorts. The reference, `Applies`, is one definition over the
parsed rules that knows neither indexes nor anchors; `Means` says what a pattern matches without a
pointer or a way back. Loops are recursive functions of what they have done so far (`SortedOf`,
`SearchOf`, `AddedOf`), and `GlobFrom` is one over the four numbers that `glob_match` keeps, so that
they can be reasoned about. White space is the space, and the spellings that the standard
library parses as addresses are constants. `FilterAssumption` says that a list is lines of bytes, that
the longest name (253) fits a kept text (255), and that a name that is asked does not end in an empty
label: it comes from the wire, where only the root is empty.

## 3. The runs

| run | instance | what it shows |
|---|---|---|
| `holds` | 3 keys, 2 places, holds 2/4/7, time to 20, records up to 3 late | bounded map, fair eviction, a late failure costs at most its age |
| `cache` | 4 keys, 3 places, 4 bytes, time to 2 | one whole list and no slot leaked (`SlotsWhole`), with an exact byte count, fresh answers within their TTL, refinement of `LruCache` |
| `pipeline_flight` | 3 queries, 1 key, cap 2, time to 3 | `SingleFlight` (one lookup and one refresh per key), one outcome per lookup, exact admission, data served in time |
| `pipeline_policy` | 2 queries, 3 keys, 2 policies, 6 requests of all kinds | the policy loaded on arrival decides, chains of rewritten names left aside; every query is answered, every refresh mark goes |
| `upstream` | 2 legs, 2 repairs, 2 builds, backoff 1/2, time 1 | no lost wake-up, no abandoned Connecting, retries elsewhere, failures counted once; every leg ends |
| `pool` | 2 upstreams, 2 calls, budget 7, timeout 2, waits 1/2/3 | start-up within its budget, failure only together; start-up ends and losers finish (`LegsAndStartupEnd`) |
| `daemon` | 2 configs and a broken file, 1 command, 1 edit, time 1 | report tells the policy, failures retried soon; accepted reloads conclude, the rows and the exit code of `status` catch up |
| `list_store` | 3 contents, 2 crashes, failing disk, with and without seed | stored copy confirmed, nothing older in force; the last content arrives |
| `log_writer` | 2 queries (1 on TCP) with comparisons, 2 connections for 1 slot, queue and batch of 2, failing transactions, a writer that never started | `LogAccounted` (order, whole batches, everything handled or counted, no divergence before its query), `ShutdownSettles` (flush covers, drained queries settled); `WaitsEnd` (flush returns, connections end) |
| `filter` | up to 2 lists of one to three lines over two letters, every pattern of two or three bytes with a star, names of up to three labels | the verdict is that of a scan, the reported rule is the one written, no line is lost (but for an address without a name) |
| `commands` | 2 processes, 2 faults, 3 rows of which 1 is expired; 685 scenarios: AdGuard files to migrate and serve, files written by hand to serve, pairs of commands that race over databases of every release | an opened database is current and keeps its rows until they expire; migration converts or reports; a daemon serves what is configured, a configuration has its rules; opens succeed in the end and the listener's rows return |
| `daemon_own_outcome` | violation | `sumidero reload` reports the outcome of a load whose config was read before its signal (docs/STATE-MACHINES.md:52) |

The violation is a disagreement between a document and the code that a user can meet. A load
that was already running or queued, with the config as it was before the last edit, is taken for
the answer to the command's own signal; when one reload is queued the signal is even dropped
("this signal adds nothing", daemon.rs:461), and the edit is applied by no load although the
command says "applied".

Other disagreements met while modelling, which no run states:

- an answer to a name rewritten by safe search is sent without the CNAME check (server.rs:405),
  while docs/SEMANTICS.md:57 has it "resolved through steps 4-5": a chain through a blocked
  name reaches the client. `SnapshotDecides` says nothing of a rewritten name whose chain holds a blocked
  one (`unsettled`), neither that it is blocked nor that it is not;
- the hold after a failure is counted from the arrival of the query that led the
  lookup (server.rs:568), not from the failure (docs/SEMANTICS.md:91), so a slow
  failure leaves less of it;
- a refreshed entry is stamped before the upstream is asked (server.rs:618), not when the
  answer arrived (comment at server.rs:616); it expires a little early;
- an answer on an old connection ends the probation of the new one (upstream.rs:760;
  comment at upstream.rs:394);
- the guard of a repair that has installed its connection takes down the Connecting
  state of the next repair (upstream.rs:546; docs/STATE-MACHINES.md:65); the invariants
  of `Upstream` hold nevertheless;
- a heartbeat that copied the report before a load finished overwrites the load's row
  until the next heartbeat (daemon.rs:481; docs/STATE-MACHINES.md:36), which is why
  `StatusCatchesUp` is a liveness property;
- a hosts line with an address and no name (a lone `1.2.3.4`) is dropped without an issue
  (parse.rs:248; crates/filter/src/lib.rs:31), which is why `EachLineAccounted` says nothing of such a
  line (`Nameless`);
- `glob_match` compares bytes before it looks for a star (engine.rs:553), so a star of the rule that meets
  a star in the name is consumed as a byte and not remembered: `*.b` does not match `*.a.b`,
  while "`*` matches any byte sequence" (engine.rs:548; crates/filter/src/lib.rs:21). This is why
  `VerdictAgrees` is about names without a star;
- flush returns after a failed transaction too (db.rs:529; comment at db.rs:974), which is
  why `ShutdownSettles` says "on disk or lost";
- a query whose task has not yet entered `handle_at`, or that arrives on an open TCP
  connection, is missed by the drain (daemon.rs:499; docs/SEMANTICS.md:118), which is
  why `ShutdownSettles` speaks of the queries counted in flight;
- two processes that create a database together: the second plain INSERT of the version fails
  (db.rs:459), and of two that upgrade it the second ALTER may fail although "each one is
  idempotent" (db.rs:364). Both succeed when run again, which is why `OpensInTheEnd` is a liveness
  property;
- tables without a version are stamped as current without an upgrade (db.rs:459). Only a release that
  died between creating the tables and stamping them leaves such a database; if it was this release
  the tables are current and `OpenedIsCurrent` holds, if it was an older one they are not and
  `Left` excludes it;
- `migrate` promises that nothing is "silently dropped" (migrate.rs:4), but sections of the AdGuard
  file that it does not know (`whitelist_filters`, `rewrites`, `clients`) are ignored without a word
  (migrate.rs:17); `MigratesOrSays` is about what `convert` reads;
- "generated config failed validation (bug)" (migrate.rs:391) can be met without a bug: an `http://`
  list, a timeout outside 100 ms to 30 s, a malformed network or no bind host; and a timeout of very many
  seconds overflows when it is made milliseconds (migrate.rs:135): it panics in a debug build and
  wraps, perhaps to one that is valid, in a release build;
- `migrate` overwrites `user-rules.txt` without `--force` (migrate.rs:441), and a write of the
  configuration that is cut may leave a file that loads with safe search off or for all providers;
- a second `serve` writes the heartbeat before it finds the port taken (daemon.rs:419): for up to a
  minute `reload` signals a process that is gone, which is why `RowsOfTheListener` is a liveness
  property;
- a missing counters row is reported as not degraded with exit code 0 (status.rs), while its comment
  says "unknown rather than as healthy" (status.rs:140);
- the base of the recent drops is moved even when the row could not be written (daemon.rs:535), and a
  stored list is found by its name although its url has changed (lists.rs:441).

**Bounds.** Three queries are the fewest that make a leader, a follower and a
late-comer, and with a cap of two the third is shed. One key is enough for single
flight, since lookups of different keys touch different entries; the policy run
has three. Time runs past TTL plus stale window in the flight run, and past two
holds. Three places and four keys let the cache evict, reuse a slot and replace
at the head, middle and tail; one answer is larger than the room two others
leave, so that one insert evicts twice. Two repairs are what an overlap needs;
`MaxBuilds` bounds generations, and the backoff reaches its cap; the proofs lift the
bounds. The daemon's instance has one command, one edit and one tick of the clock,
enough for a signal during a load, a second timer and a stale heartbeat; failing database
writes are in the violation run and in the proofs, not in the liveness instance. Two crashes
allow one between the two writes and one after it. A queue of two with up to four records
and a flush makes the queue full for each; one slot for two connections makes the second wait.
Two processes are what each race over the database, the files and the port needs, and two faults
let one process die half-way and the next one fail where it resumes. Databases of the releases that are
rebuilt have a row that is expired, one that is not, and one that is still to be logged. The width of the
timeout is cut to 2^16, so that 66 s and 65536 s wrap or do not parse. Each scenario of `commands`
varies one part of a file over all its cases: names are up to three of six shapes, so that slugs,
numbers and the reserved name collide. Two lists are what an exception in one and a block
rule in the other need, and three lines make equal keys in one index; names and labels are
cut at 9 and 6 bytes and stored texts at 10, so that each limit is met. Deadlock checks
are off where all queries may be done and time at its bound.

**Fairness.** Weak fairness of each task: tokio polls ready tasks. In the
pipeline a resolve returns because each leg is bounded by `timeout_ms`
(`EveryLegEnds` in `Upstream`). In the upstream time passes and each leg takes the
steps that are its own; nothing is assumed of the transport, which may hang for
ever. In the pool a leg ends for that same reason, and a round at its deadline. In the
daemon the loop and the refresher are tasks and the heartbeat interval keeps firing;
SIGHUP is handled under strong fairness because `select!` picks at random among ready
branches. In the log writer the thread runs, a transaction ends at SQLite's busy timeout, and a connection
ends or goes on within the 10 s that reading and writing are given (server.rs:991). In the commands
an open that failed is tried again (the unit has `Restart=on-failure`; a user runs a command
again), each statement ends at the busy timeout, and the heartbeat's interval keeps firing;
faults are bounded, so the last try meets none. For
lists the refresher loads again and again, and a host that is asked again and
again answers at times. A build ends because of `build_timeout`, and is not dropped every single
time: a running service drops one when it panics, all of them only to stop.

## 4. The proofs

`LookupProofs` proves of the failure cache, for every set of keys, `FirstHold <= MaxHold`,
`MaxKeys > 0` and delay:

- `FailureCacheSafe`: `TypeOK`, `KeysBounded` and `HoldBounded` are invariants. The
  conjunction is inductive as it stands: the bound on the number of keys needs the
  type (holds within the ladder's ends) only for the ordering of the ends of holds;
  the work is in the lemma `MakeRoomFrees`, which shows that pruning or dropping
  one oldest key always leaves a place.
- `MakingRoomIsFair`: `DropsTheOldest`. Pruned keys ended before every key that
  stayed, and the dropped key is a minimum.
- `LateFailures`: `LateFailureCostsItsAge`, from the fact that a remembered hold never
  shrinks (`NextHoldRange`) and the invariant.

and of the filter, for every list, every name, any number of lists, and any bounds on names, labels and
texts (`ParserAssumption`, `FilterAssumption`):

- `LookupAgrees`: `VerdictAgrees`. The invariant `FilterInv` says that there is a sequence `R` of rules, with
  the rule numbered `id` at place `id`, that has the rules of all lists and no others; that the engine is
  `Compiled` from it (each rule is in the store, and under its key in the index of its kind, or under
  its anchor in a bucket, and nothing else is there), and, once built, is `Built` (keys in order, and
  each text that is borrowed lies where its rule's key lies); and what the answer given is to `R`
  (`Answers`). The property alone is not inductive: it speaks of an answer and not of the engine that
  will give the next one. The argument has these parts:
  adding a rule keeps `Compiled` (`RuleCompiled`, `ListCompiled`); sorting, sharing of equal keys and
  relocation keep every rule under its key, in whatever order the sort leaves equal keys (`SortedFiles`,
  `RelocatedIs`, `FinishBuilt`); the binary search ends within as many rounds as there are keys, at the
  number of keys below the needle (`SearchIs`), so that `equal_range` is exactly the rules with
  that key (`EqualRangeFiles`); the suffixes of a name at label boundaries are, reversed, the
  prefixes that are looked up, and reversing twice gives the name back (`ReversedSuffix`,
  `ReversedTwice`, `SubtreeFound`); a name that a wildcard matches has the wildcard's anchor among
  its suffixes, so the buckets hide none (`AnchorIs`, `TriedIs`); and the matcher is sound for all texts
  (`GlobSound`) and complete for texts without a star (`GlobComplete`): giving up all but the last star
  loses nothing, because a later star can take over whatever an earlier one would have
  swallowed. The matcher's recursion ends because a lexicographic measure of its four numbers falls
  (`StatesGoOn`, `GlobFromRec`).
- `LookupReports`: `ReportsItsRule`, of names with stars too. The rule's text is a function of its form and
  its key (`FormSays`, `TextIs`), and the key that its span points at after relocation is its own
  (`MatchedIs`); only texts longer than a span are cut.
- `LinesAccounted`: `EachLineAccounted`, from what each branch of the parser yields (`LineYields`) and the
  fact that the lines' outcomes, one after the other, keep their line numbers (`LinesTogether`). The
  parser's other promise, on which the engine rests, comes from the same lemmas (`ParsedIs`): a rule has a
  name of at most 253 bytes, with a byte that is not a star, and without empty labels unless it is
  a wildcard.

`UpstreamProofs` proves, for every number of legs and repairs and every
`MinBackoff <= MaxProbation <= MaxBackoff`:

- `ConnectingIsOwned`: `ConnectingHasBuilder`. Inductive as it stands, because every end
  of a repair takes the state out of Connecting, also that of another repair.
- `WakeupsArrive`: `NoLostWakeup`. It is not inductive: a leg may lose its reason to
  wait before it waits. `WakeInv` covers the leg between its read and its wait: it has
  been woken, or a repair is alive, or the upstream is due, in which case the leg
  itself starts the repair.
- `RetriesElsewhere`: `RetriesOnAnotherConnection`. `GenerationInv` adds that no
  generation exceeds `builds` (so an installed one is new) and that the generation a
  leg tore down is not the installed one from then until it sends again.
- `WaitsAreCapped`: `TypeOK` and `RetryBounded`, the backoff staying on its ladder although
  a late answer may reset it between a repair's load and its store.

`DaemonProofs` proves, for any configurations, lists, commands and `Retry <= Every`, and for a
database that works or fails:

- `ReportIsTrue`: `ReportTellsPolicy`. `LoadTellsPolicy` bridges the step between
  `install` and the report, where the load's locals are what the policy is.
- `FailuresAreRetried`: `FailureRetriedSoon`, of loads that a signal or the timer started. `RetryChosen` follows the
  wait from where it is chosen to the timer; a refused config written into the report in between changes
  neither the timer nor `failed`.

`StorageProofs` proves, for any number of contents and crashes:

- `StoredCopyIsConfirmed`: `TypeOK` and `StoredCopyConfirmed`. The heart of `StoreInv` is
  `TagsBehind`: the ETag on disk, and the one a request carries, is never newer than the
  body. That is what writing the ETag second buys, and with a host that only moves forward
  it makes a 304 true.
- `NothingOlderServed`: `NeverOlder`, from `NewestStored` and `DownloadAhead`.

and, over `SchemaSpec`, for any number of processes, faults and rows and every database that `Left`
allows:

- `OpenedSchemaIsCurrent`: `OpenedIsCurrent`. What a process knows of the database must stay true
  while others change it, so `SchemaInv` says of each place in `Db::open` what the process has
  passed and that it is still there (`Progress`), and that the version is never ahead of the columns
  (`Left(db)`, an invariant too). The step lemma behind it is that objects, columns and version of the committed
  database only grow, although those of the copy do not.
- `NoRowIsLost`: `RowsKept`. Three statements of the rebuild take something away, and `Commit` puts the copy in
  the place of the database: that the copy then has every row must be carried from statement to statement.
  `Stage` says what it is after each: the database without its table, then with an empty one, then with
  the rows of the database again, then without the old table; and that the rows set aside are those of
  the database. It stays true because nobody else writes while a process holds the lock (`Alone`, `Outside`), and
  that is also why what others had logged or swept before is what is copied. At `Commit` the copy has the rows of
  the database, no fewer and no more (`CommitIs`). A rollback drops the copy (`OutsideRollback`).

and, over the `Spec` of `Commands`, for any AdGuard files, configurations, processes and faults:

- `CommandsOpenCurrent` and `CommandsKeepRows`: `OpenedIsCurrent` and `RowsKept` again, for processes that
  do more than open the database and that take turns with commands that do not. `DatabaseStep` shows
  that each of their steps is a step of `Schema` or leaves the database alone.
- `RulesComeFirst`: `ConfigHasItsRules`. It is not inductive: `RulesFirst` adds that a process which is
  about to write a configuration naming the rules file has written that file, also while
  another `migrate` overwrites both.
- `ConfigurationIsServed`: `ServesWhatIsConfigured`. What a daemon goes by was read from a file that may have
  changed since; `GoesBy` says that it was valid when it was read and that what the process serves is
  computed from it. The rest is about the merge: `EffectiveLists` says which lists the entries of the file and
  the profiles come to, whichever override comes first, and `SelfCheckPasses` that what `init` and
  `migrate` generate is valid.
- `MigrationIsFaithful`: `MigratesOrSays`. `UniqueCounts` says that `unique_id` finds a free name, `NamedFacts`
  that distinct lists stay distinct although their names collapse to one slug, and the
  lemmas about `Keep` that whatever is left out is in a warning.

`SchemaInv` and `FilesInv`, the conjunction of the parts named here with the types, hold in TLC on the instance
of `MCCommands` too. What the recursive functions of `Config` and `Migrate` compute is proved by
least counterexample (`UpTo`), for files of any length.

`PoolProofs` proves, for any number of upstreams and overlapping queries, any budget, timeout
and backoff:

- `StartupKeepsToBudget`: `TypeOK` and `StartsWithinBudget`, with `Alone`: nobody is built until the
  pool is up.
- `RaceIsFair`: `FailsOnlyTogether`. It is not inductive: the strengthening is `NoResultLost`, that
  while a query races each upstream's leg is running, or its result is in the channel, or
  its error was collected, so a closed channel means that all failed; and `OkIsTrue`, that a
  result in the channel says what its leg did. `OneCall` reduces a step to the call that takes it.

`CacheProofs` proves, for any keys, messages, capacity, byte budget, stale window and lag of the callers
(`CallsAssumption`: sizes, TTLs and times are natural numbers):

- `SlotsStayWhole`: `SlotsWhole`. As it stands it is not what an induction needs: it speaks of walks of a
  given length. `CacheInv` says instead that three things exist: a sequence `L` of distinct slots whose
  order the `prev` and `next` fields, `head` and `tail` spell out (`Chain`), a sequence `F` that the
  `next_free` fields and `free_head` spell out (`Spares`), which together cover every slot (`Covered`), and
  running sums `f` of the entries' bytes that end in `bytes_total` (`Sums`); that the map and the keys in
  the slots are inverse to each other (`Keyed`); and that only a lone entry is over budget (`Kept`).
  There is one lemma per helper of `Inner`, which says what it does to the triple: `UnlinkChain`,
  `PushChain`, `MoveToHead`, `RemoveWhole`, `AddWhole`, `ReplaceWhole`. `AllocIs` counts: with nothing free
  there are as many slots as entries, so a new slot stays within the capacity. The saturating
  subtraction of `remove` never saturates. The loop `evict_to_byte_budget` goes by induction over its
  rounds (`EvictWhole`): it stops at the longest prefix of the recency list within the budget. That the
  recursive walks and sum in the statement are `L`, `F` and `f` is proved in the same way, since
  only one function satisfies each recursion (`OneWalk`).
- `FreshStaysWithinLifetime`: the action property `FreshWithinLifetime`. The invariant also says that each
  entry's TTL is the `Lifetime` of its own message, which no record undercuts (`LifetimeIs`).
- `ImplementsLru`: `RefinesLru`, initial states and steps. The entries in the order of `L` are the abstract
  list; the operators of `CacheEntries` (`Without`, `Touched`, `Trim`, `Stored`) are what the helpers'
  lemmas say of it (`WithoutIs`, `TouchedIs`, `TrimIs`, `StoredNew`, `StoredOver`).

`PipelineProofs` proves, for any number of queries, names, policies and messages, and any cache,
hold-down and cap:

- `Admission`: `AdmissionBound`, that is the type invariant, the exact counter and the cap. The counter
  is the cardinality of the set of queries past `fetch_add`; a query may stand above the cap, but only
  one that is about to be shed.
- `OneFlightPerKey`: `SingleFlight`. It holds because of where a query may stand when it has a task of
  its own: `Places` says that the query that spawned a lookup or a refresh can start no other, and
  that its key does not change, so a guard that removes by key removes its own entry.
- `OutcomeShared`: `SharedOutcome`. `Channels` follows a receiver: who waits has joined a lookup, the inbox
  holds what that lookup came to as soon as it has published and nothing before, and who has stopped
  waiting joined a lookup that is over.
- `OneSnapshotDecides`: `SnapshotDecides`. `Snapshots` says that a query before its first
  check has no snapshot, and that one which resolves was let pass by its own snapshot (`Judged`), with
  the verdict of that snapshot in its log record; an install in between touches neither.
- `CacheServesInTime`: `ServedInTime`. `Stamps` says that an entry is never stamped later than its message
  was produced and lives no longer than the message's lifetime, whichever task stored it. The
  recency list enters through lemmas about `Stored`, `Touched` and `Without`: what they keep was
  there before.

`LogWriterProofs` proves, for any number of queries, connections and slots, any capacity and batch
size, with transactions that fail and a writer that may not start:

- `EveryRecordAccounted`: `LogAccounted`. `AccountInv` relates the four sequences: what was accepted and
  not lost is, in order, what is on disk, in the batch and in the queue (`InOrder`), each record is
  in one of them once (`Once`), a record is taken only after it was made (`Lives`), and the number of
  records made is that of those accepted plus the drops (`Counted`).
- `ShutdownLosesNothing`: `ShutdownSettles`. `Ahead` says where a record must be for a flush still to
  cover it: settled, in the batch, or in the queue with no flush message before it. `Drains`
  says the same of the queries that shutdown counted.

  The lemmas are about the operator `Sift`, which leaves the members of a set out of a sequence: what it
  does to a concatenation, to one element, and to a set that grows. It is a recursive function, and
  its lemmas are proved from the least-number principle (`UpTo`, itself derived from the
  well-foundedness of the naturals), with the statement to be proved by induction written as a set.

The types of `FailureHolds`, `Upstream`, `ListStore` and `Pool`, and `HoldBounded` and
`RetryBounded`, are proved and not repeated in the runs.

Only model-checked: liveness (out of the prover's reach), and the property that is violated. Every
invariant and every action property that a passing run checks is proved. `CacheInv` quantifies over all sequences,
which TLC cannot; what it checks of it is `SlotsWhole`, whose walks are those sequences.

## 5. Not modelled

- Wire formats, truncation and socket options; TOML and YAML parsing; logging.
- The sampling of counters in `publish_stats`: it touches nothing that another part reads back. The sweep of
  the divergences, which is that of the queries over again.
- The read queries behind `log`, `stats`, `explain`, `check` and `shadow-report`, and how they print.
- Concurrent fetches of several lists: each has files of its own.
- The contents of the safe-search table, the test kit and the packaging, except that the service unit
  restarts a daemon that failed.
- `swap_engine` and `swap_policy` (read, then install), which are called by tests only.

## 6. Plan

Done: caches, pipeline, upstream, pool, daemon with `reload` and `status`, lists, log writer with
connections and comparisons, filter engine and parser, schema, configuration, migration and the
commands; proofs for both caches, the upstream, the pool, the daemon, the lists, the schema, the
pipeline, the log writer, the commands with migration and configuration, and the filter with its
parser. What could come next:

1. The sampling of counters, if something comes to read what it writes.
2. Several lists fetched at once, if they come to share state; today each has files of its own.
