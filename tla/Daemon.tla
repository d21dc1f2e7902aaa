------------------------------- MODULE Daemon -------------------------------
(***************************************************************************)
(* The running daemon (crates/core/src/daemon.rs) and the command that     *)
(* reloads it (crates/cli/src/commands/reload.rs).  The signal and         *)
(* heartbeat loop hands configurations to one refresher task over a        *)
(* channel with one place.  Both write the runtime report, which they      *)
(* share behind a mutex, to two rows of the database; `sumidero reload`    *)
(* signals the daemon and watches the report row.  A step is the code      *)
(* between two accesses to shared state.                                   *)
(***************************************************************************)
EXTENDS Naturals

CONSTANTS
    Config,         \* configurations that load: [rules |-> ..., fixed |-> ...], where
                    \* fixed stands for the settings only a restart applies
    Started,        \* the one the daemon started with
    Broken,         \* a file that does not load
    Lists,          \* contents the lists may have
    Caller,         \* runs of `sumidero reload` and plain SIGHUPs
    Every,          \* REFRESH_EVERY
    Retry,          \* RETRY_AFTER_FETCH_FAILURE
    FreshSecs,      \* HEARTBEAT_FRESH_SECS
    DbMayFail,      \* may a write to the database fail?
    MaxClock,       \* bound on time
    MaxEdits,       \* bound on edits of the config file
    None            \* absent

ASSUME DaemonAssumption ==
    /\ {Every, Retry, FreshSecs, MaxClock, MaxEdits} \subseteq Nat
    /\ Retry <= Every
    /\ DbMayFail \in BOOLEAN
    /\ Started \in Config /\ Broken \notin Config

VARIABLES
    clock,          \* unix_now()
    file,           \* the config file
    edits,          \* edits so far
    hup,            \* a SIGHUP not yet received by the loop
    queue,          \* the reload channel
    mpc, msnap,     \* the loop: its place, the report it copied
    rpc, load,      \* the refresher: its place, the load it is at
    rsnap,          \* the hashes it copied for the heartbeat
    writing,        \* its blocking write of the report
    deadline,       \* its timer
    current,        \* the config whose lists are in force
    failed,         \* a history: did its last load fail?
    aborting,       \* refresher.abort() was called
    policy,         \* the policy installed in the pipeline
    report,         \* the shared runtime report
    row,            \* daemon_stats: the runtime report as stored
    beat,           \* the heartbeat row
    caller          \* the reload commands

disk == <<file, edits>>
schedule == <<deadline, current, failed>>
stored == <<row, beat>>
vars == <<clock, disk, hup, queue, mpc, msnap, rpc, load, rsnap, writing, schedule, aborting,
          policy, report, stored, caller>>

\* A ReloadOutcome.  "serves" is a history: the commands whose signal had been
\* sent when the config of this load was read.
Outcome(trigger, ok, serves) ==
    [ts |-> clock, trigger |-> trigger, ok |-> ok, serves |-> serves]

\* What == compares: two outcomes of one second that ended alike are equal.
Seen(o) == [ts |-> o.ts, trigger |-> o.trigger, ok |-> o.ok]

restart_only_changes(config) == config.fixed # Started.fixed

next_refresh(failing) == IF failing THEN Retry ELSE Every

\* Commands whose SIGHUP is out.
Signalled == {c \in Caller : caller[c].pc \notin {"idle", "signal", "refused"}}

\* A write to a row of the database, which may fail and is then only logged.
Written(was, value) == {value} \cup (IF DbMayFail THEN {was} ELSE {})

Heartbeat(r) == [config |-> r.config, lists |-> r.lists, ts |-> clock]

\* Serving has just begun: the lists were loaded from stored copies, and the
\* refresher is due at once, or they were downloaded, and it is due later.
Init ==
    /\ clock = 0
    /\ file = Started /\ edits = 0
    /\ hup = FALSE /\ queue = None
    /\ \E lists \in Lists, failing \in BOOLEAN : \E wait \in {0, next_refresh(failing)} :
          /\ policy = [config |-> Started, lists |-> lists]
          /\ report = [config |-> Started, lists |-> lists, failing |-> failing,
                       last |-> Outcome("startup", TRUE, {}), pending |-> FALSE,
                       next |-> wait]
          /\ deadline = wait
    /\ row = report /\ beat = Heartbeat(report)
    /\ mpc = "select" /\ msnap = None
    /\ rpc = "wait" /\ load = None /\ rsnap = None /\ writing = None
    /\ current = Started /\ failed = FALSE /\ aborting = FALSE
    /\ caller = [c \in Caller |-> [pc |-> "idle", before |-> None, got |-> None]]

-----------------------------------------------------------------------------
(* The signal and heartbeat loop.                                          *)

\* SIGHUP: load the file and offer it to the refresher; when one is queued
\* already, the new one is dropped.
HangUp ==
    /\ mpc = "select" /\ hup
    /\ hup' = FALSE
    /\ \/ /\ file \in Config /\ queue = None
          /\ queue' = [config |-> file, serves |-> Signalled]
          /\ UNCHANGED <<mpc, report>>
       \/ /\ file \in Config /\ queue # None
          /\ UNCHANGED <<queue, mpc, report>>
       \/ /\ file = Broken
          /\ report' = [report EXCEPT !.last = Outcome("signal", FALSE, Signalled)]
          /\ mpc' = "snapshot"
          /\ UNCHANGED queue
    /\ UNCHANGED <<clock, disk, msnap, rpc, load, rsnap, writing, schedule, aborting,
                   policy, stored, caller>>

\* publish_runtime after a refused config.
LoopSnapshot ==
    /\ mpc = "snapshot"
    /\ msnap' = report
    /\ mpc' = "publish"
    /\ UNCHANGED <<clock, disk, hup, queue, rpc, load, rsnap, writing, schedule,
                   aborting, policy, report, stored, caller>>

LoopPublish ==
    /\ mpc = "publish"
    /\ row' \in Written(row, msnap)
    /\ mpc' = "select" /\ msnap' = None
    /\ UNCHANGED <<clock, disk, hup, queue, rpc, load, rsnap, writing, schedule,
                   aborting, policy, report, beat, caller>>

\* A heartbeat: copy the report, write the heartbeat row, then the stats row.
BeatSnapshot ==
    /\ mpc = "select"
    /\ msnap' = report
    /\ mpc' = "beat"
    /\ UNCHANGED <<clock, disk, hup, queue, rpc, load, rsnap, writing, schedule,
                   aborting, policy, report, stored, caller>>

\* Mutant of BeatWrite: only the heartbeat row is written every minute.
BeatWriteOnly ==
    /\ mpc = "beat"
    /\ beat' \in Written(beat, Heartbeat(msnap))
    /\ mpc' = "select" /\ msnap' = None
    /\ UNCHANGED <<clock, disk, hup, queue, rpc, load, rsnap, writing, schedule,
                   aborting, policy, report, row, caller>>

BeatWrite ==
    /\ mpc = "beat"
    /\ beat' \in Written(beat, Heartbeat(msnap))
    /\ mpc' = "publish"
    /\ UNCHANGED <<clock, disk, hup, queue, msnap, rpc, load, rsnap, writing, schedule,
                   aborting, policy, report, row, caller>>

\* SIGTERM or SIGINT: stop the refresher, then the server; drain and exit.
Terminate ==
    /\ mpc = "select"
    /\ mpc' = "drain"
    /\ aborting' = TRUE
    /\ UNCHANGED <<clock, disk, hup, queue, msnap, rpc, load, rsnap, writing, schedule,
                   policy, report, stored, caller>>

Exit ==
    /\ mpc = "drain"
    /\ rpc = "aborted" /\ writing = None
    /\ mpc' = "stopped"
    /\ UNCHANGED <<clock, disk, hup, queue, msnap, rpc, load, rsnap, writing, schedule,
                   aborting, policy, report, stored, caller>>

-----------------------------------------------------------------------------
(* The refresher.  abort() takes effect where it awaits: waiting for work, *)
(* building, and waiting for its report to be written.                     *)

Awaiting == {"wait", "build", "written"}

Aborted ==
    /\ aborting /\ rpc \in Awaiting
    /\ rpc' = "aborted"
    /\ UNCHANGED <<clock, disk, hup, queue, mpc, msnap, load, rsnap, writing, schedule,
                   aborting, policy, report, stored, caller>>

TakeReload ==
    /\ rpc = "wait" /\ ~aborting
    /\ queue # None
    /\ load' = [trigger |-> "signal", config |-> queue.config, serves |-> queue.serves,
                lists |-> None, wait |-> 0, failing |-> FALSE]
    /\ queue' = None
    /\ rpc' = "build"
    /\ UNCHANGED <<clock, disk, hup, mpc, msnap, rsnap, writing, schedule, aborting,
                   policy, report, stored, caller>>

TimerFires ==
    /\ rpc = "wait" /\ ~aborting
    /\ clock >= deadline
    /\ load' = [trigger |-> "timer", config |-> current, serves |-> {},
                lists |-> None, wait |-> 0, failing |-> FALSE]
    /\ rpc' = "build"
    /\ UNCHANGED <<clock, disk, hup, queue, mpc, msnap, rsnap, writing, schedule,
                   aborting, policy, report, stored, caller>>

\* build_policy succeeds, perhaps with old copies of lists that could not be
\* fetched, and the whole policy is installed.
Installed(lists, failing) ==
    /\ rpc = "build" /\ ~aborting
    /\ policy' = [config |-> load.config, lists |-> lists]
    /\ load' = [load EXCEPT !.lists = lists, !.failing = failing,
                            !.wait = next_refresh(failing)]
    /\ rpc' = "report"
    /\ UNCHANGED <<clock, disk, hup, queue, mpc, msnap, rsnap, writing, schedule,
                   aborting, report, stored, caller>>

\* Mutant of Reported: the config in force is not remembered for the timer.
ReportedOnly ==
    /\ rpc = "report"
    /\ report' = [report EXCEPT !.config = load.config, !.lists = load.lists,
                                !.failing = load.failing,
                                !.pending = restart_only_changes(load.config),
                                !.last = Outcome(load.trigger, TRUE, load.serves)]
    /\ failed' = FALSE
    /\ rpc' = "next"
    /\ UNCHANGED <<clock, disk, hup, queue, mpc, msnap, load, rsnap, writing, deadline,
                   current, aborting, policy, stored, caller>>

Reported ==
    /\ rpc = "report"
    /\ report' = [report EXCEPT !.config = load.config, !.lists = load.lists,
                                !.failing = load.failing,
                                !.pending = restart_only_changes(load.config),
                                !.last = Outcome(load.trigger, TRUE, load.serves)]
    /\ current' = load.config /\ failed' = FALSE
    /\ rpc' = "next"
    /\ UNCHANGED <<clock, disk, hup, queue, mpc, msnap, load, rsnap, writing, deadline,
                   aborting, policy, stored, caller>>

\* Mutant of BuildFails: a failed load ends the refresher.
BuildFailsForGood ==
    /\ rpc = "build" /\ ~aborting
    /\ rpc' = "aborted"
    /\ UNCHANGED <<clock, disk, hup, queue, mpc, msnap, load, rsnap, writing, schedule,
                   aborting, policy, report, stored, caller>>

\* Mutant of BuildFails: the next try waits for the normal period.
BuildFailsPatiently ==
    /\ rpc = "build" /\ ~aborting
    /\ report' = [report EXCEPT !.last = Outcome(load.trigger, FALSE, load.serves)]
    /\ load' = [load EXCEPT !.wait = Every]
    /\ failed' = TRUE
    /\ rpc' = "next"
    /\ UNCHANGED <<clock, disk, hup, queue, mpc, msnap, rsnap, writing, deadline,
                   current, aborting, policy, stored, caller>>

\* build_policy fails: the policy stays, the report says why.
BuildFails ==
    /\ rpc = "build" /\ ~aborting
    /\ report' = [report EXCEPT !.last = Outcome(load.trigger, FALSE, load.serves)]
    /\ load' = [load EXCEPT !.wait = Retry]
    /\ failed' = TRUE
    /\ rpc' = "next"
    /\ UNCHANGED <<clock, disk, hup, queue, mpc, msnap, rsnap, writing, deadline,
                   current, aborting, policy, stored, caller>>

SetTimer ==
    /\ rpc = "next"
    /\ deadline' = clock + load.wait
    /\ report' = [report EXCEPT !.next = clock + load.wait]
    /\ rpc' = "publish"
    /\ UNCHANGED <<clock, disk, hup, queue, mpc, msnap, load, rsnap, writing, current,
                   failed, aborting, policy, stored, caller>>

\* publish_runtime: the copy is handed to a blocking thread, which abort() does
\* not stop.
Publish ==
    /\ rpc = "publish"
    /\ writing' = report
    /\ rpc' = "written"
    /\ UNCHANGED <<clock, disk, hup, queue, mpc, msnap, load, rsnap, schedule, aborting,
                   policy, report, stored, caller>>

RowWritten ==
    /\ writing # None
    /\ row' \in Written(row, writing)
    /\ writing' = None
    /\ UNCHANGED <<clock, disk, hup, queue, mpc, msnap, rpc, load, rsnap, schedule,
                   aborting, policy, report, beat, caller>>

Copy ==
    /\ rpc = "written" /\ ~aborting /\ writing = None
    /\ rsnap' = [config |-> report.config, lists |-> report.lists]
    /\ rpc' = "beat"
    /\ UNCHANGED <<clock, disk, hup, queue, mpc, msnap, load, writing, schedule,
                   aborting, policy, report, stored, caller>>

RefresherBeat ==
    /\ rpc = "beat"
    /\ beat' \in Written(beat, Heartbeat(rsnap))
    /\ rpc' = "wait" /\ rsnap' = None /\ load' = None
    /\ UNCHANGED <<clock, disk, hup, queue, mpc, msnap, writing, schedule, aborting,
                   policy, report, row, caller>>

-----------------------------------------------------------------------------
(* `sumidero reload`.                                                      *)

\* The outcome in the report row, if a signal caused it.
last_signal_reload == IF row.last.trigger = "signal" THEN Seen(row.last) ELSE None

\* Refuse a config that does not load and a daemon without a fresh heartbeat;
\* then remember the outcome that is already there.
Ask(c) ==
    /\ caller[c].pc = "idle"
    /\ \/ /\ file = Broken \/ clock - beat.ts > FreshSecs
          /\ caller' = [caller EXCEPT ![c].pc = "refused"]
       \/ /\ file # Broken /\ clock - beat.ts <= FreshSecs
          /\ caller' = [caller EXCEPT ![c].pc = "signal", ![c].before = last_signal_reload]
    /\ UNCHANGED <<clock, disk, hup, queue, mpc, msnap, rpc, load, rsnap, writing, schedule,
                   aborting, policy, report, stored>>

\* kill: signals that are pending together are one.
Kill(c) ==
    /\ caller[c].pc = "signal"
    /\ \/ /\ mpc # "stopped"
          /\ hup' = TRUE
          /\ \/ caller' = [caller EXCEPT ![c].pc = "waiting"]
             \/ caller' = [caller EXCEPT ![c].pc = "signalled", ![c].before = None]
       \/ /\ mpc = "stopped"
          /\ caller' = [caller EXCEPT ![c].pc = "refused"]
          /\ UNCHANGED hup
    /\ UNCHANGED <<clock, disk, queue, mpc, msnap, rpc, load, rsnap, writing, schedule,
                   aborting, policy, report, stored>>

\* The first outcome that is not the remembered one is reported.
Poll(c) ==
    /\ caller[c].pc = "waiting"
    /\ last_signal_reload \notin {None, caller[c].before}
    /\ caller' = [caller EXCEPT ![c].pc = IF row.last.ok THEN "applied" ELSE "failed",
                                ![c].before = None, ![c].got = row.last]
    /\ UNCHANGED <<clock, disk, hup, queue, mpc, msnap, rpc, load, rsnap, writing, schedule,
                   aborting, policy, report, stored>>

GiveUp(c) ==
    /\ caller[c].pc = "waiting"
    /\ caller' = [caller EXCEPT ![c].pc = "no outcome", ![c].before = None]
    /\ UNCHANGED <<clock, disk, hup, queue, mpc, msnap, rpc, load, rsnap, writing, schedule,
                   aborting, policy, report, stored>>

-----------------------------------------------------------------------------
(* `sumidero status`.                                                      *)

\* What a report says is wrong.  The reasons that come from counters and from
\* the age of a list are not in this model.
degraded_reasons(runtime) ==
    LET If(condition, reason) == IF condition THEN {reason} ELSE {}
    IN  If(runtime.failing, "list_fetch_failed") \cup If(~runtime.last.ok, "reload_failed")
        \cup If(runtime.pending, "pending_restart")

\* The exit code: not running, degraded, or well.
status ==
    IF clock - beat.ts > FreshSecs THEN 5
    ELSE IF degraded_reasons(row) # {} THEN 7 ELSE 0

-----------------------------------------------------------------------------
Edit(content) ==
    /\ edits < MaxEdits
    /\ file' = content
    /\ edits' = edits + 1
    /\ UNCHANGED <<clock, hup, queue, mpc, msnap, rpc, load, rsnap, writing, schedule,
                   aborting, policy, report, stored, caller>>

Tick ==
    /\ clock < MaxClock
    /\ clock' = clock + 1
    /\ UNCHANGED <<disk, hup, queue, mpc, msnap, rpc, load, rsnap, writing, schedule,
                   aborting, policy, report, stored, caller>>

Loop == HangUp \/ LoopSnapshot \/ LoopPublish \/ BeatWrite \/ Exit

Refresh ==
    \/ Aborted \/ TakeReload \/ TimerFires
    \/ \E lists \in Lists, failing \in BOOLEAN : Installed(lists, failing)
    \/ Reported \/ BuildFails \/ SetTimer \/ Publish \/ Copy \/ RefresherBeat

Command(c) == Ask(c) \/ Kill(c) \/ Poll(c) \/ GiveUp(c)

Next ==
    \/ Loop \/ BeatSnapshot \/ Terminate
    \/ Refresh \/ RowWritten
    \/ \E c \in Caller : Command(c)
    \/ \E content \in Config \cup {Broken} : Edit(content)
    \/ Tick

Spec == Init /\ [][Next]_vars

\* The runtime runs every ready task, the heartbeat interval keeps firing, and
\* select! picks among its ready branches at random.
Fairness ==
    /\ WF_vars(Loop) /\ SF_vars(HangUp) /\ WF_vars(BeatSnapshot)
    /\ WF_vars(Refresh) /\ WF_vars(RowWritten)

FairSpec == Spec /\ Fairness

-----------------------------------------------------------------------------
(***************************************************************************)
(* Properties                                                              *)
(***************************************************************************)

\* The policy is replaced whole or not at all: wherever the refresher can be
\* aborted, after a failed load and after a shutdown, the report names the
\* config and lists in force, the timer would reload that config, and the
\* settings waiting for a restart are that config's (daemon.rs: Refresher::run).
ReportTellsPolicy ==
    rpc # "report" =>
        /\ report.config = policy.config /\ report.lists = policy.lists
        /\ current = policy.config
        /\ report.pending <=> restart_only_changes(policy.config)

\* While a list is served from an old copy, or when the last load failed,
\* whether a signal or the timer had started it, the refresher tries again
\* within RETRY_AFTER_FETCH_FAILURE, whatever signals come in between, and the
\* report says when (daemon.rs: next_refresh).  A config the loop refuses is no
\* load: it neither calls for a retry nor puts one off.
FailureRetriedSoon ==
    /\ rpc \in {"publish", "written", "beat", "wait"} => report.next = deadline
    /\ rpc = "wait" /\ (report.failing \/ failed) => deadline <= clock + Retry

\* A config the loop accepted is loaded and gets an outcome, unless the daemon
\* is stopped (daemon.rs: the refresher survives failed loads).
AcceptedReloadConcludes ==
    \A c \in Caller :
        (queue # None /\ c \in queue.serves) ~> (aborting \/ c \in report.last.serves)

\* What `status` and `explain` read catches up with the daemon, although the
\* loop and the refresher may overwrite each other's rows with older reports:
\* both rows tell the policy in force, and the exit code is 7 exactly when that
\* policy has a list that could not be fetched or settings that wait for a
\* restart, or the last load failed (daemon.rs: the heartbeat writes both rows).
StatusCatchesUp ==
    []<>(\/ aborting
         \/ /\ row = report /\ beat.config = policy.config /\ beat.lists = policy.lists
            /\ status = IF \/ report.failing \/ ~report.last.ok
                           \/ policy.config.fixed # Started.fixed
                        THEN 7 ELSE 0)

\* What docs/STATE-MACHINES.md says of `sumidero reload`: it waits for the
\* matching last_reload, one whose config was read after its signal.
ReloadReportsItsOwn ==
    \A c \in Caller : caller[c].got # None => c \in caller[c].got.serves
=============================================================================
