---------------------------- MODULE DaemonProofs ----------------------------
(***************************************************************************)
(* Proofs about the daemon: the report tells the policy in force and a     *)
(* failure is retried soon, for any configurations, lists, callers and     *)
(* periods, however long it runs and whether or not the database works.    *)
(***************************************************************************)
EXTENDS Daemon, TLAPS

OutcomeType ==
    [ts : Nat, trigger : {"startup", "signal", "timer"}, ok : BOOLEAN, serves : SUBSET Caller]

ReportType ==
    [config : Config, lists : Lists, failing : BOOLEAN, last : OutcomeType,
     pending : BOOLEAN, next : Nat]

LoadType ==
    [trigger : {"signal", "timer"}, config : Config, serves : SUBSET Caller,
     lists : Lists \cup {None}, wait : {0, Retry, Every}, failing : BOOLEAN]

\* The types of what the refresher works with; the rows and the callers do not
\* matter to it.
RefresherTypes ==
    /\ clock \in Nat /\ deadline \in Nat /\ failed \in BOOLEAN
    /\ file \in Config \cup {Broken} /\ current \in Config
    /\ queue \in [config : Config, serves : SUBSET Caller] \cup {None}
    /\ rpc \in {"build", "report", "next"} => load \in LoadType
    /\ policy \in [config : Config, lists : Lists]
    /\ report \in ReportType

\* Between the installation of a policy and its report, the load remembers both.
LoadTellsPolicy ==
    rpc = "report" =>
        /\ policy.config = load.config /\ policy.lists = load.lists
        /\ load.lists \in Lists
        /\ load.wait = next_refresh(load.failing)

\* A list could not be fetched or the whole load failed.
Failing == report.failing \/ failed

\* The retry is chosen with the report and waited for after it.
RetryChosen ==
    /\ rpc = "next" /\ Failing => load.wait = Retry
    /\ rpc \in {"publish", "written", "beat", "wait"} =>
          report.next = deadline /\ (Failing => deadline <= clock + Retry)

\* Each part is kept by every step together with the others.
RefresherInv == RefresherTypes /\ ReportTellsPolicy /\ LoadTellsPolicy /\ RetryChosen

LEMMA RefresherInit == Init => RefresherInv
<1> SUFFICES ASSUME Init PROVE RefresherInv
    OBVIOUS
<1> PICK lists \in Lists, failing \in BOOLEAN : \E wait \in {0, next_refresh(failing)} :
          /\ policy = [config |-> Started, lists |-> lists]
          /\ report = [config |-> Started, lists |-> lists, failing |-> failing,
                       last |-> Outcome("startup", TRUE, {}), pending |-> FALSE,
                       next |-> wait]
          /\ deadline = wait
    BY DEF Init
<1> PICK wait \in {0, next_refresh(failing)} :
          /\ policy = [config |-> Started, lists |-> lists]
          /\ report = [config |-> Started, lists |-> lists, failing |-> failing,
                       last |-> Outcome("startup", TRUE, {}), pending |-> FALSE,
                       next |-> wait]
          /\ deadline = wait
    OBVIOUS
<1>1. wait \in Nat /\ (failing => wait <= Retry)
    BY DaemonAssumption DEF next_refresh
<1>2. Outcome("startup", TRUE, {}) \in OutcomeType
    BY DEF Outcome, OutcomeType, Init
<1>3. RefresherTypes
    BY <1>1, <1>2, DaemonAssumption DEF Init, RefresherTypes, ReportType
<1>4. ReportTellsPolicy
    BY DEF Init, ReportTellsPolicy, restart_only_changes
<1>5. LoadTellsPolicy /\ RetryChosen
    BY <1>1, DaemonAssumption DEF Init, LoadTellsPolicy, RetryChosen, Failing, Outcome
<1> QED
    BY <1>3, <1>4, <1>5 DEF RefresherInv

\* The part of the state the invariant reads.
core == <<clock, deadline, failed, file, current, queue, rpc, load, policy, report>>

LEMMA CoreUnchanged == RefresherInv /\ UNCHANGED core => RefresherInv'
BY DEF RefresherInv, core, RefresherTypes, ReportTellsPolicy, LoadTellsPolicy, RetryChosen,
       Failing

\* An outcome of now is an outcome.
LEMMA OutcomeTyped ==
    ASSUME clock \in Nat, NEW trigger \in {"startup", "signal", "timer"},
           NEW ok \in BOOLEAN, NEW serves \in SUBSET Caller
    PROVE  Outcome(trigger, ok, serves) \in OutcomeType
BY DEF Outcome, OutcomeType

\* The loop changes no more of the report than the last outcome, and leaves the
\* timer as the last load set it.
LEMMA LoopKeeps == RefresherInv /\ HangUp => RefresherInv'
<1> SUFFICES ASSUME RefresherInv, HangUp PROVE RefresherInv'
    OBVIOUS
<1> USE DEF RefresherInv
<1> DEFINE now == Outcome("signal", FALSE, Signalled)
<1>1. CASE file = Broken /\ report' = [report EXCEPT !.last = now] /\ UNCHANGED queue
    <2>1. now \in OutcomeType
        BY OutcomeTyped DEF Signalled, RefresherTypes
    <2> HIDE DEF now
    <2>2. RefresherTypes'
        BY <1>1, <2>1 DEF HangUp, disk, schedule, RefresherTypes, ReportType
    <2>3. ReportTellsPolicy' /\ LoadTellsPolicy'
        BY <1>1 DEF HangUp, disk, schedule, RefresherTypes, ReportType, ReportTellsPolicy,
                    LoadTellsPolicy
    <2>4. RetryChosen'
        BY <1>1 DEF HangUp, disk, schedule, RefresherTypes, ReportType, RetryChosen, Failing
    <2> QED
        BY <2>2, <2>3, <2>4
<1>2. CASE file \in Config /\ UNCHANGED report
    <2>1. Signalled \in SUBSET Caller
        BY DEF Signalled
    <2>2. queue' = [config |-> file, serves |-> Signalled] \/ queue' = queue
        BY <1>2, DaemonAssumption DEF HangUp
    <2>3. queue' \in [config : Config, serves : SUBSET Caller] \cup {None}
        BY <1>2, <2>1, <2>2 DEF RefresherTypes
    <2> QED
        BY <1>2, <2>3 DEF HangUp, disk, schedule, RefresherTypes, ReportTellsPolicy,
                          LoadTellsPolicy, RetryChosen, Failing
<1> QED
    BY <1>1, <1>2 DEF HangUp

\* The refresher, up to the end of a build.
LEMMA LoadKeeps ==
    RefresherInv /\ (Aborted \/ TakeReload \/ TimerFires
                     \/ \E lists \in Lists, failing \in BOOLEAN : Installed(lists, failing))
    => RefresherInv'
<1> SUFFICES ASSUME RefresherInv,
                    Aborted \/ TakeReload \/ TimerFires
                    \/ \E lists \in Lists, failing \in BOOLEAN : Installed(lists, failing)
             PROVE  RefresherInv'
    OBVIOUS
<1> USE DEF RefresherInv
<1>1. CASE Aborted
    BY <1>1 DEF Aborted, Awaiting, disk, schedule, RefresherTypes, ReportTellsPolicy,
                LoadTellsPolicy, RetryChosen, Failing
<1>2. CASE TakeReload
    <2>1. load' \in LoadType
        BY <1>2 DEF TakeReload, RefresherTypes, LoadType
    <2> QED
        BY <1>2, <2>1 DEF TakeReload, disk, schedule, RefresherTypes, ReportTellsPolicy,
                          LoadTellsPolicy, RetryChosen, Failing
<1>3. CASE TimerFires
    <2>1. load' \in LoadType
        BY <1>3 DEF TimerFires, RefresherTypes, LoadType
    <2> QED
        BY <1>3, <2>1 DEF TimerFires, disk, schedule, RefresherTypes, ReportTellsPolicy,
                          LoadTellsPolicy, RetryChosen, Failing
<1>4. CASE \E lists \in Lists, failing \in BOOLEAN : Installed(lists, failing)
    <2> PICK lists \in Lists, failing \in BOOLEAN : Installed(lists, failing)
        BY <1>4
    <2>1. load' \in LoadType /\ load'.lists = lists /\ load'.failing = failing
          /\ load'.wait = next_refresh(failing) /\ load'.config = load.config
        BY DEF Installed, RefresherTypes, LoadType, next_refresh
    <2>2. policy' \in [config : Config, lists : Lists]
        BY DEF Installed, RefresherTypes, LoadType
    <2> QED
        BY <2>1, <2>2 DEF Installed, disk, schedule, RefresherTypes, ReportTellsPolicy,
                          LoadTellsPolicy, RetryChosen, Failing
<1> QED
    BY <1>1, <1>2, <1>3, <1>4

\* The refresher, from the end of a build to the heartbeat.
LEMMA ReportKeeps ==
    RefresherInv /\ (Reported \/ BuildFails \/ SetTimer \/ Publish \/ Copy \/ RefresherBeat)
    => RefresherInv'
<1> SUFFICES ASSUME RefresherInv,
                    Reported \/ BuildFails \/ SetTimer \/ Publish \/ Copy \/ RefresherBeat
             PROVE  RefresherInv'
    OBVIOUS
<1> USE DEF RefresherInv
<1>1. CASE Reported
    <2> DEFINE now == Outcome(load.trigger, TRUE, load.serves)
    <2>1. now \in OutcomeType /\ now.ok = TRUE
        <3>1. now \in OutcomeType
            BY <1>1, OutcomeTyped DEF Reported, RefresherTypes, LoadType
        <3> QED
            BY <3>1 DEF Outcome
    <2>2. restart_only_changes(load.config) \in BOOLEAN
        BY DEF restart_only_changes
    <2>3. /\ report' \in ReportType
          /\ report'.config = load.config /\ report'.lists = load.lists
          /\ report'.failing = load.failing /\ report'.last = now
          /\ report'.pending = restart_only_changes(load.config)
        <3> HIDE DEF now
        <3> QED
            BY <1>1, <2>1, <2>2 DEF Reported, RefresherTypes, LoadType, LoadTellsPolicy,
                                    ReportType, now
    <2> HIDE DEF now
    <2>4. RefresherTypes'
        BY <1>1, <2>3 DEF Reported, disk, RefresherTypes, LoadType
    <2>5. ReportTellsPolicy' /\ LoadTellsPolicy'
        BY <1>1, <2>3 DEF Reported, ReportTellsPolicy, LoadTellsPolicy, restart_only_changes
    <2>6. RetryChosen'
        BY <1>1, <2>1, <2>3 DEF Reported, RetryChosen, Failing, LoadTellsPolicy, next_refresh
    <2> QED
        BY <2>4, <2>5, <2>6
<1>2. CASE BuildFails
    <2> DEFINE now == Outcome(load.trigger, FALSE, load.serves)
    <2>1. now \in OutcomeType
        BY <1>2, OutcomeTyped DEF BuildFails, RefresherTypes, LoadType
    <2>2. /\ report' \in ReportType
          /\ report'.config = report.config /\ report'.lists = report.lists
          /\ report'.pending = report.pending
        <3> HIDE DEF now
        <3> QED
            BY <1>2, <2>1 DEF BuildFails, RefresherTypes, ReportType, now
    <2> HIDE DEF now
    <2>3. load' \in LoadType /\ load'.wait = Retry
        BY <1>2 DEF BuildFails, RefresherTypes, LoadType
    <2>4. RefresherTypes'
        BY <1>2, <2>2, <2>3 DEF BuildFails, disk, schedule, RefresherTypes
    <2>5. ReportTellsPolicy' /\ LoadTellsPolicy'
        BY <1>2, <2>2 DEF BuildFails, schedule, ReportTellsPolicy, LoadTellsPolicy,
                          restart_only_changes
    <2>6. RetryChosen'
        BY <1>2, <2>3 DEF BuildFails, RetryChosen
    <2> QED
        BY <2>4, <2>5, <2>6
<1>3. CASE SetTimer
    <2>1. clock + load.wait \in Nat
        BY <1>3, DaemonAssumption DEF SetTimer, RefresherTypes, LoadType
    <2>2. /\ report' \in ReportType /\ report'.next = clock + load.wait
          /\ report'.config = report.config /\ report'.lists = report.lists
          /\ report'.pending = report.pending /\ report'.failing = report.failing
          /\ report'.last = report.last
        BY <1>3, <2>1 DEF SetTimer, RefresherTypes, ReportType
    <2>3. RefresherTypes'
        BY <1>3, <2>1, <2>2 DEF SetTimer, disk, RefresherTypes
    <2>4. ReportTellsPolicy' /\ LoadTellsPolicy'
        BY <1>3, <2>2 DEF SetTimer, ReportTellsPolicy, LoadTellsPolicy, restart_only_changes
    <2>5. RetryChosen'
        BY <1>3, <2>2, DaemonAssumption DEF SetTimer, RetryChosen, Failing, RefresherTypes
    <2> QED
        BY <2>3, <2>4, <2>5
<1>4. CASE Publish \/ Copy \/ RefresherBeat
    BY <1>4 DEF Publish, Copy, RefresherBeat, disk, schedule, RefresherTypes,
                ReportTellsPolicy, LoadTellsPolicy, RetryChosen, Failing
<1> QED
    BY <1>1, <1>2, <1>3, <1>4

\* Time and edits only add to what is allowed.
LEMMA WorldKeeps ==
    RefresherInv /\ (Tick \/ \E content \in Config \cup {Broken} : Edit(content)) => RefresherInv'
<1> SUFFICES ASSUME RefresherInv, Tick \/ \E content \in Config \cup {Broken} : Edit(content)
             PROVE  RefresherInv'
    OBVIOUS
<1> USE DEF RefresherInv
<1>1. CASE Tick
    <2>1. clock' \in Nat /\ clock' >= clock
        BY <1>1 DEF Tick, RefresherTypes
    <2> QED
        BY <1>1, <2>1, DaemonAssumption DEF Tick, disk, schedule, RefresherTypes,
              ReportTellsPolicy, LoadTellsPolicy, RetryChosen, Failing
<1>2. CASE \E content \in Config \cup {Broken} : Edit(content)
    BY <1>2 DEF Edit, schedule, RefresherTypes, ReportTellsPolicy, LoadTellsPolicy,
                RetryChosen, Failing
<1> QED
    BY <1>1, <1>2

LEMMA RefresherStep == RefresherInv /\ [Next]_vars => RefresherInv'
<1> SUFFICES ASSUME RefresherInv, [Next]_vars PROVE RefresherInv'
    OBVIOUS
<1>1. CASE HangUp
    BY <1>1, LoopKeeps
<1>2. CASE Refresh
    BY <1>2, LoadKeeps, ReportKeeps DEF Refresh
<1>3. CASE Tick \/ \E content \in Config \cup {Broken} : Edit(content)
    BY <1>3, WorldKeeps
<1>4. CASE LoopSnapshot \/ LoopPublish \/ BeatWrite \/ Exit \/ BeatSnapshot \/ Terminate \/ RowWritten
    <2>1. UNCHANGED core
        BY <1>4 DEF LoopSnapshot, LoopPublish, BeatWrite, Exit, BeatSnapshot, Terminate,
                    RowWritten, core, disk, schedule
    <2> QED
        BY <2>1, CoreUnchanged
<1>5. CASE \E c \in Caller : Command(c)
    <2>1. UNCHANGED core
        BY <1>5 DEF Command, Ask, Kill, Poll, GiveUp, core, disk, schedule
    <2> QED
        BY <2>1, CoreUnchanged
<1>6. CASE UNCHANGED vars
    <2>1. UNCHANGED core
        BY <1>6 DEF vars, core, disk, schedule
    <2> QED
        BY <2>1, CoreUnchanged
<1> QED
    BY <1>1, <1>2, <1>3, <1>4, <1>5, <1>6 DEF Next, Loop

\* The report and the timer agree with the policy in force at every moment but
\* the one between installing and reporting (daemon.rs: Refresher::run).
THEOREM ReportIsTrue == Spec => []ReportTellsPolicy
<1>1. RefresherInv => ReportTellsPolicy
    BY DEF RefresherInv
<1> QED
    BY <1>1, RefresherInit, RefresherStep, PTL DEF Spec

\* After a failed load, whatever started it, and while a list is served from an
\* old copy, the timer is at most RETRY_AFTER_FETCH_FAILURE away and the report
\* says so (daemon.rs: next_refresh).
THEOREM FailuresAreRetried == Spec => []FailureRetriedSoon
<1>1. RefresherInv => FailureRetriedSoon
    BY DEF RefresherInv, RetryChosen, Failing, FailureRetriedSoon
<1> QED
    BY <1>1, RefresherInit, RefresherStep, PTL DEF Spec
=============================================================================
