------------------------------ MODULE Commands ------------------------------
(***************************************************************************)
(* Processes of `sumidero` on one machine: `init` and `migrate` write the  *)
(* configuration and the user's rules (crates/cli/src/commands), `serve`   *)
(* starts the daemon from them (daemon::run in crates/core/src/daemon.rs), *)
(* and every other command loads the configuration and opens the database. *)
(* They share two files, the database and the port, and any of them may    *)
(* die at any point.                                                       *)
(***************************************************************************)
EXTENDS Schema, Migrate, FiniteSets

CONSTANTS
    Scenario,       \* what is on disk at first and what each process runs:
                    \* [yaml, config, db, run]
    LocalFiles      \* list files of the user's own

ASSUME CommandsAssumption ==
    \A s \in Scenario :
        /\ s.db \in Databases /\ s.yaml \in Agh /\ DOMAIN s.run = Proc
        /\ s.config \in ConfigFile \cup {None, Unreadable}
        \* No rules are on disk, and no configuration counts on them.
        /\ s.config \in ConfigFile => \A list \in ToSet(s.config.lists) : list.path # RulesPath
        \* There are numbers for as many lists as there are filters.
        /\ Len(s.yaml.filters) + 2 <= Len(Numeral)

VARIABLES
    yaml,           \* the AdGuard file
    run,            \* the command of each process
    config,         \* the configuration file
    rules,          \* user-rules.txt
    at,             \* the place of each process
    inforce,        \* the lists, providers and clients a daemon goes by
    port,           \* the process that listens
    beat, stats     \* rows heartbeat and daemon_stats: the process that wrote each

files == <<config, rules>>
daemon == <<inforce, port, beat, stats>>
vars == <<schemaVars, yaml, run, files, at, daemon>>

Init ==
    /\ SchemaInit
    /\ \E s \in Scenario : db = s.db /\ yaml = s.yaml /\ run = s.run /\ config = s.config
    /\ rules = None
    /\ at = [p \in Proc |-> "start"]
    /\ inforce = [p \in Proc |-> None] /\ port = None /\ beat = None /\ stats = None

To(p, place) == at' = [at EXCEPT ![p] = place]

-----------------------------------------------------------------------------
(* init and migrate.                                                       *)

Forced(p) == run[p] \in {"init --force", "migrate --force"}
Writes(p) == run[p] \in {"init", "migrate", "init --force", "migrate --force"}
Migrates(p) == run[p] \in {"migrate", "migrate --force"}

\* What a write of a configuration, which truncates the file first, shows while it
\* runs and leaves when it fails or its process dies in it: text that does not
\* parse, or, of a generated file, which ends with it,
\* a safe-search section that is gone or has lost its second line.
Cuts(p) ==
    {Unreadable} \cup
    (IF Migrates(p)
     THEN {[Toml(yaml) EXCEPT !.safe_search = NoSafeSearch],
           [Toml(yaml) EXCEPT !.safe_search.providers = <<>>]}
     ELSE {})

\* An existing file is left alone without --force; a file that convert refuses
\* writes nothing.
Begin(p) ==
    /\ Writes(p) /\ at[p] = "start"
    /\ \/ config # None /\ ~Forced(p) /\ To(p, "done")
       \/ (config = None \/ Forced(p)) /\ ~Migrates(p) /\ To(p, "config")
       \/ /\ (config = None \/ Forced(p)) /\ Migrates(p)
          /\ To(p, IF ~Converts(yaml) THEN "done" ELSE IF Rules(yaml) = <<>> THEN "config" ELSE "rules")
    /\ UNCHANGED <<schemaVars, yaml, run, files, daemon>>

\* Mutant of WriteRules: the configuration is written first.
WriteRulesLast(p) ==
    /\ at[p] = "rules"
    /\ \/ /\ config' = Toml(yaml) /\ rules' = Rules(yaml) /\ To(p, "done")
          /\ UNCHANGED faults
       \/ /\ faults < MaxFaults /\ faults' = faults + 1
          /\ config' = Toml(yaml) /\ To(p, "done") /\ UNCHANGED rules
    /\ UNCHANGED <<db, txn, opener, yaml, run, daemon>>

\* A fault is a failed write or the end of the process.  The file is cut first,
\* which is no step of its own: a daemon here asks only whether it exists.
WriteRules(p) ==
    /\ at[p] = "rules"
    /\ \/ /\ rules' = Rules(yaml) /\ To(p, "config")
          /\ UNCHANGED faults
       \/ /\ faults < MaxFaults /\ faults' = faults + 1
          /\ rules' \in {rules, <<>>} /\ To(p, "done")
    /\ UNCHANGED <<db, txn, opener, yaml, run, config, daemon>>

\* The file is opened and cut, and then it has its text.
CutConfig(p) ==
    /\ at[p] = "config"
    /\ \/ /\ config' \in Cuts(p) /\ To(p, "text")
          /\ UNCHANGED faults
       \/ /\ faults < MaxFaults /\ faults' = faults + 1
          /\ To(p, "done") /\ UNCHANGED config
    /\ UNCHANGED <<db, txn, opener, yaml, run, rules, daemon>>

WriteConfig(p) ==
    /\ at[p] = "text"
    /\ To(p, "done")
    /\ \/ /\ config' = IF Migrates(p) THEN Toml(yaml) ELSE starter_config("balanced")
          /\ UNCHANGED faults
       \/ /\ faults < MaxFaults /\ faults' = faults + 1
          /\ config' \in Cuts(p)
    /\ UNCHANGED <<db, txn, opener, yaml, run, rules, daemon>>

-----------------------------------------------------------------------------
(* serve, and the commands that read.                                      *)

Serves(p) == run[p] = "serve"
Reads(p) == run[p] = "status"

\* A process whose configuration does not load exits and is run again later.
LoadConfig(p) ==
    /\ Serves(p) \/ Reads(p)
    /\ at[p] = "start" /\ loads(config)
    /\ To(p, "open")
    /\ inforce' = [inforce EXCEPT ![p] = config]
    /\ UNCHANGED <<schemaVars, yaml, run, files, port, beat, stats>>

\* Db::open.  A process that failed it exits and is run again, on the same
\* configuration or (RunsAgain, below) from the start.
OpenDb(p) ==
    /\ at[p] = "open"
    /\ opener[p].pc = "failed" => inforce[p] = config
    /\ OpenStep(p)
    /\ UNCHANGED <<yaml, run, files, at, daemon>>

OpenFails(p) ==
    /\ at[p] = "open"
    /\ OpenFault(p)
    /\ UNCHANGED <<yaml, run, files, at, daemon>>

\* Read, print and exit.
Answer(p) ==
    /\ Reads(p) /\ at[p] = "open" /\ opener[p].pc = "open"
    /\ To(p, "done")
    /\ inforce' = [inforce EXCEPT ![p] = None]
    /\ Exits(p)
    /\ UNCHANGED <<yaml, run, files, port, beat, stats>>

\* Back to the start: the process ended and the service manager runs it again.
Restarts(p) ==
    /\ To(p, "start")
    /\ inforce' = [inforce EXCEPT ![p] = None]
    /\ port' = IF port = p THEN None ELSE port
    /\ Ends(p)
    /\ UNCHANGED <<db, yaml, run, files, beat, stats>>

RunsAgain(p) ==
    /\ at[p] = "open" /\ opener[p].pc = "failed" /\ inforce[p] # config
    /\ Restarts(p)
    /\ UNCHANGED faults

\* The lists of a configuration that can be had: those with a url, which are
\* stored or fetched, and local files that exist.
Available(list) ==
    list.url # None \/ list.path \in LocalFiles \/ (list.path = RulesPath /\ rules # None)

\* lists::load: every list, or nothing.
LoadsAll(c) == \A list \in ToSet(effective_lists(c)) : Available(list)

\* build_policy.
LoadLists(p) ==
    /\ Serves(p) /\ at[p] = "open" /\ opener[p].pc = "open"
    /\ LET c == inforce[p]
       IN  /\ LoadsAll(c)
           /\ inforce' = [inforce EXCEPT ![p] =
                 [config |-> c, lists |-> effective_lists(c), safe |-> SafeSearch(c)]]
    /\ To(p, "beat")
    /\ UNCHANGED <<schemaVars, yaml, run, files, port, beat, stats>>

\* Upstreams, lists, the first heartbeat or sockets stop the start-up.
StartFails(p) ==
    /\ Serves(p) /\ at[p] \in {"open", "beat", "bind"} /\ opener[p].pc = "open"
    /\ \/ /\ faults < MaxFaults /\ faults' = faults + 1
       \/ at[p] = "open" /\ ~LoadsAll(inforce[p]) /\ UNCHANGED faults
    /\ Restarts(p)

\* The first heartbeat and the first counters are written before the port is
\* bound; the ones after that every minute.
WriteBeat(p) ==
    /\ Serves(p) /\ at[p] \in {"beat", "serving"}
    /\ beat' = p
    /\ To(p, IF at[p] = "beat" THEN "stats" ELSE "sample")
    /\ UNCHANGED <<schemaVars, yaml, run, files, inforce, port, stats>>

\* Mutant of WriteStats: counters are published once, at the start.
WriteStatsOnce(p) ==
    /\ Serves(p) /\ at[p] \in {"stats", "sample"}
    /\ stats' = IF at[p] = "stats" THEN p ELSE stats
    /\ To(p, IF at[p] = "stats" THEN "bind" ELSE "serving")
    /\ UNCHANGED <<schemaVars, yaml, run, files, inforce, port, beat>>

WriteStats(p) ==
    /\ Serves(p) /\ at[p] \in {"stats", "sample"}
    /\ stats' = p
    /\ To(p, IF at[p] = "stats" THEN "bind" ELSE "serving")
    /\ UNCHANGED <<schemaVars, yaml, run, files, inforce, port, beat>>

\* Any other write of these rows that fails is only logged.
WriteFails(p) ==
    /\ Serves(p) /\ at[p] \in {"serving", "stats", "sample"}
    /\ faults < MaxFaults /\ faults' = faults + 1
    /\ To(p, CASE at[p] = "serving" -> "sample" [] at[p] = "stats" -> "bind" [] OTHER -> "serving")
    /\ UNCHANGED <<db, txn, opener, yaml, run, files, daemon>>

\* A port in use ends the start-up.
BindPort(p) ==
    /\ Serves(p) /\ at[p] = "bind"
    /\ \/ /\ port = None
          /\ port' = p /\ To(p, "serving")
          /\ UNCHANGED <<schemaVars, yaml, run, files, inforce, beat, stats>>
       \/ /\ port # None
          /\ Restarts(p) /\ UNCHANGED faults

LogQuery(p, row) ==
    /\ at[p] = "serving"
    /\ LogRow(p, row)
    /\ UNCHANGED <<yaml, run, files, at, daemon>>

\* The hourly retention sweep of the daemon's loop.
SweepLog(p) ==
    /\ at[p] = "serving"
    /\ Sweep(p)
    /\ UNCHANGED <<yaml, run, files, at, daemon>>

Die(p) ==
    /\ (Serves(p) \/ Reads(p)) /\ at[p] \notin {"start", "done"} /\ opener[p].pc # "refused"
    /\ faults < MaxFaults /\ faults' = faults + 1
    /\ Restarts(p)

-----------------------------------------------------------------------------
Next ==
    \E p \in Proc :
        \/ Begin(p) \/ WriteRules(p) \/ CutConfig(p) \/ WriteConfig(p)
        \/ LoadConfig(p) \/ OpenDb(p) \/ OpenFails(p) \/ RunsAgain(p) \/ Answer(p)
        \/ LoadLists(p) \/ StartFails(p) \/ WriteBeat(p) \/ WriteStats(p) \/ WriteFails(p)
        \/ BindPort(p) \/ SweepLog(p) \/ Die(p)
        \/ \E row \in Row \ Expired : LogQuery(p, row)

Spec == Init /\ [][Next]_vars

\* A process that opens the database goes on with it; the heartbeat's interval
\* keeps firing.
Fairness ==
    \A p \in Proc : WF_vars(OpenDb(p) \/ RunsAgain(p)) /\ WF_vars(WriteBeat(p) \/ WriteStats(p))

FairSpec == Spec /\ Fairness

-----------------------------------------------------------------------------
(***************************************************************************)
(* Properties                                                              *)
(***************************************************************************)

\* Everything an AdGuard file says that `migrate` converts is in force in the
\* file it writes or is reported: every upstream, client, filter, rule and
\* provider; nobody is let in and no provider forced beyond what was asked; and
\* a file that does not pass its own check was wrong on the way in (migrate.rs:4,
\* "never silently dropped").
MigratesOrSays ==
    LET toml == Toml(yaml)
        told == Warnings(yaml)
        asked == {c.net : c \in ToSet(yaml.clients)}
    IN  (\E p \in Proc : Migrates(p) /\ at[p] = "start") =>
        /\ Converts(yaml) =>
            /\ \A u \in ToSet(yaml.upstreams) : u \in ToSet(toml.servers) \/ <<"upstream", u>> \in told
            /\ \A i \in 1 .. Len(yaml.filters) :
                  \/ <<"disabled", i>> \in told
                  \/ \E list \in ToSet(effective_lists(toml)) : list.url = yaml.filters[i].url
            /\ Rules(yaml) # <<>> => \E list \in ToSet(effective_lists(toml)) : list.path = RulesPath
            /\ \A c \in ToSet(yaml.clients) :
                  <<"client", c>> \in told \/ \E net \in ToSet(toml.allow) : net.net = c.net
            /\ <<"allow">> \in told \/ \A net \in ToSet(toml.allow) : net.net \in asked
            /\ yaml.safe.enabled => \A p \in yaml.safe.on : p \in SafeSearch(toml) \/ <<"provider", p>> \in told
            /\ SafeSearch(toml) \subseteq (IF yaml.safe.enabled THEN yaml.safe.on ELSE {})
        /\ SelfCheckFails(yaml) =>
            \/ yaml.hosts = <<>> \/ Millis(yaml.timeout) \notin TimeoutRange
            \/ \E c \in ToSet(yaml.clients) : c.kind = "malformed"
            \/ \E f \in ToSet(yaml.filters) : f.enabled /\ f.url.scheme # "https"

\* A daemon goes by all of its configuration: every list of the file is in
\* force once, a profile's list unless the file overrides it by name, no two
\* under one name (and so one file), each with a source, and safe search for
\* what the file names (config.rs: effective_lists, validate; safesearch.rs: new).
ServesWhatIsConfigured ==
    \A p \in Proc : Serves(p) /\ at[p] \in {"beat", "stats", "bind", "serving", "sample"} =>
        LET c == inforce[p].config
            lists == inforce[p].lists
            own == {list.name : list \in ToSet(c.lists)}
        IN  /\ ToSet(lists) = ToSet(c.lists) \cup
                  {list \in ToSet(ProfileLists(c.profile)) : list.name \notin own}
            /\ Cardinality({list.name : list \in ToSet(lists)}) = Len(lists)
            /\ \A list \in ToSet(lists) : list.url # None \/ list.path # None
            /\ c.safe_search.enabled => inforce[p].safe # {}
            /\ \A provider \in ToSet(c.safe_search.providers) :
                  c.safe_search.enabled <=> provider \in inforce[p].safe

\* A configuration that names the user's rules never stands without them, also
\* when `migrate` fails or is killed between its two files (migrate.rs: the rules
\* are written first).
ConfigHasItsRules ==
    config \notin {None, Unreadable} /\ (\E list \in ToSet(config.lists) : list.path = RulesPath)
        => rules # None

\* The rows that `status` and `reload` go by come back to the daemon that
\* listens, although a second `serve` writes them before it finds the port taken
\* (daemon.rs: heartbeat before bind, then every minute).
RowsOfTheListener ==
    \A p \in Proc : []<>(port = p => beat = p) /\ []<>(port = p => stats = p)
=============================================================================
