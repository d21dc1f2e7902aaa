------------------------------- MODULE Config -------------------------------
(***************************************************************************)
(* The configuration file (crates/core/src/config.rs) and the safe-search  *)
(* table built from it (crates/core/src/safesearch.rs), as operators on a  *)
(* parsed file.  A url is its scheme and its place, a file path says       *)
(* whether it is absolute, a client network whether it parses; the name of *)
(* a list is a sequence of words and marks.                                *)
(***************************************************************************)
EXTENDS Naturals, Sequences, SequencesExt

CONSTANTS
    Text,           \* the strings that files are made of
    None,           \* an absent value
    Unreadable      \* a file whose text is no TOML of the right shape

SUPPORTED_PROVIDERS == {"google", "youtube", "bing", "duckduckgo"}

\* The values of a file.
Url == [scheme : Text, place : Text]
Path == [absolute : BOOLEAN, file : Text]
Source == [name : Seq(Text), url : Url \cup {None}, path : Path \cup {None}]
Safe == [enabled : BOOLEAN, providers : Seq(Text)]
ConfigFile ==
    [profile : Text \cup {None}, lists : Seq(Source), safe_search : Safe,
     extra_roots : Seq(Path), max_entries : Nat, serve_stale_secs : Nat,
     bind : Seq(Text), allow : Seq([net : Text, parses : BOOLEAN]),
     list_dir : Path, database : Path,
     servers : Seq(Url), bootstrap : Seq(Text), timeout_ms : Nat]

\* Strings that the program itself writes.
Written ==
    SUPPORTED_PROVIDERS \cup
    {"minimal", "balanced", "strict", "hagezi", "light", "pro", "tif", "-", "https",
     "0.0.0.0", "::", "192.168.0.0/16", "10.0.0.0/8", "172.16.0.0/12", "127.0.0.0/8", "::1/128",
     "lists", "sqlite", "cloudflare", "1.1.1.1", "9.9.9.9",
     "list", "user", "rules", "user-rules.txt"}

ASSUME ConfigAssumption ==
    /\ Written \subseteq Text
    /\ None \notin ConfigFile \cup Url \cup Path \cup Text \cup Seq(Text)
    /\ Unreadable \notin ConfigFile \cup {None}

\* timeout_ms.
TimeoutRange == 100 .. 30000

\* serve_stale_secs: at most three days.
MaxStale == 3 * 86400

\* Settings of a file that does not mention them.
DefaultEntries == 16384
DefaultStale == 43200
NoSafeSearch == [enabled |-> FALSE, providers |-> <<>>]

Https(place) == [scheme |-> "https", place |-> place]
Absolute(file) == [absolute |-> TRUE, file |-> file]
Net(net) == [net |-> net, parses |-> TRUE]

ListSource(name, url, path) == [name |-> name, url |-> url, path |-> path]

\* Profile::lists.
ProfileLists(profile) ==
    LET hagezi(tier) == ListSource(<<"hagezi", "-", tier>>, Https(tier), None)
    IN  CASE profile = "minimal" -> <<hagezi("light")>>
          [] profile = "balanced" -> <<hagezi("pro")>>
          [] profile = "strict" -> <<hagezi("pro"), hagezi("tif")>>
          [] OTHER -> <<>>

\* A list of the file takes the place of the one with its name, or comes last.
OverrideOrAdd(lists, extra) ==
    LET same == {i \in 1 .. Len(lists) : lists[i].name = extra.name}
    IN  IF same = {} THEN Append(lists, extra)
        ELSE [lists EXCEPT ![CHOOSE i \in same : \A j \in same : i <= j] = extra]

\* The profile's lists after the first n lists of the file, for every n.
Overridden(c) ==
    LET f[n \in 0 .. Len(c.lists)] ==
            IF n = 0 THEN ProfileLists(c.profile) ELSE OverrideOrAdd(f[n - 1], c.lists[n])
    IN  f

effective_lists(c) == Overridden(c)[Len(c.lists)]

validate_providers(providers) == ToSet(providers) \subseteq SUPPORTED_PROVIDERS

\* SafeSearch::new: the providers whose names are rewritten.
SafeSearch(c) ==
    IF ~c.safe_search.enabled THEN {}
    ELSE IF c.safe_search.providers = <<>> THEN SUPPORTED_PROVIDERS
    ELSE ToSet(c.safe_search.providers)

-----------------------------------------------------------------------------
CacheValid(c) == c.max_entries >= 1 /\ c.serve_stale_secs <= MaxStale

TlsValid(c) == \A path \in ToSet(c.extra_roots) : path.absolute

\* Mutant of NamesValid: the names are looked at after the overrides.
NamesValidAfter(c) ==
    LET lists == effective_lists(c)
    IN  /\ \A i \in 1 .. Len(lists) : lists[i].name # <<>>
        /\ \A i, j \in 1 .. Len(lists) : lists[i].name = lists[j].name => i = j

\* The names of the file's own lists, before the overrides.
NamesValid(c) ==
    /\ \A i \in 1 .. Len(c.lists) : c.lists[i].name # <<>>
    /\ \A i, j \in 1 .. Len(c.lists) : c.lists[i].name = c.lists[j].name => i = j

SourceValid(list) ==
    /\ list.url # None \/ list.path # None
    /\ list.url # None => list.url.scheme = "https"
    /\ list.path # None => list.path.absolute

validate(c) ==
    /\ c.bind # <<>> /\ c.allow # <<>>
    /\ c.servers # <<>> /\ \A s \in ToSet(c.servers) : s.scheme \in {"https", "quic"}
    /\ c.bootstrap # <<>>
    /\ c.timeout_ms \in TimeoutRange
    /\ c.database.absolute /\ c.list_dir.absolute
    /\ TlsValid(c) /\ CacheValid(c) /\ validate_providers(c.safe_search.providers)
    /\ effective_lists(c) # <<>>
    /\ NamesValid(c)
    /\ \A list \in ToSet(effective_lists(c)) : SourceValid(list)

\* Config::load: the file is there, its text parses, its values are valid.
loads(file) ==
    /\ file \notin {None, Unreadable}
    /\ \A net \in ToSet(file.allow) : net.parses
    /\ validate(file)

starter_config(profile) ==
    [profile |-> profile, lists |-> <<>>,
     safe_search |-> NoSafeSearch,
     extra_roots |-> <<>>, max_entries |-> DefaultEntries, serve_stale_secs |-> DefaultStale,
     bind |-> <<"0.0.0.0", "::">>,
     allow |-> <<Net("192.168.0.0/16"), Net("127.0.0.0/8"), Net("::1/128")>>,
     list_dir |-> Absolute("lists"), database |-> Absolute("sqlite"),
     servers |-> <<Https("cloudflare"), Https("google")>>,
     bootstrap |-> <<"1.1.1.1", "9.9.9.9">>, timeout_ms |-> 3000]
=============================================================================
