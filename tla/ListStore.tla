----------------------------- MODULE ListStore -----------------------------
(***************************************************************************)
(* One `url` blocklist and its two files (crates/core/src/lists.rs): the   *)
(* body last downloaded and the ETag that came with it, replaced one after *)
(* the other, while the list host publishes new contents, answers badly or *)
(* not at all, and the daemon crashes and restarts.  The contents of the   *)
(* list are numbered in the order of publication; 0 is the seed file.      *)
(***************************************************************************)
EXTENDS Naturals

CONSTANTS
    MaxVersion,     \* bound on published contents
    MaxCrashes,     \* bound on crashes
    DiskMayFail,    \* may writes and removals in list_dir fail?
    Absent          \* an absent value

ASSUME ListAssumption ==
    /\ MaxVersion \in Nat \ {0} /\ MaxCrashes \in Nat
    /\ DiskMayFail \in BOOLEAN
    /\ Absent \notin Nat

Version == 1 .. MaxVersion
Seed == 0

VARIABLES
    host,           \* the content the list host serves; its ETag is the content's
    seed,           \* is there a seed file?
    body,           \* <name>.txt
    etag,           \* <name>.etag
    pc,             \* the loader
    sent,           \* the If-None-Match of its request
    got,            \* the downloaded body and ETag it is storing
    text,           \* the list in force
    crashes,        \* crashes so far
    confirmed,      \* history: what the host served when the body's mtime was set
    newest          \* history: the newest content ever stored

storeVars == <<host, seed, body, etag, pc, sent, got, text, crashes, confirmed, newest>>

\* A first start: nothing is stored.
StoreInit ==
    /\ host = 1
    /\ seed \in BOOLEAN
    /\ body = Absent /\ etag = Absent
    /\ pc = "starting" /\ sent = Absent /\ got = Absent
    /\ text = Absent
    /\ crashes = 0 /\ confirmed = Absent /\ newest = Seed

Newer(v) == IF v > newest THEN v ELSE newest

\* The host publishes (external).  A content that was replaced does not come
\* back under its old ETag.
PublishNew ==
    /\ host < MaxVersion
    /\ host' = host + 1
    /\ UNCHANGED <<seed, body, etag, pc, sent, got, text, crashes, confirmed, newest>>

\* Start-up, offline: the stored copy, then the seed; with neither, download
\* before serving.
OfflineLoad ==
    /\ pc = "starting"
    /\ \/ body # Absent /\ text' = body /\ pc' = "serving"
       \/ body = Absent /\ seed /\ text' = Seed /\ pc' = "serving"
       \/ body = Absent /\ ~seed /\ pc' = "loading" /\ UNCHANGED text
    /\ UNCHANGED <<host, seed, body, etag, sent, got, crashes, confirmed, newest>>

\* The refresher's timer or a reload.
Refresh ==
    /\ pc = "serving"
    /\ pc' = "loading"
    /\ UNCHANGED <<host, seed, body, etag, sent, got, text, crashes, confirmed, newest>>

\* fetch_with_etag: an ETag is sent only while its body is on disk.
Request ==
    /\ pc = "loading"
    /\ sent' = IF body = Absent THEN Absent ELSE etag
    /\ pc' = "asked"
    /\ UNCHANGED <<host, seed, body, etag, got, text, crashes, confirmed, newest>>

\* 304: the stored copy is used and its mtime becomes now, if it can.
NotModified ==
    /\ pc = "asked"
    /\ sent = host
    /\ text' = body
    /\ confirmed' = host \/ (DiskMayFail /\ confirmed' = confirmed)
    /\ pc' = "serving" /\ sent' = Absent
    /\ UNCHANGED <<host, seed, body, etag, got, crashes, newest>>

\* 200 with a whole body that holds rules, with an ETag or without.  A host that
\* is sent its current ETag answers 304.
Downloaded ==
    /\ pc = "asked"
    /\ sent # host
    /\ \E tag \in {host, Absent} : got' = [content |-> host, etag |-> tag]
    /\ pc' = "body" /\ sent' = Absent
    /\ UNCHANGED <<host, seed, body, etag, text, crashes, confirmed, newest>>

\* Mutant of FetchFailed: the seed is preferred to the stored copy.
FetchFailedToSeed ==
    /\ pc = "asked"
    /\ \/ seed /\ text' = Seed
       \/ ~seed /\ body # Absent /\ text' = body
       \/ body = Absent /\ ~seed /\ UNCHANGED text
    /\ pc' = IF text' = Absent THEN "failed" ELSE "serving"
    /\ sent' = Absent
    /\ UNCHANGED <<host, seed, body, etag, got, crashes, confirmed, newest>>

\* No answer, an error status, a body that is cut, too large or without rules:
\* the stored copy, then the seed; with neither the load fails, which ends
\* start-up and leaves a running daemon as it is.
FetchFailed ==
    /\ pc = "asked"
    /\ \/ body # Absent /\ text' = body
       \/ body = Absent /\ seed /\ text' = Seed
       \/ body = Absent /\ ~seed /\ UNCHANGED text
    /\ pc' = IF text' = Absent THEN "failed" ELSE "serving"
    /\ sent' = Absent
    /\ UNCHANGED <<host, seed, body, etag, got, crashes, confirmed, newest>>

\* The list is in use.
InForce ==
    /\ text' = got.content
    /\ pc' = "serving" /\ got' = Absent

\* Mutant of StoreBody: the ETag is written first, and a crash may follow.
StoreBodySecond ==
    /\ pc = "body"
    /\ etag' = got.etag
    /\ \/ /\ body' = got.content /\ confirmed' = got.content
          /\ newest' = Newer(got.content)
          /\ pc' = "etag"
          /\ UNCHANGED <<text, got, crashes>>
       \/ /\ crashes < MaxCrashes /\ crashes' = crashes + 1
          /\ pc' = "starting" /\ got' = Absent /\ text' = Absent
          /\ UNCHANGED <<body, confirmed, newest>>
    /\ UNCHANGED <<host, seed, sent>>

\* Mutant of StoreBody: the ETag is stored although its body was not.
StoreBodyOrNot ==
    /\ pc = "body"
    /\ \/ body' = got.content /\ confirmed' = got.content
       \/ DiskMayFail /\ UNCHANGED <<body, confirmed>>
    /\ newest' = Newer(got.content)
    /\ pc' = "etag"
    /\ UNCHANGED <<host, seed, etag, sent, got, text, crashes>>

\* Replace the body by a rename; if that fails, the list is used from memory and
\* the ETag is removed, if it can.
StoreBody ==
    /\ pc = "body"
    /\ \/ /\ body' = got.content /\ confirmed' = got.content
          /\ newest' = Newer(got.content)
          /\ pc' = "etag"
          /\ UNCHANGED <<etag, text, got>>
       \/ /\ DiskMayFail
          /\ etag' \in {Absent, etag}
          /\ InForce
          /\ UNCHANGED <<body, confirmed, newest>>
    /\ UNCHANGED <<host, seed, sent, crashes>>

\* Then its ETag; when there is none, or it cannot be written, the old one is
\* removed, if it can.
StoreEtag ==
    /\ pc = "etag"
    /\ \/ etag' = got.etag
       \/ DiskMayFail /\ etag' \in {Absent, etag}
    /\ InForce
    /\ UNCHANGED <<host, seed, body, sent, crashes, confirmed, newest>>

\* A crash, or a start-up that failed: systemd starts the daemon again.
Crash ==
    /\ crashes < MaxCrashes
    /\ crashes' = crashes + 1
    /\ pc' = "starting" /\ sent' = Absent /\ got' = Absent /\ text' = Absent
    /\ UNCHANGED <<host, seed, body, etag, confirmed, newest>>

Restart ==
    /\ pc = "failed"
    /\ pc' = "starting"
    /\ UNCHANGED <<host, seed, body, etag, sent, got, text, crashes, confirmed, newest>>

-----------------------------------------------------------------------------
Load ==
    \/ OfflineLoad \/ Refresh \/ Request
    \/ NotModified \/ Downloaded \/ FetchFailed
    \/ StoreBody \/ StoreEtag \/ Restart

StoreNext == Load \/ PublishNew \/ Crash

StoreSpec == StoreInit /\ [][StoreNext]_storeVars

\* The refresher loads again and again, and a host that is asked again and again
\* answers at times.
StoreFairness == WF_storeVars(Load) /\ SF_storeVars(Downloaded) /\ SF_storeVars(NotModified)

StoreFairSpec == StoreSpec /\ StoreFairness

-----------------------------------------------------------------------------
(***************************************************************************)
(* Properties                                                              *)
(***************************************************************************)

TypeOK ==
    /\ host \in Version /\ seed \in BOOLEAN
    /\ {body, etag, sent, confirmed} \subseteq Version \cup {Absent}
    /\ pc \in {"starting", "serving", "loading", "asked", "body", "etag", "failed"}
    /\ got \in [content : Version, etag : Version \cup {Absent}] \cup {Absent}
    /\ text \in Version \cup {Seed, Absent}
    /\ crashes \in 0 .. MaxCrashes /\ newest \in Version \cup {Seed}

\* The stored copy is what the host served at the moment its mtime tells, also
\* after a crash between the two writes: a 304 never confirms another content
\* (lists.rs: the ETag is written only after its body).
StoredCopyConfirmed == body = confirmed

\* A content that was once stored is never replaced by an older one or by the
\* seed, however requests and writes fail and whenever the daemon restarts
\* (lists.rs: the stored copy before the seed, replaced by rename).
NeverOlder == text # Absent /\ pc = "serving" => text >= newest

\* The host's last content comes into force again and again, although a failing
\* disk may take the list back to the stored copy in between (lists.rs: no pair
\* of files makes every later request answer 304 wrongly).
LastContentArrives == \A v \in Version : []<>(host # v) \/ []<>(text = v)
=============================================================================
