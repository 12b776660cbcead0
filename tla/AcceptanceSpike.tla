--------------------------- MODULE AcceptanceSpike ---------------------------
(***************************************************************************)
(* The closed loop that decides whether a Canonical table can be deleted   *)
(* and rebuilt from the Archive: internal/spike and cmd/dwh-spike.  A loop *)
(* puts fixtures into the Archive, materializes what the Archive lists,    *)
(* commits it to the Iceberg table, commits again, scans, asks R2 SQL,     *)
(* drops the table, does it all once more and compares, and reports one    *)
(* criterion after the other.                                              *)
(*                                                                         *)
(* Loops share the Archive, the catalog and R2 SQL with each other, with   *)
(* the backfill that goes on archiving and with the cleanup command.  A    *)
(* step is one request with the local work around it.                      *)
(***************************************************************************)
EXTENDS Projection, Bags

CONSTANTS Loops,         \* invocations of dwh-spike loop
          Objects,       \* Archive keys, numbered in listing order
          Evidence,      \* the envelope stored under each key
          Fixture,       \* per loop, the sequence of keys it puts
          Backfilled,    \* keys the backfill may archive meanwhile
          MaxConcurrent, \* bound on the loops and cleanups under way together
          WithR2SQL,     \* the loops for which R2 SQL is configured
          MaxPolls,      \* queries until R2 SQL must agree (the code has 6)
          MaxLag,        \* bound on the versions R2 SQL is behind the catalog
          MaxCleanups,   \* bound on the invocations of dwh-spike cleanup
          Null           \* absent

ASSUME SpikeAssumption ==
    /\ Objects \in SUBSET (Nat \ {0}) /\ IsFiniteSet(Objects)
    /\ Evidence \in [Objects -> Envelope]
    /\ \A k \in Objects : IsFiniteSet(Evidence[k].page)
    /\ \A j, k \in Objects :
          Evidence[j].observation = Evidence[k].observation => Evidence[j] = Evidence[k]
    /\ \A l \in Loops : Fixture[l] \in Seq(Objects) /\ Fixture[l] # << >>
    /\ Backfilled \subseteq Objects
    /\ MaxConcurrent \in Nat \ {0} /\ WithR2SQL \subseteq Loops
    /\ MaxPolls \in Nat \ {0} /\ MaxLag \in Nat \ {0} /\ MaxCleanups \in Nat
    /\ Null \notin Nat \cup Row

VARIABLES
    archive,     \* the keys present
    catalog,     \* versions of the table: R2 SQL serves the first, the last is current
    created,     \* tables created so far, which numbers them
    cleanup,     \* dwh-spike cleanup: how many more, the keys still to delete
    loop         \* per loop: its local variables and its report

vars == <<archive, catalog, created, cleanup, loop>>

-----------------------------------------------------------------------------
(* Data                                                                    *)

\* fixtureMessage: every seventh message is edited shortly before its page is
\* observed, so that the later of two pages wins by the edit
FixtureMessage(i, observed) ==
    [message |-> i, edited |-> IF i % 7 = 0 THEN observed - 1 ELSE Unedited]

\* GenerateFixture, of which only the Observation IDs, ids, differ from loop
\* to loop: pages of size messages, overlap of which the next page shows
\* again; two units of time lie between them
GenerateFixture(ids, size, overlap, base) ==
    [n \in DOMAIN ids |->
        LET observed == base + 2 * (n - 1)
            first == (n - 1) * (size - overlap)
        IN  [observation |-> ids[n], observed |-> observed,
             page |-> {FixtureMessage(i, observed) : i \in first..(first + size - 1)}]]

Phase == {"first", "rebuild"}

\* A staging path names the run, and each phase is a run of its own
File == [by: Loops, phase: Phase, rows: SUBSET Row]

\* A table as of one snapshot; the snapshot is identified by its files
Table == [number: Nat, files: Seq(File)]

ASSUME NoTableAssumption == Null \notin Table

Current == catalog[Len(catalog)]

\* What the evidence under the keys projects to; keys are listed in their order
Projected(keys) ==
    LET Nth(n) == CHOOSE k \in keys : Cardinality({j \in keys : j < k}) = n - 1
    IN  Project([n \in 1..Cardinality(keys) |-> Evidence[Nth(n)]])

\* materialize
Build(keys) == [manifest |-> keys, rows |-> Projected(keys)]

NoBuild == [manifest |-> {}, rows |-> {}]

Paths(files) == {[by |-> f.by, phase |-> f.phase] : f \in Range(files)}

\* ScanRows: the bag of the rows of every data file of the snapshot
ScanRows(files) ==
    [row \in UNION {f.rows : f \in Range(files)} |->
        Cardinality({n \in DOMAIN files : row \in files[n].rows})]

\* equivalence.Serialize, one line per row; without rows it is one empty line
Lines(rows) == IF rows = EmptyBag THEN {Null} ELSE BagToSet(rows)

\* The lines of the first that the second lacks
DiffOneSided(a, b) == Lines(a) \ Lines(b)

\* equivalence.Diff: the lines present on one side only
Diff(a, b) == (Lines(a) \ Lines(b)) \cup (Lines(b) \ Lines(a))

\* The criteria of a loop in which all goes well
AllCriteria ==
    << "archive_put_envelope_v1", "materialize_parquet_from_archive",
       "rest_catalog_connect", "namespace_and_table_created",
       "parquet_committed_to_iceberg", "commit_retry_no_duplicate_file",
       "iceberg_go_scan_matches_projection", "r2_sql_query",
       "canonical_table_deleted", "rebuild_materialize", "rebuild_without_discord",
       "rebuild_semantic_equivalence", "r2_sql_query_after_rebuild" >>

\* Two errors are reported under names of their own
Criterion == Range(AllCriteria) \cup {"catalog_connect_and_create", "iceberg_go_scan"}

Verdict == [name: Criterion, verdict: {"passed", "skipped", "failed"}]

Pc == {"idle", "put", "put_again", "list", "ensure", "commit", "reload",
       "confirm", "scan", "query", "count", "drop", "check_dropped", "reported", "killed"}

IdleLoop ==
    [pc |-> "idle", phase |-> "first", next |-> 1,
     first |-> {}, build |-> NoBuild, table |-> Null, before |-> Null,
     polls |-> 0, criteria |-> << >>, rebuildRun |-> FALSE, failure |-> FALSE]

TypeOK ==
    /\ archive \subseteq Objects
    /\ catalog \in Seq(Table \cup {Null}) /\ catalog # << >>
    /\ created \in Nat
    /\ cleanup.left \in 0..MaxCleanups /\ cleanup.keys \in (SUBSET Objects) \cup {Null}
    /\ \A l \in Loops :
          /\ loop[l].pc \in Pc /\ loop[l].phase \in Phase
          /\ loop[l].next \in 1..Len(Fixture[l])
          /\ loop[l].table \in Table \cup {Null}
          /\ loop[l].before \in Table \cup {Null}
          /\ loop[l].polls \in 0..(MaxPolls - 1)
          /\ loop[l].criteria \in Seq(Verdict)
          /\ loop[l].rebuildRun \in BOOLEAN /\ loop[l].failure \in BOOLEAN

Init ==
    /\ archive = {}
    /\ catalog = << Null >>
    /\ created = 0
    /\ cleanup = [left |-> MaxCleanups, keys |-> Null]
    /\ loop = [l \in Loops |-> IdleLoop]

-----------------------------------------------------------------------------
(* The report                                                              *)

Record(criteria, names, verdict) ==
    criteria \o [n \in DOMAIN names |-> [name |-> names[n], verdict |-> verdict]]

Become(l, r) == loop' = [loop EXCEPT ![l] = r]

\* r.pass for each of the names, and on to the next request
Pass(l, r, names, pc) ==
    Become(l, [r EXCEPT !.criteria = Record(@, names, "passed"), !.pc = pc])

\* Of a loop that has failed only the report is left: its criteria, whether it
\* names the run of the rebuild, and the failure
Over(r, criteria) ==
    [IdleLoop EXCEPT !.criteria = criteria, !.rebuildRun = r.rebuildRun,
                     !.failure = TRUE, !.pc = "reported"]

\* The criterion is logged and its error returned, but not written down
FailUnwritten(l, name) == Become(l, Over(loop[l], loop[l].criteria))

\* r.fail: the criterion is recorded and its error ends the loop
Fail(l, name) == Become(l, Over(loop[l], Record(loop[l].criteria, << name >>, "failed")))

\* The criterion an error is reported under, by the request that met it
Blamed(l) ==
    LET pc == loop[l].pc
        Either(first, rebuild) == IF loop[l].phase = "first" THEN first ELSE rebuild
    IN  CASE pc \in {"put", "put_again"} -> "archive_put_envelope_v1"
          [] pc = "list" -> Either("materialize_parquet_from_archive", "rebuild_materialize")
          [] pc = "ensure" -> Either("catalog_connect_and_create", "rebuild_without_discord")
          [] pc = "commit" -> "parquet_committed_to_iceberg"
          [] pc \in {"reload", "confirm"} -> "commit_retry_no_duplicate_file"
          [] pc = "scan" -> Either("iceberg_go_scan", "rebuild_semantic_equivalence")
          [] pc \in {"query", "count"} -> Either("r2_sql_query", "r2_sql_query_after_rebuild")
          [] pc \in {"drop", "check_dropped"} -> "canonical_table_deleted"

At(l, pc) == loop[l].pc = pc

AllPassed(l) ==
    /\ At(l, "reported")
    /\ ~ loop[l].failure
    /\ \A n \in DOMAIN loop[l].criteria : loop[l].criteria[n].verdict # "failed"

-----------------------------------------------------------------------------
(* The effects of the requests on what the loops share                     *)

Publish(version) ==
    /\ Len(catalog) <= MaxLag
    /\ catalog' = IF WithR2SQL # {} THEN Append(catalog, version) ELSE << version >>

PutEffect(l) ==
    /\ archive' = archive \cup {Fixture[l][loop[l].next]}
    /\ UNCHANGED <<catalog, created>>

EnsureEffect ==
    /\ IF Current = Null
       THEN Publish([number |-> created + 1, files |-> << >>]) /\ created' = created + 1
       ELSE UNCHANGED <<catalog, created>>
    /\ UNCHANGED archive

BuildFile(l) == [by |-> l, phase |-> loop[l].phase, rows |-> loop[l].build.rows]

\* The file is added, whatever the table references
Register(l) ==
    /\ Publish([Current EXCEPT !.files = Append(@, BuildFile(l))])
    /\ UNCHANGED <<archive, created>>

\* PurgeTable or DropTable; that there is no such table is no error
DropEffect ==
    /\ IF Current = Null THEN UNCHANGED catalog ELSE Publish(Null)
    /\ UNCHANGED <<archive, created>>

Unshared == UNCHANGED <<archive, catalog, created>>

-----------------------------------------------------------------------------
(* run                                                                     *)

Active(l) == loop[l].pc \notin {"idle", "reported", "killed"}

Room ==
    Cardinality({l \in Loops : Active(l)}) + (IF cleanup.keys = Null THEN 0 ELSE 1) < MaxConcurrent

Start(l) ==
    /\ At(l, "idle")
    /\ Room
    /\ Become(l, [loop[l] EXCEPT !.pc = "put"])
    /\ Unshared /\ UNCHANGED cleanup

PutFixture(l) ==
    /\ At(l, "put")
    /\ PutEffect(l)
    /\ Become(l, IF loop[l].next = Len(Fixture[l])
                 THEN [loop[l] EXCEPT !.next = 1, !.pc = "put_again"]
                 ELSE [loop[l] EXCEPT !.next = @ + 1])
    /\ UNCHANGED cleanup

\* The first fixture is put a second time and has to be there already
PutAgain(l) ==
    /\ At(l, "put_again")
    /\ PutEffect(l)
    /\ IF Fixture[l][1] \in archive
       THEN Pass(l, loop[l], << "archive_put_envelope_v1" >>, "list")
       ELSE Fail(l, Blamed(l))
    /\ UNCHANGED cleanup

\* materialize lists the Archive and gets every key.  Objects do not change,
\* so the reads may as well happen with the listing, and pages of a listing
\* between which the backfill archives are the listing of another order
Materialize(l) ==
    LET r == [loop[l] EXCEPT !.build = Build(archive)]
    IN  /\ At(l, "list")
        /\ \/ archive = {} /\ Fail(l, Blamed(l))
           \/ /\ archive # {}
              /\ loop[l].phase = "first"
              /\ Pass(l, [r EXCEPT !.first = archive],
                      << "materialize_parquet_from_archive" >>, "ensure")
           \/ /\ archive # {}
              /\ loop[l].phase = "rebuild"
              /\ archive = loop[l].first
              /\ Pass(l, r, << "rebuild_materialize" >>, "ensure")
           \/ /\ archive # {}
              /\ loop[l].phase = "rebuild"
              /\ archive # loop[l].first
              /\ Become(l, Over(loop[l],
                    Record(Record(loop[l].criteria, << "rebuild_materialize" >>, "passed"),
                           << "rebuild_without_discord" >>, "failed")))
        /\ Unshared /\ UNCHANGED cleanup

\* EnsureNamespace and EnsureTable
EnsureTable(l) ==
    /\ At(l, "ensure")
    /\ EnsureEffect
    /\ Pass(l, [loop[l] EXCEPT !.table = catalog'[Len(catalog')]],
            IF loop[l].phase = "first"
            THEN << "rest_catalog_connect", "namespace_and_table_created" >> ELSE << >>,
            "commit")
    /\ UNCHANGED cleanup

\* WriteStaging and CommitFiles: the path is this run's own, so it is not yet
\* referenced; the catalog accepts the commit on top of the version it was
\* prepared from
Commit(l) ==
    /\ At(l, "commit")
    /\ \/ /\ Current = loop[l].table
          /\ Register(l)
          /\ IF loop[l].phase = "first"
             THEN Pass(l, [loop[l] EXCEPT !.table = catalog'[Len(catalog')]],
                       << "parquet_committed_to_iceberg" >>, "reload")
             ELSE Pass(l, [loop[l] EXCEPT !.table = catalog'[Len(catalog')]],
                       << "rebuild_without_discord" >>, "scan")
       \/ /\ Current # loop[l].table
          /\ Fail(l, Blamed(l))
          /\ Unshared
    /\ UNCHANGED cleanup

OwnPath(l) == [by |-> l, phase |-> loop[l].phase]

\* The files of the table are not looked at before the second commit
RetryCommitUnchecked(l) ==
    /\ At(l, "reload")
    /\ Current # Null
    /\ Register(l)
    /\ Fail(l, Blamed(l))
    /\ UNCHANGED cleanup

\* LoadTable, CommitFiles again and AddFilesRaw: both leave a table that
\* references the file as it is.  In a table that does not, because somebody
\* replaced it, the retry registers the file and is no retry
RetryCommit(l) ==
    /\ At(l, "reload")
    /\ \/ /\ Current = Null
          /\ Fail(l, Blamed(l)) /\ Unshared
       \/ /\ Current # Null
          /\ OwnPath(l) \in Paths(Current.files)
          /\ IF Current = loop[l].table
             THEN Pass(l, loop[l], << >>, "confirm") ELSE Fail(l, Blamed(l))
          /\ Unshared
       \/ /\ Current # Null
          /\ OwnPath(l) \notin Paths(Current.files)
          /\ Fail(l, Blamed(l)) /\ Register(l)
    /\ UNCHANGED cleanup

\* LoadTable and ReferencedFiles: still the same snapshot
ConfirmRetry(l) ==
    /\ At(l, "confirm")
    /\ IF Current = loop[l].table
       THEN Pass(l, loop[l], << "commit_retry_no_duplicate_file" >>, "scan")
       ELSE Fail(l, Blamed(l))
    /\ Unshared /\ UNCHANGED cleanup

\* The table is scanned as of the snapshot the loop holds
Scan(l) ==
    LET rows == ScanRows(loop[l].table.files)
        differ == IF loop[l].phase = "first" THEN Diff(SetToBag(loop[l].build.rows), rows)
                  ELSE Diff(ScanRows(loop[l].before.files), rows)
    IN  /\ At(l, "scan")
        /\ \/ differ # {} /\ Fail(l, Blamed(l))
           \/ /\ differ = {} /\ loop[l].phase = "first"
              /\ Pass(l, [loop[l] EXCEPT !.before = loop[l].table],
                      << "iceberg_go_scan_matches_projection" >>, "query")
           \/ /\ differ = {} /\ loop[l].phase = "rebuild"
              /\ Pass(l, loop[l], << "rebuild_semantic_equivalence" >>, "query")
        /\ Unshared /\ UNCHANGED cleanup

AfterQuery(l) == IF loop[l].phase = "first" THEN "drop" ELSE "reported"

SkipQuery(l) ==
    /\ At(l, "query")
    /\ l \notin WithR2SQL
    /\ Become(l, [loop[l] EXCEPT !.criteria = Record(@, << Blamed(l) >>, "skipped"),
                                 !.pc = AfterQuery(l)])
    /\ Unshared /\ UNCHANGED cleanup

Served == catalog[1]

\* The answer has as many rows as the projection
Agrees(l) ==
    Served # Null /\ BagCardinality(ScanRows(Served.files)) = Cardinality(loop[l].build.rows)

\* There is no last attempt
PollForever(l) == TRUE

\* attempt <= 6
PollAgain(l) == loop[l].polls + 1 < MaxPolls

\* A failed query, or one with another number of rows, is asked again
QueryAgain(l) ==
    /\ At(l, "query")
    /\ l \in WithR2SQL
    /\ PollAgain(l)
    /\ Become(l, [loop[l] EXCEPT !.polls = @ + 1])
    /\ Unshared /\ UNCHANGED cleanup

\* The last answer counts whatever it is, and compares as a set of rows
QueryRows(l) ==
    /\ At(l, "query")
    /\ l \in WithR2SQL
    /\ Agrees(l) \/ ~ PollAgain(l)
    /\ IF Served # Null /\ BagToSet(ScanRows(Served.files)) = loop[l].build.rows
       THEN Become(l, [loop[l] EXCEPT !.pc = "count"])
       ELSE Fail(l, Blamed(l))
    /\ Unshared /\ UNCHANGED cleanup

\* The count is written down and not compared
QueryCount(l) ==
    /\ At(l, "count")
    /\ IF Served # Null THEN Pass(l, loop[l], << Blamed(l) >>, AfterQuery(l))
       ELSE Fail(l, Blamed(l))
    /\ Unshared /\ UNCHANGED cleanup

\* The rebuild gets an identifier of its own, unless a Discord credential is in
\* the environment of the process or the identifier cannot be made.  The first
\* fails a criterion, the second none
EnterRebuild(l) ==
    LET deleted == Record(loop[l].criteria, << "canonical_table_deleted" >>, "passed")
    IN  \/ Pass(l, [loop[l] EXCEPT !.phase = "rebuild", !.rebuildRun = TRUE, !.polls = 0],
                << "canonical_table_deleted" >>, "list")
        \/ Become(l, Over(loop[l], Record(deleted, << "rebuild_without_discord" >>, "failed")))
        \/ Become(l, Over(loop[l], deleted))

\* An error of the drop is only logged, and whether the table is gone not asked
DropUnchecked(l) ==
    /\ At(l, "drop")
    /\ DropEffect \/ Unshared
    /\ EnterRebuild(l)
    /\ UNCHANGED cleanup

DropTable(l) ==
    /\ At(l, "drop")
    /\ DropEffect
    /\ Become(l, [loop[l] EXCEPT !.pc = "check_dropped"])
    /\ UNCHANGED cleanup

\* TableExists
CheckDropped(l) ==
    /\ At(l, "check_dropped")
    /\ IF Current = Null THEN EnterRebuild(l) ELSE Fail(l, Blamed(l))
    /\ Unshared /\ UNCHANGED cleanup

-----------------------------------------------------------------------------
(* Failures and the environment                                            *)

\* A request fails, with or without effect, and the loop ends; of the polled
\* queries only the last one fails the loop
RequestFails(l) ==
    /\ Active(l)
    /\ At(l, "query") => l \in WithR2SQL /\ ~ PollAgain(l)
    /\ Fail(l, Blamed(l))
    /\ \/ Unshared
       \/ loop[l].pc \in {"put", "put_again"} /\ PutEffect(l)
       \/ At(l, "ensure") /\ EnsureEffect
       \/ At(l, "commit") /\ Current = loop[l].table /\ Register(l)
       \/ At(l, "reload") /\ Current # Null /\ OwnPath(l) \notin Paths(Current.files) /\ Register(l)
       \/ At(l, "drop") /\ DropEffect
    /\ UNCHANGED cleanup

\* The process is killed: no report
Kill(l) ==
    /\ Active(l)
    /\ Become(l, [IdleLoop EXCEPT !.pc = "killed"])
    /\ Unshared /\ UNCHANGED cleanup

Backfill(o) ==
    /\ o \notin archive
    /\ archive' = archive \cup {o}
    /\ UNCHANGED <<catalog, created, cleanup, loop>>

\* R2 SQL takes over a later version of the catalog
CatchUp ==
    /\ Len(catalog) > 1
    /\ catalog' = Tail(catalog)
    /\ UNCHANGED <<archive, created, cleanup, loop>>

\* dwh-spike cleanup: list, delete key by key, drop the table
CleanupList ==
    /\ cleanup.left > 0 /\ cleanup.keys = Null
    /\ Room
    /\ cleanup' = [left |-> cleanup.left - 1, keys |-> archive]
    /\ Unshared /\ UNCHANGED loop

CleanupDelete ==
    /\ cleanup.keys \notin {Null, {}}
    /\ \E k \in cleanup.keys :
          /\ \A j \in cleanup.keys : k <= j
          /\ archive' = archive \ {k}
          /\ cleanup' = [cleanup EXCEPT !.keys = @ \ {k}]
    /\ UNCHANGED <<catalog, created, loop>>

CleanupDrop ==
    /\ cleanup.keys = {}
    /\ DropEffect
    /\ cleanup' = [cleanup EXCEPT !.keys = Null]
    /\ UNCHANGED loop

CleanupFails ==
    /\ cleanup.keys # Null
    /\ cleanup' = [cleanup EXCEPT !.keys = Null]
    /\ Unshared /\ UNCHANGED loop

Step(l) ==
    \/ PutFixture(l) \/ PutAgain(l) \/ Materialize(l) \/ EnsureTable(l)
    \/ Commit(l) \/ RetryCommit(l) \/ ConfirmRetry(l) \/ Scan(l)
    \/ SkipQuery(l) \/ QueryAgain(l) \/ QueryRows(l) \/ QueryCount(l)
    \/ DropTable(l) \/ CheckDropped(l)

Next ==
    \/ \E l \in Loops : Start(l) \/ Step(l) \/ RequestFails(l) \/ Kill(l)
    \/ \E o \in Backfilled : Backfill(o)
    \/ CatchUp \/ CleanupList \/ CleanupDelete \/ CleanupDrop \/ CleanupFails

Spec == Init /\ [][Next]_vars

-----------------------------------------------------------------------------
(* Properties                                                              *)

CurrentState(keys) == BestKnown(UNION {ToCanonical(Evidence[k]) : k \in keys})

\* A loop that reports success has rebuilt, from evidence that was the same
\* both times it was listed, a table that shows the Current State of exactly
\* that evidence, whatever other loops, the backfill, a cleanup and lost
\* answers did meanwhile (spike.go:134-293).
PassedMeansRebuilt ==
    \A l \in Loops : AllPassed(l) =>
        /\ loop[l].first = loop[l].build.manifest
        /\ BagToSet(ScanRows(loop[l].table.files)) = CurrentState(loop[l].build.manifest)

\* The two scans a successful loop compares are of two tables, the second
\* created after the first was dropped (spike.go:223-243).
ComparedTwoTables ==
    \A l \in Loops : AllPassed(l) => loop[l].before.number < loop[l].table.number

\* The last criterion tells what failed.  Only of the identifier of the rebuild
\* it does not: the report then names no second run and ends with the drop
Ending(r) ==
    LET last == r.criteria[Len(r.criteria)]
    IN  \/ last.verdict = "failed"
        \/ last = [name |-> "canonical_table_deleted", verdict |-> "passed"] /\ ~ r.rebuildRun

\* Once the run has its identifier, success is reported only with every
\* criterion on record, and a failure never without the criterion it failed,
\* whichever request of whichever phase met it.  The one exception is the error
\* of spike.go:258-260, after which the report ends with a passed drop and names
\* no run of the rebuild (spike.go:80-87, 107-111, 153-293).
ReportHonest ==
    \A l \in Loops : At(l, "reported") =>
        IF AllPassed(l)
        THEN [n \in DOMAIN loop[l].criteria |-> loop[l].criteria[n].name] = AllCriteria
        ELSE loop[l].criteria # << >> /\ Ending(loop[l])

\* No version of the table references one staging path twice, although every
\* loop commits its file a second time (icebergcat.go:148-152, spike.go:384-398).
PathReferencedOnce ==
    \A v \in DOMAIN catalog : catalog[v] # Null =>
        Cardinality(Paths(catalog[v].files)) = Len(catalog[v].files)
=============================================================================
