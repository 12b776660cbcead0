# Discord data warehouse: TLA+ models and proofs

The repository archives the history of Discord channels as immutable evidence in R2 and
rebuilds a Canonical table of best-known messages from it.  This directory models the parts
of it that are hard to test: the Durable Objects that crawl a channel under shared rate
limits (`workers/backfill`), the Archive that both languages write and read
(`adapters/r2-archive.ts`, `internal/archive`), the Go materializer that projects the Archive
into an Iceberg table (`internal/materializer`, `internal/projection`, `internal/icebergcat`),
and the acceptance spike that decides whether the table can be deleted and rebuilt
(`internal/spike`).

## 1. Inventory

| Component | State | Operations | What makes it hard |
|---|---|---|---|
| Discord HTTP Budget DO (`do/discord-http-budget.ts`) | SQLite tables `request_slots`, `invalid_requests`, `processed_reports`, `budget_state` | `acquire`, `report`, `clearCredentialHalt`, each one storage transaction | reports come late, twice or never; windows end between calls; pauses overlap |
| Backfill Channel DO (`do/backfill-channel.ts`, `domain/*.ts`) | SQLite table `runs`, one alarm; in memory: the alarm handler | `start`, `resume`, `alarm` (= up to `pagesPerAlarm` times `executePage` or `flushPendingCoordination`, then `applyOutcome`, then `setAlarm`) | crashes between any two awaits, alarms delivered at least once, `resume` in the middle of a handler, a channel that changes during the crawl |
| R2 Archive writer (`adapters/r2-archive.ts`) | create-only objects | `commit` = put if absent, else head and compare | a put that failed may have stored the object; another writer, or an erasure, between put and head |
| Archive client (`internal/archive`) | the same objects, through S3 | `PutCreateOnly`, `List` page by page, `Get`, `Delete` | the S3 client repeats requests whose answer was lost; a 409, or any error with 412 in its text, passes for a refusal; objects come and go during a listing |
| Envelope codec (`internal/observation`, `observation/*.ts`) | none | validate, key, payload hash, encode, decode, `GenerateFixture` | what is stored is another spelling of the payload than what was hashed |
| Discord client (`adapters/discord-client.ts`) | none | `fetchChannelMessages` | every answer, or none |
| API Worker (`worker/api.ts`) | none | routes to `start`, `resume` and reads | - |
| Projection (`internal/projection`) | none | `Project`, `Reduce` | the result must not depend on order, repetition or chunking |
| Materializer driver (`internal/materializer`) | control bucket: manifest, candidates, extract and commit checkpoints, status | `Run`: fixManifest, extractPhase (goroutines), reducePhase, commitPhase, writeRunStatus | killed anywhere, resumed in a new process, stopped by a unit budget, several processes at once |
| Control store (`internal/materializer/control.go`) | the JSON objects of that bucket | `PutIfAbsentJSON`, `PutJSON`, `GetJSON` | repeated requests, misread conflicts, a status read in one request and written in another |
| Iceberg client (`internal/icebergcat`) | the table and its staging files | `EnsureTable`, `WriteStaging`, `CommitFiles`, `AddFilesRaw`, `DropTable`, `TableExists`, `ScanRows` | commit and checkpoint are two writes; a stale table handle; a lost answer |
| Equivalence digest (`internal/equivalence`) | none | `Serialize`, `Diff` | decides the spike by sets of lines |
| R2 SQL client (`internal/r2sql`) | none | `Query` | answers from an earlier version of the table |
| Acceptance spike (`internal/spike`, `cmd/dwh-spike`) | its report; Archive, table and R2 SQL are shared | `run` (put, materialize, commit twice, scan, query, drop, rebuild, compare), `Cleanup` | every request may fail with or without effect; other loops, the backfill and a cleanup at the same time |
| Parquet writer, schema (`internal/canonical`) | none | conversions | sequential; only the identity of staging files is modelled |
| Gateway ingestion, queues, pipelines | - | documented, no code | not modelled |

How they interact.  The API Worker calls `start`/`resume` of one Channel object per channel.
Each Channel calls the single Budget object by RPC before (`acquire`) and after (`report`)
a Discord request, puts the page into R2, then advances its cursor.  The materializer lists
R2, reads objects, keeps its own state in the control bucket and appends data files to the
Iceberg table.  The spike puts fixtures of its own into R2, commits to a table through the same
Iceberg client and asks R2 SQL about it.  The Worker and the Go programs share only the Archive.

What makes each part correct: for the Budget, limits that hold over every window of the whole
history; for the Channel, an archive without gaps behind the cursor, reports that are never
lost and come before any request, and alarms that are never missing; for the projection,
agreement with the documented precedence; for the Archive, that what was accepted is there,
unchanged, until it is erased, and that a replay misses nothing; for the materializer, exactly
the Current State of a fixed input in the table, once, whatever fails; for the spike, a verdict
that is true.  The `hazards` of `PROJECT.json` list
the lines where this can go wrong.

## 2. Modules

    HttpBudget <- BackfillFleet - MCBackfillFleet (1 run)   BackfillBudgetProofs
               <- MCHttpBudget (1 run)
    Crawl (abstract) <-INSTANCE- BackfillChannel
                    - MCBackfillChannel (3 runs)          BackfillChannelProofs
    Projection                                              ProjectionProofs
               <- ParallelProjection
                    - MCParallelProjection (1 run)          ParallelProjectionProofs
               <- Rebuild (abstract) <-INSTANCE- Materializer
                    - MCMaterializer (3 runs)               MaterializerProofs
               <- AcceptanceSpike
                    - MCAcceptanceSpike (1 run)             AcceptanceSpikeProofs
    RunControl <- MCRunControl (1 run)                      RunControlProofs
    ObservationArchive <- MCObservationArchive (1 run)      ObservationArchiveProofs

**HttpBudget.**  One action per method and outcome (`AcquireGranted`, `AcquireRefused`,
`ReportSeen`, `ReportNew`, `ClearCredentialHalt`), because a method is one transaction of a
single-threaded object; every call except the last prunes first.  Rows carry the
request they belong to (the tables keep only times, which is all the code looks at).
`grantLog` and `applyLog` are history: what was granted and applied over all time, also
after pruning.  A request's answer is fixed at its first report; a re-send carries it again.

**BackfillChannel.**  `pc` is the point of the alarm handler: a step is the code between two
awaits or fault points, and `Crash` may fall between any two.  `runs`, `alarm` and `archive`
survive a crash, the rest does not.  Absolute times are kept as the time left, which the code
cannot tell apart since it only compares times with the clock or takes the later of the two;
`Tick` lets a unit pass.  A crash of a handler leaves its alarm to be delivered again (`alarm' = 0`)
or, if `AlarmsCanBeLost`, gone.  `resume` is possible at every await.  Budget, Discord and R2
answer with everything the code distinguishes; a failed put may have stored the object and a
failed report may have been recorded.  `stable`, `owed` and `hold` are history.

**Crawl** is what the one who starts a run can rely on, without alarms, retries or crashes: runs
begin one at a time, store pages from ahead of their cursor, move it down to a message that is
archived, and complete when nothing that counts is left behind; a run that was completed or
abandoned does nothing more.  `BackfillChannel` implements it (`ImplementsCrawl`): its `running` and
`waiting` are one state there, the cursor before the first page is the end of the range, and a run has
archived what the Observations it put into R2 hold.

**BackfillFleet.**  Extends HttpBudget, all of it, by the Channels that ask it.  Of a Channel
only the part of `executePage` and `flushPendingCoordination` is kept that the Budget has to do
with: `Ask`, `Send`, `Reply`, `Report`; that a Channel asks for nothing before it has reported a
401, 403 or 429 is `ReportFirst` of BackfillChannel.  The request reaches Discord some time after
the grant, so `sentLog` and `heardLog` are what Discord sees, not what the Budget decided.  A Channel that
crashes, or whose fetch throws (`step.ts:206-218`), gives its request up (`GiveUp`) and asks for another one;
the one given up is `astray`, and may reach Discord at any later time, or never, and be answered there
(`StrayArrives`, `StrayAnswered`), while nobody reports it.

**ObservationArchive.**  A step is one request to R2.  `Put...` and `Head...` are the two
requests of `PutCreateOnly` and `commit`; `PutConflicts` and `PutFails` include what
`isPreconditionFailed` takes for a refusal.  `Encode` writes the payload in another spelling, so
that its hash is not the one in the metadata; the comparison uses the metadata on both sides.
A replay is `StartList`, `ListPage` per page and `Get` per key.  `accepted` and `throughout` are
history.  Only the S3 client repeats requests; the Worker's binding does not.

**Projection, ParallelProjection.**  `Newer`, `Adopt`, `Project`, `Reduce` follow
`projection.go`; `BestKnown` is the reference, the three rules of
`docs/domain/processing/projection.md` as successive filters.  ParallelProjection runs one
loop iteration per step, the chunks in any interleaving.

**Materializer.**  Per invocation a program counter, the local variables of `Run` and one
worker per goroutine; per run the objects of the control bucket; the table as the sequence of
its data files.  A step is one request to a store with the local work before it.  A request
whose effect happened but whose answer was lost is the step followed by `Crash`, since `Run`
returns every error at once.  The candidates of a run are a partial function, a row set for each
chunk that has its object.  Reads of candidates make one step, because they no longer change
once their checkpoint exists (`CandidatesSound` of the proofs).  External assumption: the
catalog accepts a commit only on top of the snapshot it was prepared from (optimistic
concurrency of the Iceberg REST catalog; `CommitFiles`/`CommitConflict`).  R2 reads and
conditional puts are taken as strongly consistent.

**RunControl.**  The control bucket under a finer grain than in Materializer: a request is
what the S3 client makes of it (`Resend`), and `ReadRunStatus` and `WriteRunStatus` are two
steps.  The work of a call is only its checkpoints.  In Materializer one put-if-absent is one step;
`WorksOnFixedManifest` is the reason why that is enough.

**AcceptanceSpike.**  `loop[l].pc` is the request `run` is at; `Blamed` is the criterion an error
of that request is reported under.  `catalog` is the sequence of versions R2 SQL has not got beyond: the
last is the table, the first what R2 SQL answers from, and `CatchUp` is external.  A request fails
without effect or after it, and a loop may be killed.  `EnterRebuild` is what lies between the drop and the second
listing: a Discord credential in the environment fails `rebuild_without_discord`, and an error of `uuid.NewV7`
ends the loop with no criterion (`spike.go:253-260`).  Which of them happens is open, because nothing else reads
the environment; `rebuildRun` is whether the report names the second run.  The Archive is the set
of keys with fixed contents, and `Projected` is what each listing projects to, by the operators of Projection.

**Rebuild.**  The abstract promise of all runs: per run an input that is fixed once (`FixInput`), the
bag of the rows published, in batches of rows of its Current State and none twice (`Publish`; a bag,
so that a row published twice shows), and whether completion is reported, which it is only when
all is there (`Report`).  `Materializer` instantiates it with `FixedInput` (the manifest's objects),
`CopiesInTable` (how often each row is in the run's data files) and `Completed` (the status):
`ImplementsRebuild`.

## 3. Runs

| Run | Bounds | What it shows |
|---|---|---|
| `budget_fleet` | 2 Channels, 3 requests, 1 per window of 2 ticks, invalid window 3, threshold 1 (of 2), clock to 5, a 200, a 401 and global pauses of 1 and 4, 1 request given up | `CeilingInEveryWindow`, `OncePerWindow`, `RefusalHintExact`, `PauseHonoured`, `InvalidBudgetHonoured` of the Budget; `InvalidBounded`, `CeilingAtDiscord`, `StopsReachFleet` of what Discord sees |
| `budget_resend` | 1 request | `NeverAppliedTwice` fails: see findings |
| `channel` | 1 run, messages 1..4, all there at first, page limit 2, 2 pages per alarm, latency 1, 1 crash, ranges after 1 and before 4 | `NoGap`, `ProgressBacked`, `OwedIsPending`, `AlarmArmed`, `ReportFirst`, `HoldHonoured`, `ImplementsCrawl` |
| `channel_liveness` | 1 run, message 1 at first, message 2 posted at any time, page limit 1, 1 crash, which may lose the alarm | `RunEnds` |
| `channel_bucket` | 2 runs one after the other | `BucketHonoured` fails: see findings |
| `projection` | 3 observations, 2 chunks, 2 times, 6 pages of 2 messages | `ChunkIsBestKnown`, `MergeIsBestKnown` |
| `rebuild` | 2 invocations at once, 3 objects (one uploaded late), chunks of 1, batches of 2, 2 units per invocation, unbounded faults | `ExtractBacked`, `CommitBacked`, `RegisteredOnce`, `CompletedMeansComplete`, `InputIsolated`, `ImplementsRebuild` |
| `rebuild_liveness` | the same with chunks of 2, 1 unit per invocation, 1 fault | `RunCompletes` |
| `rebuild_batch_size` | batch sizes 1 and 2 | `CompletedMeansComplete` fails: see findings |
| `archive` | a Go writer, a Worker, a replay and a cleanup; 3 envelopes under 2 keys, one of an unknown version; pages of 1 key, 2 attempts | `DurableAcceptance`, `NoOverwrite`, `OwnRetryNoViolation`, `ReplayComplete`, `ReplayFaithful` |
| `spike` | 2 loops, 1 of them with R2 SQL, 1 cleanup, at most 2 of these at a time, 1 page of the backfill, 2 polls, R2 SQL at most 3 versions behind | `PassedMeansRebuilt`, `ComparedTwoTables`, `ReportHonest`, `PathReferencedOnce` |
| `run_control` | 3 calls, 2 chunks, 1 batch, 2 units per call, 2 attempts | `WorksOnFixedManifest`, `PhaseBacked`, `ManifestImmutable` |

Why the bounds are enough.  `budget_fleet`: two Channels have a request under way each, and a third
can follow one that was answered or given up; the clock ends before the ceiling would let a fourth out; one
invalid response reaches the threshold, so that the second is the one too many; both windows end within the
clock, and a short pause can follow a long one.  The request given up may be either Channel's, before or after it
reaches Discord, and that it is left out is necessary here: TLC finds `InvalidBounded` violated without its last
term, and `CeilingAtDiscord` when the older requests include those given up.
`CeilingReachesDiscord` and `InvalidReachesBudget` prove both for any number of Channels and requests given up.
`channel`: 4 messages
with pages of 2 give a full page, an exactly full last page, a short page, an empty page, a page that crosses
`range.after` and deletions in between; two pages per alarm separate the end of the loop from
the end of a page; the time units let a hold end before, at and after a backoff.  One crash
suffices for each single window between two steps.  Posts during the crawl happen in
`channel_liveness` only; the proofs cover them, and any number of crashes, for `channel`'s
properties.  They also cover several runs of one channel, which in this project only `channel_bucket` has: with
one run TLC sees that a run which has ended is left alone, and the theorem that no second one is underway
beside an active one.
`projection`: two messages that share pages, ties in each of the three keys, evidence shared
by the chunks.  `rebuild`: two chunks, two batches and two units, so that an invocation stops
between any of them and the run takes several; two invocations, so that one holds a stale table; the third
object supersedes a row of the first, so that a leak of late evidence shows.  `archive`: two writers can meet at one key with
the same envelope, with different ones and with a foreign object; two pages are a listing that objects
can change under; the proofs cover any number of all of them.  `spike`: two loops are one that finds
what the other left behind, a dead one's table or a live one's; more than two invocations at a time add nothing a pair does not;
R2 SQL that still answers from the table dropped before the rebuild is at most three versions behind the rebuilt
table with its rows.
`run_control`: one call can be overtaken by one that completes and by one that is still to begin.

These runs say `CHECK_DEADLOCK FALSE`, because their systems stop: `projection` when all is folded,
`budget_fleet` when the clock or the requests run out, `spike` and `run_control` when every
invocation has ended.  The others check deadlock.

`MaxNow`, `MaxMessage`, `MaxLatency`, `MaxCrashes`, `MaxAstray`, `MaxFaults`, `MaxLag`, `MaxCleanups`, `MaxConcurrent`
and `AttemptCap` (which is the code's own `Math.min(attempt, 10)`) are the only bounds, each in a guard;
`MaxAttempts` and `MaxPolls` stand for limits of the S3 client and of `queryR2SQL`.
Symmetry is used for requests, channels, chunks and invocations, in runs without liveness only.

### Fairness

`BackfillChannel!Fairness`: the runtime runs a handler on to its next await, time passes, a
due alarm instantiates the object and is delivered (Durable Object alarms are retried), and a
page takes bounded time.  Of the services it assumes only, with strong fairness, that a
Channel that keeps asking is sometimes granted a slot, served a page, allowed to store it and
allowed to report.  Crashes, posts, deletions and API calls get none.
`AttendedSpec` adds the operator: the platform gives up on an alarm after it failed often enough, and
then nothing in the code wakes a run, so somebody has to call `resume` (or any other method, which
instantiates the object).  It is assumed only for a run that a crash left without an alarm (`Stranded`), so that a handler
which forgets its alarm still shows.
`Materializer!FairSpec`: a process that is not killed goes on, and the caller invokes a run
again until it is completed, as the comment of `MaxUnitsThisInvocation` prescribes.  Faults
are finitely many there (`MaxFaults`): with crashes for ever nothing completes.

### Findings

1. `prune()` forgets processed report identities after one window, so a Channel that was down
   longer re-sends a report that is then counted twice (README of the worker says never).
2. `route_buckets` is never read: a run started right after another one ended on an
   exhausted bucket does not wait for the reset.
3. Commit checkpoints are found by batch index, so a resume with another
   `--commit-batch-size` skips rows and still reports `completed`.

Noted without a run, met while modelling.  The models behave like the ones marked *: a property that
said the opposite was tried with TLC and violated; the others come from reading.

- * A second rebuild run appends to the table of the first (`icebergcat.go:88`), so every message
  is in it twice; materialization.md has a full rebuild generate a new table.
- * The payload hash is taken from the received spelling (`envelope.go:148`) and the payload is stored in
  another: `json.Encoder` compacts and escapes it, `JSON.stringify` writes it anew.  `envelope_test.go:49`
  expects the hash to survive a round trip, which it does because the test's payload is compact already.
  `archive.go` and `r2-archive.ts` compare the hashes in the metadata, so `OwnRetryNoViolation` holds.
- * `Cleanup` deletes every object under the prefix the backfill archives under
  (`spike.go:500`, `cmd/dwh-spike/main.go:91`); `spike.go:494` speaks of fixture objects.
- * After the rebuild, R2 SQL may answer with the rows of the table that was dropped, and the answer is
  accepted because it has the expected number of rows (`spike.go:437`).
- * Where the rebuild gets no identifier (`spike.go:258-260`) the report shows nine passed criteria and
  a failure that none of them explains; all other errors of `run` from the first put on go through `fail`.
- * `Diff` compares sets of lines (`equivalence.go:76`): a table that holds each row twice, the file of a
  loop that failed and that of this one, is reported equivalent.
- * `RunStatus.StartedAt` is the start of the first call that got as far as writing a status (`driver.go:459`),
  not of the first call (`driver.go:451`).
- * Another call of a completed run writes `committing` over `completed` until it finds nothing to do
  (`driver.go:166`).
- `WriteStaging` overwrites unconditionally, where materialization.md asks
  to check an existing staging file and reuse it; the path is a digest of what is written.
- The Worker and the Go code give the metadata key for the format different values
  (`observation-envelope-json` and `json`); nothing reads it.
- The phase `reducing` and the field `RunStatus.Failure` are never written.

## 4. Proofs

All for every value of the constants; `MaxNow`, `MaxMessage`, `MaxCrashes`, `MaxFaults` and the other bounds
are arbitrary numbers.  What is assumed of the constants is `BudgetAssumption`, `FleetAssumption`,
`ChannelAssumption`, `ArchiveAssumption`, `AbsenceAssumption`, `RunControlAssumption`, `UneditedAssumption`,
`ParallelAssumption`, `MaterializerAssumption`, `SpikeAssumption` and `NoTableAssumption`, which TLC evaluates
in each run of the module.  The assumptions of the three that project say of the Archive that pages are
finite, that a page holds a message once and that one Observation ID stands for one envelope; what stands for
absence (`Null`, `Unedited`) is none of the values it could be taken for.

`BackfillBudgetProofs`, the Budget.  `TypeCorrect` first.  `CeilingInEveryWindow` is not inductive: the
invariant adds that every grant still inside the window has its row in `slots` and that times never lie in
the future; a window that ends with the newest grant holds fewer than the ceiling before it,
because `acquire` counted them.  `OncePerWindow` and `InvalidBudgetHonoured` use the same
correspondence of `processed` and `invalid` with `applyLog`; `PauseHonoured` rests on
`globalRetryUntil` being at least the end of each pause applied.  `RefusalHintExact` is
arithmetic over the oldest row.

`BackfillBudgetProofs`, the fleet.  `FleetUsesBudget`: every step of the fleet is a step of the Budget with
callers that ask and report in their own order, so that all theorems about the Budget hold of it.
`StopsReachFleet` follows from `GrantsStop`, an invariant of the Budget alone: no grant is younger than
the halt that stands, or than a pause that is not over; `FleetInv` adds that what a Channel sends was
granted to it, that no two Channels hold one request, and that none holds one that was given up.
What Discord counts is `CountInv`.
`CeilingAtDiscord`: a request seen in a second was granted in that second, where the ceiling of the Budget
counts it, or before.  `LateInv` bounds the latter: whatever the time t, the requests granted before t, sent
later and not given up, and the Channels that still hold one granted before t, are together no more than the
Channels.
`InvalidBounded`: an invalid answer that was heard is applied, owed by a Channel, or answers a request given up
(`AccountedInv`).
When the Budget grants, the applied ones of a window that is still open are below the threshold
(`AskHasRoom`), so that `AllowanceInv` survives the grant: what was heard in an open window and the requests
still under way, those given up left out, are together within the allowance.  No other step adds to the sum more
than it takes away.

`BackfillChannelProofs`.  `Placed` says at which `pc` each volatile variable has a value and that
the handler works on an active run; all others use it.  `ReportInv`: at most one run is active, the
handler works on an active one, nothing is pending on the way from `acquire` to the progress,
and nothing is owed once the flush succeeded, which gives `OwedIsPending` and `ReportFirst`.
`HoldInv`: while a run is active its hold is covered by the hint in its pending record or else by
`next_eligible_at`, which is over whenever the handler is on a page, and that gives
`HoldHonoured`.  `CrawlInv` carries the page in flight: it contains all stable messages below the
cursor except, when the page is full, those older than its oldest message, so that `Progress` keeps `NoGap`;
`ProgressBacked` uses that a page reaches `progress` only from a commit that stored it.  `AlarmInv`: an alarm
never comes later than the active run is eligible, and there is one unless the handler is at work
on that run and will set it; it needs `~AlarmsCanBeLost`, which `AlarmIsArmed` assumes.
`CrawlIsImplemented` needs no such assumption: a commit, also one whose answer is lost, is `Store`, because
`CrawlInv` knows the page in flight to come from below the cursor; `Progress` is `Advance` or `Complete`, of which
`NoGap` after the step is the condition; an outcome that ends the run is `Abandon`; all other
steps stutter, crashes and repeated alarms among them (`HandlerStep`).

`ObservationArchiveProofs`.  `StoreInv`: what is under a key was put there by a writer for that key, or is
foreign.  `NoOverwrite` is a property of single steps.  `AcceptedInv` adds to `DurableAcceptance`
that an accepted key is still the one that was accepted: a `PutStores` wrote it, a `HeadMatches` read the same
Observation ID and hash, and nothing but `Delete`, which forgets the acceptance, changes it.
`CompleteInv`: at each point of a listing every key that was there throughout is found, or got, or
still behind the last key of the page (`PageIsFirst`: a page is an initial part of the listing order), for
every page size.

`RunControlProofs`.  `ManifestStep` says that a manifest is written once and that whoever gets past
`fixManifest` has the one that is stored; `Backed` that a call has all checkpoints behind it, so that what it
is about to report is true whenever it gets round to it, because checkpoints only grow.  `StartIsKept` assumes
`~Overlap`: between the read and the write of one call no other call writes (`ReadIsRecent`).
With overlap it is false.

`ProjectionProofs`, about the operators.  `IsBest(R, E)`: R holds the best row of each message in the
evidence E and no other.  `AdoptKeepsBest`: adopting a row into the best of E gives the best of E and that
row, from `Newer` being a strict order in which different rows of a message always compare.  `ProjectIsBest`
and `ReduceIsBest`: `Project` of any sequence of envelopes and `Reduce` of any finite family of row sets
return the best of all that is in them, so that order, repetition and chunking do not matter; the folds are
unfolded by `SubsetRecursion`, which gives what a fold over a finite set computes as a recursive function on
its subsets.  (The library's induction theorems have an operator as a parameter, so `NaturalInduction` and
`SubsetInduction` are stated for a set `Good` of numbers or subsets.)  `ListingIsBest`: so it is for the evidence
under finitely many keys in their order, which is what the materializer's chunks (`Groups`, `Group`) and the spike
project.  `BestIsBestKnown`: for finite evidence that is the documented precedence,
`BestKnown`.  `BestOfBests`: the best of the bests of the parts is the best of the whole.

`ParallelProjectionProofs`.  The invariant is `IsBest` of each chunk and of the merge with respect to what was
read and folded so far; `ChunkIsBestKnown` and `MergeIsBestKnown` follow by `BestIsBestKnown`.

`MaterializerProofs`.  `TypeInv` adds to the types at which `pc` each volatile variable has a value.
`SharedInv`, of the stores: a manifest lists only what was uploaded by its cutoff; a stored candidate set is
the best of its chunk's evidence and is there when the checkpoint is; each data file is a batch of the rows
of its run's manifest, and no file is in the table twice; what a commit checkpoint or the status claims is in
the table.  `ProcInv`, of each invocation: it works on the stored manifest, what it is about to checkpoint is
stored, it publishes the rows of the whole input (`BestOfBests` over the chunks), and the batches it has passed
are in the table.  Another invocation cannot break these, because what they rest on is never taken back
(`Kept`).  A commit goes through only on top of the snapshot it was prepared from, so that a file is
registered once by however many invocations.  `TypeOK`, `ExtractBacked` and `InputIsolated` hold for every set
of batch sizes.  `CommitBacked`, `RegisteredOnce`, `CompletedMeansComplete` and `ImplementsRebuild` are proved
where all invocations use one size (`OneBatchSize`), which the run `rebuild` has too; finding 3 shows that
`CompletedMeansComplete` fails without it.  `RebuildIsImplemented` goes step by step: `FixManifest` is
`FixInput`, `CommitFiles` is `Publish`, a status is `Report`, and all else stutters; that the rows of a batch
are not published yet is that the batches of one size are disjoint and each file is there once.

`AcceptanceSpikeProofs`.  `LoopSound` says of one loop next to a catalog, by phase and `pc`: how many of the
criteria are on record (`Reached`, `RecordSound`); that what it built is what the keys it first listed project
to, and what its scans showed (`ContentSound`); how the number of the table it scanned first compares with the
one it holds and the one that is current (`NumberSound`); and which of its two staging paths no version of the
table references yet (`Pending`, `PathSound`).  `PassedMeansRebuilt` and `ComparedTwoTables` speak of a loop
that is over, so their strength lies in what it carried there: `NumberSound` has to say already when a rebuild has
found no table that any table from now on is a later one.  `PathReferencedOnce` needs `Pending`, because the first
`CommitFiles` does not look at the files of the table.  The proof splits a step in two: what it does to the
catalog (`Keeps`, `Creates`, `Drops`, `Registers`), of which `LoopKept` shows that it takes away nothing another loop counts
on, and how the loop itself goes on (`GoesOn`, a lemma for each action).  That a passed comparison of lines means the
same rows is `LinesDetermine`: the empty table has one line, which is no row.  `BuildIsBest` then cites
`ListingIsBest` for the Current State.  `ReportHonest` needs that a loop of the first phase names no second run:
then a report that ends with a passed drop is one whose rebuild got no identifier.

Only model-checked: liveness (`RunEnds`, `RunCompletes`), which is out of the provers' reach.  Only proved: the
type invariants of the Budget, the fleet, the Channel, the Archive and the run control, and `StartedKept`.

## 5. Not modelled

Compression, Parquet, SQL schemas, authentication, logging, timings: no decision of the modelled parts
depends on them beyond success or failure.  Parsing and formatting of identifiers and times are
sequential conversions with tests of their own.  `List` of the control store is not called by the driver.
`BACKFILL_PAGE_LIMIT` is taken to be a page size Discord accepts.  A Discord page is what the
documentation says: the newest messages older than `before`, all of them if fewer than the limit.
Managed compaction of the table, which would replace the staging paths duplicate protection looks for, is
not enabled and not modelled.  Gateway ingestion, queues and pipelines exist in the documentation only.
Three behaviours are in the models without a property, because nothing promises otherwise: a late report of a
401 from before the token was rotated halts everybody again; a crash between the R2 commit and
the progress forgets the reset time of an exhausted bucket (a 429 follows); a lagging
invocation shows an earlier phase.

## 6. Plan

Done: the Budget and the fleet, the Channel with and without an attending operator, the Archive of both
languages, the projection, the materializer with the abstract rebuild, its control store, and the spike,
the abstract crawl that `BackfillChannel` implements, and a theorem for every safety property, every action
property and both refinements that the runs confirm.
