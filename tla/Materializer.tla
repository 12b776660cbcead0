---------------------------- MODULE Materializer ----------------------------
(***************************************************************************)
(* The Canonical rebuild driver, internal/materializer: a rebuild run is   *)
(* identified by its Run ID and carried out by any number of invocations   *)
(* of dwh-materializer, which may be stopped by a unit budget, fail, be    *)
(* killed, or overlap.  All they share is                                  *)
(*   - the Archive, which keeps growing while they run,                    *)
(*   - the control bucket: manifest, candidates, checkpoints, run status,  *)
(*   - the Canonical table of the Iceberg catalog and its staging files.   *)
(*                                                                         *)
(* A step is one request to one of these stores with the local work that   *)
(* leads to it.  A request whose effect took place but whose answer was    *)
(* lost is the step followed by Crash: Run returns the error, and the      *)
(* command ends.                                                           *)
(***************************************************************************)
EXTENDS Projection, Integers, FiniteSets

CONSTANTS Runs,          \* Run IDs
          Procs,         \* invocations that may be under way at once
          Objects,       \* Archive keys, numbered in key order
          Evidence,      \* the envelope stored under each key
          Archived,      \* the sets of keys the Archive may hold at first
          ChunkSizes,    \* --chunk-size values in use
          BatchSizes,    \* --commit-batch-size values in use
          UnitLimits,    \* --max-units values in use, 0 for no limit
          Concurrency,   \* --extract-concurrency
          MaxFaults,     \* bound on the faults of a behavior, -1 for none
          Null           \* absent

\* An Observation ID stands for one envelope: two keys with the same ID would
\* hold the same evidence twice
ASSUME MaterializerAssumption ==
    /\ IsFiniteSet(Objects) /\ Objects \in SUBSET Nat
    /\ Evidence \in [Objects -> Envelope]
    /\ \A k \in Objects : IsFiniteSet(Evidence[k].page)
    /\ \A j, k \in Objects :
          Evidence[j].observation = Evidence[k].observation => Evidence[j] = Evidence[k]
    /\ Archived \in SUBSET (SUBSET Objects)
    /\ ChunkSizes \in SUBSET (Nat \ {0})
    /\ BatchSizes \in SUBSET (Nat \ {0})
    /\ UnitLimits \in SUBSET Nat
    /\ Concurrency \in Nat \ {0}
    /\ MaxFaults \in Nat \cup {-1}
    /\ Null \notin Nat
    /\ \A keys \in SUBSET Objects : keys # Null
    /\ Null \notin [objects: SUBSET Objects, cutoff: Nat, chunkSize: ChunkSizes]

VARIABLES
    \* the environment: the clock, the Archive and the faults to come
    now,
    uploadedAt,    \* when R2 recorded each object, Null before it exists
    faults,        \* how many more faults may happen, -1 for no bound
    \* the control bucket, per run
    manifest,      \* manifest.json
    candidates,    \* candidates/<i>.json: the rows of each chunk i stored
    extracted,     \* the chunks i with extract/<i>.json
    committed,     \* the batches j with commit/<j>.json, Committed
    status,        \* status.json
    \* the Canonical store
    staged,        \* staging files written
    table,         \* the data files of the table, one snapshot per file
    \* the invocations
    pc, job, left, stopped, next, worker, failed, input, rows, snapshot

envVars == <<now, uploadedAt, faults>>
controlVars == <<manifest, candidates, extracted, committed, status>>
catalogVars == <<staged, table>>
procVars == <<pc, job, left, stopped, next, worker, failed, input, rows, snapshot>>
vars == <<envVars, controlVars, catalogVars, procVars>>

-----------------------------------------------------------------------------
(* Data                                                                    *)

\* Contiguous groups of n in the order of a key: the i-th group of S
Rank(x, S, Key(_)) == Cardinality({y \in S : Key(y) < Key(x)})
Group(S, Key(_), n, i) == {x \in S : Rank(x, S, Key) \div n = i}
Groups(S, n) == (Cardinality(S) + n - 1) \div n

\* The manifest keeps the keys it lists; chunk i is cut from them
Manifest == [objects: SUBSET Objects, cutoff: Nat, chunkSize: ChunkSizes]

ChunkCount(m) == Groups(m.objects, m.chunkSize)
ChunkKeys(m, i) == Group(m.objects, LAMBDA k : k, m.chunkSize, i)

BuildManifest(cutoff, chunkSize) ==
    [objects |-> {k \in Objects : uploadedAt[k] # Null /\ uploadedAt[k] <= cutoff},
     cutoff |-> cutoff, chunkSize |-> chunkSize]

Chunk == 0..Cardinality(Objects)

ProjectChunk(m, i) ==
    LET keys == ChunkKeys(m, i)
        Nth(n) == CHOOSE k \in keys : Rank(k, keys, LAMBDA x : x) = n - 1
    IN  Project([n \in 1..Cardinality(keys) |-> Evidence[Nth(n)]])

BatchCount(rs, size) == Groups(rs, size)
CommitBatch(rs, size, j) == Group(rs, LAMBDA row : row.message, size, j)

\* The objects of one run: a row set for each of some chunks
IsStored(objects) ==
    DOMAIN objects \subseteq Chunk /\ objects \in [DOMAIN objects -> SUBSET Row]

\* A staging path is a digest of the run and of the rows in the file
File == [run: Runs, rows: SUBSET Row]

Phase == {"extracting", "committing", "completed"}
Status == [phase: Phase, rowCount: Nat, batchCount: Nat]

Job == [run: Runs, chunkSize: ChunkSizes, batchSize: BatchSizes, cutoff: Nat]

Pc == {"idle", "list", "fix", "load", "extract", "slot", "wait", "drain",
       "reduce", "announce", "table", "commit", "stage", "register", "record", "report"}

EnvTypeOK ==
    /\ now \in Nat
    /\ uploadedAt \in [Objects -> Nat \cup {Null}]
    /\ faults \in Nat \cup {-1}

ControlTypeOK ==
    /\ manifest \in [Runs -> Manifest \cup {Null}]
    /\ candidates = [r \in Runs |-> candidates[r]]
    /\ \A r \in Runs : IsStored(candidates[r])
    /\ extracted \in [Runs -> SUBSET Chunk]
    /\ committed \in [Runs -> SUBSET Nat]
    /\ status \in [Runs -> Status \cup {Null}]

CatalogTypeOK ==
    /\ staged \in SUBSET File
    /\ table \in Seq(File)

ProcTypeOK ==
    /\ pc \in [Procs -> Pc]
    /\ job \in [Procs -> Job \cup {Null}]
    /\ left \in [Procs -> Nat \cup {-1}]
    /\ stopped \in [Procs -> BOOLEAN]
    /\ next \in [Procs -> Nat]
    /\ worker \in [Procs -> [Chunk -> {"none", "project", "record"}]]
    /\ failed \in [Procs -> BOOLEAN]
    /\ input \in [Procs -> Manifest \cup {Null}]
    /\ rows \in [Procs -> SUBSET Row]
    /\ snapshot \in [Procs -> Nat]

TypeOK == EnvTypeOK /\ ControlTypeOK /\ CatalogTypeOK /\ ProcTypeOK

Init ==
    /\ now = 0
    /\ \E keys \in Archived : uploadedAt = [k \in Objects |-> IF k \in keys THEN 0 ELSE Null]
    /\ faults = MaxFaults
    /\ manifest = [r \in Runs |-> Null]
    /\ candidates = [r \in Runs |-> [i \in {} |-> {}]]
    /\ extracted = [r \in Runs |-> {}]
    /\ committed = [r \in Runs |-> {}]
    /\ status = [r \in Runs |-> Null]
    /\ staged = {}
    /\ table = << >>
    /\ pc = [p \in Procs |-> "idle"]
    /\ job = [p \in Procs |-> Null]
    /\ left = [p \in Procs |-> 0]
    /\ stopped = [p \in Procs |-> FALSE]
    /\ next = [p \in Procs |-> 0]
    /\ worker = [p \in Procs |-> [i \in Chunk |-> "none"]]
    /\ failed = [p \in Procs |-> FALSE]
    /\ input = [p \in Procs |-> Null]
    /\ rows = [p \in Procs |-> {}]
    /\ snapshot = [p \in Procs |-> 0]

-----------------------------------------------------------------------------
(* Common parts of the steps                                               *)

Goto(p, label) == pc' = [pc EXCEPT ![p] = label]

\* Run returns: nothing held in memory survives it
Return(p) ==
    /\ Goto(p, "idle")
    /\ job' = [job EXCEPT ![p] = Null]
    /\ left' = [left EXCEPT ![p] = 0]
    /\ stopped' = [stopped EXCEPT ![p] = FALSE]
    /\ next' = [next EXCEPT ![p] = 0]
    /\ worker' = [worker EXCEPT ![p] = [i \in Chunk |-> "none"]]
    /\ failed' = [failed EXCEPT ![p] = FALSE]
    /\ input' = [input EXCEPT ![p] = Null]
    /\ rows' = [rows EXCEPT ![p] = {}]
    /\ snapshot' = [snapshot EXCEPT ![p] = 0]

Running(p) == \E i \in Chunk : worker[p][i] # "none"

RunOf(p) == job[p].run

\* A unit is taken whether or not one is left
TakeUnchecked(p) ==
    /\ left' = [left EXCEPT ![p] = @ - 1]
    /\ UNCHANGED stopped

\* unitBudget.take, and its refusal
Take(p) ==
    /\ left[p] # 0
    /\ left' = [left EXCEPT ![p] = IF @ > 0 THEN @ - 1 ELSE @]
    /\ UNCHANGED stopped

Refused(p) ==
    /\ left[p] = 0
    /\ stopped' = [stopped EXCEPT ![p] = TRUE]
    /\ UNCHANGED left

WriteRunStatus(p, phase) ==
    status' = [status EXCEPT ![RunOf(p)] =
                 [phase |-> phase,
                  rowCount |-> IF phase = "extracting" THEN 0 ELSE Cardinality(rows[p]),
                  batchCount |-> IF phase = "extracting" THEN 0
                                 ELSE BatchCount(rows[p], job[p].batchSize)]]

-----------------------------------------------------------------------------
(* The environment                                                         *)

\* The backfill archives one more object; R2's upload times are coarse, so
\* several objects and a cutoff may carry the same one
Upload(o) ==
    /\ uploadedAt[o] = Null
    /\ now' \in {now, now + 1}
    /\ uploadedAt' = [uploadedAt EXCEPT ![o] = now']
    /\ UNCHANGED <<faults, controlVars, catalogVars, procVars>>

FaultHappens ==
    /\ faults # 0
    /\ faults' = IF faults > 0 THEN faults - 1 ELSE faults
    /\ UNCHANGED <<now, uploadedAt>>

\* The process is killed, or Run returns an error at the request it was about
\* to make (or had made); the goroutines end with the process
Crash(p) ==
    /\ pc[p] # "idle"
    /\ FaultHappens
    /\ Return(p)
    /\ UNCHANGED <<controlVars, catalogVars>>

-----------------------------------------------------------------------------
(* The start of an invocation                                              *)

\* runCommand takes the cutoff, newBudget reads --max-units
Invoke(p, r) ==
    /\ pc[p] = "idle"
    /\ \E cs \in ChunkSizes, bs \in BatchSizes, units \in UnitLimits :
          /\ job' = [job EXCEPT ![p] =
                       [run |-> r, chunkSize |-> cs, batchSize |-> bs, cutoff |-> now]]
          /\ left' = [left EXCEPT ![p] = IF units = 0 THEN -1 ELSE units]
    /\ Goto(p, "list")
    /\ UNCHANGED <<envVars, controlVars, catalogVars,
                   stopped, next, worker, failed, input, rows, snapshot>>

\* ListWithTimestamps and BuildManifest: the candidate manifest
ListArchive(p) ==
    /\ pc[p] = "list"
    /\ input' = [input EXCEPT ![p] = BuildManifest(job[p].cutoff, job[p].chunkSize)]
    /\ Goto(p, "fix")
    /\ UNCHANGED <<envVars, controlVars, catalogVars,
                   job, left, stopped, next, worker, failed, rows, snapshot>>

\* The candidate replaces the manifest an earlier invocation fixed
FixManifestAnew(p) ==
    /\ pc[p] = "fix"
    /\ manifest' = [manifest EXCEPT ![RunOf(p)] = input[p]]
    /\ Goto(p, "extract")
    /\ UNCHANGED <<envVars, candidates, extracted, committed, status, catalogVars,
                   job, left, stopped, next, worker, failed, input, rows, snapshot>>

\* The invocation keeps its own candidate although a manifest exists
FixManifestKeepingOwn(p) ==
    /\ pc[p] = "fix"
    /\ manifest' = IF manifest[RunOf(p)] = Null
                   THEN [manifest EXCEPT ![RunOf(p)] = input[p]] ELSE manifest
    /\ Goto(p, "extract")
    /\ UNCHANGED <<envVars, candidates, extracted, committed, status, catalogVars,
                   job, left, stopped, next, worker, failed, input, rows, snapshot>>

\* fixManifest: PutIfAbsentJSON of the candidate
FixManifest(p) ==
    /\ pc[p] = "fix"
    /\ IF manifest[RunOf(p)] = Null
       THEN /\ manifest' = [manifest EXCEPT ![RunOf(p)] = input[p]]
            /\ Goto(p, "extract")
       ELSE /\ UNCHANGED manifest
            /\ Goto(p, "load")
    /\ UNCHANGED <<envVars, candidates, extracted, committed, status, catalogVars,
                   job, left, stopped, next, worker, failed, input, rows, snapshot>>

\* fixManifest: GetJSON of the manifest an earlier invocation fixed; one that
\* vanished is an error, which Crash covers
LoadManifest(p) ==
    /\ pc[p] = "load"
    /\ manifest[RunOf(p)] # Null
    /\ input' = [input EXCEPT ![p] = manifest[RunOf(p)]]
    /\ Goto(p, "extract")
    /\ UNCHANGED <<envVars, controlVars, catalogVars,
                   job, left, stopped, next, worker, failed, rows, snapshot>>

-----------------------------------------------------------------------------
(* extractPhase                                                            *)

\* The loop is at a chunk whose checkpoint is (not) found
AtChunk(p, found) ==
    /\ pc[p] = "extract"
    /\ next[p] < ChunkCount(input[p])
    /\ (next[p] \in extracted[RunOf(p)]) = found

\* The unit is taken before the checkpoint is looked at
SkipExtractedTaking(p) ==
    /\ AtChunk(p, TRUE)
    /\ Take(p)
    /\ next' = [next EXCEPT ![p] = @ + 1]
    /\ UNCHANGED <<envVars, controlVars, catalogVars,
                   pc, job, worker, failed, input, rows, snapshot>>

SkipExtracted(p) ==
    /\ AtChunk(p, TRUE)
    /\ next' = [next EXCEPT ![p] = @ + 1]
    /\ UNCHANGED <<envVars, controlVars, catalogVars,
                   pc, job, left, stopped, worker, failed, input, rows, snapshot>>

TakeChunk(p) ==
    /\ AtChunk(p, FALSE)
    /\ Take(p)
    /\ Goto(p, "slot")
    /\ UNCHANGED <<envVars, controlVars, catalogVars,
                   job, next, worker, failed, input, rows, snapshot>>

StopExtracting(p) ==
    /\ AtChunk(p, FALSE)
    /\ Refused(p)
    /\ Goto(p, "wait")
    /\ UNCHANGED <<envVars, controlVars, catalogVars,
                   job, next, worker, failed, input, rows, snapshot>>

\* The semaphore has room: the goroutine of the chunk starts
StartWorker(p) ==
    /\ pc[p] = "slot"
    /\ Cardinality({i \in Chunk : worker[p][i] # "none"}) < Concurrency
    /\ worker' = [worker EXCEPT ![p][next[p]] = "project"]
    /\ next' = [next EXCEPT ![p] = @ + 1]
    /\ Goto(p, "extract")
    /\ UNCHANGED <<envVars, controlVars, catalogVars,
                   job, left, stopped, failed, input, rows, snapshot>>

\* The checkpoint cannot be read: extractPhase returns without wg.Wait, and
\* goroutines already started go on until the process ends
CheckpointUnreadable(p) ==
    /\ pc[p] = "extract"
    /\ next[p] < ChunkCount(input[p])
    /\ FaultHappens
    /\ Goto(p, "drain")
    /\ UNCHANGED <<controlVars, catalogVars,
                   job, left, stopped, next, worker, failed, input, rows, snapshot>>

AllChunksVisited(p) ==
    /\ pc[p] = "extract"
    /\ next[p] >= ChunkCount(input[p])
    /\ Goto(p, "wait")
    /\ UNCHANGED <<envVars, controlVars, catalogVars,
                   job, left, stopped, next, worker, failed, input, rows, snapshot>>

\* The checkpoint is stored before the candidates it stands for
StoreCandidatesAfter(p, i) ==
    /\ worker[p][i] = "project"
    /\ extracted' = [extracted EXCEPT ![RunOf(p)] = @ \cup {i}]
    /\ worker' = [worker EXCEPT ![p][i] = "record"]
    /\ UNCHANGED <<envVars, manifest, candidates, committed, status, catalogVars,
                   pc, job, left, stopped, next, failed, input, rows, snapshot>>

\* extractChunk: fetch and project the chunk, store its candidates
StoreCandidates(p, i) ==
    /\ worker[p][i] = "project"
    /\ candidates' = [candidates EXCEPT ![RunOf(p)] =
                         [c \in DOMAIN @ \cup {i} |->
                            IF c = i THEN ProjectChunk(input[p], i) ELSE @[c]]]
    /\ worker' = [worker EXCEPT ![p][i] = "record"]
    /\ UNCHANGED <<envVars, manifest, extracted, committed, status, catalogVars,
                   pc, job, left, stopped, next, failed, input, rows, snapshot>>

\* extractChunk: store the checkpoint
StoreExtractStatus(p, i) ==
    /\ worker[p][i] = "record"
    /\ extracted' = [extracted EXCEPT ![RunOf(p)] = @ \cup {i}]
    /\ worker' = [worker EXCEPT ![p][i] = "none"]
    /\ UNCHANGED <<envVars, manifest, candidates, committed, status, catalogVars,
                   pc, job, left, stopped, next, failed, input, rows, snapshot>>

\* extractChunk fails: the other goroutines and the loop go on
WorkerFails(p, i) ==
    /\ worker[p][i] # "none"
    /\ worker' = [worker EXCEPT ![p][i] = "none"]
    /\ FaultHappens
    /\ failed' = [failed EXCEPT ![p] = TRUE]
    /\ UNCHANGED <<controlVars, catalogVars,
                   pc, job, left, stopped, next, input, rows, snapshot>>

\* wg.Wait, and an error of any goroutine is returned
WorkersDoneWithError(p) ==
    /\ \/ pc[p] = "wait" /\ failed[p]
       \/ pc[p] = "drain"
    /\ ~ Running(p)
    /\ Return(p)
    /\ UNCHANGED <<envVars, controlVars, catalogVars>>

\* wg.Wait, and the budget stopped the loop
ExtractionInterrupted(p) ==
    /\ pc[p] = "wait"
    /\ ~ Running(p)
    /\ ~ failed[p]
    /\ stopped[p]
    /\ WriteRunStatus(p, "extracting")
    /\ Return(p)
    /\ UNCHANGED <<envVars, manifest, candidates, extracted, committed, catalogVars>>

ExtractionDone(p) ==
    /\ pc[p] = "wait"
    /\ ~ Running(p)
    /\ ~ failed[p]
    /\ ~ stopped[p]
    /\ Goto(p, "reduce")
    /\ UNCHANGED <<envVars, controlVars, catalogVars,
                   job, left, stopped, next, worker, failed, input, rows, snapshot>>

-----------------------------------------------------------------------------
(* reducePhase and commitPhase                                             *)

\* reducePhase reads the candidates back.  They no longer change once their
\* checkpoint exists (ExtractBacked), so that the reads make one step; a
\* missing candidate object is an error, which Crash covers
ReducePhase(p) ==
    LET stored == candidates[RunOf(p)]
        count == ChunkCount(input[p])
    IN  /\ pc[p] = "reduce"
        /\ 0..(count - 1) \subseteq DOMAIN stored
        /\ rows' = [rows EXCEPT ![p] = Reduce([n \in 1..count |-> stored[n - 1]])]
        /\ Goto(p, "announce")
        /\ UNCHANGED <<envVars, controlVars, catalogVars,
                       job, left, stopped, next, worker, failed, input, snapshot>>

\* commitPhase returns at once when there is no batch
AnnounceCommit(p) ==
    /\ pc[p] = "announce"
    /\ WriteRunStatus(p, "committing")
    /\ Goto(p, IF rows[p] = {} THEN "report" ELSE "table")
    /\ UNCHANGED <<envVars, manifest, candidates, extracted, committed, catalogVars,
                   job, left, stopped, next, worker, failed, input, rows, snapshot>>

\* EnsureNamespace and EnsureTable: the table as of its current snapshot
EnsureTable(p) ==
    /\ pc[p] = "table"
    /\ snapshot' = [snapshot EXCEPT ![p] = Len(table)]
    /\ next' = [next EXCEPT ![p] = 0]
    /\ Goto(p, "commit")
    /\ UNCHANGED <<envVars, controlVars, catalogVars,
                   job, left, stopped, worker, failed, input, rows>>

AtBatch(p, found) ==
    /\ pc[p] = "commit"
    /\ next[p] < BatchCount(rows[p], job[p].batchSize)
    /\ (next[p] \in committed[RunOf(p)]) = found

\* The checkpoint is found by the index of the batch alone
SkipCommitted(p) ==
    /\ AtBatch(p, TRUE)
    /\ next' = [next EXCEPT ![p] = @ + 1]
    /\ UNCHANGED <<envVars, controlVars, catalogVars,
                   pc, job, left, stopped, worker, failed, input, rows, snapshot>>

TakeBatch(p) ==
    /\ AtBatch(p, FALSE)
    /\ Take(p)
    /\ Goto(p, "stage")
    /\ UNCHANGED <<envVars, controlVars, catalogVars,
                   job, next, worker, failed, input, rows, snapshot>>

StopCommitting(p) ==
    /\ AtBatch(p, FALSE)
    /\ Refused(p)
    /\ Goto(p, "report")
    /\ UNCHANGED <<envVars, controlVars, catalogVars,
                   job, next, worker, failed, input, rows, snapshot>>

BatchFile(p) ==
    [run |-> RunOf(p), rows |-> CommitBatch(rows[p], job[p].batchSize, next[p])]

\* The write is unconditional: the path determines the content
WriteStaging(p) ==
    /\ pc[p] = "stage"
    /\ staged' = staged \cup {BatchFile(p)}
    /\ Goto(p, "register")
    /\ UNCHANGED <<envVars, controlVars, table,
                   job, left, stopped, next, worker, failed, input, rows, snapshot>>

\* ReferencedFiles, of the snapshot the invocation holds
Referenced(p) == {table[n] : n \in 1..snapshot[p]}

CommitFilesAlreadyReferenced(p) ==
    /\ pc[p] = "register"
    /\ BatchFile(p) \in Referenced(p)
    /\ Goto(p, "record")
    /\ UNCHANGED <<envVars, controlVars, catalogVars,
                   job, left, stopped, next, worker, failed, input, rows, snapshot>>

\* The catalog accepts a commit on top of the snapshot it was prepared from
RegisterFile(p) ==
    /\ snapshot[p] = Len(table)
    /\ table' = Append(table, BatchFile(p))
    /\ snapshot' = [snapshot EXCEPT ![p] = Len(table')]
    /\ Goto(p, "record")
    /\ UNCHANGED <<envVars, controlVars, staged,
                   job, left, stopped, next, worker, failed, input, rows>>

\* The files the table references are not looked at
CommitFilesUnchecked(p) ==
    /\ pc[p] = "register"
    /\ BatchFile(p) \in staged
    /\ RegisterFile(p)

CommitFiles(p) ==
    /\ pc[p] = "register"
    /\ BatchFile(p) \in staged
    /\ BatchFile(p) \notin Referenced(p)
    /\ RegisterFile(p)

\* The refusal is taken for a commit
CommitConflictIgnored(p) ==
    /\ pc[p] = "register"
    /\ BatchFile(p) \notin Referenced(p)
    /\ snapshot[p] # Len(table)
    /\ Goto(p, "record")
    /\ UNCHANGED <<envVars, controlVars, catalogVars,
                   job, left, stopped, next, worker, failed, input, rows, snapshot>>

\* ... and refuses it on top of any other: the error ends Run
CommitConflict(p) ==
    /\ pc[p] = "register"
    /\ BatchFile(p) \notin Referenced(p)
    /\ snapshot[p] # Len(table)
    /\ Return(p)
    /\ UNCHANGED <<envVars, controlVars, catalogVars>>

StoreCommitStatus(p) ==
    /\ pc[p] = "record"
    /\ committed' = [committed EXCEPT ![RunOf(p)] = @ \cup {next[p]}]
    /\ next' = [next EXCEPT ![p] = @ + 1]
    /\ Goto(p, "commit")
    /\ UNCHANGED <<envVars, manifest, candidates, extracted, status, catalogVars,
                   job, left, stopped, worker, failed, input, rows, snapshot>>

AllBatchesVisited(p) ==
    /\ pc[p] = "commit"
    /\ next[p] >= BatchCount(rows[p], job[p].batchSize)
    /\ Goto(p, "report")
    /\ UNCHANGED <<envVars, controlVars, catalogVars,
                   job, left, stopped, next, worker, failed, input, rows, snapshot>>

\* The run is reported complete without asking the budget
ReportAsCompleted(p) ==
    /\ pc[p] = "report"
    /\ WriteRunStatus(p, "completed")
    /\ Return(p)
    /\ UNCHANGED <<envVars, manifest, candidates, extracted, committed, catalogVars>>

ReportStatus(p) ==
    /\ pc[p] = "report"
    /\ WriteRunStatus(p, IF stopped[p] THEN "committing" ELSE "completed")
    /\ Return(p)
    /\ UNCHANGED <<envVars, manifest, candidates, extracted, committed, catalogVars>>

-----------------------------------------------------------------------------
(* The system                                                              *)

WorkerStep(p) == \E i \in Chunk : StoreCandidates(p, i) \/ StoreExtractStatus(p, i)

Extract(p) ==
    \/ SkipExtracted(p) \/ TakeChunk(p) \/ StopExtracting(p) \/ StartWorker(p)
    \/ AllChunksVisited(p) \/ WorkerStep(p)
    \/ WorkersDoneWithError(p) \/ ExtractionInterrupted(p) \/ ExtractionDone(p)

Commit(p) ==
    \/ EnsureTable(p) \/ SkipCommitted(p) \/ TakeBatch(p) \/ StopCommitting(p)
    \/ WriteStaging(p) \/ CommitFilesAlreadyReferenced(p) \/ CommitFiles(p)
    \/ CommitConflict(p) \/ StoreCommitStatus(p) \/ AllBatchesVisited(p)

Step(p) ==
    \/ ListArchive(p) \/ FixManifest(p) \/ LoadManifest(p)
    \/ Extract(p)
    \/ ReducePhase(p) \/ AnnounceCommit(p)
    \/ Commit(p)
    \/ ReportStatus(p)

Fault(p) ==
    \/ Crash(p) \/ CheckpointUnreadable(p)
    \/ \E i \in Chunk : WorkerFails(p, i)

Next ==
    \/ \E o \in Objects : Upload(o)
    \/ \E p \in Procs :
          \/ \E r \in Runs : Invoke(p, r)
          \/ Step(p)
          \/ Fault(p)

Spec == Init /\ [][Next]_vars

ReportedCompleted(r) == status[r] # Null /\ status[r].phase = "completed"

\* The caller invokes a run again until it is completed, and a process that
\* is not killed goes on
CallAgain(r) ==
    /\ ~ ReportedCompleted(r)
    /\ \E p \in Procs : Invoke(p, r)

FairSpec ==
    /\ Spec
    /\ \A p \in Procs : WF_vars(Step(p))
    /\ \A r \in Runs : WF_vars(CallAgain(r))

-----------------------------------------------------------------------------
(* Properties                                                              *)

FixedRows(r) ==
    BestKnown(UNION {ToCanonical(Evidence[k]) : k \in manifest[r].objects})

FilesOf(r) == {n \in DOMAIN table : table[n].run = r}

RowsOf(r) == UNION {table[n].rows : n \in FilesOf(r)}

\* An extraction checkpoint never stands for less than the candidates of its
\* chunk: a later invocation that skips the chunk finds the rows a fresh
\* projection of the fixed manifest would give it (driver.go:257, 304-308).
ExtractBacked ==
    \A r \in Runs : \A i \in extracted[r] :
        /\ manifest[r] # Null
        /\ i \in DOMAIN candidates[r]
        /\ candidates[r][i] =
             BestKnown(UNION {ToCanonical(Evidence[k]) : k \in ChunkKeys(manifest[r], i)})

\* A commit checkpoint never runs ahead of the catalog: its batch is in the
\* table (driver.go:393-402), so that skipping it loses nothing.
CommitBacked ==
    \A r \in Runs, size \in BatchSizes : \A j \in committed[r] :
        \E n \in FilesOf(r) : table[n].rows = CommitBatch(FixedRows(r), size, j)

\* A message is in at most one data file of its run, however often commits
\* are retried, lost or raced (icebergcat.go:148-152, materialization.md:67).
RegisteredOnce ==
    \A r \in Runs : \A m, n \in FilesOf(r) :
        m # n => {x.message : x \in table[m].rows} \cap {x.message : x \in table[n].rows} = {}

\* A run reported completed has every row of its Current State in the table,
\* and nothing else.
CompletedMeansComplete ==
    \A r \in Runs : ReportedCompleted(r) => RowsOf(r) = FixedRows(r)

\* Evidence uploaded after the cutoff of the fixed manifest never reaches the
\* table, although later invocations list it (materialization.md:39).
InputIsolated ==
    \A r \in Runs : \A n \in FilesOf(r) : \A x \in table[n].rows :
        \E k \in Objects :
            /\ Evidence[k].observation = x.observation
            /\ uploadedAt[k] # Null /\ uploadedAt[k] <= manifest[r].cutoff

\* What a caller sees of the rebuilds
FixedInput == [r \in Runs |-> IF manifest[r] = Null THEN Null ELSE manifest[r].objects]

CopiesInTable ==
    [r \in Runs |-> [x \in RowsOf(r) |-> Cardinality({n \in FilesOf(r) : x \in table[n].rows})]]

Completed == [r \in Runs |-> ReportedCompleted(r)]

\* The invocations together keep the promise of a rebuild, for every run.
Promise ==
    INSTANCE Rebuild WITH
        Unfixed <- Null, input <- FixedInput, published <- CopiesInTable, done <- Completed

ImplementsRebuild == Promise!Spec

\* When the faults are finitely many, a caller that keeps invoking the run
\* sees it completed, even when each invocation may do no more than a single
\* unit of new work and invocations overlap (driver.go:116-124).
RunCompletes == \A r \in Runs : <>ReportedCompleted(r)
=============================================================================
