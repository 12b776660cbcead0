------------------------- MODULE MaterializerProofs -------------------------
(***************************************************************************)
(* Theorems about the rebuild driver, for any Archive, any number of runs  *)
(* and overlapping invocations, any limits and any faults.                 *)
(*                                                                         *)
(* The argument follows the rows: what is stored of a chunk is the         *)
(* projection of its keys (CandidatesSound), so the rows of every          *)
(* invocation that reduces them are the Current State of the manifest      *)
(* (RowsFixed), so every data file is one of its batches (TableSound).     *)
(* That needs no assumption.  That a checkpoint or a status stands for     *)
(* what is in the table needs OneBatchSize: batch j means the same rows to *)
(* every invocation only when all cut them alike.                          *)
(***************************************************************************)
EXTENDS Materializer, ProjectionProofs

-----------------------------------------------------------------------------
(* Chunks and batches.                                                      *)

ChunkEvidence(m, i) == UNION {ToCanonical(Evidence[k]) : k \in ChunkKeys(m, i)}

RunEvidence(r) == UNION {ToCanonical(Evidence[k]) : k \in manifest[r].objects}

(* The evidence of any set of keys is a finite set of rows.                 *)
LEMMA EvidenceOfKeys ==
  ASSUME NEW keys \in SUBSET Objects
  PROVE  /\ IsFiniteSet(keys)
         /\ UNION {ToCanonical(Evidence[k]) : k \in keys} \in SUBSET Row
         /\ IsFiniteSet(UNION {ToCanonical(Evidence[k]) : k \in keys})
<1> DEFINE offered == [k \in keys |-> ToCanonical(Evidence[k])]
<1>1. IsFiniteSet(keys)
  BY MaterializerAssumption, FS_Subset
<1>2. ASSUME NEW k \in keys
      PROVE  ToCanonical(Evidence[k]) \in SUBSET Row /\ IsFiniteSet(ToCanonical(Evidence[k]))
  <2>1. Evidence[k] \in Envelope /\ IsFiniteSet(Evidence[k].page)
    BY MaterializerAssumption
  <2> QED
    BY <2>1, CanonicalRows
<1>3. {offered[k] : k \in keys} = {ToCanonical(Evidence[k]) : k \in keys}
  OBVIOUS
<1>4. IsFiniteSet({offered[k] : k \in keys})
  <2> HIDE DEF offered
  <2> QED
    BY <1>1, ImageFinite
<1>5. IsFiniteSet(UNION {ToCanonical(Evidence[k]) : k \in keys})
  BY <1>2, <1>3, <1>4, FS_UNION
<1> QED
  BY <1>1, <1>2, <1>5

(* The chunks of a manifest cover its keys.                                 *)
LEMMA ChunksCover ==
  ASSUME NEW m \in Manifest
  PROVE  /\ ChunkCount(m) \in Nat
         /\ \A i : ChunkKeys(m, i) \in SUBSET m.objects
         /\ \A k \in m.objects : \E i \in 0..(ChunkCount(m) - 1) : k \in ChunkKeys(m, i)
<1> DEFINE S == m.objects
           n == m.chunkSize
           key == [k \in S |-> k]
           c == Cardinality(S)
<1>1. S \in SUBSET Objects /\ n \in Nat \ {0}
  BY MaterializerAssumption DEF Manifest
<1>2. IsFiniteSet(S) /\ S \in SUBSET Nat
  BY <1>1, MaterializerAssumption, FS_Subset
<1>3. c \in Nat
  BY <1>2, FS_CardinalityType
<1>4. ChunkCount(m) = (c + n - 1) \div n /\ ChunkCount(m) \in Nat
  <2>1. ChunkCount(m) = (c + n - 1) \div n
    BY DEF ChunkCount, Groups
  <2>2. c + n - 1 \in Nat
    BY <1>1, <1>3
  <2> HIDE DEF c, n
  <2> QED
    BY <1>1, <2>1, <2>2
<1>5. ASSUME NEW k \in S
      PROVE  \E i \in 0..(ChunkCount(m) - 1) : k \in ChunkKeys(m, i)
  <2>1. Keyed(S, key)
    BY <1>2 DEF Keyed
  <2>2. Cardinality(Preceding(k, S, key)) \in 0..(c - 1)
    BY <2>1, RankBound
  <2>3. Preceding(k, S, key) = {y \in S : y < k}
    BY DEF Preceding
  <2>4. Rank(k, S, LAMBDA x : x) = Cardinality(Preceding(k, S, key))
    BY <2>3 DEF Rank
  <2> DEFINE g == Cardinality(Preceding(k, S, key)) \div n
  <2>5. g \in 0..(ChunkCount(m) - 1)
    BY <1>1, <1>3, <1>4, <2>2, GroupExists
  <2>6. k \in ChunkKeys(m, g)
    BY <2>4 DEF ChunkKeys, Group
  <2> HIDE DEF g
  <2> QED
    BY <2>5, <2>6
<1>6. \A i : ChunkKeys(m, i) \in SUBSET S
  BY DEF ChunkKeys, Group
<1> QED
  BY <1>4, <1>5, <1>6

(* Projecting the keys of a chunk in their order chooses the best rows of   *)
(* their evidence (extractChunk).                                           *)
LEMMA ProjectChunkIsBest ==
  ASSUME NEW m \in Manifest, NEW i
  PROVE  IsBest(ProjectChunk(m, i), ChunkEvidence(m, i))
<1> DEFINE S == ChunkKeys(m, i)
<1>1. S \in SUBSET Objects
  BY ChunksCover DEF Manifest
<1>2. IsFiniteSet(S) /\ S \in SUBSET Nat
  BY <1>1, MaterializerAssumption, FS_Subset
<1>3. /\ \A k \in S : Evidence[k] \in Envelope /\ IsFiniteSet(Evidence[k].page)
      /\ \A j, k \in S : Evidence[j].observation = Evidence[k].observation => Evidence[j] = Evidence[k]
  BY <1>1, MaterializerAssumption
<1>4. ProjectChunk(m, i) = Project([n \in 1..Cardinality(S) |-> Evidence[Nth(S, n)]])
  BY DEF ProjectChunk, Nth, Rank
<1>5. ChunkEvidence(m, i) = UNION {ToCanonical(Evidence[k]) : k \in S}
  BY DEF ChunkEvidence
<1> HIDE DEF S
<1> QED
  BY <1>2, <1>3, <1>4, <1>5, ListingIsBest

(* Every set of evidence has best rows, and BestKnown picks them.           *)
LEMMA BestKnownIsBest ==
  ASSUME NEW all \in SUBSET Row, IsFiniteSet(all)
  PROVE  IsBest(BestKnown(all), all) /\ IsFiniteSet(BestKnown(all))
<1>1. IsBest(AdoptAll(all, {}), {} \cup all)
  BY BestOfNothing, AdoptAllKeepsBest
<1>2. IsBest(AdoptAll(all, {}), all)
  BY <1>1
<1>3. AdoptAll(all, {}) = BestKnown(all)
  BY <1>2, BestIsBestKnown
<1>4. BestKnown(all) \in SUBSET all
  BY <1>2, <1>3 DEF IsBest
<1> QED
  BY <1>2, <1>3, <1>4, FS_Subset

(* Reducing the winners of all chunks gives the Current State of the        *)
(* manifest (reducePhase).                                                  *)
LEMMA ReduceChunks ==
  ASSUME NEW m \in Manifest, NEW groups \in [1..ChunkCount(m) -> SUBSET Row],
         \A n \in 1..ChunkCount(m) : IsBest(groups[n], ChunkEvidence(m, n - 1))
  PROVE  IsBest(Reduce(groups), UNION {ToCanonical(Evidence[k]) : k \in m.objects})
<1> DEFINE c == ChunkCount(m)
           evidence == [n \in 1..c |-> ChunkEvidence(m, n - 1)]
<1>1. c \in Nat
  BY ChunksCover
<1>2. ASSUME NEW n \in 1..c
      PROVE  /\ evidence[n] \in SUBSET Row
             /\ IsBest(groups[n], evidence[n])
             /\ IsFiniteSet(groups[n])
  <2>1. n - 1 \in 0..(c - 1) /\ evidence[n] = ChunkEvidence(m, n - 1)
    BY <1>1
  <2>2. ChunkKeys(m, n - 1) \in SUBSET Objects
    BY ChunksCover DEF Manifest
  <2>3. ChunkEvidence(m, n - 1) \in SUBSET Row /\ IsFiniteSet(ChunkEvidence(m, n - 1))
    BY <2>2, EvidenceOfKeys DEF ChunkEvidence
  <2>4. IsBest(groups[n], evidence[n])
    BY <2>1
  <2>5. groups[n] \in SUBSET evidence[n]
    BY <2>4 DEF IsBest
  <2>6. IsFiniteSet(groups[n])
    BY <2>1, <2>3, <2>5, FS_Subset
  <2> QED
    BY <2>1, <2>3, <2>4, <2>5, <2>6
<1>4. IsBest(Reduce(groups), Pooled(groups, 1..c))
  <2> HIDE DEF c, evidence
  <2> QED
    BY <1>1, <1>2, ReduceIsBest DEF Pooled, c
<1>5. IsBest(Reduce(groups), Pooled(evidence, 1..c))
  <2> HIDE DEF c, evidence
  <2>1. \A n \in 1..c : evidence[n] \in SUBSET Row /\ IsBest(groups[n], evidence[n])
    BY <1>2
  <2> QED
    BY <1>4, <2>1, BestOfBests
<1>6. UNION {evidence[n] : n \in 1..c} = UNION {ToCanonical(Evidence[k]) : k \in m.objects}
  <2>1. ASSUME NEW n \in 1..c, NEW x \in evidence[n]
        PROVE  \E k \in m.objects : x \in ToCanonical(Evidence[k])
    BY ChunksCover DEF ChunkEvidence
  <2>2. ASSUME NEW k \in m.objects, NEW x \in ToCanonical(Evidence[k])
        PROVE  \E n \in 1..c : x \in evidence[n]
    <3>1. PICK i \in 0..(c - 1) : k \in ChunkKeys(m, i)
      BY ChunksCover
    <3>2. i + 1 \in 1..c /\ (i + 1) - 1 = i
      BY <1>1
    <3>3. x \in ChunkEvidence(m, i)
      BY <3>1 DEF ChunkEvidence
    <3>4. evidence[i + 1] = ChunkEvidence(m, i)
      BY <3>2
    <3> QED
      BY <3>2, <3>3, <3>4
  <2> DEFINE found == UNION {ToCanonical(Evidence[k]) : k \in m.objects}
  <2>3. \A x : x \in found <=> \E k \in m.objects : x \in ToCanonical(Evidence[k])
    OBVIOUS
  <2>4. \A x : x \in UNION {evidence[n] : n \in 1..c} <=> \E n \in 1..c : x \in evidence[n]
    OBVIOUS
  <2> HIDE DEF evidence, found, c
  <2>5. UNION {evidence[n] : n \in 1..c} = found
    BY <2>1, <2>2, <2>3, <2>4
  <2> QED
    BY <2>5 DEF found
<1> QED
  BY <1>5, <1>6 DEF Pooled

-----------------------------------------------------------------------------
(* Batches.                                                                 *)

OnePerMessage(rs) ==
    /\ rs \in SUBSET Row /\ IsFiniteSet(rs)
    /\ \A x, y \in rs : x.message = y.message => x = y

(* The batches of a set of rows cover it ...                                *)
LEMMA BatchesCover ==
  ASSUME NEW rs, OnePerMessage(rs), NEW size \in Nat \ {0}
  PROVE  /\ BatchCount(rs, size) \in Nat
         /\ rs = {} => BatchCount(rs, size) = 0
         /\ \A j : CommitBatch(rs, size, j) \in SUBSET rs
         /\ \A x \in rs : \E j \in 0..(BatchCount(rs, size) - 1) : x \in CommitBatch(rs, size, j)
<1> DEFINE key == [x \in rs |-> x.message]
           c == Cardinality(rs)
<1>1. c \in Nat /\ (rs = {} => c = 0)
  BY FS_CardinalityType, FS_EmptySet DEF OnePerMessage
<1>2. BatchCount(rs, size) = (c + size - 1) \div size
  BY DEF BatchCount, Groups
<1>3. BatchCount(rs, size) \in Nat /\ (c = 0 => BatchCount(rs, size) = 0)
  <2>1. c + size - 1 \in Nat /\ (c = 0 => c + size - 1 < size)
    BY <1>1
  <2> HIDE DEF c
  <2> QED
    BY <1>2, <2>1
<1>4. ASSUME NEW x \in rs
      PROVE  \E j \in 0..(BatchCount(rs, size) - 1) : x \in CommitBatch(rs, size, j)
  <2>1. Keyed(rs, key)
    BY DEF Keyed, OnePerMessage, Row
  <2>2. Cardinality(Preceding(x, rs, key)) \in 0..(c - 1)
    BY <2>1, RankBound
  <2>3. Preceding(x, rs, key) = {y \in rs : y.message < x.message}
    BY DEF Preceding
  <2>4. Rank(x, rs, LAMBDA row : row.message) = Cardinality(Preceding(x, rs, key))
    BY <2>3 DEF Rank
  <2> DEFINE j == Cardinality(Preceding(x, rs, key)) \div size
  <2>5. j \in 0..(BatchCount(rs, size) - 1)
    BY <1>1, <1>2, <2>2, GroupExists
  <2>6. x \in CommitBatch(rs, size, j)
    BY <2>4 DEF CommitBatch, Group
  <2> HIDE DEF j
  <2> QED
    BY <2>5, <2>6
<1>5. \A j : CommitBatch(rs, size, j) \in SUBSET rs
  BY DEF CommitBatch, Group
<1> QED
  BY <1>1, <1>3, <1>4, <1>5

(* ... and no message is in two of them.                                    *)
LEMMA BatchesApart ==
  ASSUME NEW rs, OnePerMessage(rs), NEW size, NEW i, NEW j,
         NEW x \in CommitBatch(rs, size, i), NEW y \in CommitBatch(rs, size, j),
         x.message = y.message
  PROVE  x = y /\ i = j
<1>1. x \in rs /\ y \in rs
  BY DEF CommitBatch, Group
<1>2. x = y
  BY <1>1 DEF OnePerMessage
<1> QED
  BY <1>2 DEF CommitBatch, Group

FixedAt(r) == manifest[r] # Null /\ manifest[r] \in Manifest

(* FixedRows is the Current State of the evidence of the manifest.          *)
LEMMA FixedRowsAreBest ==
  ASSUME NEW r, FixedAt(r)
  PROVE  /\ RunEvidence(r) \in SUBSET Row
         /\ IsBest(FixedRows(r), RunEvidence(r))
         /\ OnePerMessage(FixedRows(r))
<1>1. RunEvidence(r) \in SUBSET Row /\ IsFiniteSet(RunEvidence(r))
  BY EvidenceOfKeys DEF RunEvidence, FixedAt, Manifest
<1>2. IsBest(FixedRows(r), RunEvidence(r)) /\ IsFiniteSet(FixedRows(r))
  <2>1. FixedRows(r) = BestKnown(RunEvidence(r))
    BY DEF FixedRows, RunEvidence
  <2> QED
    BY <1>1, <2>1, BestKnownIsBest
<1>3. FixedRows(r) \in SUBSET Row
  BY <1>1, <1>2 DEF IsBest
<1>4. \A x, y \in FixedRows(r) : x.message = y.message => x = y
  BY <1>1, <1>2, BestIsOnePerMessage
<1> QED
  BY <1>1, <1>2, <1>3, <1>4 DEF OnePerMessage

-----------------------------------------------------------------------------
(* Types.                                                                   *)

Working == Pc \ {"idle", "list", "fix", "load"}
Extracting == {"extract", "slot", "wait", "drain"}

\* An invocation under way has a job, once it has listed the Archive an
\* input, and goroutines only while it extracts
Placed ==
    \A p \in Procs :
        /\ pc[p] # "idle" => job[p] \in Job
        /\ pc[p] \notin {"idle", "list"} => input[p] \in Manifest
        /\ pc[p] \notin Extracting => ~ Running(p)

CandidatesFinite ==
    \A r \in Runs : \A i \in DOMAIN candidates[r] : IsFiniteSet(candidates[r][i])

RowsFinite == \A p \in Procs : IsFiniteSet(rows[p])

TypeInv == TypeOK /\ Placed /\ CandidatesFinite /\ RowsFinite

LEMMA TypeInit == Init => TypeInv
<1> SUFFICES ASSUME Init
             PROVE  TypeInv
  OBVIOUS
<1>1. TypeOK
  BY MaterializerAssumption
  DEF Init, TypeOK, EnvTypeOK, ControlTypeOK, CatalogTypeOK, ProcTypeOK, IsStored, Pc
<1>2. Placed /\ CandidatesFinite /\ RowsFinite
  BY FS_EmptySet DEF Init, Placed, CandidatesFinite, RowsFinite, Running
<1> QED
  BY <1>1, <1>2 DEF TypeInv

LEMMA ReturnType ==
  ASSUME ProcTypeOK, Placed, RowsFinite, NEW p \in Procs, Return(p)
  PROVE  ProcTypeOK' /\ Placed' /\ RowsFinite'
<1>1. /\ pc' \in [Procs -> Pc] /\ job' \in [Procs -> Job \cup {Null}]
      /\ left' \in [Procs -> Nat \cup {-1}] /\ stopped' \in [Procs -> BOOLEAN]
      /\ next' \in [Procs -> Nat] /\ failed' \in [Procs -> BOOLEAN]
  BY DEF Return, Goto, ProcTypeOK, Pc
<1>2. worker' \in [Procs -> [Chunk -> {"none", "project", "record"}]]
  BY DEF Return, ProcTypeOK
<1>3. /\ input' \in [Procs -> Manifest \cup {Null}] /\ rows' \in [Procs -> SUBSET Row]
      /\ snapshot' \in [Procs -> Nat]
  BY DEF Return, ProcTypeOK
<1>4. ProcTypeOK'
  BY <1>1, <1>2, <1>3 DEF ProcTypeOK
<1>5. pc'[p] = "idle" /\ rows'[p] = {} /\ \A i \in Chunk : worker'[p][i] = "none"
  BY DEF Return, Goto, ProcTypeOK
<1>6. \A q \in Procs : q # p => /\ pc'[q] = pc[q] /\ job'[q] = job[q] /\ input'[q] = input[q]
                                /\ worker'[q] = worker[q] /\ rows'[q] = rows[q]
  BY DEF Return, Goto, ProcTypeOK
<1>7. Placed'
  BY <1>5, <1>6 DEF Placed, Running, Extracting
<1>8. RowsFinite'
  BY <1>5, <1>6, FS_EmptySet DEF RowsFinite
<1> QED
  BY <1>4, <1>7, <1>8

LEMMA WriteRunStatusType ==
  ASSUME TypeInv, NEW p \in Procs, pc[p] # "idle", NEW phase \in Phase, WriteRunStatus(p, phase)
  PROVE  status' \in [Runs -> Status \cup {Null}]
<1>1. Cardinality(rows[p]) \in Nat
  BY FS_CardinalityType DEF TypeInv, RowsFinite
<1>2. job[p].batchSize \in Nat \ {0}
  BY MaterializerAssumption DEF TypeInv, Placed, Job
<1>3. BatchCount(rows[p], job[p].batchSize) \in Nat
  <2>1. Cardinality(rows[p]) + job[p].batchSize - 1 \in Nat
    BY <1>1, <1>2
  <2> QED
    BY <1>2, <2>1 DEF BatchCount, Groups
<1> QED
  BY <1>1, <1>3 DEF WriteRunStatus, Status, TypeInv, TypeOK, ControlTypeOK

LEMMA BatchFileType ==
  ASSUME TypeInv, NEW p \in Procs, pc[p] # "idle"
  PROVE  BatchFile(p) \in File /\ BatchFile(p).run = RunOf(p)
<1>1. job[p] \in Job /\ rows[p] \in SUBSET Row
  BY DEF TypeInv, TypeOK, ProcTypeOK, Placed
<1> QED
  BY <1>1 DEF BatchFile, File, RunOf, Job, CommitBatch, Group

LEMMA ProjectChunkType ==
  ASSUME NEW m \in Manifest, NEW i
  PROVE  ProjectChunk(m, i) \in SUBSET Row /\ IsFiniteSet(ProjectChunk(m, i))
<1>1. ChunkEvidence(m, i) \in SUBSET Row /\ IsFiniteSet(ChunkEvidence(m, i))
  BY ChunksCover, EvidenceOfKeys DEF Manifest, ChunkEvidence
<1>2. ProjectChunk(m, i) \in SUBSET ChunkEvidence(m, i)
  BY ProjectChunkIsBest DEF IsBest
<1> QED
  BY <1>1, <1>2, FS_Subset

LEMMA ReduceType ==
  ASSUME NEW n \in Nat, NEW groups \in [1..n -> SUBSET Row],
         \A k \in 1..n : IsFiniteSet(groups[k])
  PROVE  Reduce(groups) \in SUBSET Row /\ IsFiniteSet(Reduce(groups))
<1>1. IsBest(Reduce(groups), UNION {groups[k] : k \in 1..n})
  BY ReduceIsBest
<1>2. IsFiniteSet(1..n)
  BY FS_Interval
<1>3. IsFiniteSet({groups[k] : k \in 1..n})
  BY <1>2, ImageFinite
<1>4. IsFiniteSet(UNION {groups[k] : k \in 1..n})
  BY <1>3, FS_UNION
<1>5. Reduce(groups) \in SUBSET UNION {groups[k] : k \in 1..n}
  BY <1>1 DEF IsBest
<1>6. Reduce(groups) \in SUBSET Row
  BY <1>5
<1>7. IsFiniteSet(Reduce(groups))
  BY <1>4, <1>5, FS_Subset
<1> QED
  BY <1>6, <1>7

(* Types are kept, one step per action.                                     *)
LEMMA TypeStep == TypeInv /\ [Next]_vars => TypeInv'
<1> SUFFICES ASSUME TypeInv, [Next]_vars
             PROVE  TypeInv'
  OBVIOUS
<1> USE MaterializerAssumption DEF TypeInv, TypeOK
<1>e. ASSUME UNCHANGED envVars
      PROVE  EnvTypeOK'
  BY <1>e DEF EnvTypeOK, envVars
<1>f. ASSUME FaultHappens
      PROVE  EnvTypeOK'
  BY <1>f DEF EnvTypeOK, FaultHappens
<1>c. ASSUME UNCHANGED controlVars
      PROVE  ControlTypeOK' /\ CandidatesFinite'
  <2>1. ControlTypeOK'
    BY <1>c DEF ControlTypeOK, controlVars
  <2>2. CandidatesFinite'
    BY <1>c DEF CandidatesFinite, controlVars
  <2> QED
    BY <2>1, <2>2
<1>t. ASSUME UNCHANGED catalogVars
      PROVE  CatalogTypeOK'
  BY <1>t DEF CatalogTypeOK, catalogVars
<1>p. ASSUME UNCHANGED procVars
      PROVE  ProcTypeOK' /\ Placed' /\ RowsFinite'
  BY <1>p DEF ProcTypeOK, Placed, RowsFinite, Running, procVars
<1>l. ASSUME UNCHANGED <<envVars, controlVars, catalogVars>>, ProcTypeOK' /\ Placed' /\ RowsFinite'
      PROVE  TypeInv'
  BY <1>l, <1>e, <1>c, <1>t
<1>r. ASSUME NEW p \in Procs, Return(p)
      PROVE  ProcTypeOK' /\ Placed' /\ RowsFinite'
  BY <1>r, ReturnType
<1>1. ASSUME NEW o \in Objects, Upload(o)
      PROVE  TypeInv'
  <2>1. EnvTypeOK'
    BY <1>1 DEF Upload, EnvTypeOK
  <2> QED
    BY <1>1, <1>c, <1>t, <1>p, <2>1 DEF Upload
<1>2. ASSUME NEW p \in Procs, NEW r \in Runs, Invoke(p, r)
      PROVE  TypeInv'
  <2>1. ProcTypeOK'
    BY <1>2 DEF Invoke, Goto, Job, EnvTypeOK, ProcTypeOK, Pc
  <2>2. Placed' /\ RowsFinite'
    BY <1>2, <2>1
    DEF Invoke, Goto, Job, EnvTypeOK, ProcTypeOK, Placed, RowsFinite, Running, Extracting
  <2> QED
    BY <1>2, <1>l, <2>1, <2>2 DEF Invoke
<1>3. ASSUME NEW p \in Procs, Crash(p)
      PROVE  TypeInv'
  BY <1>3, <1>f, <1>c, <1>t, <1>r DEF Crash
<1>4. ASSUME NEW p \in Procs, ListArchive(p)
      PROVE  TypeInv'
  <2>1. BuildManifest(job[p].cutoff, job[p].chunkSize) \in Manifest
    BY <1>4 DEF ListArchive, BuildManifest, Manifest, Placed, Job
  <2> DEFINE listed == BuildManifest(job[p].cutoff, job[p].chunkSize)
  <2> HIDE DEF listed
  <2>2. listed \in Manifest /\ input' = [input EXCEPT ![p] = listed]
    BY <1>4, <2>1 DEF ListArchive, listed
  <2>3. ProcTypeOK' /\ Placed' /\ RowsFinite'
    BY <1>4, <2>2 DEF ListArchive, Goto, ProcTypeOK, Placed, RowsFinite, Running, Extracting, Pc
  <2> QED
    BY <1>4, <1>l, <2>3 DEF ListArchive
<1>5. ASSUME NEW p \in Procs, FixManifest(p)
      PROVE  TypeInv'
  <2>1. ProcTypeOK' /\ Placed' /\ RowsFinite'
    BY <1>5 DEF FixManifest, Goto, ProcTypeOK, Placed, RowsFinite, Running, Extracting, Pc
  <2>2. ControlTypeOK'
    BY <1>5 DEF FixManifest, Goto, ControlTypeOK, Placed, RunOf
  <2>3. CandidatesFinite'
    BY <1>5 DEF FixManifest, CandidatesFinite
  <2> QED
    BY <1>5, <1>e, <1>t, <2>1, <2>2, <2>3 DEF FixManifest
<1>6. ASSUME NEW p \in Procs, LoadManifest(p)
      PROVE  TypeInv'
  <2>1. manifest[RunOf(p)] \in Manifest
    BY <1>6 DEF LoadManifest, ControlTypeOK, Placed, Job, RunOf
  <2>2. ProcTypeOK' /\ Placed' /\ RowsFinite'
    BY <1>6, <2>1 DEF LoadManifest, Goto, ProcTypeOK, Placed, RowsFinite, Running, Extracting, Pc
  <2> QED
    BY <1>6, <1>l, <2>2 DEF LoadManifest
<1>7. ASSUME NEW p \in Procs, SkipExtracted(p)
      PROVE  TypeInv'
  <2>1. ProcTypeOK' /\ Placed' /\ RowsFinite'
    BY <1>7 DEF SkipExtracted, ProcTypeOK, Placed, RowsFinite, Running, Extracting, Pc
  <2> QED
    BY <1>7, <1>l, <2>1 DEF SkipExtracted
<1>8. ASSUME NEW p \in Procs, TakeChunk(p)
      PROVE  TypeInv'
  <2>1. ProcTypeOK' /\ Placed' /\ RowsFinite'
    BY <1>8
    DEF TakeChunk, Take, Goto, AtChunk, ProcTypeOK, Placed, RowsFinite, Running, Extracting, Pc
  <2> QED
    BY <1>8, <1>l, <2>1 DEF TakeChunk
<1>9. ASSUME NEW p \in Procs, StopExtracting(p)
      PROVE  TypeInv'
  <2>1. ProcTypeOK' /\ Placed' /\ RowsFinite'
    BY <1>9
    DEF StopExtracting, Refused, Goto, AtChunk, ProcTypeOK, Placed, RowsFinite, Running, Extracting,
        Pc
  <2> QED
    BY <1>9, <1>l, <2>1 DEF StopExtracting
<1>10. ASSUME NEW p \in Procs, StartWorker(p)
      PROVE  TypeInv'
  <2>1. worker' \in [Procs -> [Chunk -> {"none", "project", "record"}]]
    BY <1>10 DEF StartWorker, ProcTypeOK
  <2>2. ProcTypeOK'
    BY <1>10, <2>1 DEF StartWorker, Goto, ProcTypeOK, Pc
  <2>3. Placed' /\ RowsFinite'
    BY <1>10 DEF StartWorker, Goto, ProcTypeOK, Placed, RowsFinite, Running, Extracting
  <2> QED
    BY <1>10, <1>l, <2>2, <2>3 DEF StartWorker
<1>11. ASSUME NEW p \in Procs, CheckpointUnreadable(p)
      PROVE  TypeInv'
  <2>1. ProcTypeOK' /\ Placed' /\ RowsFinite'
    BY <1>11 DEF CheckpointUnreadable, Goto, ProcTypeOK, Placed, RowsFinite, Running, Extracting, Pc
  <2> QED
    BY <1>11, <1>f, <1>c, <1>t, <2>1 DEF CheckpointUnreadable
<1>12. ASSUME NEW p \in Procs, AllChunksVisited(p)
      PROVE  TypeInv'
  <2>1. ProcTypeOK' /\ Placed' /\ RowsFinite'
    BY <1>12 DEF AllChunksVisited, Goto, ProcTypeOK, Placed, RowsFinite, Running, Extracting, Pc
  <2> QED
    BY <1>12, <1>l, <2>1 DEF AllChunksVisited
<1>13. ASSUME NEW p \in Procs, NEW i \in Chunk, StoreCandidates(p, i)
      PROVE  TypeInv'
  <2>1. /\ pc[p] \in Extracting /\ job[p] \in Job /\ input[p] \in Manifest
        /\ RunOf(p) \in Runs
    BY <1>13 DEF StoreCandidates, Placed, Running, Extracting, Job, RunOf
  <2>2. PICK stored : /\ stored \in SUBSET Row /\ IsFiniteSet(stored)
                      /\ candidates' = [candidates EXCEPT ![RunOf(p)] =
                            [c \in DOMAIN @ \cup {i} |-> IF c = i THEN stored ELSE @[c]]]
    BY <1>13, <2>1, ProjectChunkType DEF StoreCandidates
  <2>3. /\ candidates' = [r \in Runs |-> candidates'[r]]
        /\ \A r \in Runs : r # RunOf(p) => candidates'[r] = candidates[r]
        /\ candidates'[RunOf(p)] = [c \in DOMAIN candidates[RunOf(p)] \cup {i} |->
                                      IF c = i THEN stored ELSE candidates[RunOf(p)][c]]
    BY <2>1, <2>2 DEF ControlTypeOK
  <2>4. \A r \in Runs : IsStored(candidates'[r])
    BY <2>1, <2>2, <2>3 DEF ControlTypeOK, IsStored
  <2>5. ControlTypeOK'
    BY <1>13, <2>3, <2>4 DEF StoreCandidates, ControlTypeOK
  <2>6. CandidatesFinite'
    BY <2>1, <2>2, <2>3 DEF CandidatesFinite
  <2>7. ProcTypeOK' /\ Placed' /\ RowsFinite'
    BY <1>13 DEF StoreCandidates, ProcTypeOK, Placed, RowsFinite, Running
  <2> QED
    BY <1>13, <1>e, <1>t, <2>5, <2>6, <2>7 DEF StoreCandidates
<1>14. ASSUME NEW p \in Procs, NEW i \in Chunk, StoreExtractStatus(p, i)
      PROVE  TypeInv'
  <2>1. pc[p] \in Extracting /\ RunOf(p) \in Runs
    BY <1>14 DEF StoreExtractStatus, Placed, Running, Extracting, Job, RunOf
  <2>2. ControlTypeOK' /\ CandidatesFinite'
    BY <1>14, <2>1 DEF StoreExtractStatus, ControlTypeOK, CandidatesFinite
  <2>3. ProcTypeOK' /\ Placed' /\ RowsFinite'
    BY <1>14 DEF StoreExtractStatus, ProcTypeOK, Placed, RowsFinite, Running
  <2> QED
    BY <1>14, <1>e, <1>t, <2>2, <2>3 DEF StoreExtractStatus
<1>15. ASSUME NEW p \in Procs, NEW i \in Chunk, WorkerFails(p, i)
      PROVE  TypeInv'
  <2>1. ProcTypeOK' /\ Placed' /\ RowsFinite'
    BY <1>15 DEF WorkerFails, ProcTypeOK, Placed, RowsFinite, Running
  <2> QED
    BY <1>15, <1>f, <1>c, <1>t, <2>1 DEF WorkerFails
<1>16. ASSUME NEW p \in Procs, WorkersDoneWithError(p)
      PROVE  TypeInv'
  BY <1>16, <1>l, <1>r DEF WorkersDoneWithError
<1>17. ASSUME NEW p \in Procs, ExtractionInterrupted(p)
      PROVE  TypeInv'
  <2>1. status' \in [Runs -> Status \cup {Null}]
    BY <1>17, WriteRunStatusType DEF ExtractionInterrupted, Phase
  <2>2. ControlTypeOK' /\ CandidatesFinite'
    BY <1>17, <2>1 DEF ExtractionInterrupted, ControlTypeOK, CandidatesFinite
  <2> QED
    BY <1>17, <1>e, <1>t, <1>r, <2>2 DEF ExtractionInterrupted
<1>18. ASSUME NEW p \in Procs, ExtractionDone(p)
      PROVE  TypeInv'
  <2>1. ProcTypeOK' /\ Placed' /\ RowsFinite'
    BY <1>18 DEF ExtractionDone, Goto, ProcTypeOK, Placed, RowsFinite, Running, Extracting, Pc
  <2> QED
    BY <1>18, <1>l, <2>1 DEF ExtractionDone
<1>19. ASSUME NEW p \in Procs, ReducePhase(p)
      PROVE  TypeInv'
  <2>1. ChunkCount(input[p]) \in Nat /\ RunOf(p) \in Runs
    BY <1>19, ChunksCover DEF ReducePhase, Placed, Job, RunOf
  <2> DEFINE count == ChunkCount(input[p])
             groups == [n \in 1..count |-> candidates[RunOf(p)][n - 1]]
             reduced == Reduce(groups)
  <2>2. \A n \in 1..count : groups[n] \in SUBSET Row /\ IsFiniteSet(groups[n])
    <3> TAKE n \in 1..count
    <3>1. n - 1 \in 0..(count - 1)
      BY <2>1
    <3>2. n - 1 \in DOMAIN candidates[RunOf(p)]
      BY <1>19, <3>1 DEF ReducePhase
    <3> QED
      BY <2>1, <3>2 DEF CandidatesFinite, ControlTypeOK, IsStored
  <2>3. reduced \in SUBSET Row /\ IsFiniteSet(reduced)
    <3>1. groups \in [1..count -> SUBSET Row]
      BY <2>2
    <3> HIDE DEF groups
    <3> QED
      BY <2>1, <2>2, <3>1, ReduceType
  <2>4. rows' = [rows EXCEPT ![p] = reduced]
    BY <1>19 DEF ReducePhase
  <2> HIDE DEF reduced
  <2>5. ProcTypeOK'
    BY <1>19, <2>3, <2>4 DEF ReducePhase, Goto, ProcTypeOK, Pc
  <2>6. Placed'
    BY <1>19 DEF ReducePhase, Goto, ProcTypeOK, Placed, Running, Extracting
  <2>7. RowsFinite'
    BY <2>3, <2>4 DEF RowsFinite, ProcTypeOK
  <2> QED
    BY <1>19, <1>l, <2>5, <2>6, <2>7 DEF ReducePhase
<1>20. ASSUME NEW p \in Procs, AnnounceCommit(p)
      PROVE  TypeInv'
  <2>1. status' \in [Runs -> Status \cup {Null}]
    BY <1>20, WriteRunStatusType DEF AnnounceCommit, Phase
  <2>2. ControlTypeOK' /\ CandidatesFinite'
    BY <1>20, <2>1 DEF AnnounceCommit, ControlTypeOK, CandidatesFinite
  <2>3. ProcTypeOK' /\ Placed' /\ RowsFinite'
    BY <1>20 DEF AnnounceCommit, Goto, ProcTypeOK, Placed, RowsFinite, Running, Extracting, Pc
  <2> QED
    BY <1>20, <1>e, <1>t, <2>2, <2>3 DEF AnnounceCommit
<1>21. ASSUME NEW p \in Procs, EnsureTable(p)
      PROVE  TypeInv'
  <2>1. ProcTypeOK' /\ Placed' /\ RowsFinite'
    BY <1>21
    DEF EnsureTable, Goto, CatalogTypeOK, ProcTypeOK, Placed, RowsFinite, Running, Extracting, Pc
  <2> QED
    BY <1>21, <1>l, <2>1 DEF EnsureTable
<1>22. ASSUME NEW p \in Procs, SkipCommitted(p)
      PROVE  TypeInv'
  <2>1. ProcTypeOK' /\ Placed' /\ RowsFinite'
    BY <1>22 DEF SkipCommitted, ProcTypeOK, Placed, RowsFinite, Running, Extracting, Pc
  <2> QED
    BY <1>22, <1>l, <2>1 DEF SkipCommitted
<1>23. ASSUME NEW p \in Procs, TakeBatch(p)
      PROVE  TypeInv'
  <2>1. ProcTypeOK' /\ Placed' /\ RowsFinite'
    BY <1>23
    DEF TakeBatch, Take, Goto, AtBatch, ProcTypeOK, Placed, RowsFinite, Running, Extracting, Pc
  <2> QED
    BY <1>23, <1>l, <2>1 DEF TakeBatch
<1>24. ASSUME NEW p \in Procs, StopCommitting(p)
      PROVE  TypeInv'
  <2>1. ProcTypeOK' /\ Placed' /\ RowsFinite'
    BY <1>24
    DEF StopCommitting, Refused, Goto, AtBatch, ProcTypeOK, Placed, RowsFinite, Running, Extracting,
        Pc
  <2> QED
    BY <1>24, <1>l, <2>1 DEF StopCommitting
<1>25. ASSUME NEW p \in Procs, WriteStaging(p)
      PROVE  TypeInv'
  <2>1. CatalogTypeOK'
    BY <1>25, BatchFileType DEF WriteStaging, CatalogTypeOK
  <2>2. ProcTypeOK' /\ Placed' /\ RowsFinite'
    BY <1>25 DEF WriteStaging, Goto, ProcTypeOK, Placed, RowsFinite, Running, Extracting, Pc
  <2> QED
    BY <1>25, <1>e, <1>c, <2>1, <2>2 DEF WriteStaging
<1>26. ASSUME NEW p \in Procs, CommitFilesAlreadyReferenced(p)
      PROVE  TypeInv'
  <2>1. ProcTypeOK' /\ Placed' /\ RowsFinite'
    BY <1>26
    DEF CommitFilesAlreadyReferenced, Goto, ProcTypeOK, Placed, RowsFinite, Running, Extracting, Pc
  <2> QED
    BY <1>26, <1>l, <2>1 DEF CommitFilesAlreadyReferenced
<1>27. ASSUME NEW p \in Procs, CommitFiles(p)
      PROVE  TypeInv'
  <2>1. CatalogTypeOK'
    BY <1>27, BatchFileType DEF CommitFiles, RegisterFile, CatalogTypeOK
  <2>2. Len(table') \in Nat
    BY <2>1 DEF CatalogTypeOK
  <2>3. ProcTypeOK' /\ Placed' /\ RowsFinite'
    BY <1>27, <2>2
    DEF CommitFiles, RegisterFile, Goto, ProcTypeOK, Placed, RowsFinite, Running, Extracting, Pc
  <2> QED
    BY <1>27, <1>e, <1>c, <2>1, <2>3 DEF CommitFiles, RegisterFile
<1>28. ASSUME NEW p \in Procs, CommitConflict(p)
      PROVE  TypeInv'
  BY <1>28, <1>l, <1>r DEF CommitConflict
<1>29. ASSUME NEW p \in Procs, StoreCommitStatus(p)
      PROVE  TypeInv'
  <2>1. ControlTypeOK'
    <3>1. next[p] \in Nat /\ committed \in [Runs -> SUBSET Nat]
      BY DEF ProcTypeOK, ControlTypeOK
    <3>2. committed' = [committed EXCEPT ![RunOf(p)] = @ \cup {next[p]}]
      BY <1>29 DEF StoreCommitStatus
    <3>3. committed' \in [Runs -> SUBSET Nat]
      BY <3>1, <3>2
    <3> QED
      BY <1>29, <3>3 DEF StoreCommitStatus, ControlTypeOK
  <2>4. CandidatesFinite'
    BY <1>29 DEF StoreCommitStatus, CandidatesFinite
  <2>2. ProcTypeOK' /\ Placed' /\ RowsFinite'
    BY <1>29 DEF StoreCommitStatus, Goto, ProcTypeOK, Placed, RowsFinite, Running, Extracting, Pc
  <2> QED
    BY <1>29, <1>e, <1>t, <2>1, <2>2, <2>4 DEF StoreCommitStatus
<1>30. ASSUME NEW p \in Procs, AllBatchesVisited(p)
      PROVE  TypeInv'
  <2>1. ProcTypeOK' /\ Placed' /\ RowsFinite'
    BY <1>30 DEF AllBatchesVisited, Goto, ProcTypeOK, Placed, RowsFinite, Running, Extracting, Pc
  <2> QED
    BY <1>30, <1>l, <2>1 DEF AllBatchesVisited
<1>31. ASSUME NEW p \in Procs, ReportStatus(p)
      PROVE  TypeInv'
  <2>1. status' \in [Runs -> Status \cup {Null}]
    BY <1>31, WriteRunStatusType DEF ReportStatus, Phase
  <2>2. ControlTypeOK' /\ CandidatesFinite'
    BY <1>31, <2>1 DEF ReportStatus, ControlTypeOK, CandidatesFinite
  <2> QED
    BY <1>31, <1>e, <1>t, <1>r, <2>2 DEF ReportStatus
<1>32. CASE UNCHANGED vars
  BY <1>32, <1>e, <1>c, <1>t, <1>p DEF vars
<1> QED
  BY <1>1, <1>2, <1>3, <1>4, <1>5, <1>6, <1>7, <1>8, <1>9, <1>10, <1>11, <1>12, <1>13, <1>14, <1>15,
     <1>16, <1>17, <1>18, <1>19, <1>20, <1>21, <1>22, <1>23, <1>24, <1>25, <1>26, <1>27, <1>28,
     <1>29, <1>30, <1>31, <1>32
  DEF Next, Step, Extract, Commit, Fault, WorkerStep

-----------------------------------------------------------------------------
(* The invariant.                                                           *)

AtBatches == {"commit", "stage", "register", "record"}
Publishing == {"announce", "table", "report"} \cup AtBatches

\* All invocations cut the rows into batches of one size
OneBatchSize == \E size : BatchSizes = {size}

InThePast(m) == \A k \in m.objects : uploadedAt[k] # Null /\ uploadedAt[k] <= m.cutoff

\* Batch j of run r is in the table
InTable(r, size, j) ==
    \E n \in FilesOf(r) : table[n].rows = CommitBatch(FixedRows(r), size, j)

AllInTable(r, size) ==
    \A j \in 0..(BatchCount(FixedRows(r), size) - 1) : InTable(r, size, j)

ManifestSound(r) == manifest[r] # Null => InThePast(manifest[r])

\* What is stored of a chunk is its projection, whoever stored it, and is
\* stored when the checkpoint is
CandidatesSound(r) ==
    /\ \A i \in DOMAIN candidates[r] :
          /\ manifest[r] # Null
          /\ IsBest(candidates[r][i], ChunkEvidence(manifest[r], i))
    /\ extracted[r] \subseteq DOMAIN candidates[r]

\* A data file is a batch of its run
FileSound(f) ==
    /\ manifest[f.run] # Null
    /\ \E size \in BatchSizes, j \in Nat : f.rows = CommitBatch(FixedRows(f.run), size, j)

TableSound ==
    /\ \A n \in DOMAIN table : FileSound(table[n])
    /\ \A m, n \in DOMAIN table : table[m] = table[n] => m = n

\* What the checkpoints and the status claim is in the table
ClaimsBacked(r) ==
    OneBatchSize =>
        \A size \in BatchSizes :
            /\ \A j \in committed[r] : manifest[r] # Null /\ InTable(r, size, j)
            /\ ReportedCompleted(r) => manifest[r] # Null /\ AllInTable(r, size)

SharedInv ==
    /\ \A r \in Runs : ManifestSound(r) /\ CandidatesSound(r) /\ ClaimsBacked(r)
    /\ TableSound

\* An invocation past fixManifest works on the manifest of its run
InputFixed(p) ==
    /\ pc[p] = "fix" => InThePast(input[p])
    /\ pc[p] \in Working => input[p] = manifest[RunOf(p)]

WorkersSound(p) ==
    \A i \in Chunk : worker[p][i] = "record" => i \in DOMAIN candidates[RunOf(p)]

RowsFixed(p) == pc[p] \in Publishing => rows[p] = FixedRows(RunOf(p))

\* The batches an invocation has passed are in the table
Progress(p) ==
    LET r == RunOf(p)
        size == job[p].batchSize
    IN  /\ pc[p] \in AtBatches => \A j \in 0..(next[p] - 1) : InTable(r, size, j)
        /\ pc[p] \in {"stage", "register", "record"} => next[p] < BatchCount(FixedRows(r), size)
        /\ pc[p] = "record" => InTable(r, size, next[p])
        /\ pc[p] = "report" /\ ~ stopped[p] => AllInTable(r, size)

ProcInv(p) ==
    /\ InputFixed(p) /\ WorkersSound(p) /\ RowsFixed(p)
    /\ snapshot[p] <= Len(table)
    /\ OneBatchSize => Progress(p)

IInv == TypeInv /\ SharedInv /\ \A p \in Procs : ProcInv(p)

LEMMA IInvInit == Init => IInv
<1> SUFFICES ASSUME Init
             PROVE  IInv
  OBVIOUS
<1>1. SharedInv
  BY
  DEF Init, SharedInv, ManifestSound, CandidatesSound, ClaimsBacked, TableSound, ReportedCompleted
<1>2. \A p \in Procs : ProcInv(p)
  BY
  DEF Init, ProcInv, InputFixed, WorkersSound, RowsFixed, Progress, Working, AtBatches, Publishing
<1> QED
  BY <1>1, <1>2, TypeInit DEF IInv

-----------------------------------------------------------------------------
(* What a step never takes back.                                            *)
Kept ==
    /\ \A o \in Objects : uploadedAt[o] # Null => uploadedAt'[o] = uploadedAt[o]
    /\ \A r \in Runs : manifest[r] # Null => manifest'[r] = manifest[r]
    /\ \A r \in Runs : DOMAIN candidates[r] \subseteq DOMAIN candidates'[r]
    /\ Len(table) <= Len(table')
    /\ \A n \in DOMAIN table : n \in DOMAIN table' /\ table'[n] = table[n]

LEMMA FixedRowsKept ==
  ASSUME Kept, NEW r \in Runs, manifest[r] # Null
  PROVE  manifest'[r] = manifest[r] /\ FixedRows(r)' = FixedRows(r)
BY DEF Kept, FixedRows

LEMMA InThePastKept ==
  ASSUME Kept, NEW m \in Manifest, InThePast(m)
  PROVE  InThePast(m)'
BY DEF Kept, InThePast, Manifest

LEMMA InTableKept ==
  ASSUME Kept, NEW r \in Runs, manifest[r] # Null, NEW size, NEW j, InTable(r, size, j)
  PROVE  InTable(r, size, j)'
BY FixedRowsKept DEF Kept, InTable, FilesOf, CommitBatch, Group, Rank

LEMMA AllInTableKept ==
  ASSUME Kept, NEW r \in Runs, manifest[r] # Null, NEW size, AllInTable(r, size)
  PROVE  AllInTable(r, size)'
BY FixedRowsKept, InTableKept DEF AllInTable

\* The volatile state of an invocation stays as it is
Untouched(p) ==
    /\ pc'[p] = pc[p] /\ job'[p] = job[p] /\ stopped'[p] = stopped[p] /\ next'[p] = next[p]
    /\ worker'[p] = worker[p] /\ input'[p] = input[p] /\ rows'[p] = rows[p]
    /\ snapshot'[p] = snapshot[p]

LEMMA UntouchedKeepsInv ==
  ASSUME TypeInv, TypeInv', Kept, NEW p \in Procs, Untouched(p), ProcInv(p)
  PROVE  ProcInv(p)'
<1> USE DEF Untouched
<1>1. pc[p] # "idle" => RunOf(p) \in Runs /\ RunOf(p)' = RunOf(p)
  BY DEF TypeInv, Placed, RunOf, Job
<1>2. pc[p] \in Working => /\ input[p] \in Manifest /\ input[p] = manifest[RunOf(p)]
                          /\ RunOf(p) \in Runs /\ manifest[RunOf(p)] # Null
  BY <1>1, MaterializerAssumption DEF TypeInv, Placed, ProcInv, InputFixed, Working, Manifest
<1>3. Publishing \subseteq Working /\ AtBatches \subseteq Publishing
  BY DEF Publishing, AtBatches, Working, Pc
<1>4. InputFixed(p)'
  <2>1. CASE pc[p] = "fix"
    BY <2>1, InThePastKept DEF ProcInv, InputFixed, TypeInv, Placed, Working
  <2>2. CASE pc[p] # "fix"
    BY <1>1, <1>2, <2>2, FixedRowsKept DEF ProcInv, InputFixed, Working
  <2> QED
    BY <2>1, <2>2
<1>5. WorkersSound(p)'
  <2>1. ASSUME NEW i \in Chunk, worker[p][i] = "record"
        PROVE  i \in DOMAIN candidates'[RunOf(p)']
    <3>1. pc[p] # "idle"
      BY <2>1 DEF TypeInv, Placed, Running, Extracting
    <3> QED
      BY <1>1, <2>1, <3>1 DEF Kept, ProcInv, WorkersSound
  <2> QED
    BY <2>1 DEF WorkersSound
<1>6. RowsFixed(p)'
  BY <1>1, <1>2, <1>3, FixedRowsKept DEF ProcInv, RowsFixed, Working
<1>7. snapshot'[p] <= Len(table')
  BY DEF Kept, ProcInv, TypeInv, TypeOK, CatalogTypeOK, ProcTypeOK
<1>8. ASSUME OneBatchSize
      PROVE  Progress(p)'
  <2>1. CASE pc[p] \in Publishing
    <3>1. /\ RunOf(p) \in Runs /\ RunOf(p)' = RunOf(p) /\ manifest[RunOf(p)] # Null
          /\ FixedRows(RunOf(p))' = FixedRows(RunOf(p))
      BY <1>1, <1>2, <1>3, <2>1, FixedRowsKept DEF Working
    <3> QED
      BY <1>8, <3>1, InTableKept, AllInTableKept DEF ProcInv, Progress
  <2>2. CASE pc[p] \notin Publishing
    BY <2>2 DEF Progress, Publishing, AtBatches
  <2> QED
    BY <2>1, <2>2
<1> QED
  BY <1>4, <1>5, <1>6, <1>7, <1>8 DEF ProcInv

-----------------------------------------------------------------------------
(* What every step keeps.                                                   *)

LEMMA KeptStep == TypeInv /\ [Next]_vars => Kept
<1> SUFFICES ASSUME TypeInv, [Next]_vars
             PROVE  Kept
  OBVIOUS
<1> DEFINE Still == UNCHANGED <<uploadedAt, manifest, candidates, table>>
<1>1. ASSUME Still
      PROVE  Kept
  BY <1>1 DEF Kept, TypeInv, TypeOK, CatalogTypeOK
<1>2. ASSUME NEW p \in Procs, Extract(p)
      PROVE  Still \/ \E i \in Chunk : StoreCandidates(p, i)
  BY <1>2 DEF Extract, WorkerStep, SkipExtracted, TakeChunk, StopExtracting, StartWorker,
              AllChunksVisited, StoreExtractStatus, WorkersDoneWithError,
              ExtractionInterrupted, ExtractionDone, envVars, controlVars, catalogVars
<1>3. ASSUME NEW p \in Procs, Commit(p)
      PROVE  Still \/ CommitFiles(p)
  BY <1>3 DEF Commit, EnsureTable, SkipCommitted, TakeBatch, StopCommitting, WriteStaging,
              CommitFilesAlreadyReferenced, CommitConflict, StoreCommitStatus, AllBatchesVisited,
              envVars, controlVars, catalogVars
<1>4. ASSUME NEW p \in Procs, \/ \E r \in Runs : Invoke(p, r)
                              \/ ListArchive(p) \/ LoadManifest(p) \/ ReducePhase(p)
                              \/ AnnounceCommit(p) \/ ReportStatus(p) \/ Fault(p)
      PROVE  Still
  BY <1>4
  DEF Invoke, ListArchive, LoadManifest, ReducePhase, AnnounceCommit, ReportStatus, Fault, Crash,
      CheckpointUnreadable, WorkerFails, FaultHappens, envVars, controlVars, catalogVars
<1>5. ASSUME NEW o \in Objects, Upload(o)
      PROVE  Kept
  BY <1>5 DEF Upload, Kept, TypeInv, TypeOK, EnvTypeOK, CatalogTypeOK, controlVars, catalogVars
<1>6. ASSUME NEW p \in Procs, FixManifest(p)
      PROVE  Kept
  BY <1>6 DEF FixManifest, Kept, TypeInv, TypeOK, ControlTypeOK, CatalogTypeOK, envVars, catalogVars
<1>7. ASSUME NEW p \in Procs, NEW i \in Chunk, StoreCandidates(p, i)
      PROVE  Kept
  <2>1. \A r \in Runs : DOMAIN candidates[r] \subseteq DOMAIN candidates'[r]
    BY <1>7 DEF StoreCandidates, TypeInv, TypeOK, ControlTypeOK
  <2> QED
    BY <1>7, <2>1 DEF StoreCandidates, Kept, TypeInv, TypeOK, CatalogTypeOK, envVars, catalogVars
<1>8. ASSUME NEW p \in Procs, CommitFiles(p)
      PROVE  Kept
  BY <1>8, BatchFileType
  DEF CommitFiles, RegisterFile, Kept, TypeInv, TypeOK, CatalogTypeOK, envVars, controlVars
<1>9. CASE UNCHANGED vars
  BY <1>1, <1>9 DEF vars, envVars, controlVars, catalogVars
<1> HIDE DEF Still
<1> QED
  BY <1>1, <1>2, <1>3, <1>4, <1>5, <1>6, <1>7, <1>8, <1>9 DEF Next, Step

(* What no step touches stays sound.                                        *)
LEMMA ManifestSoundKept ==
  ASSUME TypeInv, Kept, NEW r \in Runs, ManifestSound(r), manifest[r] # Null
  PROVE  ManifestSound(r)'
BY FixedRowsKept, InThePastKept DEF ManifestSound, TypeInv, TypeOK, ControlTypeOK

LEMMA CandidatesSoundKept ==
  ASSUME Kept, NEW r \in Runs, CandidatesSound(r),
         candidates'[r] = candidates[r], extracted'[r] = extracted[r]
  PROVE  CandidatesSound(r)'
BY FixedRowsKept DEF CandidatesSound, ChunkEvidence, ChunkKeys, Group, Rank

LEMMA ClaimsBackedKept ==
  ASSUME Kept, NEW r \in Runs, ClaimsBacked(r),
         committed'[r] = committed[r], ReportedCompleted(r)' => ReportedCompleted(r)
  PROVE  ClaimsBacked(r)'
<1> SUFFICES ASSUME OneBatchSize, NEW size \in BatchSizes
             PROVE  /\ \A j \in committed'[r] : manifest'[r] # Null /\ InTable(r, size, j)'
                    /\ ReportedCompleted(r)' => manifest'[r] # Null /\ AllInTable(r, size)'
  BY DEF ClaimsBacked
<1> QED
  BY FixedRowsKept, InTableKept, AllInTableKept DEF ClaimsBacked

LEMMA FileSoundKept ==
  ASSUME Kept, NEW f, f.run \in Runs, FileSound(f)
  PROVE  FileSound(f)'
BY FixedRowsKept DEF FileSound, CommitBatch, Group, Rank

LEMMA TableSoundKept ==
  ASSUME TypeInv, Kept, TableSound, table' = table
  PROVE  TableSound'
<1>1. \A n \in DOMAIN table : table[n] \in File /\ table[n].run \in Runs
  <2>1. table \in Seq(File)
    BY DEF TypeInv, TypeOK, CatalogTypeOK
  <2>2. \A n \in DOMAIN table : table[n] \in File
    BY <2>1
  <2> QED
    BY <2>2 DEF File
<1> QED
  BY <1>1, FileSoundKept DEF TableSound

LEMMA SharedKept ==
  ASSUME IInv, Kept, UNCHANGED <<manifest, candidates, extracted, committed, table>>,
         \A r \in Runs : ReportedCompleted(r)' => ReportedCompleted(r)
  PROVE  SharedInv'
<1>1. ASSUME NEW r \in Runs
      PROVE  ManifestSound(r)' /\ CandidatesSound(r)' /\ ClaimsBacked(r)'
  <2>1. ManifestSound(r)'
    BY ManifestSoundKept DEF IInv, SharedInv, ManifestSound
  <2> QED
    BY <2>1, CandidatesSoundKept, ClaimsBackedKept DEF IInv, SharedInv
<1> QED
  BY <1>1, TableSoundKept DEF IInv, SharedInv

Acts(p) == (\E r \in Runs : Invoke(p, r)) \/ Step(p) \/ Fault(p)

(* An invocation's step leaves the others alone.                            *)
LEMMA OthersUntouched ==
  ASSUME TypeInv, NEW p \in Procs, Acts(p), NEW q \in Procs, q # p
  PROVE  Untouched(q)
<1> USE DEF Untouched, Goto, Take, Refused, procVars, TypeInv, TypeOK, ProcTypeOK
<1>1. ASSUME Return(p)
      PROVE  Untouched(q)
  BY <1>1 DEF Return
<1>2. CASE Extract(p)
  <2>1. CASE SkipExtracted(p) \/ TakeChunk(p) \/ StopExtracting(p)
    BY <2>1 DEF SkipExtracted, TakeChunk, StopExtracting
  <2>2. CASE StartWorker(p) \/ AllChunksVisited(p) \/ ExtractionDone(p)
    BY <2>2 DEF StartWorker, AllChunksVisited, ExtractionDone
  <2>3. CASE WorkerStep(p)
    BY <2>3 DEF WorkerStep, StoreCandidates, StoreExtractStatus
  <2>4. CASE WorkersDoneWithError(p) \/ ExtractionInterrupted(p)
    BY <1>1, <2>4 DEF WorkersDoneWithError, ExtractionInterrupted
  <2> QED
    BY <1>2, <2>1, <2>2, <2>3, <2>4 DEF Extract
<1>3. CASE Commit(p)
  <2>1. CASE EnsureTable(p) \/ SkipCommitted(p) \/ TakeBatch(p) \/ StopCommitting(p)
    BY <2>1 DEF EnsureTable, SkipCommitted, TakeBatch, StopCommitting
  <2>2. CASE WriteStaging(p) \/ CommitFilesAlreadyReferenced(p) \/ AllBatchesVisited(p)
    BY <2>2 DEF WriteStaging, CommitFilesAlreadyReferenced, AllBatchesVisited
  <2>3. CASE CommitFiles(p) \/ StoreCommitStatus(p)
    BY <2>3 DEF CommitFiles, RegisterFile, StoreCommitStatus
  <2>4. CASE CommitConflict(p)
    BY <1>1, <2>4 DEF CommitConflict
  <2> QED
    BY <1>3, <2>1, <2>2, <2>3, <2>4 DEF Commit
<1>4. CASE ListArchive(p) \/ FixManifest(p) \/ LoadManifest(p)
  BY <1>4 DEF ListArchive, FixManifest, LoadManifest
<1>5. CASE ReducePhase(p) \/ AnnounceCommit(p)
  BY <1>5 DEF ReducePhase, AnnounceCommit
<1>6. CASE ReportStatus(p)
  BY <1>1, <1>6 DEF ReportStatus
<1>7. CASE Fault(p)
  <2>1. CASE Crash(p)
    BY <1>1, <2>1 DEF Crash
  <2>2. CASE CheckpointUnreadable(p)
    BY <2>2 DEF CheckpointUnreadable
  <2>3. CASE \E i \in Chunk : WorkerFails(p, i)
    BY <2>3 DEF WorkerFails
  <2> QED
    BY <1>7, <2>1, <2>2, <2>3 DEF Fault
<1>8. CASE \E r \in Runs : Invoke(p, r)
  BY <1>8 DEF Invoke
<1> QED
  BY <1>2, <1>3, <1>4, <1>5, <1>6, <1>7, <1>8 DEF Acts, Step

LEMMA WorkingFacts ==
  ASSUME TypeInv, NEW p \in Procs, pc[p] \in Working, ProcInv(p)
  PROVE  /\ job[p] \in Job /\ RunOf(p) \in Runs
         /\ input[p] \in Manifest /\ input[p] = manifest[RunOf(p)]
         /\ manifest[RunOf(p)] # Null
BY MaterializerAssumption
DEF TypeInv, Placed, ProcInv, InputFixed, Working, RunOf, Job, Manifest

LEMMA ReturnKeepsInv ==
  ASSUME TypeInv, TypeInv', NEW p \in Procs, Return(p)
  PROVE  ProcInv(p)'
<1>1. /\ pc'[p] = "idle" /\ snapshot'[p] = 0 /\ \A i \in Chunk : worker'[p][i] = "none"
  BY DEF Return, Goto, TypeInv, TypeOK, ProcTypeOK
<1>2. 0 <= Len(table')
  BY DEF TypeInv, TypeOK, CatalogTypeOK
<1> QED
  BY <1>1, <1>2
  DEF ProcInv, InputFixed, WorkersSound, RowsFixed, Progress, Working, Publishing, AtBatches

(* A step on the way keeps the input, and the rows once they are reduced.   *)
LEMMA MoveKeepsInput ==
  ASSUME TypeInv, TypeInv', Kept, NEW p \in Procs, ProcInv(p),
         pc[p] \in Working, pc'[p] \in Working, job'[p] = job[p], input'[p] = input[p]
  PROVE  InputFixed(p)'
BY WorkingFacts, FixedRowsKept DEF InputFixed, Working, RunOf

LEMMA MoveKeepsRows ==
  ASSUME TypeInv, TypeInv', Kept, NEW p \in Procs, ProcInv(p),
         pc[p] \in Publishing, job'[p] = job[p], rows'[p] = rows[p]
  PROVE  RowsFixed(p)'
<1>1. pc[p] \in Working
  BY DEF Publishing, AtBatches, Working, Pc
<1> QED
  BY <1>1, WorkingFacts, FixedRowsKept DEF RowsFixed, RunOf, ProcInv

LEMMA MoveKeepsWorkers ==
  ASSUME TypeInv, Kept, NEW p \in Procs, ProcInv(p),
         job'[p] = job[p], worker'[p] = worker[p]
  PROVE  WorkersSound(p)'
<1> SUFFICES ASSUME NEW i \in Chunk, worker[p][i] = "record"
             PROVE  i \in DOMAIN candidates'[RunOf(p)]
  BY DEF WorkersSound, RunOf
<1>1. pc[p] \in Working
  BY DEF TypeInv, TypeOK, ProcTypeOK, Placed, Running, Extracting, Working, Pc
<1> QED
  BY <1>1, WorkingFacts DEF Kept, ProcInv, WorkersSound

LEMMA MoveKeepsSnapshot ==
  ASSUME TypeInv, TypeInv', Kept, NEW p \in Procs, ProcInv(p), snapshot'[p] = snapshot[p]
  PROVE  snapshot'[p] <= Len(table')
BY DEF Kept, ProcInv, TypeInv, TypeOK, CatalogTypeOK, ProcTypeOK

\* The steps that change neither the shared state nor the input, the rows,
\* the snapshot and the goroutines of their invocation
Moves(p) ==
    /\ job'[p] = job[p] /\ input'[p] = input[p] /\ rows'[p] = rows[p]
    /\ snapshot'[p] = snapshot[p] /\ worker'[p] = worker[p]
    /\ pc[p] \in Working /\ pc'[p] \in Working
    /\ pc'[p] \in Publishing => pc[p] \in Publishing

LEMMA MoveKeepsInv ==
  ASSUME TypeInv, TypeInv', Kept, NEW p \in Procs, ProcInv(p), Moves(p),
         OneBatchSize => Progress(p)'
  PROVE  ProcInv(p)'
<1>1. RowsFixed(p)'
  BY MoveKeepsRows DEF Moves, RowsFixed
<1> QED
  BY <1>1, MoveKeepsInput, MoveKeepsWorkers, MoveKeepsSnapshot DEF Moves, ProcInv

\* Nothing is claimed of the batches before commitPhase
LEMMA NoProgressYetNext ==
  ASSUME NEW p \in Procs, pc'[p] \notin AtBatches \cup {"report"}
  PROVE  Progress(p)'
BY DEF Progress, AtBatches

LEMMA ExtractingApart ==
  /\ Extracting \subseteq Working /\ Extracting \cap Publishing = {}
  /\ Extracting \cap (AtBatches \cup {"report"}) = {}
BY DEF Extracting, Working, Publishing, AtBatches, Pc

(* extractPhase and its goroutines.                                         *)
LEMMA ExtractStep ==
  ASSUME IInv, TypeInv', Kept, NEW p \in Procs, Extract(p)
  PROVE  SharedInv' /\ ProcInv(p)'
<1> USE DEF IInv, Goto
<1>s. ASSUME UNCHANGED <<manifest, candidates, extracted, committed, status, table>>
      PROVE  SharedInv'
  BY <1>s, SharedKept DEF ReportedCompleted
<1>m. ASSUME Moves(p), pc'[p] \in Extracting \cup {"reduce"}
      PROVE  ProcInv(p)'
  BY <1>m, MoveKeepsInv, NoProgressYetNext DEF Extracting, AtBatches
<1>1. CASE SkipExtracted(p) \/ TakeChunk(p) \/ StopExtracting(p) \/ AllChunksVisited(p) \/ ExtractionDone(p)
  <2>1. Moves(p) /\ pc'[p] \in Extracting \cup {"reduce"}
    BY <1>1 DEF SkipExtracted, TakeChunk, StopExtracting, AllChunksVisited, ExtractionDone, AtChunk,
       Moves, Working, Publishing, AtBatches, Extracting, TypeInv, TypeOK, ProcTypeOK, Pc
  <2>2. UNCHANGED <<manifest, candidates, extracted, committed, status, table>>
    BY <1>1
    DEF SkipExtracted, TakeChunk, StopExtracting, AllChunksVisited, ExtractionDone, controlVars,
        catalogVars
  <2> QED
    BY <1>s, <1>m, <2>1, <2>2
<1>2. CASE StartWorker(p)
  <2>1. /\ job'[p] = job[p] /\ input'[p] = input[p] /\ snapshot'[p] = snapshot[p]
        /\ pc[p] \in Working /\ pc'[p] = "extract"
        /\ UNCHANGED <<manifest, candidates, extracted, committed, status, table>>
    BY <1>2 DEF StartWorker, Working, TypeInv, TypeOK, ProcTypeOK, Pc, controlVars, catalogVars
  <2>2. \A i \in Chunk : worker'[p][i] = "record" => worker[p][i] = "record"
    BY <1>2 DEF StartWorker, TypeInv, TypeOK, ProcTypeOK
  <2>3. WorkersSound(p)'
    BY <2>1, <2>2 DEF WorkersSound, ProcInv, RunOf
  <2>4. InputFixed(p)'
    BY <2>1, MoveKeepsInput DEF Working, Pc
  <2>5. RowsFixed(p)' /\ Progress(p)'
    BY <2>1, NoProgressYetNext DEF RowsFixed, Publishing, AtBatches
  <2> QED
    BY <1>s, <2>1, <2>3, <2>4, <2>5, MoveKeepsSnapshot DEF ProcInv
<1>3. ASSUME NEW i \in Chunk, StoreCandidates(p, i)
      PROVE  SharedInv' /\ ProcInv(p)'
  <2>1. /\ pc[p] \in Extracting /\ pc'[p] = pc[p] /\ worker[p][i] = "project"
        /\ job'[p] = job[p] /\ input'[p] = input[p] /\ snapshot'[p] = snapshot[p]
        /\ UNCHANGED <<manifest, extracted, committed, status, table>>
    BY <1>3 DEF StoreCandidates, Placed, Running, TypeInv, catalogVars
  <2>2. /\ Extracting \subseteq Working /\ Extracting \cap Publishing = {}
        /\ Extracting \cap (AtBatches \cup {"report"}) = {}
    BY ExtractingApart
  <2>3. /\ RunOf(p) \in Runs /\ RunOf(p)' = RunOf(p)
        /\ input[p] \in Manifest /\ input[p] = manifest[RunOf(p)]
        /\ manifest[RunOf(p)] # Null
    BY <2>1, <2>2, WorkingFacts DEF RunOf
  <2>4. /\ \A r \in Runs : r # RunOf(p) => candidates'[r] = candidates[r]
        /\ candidates'[RunOf(p)] = [c \in DOMAIN candidates[RunOf(p)] \cup {i} |->
                                      IF c = i THEN ProjectChunk(input[p], i)
                                               ELSE candidates[RunOf(p)][c]]
    BY <1>3, <2>3 DEF StoreCandidates, TypeInv, TypeOK, ControlTypeOK
  <2>5. ASSUME NEW r \in Runs, r = RunOf(p)
        PROVE  CandidatesSound(r)'
    <3>1. IsBest(ProjectChunk(input[p], i), ChunkEvidence(input[p], i))
      BY <2>3, ProjectChunkIsBest
    <3>2. \A c : ChunkEvidence(manifest[r], c)' = ChunkEvidence(manifest[r], c)
      BY <2>1 DEF ChunkEvidence, ChunkKeys, Group, Rank
    <3> QED
      BY <2>1, <2>3, <2>4, <2>5, <3>1, <3>2 DEF CandidatesSound, SharedInv
  <2>6. \A r \in Runs : r # RunOf(p) => CandidatesSound(r)'
    BY <2>1, <2>4, CandidatesSoundKept DEF SharedInv
  <2>7. \A r \in Runs : ManifestSound(r)' /\ ClaimsBacked(r)'
    BY <2>1, ManifestSoundKept, ClaimsBackedKept DEF SharedInv, ManifestSound, ReportedCompleted
  <2>8. TableSound'
    BY <2>1, TableSoundKept DEF SharedInv
  <2>9. SharedInv'
    BY <2>5, <2>6, <2>7, <2>8 DEF SharedInv
  <2>10. WorkersSound(p)'
    <3>1. i \in DOMAIN candidates'[RunOf(p)]
      BY <2>4
    <3>2. \A c \in Chunk : c # i => worker'[p][c] = worker[p][c]
      BY <1>3 DEF StoreCandidates, TypeInv, TypeOK, ProcTypeOK
    <3> QED
      BY <2>3, <3>1, <3>2 DEF WorkersSound, ProcInv, Kept
  <2>11. InputFixed(p)'
    BY <2>1, <2>2, MoveKeepsInput
  <2>12. RowsFixed(p)' /\ Progress(p)'
    BY <2>1, <2>2, NoProgressYetNext DEF RowsFixed
  <2> QED
    BY <2>1, <2>9, <2>10, <2>11, <2>12, MoveKeepsSnapshot DEF ProcInv
<1>4. ASSUME NEW i \in Chunk, StoreExtractStatus(p, i)
      PROVE  SharedInv' /\ ProcInv(p)'
  <2>1. /\ pc[p] \in Extracting /\ pc'[p] = pc[p] /\ worker[p][i] = "record"
        /\ job'[p] = job[p] /\ input'[p] = input[p] /\ snapshot'[p] = snapshot[p]
        /\ UNCHANGED <<manifest, candidates, committed, status, table>>
    BY <1>4 DEF StoreExtractStatus, Placed, Running, TypeInv, catalogVars
  <2>2. /\ Extracting \subseteq Working /\ Extracting \cap Publishing = {}
        /\ Extracting \cap (AtBatches \cup {"report"}) = {}
    BY ExtractingApart
  <2>3. RunOf(p) \in Runs /\ RunOf(p)' = RunOf(p)
    BY <2>1, <2>2, WorkingFacts DEF RunOf
  <2>4. i \in DOMAIN candidates[RunOf(p)]
    BY <2>1 DEF ProcInv, WorkersSound
  <2>5. ASSUME NEW r \in Runs
        PROVE  CandidatesSound(r)'
    <3>1. extracted'[r] \subseteq extracted[r] \cup (IF r = RunOf(p) THEN {i} ELSE {})
      BY <1>4, <2>3 DEF StoreExtractStatus, TypeInv, TypeOK, ControlTypeOK
    <3>2. \A c : ChunkEvidence(manifest[r], c)' = ChunkEvidence(manifest[r], c)
      BY <2>1 DEF ChunkEvidence, ChunkKeys, Group, Rank
    <3> QED
      BY <2>1, <2>4, <3>1, <3>2 DEF SharedInv, CandidatesSound
  <2>6. \A r \in Runs : ManifestSound(r)' /\ ClaimsBacked(r)'
    BY <2>1, ManifestSoundKept, ClaimsBackedKept DEF SharedInv, ManifestSound, ReportedCompleted
  <2>7. SharedInv'
    BY <2>1, <2>5, <2>6, TableSoundKept DEF SharedInv
  <2>8. \A c \in Chunk : worker'[p][c] = "record" => worker[p][c] = "record"
    BY <1>4 DEF StoreExtractStatus, TypeInv, TypeOK, ProcTypeOK
  <2>9. WorkersSound(p)'
    BY <2>1, <2>3, <2>8 DEF WorkersSound, ProcInv
  <2>10. InputFixed(p)'
    BY <2>1, <2>2, MoveKeepsInput
  <2>11. RowsFixed(p)' /\ Progress(p)'
    BY <2>1, <2>2, NoProgressYetNext DEF RowsFixed
  <2> QED
    BY <2>1, <2>7, <2>9, <2>10, <2>11, MoveKeepsSnapshot DEF ProcInv
<1>5. CASE WorkersDoneWithError(p)
  BY <1>5, <1>s, ReturnKeepsInv DEF WorkersDoneWithError, controlVars, catalogVars
<1>6. CASE ExtractionInterrupted(p)
  <2>1. /\ UNCHANGED <<manifest, candidates, extracted, committed, table>>
        /\ \A r \in Runs : ReportedCompleted(r)' => ReportedCompleted(r)
    BY <1>6
    DEF ExtractionInterrupted, WriteRunStatus, ReportedCompleted, TypeInv, TypeOK, ControlTypeOK,
        catalogVars
  <2> QED
    BY <1>6, <2>1, SharedKept, ReturnKeepsInv DEF ExtractionInterrupted
<1> QED
  BY <1>1, <1>2, <1>3, <1>4, <1>5, <1>6 DEF Extract, WorkerStep

LEMMA StartStep ==
  ASSUME IInv, TypeInv', Kept, NEW p \in Procs,
         \/ \E r \in Runs : Invoke(p, r)
         \/ ListArchive(p) \/ FixManifest(p) \/ LoadManifest(p)
  PROVE  SharedInv' /\ ProcInv(p)'
<1> USE DEF IInv, Goto
<1>s. ASSUME UNCHANGED <<manifest, candidates, extracted, committed, status, table>>
      PROVE  SharedInv'
  BY <1>s, SharedKept DEF ReportedCompleted
<1>w. ASSUME \A i \in Chunk : worker'[p][i] = "none"
      PROVE  WorkersSound(p)'
  BY <1>w DEF WorkersSound
<1>q. ASSUME pc'[p] \in {"list", "fix", "load", "extract"}
      PROVE  RowsFixed(p)' /\ Progress(p)'
  BY <1>q, NoProgressYetNext DEF RowsFixed, Publishing, AtBatches
<1>n. ASSUME pc[p] \in {"idle", "list", "fix", "load"}, worker'[p] = worker[p]
      PROVE  \A i \in Chunk : worker'[p][i] = "none"
  BY <1>n DEF TypeInv, Placed, Running, Extracting
<1>1. ASSUME NEW r \in Runs, Invoke(p, r)
      PROVE  SharedInv' /\ ProcInv(p)'
  <2>1. /\ pc[p] = "idle" /\ pc'[p] = "list" /\ worker'[p] = worker[p] /\ snapshot'[p] = snapshot[p]
        /\ UNCHANGED <<manifest, candidates, extracted, committed, status, table>>
    BY <1>1 DEF Invoke, TypeInv, TypeOK, ProcTypeOK, controlVars, catalogVars
  <2>2. InputFixed(p)'
    BY <2>1 DEF InputFixed, Working
  <2> QED
    BY <1>s, <1>w, <1>q, <1>n, <2>1, <2>2, MoveKeepsSnapshot DEF ProcInv
<1>2. CASE ListArchive(p)
  <2>1. /\ pc[p] = "list" /\ pc'[p] = "fix" /\ worker'[p] = worker[p] /\ snapshot'[p] = snapshot[p]
        /\ input'[p] = BuildManifest(job[p].cutoff, job[p].chunkSize)
        /\ UNCHANGED <<manifest, candidates, extracted, committed, status, table, uploadedAt>>
    BY <1>2 DEF ListArchive, TypeInv, TypeOK, ProcTypeOK, envVars, controlVars, catalogVars
  <2>2. InputFixed(p)'
    BY <2>1 DEF InputFixed, Working, InThePast, BuildManifest
  <2> QED
    BY <1>s, <1>w, <1>q, <1>n, <2>1, <2>2, MoveKeepsSnapshot DEF ProcInv
<1>3. CASE FixManifest(p)
  <2>1. /\ pc[p] = "fix" /\ worker'[p] = worker[p] /\ snapshot'[p] = snapshot[p]
        /\ job'[p] = job[p] /\ input'[p] = input[p]
        /\ UNCHANGED <<candidates, extracted, committed, status, table, uploadedAt>>
    BY <1>3 DEF FixManifest, envVars, catalogVars
  <2>2. /\ RunOf(p) \in Runs /\ RunOf(p)' = RunOf(p) /\ input[p] \in Manifest /\ InThePast(input[p])
    BY <2>1 DEF RunOf, TypeInv, Placed, Job, ProcInv, InputFixed
  <2>3. /\ \A r \in Runs : manifest[r] # Null => manifest'[r] = manifest[r]
        /\ \A r \in Runs : r # RunOf(p) => manifest'[r] = manifest[r]
        /\ \/ pc'[p] = "load" /\ manifest[RunOf(p)] # Null
           \/ pc'[p] = "extract" /\ manifest[RunOf(p)] = Null /\ manifest'[RunOf(p)] = input[p]
    BY <1>3, <2>2 DEF FixManifest, TypeInv, TypeOK, ControlTypeOK, ProcTypeOK
  <2>4. InputFixed(p)'
    BY <2>1, <2>2, <2>3 DEF InputFixed, Working
  <2>5. ASSUME NEW r \in Runs
        PROVE  ManifestSound(r)' /\ CandidatesSound(r)' /\ ClaimsBacked(r)'
    <3>1. ManifestSound(r)'
      <4>1. CASE manifest[r] # Null
        BY <4>1, ManifestSoundKept DEF SharedInv
      <4>2. CASE manifest[r] = Null
        <5>1. manifest'[r] = Null \/ manifest'[r] = input[p]
          BY <2>2, <2>3, <4>2
        <5> QED
          BY <2>1, <2>2, <5>1 DEF ManifestSound, InThePast
      <4> QED
        BY <4>1, <4>2
    <3> QED
      BY <2>1, <3>1, CandidatesSoundKept, ClaimsBackedKept DEF SharedInv, ReportedCompleted
  <2>6. SharedInv'
    BY <2>1, <2>5, TableSoundKept DEF SharedInv
  <2> QED
    BY <1>w, <1>q, <1>n, <2>1, <2>3, <2>4, <2>6, MoveKeepsSnapshot DEF ProcInv
<1>4. CASE LoadManifest(p)
  <2>1. /\ pc[p] = "load" /\ pc'[p] = "extract" /\ worker'[p] = worker[p] /\ snapshot'[p] = snapshot[p]
        /\ job'[p] = job[p] /\ input'[p] = manifest[RunOf(p)]
        /\ UNCHANGED <<manifest, candidates, extracted, committed, status, table>>
    BY <1>4 DEF LoadManifest, TypeInv, TypeOK, ProcTypeOK, controlVars, catalogVars
  <2>2. InputFixed(p)'
    BY <2>1 DEF InputFixed, Working, RunOf
  <2> QED
    BY <1>s, <1>w, <1>q, <1>n, <2>1, <2>2, MoveKeepsSnapshot DEF ProcInv
<1> QED
  BY <1>1, <1>2, <1>3, <1>4

(* The rows an invocation publishes.                                        *)
LEMMA PublishingFacts ==
  ASSUME IInv, NEW p \in Procs, pc[p] \in Publishing
  PROVE  /\ pc[p] \in Working
         /\ FixedAt(RunOf(p)) /\ RunOf(p) \in Runs
         /\ rows[p] = FixedRows(RunOf(p)) /\ OnePerMessage(rows[p])
         /\ job[p].batchSize \in BatchSizes /\ job[p].batchSize \in Nat \ {0}
<1>1. pc[p] \in Working
  BY DEF Publishing, AtBatches, Working, Pc
<1>2. FixedAt(RunOf(p)) /\ RunOf(p) \in Runs /\ job[p] \in Job
  BY <1>1, WorkingFacts DEF IInv, FixedAt
<1>3. rows[p] = FixedRows(RunOf(p)) /\ OnePerMessage(FixedRows(RunOf(p)))
  BY <1>2, FixedRowsAreBest DEF IInv, ProcInv, RowsFixed
<1>4. OnePerMessage(rows[p])
  BY ONLY <1>3
<1>5. job[p].batchSize \in BatchSizes /\ job[p].batchSize \in Nat \ {0}
  BY <1>2, MaterializerAssumption DEF Job
<1> QED
  BY <1>1, <1>2, <1>3, <1>4, <1>5

LEMMA ReduceStep ==
  ASSUME IInv, TypeInv', Kept, NEW p \in Procs, ReducePhase(p)
  PROVE  SharedInv' /\ ProcInv(p)'
<1> DEFINE r == RunOf(p)
           m == manifest[r]
           groups == [n \in 1..ChunkCount(m) |-> candidates[r][n - 1]]
<1>1. /\ pc[p] = "reduce" /\ pc'[p] = "announce" /\ job'[p] = job[p] /\ input'[p] = input[p]
      /\ worker'[p] = worker[p] /\ snapshot'[p] = snapshot[p]
      /\ 0..(ChunkCount(input[p]) - 1) \subseteq DOMAIN candidates[r]
      /\ rows'[p] = Reduce([n \in 1..ChunkCount(input[p]) |-> candidates[r][n - 1]])
      /\ UNCHANGED <<manifest, candidates, extracted, committed, status, table>>
  BY DEF ReducePhase, Goto, IInv, TypeInv, TypeOK, ProcTypeOK, controlVars, catalogVars
<1>2. /\ r \in Runs /\ m \in Manifest /\ m = input[p] /\ m # Null /\ FixedAt(r)
  BY <1>1, WorkingFacts DEF IInv, Working, Pc, FixedAt
<1>3. groups \in [1..ChunkCount(m) -> SUBSET Row]
      /\ \A n \in 1..ChunkCount(m) : IsBest(groups[n], ChunkEvidence(m, n - 1))
  <2>1. ASSUME NEW n \in 1..ChunkCount(m)
        PROVE  candidates[r][n - 1] \in SUBSET Row /\ IsBest(candidates[r][n - 1], ChunkEvidence(m, n - 1))
    <3>1. n - 1 \in 0..(ChunkCount(m) - 1)
      BY <1>2, ChunksCover
    <3>2. n - 1 \in DOMAIN candidates[r]
      BY <1>1, <1>2, <3>1
    <3> QED
      BY <1>2, <3>2 DEF IInv, SharedInv, CandidatesSound, TypeInv, TypeOK, ControlTypeOK, IsStored
  <2> QED
    BY <2>1
<1>4. IsBest(Reduce(groups), RunEvidence(r))
  <2> HIDE DEF groups, r
  <2> QED
    BY <1>2, <1>3, ReduceChunks DEF RunEvidence
<1>5. Reduce(groups) = FixedRows(r)
  <2> HIDE DEF groups, r
  <2> QED
    BY <1>2, <1>4, FixedRowsAreBest, BestIsBestKnown DEF FixedRows, RunEvidence
<1>6. RowsFixed(p)'
  BY <1>1, <1>2, <1>5, FixedRowsKept DEF RowsFixed, RunOf
<1>7. InputFixed(p)'
  BY <1>1, MoveKeepsInput DEF IInv, Working, Pc
<1>8. WorkersSound(p)'
  BY <1>1, MoveKeepsWorkers DEF IInv
<1>9. Progress(p)'
  BY <1>1, NoProgressYetNext DEF AtBatches
<1>10. SharedInv'
  BY <1>1, SharedKept DEF ReportedCompleted
<1> QED
  BY <1>1, <1>6, <1>7, <1>8, <1>9, <1>10, MoveKeepsSnapshot DEF ProcInv, IInv

(* What is known of the table before the step is enough when the step adds  *)
(* nothing to it.                                                           *)
LEMMA ProgressNext ==
  ASSUME IInv, Kept, NEW p \in Procs, pc[p] \in Publishing, job'[p] = job[p],
         NEW size, size = job[p].batchSize, NEW r, r = RunOf(p),
         pc'[p] \in AtBatches => \A j \in 0..(next'[p] - 1) : InTable(r, size, j),
         pc'[p] \in {"stage", "register", "record"} => next'[p] < BatchCount(FixedRows(r), size),
         pc'[p] = "record" => InTable(r, size, next'[p]),
         pc'[p] = "report" /\ ~ stopped'[p] => AllInTable(r, size)
  PROVE  Progress(p)'
<1>1. r \in Runs /\ manifest[r] # Null /\ r = RunOf(p)' /\ FixedRows(r)' = FixedRows(r)
  BY PublishingFacts, FixedRowsKept DEF FixedAt, RunOf
<1>2. \A j : InTable(r, size, j) => InTable(r, size, j)'
  BY <1>1, InTableKept
<1>3. AllInTable(r, size) => AllInTable(r, size)'
  BY <1>1, AllInTableKept
<1>4. BatchCount(FixedRows(r), size)' = BatchCount(FixedRows(r), size)
  BY <1>1 DEF BatchCount, Groups
<1> QED
  BY <1>1, <1>2, <1>3, <1>4 DEF Progress

(* The batches: what an invocation has passed is in the table.              *)
LEMMA AnnounceStep ==
  ASSUME IInv, TypeInv', Kept, NEW p \in Procs, AnnounceCommit(p)
  PROVE  SharedInv' /\ ProcInv(p)'
<1>1. /\ pc[p] = "announce" /\ Moves(p)
      /\ pc'[p] = IF rows[p] = {} THEN "report" ELSE "table"
      /\ UNCHANGED <<manifest, candidates, extracted, committed, table>>
      /\ \A r \in Runs : ReportedCompleted(r)' => ReportedCompleted(r)
  BY
  DEF AnnounceCommit, Goto, WriteRunStatus, ReportedCompleted, Moves, Publishing, AtBatches,
      Working, Pc, IInv, TypeInv, TypeOK, ControlTypeOK, ProcTypeOK, catalogVars
<1>2. pc[p] \in Publishing /\ pc'[p] \notin AtBatches
  BY <1>1 DEF Publishing, AtBatches
<1>3. ASSUME NEW r, r = RunOf(p), NEW size, size = job[p].batchSize, pc'[p] = "report"
      PROVE  AllInTable(r, size)
  <2>1. rows[p] = {}
    BY <1>1, <1>3
  <2>2. OnePerMessage(rows[p]) /\ size \in Nat \ {0} /\ rows[p] = FixedRows(r)
    BY <1>2, <1>3, PublishingFacts
  <2>3. BatchCount(rows[p], size) = 0
    BY <2>1, <2>2, BatchesCover
  <2>4. BatchCount(FixedRows(r), size) = 0
    BY ONLY <2>2, <2>3
  <2> QED
    BY <2>4 DEF AllInTable
<1>4. Progress(p)'
  BY <1>1, <1>2, <1>3, ProgressNext DEF Moves, AtBatches
<1> QED
  BY <1>1, <1>4, SharedKept, MoveKeepsInv DEF IInv

(* The steps of the commit loop that write nothing.                         *)
LEMMA CommitLoopStep ==
  ASSUME IInv, TypeInv', Kept, NEW p \in Procs,
         \/ SkipCommitted(p) \/ TakeBatch(p) \/ StopCommitting(p) \/ WriteStaging(p)
         \/ CommitFilesAlreadyReferenced(p) \/ AllBatchesVisited(p)
  PROVE  SharedInv' /\ ProcInv(p)'
<1> DEFINE r == RunOf(p)
           size == job[p].batchSize
<1> USE DEF IInv, Goto
<1>1. /\ Moves(p) /\ pc[p] \in {"commit", "stage", "register"} /\ pc'[p] \in AtBatches \cup {"report"}
      /\ UNCHANGED <<manifest, candidates, extracted, committed, status, table>>
  BY
  DEF SkipCommitted, TakeBatch, StopCommitting, WriteStaging, CommitFilesAlreadyReferenced,
      AllBatchesVisited, AtBatch, Moves, Publishing, AtBatches, Working, Pc, TypeInv, TypeOK,
      ProcTypeOK, controlVars, catalogVars
<1>2. /\ pc[p] \in Publishing /\ pc[p] \in AtBatches /\ r \in Runs /\ rows[p] = FixedRows(r)
      /\ size \in BatchSizes /\ next[p] \in Nat /\ BatchCount(FixedRows(r), size) \in Nat
  <2>1. pc[p] \in Publishing /\ pc[p] \in AtBatches
    BY <1>1 DEF Publishing, AtBatches
  <2> QED
    BY <2>1, PublishingFacts, BatchesCover, FixedRowsAreBest DEF TypeInv, TypeOK, ProcTypeOK
<1>3. ASSUME OneBatchSize
      PROVE  Progress(p)'
  <2>1. /\ \A j \in 0..(next[p] - 1) : InTable(r, size, j)
        /\ pc[p] \in {"stage", "register", "record"} => next[p] < BatchCount(FixedRows(r), size)
    BY <1>2, <1>3 DEF ProcInv, Progress
  <2>2. CASE SkipCommitted(p)
    <3>1. pc'[p] = "commit" /\ next'[p] = next[p] + 1 /\ next[p] \in committed[r]
      BY <2>2 DEF SkipCommitted, AtBatch, TypeInv, TypeOK, ProcTypeOK
    <3>2. InTable(r, size, next[p])
      BY <1>2, <1>3, <3>1 DEF SharedInv, ClaimsBacked
    <3>3. \A j \in 0..(next'[p] - 1) : InTable(r, size, j)
      <4>1. \A j \in 0..(next'[p] - 1) : j \in 0..(next[p] - 1) \/ j = next[p]
        BY <1>2, <3>1
      <4> QED
        BY <2>1, <3>2, <4>1
    <3> QED
      BY <1>1, <1>2, <3>1, <3>3, ProgressNext DEF Moves
  <2>3. CASE TakeBatch(p) \/ WriteStaging(p)
    <3>1. /\ pc'[p] \in {"stage", "register"} /\ next'[p] = next[p]
          /\ next[p] < BatchCount(FixedRows(r), size)
      BY <1>2, <2>1, <2>3 DEF TakeBatch, WriteStaging, AtBatch, TypeInv, TypeOK, ProcTypeOK
    <3> QED
      BY <1>1, <1>2, <2>1, <3>1, ProgressNext DEF Moves
  <2>4. CASE StopCommitting(p)
    <3>1. pc'[p] = "report" /\ stopped'[p] = TRUE
      BY <2>4 DEF StopCommitting, Refused, TypeInv, TypeOK, ProcTypeOK
    <3> QED
      BY <1>1, <1>2, <3>1, ProgressNext DEF Moves, AtBatches
  <2>5. CASE CommitFilesAlreadyReferenced(p)
    <3>1. pc[p] = "register" /\ pc'[p] = "record" /\ next'[p] = next[p] /\ BatchFile(p) \in Referenced(p)
      BY <2>5 DEF CommitFilesAlreadyReferenced, TypeInv, TypeOK, ProcTypeOK
    <3>2. PICK n \in 1..snapshot[p] : table[n] = BatchFile(p)
      BY <3>1 DEF Referenced
    <3>3. n \in DOMAIN table
      BY DEF ProcInv, TypeInv, TypeOK, ProcTypeOK, CatalogTypeOK
    <3>4. table[n].run = r /\ table[n].rows = CommitBatch(FixedRows(r), size, next[p])
      BY <1>2, <3>2 DEF BatchFile
    <3>5. InTable(r, size, next[p])
      BY <3>3, <3>4 DEF InTable, FilesOf
    <3> QED
      BY <1>1, <1>2, <2>1, <3>1, <3>5, ProgressNext DEF Moves
  <2>6. CASE AllBatchesVisited(p)
    <3>1. pc'[p] = "report" /\ next[p] >= BatchCount(FixedRows(r), size)
      BY <1>2, <2>6 DEF AllBatchesVisited, TypeInv, TypeOK, ProcTypeOK
    <3>2. AllInTable(r, size)
      BY <1>2, <2>1, <3>1 DEF AllInTable
    <3> QED
      BY <1>1, <1>2, <3>1, <3>2, ProgressNext DEF Moves, AtBatches
  <2> QED
    BY <2>2, <2>3, <2>4, <2>5, <2>6
<1> QED
  BY <1>1, <1>3, SharedKept, MoveKeepsInv DEF ReportedCompleted

(* A batch enters the table under a path no other file has.                 *)
LEMMA CommitFilesStep ==
  ASSUME IInv, TypeInv', Kept, NEW p \in Procs, CommitFiles(p)
  PROVE  SharedInv' /\ ProcInv(p)'
<1> SUFFICES ASSUME NEW r, r = RunOf(p), NEW size, size = job[p].batchSize,
                    NEW last, last = Len(table) + 1
             PROVE  SharedInv' /\ ProcInv(p)'
  OBVIOUS
<1>1. /\ pc[p] = "register" /\ pc'[p] = "record" /\ next'[p] = next[p] /\ next[p] \in Nat
      /\ job'[p] = job[p] /\ input'[p] = input[p] /\ worker'[p] = worker[p] /\ rows'[p] = rows[p]
      /\ snapshot[p] = Len(table) /\ snapshot'[p] = Len(table')
      /\ table' = Append(table, BatchFile(p)) /\ BatchFile(p) \notin Referenced(p)
      /\ UNCHANGED <<manifest, candidates, extracted, committed, status>>
  BY DEF CommitFiles, RegisterFile, Goto, IInv, TypeInv, TypeOK, ProcTypeOK, controlVars
<1>2. /\ pc[p] \in Publishing /\ pc[p] \in AtBatches /\ r \in Runs /\ rows[p] = FixedRows(r)
      /\ size \in BatchSizes /\ r = RunOf(p)' /\ size = job'[p].batchSize /\ FixedRows(r)' = FixedRows(r)
      /\ manifest[r] # Null
  <2>1. pc[p] \in Publishing /\ pc[p] \in AtBatches
    BY <1>1 DEF Publishing, AtBatches
  <2> QED
    BY <1>1, <2>1, PublishingFacts, FixedRowsKept DEF FixedAt, RunOf
<1>3. /\ table \in Seq(File) /\ BatchFile(p) \in File
      /\ BatchFile(p).run = r /\ BatchFile(p).rows = CommitBatch(FixedRows(r), size, next[p])
  BY <1>1, <1>2, BatchFileType DEF IInv, TypeInv, TypeOK, CatalogTypeOK, BatchFile
<1>4. /\ DOMAIN table = 1..Len(table) /\ Len(table) \in Nat
      /\ DOMAIN table' = 1..last /\ Len(table') = last /\ table'[last] = BatchFile(p)
      /\ \A n \in 1..Len(table) : table'[n] = table[n] /\ table[n] \in File
  BY <1>1, <1>3
<1>5. CommitBatch(FixedRows(r), size, next[p])' = CommitBatch(FixedRows(r), size, next[p])
  BY <1>1, <1>2 DEF CommitBatch, Group, Rank
<1>6. FileSound(BatchFile(p))
  BY <1>1, <1>2, <1>3 DEF FileSound
<1>7. TableSound'
  <2>1. ASSUME NEW n \in DOMAIN table'
        PROVE  FileSound(table[n])'
    <3>1. \A f : f.run \in Runs /\ FileSound(f) => FileSound(f)'
      BY FileSoundKept
    <3>2. FileSound(table'[n])
      BY <1>4, <1>6 DEF IInv, SharedInv, TableSound
    <3>3. table'[n].run \in Runs
      BY <1>3, <1>4 DEF File
    <3> QED
      BY <3>1, <3>2, <3>3
  <2>2. \A n \in DOMAIN table : table[n] # BatchFile(p)
    BY <1>1, <1>4 DEF Referenced
  <2>3. \A m, n \in DOMAIN table' : table'[m] = table'[n] => m = n
    BY <1>4, <2>2 DEF IInv, SharedInv, TableSound
  <2> QED
    BY <2>1, <2>3 DEF TableSound
<1>8. SharedInv'
  <2>1. \A s \in Runs : ManifestSound(s)' /\ CandidatesSound(s)' /\ ClaimsBacked(s)'
    BY <1>1, ManifestSoundKept, CandidatesSoundKept, ClaimsBackedKept
    DEF IInv, SharedInv, ManifestSound, ReportedCompleted
  <2> QED
    BY <1>7, <2>1 DEF SharedInv
<1>9. ASSUME OneBatchSize
      PROVE  Progress(p)'
  <2>1. /\ \A j \in 0..(next[p] - 1) : InTable(r, size, j)
        /\ next[p] < BatchCount(FixedRows(r), size)
    BY <1>1, <1>2, <1>9 DEF IInv, ProcInv, Progress
  <2>2. \A j \in 0..(next[p] - 1) : InTable(r, size, j)'
    <3>1. \A j : InTable(r, size, j) => InTable(r, size, j)'
      BY <1>2, InTableKept
    <3> QED
      BY <2>1, <3>1
  <2>3. InTable(r, size, next[p])'
    <3>1. last \in DOMAIN table' /\ table'[last].run = r
      BY <1>3, <1>4
    <3>2. table'[last].rows = CommitBatch(FixedRows(r), size, next[p])'
      BY <1>3, <1>4, <1>5
    <3> QED
      BY <1>1, <3>1, <3>2 DEF InTable, FilesOf
  <2>4. BatchCount(FixedRows(r), size)' = BatchCount(FixedRows(r), size)
    BY <1>1, <1>2 DEF BatchCount, Groups
  <2> QED
    BY <1>1, <1>2, <2>1, <2>2, <2>3, <2>4 DEF Progress
<1>10. InputFixed(p)' /\ RowsFixed(p)' /\ WorkersSound(p)'
  BY <1>1, <1>2, MoveKeepsInput, MoveKeepsRows, MoveKeepsWorkers DEF IInv, Working, Pc
<1>11. snapshot'[p] <= Len(table')
  BY <1>1, <1>4
<1> QED
  BY <1>8, <1>9, <1>10, <1>11 DEF ProcInv

(* A checkpoint is stored once its batch is in the table.                   *)
LEMMA StoreCommitStatusStep ==
  ASSUME IInv, TypeInv', Kept, NEW p \in Procs, StoreCommitStatus(p)
  PROVE  SharedInv' /\ ProcInv(p)'
<1> DEFINE r == RunOf(p)
           size == job[p].batchSize
<1>1. /\ Moves(p) /\ pc[p] = "record" /\ pc'[p] = "commit"
      /\ next'[p] = next[p] + 1 /\ next[p] \in Nat
      /\ UNCHANGED <<manifest, candidates, extracted, status, table>>
  BY DEF StoreCommitStatus, Goto, Moves, Publishing, AtBatches, Working, Pc,
         IInv, TypeInv, TypeOK, ProcTypeOK, catalogVars
<1>2. /\ pc[p] \in Publishing /\ pc[p] \in AtBatches /\ r \in Runs
      /\ size \in BatchSizes /\ manifest[r] # Null
  <2>1. pc[p] \in Publishing /\ pc[p] \in AtBatches
    BY <1>1 DEF Publishing, AtBatches
  <2> QED
    BY <2>1, PublishingFacts DEF FixedAt
<1>3. ASSUME OneBatchSize
      PROVE  \A j \in 0..next[p] : InTable(r, size, j)
  <2>1. /\ \A j \in 0..(next[p] - 1) : InTable(r, size, j)
        /\ InTable(r, size, next[p])
    BY <1>1, <1>2, <1>3 DEF IInv, ProcInv, Progress
  <2>2. \A j \in 0..next[p] : j \in 0..(next[p] - 1) \/ j = next[p]
    BY <1>1
  <2> QED
    BY <2>1, <2>2
<1>4. ASSUME NEW s \in Runs
      PROVE  ClaimsBacked(s)'
  <2>1. CASE s # r
    <3>1. committed'[s] = committed[s]
      BY <1>2, <2>1 DEF StoreCommitStatus, IInv, TypeInv, TypeOK, ControlTypeOK
    <3> QED
      BY <1>1, <3>1, ClaimsBackedKept DEF IInv, SharedInv, ReportedCompleted
  <2>2. CASE s = r
    <3> SUFFICES ASSUME OneBatchSize, NEW b \in BatchSizes
                 PROVE  /\ \A j \in committed'[s] : manifest'[s] # Null /\ InTable(s, b, j)'
                        /\ ReportedCompleted(s)' => manifest'[s] # Null /\ AllInTable(s, b)'
      BY DEF ClaimsBacked
    <3>1. b = size
      BY <1>2 DEF OneBatchSize
    <3>2. committed'[s] = committed[s] \cup {next[p]}
      BY <1>2, <2>2 DEF StoreCommitStatus, IInv, TypeInv, TypeOK, ControlTypeOK
    <3>3. /\ \A j \in committed[s] : InTable(s, b, j)
          /\ ReportedCompleted(s) => AllInTable(s, b)
      BY DEF IInv, SharedInv, ClaimsBacked
    <3>4. InTable(s, b, next[p])
      BY <1>1, <1>3, <2>2, <3>1
    <3>5. \A j : InTable(s, b, j) => InTable(s, b, j)'
      BY <1>2, <2>2, InTableKept
    <3>6. AllInTable(s, b) => AllInTable(s, b)'
      BY <1>2, <2>2, AllInTableKept
    <3>7. ReportedCompleted(s)' => ReportedCompleted(s)
      BY <1>1 DEF ReportedCompleted
    <3> QED
      BY <1>1, <1>2, <2>2, <3>2, <3>3, <3>4, <3>5, <3>6, <3>7
  <2> QED
    BY <2>1, <2>2
<1>5. SharedInv'
  <2>1. \A s \in Runs : ManifestSound(s)' /\ CandidatesSound(s)'
    BY <1>1, ManifestSoundKept, CandidatesSoundKept DEF IInv, SharedInv, ManifestSound
  <2> QED
    BY <1>1, <1>4, <2>1, TableSoundKept DEF SharedInv, IInv
<1>6. OneBatchSize => Progress(p)'
  BY <1>1, <1>2, <1>3, ProgressNext DEF Moves
<1> QED
  BY <1>1, <1>5, <1>6, MoveKeepsInv DEF IInv

LEMMA EnsureTableStep ==
  ASSUME IInv, TypeInv', Kept, NEW p \in Procs, EnsureTable(p)
  PROVE  SharedInv' /\ ProcInv(p)'
<1>1. /\ pc[p] = "table" /\ pc'[p] = "commit" /\ job'[p] = job[p] /\ input'[p] = input[p]
      /\ rows'[p] = rows[p] /\ worker'[p] = worker[p] /\ next'[p] = 0
      /\ snapshot'[p] = Len(table) /\ Len(table) \in Nat
      /\ UNCHANGED <<manifest, candidates, extracted, committed, status, table>>
  BY
  DEF EnsureTable, Goto, IInv, TypeInv, TypeOK, ProcTypeOK, CatalogTypeOK, controlVars, catalogVars
<1>2. pc[p] \in Publishing /\ pc[p] \in Working /\ pc'[p] \in Working
  BY <1>1 DEF Publishing, Working, Pc
<1>3. InputFixed(p)' /\ RowsFixed(p)' /\ WorkersSound(p)'
  BY <1>1, <1>2, MoveKeepsInput, MoveKeepsRows, MoveKeepsWorkers DEF IInv
<1>4. Progress(p)'
  BY <1>1, <1>2, ProgressNext
<1>5. SharedInv'
  BY <1>1, SharedKept DEF ReportedCompleted
<1> QED
  BY <1>1, <1>3, <1>4, <1>5 DEF ProcInv

LEMMA CommitConflictStep ==
  ASSUME IInv, TypeInv', Kept, NEW p \in Procs, CommitConflict(p)
  PROVE  SharedInv' /\ ProcInv(p)'
BY SharedKept, ReturnKeepsInv DEF IInv, CommitConflict, ReportedCompleted, controlVars, catalogVars

(* The run is reported completed once all its batches are in the table.     *)
LEMMA ReportStep ==
  ASSUME IInv, TypeInv', Kept, NEW p \in Procs, ReportStatus(p)
  PROVE  SharedInv' /\ ProcInv(p)'
<1> SUFFICES ASSUME NEW r, r = RunOf(p), NEW size, size = job[p].batchSize
             PROVE  SharedInv' /\ ProcInv(p)'
  OBVIOUS
<1>1. /\ pc[p] = "report" /\ Return(p)
      /\ UNCHANGED <<manifest, candidates, extracted, committed, table>>
  BY DEF ReportStatus, catalogVars
<1>2. /\ pc[p] \in Publishing /\ r \in Runs
      /\ size \in BatchSizes /\ manifest[r] # Null
  <2>1. pc[p] \in Publishing
    BY <1>1 DEF Publishing
  <2> QED
    BY <2>1, PublishingFacts DEF FixedAt
<1>3. /\ \A s \in Runs : s # r => status'[s] = status[s]
      /\ ReportedCompleted(r)' => ~ stopped[p]
  BY <1>2 DEF ReportStatus, WriteRunStatus, ReportedCompleted, IInv, TypeInv, TypeOK, ControlTypeOK
<1>4. ASSUME NEW s \in Runs
      PROVE  ClaimsBacked(s)'
  <2>1. CASE s # r
    BY <1>1, <1>3, <2>1, ClaimsBackedKept DEF IInv, SharedInv, ReportedCompleted
  <2>2. CASE s = r
    <3> SUFFICES ASSUME OneBatchSize, NEW b \in BatchSizes
                 PROVE  /\ \A j \in committed'[s] : manifest'[s] # Null /\ InTable(s, b, j)'
                        /\ ReportedCompleted(s)' => manifest'[s] # Null /\ AllInTable(s, b)'
      BY DEF ClaimsBacked
    <3>1. b = size
      BY <1>2 DEF OneBatchSize
    <3>2. \A j \in committed[s] : InTable(s, b, j)
      BY DEF IInv, SharedInv, ClaimsBacked
    <3>3. ~ stopped[p] => AllInTable(s, b)
      BY <1>1, <2>2, <3>1 DEF IInv, ProcInv, Progress
    <3>4. \A j : InTable(s, b, j) => InTable(s, b, j)'
      BY <1>2, <2>2, InTableKept
    <3>5. AllInTable(s, b) => AllInTable(s, b)'
      BY <1>2, <2>2, AllInTableKept
    <3>6. ReportedCompleted(s)' => ~ stopped[p]
      BY <1>3, <2>2
    <3> QED
      BY <1>1, <1>2, <2>2, <3>2, <3>3, <3>4, <3>5, <3>6
  <2> QED
    BY <2>1, <2>2
<1>5. \A s \in Runs : ManifestSound(s)' /\ CandidatesSound(s)'
  BY <1>1, ManifestSoundKept, CandidatesSoundKept DEF IInv, SharedInv, ManifestSound
<1>6. SharedInv'
  BY <1>1, <1>4, <1>5, TableSoundKept DEF SharedInv, IInv
<1> QED
  BY <1>1, <1>6, ReturnKeepsInv DEF IInv

LEMMA FaultStep ==
  ASSUME IInv, TypeInv', Kept, NEW p \in Procs, Fault(p)
  PROVE  SharedInv' /\ ProcInv(p)'
<1> USE DEF IInv
<1>1. SharedInv'
  <2>1. UNCHANGED <<manifest, candidates, extracted, committed, status, table>>
    BY DEF Fault, Crash, CheckpointUnreadable, WorkerFails, controlVars, catalogVars
  <2> QED
    BY <2>1, SharedKept DEF ReportedCompleted
<1>2. CASE Crash(p)
  BY <1>1, <1>2, ReturnKeepsInv DEF Crash
<1>3. CASE CheckpointUnreadable(p)
  <2>1. Moves(p) /\ pc'[p] = "drain"
    BY <1>3 DEF CheckpointUnreadable, Goto, Moves, Working, Publishing, AtBatches, Pc,
                TypeInv, TypeOK, ProcTypeOK
  <2>2. Progress(p)'
    BY <2>1, NoProgressYetNext DEF AtBatches
  <2> QED
    BY <1>1, <2>1, <2>2, MoveKeepsInv
<1>4. ASSUME NEW i \in Chunk, WorkerFails(p, i)
      PROVE  ProcInv(p)'
  <2>1. /\ pc[p] \in Extracting /\ pc'[p] = pc[p] /\ job'[p] = job[p] /\ input'[p] = input[p]
        /\ snapshot'[p] = snapshot[p]
    BY <1>4 DEF WorkerFails, Placed, Running, TypeInv
  <2>2. /\ Extracting \subseteq Working /\ Extracting \cap Publishing = {}
        /\ Extracting \cap (AtBatches \cup {"report"}) = {}
    BY ExtractingApart
  <2>3. RunOf(p) \in Runs /\ RunOf(p)' = RunOf(p)
    BY <2>1, <2>2, WorkingFacts DEF RunOf
  <2>4. \A c \in Chunk : worker'[p][c] = "record" => worker[p][c] = "record"
    BY <1>4 DEF WorkerFails, TypeInv, TypeOK, ProcTypeOK
  <2>5. WorkersSound(p)'
    BY <2>3, <2>4 DEF WorkersSound, ProcInv, Kept
  <2>6. InputFixed(p)'
    BY <2>1, <2>2, MoveKeepsInput
  <2>7. RowsFixed(p)' /\ Progress(p)'
    BY <2>1, <2>2, NoProgressYetNext DEF RowsFixed
  <2> QED
    BY <2>1, <2>5, <2>6, <2>7, MoveKeepsSnapshot DEF ProcInv
<1> QED
  BY <1>1, <1>2, <1>3, <1>4 DEF Fault

LEMMA CommitStep ==
  ASSUME IInv, TypeInv', Kept, NEW p \in Procs, Commit(p)
  PROVE  SharedInv' /\ ProcInv(p)'
BY EnsureTableStep, CommitLoopStep, CommitFilesStep, CommitConflictStep, StoreCommitStatusStep
DEF Commit

(* The invariant is inductive.                                              *)
LEMMA IInvStep == IInv /\ [Next]_vars => IInv'
<1> SUFFICES ASSUME IInv, [Next]_vars
             PROVE  IInv'
  OBVIOUS
<1>1. TypeInv' /\ Kept
  BY TypeStep, KeptStep DEF IInv
<1>2. ASSUME NEW p \in Procs, Acts(p)
      PROVE  IInv'
  <2>1. SharedInv' /\ ProcInv(p)'
    BY <1>1, <1>2, StartStep, ExtractStep, ReduceStep, AnnounceStep, CommitStep, ReportStep,
       FaultStep
    DEF Acts, Step
  <2>2. \A q \in Procs : q # p => ProcInv(q)'
    BY <1>1, <1>2, OthersUntouched, UntouchedKeepsInv DEF IInv
  <2> QED
    BY <1>1, <2>1, <2>2 DEF IInv
<1>3. ASSUME UNCHANGED <<controlVars, catalogVars, procVars>>
      PROVE  IInv'
  <2>1. SharedInv'
    BY <1>1, <1>3, SharedKept DEF ReportedCompleted, controlVars, catalogVars
  <2>2. \A q \in Procs : Untouched(q)
    BY <1>3 DEF Untouched, procVars
  <2> QED
    BY <1>1, <2>1, <2>2, UntouchedKeepsInv DEF IInv
<1> QED
  BY <1>2, <1>3 DEF Next, Acts, Upload, vars

(* The invariant holds of every behavior.                                   *)
LEMMA Inductive == Spec => []IInv
BY IInvInit, IInvStep, PTL DEF Spec

-----------------------------------------------------------------------------
(* Theorems.                                                                *)

(* Every variable keeps its type (Run).                                     *)
THEOREM TypeCorrect == Spec => []TypeOK
<1>1. IInv => TypeOK
  BY DEF IInv, TypeInv
<1> QED
  BY <1>1, Inductive, PTL

(* The checkpoint of a chunk always stands for the rows a fresh projection  *)
(* of the fixed manifest gives it, whoever stored them (extractChunk).      *)
THEOREM ExtractIsBacked == Spec => []ExtractBacked
<1>1. ASSUME IInv
      PROVE  ExtractBacked
  <2> SUFFICES ASSUME NEW r \in Runs, NEW i \in extracted[r]
               PROVE  /\ manifest[r] # Null /\ i \in DOMAIN candidates[r]
                      /\ candidates[r][i] = BestKnown(ChunkEvidence(manifest[r], i))
    BY DEF ExtractBacked, ChunkEvidence
  <2>1. /\ i \in DOMAIN candidates[r] /\ manifest[r] # Null
        /\ IsBest(candidates[r][i], ChunkEvidence(manifest[r], i))
    BY <1>1 DEF IInv, SharedInv, CandidatesSound
  <2>2. manifest[r] \in Manifest
    BY <1>1, <2>1 DEF IInv, TypeInv, TypeOK, ControlTypeOK
  <2>3. ChunkEvidence(manifest[r], i) \in SUBSET Row
    BY <2>2, ChunksCover, EvidenceOfKeys DEF ChunkEvidence, Manifest
  <2> QED
    BY <2>1, <2>3, BestIsBestKnown
<1> QED
  BY <1>1, Inductive, PTL

(* What a data file of a run holds.                                         *)
LEMMA FilesOfRun ==
  ASSUME IInv, NEW r \in Runs, NEW n \in FilesOf(r)
  PROVE  /\ n \in DOMAIN table /\ table[n] \in File /\ table[n].run = r
         /\ FixedAt(r) /\ OnePerMessage(FixedRows(r))
         /\ \E size \in BatchSizes, j \in Nat : table[n].rows = CommitBatch(FixedRows(r), size, j)
         /\ table[n].rows \in SUBSET FixedRows(r)
<1>1. n \in DOMAIN table /\ table[n].run = r /\ table \in Seq(File)
  BY DEF FilesOf, IInv, TypeInv, TypeOK, CatalogTypeOK
<1>2. /\ manifest[r] # Null
      /\ \E size \in BatchSizes, j \in Nat : table[n].rows = CommitBatch(FixedRows(r), size, j)
  BY <1>1 DEF IInv, SharedInv, TableSound, FileSound
<1>3. FixedAt(r)
  BY <1>2 DEF FixedAt, IInv, TypeInv, TypeOK, ControlTypeOK
<1>4. OnePerMessage(FixedRows(r))
  BY <1>3, FixedRowsAreBest
<1>5. \A size, j : CommitBatch(FixedRows(r), size, j) \in SUBSET FixedRows(r)
  BY DEF CommitBatch, Group
<1> QED
  BY <1>1, <1>2, <1>3, <1>4, <1>5

(* Evidence uploaded after the cutoff of the fixed manifest reaches no data *)
(* file, whatever later invocations list (fixManifest).                     *)
THEOREM InputIsIsolated == Spec => []InputIsolated
<1>1. ASSUME IInv
      PROVE  InputIsolated
  <2> SUFFICES ASSUME NEW r \in Runs, NEW n \in FilesOf(r), NEW x \in table[n].rows
               PROVE  \E k \in Objects :
                         /\ Evidence[k].observation = x.observation
                         /\ uploadedAt[k] # Null /\ uploadedAt[k] <= manifest[r].cutoff
    BY DEF InputIsolated
  <2>1. FixedAt(r) /\ x \in FixedRows(r)
    BY <1>1, FilesOfRun
  <2>2. x \in RunEvidence(r)
    BY <2>1, FixedRowsAreBest DEF IsBest
  <2>3. PICK k \in manifest[r].objects : x \in ToCanonical(Evidence[k])
    BY <2>2 DEF RunEvidence
  <2>4. Evidence[k].observation = x.observation
    BY <2>3 DEF ToCanonical
  <2>5. InThePast(manifest[r])
    BY <1>1, <2>1 DEF IInv, SharedInv, ManifestSound, FixedAt
  <2> QED
    BY <2>1, <2>3, <2>4, <2>5 DEF InThePast, FixedAt, Manifest
<1> QED
  BY <1>1, Inductive, PTL

(* The checkpoint of a batch never runs ahead of the catalog, through lost  *)
(* answers, conflicts and overlapping invocations (commitPhase).            *)
THEOREM CommitIsBacked ==
  ASSUME OneBatchSize
  PROVE  Spec => []CommitBacked
<1>1. IInv => CommitBacked
  BY DEF IInv, SharedInv, ClaimsBacked, InTable, CommitBacked
<1> QED
  BY <1>1, Inductive, PTL

(* Two files of a run that hold the same message are the same file.         *)
LEMMA FilesApart ==
  ASSUME OneBatchSize, IInv, NEW r \in Runs, NEW m \in FilesOf(r), NEW n \in FilesOf(r),
         NEW x \in table[m].rows, NEW y \in table[n].rows, x.message = y.message
  PROVE  m = n
<1>1. PICK size : BatchSizes = {size}
  BY DEF OneBatchSize
<1>2. PICK i, j : /\ table[m].rows = CommitBatch(FixedRows(r), size, i)
                  /\ table[n].rows = CommitBatch(FixedRows(r), size, j)
  BY <1>1, FilesOfRun
<1>3. i = j
  BY <1>2, FilesOfRun, BatchesApart
<1>4. table[m] = table[n]
  BY <1>2, <1>3, FilesOfRun DEF File
<1> QED
  BY <1>4, FilesOfRun DEF IInv, SharedInv, TableSound

(* No message enters the table twice for one run, however often a commit    *)
(* is retried or raced (CommitFiles).                                       *)
THEOREM RegisteredOnlyOnce ==
  ASSUME OneBatchSize
  PROVE  Spec => []RegisteredOnce
<1>1. IInv => RegisteredOnce
  BY FilesApart DEF RegisteredOnce
<1> QED
  BY <1>1, Inductive, PTL

(* All batches together are the Current State.                              *)
LEMMA IInvCompletes ==
  ASSUME OneBatchSize
  PROVE  IInv => CompletedMeansComplete
<1>1. ASSUME IInv
      PROVE  CompletedMeansComplete
  <2> SUFFICES ASSUME NEW r \in Runs, ReportedCompleted(r)
               PROVE  RowsOf(r) = FixedRows(r)
    BY DEF CompletedMeansComplete
  <2>1. PICK size \in BatchSizes : BatchSizes = {size}
    BY DEF OneBatchSize
  <2>2. AllInTable(r, size) /\ manifest[r] # Null
    BY <1>1, <2>1 DEF IInv, SharedInv, ClaimsBacked
  <2>3. OnePerMessage(FixedRows(r))
    BY <1>1, <2>2, FixedRowsAreBest DEF FixedAt, IInv, TypeInv, TypeOK, ControlTypeOK
  <2>4. ASSUME NEW x \in FixedRows(r)
        PROVE  x \in RowsOf(r)
    <3>1. PICK j \in 0..(BatchCount(FixedRows(r), size) - 1) : x \in CommitBatch(FixedRows(r), size, j)
      BY <2>3, BatchesCover, MaterializerAssumption
    <3> QED
      BY <2>2, <3>1 DEF AllInTable, InTable, RowsOf
  <2>5. ASSUME NEW x \in RowsOf(r)
        PROVE  x \in FixedRows(r)
    BY <1>1, FilesOfRun DEF RowsOf
  <2> QED
    BY <2>4, <2>5
<1> QED
  BY <1>1

(* A run reported completed has its whole Current State in the table, and   *)
(* nothing else (Run, commitPhase).                                         *)
THEOREM CompletedIsComplete ==
  ASSUME OneBatchSize
  PROVE  Spec => []CompletedMeansComplete
BY IInvCompletes, Inductive, PTL

-----------------------------------------------------------------------------
(* The invocations keep the promise of Rebuild.                             *)

LEMMA CurrentStateOfRun ==
  ASSUME NEW r \in Runs, manifest[r] # Null
  PROVE  Promise!CurrentState(r) = FixedRows(r)
<1>1. FixedInput[r] = manifest[r].objects
  BY DEF FixedInput
<1>2. \A env : Promise!ToCanonical(env) = ToCanonical(env)
  BY DEF Promise!ToCanonical, ToCanonical
<1>3. \A all : Promise!BestKnown(all) = BestKnown(all)
  BY DEF Promise!BestKnown, BestKnown, Promise!BestOfMessage, BestOfMessage,
         Promise!LatestBy, LatestBy, Promise!EditKey, EditKey
<1>4. Promise!CurrentState(r) =
         Promise!BestKnown(UNION {ToCanonical(Evidence[o]) : o \in manifest[r].objects})
  BY <1>1, <1>2 DEF Promise!CurrentState
<1> QED
  BY <1>3, <1>4 DEF FixedRows

\* Every row of a run is in one of its files
Once == CopiesInTable = [r \in Runs |-> [x \in RowsOf(r) |-> 1]]

LEMMA EveryRowOnce ==
  ASSUME OneBatchSize
  PROVE  IInv => Once
<1> SUFFICES ASSUME IInv, NEW r \in Runs, NEW x \in RowsOf(r)
             PROVE  Cardinality({n \in FilesOf(r) : x \in table[n].rows}) = 1
  BY DEF Once, CopiesInTable
<1>1. PICK n \in FilesOf(r) : x \in table[n].rows
  BY DEF RowsOf
<1>2. {m \in FilesOf(r) : x \in table[m].rows} = {n}
  BY <1>1, FilesApart
<1> QED
  BY <1>2, FS_Singleton

LEMMA FilesOfKept ==
  ASSUME table' = table, NEW r \in Runs
  PROVE  RowsOf(r)' = RowsOf(r) /\ FilesOf(r)' = FilesOf(r)
BY DEF RowsOf, FilesOf

LEMMA CopiesKept == table' = table => CopiesInTable' = CopiesInTable
BY DEF RowsOf, FilesOf, CopiesInTable

LEMMA PromiseInit == Init => Promise!Init
<1> SUFFICES ASSUME Init
             PROVE  Promise!Init
  OBVIOUS
<1>1. FixedInput = [r \in Runs |-> Null]
  BY DEF Init, FixedInput
<1>2. CopiesInTable = [r \in Runs |-> Promise!EmptyBag]
  <2>1. \A r \in Runs : RowsOf(r) = {}
    BY DEF Init, RowsOf, FilesOf
  <2>2. Promise!EmptyBag = [x \in {} |-> 1]
    BY DEF Promise!EmptyBag, Promise!SetToBag
  <2> QED
    BY <2>1, <2>2 DEF CopiesInTable
<1>3. Completed = [r \in Runs |-> FALSE]
  BY DEF Init, Completed, ReportedCompleted
<1> QED
  BY <1>1, <1>2, <1>3 DEF Promise!Init

(* Fixing the manifest fixes the input.                                     *)
LEMMA FixManifestFixes ==
  ASSUME IInv, NEW p \in Procs, FixManifest(p)
  PROVE  Promise!Next \/ UNCHANGED Promise!vars
<1>1. /\ pc[p] = "fix" /\ RunOf(p) \in Runs /\ input[p] \in Manifest
      /\ UNCHANGED <<status, table>>
  BY DEF FixManifest, RunOf, IInv, TypeInv, Placed, Job, catalogVars
<1>2. CopiesInTable' = CopiesInTable /\ Completed' = Completed
  BY <1>1, CopiesKept DEF Completed, ReportedCompleted
<1>3. CASE manifest[RunOf(p)] = Null
  <2>1. manifest' = [manifest EXCEPT ![RunOf(p)] = input[p]]
    BY <1>3 DEF FixManifest
  <2>2. input[p] # Null /\ input[p].objects \in SUBSET Objects
    BY <1>1, MaterializerAssumption DEF Manifest
  <2>3. /\ FixedInput[RunOf(p)] = Null
        /\ FixedInput' = [FixedInput EXCEPT ![RunOf(p)] = input[p].objects]
    BY <1>1, <1>3, <2>1, <2>2 DEF FixedInput, IInv, TypeInv, TypeOK, ControlTypeOK
  <2>4. Promise!FixInput(RunOf(p))
    BY <1>2, <2>2, <2>3 DEF Promise!FixInput
  <2> QED
    BY <1>1, <2>4 DEF Promise!Next
<1>4. CASE manifest[RunOf(p)] # Null
  BY <1>2, <1>4 DEF FixManifest, FixedInput, Promise!vars
<1> QED
  BY <1>3, <1>4

(* Writing the status of a run reports it.                                  *)
LEMMA StatusReports ==
  ASSUME OneBatchSize, IInv, IInv', NEW p \in Procs, pc[p] \in Working, NEW phase \in Phase,
         WriteRunStatus(p, phase), UNCHANGED <<manifest, table>>
  PROVE  Promise!Next
<1> SUFFICES ASSUME NEW r, r = RunOf(p)
             PROVE  Promise!Report(r) /\ r \in Runs
  BY DEF Promise!Next
<1>1. r \in Runs /\ manifest[r] # Null /\ manifest[r] \in Manifest
  BY WorkingFacts DEF IInv
<1>2. FixedInput' = FixedInput /\ FixedInput[r] # Null
  BY <1>1, MaterializerAssumption DEF FixedInput, Manifest
<1>3. CopiesInTable' = CopiesInTable
  BY CopiesKept
<1>4. Completed' = [Completed EXCEPT ![r] = ReportedCompleted(r)']
  BY <1>1 DEF WriteRunStatus, Completed, ReportedCompleted, IInv, TypeInv, TypeOK, ControlTypeOK
<1>5. ReportedCompleted(r)' => Promise!Published(r) = Promise!CurrentState(r)
  <2>1. (IInv => CompletedMeansComplete)'
    BY IInvCompletes, PTL
  <2>2. ReportedCompleted(r)' => RowsOf(r)' = FixedRows(r)'
    BY <1>1, <2>1 DEF CompletedMeansComplete
  <2>3. RowsOf(r)' = RowsOf(r) /\ FixedRows(r)' = FixedRows(r)
    BY <1>1, FilesOfKept DEF FixedRows
  <2>4. Promise!Published(r) = RowsOf(r)
    BY <1>1 DEF Promise!Published, Promise!BagToSet, CopiesInTable
  <2> QED
    BY <1>1, <2>2, <2>3, <2>4, CurrentStateOfRun
<1>6. ReportedCompleted(r)' \in BOOLEAN
  BY DEF ReportedCompleted
<1> QED
  BY <1>1, <1>2, <1>3, <1>4, <1>5, <1>6 DEF Promise!Report

(* Registering a file publishes its batch.                                  *)
LEMMA CommitFilesPublishes ==
  ASSUME OneBatchSize, IInv, IInv', NEW p \in Procs, CommitFiles(p)
  PROVE  Promise!Next
<1> SUFFICES ASSUME NEW r, r = RunOf(p), NEW batch, batch = BatchFile(p).rows,
                    NEW last, last = Len(table) + 1
             PROVE  Promise!Publish(r) /\ r \in Runs
  BY DEF Promise!Next
<1>1. /\ pc[p] = "register" /\ snapshot[p] = Len(table) /\ BatchFile(p) \notin Referenced(p)
      /\ table' = Append(table, BatchFile(p))
      /\ UNCHANGED <<manifest, status>>
  BY DEF CommitFiles, RegisterFile, controlVars
<1>2. /\ r \in Runs /\ FixedAt(r) /\ rows[p] = FixedRows(r) /\ job[p].batchSize \in BatchSizes
      /\ manifest[r] # Null
  <2>1. pc[p] \in Publishing
    BY <1>1 DEF Publishing, AtBatches
  <2> QED
    BY <2>1, PublishingFacts DEF FixedAt
<1>3. PICK size : BatchSizes = {size}
  BY DEF OneBatchSize
<1>4. batch = CommitBatch(FixedRows(r), size, next[p]) /\ BatchFile(p).run = r
  BY <1>2, <1>3 DEF BatchFile
<1>5. batch \in SUBSET (Promise!CurrentState(r) \ RowsOf(r))
  <2>1. batch \in SUBSET FixedRows(r)
    BY <1>4 DEF CommitBatch, Group
  <2>2. ASSUME NEW x \in batch, x \in RowsOf(r)
        PROVE  FALSE
    <3>1. PICK n \in FilesOf(r) : x \in table[n].rows
      BY <2>2 DEF RowsOf
    <3>2. PICK j \in Nat : table[n].rows = CommitBatch(FixedRows(r), size, j)
      BY <1>2, <1>3, <3>1, FilesOfRun
    <3>3. j = next[p]
      BY <1>2, <1>4, <2>2, <3>1, <3>2, FilesOfRun, BatchesApart
    <3>4. table[n] = BatchFile(p)
      <4>1. BatchFile(p) \in File
        BY <1>1, BatchFileType DEF IInv
      <4>2. table[n] \in File /\ table[n].run = r
        BY <1>2, <3>1, FilesOfRun
      <4>3. table[n].rows = BatchFile(p).rows /\ table[n].run = BatchFile(p).run
        BY <1>4, <3>2, <3>3, <4>2
      <4> QED
        BY <4>1, <4>2, <4>3 DEF File
    <3>5. n \in 1..Len(table)
      BY <1>2, FilesOfRun
    <3> QED
      BY <1>1, <3>4, <3>5 DEF Referenced
  <2> QED
    BY <1>2, <2>1, <2>2, CurrentStateOfRun
<1>6. /\ RowsOf(r)' = RowsOf(r) \cup batch
      /\ \A s \in Runs : s # r => RowsOf(s)' = RowsOf(s)
  <2>1. table \in Seq(File) /\ BatchFile(p) \in File
    BY <1>1, BatchFileType DEF IInv, TypeInv, TypeOK, CatalogTypeOK
  <2>2. /\ DOMAIN table' = DOMAIN table \cup {last} /\ last \notin DOMAIN table
        /\ table'[last] = BatchFile(p)
        /\ \A n \in DOMAIN table : table'[n] = table[n]
    BY <1>1, <2>1
  <2>3. /\ FilesOf(r)' = FilesOf(r) \cup {last}
        /\ \A s \in Runs : s # r => FilesOf(s)' = FilesOf(s)
    BY <1>4, <2>2 DEF FilesOf
  <2>4. \A s \in Runs : \A n \in FilesOf(s) : table'[n] = table[n]
    BY <2>2 DEF FilesOf
  <2> QED
    BY <1>2, <2>2, <2>3, <2>4 DEF RowsOf
<1>7. CopiesInTable = [s \in Runs |-> [x \in RowsOf(s) |-> 1]]
  BY EveryRowOnce DEF Once
<1>8. CopiesInTable' = [s \in Runs |-> [x \in RowsOf(s)' |-> 1]]
  <2>1. (IInv => Once)'
    BY EveryRowOnce, PTL
  <2> QED
    BY <2>1 DEF Once
<1>9. CopiesInTable' = [CopiesInTable EXCEPT ![r] = Promise!(+)(CopiesInTable[r], Promise!SetToBag(batch))]
  <2>1. Promise!(+)(CopiesInTable[r], Promise!SetToBag(batch)) = [x \in RowsOf(r) \cup batch |-> 1]
    BY <1>2, <1>5, <1>7 DEF Promise!(+), Promise!SetToBag
  <2> QED
    BY <1>2, <1>6, <1>7, <1>8, <2>1
<1>10. Promise!Published(r) = RowsOf(r)
  BY <1>2, <1>7 DEF Promise!Published, Promise!BagToSet
<1>11. FixedInput[r] # Null /\ FixedInput' = FixedInput /\ Completed' = Completed
  BY <1>1, <1>2, MaterializerAssumption
  DEF FixedInput, FixedAt, Manifest, Completed, ReportedCompleted
<1> QED
  BY <1>2, <1>5, <1>9, <1>10, <1>11 DEF Promise!Publish

(* Every step is one of Rebuild's, or changes nothing a caller sees.        *)
LEMMA PromiseStep ==
  ASSUME OneBatchSize, IInv, IInv', [Next]_vars
  PROVE  Promise!Next \/ UNCHANGED Promise!vars
<1>1. ASSUME UNCHANGED <<manifest, table, status>>
      PROVE  UNCHANGED Promise!vars
  BY <1>1, CopiesKept DEF Promise!vars, FixedInput, Completed, ReportedCompleted
<1>2. ASSUME NEW p \in Procs, Extract(p)
      PROVE  Promise!Next \/ UNCHANGED <<manifest, table, status>>
  <2>1. CASE ExtractionInterrupted(p)
    <3>1. pc[p] \in Working /\ WriteRunStatus(p, "extracting") /\ UNCHANGED <<manifest, table>>
      BY <2>1 DEF ExtractionInterrupted, Working, Pc, catalogVars
    <3> QED
      BY <3>1, StatusReports DEF Phase
  <2>2. CASE ~ ExtractionInterrupted(p)
    BY <1>2, <2>2 DEF Extract, WorkerStep, SkipExtracted, TakeChunk, StopExtracting, StartWorker,
       AllChunksVisited, StoreCandidates, StoreExtractStatus, WorkersDoneWithError, ExtractionDone,
       controlVars, catalogVars
  <2> QED
    BY <2>1, <2>2
<1>3. ASSUME NEW p \in Procs, Commit(p)
      PROVE  Promise!Next \/ UNCHANGED <<manifest, table, status>>
  <2>1. CASE CommitFiles(p)
    BY <2>1, CommitFilesPublishes
  <2>2. CASE ~ CommitFiles(p)
    BY <1>3, <2>2 DEF Commit, EnsureTable, SkipCommitted, TakeBatch, StopCommitting, WriteStaging,
       CommitFilesAlreadyReferenced, CommitConflict, StoreCommitStatus, AllBatchesVisited,
       controlVars, catalogVars
  <2> QED
    BY <2>1, <2>2
<1>4. ASSUME NEW p \in Procs, AnnounceCommit(p) \/ ReportStatus(p)
      PROVE  Promise!Next
  <2>1. PICK phase \in Phase : WriteRunStatus(p, phase)
    BY <1>4 DEF AnnounceCommit, ReportStatus, Phase
  <2>2. pc[p] \in Working /\ UNCHANGED <<manifest, table>>
    BY <1>4 DEF AnnounceCommit, ReportStatus, Working, Pc, catalogVars
  <2> QED
    BY <2>1, <2>2, StatusReports
<1>5. ASSUME NEW p \in Procs, \/ \E r \in Runs : Invoke(p, r)
                              \/ ListArchive(p) \/ LoadManifest(p) \/ ReducePhase(p) \/ Fault(p)
      PROVE  UNCHANGED <<manifest, table, status>>
  BY <1>5
  DEF Invoke, ListArchive, LoadManifest, ReducePhase, Fault, Crash, CheckpointUnreadable,
      WorkerFails, controlVars, catalogVars
<1>6. ASSUME NEW o \in Objects, Upload(o)
      PROVE  UNCHANGED <<manifest, table, status>>
  BY <1>6 DEF Upload, controlVars, catalogVars
<1>7. CASE UNCHANGED vars
  BY <1>1, <1>7 DEF vars, controlVars, catalogVars
<1> QED
  BY <1>1, <1>2, <1>3, <1>4, <1>5, <1>6, <1>7, FixManifestFixes DEF Next, Step

(* The invocations of all runs together implement Rebuild: the input is     *)
(* fixed once, batches are published whole and no row twice, and completion *)
(* is reported only of what is published (Run).                             *)
THEOREM RebuildIsImplemented ==
  ASSUME OneBatchSize
  PROVE  Spec => ImplementsRebuild
<1>1. IInv /\ IInv' /\ [Next]_vars => [Promise!Next]_(Promise!vars)
  BY PromiseStep
<1> QED
  BY <1>1, PromiseInit, Inductive, PTL DEF Spec, ImplementsRebuild, Promise!Spec
=============================================================================
