----------------------- MODULE ParallelProjectionProofs -----------------------
(***************************************************************************)
(* The parallel projection chooses the Current State, for any chunks, any  *)
(* evidence and any interleaving.                                          *)
(***************************************************************************)
EXTENDS ParallelProjection, ProjectionProofs

ArchiveInv ==
    \A o \in Observations :
        archive[o].observation = o /\ archive[o].page \in Pages

(* Every chunk holds the best rows of what it has read; only finitely much  *)
(* has been read, or there might be no best.                                *)
ChunkInv ==
    \A c \in Chunks : IsFiniteSet(seen[c]) /\ IsBest(best[c], Evidence(seen[c]))

MergeInv == IsBest(current, Evidence(UNION {seen[c] : c \in folded}))

IInv == TypeOK /\ ArchiveInv /\ ChunkInv /\ MergeInv

LEMMA ArchivedRows ==
  ASSUME TypeOK, ArchiveInv, NEW o \in Observations
  PROVE  ToCanonical(archive[o]) \in SUBSET Row /\ IsFiniteSet(ToCanonical(archive[o]))
<1>1. archive[o] \in Envelope /\ IsFiniteSet(archive[o].page)
  BY ParallelAssumption DEF TypeOK, ArchiveInv
<1> QED
  BY <1>1, CanonicalRows

LEMMA EvidenceRows ==
  ASSUME TypeOK, ArchiveInv, NEW obs \in SUBSET Observations
  PROVE  /\ Evidence(obs) \in SUBSET Row
         /\ IsFiniteSet(obs) => IsFiniteSet(Evidence(obs))
<1>1. Evidence(obs) \in SUBSET Row
  BY ArchivedRows DEF Evidence
<1>2. ASSUME IsFiniteSet(obs)
      PROVE  IsFiniteSet(Evidence(obs))
  <2> DEFINE parts == {ToCanonical(archive[o]) : o \in obs}
  <2>1. [o \in obs |-> ToCanonical(archive[o])] \in Surjection(obs, parts)
    BY DEF Surjection
  <2>2. IsFiniteSet(parts)
    <3> HIDE DEF parts
    <3> QED
      BY <1>2, <2>1, FS_Surjection
  <2>3. \A T \in parts : IsFiniteSet(T)
    BY ArchivedRows
  <2>4. IsFiniteSet(UNION parts)
    <3> HIDE DEF parts
    <3> QED
      BY <2>2, <2>3, FS_UNION
  <2> QED
    BY <2>4 DEF Evidence
<1> QED
  BY <1>1, <1>2

LEMMA InitIInv == Init => IInv
<1> SUFFICES ASSUME Init
             PROVE  IInv
  OBVIOUS
<1>1. TypeOK /\ ArchiveInv
  <2>1. archive \in [Observations -> [observation: Observations, observed: Times, page: Pages]]
    BY DEF Init
  <2>2. [observation: Observations, observed: Times, page: Pages] \subseteq Envelope
    BY ParallelAssumption DEF Envelope
  <2> QED
    BY <2>1, <2>2 DEF Init, TypeOK, ArchiveInv
<1>2. Evidence({}) = {}
  BY DEF Evidence
<1>3. ChunkInv /\ MergeInv
  BY <1>2, BestOfNothing, FS_EmptySet DEF Init, ChunkInv, MergeInv
<1> QED
  BY <1>1, <1>3 DEF IInv

LEMMA ReadStep ==
  ASSUME IInv, NEW c \in Chunks, NEW o \in Observations, Read(c, o)
  PROVE  IInv'
<1>1. TypeOK /\ ArchiveInv /\ ChunkInv /\ MergeInv
  BY DEF IInv
<1>2. archive' = archive /\ current' = current /\ folded' = folded /\ c \notin folded
  BY DEF Read
<1>3. \A obs : Evidence(obs)' = Evidence(obs)
  BY <1>2 DEF Evidence
<1> DEFINE page == ToCanonical(archive[o])
<1>4. page \in SUBSET Row /\ IsFiniteSet(page)
  BY <1>1, ArchivedRows
<1>5. Evidence(seen[c]) \in SUBSET Row
  BY <1>1, EvidenceRows DEF TypeOK
<1>6. seen'[c] = seen[c] \cup {o} /\ \A d \in Chunks \ {c} : seen'[d] = seen[d]
  BY <1>1 DEF Read, TypeOK
<1>7. \A d \in Chunks \ {c} : best'[d] = best[d]
  BY <1>1 DEF Read, TypeOK
<1>8. /\ IsFiniteSet(seen'[c])
      /\ best'[c] \in SUBSET Row
      /\ IsBest(best'[c], Evidence(seen'[c]))
  <2>1. IsFiniteSet(seen'[c])
    BY <1>1, <1>6, FS_AddElement DEF ChunkInv
  <2>2. IsBest(best[c], Evidence(seen[c])) /\ best[c] \in SUBSET Row
    BY <1>1 DEF ChunkInv, TypeOK
  <2>3. CASE o \in seen[c]
    <3>1. seen'[c] = seen[c] /\ best'[c] = best[c]
      BY <1>6, <2>3 DEF Read
    <3> QED
      BY <2>1, <2>2, <3>1
  <2>4. CASE o \notin seen[c]
    <3>1. best'[c] = AdoptAll(page, best[c])
      BY <1>1, <2>4 DEF Read, TypeOK
    <3>2. Evidence(seen'[c]) = Evidence(seen[c]) \cup page
      BY <1>6 DEF Evidence
    <3> HIDE DEF page
    <3>3. IsBest(best'[c], Evidence(seen'[c]))
      BY <1>4, <1>5, <2>2, <3>1, <3>2, AdoptAllKeepsBest
    <3>4. best'[c] \in SUBSET Row
      BY <1>4, <2>2, <3>1, AdoptAllType
    <3> QED
      BY <2>1, <3>3, <3>4
  <2> QED
    BY <2>3, <2>4
<1>9. TypeOK'
  <2>1. seen' \in [Chunks -> SUBSET Observations]
    BY <1>1 DEF Read, TypeOK
  <2>2. best' \in [Chunks -> SUBSET Row]
    <3>1. best' = [d \in Chunks |-> best'[d]]
      BY <1>1 DEF Read, TypeOK
    <3>2. \A d \in Chunks : best'[d] \in SUBSET Row
      BY <1>1, <1>7, <1>8 DEF TypeOK
    <3> QED
      BY <3>1, <3>2
  <2> QED
    BY <1>1, <1>2, <2>1, <2>2 DEF TypeOK
<1>10. ArchiveInv'
  BY <1>1, <1>2 DEF ArchiveInv
<1>11. ChunkInv'
  BY <1>1, <1>3, <1>6, <1>7, <1>8 DEF ChunkInv
<1>12. MergeInv'
  <2>1. UNION {seen'[d] : d \in folded} = UNION {seen[d] : d \in folded}
    BY <1>1, <1>2, <1>6 DEF TypeOK
  <2> QED
    BY <1>1, <1>2, <1>3, <2>1 DEF MergeInv
<1> QED
  BY <1>9, <1>10, <1>11, <1>12 DEF IInv

LEMMA FoldStep ==
  ASSUME IInv, NEW c \in Chunks, Fold(c)
  PROVE  IInv'
<1>1. TypeOK /\ ArchiveInv /\ ChunkInv /\ MergeInv
  BY DEF IInv
<1>2. /\ UNCHANGED <<archive, seen, best>> /\ folded' = folded \cup {c}
      /\ current' = AdoptAll(best[c], current)
  BY DEF Fold
<1>3. \A obs : Evidence(obs)' = Evidence(obs)
  BY <1>2 DEF Evidence
<1> DEFINE before == Evidence(UNION {seen[d] : d \in folded})
           chunk == Evidence(seen[c])
<1>4. before \in SUBSET Row
  BY <1>1, EvidenceRows DEF TypeOK
<1>5. chunk \in SUBSET Row /\ IsFiniteSet(chunk)
  BY <1>1, EvidenceRows DEF TypeOK, ChunkInv
<1>6. IsBest(best[c], chunk) /\ IsBest(current, before)
  BY <1>1 DEF ChunkInv, MergeInv
<1>7. best[c] \in SUBSET Row /\ IsFiniteSet(best[c]) /\ current \in SUBSET Row
  <2>1. best[c] \subseteq chunk
    BY <1>6 DEF IsBest
  <2> HIDE DEF chunk
  <2>2. IsFiniteSet(best[c])
    BY <1>5, <2>1, FS_Subset
  <2> QED
    BY <1>1, <2>2 DEF TypeOK
<1>8. Evidence(UNION {seen'[d] : d \in folded'}) = before \cup chunk
  BY <1>2 DEF Evidence
<1>9. IsBest(current', before \cup chunk)
  <2> HIDE DEF before, chunk
  <2>1. IsBest(current', before \cup best[c])
    BY <1>2, <1>4, <1>6, <1>7, AdoptAllKeepsBest
  <2> QED
    BY <1>4, <1>5, <1>6, <2>1, BestOfBest
<1>10. MergeInv'
  BY <1>3, <1>8, <1>9 DEF MergeInv
<1>11. current' \in SUBSET Row
  BY <1>2, <1>7, AdoptAllType
<1>12. TypeOK' /\ ArchiveInv'
  BY <1>1, <1>2, <1>11 DEF TypeOK, ArchiveInv
<1>13. ChunkInv'
  BY <1>1, <1>2, <1>3 DEF ChunkInv
<1> QED
  BY <1>10, <1>12, <1>13 DEF IInv

LEMMA NextIInv == IInv /\ [Next]_vars => IInv'
<1> SUFFICES ASSUME IInv, [Next]_vars
             PROVE  IInv'
  OBVIOUS
<1>1. ASSUME NEW c \in Chunks, NEW o \in Observations, Read(c, o)
      PROVE  IInv'
  BY <1>1, ReadStep
<1>2. ASSUME NEW c \in Chunks, Fold(c)
      PROVE  IInv'
  BY <1>2, FoldStep
<1>3. CASE UNCHANGED vars
  BY <1>3 DEF vars, IInv, TypeOK, ArchiveInv, ChunkInv, MergeInv, Evidence
<1> QED
  BY <1>1, <1>2, <1>3 DEF Next

LEMMA IInvHolds == Spec => []IInv
BY InitIInv, NextIInv, PTL DEF Spec

(* Rows, candidates and checkpoints are what the code's types say.          *)
THEOREM TypeCorrect == Spec => []TypeOK
<1>1. IInv => TypeOK
  BY DEF IInv
<1> QED
  BY <1>1, IInvHolds, PTL

(* Whatever the order and the repetition of its envelopes, each chunk holds *)
(* the rows the documented precedence chooses (projection.go:42-74).        *)
THEOREM ChunksAreBestKnown == Spec => []ChunkIsBestKnown
<1>1. IInv => ChunkIsBestKnown
  <2> SUFFICES ASSUME IInv, NEW c \in Chunks
               PROVE  best[c] = BestKnown(Evidence(seen[c]))
    BY DEF ChunkIsBestKnown
  <2>1. IsBest(best[c], Evidence(seen[c])) /\ Evidence(seen[c]) \in SUBSET Row
    BY EvidenceRows DEF IInv, ChunkInv, TypeOK
  <2> QED
    BY <2>1, BestIsBestKnown
<1> QED
  BY <1>1, IInvHolds, PTL

(* The merged rows are those the precedence chooses from the evidence of    *)
(* all merged chunks together, however it was cut into chunks and in        *)
(* whatever order they are merged.                                          *)
THEOREM MergeIsCurrentState == Spec => []MergeIsBestKnown
<1>1. IInv => MergeIsBestKnown
  <2> SUFFICES ASSUME IInv
               PROVE  MergeIsBestKnown
    OBVIOUS
  <2> DEFINE obs == UNION {seen[c] : c \in folded}
  <2>1. IsBest(current, Evidence(obs)) /\ Evidence(obs) \in SUBSET Row
    BY EvidenceRows DEF IInv, MergeInv, TypeOK
  <2> HIDE DEF obs
  <2>2. current = BestKnown(Evidence(obs))
    BY <2>1, BestIsBestKnown
  <2> QED
    BY <2>2 DEF MergeIsBestKnown, obs
<1> QED
  BY <1>1, IInvHolds, PTL
===============================================================================
