------------------------- MODULE ParallelProjection -------------------------
(***************************************************************************)
(* The projection as the materializer runs it: each chunk of the manifest  *)
(* is projected by a goroutine of its own (internal/projection Project,    *)
(* one iteration of its loop per step), and the rows of the chunks are     *)
(* merged by Reduce.  Chunks progress in any interleaving, an envelope may *)
(* be listed twice, and Go's map iteration makes the order in which Reduce *)
(* meets the rows of different messages arbitrary.                         *)
(***************************************************************************)
EXTENDS Projection

CONSTANTS Chunks,       \* the chunks of one manifest
          Observations, \* the Observation IDs that occur
          Times,        \* the observation times that occur
          Pages         \* the pages that occur

\* A page lists a message at most once
ASSUME ParallelAssumption ==
    /\ Observations \in SUBSET Nat
    /\ Times \in SUBSET Nat
    /\ \A page \in Pages :
          /\ IsFiniteSet(page)
          /\ page \in SUBSET Snapshot
          /\ \A m, n \in page : m.message = n.message => m = n

VARIABLES archive,     \* the envelope stored under each Observation ID
          seen,        \* per chunk: Observation IDs read so far
          best,        \* per chunk: the best row of each message so far
          folded,      \* chunks whose rows Reduce has merged
          current      \* the rows Reduce has chosen so far

vars == <<archive, seen, best, folded, current>>

TypeOK ==
    /\ archive \in [Observations -> Envelope]
    /\ seen \in [Chunks -> SUBSET Observations]
    /\ best \in [Chunks -> SUBSET Row]
    /\ folded \in SUBSET Chunks
    /\ current \in SUBSET Row

\* The Archive is create-only: one envelope per Observation ID
Init ==
    /\ archive \in {a \in [Observations -> [observation: Observations, observed: Times, page: Pages]] :
                       \A o \in Observations : a[o].observation = o}
    /\ seen = [c \in Chunks |-> {}]
    /\ best = [c \in Chunks |-> {}]
    /\ folded = {}
    /\ current = {}

\* One iteration of Project's loop over the envelopes of chunk c: an
\* Observation ID read before is the same evidence again and changes nothing
Read(c, o) ==
    /\ c \notin folded
    /\ seen' = [seen EXCEPT ![c] = @ \cup {o}]
    /\ best' = IF o \in seen[c] THEN best
               ELSE [best EXCEPT ![c] = AdoptAll(ToCanonical(archive[o]), @)]
    /\ UNCHANGED <<archive, folded, current>>

\* One iteration of Reduce's loop over the groups, after every Project ended
Fold(c) ==
    /\ c \notin folded
    /\ folded' = folded \cup {c}
    /\ current' = AdoptAll(best[c], current)
    /\ UNCHANGED <<archive, seen, best>>

Next ==
    \E c \in Chunks :
        \/ \E o \in Observations : Read(c, o)
        \/ Fold(c)

Spec == Init /\ [][Next]_vars

-----------------------------------------------------------------------------
Evidence(obs) == UNION {ToCanonical(archive[o]) : o \in obs}

\* Whatever the order in which a chunk's envelopes are read and however often,
\* its rows are the best-known snapshots of what it read, by the precedence of
\* docs/domain/processing/projection.md.
ChunkIsBestKnown == \A c \in Chunks : best[c] = BestKnown(Evidence(seen[c]))

\* Choosing per chunk and then across chunks is choosing over the union: the
\* Current State does not depend on how the manifest was cut into chunks nor
\* on the order in which they are merged, even when chunks share evidence.
MergeIsBestKnown ==
    current = BestKnown(Evidence(UNION {seen[c] : c \in folded}))
=============================================================================
