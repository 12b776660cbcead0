------------------------------ MODULE Rebuild ------------------------------
(***************************************************************************)
(* What full rebuilds promise, whatever processes carry them out and       *)
(* however often they are interrupted                                      *)
(* (docs/architecture/cloudflare/processing/materialization.md):           *)
(*   - the input of a rebuild is fixed once, and evidence archived later   *)
(*     never enters;                                                       *)
(*   - rows are published in batches, each batch at once and no row twice, *)
(*     and only rows of the Current State of the fixed input;              *)
(*   - it is reported complete only when that Current State is published.  *)
(***************************************************************************)
EXTENDS Projection, Bags

CONSTANTS Runs,        \* the rebuilds
          Objects,     \* the keys of the Archive
          Evidence,    \* the envelope stored under each key
          Unfixed      \* no input yet

VARIABLES input,       \* per rebuild: the set of Archive keys it reads, or Unfixed
          published,   \* per rebuild: the bag of the rows published
          done         \* per rebuild: whether it is reported complete

vars == <<input, published, done>>

CurrentState(r) == BestKnown(UNION {ToCanonical(Evidence[o]) : o \in input[r]})

Published(r) == BagToSet(published[r])

Init ==
    /\ input = [r \in Runs |-> Unfixed]
    /\ published = [r \in Runs |-> EmptyBag]
    /\ done = [r \in Runs |-> FALSE]

FixInput(r) ==
    /\ input[r] = Unfixed
    /\ \E keys \in SUBSET Objects : input' = [input EXCEPT ![r] = keys]
    /\ UNCHANGED <<published, done>>

Publish(r) ==
    /\ input[r] # Unfixed
    /\ \E batch \in SUBSET (CurrentState(r) \ Published(r)) :
          published' = [published EXCEPT ![r] = @ (+) SetToBag(batch)]
    /\ UNCHANGED <<input, done>>

\* The report may be withdrawn while a later invocation checks the run again
Report(r) ==
    /\ input[r] # Unfixed
    /\ \E complete \in BOOLEAN :
          /\ complete => Published(r) = CurrentState(r)
          /\ done' = [done EXCEPT ![r] = complete]
    /\ UNCHANGED <<input, published>>

Next == \E r \in Runs : FixInput(r) \/ Publish(r) \/ Report(r)

Spec == Init /\ [][Next]_vars
=============================================================================
