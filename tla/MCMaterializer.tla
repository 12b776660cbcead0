--------------------------- MODULE MCMaterializer ---------------------------
(***************************************************************************)
(* Small instances of Materializer for TLC.  Three pages overlap in        *)
(* message 1, which is edited between the first and the second; the third  *)
(* is a later refetch of the first page, so that a run that let it in      *)
(* would adopt it for message 2 and show.                                  *)
(***************************************************************************)
EXTENDS Materializer, TLC

Snap(m, e) == [message |-> m, edited |-> e]
Page(id, at, snaps) == [observation |-> id, observed |-> at, page |-> snaps]

MCEvidence ==
    << Page(1, 1, {Snap(1, Unedited), Snap(2, Unedited)}),
       Page(2, 2, {Snap(1, 1), Snap(3, Unedited)}),
       Page(3, 3, {Snap(1, Unedited), Snap(2, Unedited)}) >>

NoFaultBound == -1

ProcSymmetry == Permutations(Procs)
=============================================================================
