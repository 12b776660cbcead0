------------------------ MODULE MCParallelProjection ------------------------
(***************************************************************************)
(* A small instance of ParallelProjection for TLC: three observations of   *)
(* two messages, every assignment of the pages below and of two            *)
(* observation times to them, and two chunks that may share evidence.      *)
(***************************************************************************)
EXTENDS ParallelProjection, TLC

Snap(m, e) == [message |-> m, edited |-> e]

\* One message unedited, edited once and edited twice; the other beside it
MCPages == {{}, {Snap(1, Unedited)}, {Snap(1, 1)}, {Snap(1, 2)},
            {Snap(1, 1), Snap(2, Unedited)}, {Snap(1, Unedited), Snap(2, 1)}}

ChunkSymmetry == Permutations(Chunks)
=============================================================================
