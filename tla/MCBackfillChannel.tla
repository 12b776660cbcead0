-------------------------- MODULE MCBackfillChannel --------------------------
(* Instances of BackfillChannel for TLC.                                      *)
EXTENDS BackfillChannel, TLC

R(after, before) == [after |-> after, before |-> before]

WholeChannel == {R(Null, Null)}
HalfOpen     == {R(1, Null), R(Null, 4)}
=============================================================================
