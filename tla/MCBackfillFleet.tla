-------------------------- MODULE MCBackfillFleet --------------------------
(***************************************************************************)
(* Small instances of BackfillFleet for TLC.  One invalid answer reaches   *)
(* the threshold; a pause may be shorter than the one before.              *)
(***************************************************************************)
EXTENDS BackfillFleet, TLC

FleetSymmetry == Permutations(Requests) \cup Permutations(Channels)

A(status, scope, retryAfter) ==
    [status |-> status, scope |-> scope, global |-> FALSE, retry_after |-> retryAfter]

FleetAnswers ==
    {A(200, "none", Null), A(401, "none", Null), A(429, "global", 1), A(429, "global", 4)}
=============================================================================
