---------------------------- MODULE MCHttpBudget ----------------------------
(* What a late re-send of a report can do twice: extend a pause and count.   *)
EXTENDS HttpBudget

A(status, scope, retryAfter) ==
    [status |-> status, scope |-> scope, global |-> FALSE,
     retry_after |-> retryAfter]

PauseAndCount == {A(429, "global", 2), A(403, "none", Null)}
=============================================================================
