------------------------- MODULE MCAcceptanceSpike -------------------------
(***************************************************************************)
(* A small instance of AcceptanceSpike for TLC.  Each loop puts a page of  *)
(* its own, with message 0, which is edited, and message 1; the two pages  *)
(* differ in their Observation IDs and times, so that a loop that          *)
(* materializes both adopts the rows of one of them.  Object 3 is a page   *)
(* of the backfill that supersedes message 1 and adds message 9.           *)
(***************************************************************************)
EXTENDS AcceptanceSpike, TLC

CONSTANTS l1, l2

MCEvidence ==
    GenerateFixture(<< 1, 2 >>, 2, 2, 1)
        \o << [observation |-> 3, observed |-> 2,
               page |-> {[message |-> 1, edited |-> 1], [message |-> 9, edited |-> Unedited]}] >>

MCFixture == (l1 :> << 1 >>) @@ (l2 :> << 2 >>)
=============================================================================
