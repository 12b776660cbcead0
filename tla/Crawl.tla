------------------------------- MODULE Crawl -------------------------------
(***************************************************************************)
(* What the backfill of a channel promises, whatever it is refused and     *)
(* wherever it is interrupted                                              *)
(* (docs/architecture/cloudflare/backfill/execution.md, docs/adr/0010):     *)
(*   - one run at a time works on the channel, over a fixed range, and a   *)
(*     run that has ended does nothing any more;                           *)
(*   - a run archives pages from ahead of its cursor, and the cursor moves *)
(*     only downwards, to a message that is archived;                      *)
(*   - it passes a message, and reports the range complete, only when all  *)
(*     the messages it leaves behind are archived.                         *)
(***************************************************************************)
EXTENDS Integers

CONSTANTS Runs, Messages, Ranges,
          Null           \* no bound, no cursor

VARIABLES run,           \* per run: its state, its range and its cursor
          archived,      \* per run: the messages it has archived
          present        \* per run: messages there since it began

vars == <<run, archived, present>>

Unbegun == [state |-> "absent", range |-> [after |-> Null, before |-> Null], cursor |-> Null]

Underway(r) == run[r].state = "active"

\* What has still to be fetched; the cursor is at first the end of the range
Ahead(r) == {m \in Messages : run[r].cursor = Null \/ m < run[r].cursor}

InRange(m, range) ==
    /\ range.before # Null => m < range.before
    /\ range.after # Null => m > range.after

\* Nothing that counts is left behind by going on to the messages before m,
\* or by ending here
Covered(r, from) ==
    \A m \in present[r] :
        InRange(m, run[r].range) /\ (from = Null \/ m >= from) => m \in archived[r]

Init ==
    /\ run = [r \in Runs |-> Unbegun]
    /\ archived = [r \in Runs |-> {}]
    /\ present = [r \in Runs |-> {}]

Begin(r) ==
    /\ run[r].state = "absent"
    /\ \A s \in Runs : ~ Underway(s)
    /\ \E range \in Ranges, there \in SUBSET Messages :
          /\ run' = [run EXCEPT ![r] = [state |-> "active", range |-> range, cursor |-> range.before]]
          /\ present' = [present EXCEPT ![r] = there]
    /\ UNCHANGED archived

Store(r) ==
    /\ Underway(r)
    /\ \E page \in SUBSET Ahead(r) : archived' = [archived EXCEPT ![r] = @ \cup page]
    /\ UNCHANGED <<run, present>>

Advance(r) ==
    /\ Underway(r)
    /\ \E m \in Ahead(r) \cap archived[r] :
          /\ Covered(r, m)
          /\ run' = [run EXCEPT ![r].cursor = m]
    /\ UNCHANGED <<archived, present>>

Complete(r) ==
    /\ Underway(r)
    /\ Covered(r, Null)
    /\ run' = [run EXCEPT ![r].state = "completed"]
    /\ UNCHANGED <<archived, present>>

Abandon(r) ==
    /\ Underway(r)
    /\ run' = [run EXCEPT ![r].state = "abandoned"]
    /\ UNCHANGED <<archived, present>>

\* A message is deleted: nothing is promised about it any more
Forget(m) ==
    /\ present' = [r \in Runs |-> present[r] \ {m}]
    /\ UNCHANGED <<run, archived>>

Next ==
    \/ \E r \in Runs : Begin(r) \/ Store(r) \/ Advance(r) \/ Complete(r) \/ Abandon(r)
    \/ \E m \in Messages : Forget(m)

Spec == Init /\ [][Next]_vars
=============================================================================
