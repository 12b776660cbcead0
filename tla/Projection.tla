----------------------------- MODULE Projection -----------------------------
(***************************************************************************)
(* The deterministic projection of archived HTTP pages into the Current    *)
(* State of the messages they contain: internal/projection/projection.go.  *)
(*                                                                         *)
(* An envelope is one archived page.  What the projection reads of it is   *)
(* its Observation ID, the time it was observed and, per message of the    *)
(* page, the edit time.  Content, author and the other columns are copied  *)
(* from the adopted envelope and are determined by (message, observation), *)
(* so a row carries just the fields that choose it.  Identifiers and times *)
(* are numbers: the code only ever compares them.                          *)
(***************************************************************************)
EXTENDS Naturals, Sequences, FiniteSetsExt, SequencesExt

CONSTANT Unedited      \* the nil EditedAt of a message that was never edited

ASSUME UneditedAssumption == Unedited \notin Nat

EditTime == Nat \cup {Unedited}

\* One message of a page
Snapshot == [message: Nat, edited: EditTime]

Envelope == [observation: Nat, observed: Nat, page: SUBSET Snapshot]

Row == [message: Nat, edited: EditTime, observed: Nat, observation: Nat]

\* The edit time stands in for the time the snapshot was observed
ToCanonicalByEdit(env) ==
    {[message |-> m.message, edited |-> m.edited,
      observed |-> m.edited, observation |-> env.observation] : m \in env.page}

\* toCanonical: the candidate rows one envelope offers, one per message
ToCanonical(env) ==
    {[message |-> m.message, edited |-> m.edited,
      observed |-> env.observed, observation |-> env.observation] : m \in env.page}

-----------------------------------------------------------------------------
(* Precedence                                                              *)

EditedAfter(a, b) == a # Unedited /\ (b = Unedited \/ a > b)

\* Every tie of all three keys is kept as it is, so the outcome of a tie
\* would depend on the order of arrival
NewerUpToTies(a, b) ==
    \/ EditedAfter(a.edited, b.edited)
    \/ /\ ~ EditedAfter(b.edited, a.edited)
       /\ a.observed > b.observed

Newer(a, b) ==
    \/ EditedAfter(a.edited, b.edited)
    \/ /\ ~ EditedAfter(b.edited, a.edited)
       /\ \/ a.observed > b.observed
          \/ a.observed = b.observed /\ b.observation < a.observation

-----------------------------------------------------------------------------
(* The map from Message ID to the best row so far is a set with at most    *)
(* one row per message.                                                    *)

\* A row is replaced, whatever its precedence, by the last one read
AdoptLastRead(cand, best) ==
    {cur \in best : cur.message # cand.message} \cup {cand}

Adopt(cand, best) ==
    IF \A cur \in best : cur.message = cand.message => Newer(cand, cur)
    THEN {cur \in best : cur.message # cand.message} \cup {cand}
    ELSE best

AdoptAll(cands, best) == FoldSet(Adopt, best, cands)

\* Project: envs is the sequence of envelopes of one chunk; an Observation ID
\* met before is the same evidence again and is skipped
Project(envs) ==
    LET Read(acc, env) ==
          IF env.observation \in acc.seen THEN acc
          ELSE [seen |-> acc.seen \cup {env.observation},
                best |-> AdoptAll(ToCanonical(env), acc.best)]
    IN  FoldLeft(Read, [seen |-> {}, best |-> {}], envs).best

\* Reduce: groups is a sequence of row sets, the winners of the chunks
Reduce(groups) ==
    FoldLeft(LAMBDA best, group : AdoptAll(group, best), {}, groups)

-----------------------------------------------------------------------------
(* Reference: docs/domain/processing/projection.md:29-35, read as three    *)
(* successive filters.                                                     *)

EditKey(row) == IF row.edited = Unedited THEN 0 ELSE row.edited + 1

LatestBy(Key(_), rows) == {r \in rows : \A q \in rows : Key(q) <= Key(r)}

BestOfMessage(rows) ==
    LatestBy(LAMBDA r : r.observation,
        LatestBy(LAMBDA r : r.observed,
            LatestBy(EditKey, rows)))

BestKnown(rows) ==
    UNION {BestOfMessage({r \in rows : r.message = m}) : m \in {r.message : r \in rows}}
=============================================================================
