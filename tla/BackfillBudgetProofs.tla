------------------------- MODULE BackfillBudgetProofs -------------------------
(***************************************************************************)
(* Theorems about the Budget object and about the Channels that share it,  *)
(* for every number of requests and Channels, every window length, ceiling *)
(* and budget, and any number of requests given up.                        *)
(*                                                                         *)
(* The tables only keep recent rows, the properties speak of the whole     *)
(* history; HistoryInv relates the two: a row of the history that is still *)
(* inside its window has not been pruned.  What is shown of the Budget     *)
(* holds of the fleet too, because the fleet only ever uses its methods    *)
(* (FleetUsesBudget).  What Discord sees of the fleet is later than what   *)
(* the Budget decided; CountInv says by how much.                          *)
(***************************************************************************)
EXTENDS BackfillFleet, Integers, FiniteSetsExt, FiniteSetTheorems, WellFoundedInduction, TLAPS

-----------------------------------------------------------------------------
(* Finite sets: smallest elements and counting.                             *)

(* A set of naturals that is not empty has a smallest element, and Min      *)
(* returns it: the cursor a page moves to (minSnowflake) is in the page.    *)
LEMMA MinExists ==
  ASSUME NEW T \in SUBSET Nat, T # {}
  PROVE  Min(T) \in T /\ \A y \in T : Min(T) <= y
<1> DEFINE Less == OpToRel(<, Nat)
<1>1. \A x, y \in Nat : y < x => <<y, x>> \in Less
  BY DEF OpToRel
<1>2. IsWellFoundedOn(Less, Nat)
  BY NatLessThanWellFounded
<1> HIDE DEF Less
<1>3. PICK x \in T : \A y \in T : ~ (<<y, x>> \in Less)
  BY <1>2, WFMin
<1>4. ASSUME NEW y \in T, ~ (x <= y)
      PROVE  FALSE
  <2>1. y < x /\ y \in Nat /\ x \in Nat
    BY <1>4
  <2>2. <<y, x>> \in Less
    BY <1>1, <2>1, Zenon
  <2> QED
    BY <1>3, <2>2, Zenon
<1> QED
  BY <1>3, <1>4 DEF Min

(* A subset of a finite set is finite and has no more elements.             *)
LEMMA CountSubset ==
  ASSUME NEW S, IsFiniteSet(S), NEW T, T \subseteq S
  PROVE  /\ IsFiniteSet(T)
         /\ Cardinality(T) \in Nat /\ Cardinality(S) \in Nat
         /\ Cardinality(T) <= Cardinality(S)
<1>1. T \in SUBSET S
  OBVIOUS
<1> QED
  BY <1>1, FS_Subset, FS_CardinalityType

(* Two finite sets together have no more elements than one and the other.   *)
LEMMA CountUnion ==
  ASSUME NEW S, IsFiniteSet(S), NEW T, IsFiniteSet(T)
  PROVE  /\ IsFiniteSet(S \cup T)
         /\ Cardinality(S \cup T) \in Nat
         /\ Cardinality(S \cup T) <= Cardinality(S) + Cardinality(T)
<1>1. /\ IsFiniteSet(S \cup T)
      /\ Cardinality(S \cup T) = Cardinality(S) + Cardinality(T) - Cardinality(S \cap T)
  BY FS_Union
<1>2. IsFiniteSet(S \cap T)
  BY FS_Intersection
<1>3. /\ Cardinality(S \cap T) \in Nat /\ Cardinality(S) \in Nat /\ Cardinality(T) \in Nat
      /\ Cardinality(S \cup T) \in Nat
  BY <1>1, <1>2, FS_CardinalityType
<1> QED
  BY <1>1, <1>3

(* One element more or fewer changes the count by one at most.              *)
LEMMA CountElement ==
  ASSUME NEW S, IsFiniteSet(S), NEW x
  PROVE  /\ Cardinality(S) \in Nat
         /\ IsFiniteSet(S \cup {x}) /\ Cardinality(S \cup {x}) \in Nat
         /\ Cardinality(S \cup {x}) <= Cardinality(S) + 1
         /\ IsFiniteSet(S \ {x}) /\ Cardinality(S \ {x}) \in Nat
         /\ x \in S => Cardinality(S \ {x}) = Cardinality(S) - 1
<1>1. Cardinality(S) \in Nat
  BY FS_CardinalityType
<1>2. /\ IsFiniteSet(S \cup {x})
      /\ Cardinality(S \cup {x}) \in {Cardinality(S), Cardinality(S) + 1}
  BY FS_AddElement
<1>3. /\ IsFiniteSet(S \ {x})
      /\ x \in S => Cardinality(S \ {x}) = Cardinality(S) - 1
  BY FS_RemoveElement
<1>4. Cardinality(S \ {x}) \in Nat
  BY <1>3, FS_CardinalityType
<1> QED
  BY <1>1, <1>2, <1>3, <1>4

(* If each x in S is related to an element of T, and no element of T to two *)
(* of them, S has no more elements than T.                                  *)
LEMMA CountOneToOne ==
  ASSUME NEW S, NEW T, IsFiniteSet(T), NEW R,
         \A x \in S : \E y \in T : <<x, y>> \in R,
         \A x, z \in S : \A y \in T : <<x, y>> \in R /\ <<z, y>> \in R => x = z
  PROVE  /\ IsFiniteSet(S)
         /\ Cardinality(S) \in Nat /\ Cardinality(T) \in Nat
         /\ Cardinality(S) <= Cardinality(T)
<1> DEFINE f == [x \in S |-> CHOOSE y \in T : <<x, y>> \in R]
<1>1. \A x \in S : f[x] \in T /\ <<x, f[x]>> \in R
  OBVIOUS
<1>2. f \in [S -> T]
  BY <1>1
<1> HIDE DEF f
<1>3. \A x, z \in S : f[x] = f[z] => x = z
  BY <1>1
<1>4. f \in Injection(S, T)
  BY <1>2, <1>3 DEF Injection, IsInjective
<1>5. IsFiniteSet(S) /\ Cardinality(S) <= Cardinality(T)
  BY <1>4, FS_Injection
<1> QED
  BY <1>5, FS_CardinalityType

(* Two parts of a finite set that have nothing in common have no more       *)
(* elements than the whole.                                                 *)
LEMMA CountApart ==
  ASSUME NEW U, IsFiniteSet(U), NEW S, S \subseteq U, NEW T, T \subseteq U, S \cap T = {}
  PROVE  /\ Cardinality(S) \in Nat /\ Cardinality(T) \in Nat /\ Cardinality(U) \in Nat
         /\ Cardinality(S) + Cardinality(T) <= Cardinality(U)
<1>1. /\ IsFiniteSet(S) /\ Cardinality(S) \in Nat /\ Cardinality(U) \in Nat
      /\ IsFiniteSet(T) /\ Cardinality(T) \in Nat
  BY CountSubset
<1>2. Cardinality(S \cup T) = Cardinality(S) + Cardinality(T)
  <2>1. Cardinality(S \cup T) = Cardinality(S) + Cardinality(T) - Cardinality(S \cap T)
    BY <1>1, FS_Union
  <2>2. Cardinality(S \cap T) = 0
    BY FS_EmptySet
  <2> QED
    BY <1>1, <2>1, <2>2
<1>3. Cardinality(S \cup T) <= Cardinality(U)
  <2>1. S \cup T \subseteq U
    OBVIOUS
  <2> QED
    BY <2>1, CountSubset
<1> QED
  BY <1>1, <1>2, <1>3

LEMMA BudgetTypeInit == Init => TypeOK
BY BudgetAssumption DEF Init, TypeOK

LEMMA BudgetTypeStep == TypeOK /\ [Next]_vars => TypeOK'
<1> SUFFICES ASSUME TypeOK, [Next]_vars
             PROVE  TypeOK'
  OBVIOUS
<1> USE BudgetAssumption DEF TypeOK, Row
<1>1. ASSUME NEW r \in Requests, AcquireGranted(r)
      PROVE  TypeOK'
  BY <1>1 DEF AcquireGranted, LiveSlots, LiveInvalid, LiveProcessed, Since
<1>2. CASE AcquireRefused
  BY <1>2 DEF AcquireRefused, Prune, LiveSlots, LiveInvalid, LiveProcessed, Since
<1>3. ASSUME NEW r \in Requests, NEW a \in Answers, ReportSeen(r, a)
      PROVE  TypeOK'
  BY <1>3 DEF ReportSeen, Answered, Prune, LiveSlots, LiveInvalid,
              LiveProcessed, Since
<1>4. ASSUME NEW r \in Requests, NEW a \in Answers, ReportNew(r, a)
      PROVE  TypeOK'
  <2>1. a.retry_after \in Nat \cup {Null}
    BY DEF Answer
  <2>2. LaterPause(PauseEnd(now, a)) \in Nat \cup {Null}
    BY <2>1 DEF LaterPause, PauseEnd, Larger
  <2>3. answer' \in [Requests -> Answers \cup {Null}]
    BY <1>4 DEF ReportNew, Answered
  <2> QED
    BY <1>4, <2>2, <2>3 DEF ReportNew, LiveSlots, LiveInvalid, LiveProcessed, Since
<1>5. CASE ClearCredentialHalt
  BY <1>5 DEF ClearCredentialHalt
<1>6. CASE Tick
  BY <1>6 DEF Tick, tables
<1>7. CASE UNCHANGED vars
  BY <1>7 DEF vars, tables
<1> QED
  BY <1>1, <1>2, <1>3, <1>4, <1>5, <1>6, <1>7 DEF Next

(* The object's tables and registers always hold well-formed rows.          *)
THEOREM TypeCorrect == Spec => []TypeOK
BY BudgetTypeInit, BudgetTypeStep, PTL DEF Spec

-----------------------------------------------------------------------------
(* The inductive invariant.                                                 *)

\* No history row is from the future, and every granted request is counted
\* by its slot until its second is over.
GrantsKept ==
    /\ IsFiniteSet(grantLog)
    /\ slots \subseteq grantLog
    /\ \A g \in grantLog : g.ts <= now
    /\ \A g \in grantLog : g.ts > now - Second => g \in slots

\* An applied report stays in processed_reports for the whole window.
AppliesKept ==
    /\ \A a \in applyLog : a.ts <= now
    /\ \A a \in applyLog : a.ts > now - InvalidWindow => a \in processed

\* The answer of an applied report is known, and its pause is remembered.
PausesKept ==
    \A a \in applyLog :
        /\ answer[a.id] # Null
        /\ PausesEverybody(answer[a.id]) =>
               /\ globalRetryUntil # Null
               /\ globalRetryUntil >= PauseEnd(a.ts, answer[a.id])

\* An applied invalid response is counted for the whole window.
InvalidKept ==
    /\ IsFiniteSet(invalid)
    /\ \A a \in applyLog : /\ CountsAsInvalidRequest(answer[a.id])
                           /\ a.ts > now - InvalidWindow
                           => a \in invalid

HistoryInv == GrantsKept /\ AppliesKept /\ PausesKept /\ InvalidKept
LEMMA HistoryInit == Init => HistoryInv
  BY FS_EmptySet, BudgetAssumption
     DEF Init, HistoryInv, GrantsKept, AppliesKept, PausesKept, InvalidKept

LEMMA GrantsStep ==
  ASSUME TypeOK, GrantsKept, [Next]_vars
  PROVE  GrantsKept'
<1> USE BudgetAssumption DEF TypeOK, Row, GrantsKept, LiveSlots, Since
<1>1. ASSUME NEW r \in Requests, AcquireGranted(r)
      PROVE  GrantsKept'
  <2>1. IsFiniteSet(grantLog')
    BY <1>1, FS_AddElement DEF AcquireGranted
  <2> QED
    BY <1>1, <2>1 DEF AcquireGranted
<1>2. CASE AcquireRefused
  BY <1>2 DEF AcquireRefused, Prune
<1>3. ASSUME NEW r \in Requests, NEW a \in Answers, ReportSeen(r, a)
      PROVE  GrantsKept'
  BY <1>3 DEF ReportSeen, Prune
<1>4. ASSUME NEW r \in Requests, NEW a \in Answers, ReportNew(r, a)
      PROVE  GrantsKept'
  BY <1>4 DEF ReportNew
<1>5. CASE ClearCredentialHalt
  BY <1>5 DEF ClearCredentialHalt
<1>6. CASE Tick
  BY <1>6 DEF Tick, tables
<1>7. CASE UNCHANGED vars
  BY <1>7 DEF vars, tables
<1> QED
  BY <1>1, <1>2, <1>3, <1>4, <1>5, <1>6, <1>7 DEF Next

LEMMA AppliesStep ==
  ASSUME TypeOK, AppliesKept, [Next]_vars
  PROVE  AppliesKept'
<1> USE BudgetAssumption DEF TypeOK, Row, AppliesKept, LiveProcessed, Since
<1>1. ASSUME NEW r \in Requests, AcquireGranted(r)
      PROVE  AppliesKept'
  BY <1>1 DEF AcquireGranted
<1>2. CASE AcquireRefused
  BY <1>2 DEF AcquireRefused, Prune
<1>3. ASSUME NEW r \in Requests, NEW a \in Answers, ReportSeen(r, a)
      PROVE  AppliesKept'
  BY <1>3 DEF ReportSeen, Prune
<1>4. ASSUME NEW r \in Requests, NEW a \in Answers, ReportNew(r, a)
      PROVE  AppliesKept'
  BY <1>4 DEF ReportNew
<1>5. CASE ClearCredentialHalt
  BY <1>5 DEF ClearCredentialHalt
<1>6. CASE Tick
  BY <1>6 DEF Tick, tables
<1>7. CASE UNCHANGED vars
  BY <1>7 DEF vars, tables
<1> QED
  BY <1>1, <1>2, <1>3, <1>4, <1>5, <1>6, <1>7 DEF Next

\* An answer never changes once it is known.
LEMMA AnswerFixed ==
  ASSUME TypeOK, NEW r \in Requests, NEW a \in Answers, Answered(r, a)
  PROVE  /\ answer'[r] = a
         /\ \A q \in Requests : answer[q] # Null => answer'[q] = answer[q]
  BY BudgetAssumption DEF TypeOK, Answered

LEMMA PauseEndType ==
  ASSUME NEW t \in Nat, NEW a \in Answers
  PROVE  PauseEnd(t, a) \in Nat
  BY BudgetAssumption DEF PauseEnd, Answer

LEMMA PausesStep ==
  ASSUME TypeOK, PausesKept, [Next]_vars
  PROVE  PausesKept'
<1> USE BudgetAssumption DEF TypeOK, Row, PausesKept
<1>1. ASSUME NEW r \in Requests, AcquireGranted(r)
      PROVE  PausesKept'
  BY <1>1 DEF AcquireGranted
<1>2. CASE AcquireRefused
  BY <1>2 DEF AcquireRefused
<1>3. ASSUME NEW r \in Requests, NEW a \in Answers, ReportSeen(r, a)
      PROVE  PausesKept'
  BY <1>3, AnswerFixed DEF ReportSeen
<1>4. ASSUME NEW r \in Requests, NEW a \in Answers, ReportNew(r, a)
      PROVE  PausesKept'
  <2>1. /\ answer'[r] = a
        /\ \A q \in Requests : answer[q] # Null => answer'[q] = answer[q]
    BY <1>4, AnswerFixed DEF ReportNew
  <2>2. PauseEnd(now, a) \in Nat
    BY PauseEndType
  <2>3. ASSUME PausesEverybody(a)
        PROVE  /\ globalRetryUntil' \in Nat
               /\ globalRetryUntil' >= PauseEnd(now, a)
               /\ globalRetryUntil # Null => globalRetryUntil' >= globalRetryUntil
    BY <1>4, <2>2, <2>3 DEF ReportNew, LaterPause, Larger
  <2>4. globalRetryUntil # Null =>
          globalRetryUntil' \in Nat /\ globalRetryUntil' >= globalRetryUntil
    BY <1>4, <2>3 DEF ReportNew
  <2>5. ASSUME NEW b \in applyLog'
        PROVE  /\ answer'[b.id] # Null
               /\ PausesEverybody(answer'[b.id]) =>
                    /\ globalRetryUntil' # Null
                    /\ globalRetryUntil' >= PauseEnd(b.ts, answer'[b.id])
    <3>1. CASE b = [id |-> r, ts |-> now]
      BY <3>1, <2>1, <2>3
    <3>2. CASE b \in applyLog
      <4>1. answer[b.id] \in Answers /\ answer'[b.id] = answer[b.id]
        BY <3>2, <2>1
      <4>2. PauseEnd(b.ts, answer[b.id]) \in Nat
        BY <4>1, <3>2, PauseEndType
      <4> QED
        BY <3>2, <4>1, <4>2, <2>4
    <3> QED
      BY <1>4, <2>5, <3>1, <3>2 DEF ReportNew
  <2> QED
    BY <2>5
<1>5. CASE ClearCredentialHalt
  BY <1>5 DEF ClearCredentialHalt
<1>6. CASE Tick
  BY <1>6 DEF Tick, tables
<1>7. CASE UNCHANGED vars
  BY <1>7 DEF vars, tables
<1> QED
  BY <1>1, <1>2, <1>3, <1>4, <1>5, <1>6, <1>7 DEF Next

LEMMA InvalidStep ==
  ASSUME TypeOK, PausesKept, InvalidKept, [Next]_vars
  PROVE  InvalidKept'
<1> USE BudgetAssumption DEF TypeOK, Row, PausesKept, InvalidKept, LiveInvalid, Since
<1>0. IsFiniteSet(LiveInvalid(now))
  BY FS_Subset
<1>1. ASSUME NEW r \in Requests, AcquireGranted(r)
      PROVE  InvalidKept'
  BY <1>0, <1>1 DEF AcquireGranted
<1>2. CASE AcquireRefused
  BY <1>0, <1>2 DEF AcquireRefused, Prune
<1>3. ASSUME NEW r \in Requests, NEW a \in Answers, ReportSeen(r, a)
      PROVE  InvalidKept'
  BY <1>0, <1>3, AnswerFixed DEF ReportSeen, Prune
<1>4. ASSUME NEW r \in Requests, NEW a \in Answers, ReportNew(r, a)
      PROVE  InvalidKept'
  <2>1. /\ answer'[r] = a
        /\ \A q \in Requests : answer[q] # Null => answer'[q] = answer[q]
    BY <1>4, AnswerFixed DEF ReportNew
  <2>2. IsFiniteSet(invalid')
    <3>1. IsFiniteSet(LiveInvalid(now) \cup {[id |-> r, ts |-> now]})
      BY <1>0, FS_AddElement
    <3> QED
      BY <1>0, <1>4, <3>1 DEF ReportNew
  <2>3. ASSUME NEW b \in applyLog', CountsAsInvalidRequest(answer'[b.id]),
               b.ts > now' - InvalidWindow
        PROVE  b \in invalid'
    <3>1. CASE b = [id |-> r, ts |-> now]
      BY <3>1, <2>1, <2>3, <1>4 DEF ReportNew
    <3>2. CASE b \in applyLog
      BY <3>2, <2>1, <2>3, <1>4 DEF ReportNew
    <3> QED
      BY <1>4, <2>3, <3>1, <3>2 DEF ReportNew
  <2> QED
    BY <2>2, <2>3
<1>5. CASE ClearCredentialHalt
  BY <1>5 DEF ClearCredentialHalt
<1>6. CASE Tick
  BY <1>6 DEF Tick, tables
<1>7. CASE UNCHANGED vars
  BY <1>7 DEF vars, tables
<1> QED
  BY <1>1, <1>2, <1>3, <1>4, <1>5, <1>6, <1>7 DEF Next

LEMMA HistoryKept == Spec => []HistoryInv
<1>1. TypeOK /\ HistoryInv /\ [Next]_vars => HistoryInv'
  BY GrantsStep, AppliesStep, PausesStep, InvalidStep DEF HistoryInv
<1> QED
  BY <1>1, HistoryInit, TypeCorrect, PTL DEF Spec

-----------------------------------------------------------------------------
(* The properties.                                                          *)

(* Re-sent reports: however often and whenever the same report_id arrives,  *)
(* report() applies it at most once per invalid-request window.             *)
THEOREM AppliedOncePerWindow == Spec => []OncePerWindow
<1> USE BudgetAssumption DEF TypeOK, Row, OncePerWindow
<1>1. Init => OncePerWindow
  BY DEF Init
<1>2. TypeOK /\ HistoryInv /\ OncePerWindow /\ [Next]_vars => OncePerWindow'
  <2> SUFFICES ASSUME TypeOK, HistoryInv, OncePerWindow, [Next]_vars
               PROVE  OncePerWindow'
    OBVIOUS
  <2>1. ASSUME NEW r \in Requests, NEW a \in Answers, ReportNew(r, a)
        PROVE  OncePerWindow'
    <3>1. \A b \in applyLog : b.id = r => b.ts <= now - InvalidWindow
      BY <2>1 DEF ReportNew, Seen, LiveProcessed, Since, HistoryInv, AppliesKept
    <3> QED
      BY <2>1, <3>1 DEF ReportNew
  <2>2. CASE applyLog' = applyLog
    BY <2>2
  <2> QED
    BY <2>1, <2>2 DEF Next, vars, AcquireGranted, AcquireRefused, ReportSeen,
                      ClearCredentialHalt, Tick
<1> QED
  BY <1>1, <1>2, TypeCorrect, HistoryKept, PTL DEF Spec

(* acquire() starts at most GlobalCeiling requests in every second of the   *)
(* history, wherever that second begins.                                    *)
THEOREM CeilingRespected == Spec => []CeilingInEveryWindow
<1> DEFINE Window(log, first) == {g \in log : /\ g.ts >= first.ts
                                              /\ g.ts < first.ts + Second}
<1> USE BudgetAssumption DEF TypeOK, Row
<1>1. Init => CeilingInEveryWindow
  BY DEF Init, CeilingInEveryWindow
<1>2. TypeOK /\ HistoryInv /\ CeilingInEveryWindow /\ [Next]_vars
        => CeilingInEveryWindow'
  <2> SUFFICES ASSUME TypeOK, HistoryInv, CeilingInEveryWindow, [Next]_vars
               PROVE  CeilingInEveryWindow'
    OBVIOUS
  <2>1. ASSUME NEW r \in Requests, AcquireGranted(r)
        PROVE  CeilingInEveryWindow'
    <3> DEFINE new == [id |-> r, ts |-> now]
    <3>1. IsFiniteSet(LiveSlots(now)) /\ LiveSlots(now) \subseteq grantLog
      BY FS_Subset DEF HistoryInv, GrantsKept, LiveSlots, Since
    <3>2. /\ Cardinality(LiveSlots(now)) \in Nat
          /\ Cardinality(LiveSlots(now)) < GlobalCeiling
      BY <2>1, <3>1, FS_CardinalityType
         DEF AcquireGranted, Decision, Refusal, CeilingRefuses
    <3>3. /\ IsFiniteSet(LiveSlots(now) \cup {new})
          /\ Cardinality(LiveSlots(now) \cup {new}) <= GlobalCeiling
          /\ Cardinality(LiveSlots(now) \cup {new}) \in Nat
      <4> HIDE DEF new
      <4>1. /\ IsFiniteSet(LiveSlots(now) \cup {new})
            /\ Cardinality(LiveSlots(now) \cup {new})
                 \in {Cardinality(LiveSlots(now)), Cardinality(LiveSlots(now)) + 1}
        BY <3>1, FS_AddElement
      <4> QED
        BY <3>2, <4>1
    <3>4. ASSUME NEW first \in grantLog'
          PROVE  Cardinality(Window(grantLog', first)) <= GlobalCeiling
      <4>1. CASE first.ts > now - Second
        <5>1. Window(grantLog', first) \subseteq LiveSlots(now) \cup {new}
          BY <2>1, <4>1, <3>4
             DEF AcquireGranted, HistoryInv, GrantsKept, LiveSlots, Since
        <5> QED
          <6>1. /\ IsFiniteSet(Window(grantLog', first))
                /\ Cardinality(Window(grantLog', first))
                     <= Cardinality(LiveSlots(now) \cup {new})
            BY <3>3, <5>1, FS_Subset
          <6>2. Cardinality(Window(grantLog', first)) \in Nat
            BY <6>1, FS_CardinalityType
          <6> QED
            BY <3>3, <6>1, <6>2
      <4>2. CASE ~(first.ts > now - Second)
        <5>1. first \in grantLog
          BY <2>1, <3>4, <4>2 DEF AcquireGranted
        <5>2. Window(grantLog', first) = Window(grantLog, first)
          BY <2>1, <4>2, <5>1 DEF AcquireGranted
        <5> QED
          BY <5>1, <5>2 DEF CeilingInEveryWindow
      <4> QED
        BY <4>1, <4>2
    <3> QED
      BY <3>4 DEF CeilingInEveryWindow
  <2>2. CASE grantLog' = grantLog
    BY <2>2 DEF CeilingInEveryWindow
  <2> QED
    BY <2>1, <2>2 DEF Next, vars, AcquireRefused, ReportSeen, ReportNew,
                      ClearCredentialHalt, Tick
<1> QED
  BY <1>1, <1>2, TypeCorrect, HistoryKept, PTL DEF Spec

(* Only AcquireGranted adds to the history of grants.                       *)
LEMMA GrantStep ==
  ASSUME [Next]_vars, grantLog' # grantLog
  PROVE  \E r \in Requests : AcquireGranted(r)
  BY DEF Next, vars, AcquireRefused, ReportSeen, ReportNew,
         ClearCredentialHalt, Tick

LEMMA GrantAfterPauses ==
  ASSUME TypeOK, HistoryInv, [Next]_vars, grantLog' # grantLog, NEW a \in PausesApplied
  PROVE  now >= PauseEnd(a.ts, answer[a.id])
<1>1. ~PauseRefuses(now)
  BY GrantStep DEF AcquireGranted, Decision, Refusal
<1>2. /\ a \in applyLog
      /\ answer[a.id] \in Answers
      /\ globalRetryUntil # Null
      /\ globalRetryUntil >= PauseEnd(a.ts, answer[a.id])
  BY DEF PausesApplied, HistoryInv, PausesKept, TypeOK, Row
<1>3. PauseEnd(a.ts, answer[a.id]) \in Nat
  BY <1>2, PauseEndType DEF TypeOK, Row
<1> QED
  BY <1>1, <1>2, <1>3 DEF PauseRefuses, TypeOK

(* Overlapping global pauses: a grant comes after the end of every pause    *)
(* that was ever reported, in whatever order and length they were.          *)
THEOREM PausesRespected == Spec => PauseHonoured
<1>1. TypeOK /\ HistoryInv /\ [Next]_vars =>
        [grantLog' # grantLog =>
           \A a \in PausesApplied : now >= PauseEnd(a.ts, answer[a.id])]_vars
  BY GrantAfterPauses
<1> QED
  BY <1>1, TypeCorrect, HistoryKept, PTL DEF Spec, PauseHonoured

(* A grant is given only while the invalid responses reported in the window *)
(* ending now are fewer than the safety threshold.                          *)
THEOREM InvalidBudgetRespected == Spec => InvalidBudgetHonoured
<1>1. TypeOK /\ HistoryInv /\ [Next]_vars =>
        [grantLog' # grantLog =>
           Cardinality(InvalidApplied(now)) < InvalidThreshold]_vars
  <2> SUFFICES ASSUME TypeOK, HistoryInv, [Next]_vars, grantLog' # grantLog
               PROVE  Cardinality(InvalidApplied(now)) < InvalidThreshold
    OBVIOUS
  <2>1. ~InvalidRefuses(now)
    BY GrantStep DEF AcquireGranted, Decision, Refusal
  <2>2. InvalidApplied(now) \subseteq LiveInvalid(now)
    BY DEF InvalidApplied, LiveInvalid, Since, HistoryInv, InvalidKept
  <2>3. IsFiniteSet(LiveInvalid(now))
    BY FS_Subset DEF LiveInvalid, Since, HistoryInv, InvalidKept
  <2>4. /\ Cardinality(LiveInvalid(now)) \in Nat
        /\ Cardinality(InvalidApplied(now)) \in Nat
        /\ Cardinality(InvalidApplied(now)) <= Cardinality(LiveInvalid(now))
    BY <2>2, <2>3, FS_Subset, FS_CardinalityType
  <2>5. InvalidThreshold \in Int
    BY BudgetAssumption DEF InvalidThreshold
  <2> QED
    BY <2>1, <2>4, <2>5 DEF InvalidRefuses
<1> QED
  BY <1>1, TypeCorrect, HistoryKept, PTL DEF Spec, InvalidBudgetHonoured

(* A refused Channel is told exactly how long to wait: after retry_after_ms *)
(* the ceiling or the pause it met is gone, one tick earlier it is not.     *)
THEOREM HintsAreExact == Spec => []RefusalHintExact
<1> USE BudgetAssumption
<1>1. ASSUME TypeOK, CeilingRefuses(now), GrantsKept, CeilingInEveryWindow
      PROVE  LET wait == Larger(1, Expiry(LiveSlots(now), Second, now))
             IN  CeilingRefuses(now + wait - 1) /\ ~ CeilingRefuses(now + wait)
  <2> DEFINE live   == LiveSlots(now)
             oldest == Min(Timestamps(live))
             wait   == Larger(1, Expiry(live, Second, now))
  <2>1. /\ now \in Nat /\ slots \subseteq grantLog
        /\ \A s \in slots : s.ts \in Nat /\ s.ts <= now
        /\ live \subseteq slots
        /\ \A s \in live : s.ts > now - Second
    BY <1>1 DEF TypeOK, Row, GrantsKept, LiveSlots, Since
  <2>2. IsFiniteSet(live) /\ Cardinality(live) \in Nat
    <3>1. live \in SUBSET grantLog
      BY <2>1
    <3> QED
      BY <1>1, <3>1, FS_Subset, FS_CardinalityType DEF GrantsKept
  <2>3. live # {}
    BY <1>1, <2>2, FS_EmptySet DEF CeilingRefuses
  <2>4. /\ oldest \in Timestamps(live)
        /\ \A t \in Timestamps(live) : oldest <= t
    <3>1. Timestamps(live) \in SUBSET Nat /\ Timestamps(live) # {}
      BY <2>1, <2>3 DEF Timestamps
    <3> QED
      BY <3>1, MinExists
  <2>5. PICK first \in live : first.ts = oldest
    BY <2>4 DEF Timestamps
  <2>6. \A s \in live : s.ts >= oldest
    BY <2>4 DEF Timestamps
  <2>7. oldest \in Nat /\ oldest <= now /\ oldest > now - Second
    BY <2>1, <2>5
  <2>8. wait = oldest + Second - now
    BY <2>1, <2>3, <2>7 DEF Expiry, Larger
  <2> HIDE DEF oldest, wait
  <2>9. LiveSlots(now + wait - 1) = live
    <3>1. (now + wait - 1) - Second = oldest - 1
      BY <2>1, <2>7, <2>8
    <3>2. \A s \in slots : s.ts > oldest - 1 <=> s.ts > now - Second
      <4> SUFFICES ASSUME NEW s \in slots
                   PROVE  s.ts > oldest - 1 <=> s.ts > now - Second
        OBVIOUS
      <4>1. s.ts > now - Second => s.ts >= oldest
        BY <2>6 DEF LiveSlots, Since
      <4> QED
        BY <2>1, <2>7, <4>1
    <3>3. \A s \in slots : s.ts > (now + wait - 1) - Second <=> s.ts > now - Second
      BY <3>1, <3>2
    <3> QED
      BY <3>3, Zenon DEF LiveSlots, Since
  <2>10. CeilingRefuses(now + wait - 1)
    BY <1>1, <2>9 DEF CeilingRefuses
  <2>11. LiveSlots(now + wait) \subseteq live \ {first}
    <3>1. (now + wait) - Second = oldest
      BY <2>1, <2>7, <2>8
    <3>2. \A s \in slots : s.ts > oldest => s.ts > now - Second /\ s # first
      BY <2>1, <2>5, <2>7
    <3>3. \A s \in slots :
            s.ts > (now + wait) - Second => s.ts > now - Second /\ s # first
      BY <3>1, <3>2
    <3> QED
      BY <3>3, Zenon DEF LiveSlots, Since
  <2>12. Cardinality(live) <= GlobalCeiling
    <3> DEFINE window == {g \in grantLog : /\ g.ts >= first.ts
                                           /\ g.ts < first.ts + Second}
    <3>1. live \subseteq window
      BY <2>1, <2>5, <2>6, <2>7
    <3>2. IsFiniteSet(window) /\ Cardinality(window) \in Nat
      BY <1>1, FS_Subset, FS_CardinalityType DEF GrantsKept
    <3>3. Cardinality(window) <= GlobalCeiling
      BY <1>1, <2>1 DEF CeilingInEveryWindow
    <3>4. Cardinality(live) <= Cardinality(window)
      BY <3>1, <3>2, FS_Subset
    <3> QED
      BY <2>2, <3>2, <3>3, <3>4
  <2>13. Cardinality(LiveSlots(now + wait)) < GlobalCeiling
    <3>1. /\ IsFiniteSet(live \ {first})
          /\ Cardinality(live \ {first}) = Cardinality(live) - 1
      BY <2>2, FS_RemoveElement
    <3>2. /\ Cardinality(LiveSlots(now + wait)) <= Cardinality(live \ {first})
          /\ IsFiniteSet(LiveSlots(now + wait))
      BY <2>11, <3>1, FS_Subset
    <3>3. Cardinality(LiveSlots(now + wait)) \in Nat
      BY <3>2, FS_CardinalityType
    <3> QED
      BY <2>2, <2>12, <3>1, <3>2, <3>3
  <2>14. ~ CeilingRefuses(now + wait)
    <3>1. Cardinality(LiveSlots(now + wait)) \in Nat
      BY <2>2, <2>11, FS_Subset, FS_RemoveElement, FS_CardinalityType
    <3> QED
      BY <2>13, <3>1 DEF CeilingRefuses
  <2> QED
    BY <2>10, <2>14 DEF wait
<1>2. ASSUME TypeOK, PauseRefuses(now)
      PROVE  /\ PauseRefuses(now + (globalRetryUntil - now) - 1)
             /\ ~ PauseRefuses(now + (globalRetryUntil - now))
  BY <1>2 DEF PauseRefuses, TypeOK
<1>3. TypeOK /\ GrantsKept /\ CeilingInEveryWindow => RefusalHintExact
  BY <1>1, <1>2 DEF RefusalHintExact, Decision, Refusal
<1>4. HistoryInv => GrantsKept
  BY DEF HistoryInv
<1> QED
  BY <1>3, <1>4, TypeCorrect, HistoryKept, CeilingRespected, PTL

-----------------------------------------------------------------------------
(* Types and composition.                                                   *)

ChannelRow == [state: ChannelState, request: Requests \cup {Null}, answer: Answers \cup {Null}]

\* A row is of the shape its state demands
Shaped(r) ==
    /\ r \in ChannelRow
    /\ IF r.state \in {"ready", "stopped"} THEN r = Idle(r.state) ELSE r.request \in Granted
    /\ r.answer \in IF r.state = "owing" THEN Answers ELSE {Null}

FleetInv == FleetTypeOK /\ channel \in [Channels -> ChannelRow]

(* A step of the fleet is a step of the Budget or none.                     *)
LEMMA StepOfBudget ==
  ASSUME FleetTypeOK, [FleetNext]_fleetVars
  PROVE  [Next]_vars
<1>1. ASSUME NEW c \in Channels, Report(c)
      PROVE  Next
  <2>1. channel[c].request \in Requests /\ channel[c].answer \in Answers
    BY <1>1 DEF Report, At, FleetTypeOK, TypeOK, Granted, Row
  <2> QED
    BY <1>1, <2>1 DEF Report, Next
<1>2. ASSUME NEW c \in Channels, Ask(c) \/ AskRefused(c)
      PROVE  Next
  BY <1>2 DEF Ask, AskRefused, Next
<1>3. ASSUME NEW c \in Channels,
             Send(c) \/ GiveUp(c) \/ StartRun(c) \/ \E a \in Answers : Reply(c, a)
      PROVE  UNCHANGED vars
  BY <1>3 DEF Send, GiveUp, StartRun, Reply
<1>4. ASSUME NEW r \in Requests, StrayArrives(r) \/ StrayAnswered(r)
      PROVE  UNCHANGED vars
  BY <1>4 DEF StrayArrives, StrayAnswered
<1> QED
  BY <1>1, <1>2, <1>3, <1>4 DEF FleetNext, fleetVars, Next

LEMMA IdleShaped ==
  ASSUME NEW state \in {"ready", "stopped"}
  PROVE  Shaped(Idle(state))' /\ Idle(state).request = Null /\ Idle(state).state = state
BY DEF Shaped, Idle, ChannelRow, ChannelState

(* A Channel moves to another row; the others keep theirs.                  *)
LEMMA RowReplaced ==
  ASSUME FleetInv, TypeOK', grantLog \subseteq grantLog',
         sentLog' \subseteq Row, heardLog' \subseteq Row,
         NEW c \in Channels, NEW r, channel' = [channel EXCEPT ![c] = r], Shaped(r)',
         r.request \in {channel[c].request, Null} \/ r.request \notin Granted,
         \/ astray' = astray
         \/ /\ astray' = astray \cup {channel[c].request} /\ channel[c].request \in Granted
            /\ r.request = Null
  PROVE  FleetInv'
<1>1. Granted \subseteq Granted'
  BY DEF Granted
<1>a. Null \notin Granted
  BY FleetAssumption DEF FleetInv, FleetTypeOK, TypeOK, Granted, Row
<1>2. channel' \in [Channels -> ChannelRow]
  BY DEF FleetInv, Shaped
<1>3. /\ channel'[c] = r
      /\ \A d \in Channels : d # c => channel'[d] = channel[d]
  BY DEF FleetInv
<1>4. \A d \in Channels : Shaped(channel[d])'
  <2>1. \A d \in Channels : Shaped(channel[d])
    BY DEF FleetInv, FleetTypeOK, Shaped
  <2> QED
    BY <1>1, <1>3, <2>1 DEF Shaped
<1>5. \A d, e \in Channels :
         d # e /\ channel'[d].request # Null => channel'[d].request # channel'[e].request
  <2>1. \A d \in Channels : channel[d].request \in Granted \cup {Null}
    BY DEF FleetInv, FleetTypeOK, Idle
  <2> QED
    BY <1>3, <2>1 DEF FleetInv, FleetTypeOK
<1>6. \A d \in Channels :
         /\ channel'[d].state \in ChannelState
         /\ IF channel'[d].state \in {"ready", "stopped"}
            THEN channel'[d] = Idle(channel'[d].state)
            ELSE channel'[d].request \in Granted'
         /\ channel'[d].answer \in IF channel'[d].state = "owing" THEN Answers ELSE {Null}
  BY <1>4 DEF Shaped, ChannelRow
<1>7. astray' \subseteq Granted' /\ \A d \in Channels : channel'[d].request \notin astray'
  <2>1. astray \subseteq Granted /\ \A d \in Channels : channel[d].request \notin astray
    BY DEF FleetInv, FleetTypeOK
  <2>2. \A d \in Channels :
           d # c /\ channel[c].request # Null => channel[d].request # channel[c].request
    BY DEF FleetInv, FleetTypeOK
  <2>3. astray' \subseteq Granted'
    BY <1>1, <2>1
  <2>4. r.request \notin astray'
    BY <1>a, <2>1
  <2>5. \A d \in Channels : d # c => channel'[d].request \notin astray'
    BY <1>3, <1>a, <2>1, <2>2
  <2> QED
    BY <1>3, <2>3, <2>4, <2>5
<1>8. FleetTypeOK'
  BY <1>5, <1>6, <1>7, Zenon DEF FleetTypeOK
<1> QED
  BY <1>2, <1>8 DEF FleetInv

(* The rows of a Channel on its way through a request.                      *)
LEMMA RowTypes ==
  ASSUME FleetInv, NEW c \in Channels
  PROVE  /\ channel[c] \in ChannelRow /\ Shaped(channel[c])
         /\ channel[c].state \notin {"ready", "stopped"} =>
               channel[c].request \in Granted /\ channel[c].request \in Requests
BY DEF FleetInv, FleetTypeOK, Shaped, Granted, TypeOK, Row

LEMMA FleetStepInv ==
  ASSUME FleetInv, [FleetNext]_fleetVars
  PROVE  FleetInv'
<1>0. TypeOK' /\ grantLog \subseteq grantLog'
  <2>1. TypeOK /\ [Next]_vars
    BY StepOfBudget DEF FleetInv, FleetTypeOK
  <2>2. TypeOK'
    BY <2>1, BudgetTypeStep
  <2>3. grantLog \subseteq grantLog'
    BY <2>1 DEF Next, vars, AcquireGranted, AcquireRefused, ReportSeen, ReportNew,
       ClearCredentialHalt, Tick
  <2> QED
    BY <2>2, <2>3
<1>a. /\ sentLog \subseteq Row /\ heardLog \subseteq Row /\ now \in Nat
  BY DEF FleetInv, FleetTypeOK, TypeOK
<1>1. ASSUME NEW c \in Channels, Ask(c)
      PROVE  FleetInv'
  <2>1. PICK r \in Requests :
           /\ AcquireGranted(r)
           /\ channel' = [channel EXCEPT ![c] =
                            [state |-> "granted", request |-> r, answer |-> Null]]
    BY <1>1 DEF Ask
  <2>2. r \notin Granted /\ r \in Granted'
    <3>1. r \notin Granted /\ grantLog' = grantLog \cup {[id |-> r, ts |-> now]}
      BY <2>1 DEF AcquireGranted
    <3>2. [id |-> r, ts |-> now].id = r
      OBVIOUS
    <3> QED
      BY <3>1, <3>2, Zenon DEF Granted
  <2>3. PICK row : row = [state |-> "granted", request |-> r, answer |-> Null]
    OBVIOUS
  <2>4. Shaped(row)' /\ row.request \notin Granted
    <3>1. /\ row.state = "granted" /\ row.request = r /\ row.answer = Null
          /\ row \in ChannelRow
      BY <2>3 DEF ChannelRow, ChannelState
    <3> QED
      BY <2>2, <3>1 DEF Shaped
  <2>5. channel' = [channel EXCEPT ![c] = row]
    BY <2>1, <2>3
  <2>6. sentLog' \subseteq Row /\ heardLog' \subseteq Row /\ astray' = astray
    BY <1>a, <1>1 DEF Ask
  <2> QED
    BY <1>0, <2>4, <2>5, <2>6, RowReplaced
<1>2. ASSUME NEW c \in Channels, AskRefused(c)
      PROVE  FleetInv'
  <2>1. PICK state \in {"ready", "stopped"} : channel' = [channel EXCEPT ![c] = Idle(state)]
    BY <1>2 DEF AskRefused
  <2> QED
    BY <1>0, <1>a, <1>2, <2>1, IdleShaped, RowReplaced DEF AskRefused
<1>3. ASSUME NEW c \in Channels, Send(c)
      PROVE  FleetInv'
  <2>1. channel[c].request \in Requests /\ sentLog' \subseteq Row
    BY <1>a, <1>3, RowTypes DEF Send, Stamped, At, Row
  <2>2. PICK r : r = [channel[c] EXCEPT !.state = "sent"]
    OBVIOUS
  <2>3. Shaped(r)' /\ r.request = channel[c].request
    BY <1>0, <1>3, <2>2, RowTypes DEF Send, At, Shaped, ChannelRow, ChannelState, Granted
  <2>4. channel' = [channel EXCEPT ![c] = r]
    BY <1>3, <2>2 DEF Send, FleetInv
  <2> QED
    BY <1>0, <1>a, <1>3, <2>1, <2>3, <2>4, RowReplaced DEF Send
<1>4. ASSUME NEW c \in Channels, NEW a \in Answers, Reply(c, a)
      PROVE  FleetInv'
  <2>1. channel[c].request \in Requests /\ heardLog' \subseteq Row
    BY <1>a, <1>4, RowTypes DEF Reply, Heard, Stamped, At, Row
  <2>2. PICK r : r = IF SafetyCritical(a) THEN [channel[c] EXCEPT !.state = "owing", !.answer = a]
                     ELSE Idle("ready")
    OBVIOUS
  <2>3. Shaped(r)' /\ r.request \in {channel[c].request, Null}
    <3>1. CASE SafetyCritical(a)
      <4>1. channel[c] \in ChannelRow /\ channel[c].request \in Granted
        BY <1>4, RowTypes DEF Reply, At
      <4>2. r = [channel[c] EXCEPT !.state = "owing", !.answer = a]
        BY <2>2, <3>1
      <4>3. /\ r \in ChannelRow /\ r.state = "owing" /\ r.answer = a
            /\ r.request = channel[c].request
        BY <4>1, <4>2 DEF ChannelRow, ChannelState
      <4> QED
        BY <1>0, <4>1, <4>3 DEF Shaped, Granted
    <3>2. CASE ~ SafetyCritical(a)
      BY <2>2, <3>2, IdleShaped
    <3> QED
      BY <3>1, <3>2
  <2>4. channel' = [channel EXCEPT ![c] = r]
    BY <1>4, <2>2 DEF Reply
  <2> QED
    BY <1>0, <1>a, <1>4, <2>1, <2>3, <2>4, RowReplaced DEF Reply
<1>5. ASSUME NEW c \in Channels, GiveUp(c)
      PROVE  FleetInv'
  <2>1. channel[c].request \in Granted
    BY <1>5, RowTypes DEF GiveUp, At
  <2>2. UNCHANGED <<sentLog, heardLog>>
    BY <1>5 DEF GiveUp
  <2> QED
    BY <1>0, <1>a, <1>5, <2>1, <2>2, IdleShaped, RowReplaced DEF GiveUp
<1>6. ASSUME NEW c \in Channels, Report(c)
      PROVE  FleetInv'
  <2>1. CASE UNCHANGED channel
    BY <1>0, <1>a, <1>6, <2>1 DEF Report, FleetInv, FleetTypeOK, Granted
  <2>2. CASE channel' = [channel EXCEPT ![c] = Deferred(channel[c].answer)]
    <3>1. PICK state \in {"ready", "stopped"} : channel' = [channel EXCEPT ![c] = Idle(state)]
      BY <2>2 DEF Deferred
    <3> QED
      BY <1>0, <1>a, <1>6, <3>1, IdleShaped, RowReplaced DEF Report
  <2> QED
    BY <1>6, <2>1, <2>2 DEF Report
<1>7. ASSUME NEW c \in Channels, StartRun(c)
      PROVE  FleetInv'
  BY <1>0, <1>a, <1>7, IdleShaped, RowReplaced DEF StartRun
<1>8. CASE UNCHANGED fleet
  BY <1>0, <1>8 DEF fleet, FleetInv, FleetTypeOK, Granted
<1>9. ASSUME NEW r \in Requests, StrayArrives(r) \/ StrayAnswered(r)
      PROVE  FleetInv'
  <2>1. sentLog' \subseteq Row /\ heardLog' \subseteq Row
    BY <1>a, <1>9 DEF StrayArrives, StrayAnswered, Stamped, Row
  <2>2. UNCHANGED <<channel, astray, grantLog>>
    BY <1>9 DEF StrayArrives, StrayAnswered, vars
  <2> QED
    BY <1>0, <2>1, <2>2 DEF FleetInv, FleetTypeOK, Granted
<1> QED
  BY <1>1, <1>2, <1>3, <1>4, <1>5, <1>6, <1>7, <1>8, <1>9 DEF FleetNext, fleetVars

LEMMA FleetInvariant == FleetSpec => []FleetInv
<1>1. FleetInit => FleetInv
  <2> SUFFICES ASSUME FleetInit
               PROVE  FleetInv
    OBVIOUS
  <2>1. TypeOK
    BY BudgetTypeInit DEF FleetInit
  <2>2. Idle("ready") \in ChannelRow
    BY DEF Idle, ChannelRow, ChannelState
  <2> QED
    BY <2>1, <2>2 DEF FleetInit, FleetInv, FleetTypeOK, Idle, ChannelState
<1> QED
  BY <1>1, FleetStepInv, PTL DEF FleetSpec

(* Every Channel, and what Discord sees of it, keeps its type; no two       *)
(* Channels ever work on one request.                                       *)
THEOREM FleetTypeCorrect == FleetSpec => []FleetTypeOK
BY FleetInvariant, PTL DEF FleetInv

(* The Budget of the fleet behaves as HttpBudget does with callers that ask *)
(* and report as they like.                                                 *)
THEOREM FleetUsesBudget == FleetSpec => Spec
<1>1. FleetInit => Init
  BY DEF FleetInit
<1>2. FleetInv /\ [FleetNext]_fleetVars => [Next]_vars
  BY StepOfBudget DEF FleetInv
<1> QED
  BY <1>1, <1>2, FleetInvariant, PTL DEF FleetSpec, Spec

-----------------------------------------------------------------------------
(* Halts and pauses.                                                        *)

(* A request is granted once; no grant is later than a halt that stands;    *)
(* and none lies between the report of a pause and the end of the pause.    *)
GrantsStop ==
    /\ \A g, h \in grantLog : g.id = h.id => g = h
    /\ credentialHaltAt # Null => \A g \in grantLog : g.ts <= credentialHaltAt
    /\ \A a \in PausesApplied : \A g \in grantLog :
          g.ts <= a.ts \/ g.ts >= PauseEnd(a.ts, answer[a.id])

LEMMA GrantsStopStep ==
  ASSUME TypeOK, HistoryInv, GrantsStop, [Next]_vars
  PROVE  GrantsStop'
<1>1. now \in Nat /\ \A g \in grantLog : g.ts \in Nat /\ g.ts <= now
  BY DEF HistoryInv, GrantsKept, TypeOK, Row
<1>2. ASSUME NEW r \in Requests, AcquireGranted(r)
      PROVE  GrantsStop'
  <2> DEFINE new == [id |-> r, ts |-> now]
  <2>1. /\ grantLog' = grantLog \cup {new} /\ r \notin Granted /\ ~ HaltRefuses
        /\ UNCHANGED <<credentialHaltAt, answer, applyLog>>
    BY <1>2 DEF AcquireGranted, Decision, Refusal
  <2>2. \A g \in grantLog : g.id # r
    BY <2>1, Zenon DEF Granted
  <2>3. grantLog' # grantLog
    <3>1. new.id = r
      OBVIOUS
    <3> QED
      BY <2>1, <2>2, <3>1
  <2>4. \A a \in PausesApplied : now >= PauseEnd(a.ts, answer[a.id])
    BY <2>3, GrantAfterPauses
  <2>5. PausesApplied' = PausesApplied
    BY <2>1 DEF PausesApplied
  <2> QED
    BY <2>1, <2>2, <2>4, <2>5 DEF GrantsStop, HaltRefuses
<1>3. ASSUME NEW r \in Requests, NEW a \in Answers, ReportNew(r, a)
      PROVE  GrantsStop'
  <2>1. /\ UNCHANGED grantLog
        /\ applyLog' = applyLog \cup {[id |-> r, ts |-> now]}
        /\ credentialHaltAt' = IF a.status = 401 THEN now ELSE credentialHaltAt
    BY <1>3 DEF ReportNew
  <2>2. \A b \in applyLog : answer'[b.id] = answer[b.id]
    BY <1>3, AnswerFixed DEF ReportNew, HistoryInv, PausesKept, TypeOK, Row
  <2>3. ASSUME NEW b \in PausesApplied', NEW g \in grantLog
        PROVE  g.ts <= b.ts \/ g.ts >= PauseEnd(b.ts, answer'[b.id])
    <3>1. CASE b \in applyLog
      BY <2>2, <2>3, <3>1 DEF PausesApplied, GrantsStop
    <3>2. CASE b \notin applyLog
      BY <1>1, <2>1, <2>3, <3>2 DEF PausesApplied
    <3> QED
      BY <3>1, <3>2
  <2> QED
    BY <1>1, <2>1, <2>3 DEF GrantsStop
<1>4. ASSUME NEW r \in Requests, NEW a \in Answers, ReportSeen(r, a)
      PROVE  GrantsStop'
  <2>1. UNCHANGED <<grantLog, applyLog, credentialHaltAt>>
    BY <1>4 DEF ReportSeen
  <2>2. \A b \in applyLog : answer'[b.id] = answer[b.id]
    BY <1>4, AnswerFixed DEF ReportSeen, HistoryInv, PausesKept, TypeOK, Row
  <2> QED
    BY <2>1, <2>2 DEF GrantsStop, PausesApplied
<1>5. CASE AcquireRefused \/ Tick \/ UNCHANGED vars
  BY <1>5 DEF AcquireRefused, Tick, vars, tables, GrantsStop, PausesApplied
<1>6. CASE ClearCredentialHalt
  BY <1>6 DEF ClearCredentialHalt, GrantsStop, PausesApplied
<1> QED
  BY <1>2, <1>3, <1>4, <1>5, <1>6 DEF Next

LEMMA GrantsStopInvariant == Spec => [](TypeOK /\ HistoryInv /\ GrantsStop)
<1>1. Init => GrantsStop
  BY DEF Init, GrantsStop, PausesApplied
<1> QED
  BY <1>1, GrantsStopStep, TypeCorrect, HistoryKept, PTL DEF Spec

LEMMA GrantIsUnique ==
  ASSUME GrantsStop, NEW r \in Granted
  PROVE  \E g \in grantLog : g.id = r /\ GrantedAt(r) = g.ts
<1>1. PICK g \in grantLog : g.id = r
  BY DEF Granted
<1>2. (CHOOSE h \in grantLog : h.id = r) = g
  BY <1>1 DEF GrantsStop
<1> QED
  BY <1>1, <1>2 DEF GrantedAt

(* A 401 or a global 429 that reached the Budget stops every Channel: what  *)
(* still goes out was granted before (acquire, report).                     *)
THEOREM StopsAreGlobal == FleetSpec => StopsReachFleet
<1>1. ASSUME FleetInv, TypeOK, HistoryInv, GrantsStop, [FleetNext]_fleetVars,
             NEW x \in sentLog' \ sentLog
      PROVE  /\ HaltRefuses => GrantedAt(x.id) <= credentialHaltAt
             /\ \A a \in PausesApplied :
                  now < PauseEnd(a.ts, answer[a.id]) => GrantedAt(x.id) <= a.ts
  <2>1. (\E c \in Channels : Send(c)) \/ (\E r \in Requests : StrayArrives(r))
    BY <1>1 DEF FleetNext, fleetVars, fleet, Ask, AskRefused, Reply, GiveUp, StrayAnswered,
       Report, StartRun
  <2>2. x.id \in Granted
    <3>1. ASSUME NEW c \in Channels, Send(c)
          PROVE  x.id \in Granted
      BY <1>1, <3>1, RowTypes DEF Send, Stamped, At
    <3>2. ASSUME NEW r \in Requests, StrayArrives(r)
          PROVE  x.id \in Granted
      BY <1>1, <3>2 DEF StrayArrives, Stamped, FleetInv, FleetTypeOK
    <3> QED
      BY <2>1, <3>1, <3>2
  <2>3. PICK g \in grantLog : GrantedAt(x.id) = g.ts
    BY <1>1, <2>2, GrantIsUnique
  <2>4. g.ts \in Nat /\ g.ts <= now /\ now \in Nat
    BY <1>1 DEF HistoryInv, GrantsKept, TypeOK, Row
  <2>5. ASSUME NEW a \in PausesApplied, now < PauseEnd(a.ts, answer[a.id])
        PROVE  g.ts <= a.ts
    <3>1. a \in applyLog /\ answer[a.id] \in Answers /\ a.ts \in Nat
      BY <1>1 DEF PausesApplied, HistoryInv, PausesKept, TypeOK, Row
    <3>2. PauseEnd(a.ts, answer[a.id]) \in Nat
      BY <3>1, PauseEndType
    <3> QED
      BY <1>1, <2>4, <2>5, <3>1, <3>2 DEF GrantsStop
  <2> QED
    BY <1>1, <2>3, <2>5 DEF GrantsStop, HaltRefuses
<1>2. FleetInv /\ TypeOK /\ HistoryInv /\ GrantsStop /\ [FleetNext]_fleetVars =>
        [\A x \in sentLog' \ sentLog :
          /\ HaltRefuses => GrantedAt(x.id) <= credentialHaltAt
          /\ \A a \in PausesApplied :
                now < PauseEnd(a.ts, answer[a.id]) => GrantedAt(x.id) <= a.ts]_fleetVars
  BY <1>1
<1> QED
  BY <1>2, FleetInvariant, FleetUsesBudget, GrantsStopInvariant, PTL DEF FleetSpec, StopsReachFleet

-----------------------------------------------------------------------------
(* What Discord counts.                                                     *)

UnderWay(c) == At(c, "granted") \/ At(c, "sent")
Busy == {c \in Channels : UnderWay(c)}

(* A request is sent once, after it was granted.                            *)
SentInv ==
    /\ IsFiniteSet(sentLog)
    /\ \A x \in sentLog : /\ x.ts <= now
                          /\ \E g \in grantLog : g.id = x.id /\ g.ts <= x.ts
    /\ \A x, y \in sentLog : x.id = y.id => x = y
    /\ \A c \in Channels : At(c, "granted") => \A x \in sentLog : x.id # channel[c].request

(* An answer is heard once, applied after it was heard, and counted for     *)
(* what it is; one to a request that was given up is never applied.         *)
HeardInv ==
    /\ IsFiniteSet(heardLog)
    /\ processed \subseteq applyLog
    /\ \A x \in heardLog \cup applyLog : x.ts <= now /\ x.id \in Granted
    /\ \A x, y \in heardLog : x.id = y.id => x = y
    /\ \A c \in Busy : \A x \in heardLog \cup applyLog : x.id # channel[c].request
    /\ \A x \in heardLog :
          /\ \A a \in applyLog :
                a.id = x.id => a.ts >= x.ts /\ CountsAsInvalidRequest(answer[a.id])
          /\ \A c \in Channels :
                At(c, "owing") /\ channel[c].request = x.id =>
                   CountsAsInvalidRequest(channel[c].answer)
    /\ \A r \in astray : \A a \in applyLog : a.id # r

(* No two Channels hold one request, and none holds one it gave up.         *)
LEMMA RequestsApart ==
  ASSUME FleetInv, NEW c \in Channels, channel[c].state \notin {"ready", "stopped"}
  PROVE  /\ channel[c].request \in Granted /\ channel[c].request \in Requests
         /\ channel[c].request \notin astray
         /\ \A d \in Channels : d # c => channel[d].request # channel[c].request
<1>1. /\ channel[c].request \in Granted
      /\ channel[c].request \in Requests /\ channel[c].request # Null
  BY RowTypes, FleetAssumption
<1> QED
  BY <1>1 DEF FleetInv, FleetTypeOK

(* Sending begins with a grant and ends with Send, or StrayArrives; no      *)
(* other step adds a grant, a send, or a Channel that may send.             *)
LEMMA SendingStep ==
  ASSUME FleetInv, [FleetNext]_fleetVars
  PROVE  \/ \E c \in Channels : Ask(c) \/ Send(c)
         \/ \E r \in Requests : StrayArrives(r)
         \/ /\ UNCHANGED <<sentLog, grantLog>> /\ now' >= now /\ astray \subseteq astray'
            /\ \A c \in Channels : At(c, "granted")' => channel'[c] = channel[c]
<1> DEFINE Quiet == /\ UNCHANGED <<sentLog, grantLog>> /\ now' >= now
                    /\ astray \subseteq astray'
                    /\ \A c \in Channels : At(c, "granted")' => channel'[c] = channel[c]
<1>0. now \in Nat /\ channel \in [Channels -> ChannelRow]
  BY DEF FleetInv, FleetTypeOK, TypeOK
<1>1. ASSUME NEW c \in Channels, NEW r, channel' = [channel EXCEPT ![c] = r],
             r.state # "granted", UNCHANGED <<sentLog, grantLog, now>>, astray \subseteq astray'
      PROVE  Quiet
  <2>1. \A d \in Channels : At(d, "granted")' => channel'[d] = channel[d]
    BY <1>0, <1>1 DEF At
  <2> QED
    BY <1>0, <1>1, <2>1
<1>2. \A state : Idle(state).state = state
  BY DEF Idle
<1>3. ASSUME NEW c \in Channels, AskRefused(c)
      PROVE  Quiet
  <2>1. PICK state \in {"ready", "stopped"} : channel' = [channel EXCEPT ![c] = Idle(state)]
    BY <1>3 DEF AskRefused
  <2> QED
    BY <1>1, <1>2, <1>3, <2>1 DEF AskRefused, AcquireRefused
<1>4. ASSUME NEW c \in Channels, NEW a \in Answers, Reply(c, a)
      PROVE  Quiet
  <2>1. PICK r : /\ channel' = [channel EXCEPT ![c] = r]
                 /\ r = IF SafetyCritical(a) THEN [channel[c] EXCEPT !.state = "owing", !.answer = a]
                        ELSE Idle("ready")
    BY <1>0, <1>4 DEF Reply
  <2>2. r.state # "granted"
    BY <1>0, <2>1 DEF Idle, ChannelRow
  <2> QED
    BY <1>1, <1>4, <2>1, <2>2 DEF Reply, vars
<1>5. ASSUME NEW c \in Channels, GiveUp(c) \/ StartRun(c)
      PROVE  Quiet
  BY <1>1, <1>2, <1>5 DEF GiveUp, StartRun, vars
<1>6. ASSUME NEW c \in Channels, Report(c)
      PROVE  Quiet
  <2>1. UNCHANGED <<sentLog, grantLog, now, astray>>
    BY <1>6 DEF Report, ReportNew, ReportSeen
  <2>2. channel' = channel \/ channel' = [channel EXCEPT ![c] = Deferred(channel[c].answer)]
    BY <1>6 DEF Report
  <2>3. Deferred(channel[c].answer).state # "granted"
    BY <1>2 DEF Deferred
  <2> QED
    BY <1>0, <1>1, <2>1, <2>2, <2>3
<1>7. CASE UNCHANGED fleet /\ (ClearCredentialHalt \/ Tick \/ UNCHANGED vars)
  BY <1>0, <1>7 DEF fleet, ClearCredentialHalt, Tick, vars
<1>8. ASSUME NEW r \in Requests, StrayAnswered(r)
      PROVE  Quiet
  BY <1>0, <1>8 DEF StrayAnswered, vars
<1> QED
  BY <1>3, <1>4, <1>5, <1>6, <1>7, <1>8 DEF FleetNext, fleetVars

(* What Ask does to the Channel and to the Budget.                          *)
LEMMA AskStep ==
  ASSUME FleetInv, NEW c \in Channels, Ask(c)
  PROVE  /\ At(c, "ready")
         /\ \E r \in Requests :
              /\ AcquireGranted(r)
              /\ r \notin Granted /\ grantLog' = grantLog \cup {[id |-> r, ts |-> now]}
              /\ channel'[c].state = "granted" /\ channel'[c].request = r
         /\ \A d \in Channels : d # c => channel'[d] = channel[d]
         /\ Granted \subseteq Granted'
         /\ UNCHANGED <<now, applyLog, answer, sentLog, heardLog, astray>>
BY DEF Ask, AcquireGranted, FleetInv, Granted

(* What Send does: the request goes out, once.                              *)
LEMMA SendStep ==
  ASSUME FleetInv, NEW c \in Channels, Send(c)
  PROVE  /\ At(c, "granted")
         /\ sentLog' = sentLog \cup {[id |-> channel[c].request, ts |-> now]}
         /\ channel'[c] = [channel[c] EXCEPT !.state = "sent"]
         /\ channel'[c].state = "sent"
         /\ \A d \in Channels : d # c => channel'[d] = channel[d]
         /\ \A d \in Channels : d # c => channel[d].request # channel[c].request
         /\ channel[c].request \in Granted /\ channel[c].request \notin astray
         /\ UNCHANGED <<now, grantLog, applyLog, answer, heardLog, astray>>
<1>1. /\ channel[c].request \in Granted /\ channel[c].request \notin astray
      /\ \A d \in Channels : d # c => channel[d].request # channel[c].request
  BY RequestsApart DEF Send, At
<1>2. channel[c] \in ChannelRow /\ channel \in [Channels -> ChannelRow]
  BY DEF FleetInv
<1> QED
  BY <1>1, <1>2 DEF Send, Stamped, vars, ChannelRow

LEMMA SentStep ==
  ASSUME FleetInv, HistoryInv, SentInv, [FleetNext]_fleetVars
  PROVE  SentInv'
<1>0. /\ now \in Nat /\ now' \in Nat /\ sentLog \subseteq Row /\ grantLog \subseteq Row
  BY FleetStepInv DEF FleetInv, FleetTypeOK, TypeOK
<1>1. ASSUME NEW c \in Channels, Ask(c)
      PROVE  SentInv'
  <2>1. PICK r \in Requests : /\ r \notin Granted
                              /\ grantLog' = grantLog \cup {[id |-> r, ts |-> now]}
                              /\ channel'[c].request = r
    BY <1>1, AskStep
  <2>2. \A x \in sentLog : x.id # r
    BY <2>1 DEF SentInv, Granted
  <2> QED
    BY <1>1, <2>1, <2>2, AskStep DEF SentInv, At
<1>2. ASSUME NEW c \in Channels, Send(c)
      PROVE  SentInv'
  <2> DEFINE x == [id |-> channel[c].request, ts |-> now]
  <2>1. /\ At(c, "granted") /\ sentLog' = sentLog \cup {x} /\ UNCHANGED <<now, grantLog>>
    BY <1>2, SendStep
  <2>2. PICK g \in grantLog : g.id = channel[c].request
    <3>1. channel[c].request \in Granted
      BY <1>2, SendStep
    <3> QED
      BY <3>1, Zenon DEF Granted
  <2>3. g.id = x.id /\ g.ts <= x.ts /\ x.ts = now
    BY <2>2 DEF HistoryInv, GrantsKept
  <2>4. \A y \in sentLog : y.id # x.id
    BY <2>1 DEF SentInv
  <2>5. \A d \in Channels : At(d, "granted")' =>
           At(d, "granted") /\ channel'[d].request = channel[d].request /\ channel[d].request # x.id
    BY <1>2, SendStep DEF At
  <2>6. IsFiniteSet(sentLog')
    BY <2>1, FS_AddElement DEF SentInv
  <2> HIDE DEF x
  <2> QED
    BY <1>0, <2>1, <2>2, <2>3, <2>4, <2>5, <2>6 DEF SentInv
<1>3. CASE /\ UNCHANGED <<sentLog, grantLog>> /\ now' >= now /\ astray \subseteq astray'
           /\ \A c \in Channels : At(c, "granted")' => channel'[c] = channel[c]
  BY <1>0, <1>3 DEF SentInv, At, Row
<1>4. ASSUME NEW r \in Requests, StrayArrives(r)
      PROVE  SentInv'
  <2> DEFINE x == [id |-> r, ts |-> now]
  <2>1. /\ r \in astray /\ sentLog' = sentLog \cup {x} /\ UNCHANGED <<now, grantLog, channel>>
        /\ \A y \in sentLog : y.id # x.id
    BY <1>4 DEF StrayArrives, Stamped, vars
  <2>2. PICK g \in grantLog : g.id = r
    <3>1. r \in Granted
      BY <2>1 DEF FleetInv, FleetTypeOK
    <3> QED
      BY <3>1, Zenon DEF Granted
  <2>3. g.id = x.id /\ g.ts <= x.ts /\ x.ts = now
    BY <2>2 DEF HistoryInv, GrantsKept
  <2>4. \A d \in Channels : channel[d].request # x.id
    BY <2>1 DEF FleetInv, FleetTypeOK
  <2>5. IsFiniteSet(sentLog')
    BY <2>1, FS_AddElement DEF SentInv
  <2> HIDE DEF x
  <2> QED
    BY <1>0, <2>1, <2>2, <2>3, <2>4, <2>5 DEF SentInv, At
<1> QED
  BY <1>1, <1>2, <1>3, <1>4, SendingStep

(* Hearing begins with a grant and ends with Report; no other step but an   *)
(* answer adds to what is heard, applied or owed.                           *)
LEMMA HearingStep ==
  ASSUME FleetInv, [FleetNext]_fleetVars
  PROVE  \/ \E c \in Channels : Ask(c) \/ Report(c)
         \/ \E c \in Channels, a \in Answers :
              /\ At(c, "sent") /\ Heard(c, a)
              /\ UNCHANGED <<now, processed, applyLog, answer, grantLog, astray>>
              /\ \A d \in Channels : d # c => channel'[d] = channel[d]
              /\ At(c, "owing")'
              /\ channel'[c].request = channel[c].request /\ channel'[c].answer = a
         \/ \E r \in Requests : StrayAnswered(r)
         \/ /\ UNCHANGED <<heardLog, applyLog, answer, grantLog>>
            /\ processed' \subseteq processed /\ now' >= now /\ astray \subseteq astray'
            /\ \A r \in astray' \ astray : \E c \in Busy : r = channel[c].request
            /\ \A c \in Channels : At(c, "owing") \/ At(c, "owing")' => channel'[c] = channel[c]
            /\ \A c \in Busy' : c \in Busy /\ channel'[c].request = channel[c].request
<1> DEFINE Answer1(c, a) ==
             /\ At(c, "sent") /\ Heard(c, a)
             /\ UNCHANGED <<now, processed, applyLog, answer, grantLog, astray>>
             /\ \A d \in Channels : d # c => channel'[d] = channel[d]
             /\ At(c, "owing")'
             /\ channel'[c].request = channel[c].request /\ channel'[c].answer = a
           Quiet ==
             /\ UNCHANGED <<heardLog, applyLog, answer, grantLog>>
             /\ processed' \subseteq processed /\ now' >= now /\ astray \subseteq astray'
             /\ \A r \in astray' \ astray : \E c \in Busy : r = channel[c].request
             /\ \A c \in Channels : At(c, "owing") \/ At(c, "owing")' => channel'[c] = channel[c]
             /\ \A c \in Busy' : c \in Busy /\ channel'[c].request = channel[c].request
<1>0. now \in Nat /\ channel \in [Channels -> ChannelRow]
  BY DEF FleetInv, FleetTypeOK, TypeOK
<1>1. ASSUME NEW c \in Channels, NEW state \in {"ready", "stopped"}, ~ At(c, "owing"),
             channel' = [channel EXCEPT ![c] = Idle(state)],
             UNCHANGED <<heardLog, applyLog, answer, grantLog>>,
             processed' \subseteq processed, now' = now,
             astray' = astray \/ (c \in Busy /\ astray' = astray \cup {channel[c].request})
      PROVE  Quiet
  <2>1. \A r \in astray' \ astray : \E d \in Busy : r = channel[d].request
    BY <1>1
  <2>2. channel'[c] = Idle(state) /\ \A d \in Channels : d # c => channel'[d] = channel[d]
    BY <1>0, <1>1
  <2>3. ~ At(c, "owing")' /\ c \notin Busy'
    BY <2>2 DEF Idle, Busy, UnderWay, At
  <2>4. \A d \in Busy' : d \in Busy /\ channel'[d].request = channel[d].request
    BY <2>2, <2>3 DEF Busy, UnderWay, At
  <2> QED
    BY <1>0, <1>1, <2>1, <2>2, <2>3, <2>4 DEF At
<1>2. ASSUME NEW c \in Channels, AskRefused(c)
      PROVE  Quiet
  <2>1. PICK state \in {"ready", "stopped"} : channel' = [channel EXCEPT ![c] = Idle(state)]
    BY <1>2 DEF AskRefused
  <2> QED
    BY <1>1, <1>2, <2>1 DEF AskRefused, AcquireRefused, Prune, LiveProcessed, Since, At
<1>3. ASSUME NEW c \in Channels, Send(c)
      PROVE  Quiet
  <2>1. UNCHANGED <<heardLog, applyLog, answer, grantLog, astray, now, processed>>
    BY <1>3 DEF Send, vars, tables
  <2>2. channel' = [channel EXCEPT ![c].state = "sent"] /\ At(c, "granted")
    BY <1>3 DEF Send
  <2>3. channel'[c].state = "sent" /\ channel'[c].request = channel[c].request
    BY <1>0, <2>2 DEF ChannelRow
  <2>4. \A d \in Channels : d # c => channel'[d] = channel[d]
    BY <1>0, <2>2
  <2>5. \A d \in Busy' : d \in Busy /\ channel'[d].request = channel[d].request
    BY <2>2, <2>3, <2>4 DEF Busy, UnderWay, At
  <2> QED
    BY <1>0, <2>1, <2>2, <2>3, <2>4, <2>5 DEF At
<1>4. ASSUME NEW c \in Channels, NEW a \in Answers, Reply(c, a)
      PROVE  Quiet \/ Answer1(c, a)
  <2>1. /\ UNCHANGED <<now, processed, applyLog, answer, grantLog, astray>>
        /\ At(c, "sent") /\ Heard(c, a)
    BY <1>4 DEF Reply, vars, tables
  <2>2. CASE SafetyCritical(a)
    <3>1. channel' = [channel EXCEPT ![c] = [@ EXCEPT !.state = "owing", !.answer = a]]
      BY <1>4, <2>2 DEF Reply
    <3>2. /\ channel'[c].state = "owing" /\ channel'[c].request = channel[c].request
          /\ channel'[c].answer = a
          /\ \A d \in Channels : d # c => channel'[d] = channel[d]
      BY <1>0, <3>1 DEF ChannelRow
    <3> QED
      BY <2>1, <3>2 DEF At
  <2>3. CASE ~ SafetyCritical(a)
    <3>1. channel' = [channel EXCEPT ![c] = Idle("ready")]
      BY <1>4, <2>3 DEF Reply
    <3>2. UNCHANGED heardLog /\ ~ At(c, "owing")
      BY <2>1, <2>3 DEF Heard, SafetyCritical, CountsAsInvalidRequest, At
    <3> QED
      BY <1>1, <2>1, <3>1, <3>2
  <2> QED
    BY <2>2, <2>3
<1>5. ASSUME NEW c \in Channels, GiveUp(c)
      PROVE  Quiet
  <2>1. /\ UNCHANGED <<now, processed, applyLog, answer, grantLog, heardLog>>
        /\ channel' = [channel EXCEPT ![c] = Idle("ready")] /\ ~ At(c, "owing")
        /\ astray' = astray \cup {channel[c].request} /\ c \in Busy
    BY <1>5 DEF GiveUp, vars, tables, At, Busy, UnderWay
  <2> QED
    BY <1>1, <2>1
<1>6. ASSUME NEW c \in Channels, StartRun(c)
      PROVE  Quiet
  BY <1>1, <1>6 DEF StartRun, vars, tables, At
<1>7. ASSUME UNCHANGED fleet, ClearCredentialHalt \/ Tick \/ UNCHANGED vars
      PROVE  Quiet
  <2>1. /\ UNCHANGED <<heardLog, applyLog, answer, grantLog, astray, processed, channel>>
        /\ now' >= now
    BY <1>0, <1>7 DEF fleet, ClearCredentialHalt, Tick, vars, tables
  <2> QED
    BY <2>1 DEF Busy, UnderWay, At
<1>8. \/ \E c \in Channels : \/ Ask(c) \/ Report(c) \/ Send(c)
                              \/ AskRefused(c) \/ GiveUp(c) \/ StartRun(c)
      \/ \E c \in Channels, a \in Answers : Reply(c, a)
      \/ \E r \in Requests : StrayArrives(r) \/ StrayAnswered(r)
      \/ UNCHANGED fleet /\ (ClearCredentialHalt \/ Tick \/ UNCHANGED vars)
  BY DEF FleetNext, fleetVars
<1>10. ASSUME NEW r \in Requests, StrayArrives(r)
       PROVE  Quiet
  <2>1. UNCHANGED <<heardLog, applyLog, answer, grantLog, astray, processed, channel, now>>
    BY <1>10 DEF StrayArrives, vars, tables
  <2> QED
    BY <1>0, <2>1 DEF Busy, UnderWay, At
<1> HIDE DEF Quiet, Answer1
<1>9. \/ \E c \in Channels : Ask(c) \/ Report(c)
      \/ \E c \in Channels, a \in Answers : Answer1(c, a)
      \/ \E r \in Requests : StrayAnswered(r)
      \/ Quiet
  BY <1>2, <1>3, <1>4, <1>5, <1>6, <1>7, <1>8, <1>10
<1> QED
  BY <1>9 DEF Quiet, Answer1

(* What Report does: the answer is applied now, or was since it was heard.  *)
LEMMA ReportStep ==
  ASSUME FleetInv, NEW c \in Channels, Report(c)
  PROVE  LET r == channel[c].request
             a == channel[c].answer
         IN  /\ At(c, "owing") /\ r \in Granted /\ r \in Requests /\ a \in Answers
             /\ answer'[r] = a
             /\ \A q \in Requests : answer[q] # Null => answer'[q] = answer[q]
             /\ applyLog \subseteq applyLog'
             /\ applyLog' \subseteq applyLog \cup {[id |-> r, ts |-> now]}
             /\ processed' \subseteq processed \cup applyLog'
             /\ \/ [id |-> r, ts |-> now] \in applyLog'
                \/ \E row \in processed : row.id = r
             /\ Granted' = Granted
             /\ UNCHANGED <<now, grantLog, heardLog, astray>>
             /\ r \notin astray
             /\ \A d \in Channels : d # c => channel'[d] = channel[d]
             /\ Busy' = Busy
             /\ \A d \in Channels : At(d, "owing")' => channel'[d] = channel[d]
<1> DEFINE r == channel[c].request
           a == channel[c].answer
<1>0. TypeOK /\ channel \in [Channels -> ChannelRow]
  BY DEF FleetInv, FleetTypeOK
<1>1. /\ At(c, "owing") /\ r \in Granted /\ r \in Requests /\ a \in Answers
      /\ r \notin astray
  BY RowTypes DEF Report, At, Shaped, FleetInv, FleetTypeOK
<1>2. ReportNew(r, a) \/ ReportSeen(r, a)
  BY DEF Report
<1>3. /\ answer'[r] = a
      /\ \A q \in Requests : answer[q] # Null => answer'[q] = answer[q]
  BY <1>0, <1>1, <1>2, AnswerFixed DEF ReportNew, ReportSeen
<1>4. channel' = channel \/ channel' = [channel EXCEPT ![c] = Deferred(a)]
  BY DEF Report
<1>5. /\ \A d \in Channels : d # c => channel'[d] = channel[d]
      /\ Busy' = Busy
      /\ \A d \in Channels : At(d, "owing")' => channel'[d] = channel[d]
  BY <1>0, <1>1, <1>4 DEF Deferred, Idle, Busy, UnderWay, At
<1> HIDE DEF r, a
<1>6. /\ UNCHANGED <<now, grantLog>> /\ Granted' = Granted
      /\ applyLog \subseteq applyLog'
      /\ applyLog' \subseteq applyLog \cup {[id |-> r, ts |-> now]}
      /\ processed' \subseteq processed \cup applyLog'
      /\ [id |-> r, ts |-> now] \in applyLog' \/ \E row \in processed : row.id = r
  BY <1>2 DEF ReportNew, ReportSeen, Seen, Prune, LiveProcessed, Since, Granted
<1>7. UNCHANGED <<heardLog, astray>>
  BY DEF Report
<1> QED
  BY <1>1, <1>3, <1>5, <1>6, <1>7 DEF r, a

LEMMA HeardStep ==
  ASSUME FleetInv, HistoryInv, HeardInv, [FleetNext]_fleetVars
  PROVE  HeardInv'
<1>0. /\ now \in Nat /\ now' \in Nat /\ heardLog \subseteq Row /\ applyLog \subseteq Row
  BY FleetStepInv DEF FleetInv, FleetTypeOK, TypeOK
<1>1. ASSUME NEW c \in Channels, Ask(c)
      PROVE  HeardInv'
  <2>1. PICK r \in Requests : /\ r \notin Granted /\ processed' \subseteq processed
                              /\ channel'[c].state = "granted" /\ channel'[c].request = r
    BY <1>1, AskStep DEF AcquireGranted, LiveProcessed, Since
  <2>2. \A x \in heardLog \cup applyLog : x.id # r
    BY <2>1 DEF HeardInv
  <2> QED
    BY <1>1, <2>1, <2>2, AskStep DEF HeardInv, Busy, UnderWay, At
<1>2. ASSUME NEW c \in Channels, NEW a \in Answers, At(c, "sent"), Heard(c, a),
             UNCHANGED <<now, processed, applyLog, answer, grantLog, astray>>,
             \A d \in Channels : d # c => channel'[d] = channel[d],
             At(c, "owing")',
             channel'[c].request = channel[c].request, channel'[c].answer = a
      PROVE  HeardInv'
  <2> DEFINE x == [id |-> channel[c].request, ts |-> now]
  <2>1. /\ Granted' = Granted
        /\ heardLog' \in {heardLog, heardLog \cup {x}}
        /\ x \in heardLog' => CountsAsInvalidRequest(a) \/ x \in heardLog
    BY <1>2 DEF Heard, Stamped, Granted
  <2>2. /\ x.id \in Granted /\ x.ts = now /\ x.id = channel[c].request
        /\ \A d \in Channels : d # c => channel[d].request # x.id
    BY <1>2, RequestsApart DEF At
  <2>3. \A y \in heardLog \cup applyLog : y.id # x.id
    BY <1>2, <2>2 DEF HeardInv, Busy, UnderWay
  <2>4. IsFiniteSet(heardLog')
    BY <2>1, FS_AddElement DEF HeardInv
  <2> HIDE DEF x
  <2>5. /\ \A y \in heardLog' \cup applyLog' : y.ts <= now' /\ y.id \in Granted'
        /\ \A y, z \in heardLog' : y.id = z.id => y = z
    BY <1>0, <1>2, <2>1, <2>2, <2>3 DEF HeardInv
  <2>6. \A d \in Busy' : d \in Busy /\ d # c
    BY <1>2 DEF Busy, UnderWay, At
  <2>7. \A d \in Busy' : \A y \in heardLog' \cup applyLog' : y.id # channel'[d].request
    BY <1>2, <2>1, <2>2, <2>6 DEF HeardInv, Busy
  <2>8. \A y \in heardLog', b \in applyLog' :
           b.id = y.id => b.ts >= y.ts /\ CountsAsInvalidRequest(answer'[b.id])
    BY <1>2, <2>1, <2>3 DEF HeardInv
  <2>9. \A y \in heardLog', d \in Channels :
           At(d, "owing")' /\ channel'[d].request = y.id =>
              CountsAsInvalidRequest(channel'[d].answer)
    BY <1>2, <2>1, <2>2, <2>3 DEF HeardInv, At
  <2>10. processed' \subseteq applyLog' /\ \A r \in astray' : \A b \in applyLog' : b.id # r
    BY <1>2 DEF HeardInv
  <2> QED
    BY <2>4, <2>5, <2>7, <2>8, <2>9, <2>10, Zenon DEF HeardInv
<1>3. ASSUME NEW c \in Channels, Report(c)
      PROVE  HeardInv'
  <2> DEFINE r == channel[c].request
             a == channel[c].answer
             row == [id |-> r, ts |-> now]
  <2>1. /\ At(c, "owing") /\ r \in Granted /\ r \notin astray
        /\ answer'[r] = a
        /\ \A q \in Requests : answer[q] # Null => answer'[q] = answer[q]
        /\ UNCHANGED <<now, grantLog, heardLog, astray>> /\ Granted' = Granted
        /\ applyLog \subseteq applyLog' /\ applyLog' \subseteq applyLog \cup {row}
        /\ processed' \subseteq processed \cup applyLog'
        /\ \A d \in Channels : d # c => channel'[d] = channel[d]
        /\ Busy' = Busy
        /\ \A d \in Channels : At(d, "owing")' => channel'[d] = channel[d]
    BY <1>3, ReportStep
  <2>2. \A d \in Channels : d # c => channel[d].request # r
    BY <2>1, RequestsApart DEF At
  <2>3. row.id = r /\ row.ts = now
    OBVIOUS
  <2>4. \A y \in heardLog : y.id = r => CountsAsInvalidRequest(a)
    BY <2>1 DEF HeardInv
  <2> HIDE DEF r, a, row
  <2>5. \A y \in applyLog' : y.ts <= now /\ y.id \in Granted
    BY <1>0, <2>1, <2>3 DEF HeardInv
  <2>6. \A d \in Busy : channel'[d] = channel[d] /\ channel[d].request # r
    BY <2>1, <2>2 DEF Busy, UnderWay, At
  <2>7. \A d \in Busy' : \A y \in heardLog' \cup applyLog' : y.id # channel'[d].request
    BY <2>1, <2>3, <2>6 DEF HeardInv
  <2>8. ASSUME NEW y \in heardLog, NEW b \in applyLog', b.id = y.id
        PROVE  b.ts >= y.ts /\ CountsAsInvalidRequest(answer'[b.id])
    <3>1. CASE b \in applyLog
      <4>1. b.id \in Requests /\ answer[b.id] # Null
        BY <1>0, <3>1 DEF HistoryInv, PausesKept, Row
      <4> QED
        BY <2>1, <2>8, <3>1, <4>1 DEF HeardInv
    <3>2. CASE b = row
      BY <2>1, <2>3, <2>4, <2>8, <3>2 DEF HeardInv
    <3> QED
      BY <2>1, <2>8, <3>1, <3>2
  <2>9. \A y \in heardLog, d \in Channels :
            At(d, "owing")' /\ channel'[d].request = y.id =>
               CountsAsInvalidRequest(channel'[d].answer)
    BY <2>1 DEF HeardInv, At
  <2>10. processed' \subseteq applyLog' /\ \A q \in astray' : \A b \in applyLog' : b.id # q
    BY <2>1, <2>3 DEF HeardInv
  <2> QED
    BY <2>1, <2>5, <2>7, <2>8, <2>9, <2>10 DEF HeardInv
<1>4. CASE /\ UNCHANGED <<heardLog, applyLog, answer, grantLog>>
           /\ processed' \subseteq processed /\ now' >= now /\ astray \subseteq astray'
           /\ \A r \in astray' \ astray : \E c \in Busy : r = channel[c].request
           /\ \A c \in Channels : At(c, "owing") \/ At(c, "owing")' => channel'[c] = channel[c]
           /\ \A c \in Busy' : c \in Busy /\ channel'[c].request = channel[c].request
  <2>1. \A r \in astray' : \A a \in applyLog : a.id # r
    BY <1>4 DEF HeardInv
  <2> QED
    BY <1>0, <1>4, <2>1 DEF HeardInv, At, Granted, Row
<1>5. ASSUME NEW r \in Requests, StrayAnswered(r)
      PROVE  HeardInv'
  <2> DEFINE x == [id |-> r, ts |-> now]
  <2>1. /\ heardLog' = heardLog \cup {x} /\ r \in astray
        /\ \A y \in heardLog : y.id # x.id
        /\ UNCHANGED <<now, processed, applyLog, answer, grantLog, channel, astray>>
    BY <1>5 DEF StrayAnswered, Stamped, vars, tables
  <2>2. /\ x.id = r /\ x.ts = now /\ x.id \in Granted /\ Granted' = Granted /\ Busy' = Busy
        /\ \A d \in Channels : channel[d].request # x.id
    BY <2>1 DEF FleetInv, FleetTypeOK, Granted, Busy, UnderWay, At
  <2>3. \A b \in applyLog : b.id # x.id
    BY <2>1, <2>2 DEF HeardInv
  <2>4. IsFiniteSet(heardLog')
    BY <2>1, FS_AddElement DEF HeardInv
  <2> HIDE DEF x
  <2>5. /\ \A y \in heardLog' \cup applyLog' : y.ts <= now' /\ y.id \in Granted'
        /\ \A y, z \in heardLog' : y.id = z.id => y = z
    BY <1>0, <2>1, <2>2 DEF HeardInv
  <2>6. \A d \in Busy' : \A y \in heardLog' \cup applyLog' : y.id # channel'[d].request
    BY <2>1, <2>2 DEF HeardInv, Busy
  <2>7. \A y \in heardLog', b \in applyLog' :
           b.id = y.id => b.ts >= y.ts /\ CountsAsInvalidRequest(answer'[b.id])
    BY <2>1, <2>3 DEF HeardInv
  <2>8. \A y \in heardLog', d \in Channels :
           At(d, "owing")' /\ channel'[d].request = y.id =>
              CountsAsInvalidRequest(channel'[d].answer)
    BY <2>1, <2>2 DEF HeardInv, At
  <2>9. processed' \subseteq applyLog' /\ \A q \in astray' : \A b \in applyLog' : b.id # q
    BY <2>1 DEF HeardInv
  <2> QED
    BY <2>4, <2>5, <2>6, <2>7, <2>8, <2>9, Zenon DEF HeardInv
<1> QED
  BY <1>1, <1>2, <1>3, <1>4, <1>5, HearingStep

-----------------------------------------------------------------------------
(* The ceiling.                                                             *)

GrantedBefore(r, t) == \E g \in grantLog : g.id = r /\ g.ts < t

(* Granted before t, sent at t or later, and not given up; and granted      *)
(* before t, still to be sent.                                              *)
SentLate(t) == {x \in sentLog : x.ts >= t /\ GrantedBefore(x.id, t) /\ x.id \notin astray}
StillToSend(t) == {c \in Channels : At(c, "granted") /\ GrantedBefore(channel[c].request, t)}

(* From any time on each Channel sends at most one request that was granted *)
(* before and that it does not give up.                                     *)
LateInv ==
    \A t \in Nat :
        Cardinality(SentLate(t)) + Cardinality(StillToSend(t)) <= Cardinality(Channels)

LEMMA LateStep ==
  ASSUME FleetInv, SentInv, LateInv, [FleetNext]_fleetVars
  PROVE  LateInv'
<1>0. /\ now \in Nat /\ sentLog \subseteq Row /\ grantLog \subseteq Row
      /\ IsFiniteSet(sentLog) /\ IsFiniteSet(Channels)
  BY FleetAssumption DEF FleetInv, FleetTypeOK, TypeOK, SentInv
<1> SUFFICES ASSUME NEW t \in Nat
             PROVE  Cardinality(SentLate(t)') + Cardinality(StillToSend(t)')
                      <= Cardinality(Channels)
  BY DEF LateInv
<1>1. /\ IsFiniteSet(SentLate(t)) /\ Cardinality(SentLate(t)) \in Nat
      /\ IsFiniteSet(StillToSend(t)) /\ Cardinality(StillToSend(t)) \in Nat
      /\ Cardinality(Channels) \in Nat
      /\ Cardinality(SentLate(t)) + Cardinality(StillToSend(t)) <= Cardinality(Channels)
  <2>1. SentLate(t) \subseteq sentLog /\ StillToSend(t) \subseteq Channels
    BY DEF SentLate, StillToSend
  <2> QED
    BY <1>0, <2>1, CountSubset DEF LateInv
<1>2. ASSUME SentLate(t)' \subseteq SentLate(t), StillToSend(t)' \subseteq StillToSend(t)
      PROVE  Cardinality(SentLate(t)') + Cardinality(StillToSend(t)') <= Cardinality(Channels)
  <2>1. /\ Cardinality(SentLate(t)') \in Nat
        /\ Cardinality(SentLate(t)') <= Cardinality(SentLate(t))
    BY <1>1, <1>2, CountSubset
  <2>2. /\ Cardinality(StillToSend(t)') \in Nat
        /\ Cardinality(StillToSend(t)') <= Cardinality(StillToSend(t))
    BY <1>1, <1>2, CountSubset
  <2> QED
    BY <1>1, <2>1, <2>2
<1>3. ASSUME NEW c \in Channels, Ask(c)
      PROVE  Cardinality(SentLate(t)') + Cardinality(StillToSend(t)') <= Cardinality(Channels)
  <2>1. PICK r \in Requests :
           /\ r \notin Granted /\ grantLog' = grantLog \cup {[id |-> r, ts |-> now]}
           /\ channel'[c].state = "granted" /\ channel'[c].request = r
    BY <1>3, AskStep
  <2>2. /\ UNCHANGED <<sentLog, astray>>
        /\ \A d \in Channels : d # c => channel'[d] = channel[d]
    BY <1>3, AskStep
  <2>3. CASE now < t
    <3>1. SentLate(t)' = {}
      BY <1>0, <2>2, <2>3 DEF SentLate, SentInv, Row
    <3>2. Cardinality(SentLate(t)') = 0
      BY <3>1, FS_EmptySet
    <3>3. StillToSend(t)' \subseteq Channels
      BY DEF StillToSend
    <3> QED
      BY <1>0, <3>2, <3>3, CountSubset
  <2>4. CASE ~ (now < t)
    <3>1. \A q : GrantedBefore(q, t)' = GrantedBefore(q, t)
      BY <1>0, <2>1, <2>4 DEF GrantedBefore
    <3>2. SentLate(t)' \subseteq SentLate(t)
      BY <2>2, <3>1 DEF SentLate
    <3>3. ~ GrantedBefore(r, t)
      BY <2>1 DEF GrantedBefore, Granted
    <3>4. StillToSend(t)' \subseteq StillToSend(t)
      BY <2>1, <2>2, <3>1, <3>3 DEF StillToSend, At
    <3> QED
      BY <1>2, <3>2, <3>4
  <2> QED
    BY <2>3, <2>4
<1>4. ASSUME NEW c \in Channels, Send(c)
      PROVE  Cardinality(SentLate(t)') + Cardinality(StillToSend(t)') <= Cardinality(Channels)
  <2> DEFINE x == [id |-> channel[c].request, ts |-> now]
  <2>1. /\ At(c, "granted") /\ sentLog' = sentLog \cup {x}
        /\ channel'[c].state = "sent" /\ UNCHANGED <<grantLog, astray>>
        /\ channel[c].request \notin astray
        /\ \A d \in Channels : d # c => channel'[d] = channel[d]
    BY <1>4, SendStep
  <2>2. \A q : GrantedBefore(q, t)' = GrantedBefore(q, t)
    BY <2>1 DEF GrantedBefore
  <2>3. StillToSend(t)' \subseteq StillToSend(t) \ {c}
    BY <2>1, <2>2 DEF StillToSend, At
  <2>4. x.id = channel[c].request
    OBVIOUS
  <2> HIDE DEF x
  <2>5. CASE x \in SentLate(t)'
    <3>1. c \in StillToSend(t)
      BY <2>1, <2>2, <2>4, <2>5 DEF SentLate, StillToSend
    <3>2. SentLate(t)' \subseteq SentLate(t) \cup {x}
      BY <2>1, <2>2 DEF SentLate
    <3>3. /\ IsFiniteSet(SentLate(t) \cup {x})
          /\ Cardinality(SentLate(t) \cup {x}) \in Nat
          /\ Cardinality(SentLate(t) \cup {x}) <= Cardinality(SentLate(t)) + 1
          /\ IsFiniteSet(StillToSend(t) \ {c})
          /\ Cardinality(StillToSend(t) \ {c}) = Cardinality(StillToSend(t)) - 1
      BY <1>1, <3>1, CountElement
    <3>4. /\ Cardinality(SentLate(t)') \in Nat
          /\ Cardinality(SentLate(t)') <= Cardinality(SentLate(t) \cup {x})
      BY <3>2, <3>3, CountSubset
    <3>5. /\ Cardinality(StillToSend(t)') \in Nat
          /\ Cardinality(StillToSend(t)') <= Cardinality(StillToSend(t) \ {c})
      BY <2>3, <3>3, CountSubset
    <3> QED
      BY <1>1, <3>3, <3>4, <3>5
  <2>6. CASE x \notin SentLate(t)'
    <3>1. SentLate(t)' \subseteq SentLate(t)
      BY <2>1, <2>2, <2>6 DEF SentLate
    <3> QED
      BY <1>2, <2>3, <3>1
  <2> QED
    BY <2>5, <2>6
<1>5. CASE /\ UNCHANGED <<sentLog, grantLog>> /\ now' >= now /\ astray \subseteq astray'
           /\ \A c \in Channels : At(c, "granted")' => channel'[c] = channel[c]
  <2>1. \A q : GrantedBefore(q, t)' = GrantedBefore(q, t)
    BY <1>5 DEF GrantedBefore
  <2>2. SentLate(t)' \subseteq SentLate(t) /\ StillToSend(t)' \subseteq StillToSend(t)
    BY <1>5, <2>1 DEF SentLate, StillToSend, At
  <2> QED
    BY <1>2, <2>2
<1>6. ASSUME NEW r \in Requests, StrayArrives(r)
      PROVE  Cardinality(SentLate(t)') + Cardinality(StillToSend(t)') <= Cardinality(Channels)
  <2>1. /\ r \in astray /\ sentLog' = sentLog \cup {[id |-> r, ts |-> now]}
        /\ UNCHANGED <<grantLog, channel, astray>>
    BY <1>6 DEF StrayArrives, Stamped, vars
  <2>2. \A q : GrantedBefore(q, t)' = GrantedBefore(q, t)
    BY <2>1 DEF GrantedBefore
  <2>3. SentLate(t)' \subseteq SentLate(t) /\ StillToSend(t)' \subseteq StillToSend(t)
    BY <2>1, <2>2 DEF SentLate, StillToSend, At
  <2> QED
    BY <1>2, <2>3
<1> QED
  BY <1>3, <1>4, <1>5, <1>6, SendingStep

(* The grants of a second are not more than the ceiling, wherever it        *)
(* begins: also where no grant is.                                          *)
LEMMA CeilingFromAnyTime ==
  ASSUME TypeOK, GrantsKept, CeilingInEveryWindow, NEW t \in Nat
  PROVE  LET granted == {g \in grantLog : g.ts >= t /\ g.ts < t + Second}
         IN  IsFiniteSet(granted) /\ Cardinality(granted) <= GlobalCeiling
<1> DEFINE granted == {g \in grantLog : g.ts >= t /\ g.ts < t + Second}
<1> USE BudgetAssumption
<1>0. grantLog \subseteq Row /\ IsFiniteSet(grantLog)
  BY DEF TypeOK, GrantsKept
<1>1. IsFiniteSet(granted)
  BY <1>0, CountSubset
<1>2. CASE granted = {}
  BY <1>1, <1>2, FS_EmptySet
<1>3. CASE granted # {}
  <2>1. PICK first \in granted : \A g \in granted : first.ts <= g.ts
    <3> DEFINE times == {g.ts : g \in granted}
    <3>1. times \in SUBSET Nat /\ times # {}
      BY <1>0, <1>3 DEF Row
    <3>2. Min(times) \in times /\ \A u \in times : Min(times) <= u
      BY <3>1, MinExists
    <3>3. PICK first \in granted : first.ts = Min(times)
      BY <3>2
    <3> QED
      BY <3>2, <3>3
  <2> DEFINE window == {g \in grantLog : g.ts >= first.ts /\ g.ts < first.ts + Second}
  <2>2. granted \subseteq window
    BY <1>0, <2>1 DEF Row
  <2>3. Cardinality(window) <= GlobalCeiling
    BY DEF CeilingInEveryWindow
  <2>4. /\ Cardinality(granted) \in Nat /\ Cardinality(window) \in Nat
        /\ Cardinality(granted) <= Cardinality(window)
    <3>1. IsFiniteSet(window)
      BY <1>0, CountSubset
    <3> QED
      BY <2>2, <3>1, CountSubset
  <2> QED
    BY <1>1, <2>3, <2>4
<1> QED
  BY <1>2, <1>3

LEMMA CeilingWithLate ==
  ASSUME TypeOK, FleetInv, HistoryInv, GrantsStop, CeilingInEveryWindow, SentInv, LateInv
  PROVE  CeilingAtDiscord
<1> USE BudgetAssumption
<1>0. /\ sentLog \subseteq Row /\ grantLog \subseteq Row /\ IsFiniteSet(sentLog)
      /\ IsFiniteSet(Channels)
  BY FleetAssumption DEF FleetInv, FleetTypeOK, TypeOK, SentInv
<1> SUFFICES ASSUME NEW first \in sentLog
             PROVE  LET seen == Within(sentLog, first, Second)
                        older == {x \in seen : GrantedAt(x.id) < first.ts}
                    IN  /\ Cardinality(seen \ older) <= GlobalCeiling
                        /\ Cardinality(older \ Strays(older)) <= Cardinality(Channels)
  BY DEF CeilingAtDiscord
<1>1. PICK t \in Nat : t = first.ts
  BY <1>0 DEF Row
<1> DEFINE granted == {g \in grantLog : g.ts >= t /\ g.ts < t + Second}
           seen    == Within(sentLog, first, Second)
           fresh   == {x \in seen : ~ GrantedBefore(x.id, t)}
           older   == {x \in seen : GrantedAt(x.id) < first.ts}
<1>2. IsFiniteSet(granted) /\ Cardinality(granted) <= GlobalCeiling
  BY CeilingFromAnyTime DEF HistoryInv
<1>3. IsFiniteSet(fresh) /\ Cardinality(fresh) \in Nat /\ Cardinality(fresh) <= GlobalCeiling
  <2> DEFINE R == {p \in fresh \X granted : p[1].id = p[2].id}
  <2>1. ASSUME NEW x \in fresh
        PROVE  \E g \in granted : <<x, g>> \in R
    <3>1. x \in sentLog /\ x.ts < t + Second /\ ~ GrantedBefore(x.id, t)
      BY <1>1 DEF Within
    <3>2. PICK g \in grantLog : g.id = x.id /\ g.ts <= x.ts
      BY <3>1 DEF SentInv
    <3>3. ~ (g.ts < t)
      BY <3>1, <3>2 DEF GrantedBefore
    <3>4. g \in granted
      BY <1>0, <3>1, <3>2, <3>3 DEF Row
    <3> QED
      BY <3>2, <3>4
  <2>2. \A x, z \in fresh : \A g \in granted : <<x, g>> \in R /\ <<z, g>> \in R => x = z
    BY DEF SentInv, Within
  <2>3. /\ IsFiniteSet(fresh) /\ Cardinality(fresh) \in Nat /\ Cardinality(granted) \in Nat
        /\ Cardinality(fresh) <= Cardinality(granted)
    <3> HIDE DEF R, fresh, granted
    <3> QED
      BY <1>2, <2>1, <2>2, CountOneToOne
  <2> QED
    BY <1>2, <2>3
<1>4. /\ IsFiniteSet(SentLate(t)) /\ Cardinality(SentLate(t)) \in Nat
      /\ Cardinality(SentLate(t)) <= Cardinality(Channels)
  <2>1. IsFiniteSet(SentLate(t)) /\ Cardinality(SentLate(t)) \in Nat
    <3>1. SentLate(t) \subseteq sentLog
      BY DEF SentLate
    <3> QED
      BY <1>0, <3>1, CountSubset
  <2>2. Cardinality(StillToSend(t)) \in Nat /\ Cardinality(Channels) \in Nat
    <3>1. StillToSend(t) \subseteq Channels
      BY DEF StillToSend
    <3> QED
      BY <1>0, <3>1, CountSubset
  <2> QED
    BY <2>1, <2>2 DEF LateInv
<1>5. ASSUME NEW x \in seen
      PROVE  GrantedBefore(x.id, t) <=> GrantedAt(x.id) < first.ts
  <2>1. PICK g \in grantLog : g.id = x.id
    BY DEF SentInv, Within
  <2>2. PICK h \in grantLog : h.id = x.id /\ GrantedAt(x.id) = h.ts
    BY <2>1, GrantIsUnique DEF Granted
  <2>3. \A k \in grantLog : k.id = x.id => k = h
    BY <2>2 DEF GrantsStop
  <2> QED
    BY <1>1, <2>2, <2>3 DEF GrantedBefore
<1>6. seen \ older = fresh
  BY <1>5
<1>7. older \ Strays(older) \subseteq SentLate(t)
  BY <1>1, <1>5 DEF Within, Strays, SentLate
<1>8. Cardinality(older \ Strays(older)) <= Cardinality(Channels)
  <2>1. Cardinality(Channels) \in Nat
    BY <1>0, FS_CardinalityType
  <2>2. /\ Cardinality(older \ Strays(older)) \in Nat
        /\ Cardinality(older \ Strays(older)) <= Cardinality(SentLate(t))
    <3> HIDE DEF older
    <3> QED
      BY <1>4, <1>7, CountSubset
  <2> QED
    BY <1>4, <2>1, <2>2
<1> QED
  BY <1>3, <1>6, <1>8

-----------------------------------------------------------------------------
(* The invalid-request budget.                                              *)

Applied(x) == \E a \in applyLog : a.id = x.id
Owed(x) == \E c \in Channels : At(c, "owing") /\ channel[c].request = x.id

(* What was heard is applied, or will be, or answers a request given up.    *)
AccountedInv == \A x \in heardLog : Applied(x) \/ Owed(x) \/ x.id \in astray

LEMMA AccountedStep ==
  ASSUME FleetInv, HeardInv, AccountedInv, [FleetNext]_fleetVars
  PROVE  AccountedInv'
<1>1. ASSUME NEW c \in Channels, Ask(c)
      PROVE  AccountedInv'
  <2>1. /\ UNCHANGED <<heardLog, applyLog, astray>> /\ At(c, "ready")
        /\ \A d \in Channels : d # c => channel'[d] = channel[d]
    BY <1>1, AskStep
  <2> QED
    BY <2>1 DEF AccountedInv, Applied, Owed, At
<1>2. ASSUME NEW c \in Channels, NEW a \in Answers, At(c, "sent"), Heard(c, a),
             UNCHANGED <<now, processed, applyLog, answer, grantLog, astray>>,
             \A d \in Channels : d # c => channel'[d] = channel[d],
             At(c, "owing")',
             channel'[c].request = channel[c].request, channel'[c].answer = a
      PROVE  AccountedInv'
  <2>0. PICK x : x = [id |-> channel[c].request, ts |-> now]
    OBVIOUS
  <2>1. heardLog' \subseteq heardLog \cup {x} /\ x.id = channel[c].request
    BY <1>2, <2>0 DEF Heard, Stamped
  <2>2. \A y : Applied(y)' = Applied(y)
    BY <1>2 DEF Applied
  <2>3. (\A y : Owed(y) => Owed(y)') /\ Owed(x)'
    BY <1>2, <2>1 DEF Owed, At
  <2> QED
    BY <1>2, <2>1, <2>2, <2>3 DEF AccountedInv
<1>3. ASSUME NEW c \in Channels, Report(c)
      PROVE  AccountedInv'
  <2> DEFINE r == channel[c].request
             row == [id |-> r, ts |-> now]
  <2>1. /\ applyLog \subseteq applyLog' /\ UNCHANGED <<heardLog, astray>>
        /\ row \in applyLog' \/ \E p \in processed : p.id = r
        /\ \A d \in Channels : d # c => channel'[d] = channel[d]
    BY <1>3, ReportStep
  <2>2. row.id = r
    OBVIOUS
  <2>3. \A y : y.id = r => Applied(y)'
    BY <2>1, <2>2 DEF Applied, HeardInv
  <2>4. \A y : Applied(y) => Applied(y)'
    BY <2>1 DEF Applied
  <2>5. \A y : Owed(y) => Owed(y)' \/ y.id = r
    BY <2>1 DEF Owed, At
  <2> QED
    BY <2>1, <2>3, <2>4, <2>5 DEF AccountedInv
<1>4. ASSUME NEW r \in Requests, StrayAnswered(r)
      PROVE  AccountedInv'
  <2>1. /\ heardLog' = heardLog \cup {[id |-> r, ts |-> now]} /\ r \in astray
        /\ UNCHANGED <<applyLog, channel, astray>>
    BY <1>4 DEF StrayAnswered, Stamped, vars
  <2> QED
    BY <2>1 DEF AccountedInv, Applied, Owed, At
<1>5. CASE /\ UNCHANGED <<heardLog, applyLog, answer, grantLog>>
           /\ processed' \subseteq processed /\ now' >= now /\ astray \subseteq astray'
           /\ \A r \in astray' \ astray : \E c \in Busy : r = channel[c].request
           /\ \A c \in Channels : At(c, "owing") \/ At(c, "owing")' => channel'[c] = channel[c]
           /\ \A c \in Busy' : c \in Busy /\ channel'[c].request = channel[c].request
  BY <1>5 DEF AccountedInv, Applied, Owed, At
<1> QED
  BY <1>1, <1>2, <1>3, <1>4, <1>5, HearingStep

(* Heard in a window, of the requests that were not given up.               *)
HeardIn(t) ==
    {x \in heardLog : x.ts >= t /\ x.ts < t + InvalidWindow /\ x.id \notin astray}
Allowance == InvalidThreshold - 1 + Cardinality(Channels)

(* Once anything is granted, what was heard in a window, and what can still *)
(* be heard in it, stays within the allowance.                              *)
AllowanceInv ==
    grantLog # {} =>
        /\ InvalidThreshold >= 1
        /\ \A t \in Nat :
              /\ Cardinality(HeardIn(t)) <= Allowance
              /\ now < t + InvalidWindow =>
                    Cardinality(HeardIn(t)) + Cardinality(Busy) <= Allowance

(* When the Budget grants, what was heard in a window that is not over is   *)
(* applied or owed; the applied ones are below the threshold, and  *)
(* a Channel that owes a report has no request under way.                   *)
LEMMA AskHasRoom ==
  ASSUME FleetInv, HistoryInv, HeardInv, AccountedInv,
         NEW c \in Channels, At(c, "ready"), Decision(now).granted,
         NEW t \in Nat, t <= now, now < t + InvalidWindow
  PROVE  /\ InvalidThreshold >= 1
         /\ Cardinality(HeardIn(t)) + Cardinality(Busy \cup {c}) <= Allowance
<1> USE BudgetAssumption
<1> DEFINE applied == {x \in HeardIn(t) : Applied(x)}
           owed    == {x \in HeardIn(t) : Owed(x)}
           owing   == {d \in Channels : At(d, "owing")}
<1>0. /\ now \in Nat /\ heardLog \subseteq Row /\ applyLog \subseteq Row
      /\ IsFiniteSet(heardLog) /\ IsFiniteSet(Channels) /\ InvalidThreshold \in Int
      /\ Cardinality(Channels) \in Nat
  BY FleetAssumption, FS_CardinalityType
     DEF FleetInv, FleetTypeOK, TypeOK, HeardInv, InvalidThreshold
<1>1. /\ IsFiniteSet(LiveInvalid(now)) /\ Cardinality(LiveInvalid(now)) \in Nat
      /\ Cardinality(LiveInvalid(now)) < InvalidThreshold
  <2>1. IsFiniteSet(LiveInvalid(now)) /\ Cardinality(LiveInvalid(now)) \in Nat
    <3>1. LiveInvalid(now) \subseteq invalid
      BY DEF LiveInvalid, Since
    <3> QED
      BY <3>1, CountSubset DEF HistoryInv, InvalidKept
  <2> QED
    BY <1>0, <2>1 DEF Decision, Refusal, InvalidRefuses
<1>2. /\ IsFiniteSet(applied) /\ Cardinality(applied) \in Nat
      /\ Cardinality(applied) <= Cardinality(LiveInvalid(now))
  <2> DEFINE R == {p \in applied \X LiveInvalid(now) : p[1].id = p[2].id}
  <2>1. ASSUME NEW x \in applied
        PROVE  \E a \in LiveInvalid(now) : <<x, a>> \in R
    <3>1. x \in heardLog /\ x.ts >= t /\ x.ts \in Nat
      BY <1>0 DEF HeardIn, Row
    <3>2. PICK a \in applyLog : a.id = x.id
      BY DEF Applied
    <3>3. a.ts >= x.ts /\ CountsAsInvalidRequest(answer[a.id]) /\ a.ts \in Nat
      BY <1>0, <3>1, <3>2 DEF HeardInv, Row
    <3>4. a.ts > now - InvalidWindow
      BY <1>0, <3>1, <3>3
    <3>5. a \in LiveInvalid(now)
      BY <3>2, <3>3, <3>4 DEF HistoryInv, InvalidKept, LiveInvalid, Since
    <3> QED
      BY <3>2, <3>5
  <2>2. \A x, z \in applied : \A a \in LiveInvalid(now) : <<x, a>> \in R /\ <<z, a>> \in R => x = z
    BY DEF HeardInv, HeardIn
  <2> HIDE DEF R, applied
  <2> QED
    BY <1>1, <2>1, <2>2, CountOneToOne
<1>3. /\ IsFiniteSet(owed) /\ Cardinality(owed) \in Nat /\ Cardinality(owing) \in Nat
      /\ Cardinality(owed) <= Cardinality(owing)
  <2> DEFINE R == {p \in owed \X owing : p[1].id = channel[p[2]].request}
  <2>1. ASSUME NEW x \in owed
        PROVE  \E d \in owing : <<x, d>> \in R
    <3>1. PICK d \in Channels : At(d, "owing") /\ channel[d].request = x.id
      BY DEF Owed
    <3> QED
      BY <3>1
  <2>2. \A x, z \in owed : \A d \in owing : <<x, d>> \in R /\ <<z, d>> \in R => x = z
    BY DEF HeardInv, HeardIn
  <2>3. IsFiniteSet(owing)
    BY <1>0, CountSubset
  <2> HIDE DEF R, owed, owing
  <2> QED
    BY <2>1, <2>2, <2>3, CountOneToOne
<1>5. /\ Cardinality(Busy \cup {c}) \in Nat
      /\ Cardinality(owing) + Cardinality(Busy \cup {c}) <= Cardinality(Channels)
  <2>1. owing \subseteq Channels /\ Busy \cup {c} \subseteq Channels
    BY DEF Busy
  <2>2. owing \cap (Busy \cup {c}) = {}
    BY DEF Busy, UnderWay, At
  <2> HIDE DEF owing
  <2> QED
    BY <1>0, <2>1, <2>2, CountApart
<1>6. HeardIn(t) \subseteq applied \cup owed
  BY DEF HeardIn, AccountedInv
<1> HIDE DEF applied, owed, owing
<1>7. /\ IsFiniteSet(applied \cup owed) /\ Cardinality(applied \cup owed) \in Nat
      /\ Cardinality(applied \cup owed) <= Cardinality(applied) + Cardinality(owed)
  BY <1>2, <1>3, CountUnion
<1>8. /\ Cardinality(HeardIn(t)) \in Nat
      /\ Cardinality(HeardIn(t)) <= Cardinality(applied \cup owed)
  BY <1>6, <1>7, CountSubset
<1> QED
  BY <1>0, <1>1, <1>2, <1>3, <1>5, <1>7, <1>8 DEF Allowance

LEMMA AllowanceStep ==
  ASSUME FleetInv, HistoryInv, HeardInv, AccountedInv, AllowanceInv, [FleetNext]_fleetVars
  PROVE  AllowanceInv'
<1> USE BudgetAssumption
<1>0. /\ now \in Nat /\ now' \in Nat /\ heardLog \subseteq Row
      /\ IsFiniteSet(heardLog) /\ IsFiniteSet(Channels) /\ InvalidThreshold \in Int
      /\ Cardinality(Channels) \in Nat
      /\ Allowance \in Int /\ Allowance' = Allowance
  <2>1. /\ now \in Nat /\ now' \in Nat /\ heardLog \subseteq Row
        /\ IsFiniteSet(heardLog) /\ IsFiniteSet(Channels) /\ InvalidThreshold \in Int
        /\ Cardinality(Channels) \in Nat
    BY FleetStepInv, FleetAssumption, FS_CardinalityType
       DEF FleetInv, FleetTypeOK, TypeOK, HeardInv, InvalidThreshold
  <2> QED
    BY <2>1 DEF Allowance
<1>1. /\ IsFiniteSet(Busy) /\ Cardinality(Busy) \in Nat
      /\ Cardinality(Busy) <= Cardinality(Channels)
  <2>1. Busy \subseteq Channels
    BY DEF Busy
  <2> QED
    BY <1>0, <2>1, CountSubset
<1>2. \A t \in Nat : IsFiniteSet(HeardIn(t)) /\ Cardinality(HeardIn(t)) \in Nat
  <2>1. \A t \in Nat : HeardIn(t) \subseteq heardLog
    BY DEF HeardIn
  <2> QED
    BY <1>0, <2>1, CountSubset
<1>3. ASSUME UNCHANGED grantLog, now' >= now, Busy' \subseteq Busy,
             \A t \in Nat : HeardIn(t)' \subseteq HeardIn(t)
      PROVE  AllowanceInv'
  <2>1. Cardinality(Busy') \in Nat /\ Cardinality(Busy') <= Cardinality(Busy)
    BY <1>1, <1>3, CountSubset
  <2>2. \A t \in Nat : /\ Cardinality(HeardIn(t)') \in Nat
                       /\ Cardinality(HeardIn(t)') <= Cardinality(HeardIn(t))
    BY <1>2, <1>3, CountSubset
  <2> QED
    BY <1>0, <1>1, <1>2, <1>3, <2>1, <2>2 DEF AllowanceInv
<1>4. ASSUME NEW c \in Channels, Ask(c)
      PROVE  AllowanceInv'
  <2>1. /\ UNCHANGED <<now, heardLog, astray>> /\ At(c, "ready")
        /\ \A d \in Channels : d # c => channel'[d] = channel[d]
    BY <1>4, AskStep
  <2>2. Decision(now).granted
    BY <1>4 DEF Ask, AcquireGranted
  <2>3. Busy' \subseteq Busy \cup {c}
    BY <2>1 DEF Busy, UnderWay, At
  <2>4. /\ IsFiniteSet(Busy \cup {c}) /\ Cardinality(Busy \cup {c}) \in Nat
        /\ Cardinality(Busy \cup {c}) <= Cardinality(Channels)
    <3>1. Busy \cup {c} \subseteq Channels
      BY DEF Busy
    <3> QED
      BY <1>0, <3>1, CountSubset
  <2>5. Cardinality(Busy') \in Nat /\ Cardinality(Busy') <= Cardinality(Busy \cup {c})
    BY <2>3, <2>4, CountSubset
  <2>6. InvalidThreshold >= 1
    <3>1. now <= now /\ now < now + InvalidWindow
      BY <1>0
    <3> QED
      BY <1>0, <2>1, <2>2, <3>1, AskHasRoom
  <2>7. ASSUME NEW t \in Nat
        PROVE  /\ Cardinality(HeardIn(t)) <= Allowance
               /\ now < t + InvalidWindow =>
                     Cardinality(HeardIn(t)) + Cardinality(Busy') <= Allowance
    <3>1. CASE now < t
      <4>1. HeardIn(t) = {}
        BY <1>0, <3>1 DEF HeardIn, HeardInv, Row
      <4>2. Cardinality(HeardIn(t)) = 0
        BY <4>1, FS_EmptySet
      <4> QED
        BY <1>0, <2>4, <2>5, <2>6, <4>2 DEF Allowance
    <3>2. CASE t <= now /\ now < t + InvalidWindow
      <4>1. Cardinality(HeardIn(t)) + Cardinality(Busy \cup {c}) <= Allowance
        BY <2>1, <2>2, <3>2, AskHasRoom
      <4> QED
        BY <1>0, <1>2, <2>4, <2>5, <4>1
    <3>3. CASE ~ (now < t + InvalidWindow)
      <4>1. CASE grantLog # {}
        BY <3>3, <4>1 DEF AllowanceInv
      <4>2. CASE grantLog = {}
        <5>1. heardLog = {}
          BY <4>2 DEF HeardInv, Granted
        <5>2. HeardIn(t) = {}
          BY <5>1 DEF HeardIn
        <5>3. Cardinality(HeardIn(t)) = 0
          BY <5>2, FS_EmptySet
        <5> QED
          BY <1>0, <2>6, <3>3, <5>3 DEF Allowance
      <4> QED
        BY <4>1, <4>2
    <3> QED
      BY <1>0, <3>1, <3>2, <3>3
  <2>8. Allowance' = Allowance /\ \A t \in Nat : HeardIn(t)' = HeardIn(t)
    BY <1>0, <2>1 DEF HeardIn
  <2> QED
    BY <2>1, <2>6, <2>7, <2>8 DEF AllowanceInv
<1>5. ASSUME NEW c \in Channels, NEW a \in Answers, At(c, "sent"), Heard(c, a),
             UNCHANGED <<now, processed, applyLog, answer, grantLog, astray>>,
             \A d \in Channels : d # c => channel'[d] = channel[d],
             At(c, "owing")'
      PROVE  AllowanceInv'
  <2>0. PICK x : x = [id |-> channel[c].request, ts |-> now]
    OBVIOUS
  <2>1. heardLog' \subseteq heardLog \cup {x} /\ heardLog \subseteq heardLog' /\ x.ts = now
    BY <1>5, <2>0 DEF Heard, Stamped
  <2>2. Busy' \subseteq Busy \ {c} /\ c \in Busy
    BY <1>5 DEF Busy, UnderWay, At
  <2>3. /\ IsFiniteSet(Busy \ {c}) /\ Cardinality(Busy \ {c}) \in Nat
        /\ Cardinality(Busy \ {c}) = Cardinality(Busy) - 1
    BY <1>1, <2>2, CountElement
  <2>4. Cardinality(Busy') \in Nat /\ Cardinality(Busy') <= Cardinality(Busy) - 1
    BY <2>2, <2>3, CountSubset
  <2>5. ASSUME NEW t \in Nat, grantLog # {}
        PROVE  /\ Cardinality(HeardIn(t)') <= Allowance
               /\ now < t + InvalidWindow =>
                     Cardinality(HeardIn(t)') + Cardinality(Busy') <= Allowance
    <3>1. CASE now < t + InvalidWindow
      <4>1. HeardIn(t)' \subseteq HeardIn(t) \cup {x}
        BY <1>5, <2>1 DEF HeardIn
      <4>2. /\ IsFiniteSet(HeardIn(t) \cup {x}) /\ Cardinality(HeardIn(t) \cup {x}) \in Nat
            /\ Cardinality(HeardIn(t) \cup {x}) <= Cardinality(HeardIn(t)) + 1
        BY <1>2, CountElement
      <4>3. /\ Cardinality(HeardIn(t)') \in Nat
            /\ Cardinality(HeardIn(t)') <= Cardinality(HeardIn(t) \cup {x})
        BY <4>1, <4>2, CountSubset
      <4>4. Cardinality(HeardIn(t)) + Cardinality(Busy) <= Allowance
        BY <2>5, <3>1 DEF AllowanceInv
      <4> QED
        BY <1>0, <1>1, <1>2, <2>4, <4>2, <4>3, <4>4
    <3>2. CASE ~ (now < t + InvalidWindow)
      <4>1. HeardIn(t)' = HeardIn(t)
        BY <1>5, <2>1, <3>2 DEF HeardIn
      <4> QED
        BY <2>5, <3>2, <4>1 DEF AllowanceInv
    <3> QED
      BY <3>1, <3>2
  <2>7. \A t \in Nat : Cardinality(HeardIn(t)') \in Nat
    <3>1. IsFiniteSet(heardLog \cup {x})
      BY <1>0, FS_AddElement
    <3>2. \A t \in Nat : HeardIn(t)' \subseteq heardLog \cup {x}
      BY <2>1 DEF HeardIn
    <3> QED
      BY <3>1, <3>2, CountSubset
  <2> QED
    BY <1>0, <1>5, <2>4, <2>5, <2>7 DEF AllowanceInv
<1>6. ASSUME NEW c \in Channels, Report(c)
      PROVE  AllowanceInv'
  <2>1. UNCHANGED <<now, heardLog, grantLog, astray>> /\ Busy' = Busy
    BY <1>6, ReportStep
  <2>2. \A t \in Nat : HeardIn(t)' = HeardIn(t)
    BY <2>1 DEF HeardIn
  <2> QED
    BY <1>0, <1>3, <2>1, <2>2
<1>7. CASE /\ UNCHANGED <<heardLog, applyLog, answer, grantLog>>
           /\ processed' \subseteq processed /\ now' >= now /\ astray \subseteq astray'
           /\ \A r \in astray' \ astray : \E c \in Busy : r = channel[c].request
           /\ \A c \in Channels : At(c, "owing") \/ At(c, "owing")' => channel'[c] = channel[c]
           /\ \A c \in Busy' : c \in Busy /\ channel'[c].request = channel[c].request
  <2>1. \A t \in Nat : HeardIn(t)' \subseteq HeardIn(t)
    BY <1>7 DEF HeardIn
  <2>2. Busy' \subseteq Busy
    BY <1>7
  <2> QED
    BY <1>3, <1>7, <2>1, <2>2
<1>8. ASSUME NEW r \in Requests, StrayAnswered(r)
      PROVE  AllowanceInv'
  <2>1. /\ heardLog' = heardLog \cup {[id |-> r, ts |-> now]} /\ r \in astray
        /\ UNCHANGED <<now, grantLog, channel, astray>>
    BY <1>8 DEF StrayAnswered, Stamped, vars
  <2>2. Busy' = Busy /\ \A t \in Nat : HeardIn(t)' \subseteq HeardIn(t)
    BY <2>1 DEF Busy, UnderWay, At, HeardIn
  <2> QED
    BY <1>0, <1>3, <2>1, <2>2
<1> QED
  BY <1>4, <1>5, <1>6, <1>7, <1>8, HearingStep

LEMMA AllowanceIsEnough ==
  ASSUME FleetInv, HeardInv, AllowanceInv
  PROVE  InvalidBounded
<1> SUFFICES ASSUME NEW first \in heardLog
             PROVE  LET counted == Within(heardLog, first, InvalidWindow)
                    IN  Cardinality(counted) <= InvalidThreshold - 1 + Cardinality(Channels)
                                                  + Cardinality(Strays(counted))
  BY DEF InvalidBounded
<1> DEFINE counted == Within(heardLog, first, InvalidWindow)
           strays  == Strays(counted)
<1>0. /\ IsFiniteSet(heardLog) /\ InvalidThreshold \in Int /\ Cardinality(Channels) \in Nat
  BY BudgetAssumption, FleetAssumption, FS_CardinalityType DEF HeardInv, InvalidThreshold
<1>1. first.ts \in Nat /\ first.id \in Granted
  BY DEF FleetInv, FleetTypeOK, Row, HeardInv
<1>2. grantLog # {}
  BY <1>1 DEF Granted
<1>3. PICK t \in Nat : t = first.ts
  BY <1>1
<1>4. counted \subseteq HeardIn(t) \cup strays
  BY <1>3 DEF Within, HeardIn, Strays
<1>5. HeardIn(t) \subseteq heardLog /\ strays \subseteq heardLog
  BY DEF Within, HeardIn, Strays
<1> HIDE DEF counted, strays
<1>6. /\ IsFiniteSet(HeardIn(t)) /\ Cardinality(HeardIn(t)) \in Nat
      /\ IsFiniteSet(strays) /\ Cardinality(strays) \in Nat
  BY <1>0, <1>5, CountSubset
<1>7. /\ IsFiniteSet(HeardIn(t) \cup strays) /\ Cardinality(HeardIn(t) \cup strays) \in Nat
      /\ Cardinality(HeardIn(t) \cup strays) <= Cardinality(HeardIn(t)) + Cardinality(strays)
  BY <1>6, CountUnion
<1>8. /\ Cardinality(counted) \in Nat
      /\ Cardinality(counted) <= Cardinality(HeardIn(t) \cup strays)
  BY <1>4, <1>7, CountSubset
<1>9. Cardinality(HeardIn(t)) <= InvalidThreshold - 1 + Cardinality(Channels)
  BY <1>2 DEF AllowanceInv, Allowance
<1>10. Cardinality(counted) <= InvalidThreshold - 1 + Cardinality(Channels) + Cardinality(strays)
  BY <1>0, <1>6, <1>7, <1>8, <1>9
<1> QED
  BY <1>10 DEF counted, strays

-----------------------------------------------------------------------------
(* The parts together.                                                      *)

CountInv == SentInv /\ HeardInv /\ LateInv /\ AccountedInv /\ AllowanceInv

LEMMA CountInvariant == FleetSpec => [](FleetInv /\ TypeOK /\ HistoryInv /\ CountInv)
<1>1. FleetInit => CountInv
  <2> SUFFICES ASSUME FleetInit
               PROVE  CountInv
    OBVIOUS
  <2>1. /\ sentLog = {} /\ heardLog = {} /\ astray = {} /\ grantLog = {} /\ applyLog = {}
        /\ processed = {} /\ \A c \in Channels : channel[c].state = "ready"
    BY DEF FleetInit, Init, Idle
  <2>2. SentInv /\ HeardInv /\ AllowanceInv
    BY <2>1, FS_EmptySet DEF SentInv, HeardInv, AllowanceInv, At, Busy, UnderWay
  <2>3. AccountedInv
    BY <2>1 DEF AccountedInv
  <2>4. LateInv
    <3>1. \A t \in Nat : SentLate(t) = {} /\ StillToSend(t) = {}
      BY <2>1 DEF SentLate, StillToSend, At
    <3>2. Cardinality({}) = 0 /\ Cardinality(Channels) \in Nat
      BY FS_EmptySet, FleetAssumption, FS_CardinalityType
    <3> QED
      BY <3>1, <3>2 DEF LateInv
  <2> QED
    BY <2>2, <2>3, <2>4 DEF CountInv
<1>2. FleetInv /\ HistoryInv /\ CountInv /\ [FleetNext]_fleetVars => CountInv'
  BY SentStep, HeardStep, LateStep, AccountedStep, AllowanceStep DEF CountInv
<1> QED
  BY <1>1, <1>2, FleetInvariant, FleetUsesBudget, TypeCorrect, HistoryKept, PTL DEF FleetSpec

(* Requests reach Discord later than they were granted; still, of those it  *)
(* sees in any second, the ones granted in it are within the ceiling, and   *)
(* of the older ones each Channel sent one at most that it had not given up *)
(* (acquire, executePage).                                                  *)
THEOREM CeilingReachesDiscord == FleetSpec => []CeilingAtDiscord
<1>1. FleetInv /\ TypeOK /\ HistoryInv /\ GrantsStop /\ CountInv /\ CeilingInEveryWindow
        => CeilingAtDiscord
  BY CeilingWithLate DEF CountInv
<1> QED
  BY <1>1, CountInvariant, FleetUsesBudget, GrantsStopInvariant, CeilingRespected, PTL

(* Answers are counted later than they were given; still Discord counts no  *)
(* more invalid ones in any window than the threshold lets through, one for *)
(* each other Channel, and those to requests that were given up (acquire,   *)
(* report, executePage).                                                    *)
THEOREM InvalidReachesBudget == FleetSpec => []InvalidBounded
<1>1. FleetInv /\ CountInv => InvalidBounded
  BY AllowanceIsEnough DEF CountInv
<1> QED
  BY <1>1, CountInvariant, PTL
================================================================================
