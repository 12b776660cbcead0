------------------------ MODULE BackfillChannelProofs ------------------------
(***************************************************************************)
(* Theorems about one Backfill Channel, for every page limit, range,       *)
(* channel content, number of crashes and interleaving.                    *)
(***************************************************************************)
EXTENDS BackfillChannel, FiniteSetsExt, FiniteSetTheorems, WellFoundedInduction, TLAPS

-----------------------------------------------------------------------------
(* Smallest and largest numbers.                                            *)

(* A set of naturals that is not empty has a smallest element, and Min      *)
(* returns it: the cursor a page moves to (minSnowflake) is in the page.    *)
LEMMA MinExists ==
  ASSUME NEW T \in SUBSET Nat, T # {}
  PROVE  Min(T) \in T /\ \A y \in T : Min(T) <= y
<1> DEFINE Less == OpToRel(<, Nat)
<1>1. \A x, y \in Nat : y < x => <<y, x>> \in Less
  BY DEF OpToRel
<1>2. IsWellFoundedOn(Less, Nat)
  BY NatLessThanWellFounded
<1> HIDE DEF Less
<1>3. PICK x \in T : \A y \in T : ~ (<<y, x>> \in Less)
  BY <1>2, WFMin
<1>4. ASSUME NEW y \in T, ~ (x <= y)
      PROVE  FALSE
  <2>1. y < x /\ y \in Nat /\ x \in Nat
    BY <1>4
  <2>2. <<y, x>> \in Less
    BY <1>1, <2>1, Zenon
  <2> QED
    BY <1>3, <2>2, Zenon
<1> QED
  BY <1>3, <1>4 DEF Min

(* Max returns an element of a set of naturals that is bounded and not      *)
(* empty: the newest message of the channel.                                *)
LEMMA MaxExists ==
  ASSUME NEW n \in Nat, NEW T \in SUBSET (0..n), T # {}
  PROVE  Max(T) \in T
<1> DEFINE U == {k \in 0..n : n - k \in T}
<1>1. \A x \in T : n - x \in U
  OBVIOUS
<1>2. U \in SUBSET Nat /\ U # {}
  <2>1. PICK x \in T : n - x \in U
    BY <1>1
  <2>2. U \subseteq 0..n
    OBVIOUS
  <2> QED
    BY <2>1, <2>2
<1> HIDE DEF U
<1>3. Min(U) \in U /\ \A y \in U : Min(U) <= y
  BY <1>2, MinExists
<1>4. Min(U) \in 0..n /\ n - Min(U) \in T
  BY <1>3 DEF U
<1>5. \A x \in T : n - Min(U) >= x
  BY <1>1, <1>3, <1>4
<1> QED
  BY <1>4, <1>5 DEF Max

-----------------------------------------------------------------------------
(* The arithmetic of the model.                                             *)

(* The backoff of the code is a number for every attempt count.             *)
LEMMA BackoffType ==
  ASSUME NEW attempt \in 0..AttemptCap
  PROVE  TransientBackoff(attempt) \in Nat
<1> USE ChannelAssumption
<1> DEFINE k == Smaller(attempt, AttemptCap)
<1>1. k \in Nat
  BY DEF Smaller
<1>2. 2^k \in Nat
  <2>1. IsFiniteSet(1..k) /\ Cardinality(1..k) = k
    BY <1>1, FS_Interval
  <2>2. Cardinality(SUBSET (1..k)) = 2^k /\ IsFiniteSet(SUBSET (1..k))
    BY <2>1, FS_SUBSET
  <2> QED
    BY <2>2, FS_CardinalityType
<1>3. BackoffBase * 2^k \in Nat
  <2> HIDE DEF k
  <2> DEFINE p == 2^k
  <2>1. p \in Nat
    BY <1>2
  <2> HIDE DEF p
  <2>2. BackoffBase * p \in Nat
    BY <2>1
  <2> QED
    BY <2>2 DEF p
<1> QED
  BY <1>3 DEF TransientBackoff, Smaller

(* Time left stays a number.                                                *)
LEMMA LeftType ==
  ASSUME NEW t \in Nat, NEW spent \in Nat
  PROVE  Left(t, spent) \in Nat /\ Left(t, spent) <= t
BY DEF Left

-----------------------------------------------------------------------------
(* Types.                                                                   *)

(* The handler works on a run of the table whenever it works at all, and    *)
(* has a reply in hand where it reads one and a pending report where it     *)
(* delivers one.                                                            *)
Placed ==
    /\ pc # "idle" => up /\ cur \in Runs
    /\ pc \in {"advise", "commit", "progress"} => reply # Null
    /\ pc \in {"flush", "resolve"} => runs[cur].pending # Null

LEMMA TypeInit == Init => TypeOK /\ Placed
<1> SUFFICES ASSUME Init
             PROVE  TypeOK /\ Placed
  OBVIOUS
<1> USE ChannelAssumption DEF Init
<1>1. newest \in 0..MaxMessage
  <2>1. CASE FirstMessages = {}
    BY <2>1
  <2>2. CASE FirstMessages # {}
    <3>1. FirstMessages \in SUBSET (0..MaxMessage)
      BY DEF Messages
    <3> QED
      BY <2>2, <3>1, MaxExists
  <2> QED
    BY <2>1, <2>2
<1>2. AbsentRun \in RunRow
  BY DEF AbsentRun, RunRow, CrawlRange
<1>3. runs \in [Runs -> RunRow]
  BY <1>2
<1>4. hold \in [run: Runs \cup {Null}, left: Nat]
  OBVIOUS
<1>5. Placed
  BY DEF Placed
<1>6. stable \in [Runs -> SUBSET Messages]
  OBVIOUS
<1>7. alarm \in Nat \cup {Null} /\ archive \subseteq Object
  OBVIOUS
<1>8. cur \in Runs \cup {Null} /\ pagesLeft \in 0..PagesPerAlarm
  OBVIOUS
<1>9. pc \in {"idle"} \cup Awaits \cup Sync
  OBVIOUS
<1> QED
  BY <1>1, <1>3, <1>4, <1>5, <1>6, <1>7, <1>8, <1>9 DEF TypeOK

\* The row of the run the handler works on.
LEMMA RowType ==
  ASSUME TypeOK, NEW r \in Runs
  PROVE  /\ runs[r] \in RunRow
         /\ runs[r].eligibleIn \in Nat
         /\ runs[r].attempt \in 0..AttemptCap
         /\ runs[r].pending \in Pending \cup {Null}
         /\ runs[r].cursor \in Messages \cup {Null}
         /\ runs[r].range \in CrawlRange
         /\ NextRequestBefore(r) \in Messages \cup {Null}
         /\ TransientBackoff(runs[r].attempt) \in Nat
         /\ NextAttempt(runs[r].attempt) \in 0..AttemptCap
<1>1. runs[r] \in RunRow
  BY DEF TypeOK
<1>2. runs[r].attempt \in 0..AttemptCap
  BY <1>1 DEF RunRow
<1>3. TransientBackoff(runs[r].attempt) \in Nat
  BY <1>2, BackoffType
<1>4. NextAttempt(runs[r].attempt) \in 0..AttemptCap
  BY <1>2, ChannelAssumption DEF NextAttempt, Smaller
<1> QED
  BY <1>1, <1>2, <1>3, <1>4 DEF RunRow, NextRequestBefore, CrawlRange

\* The three ways a step of the handler ends write a well-formed row.
LEMMA RetryInType ==
  ASSUME TypeOK, cur \in Runs, NEW delay \in Nat, RetryIn(delay)
  PROVE  runs' \in [Runs -> RunRow]
<1>1. NextAttempt(runs[cur].attempt) \in 0..AttemptCap
  BY RowType
<1>2. runs'[cur] = [runs[cur] EXCEPT
                      !.state = "running", !.eligibleIn = delay,
                      !.attempt = NextAttempt(runs[cur].attempt)]
  BY DEF RetryIn, TypeOK
<1>3. runs'[cur] \in RunRow
  BY <1>1, <1>2, RowType DEF RunRow, ActiveStates
<1> QED
  BY <1>3 DEF RetryIn, TypeOK

LEMMA WaitForType ==
  ASSUME TypeOK, cur \in Runs, NEW delay \in Nat, WaitFor(delay)
  PROVE  runs' \in [Runs -> RunRow]
<1>1. runs'[cur] = [runs[cur] EXCEPT !.state = "waiting", !.eligibleIn = delay]
  BY DEF WaitFor, TypeOK
<1>2. runs'[cur] \in RunRow
  BY <1>1, RowType DEF RunRow, ActiveStates
<1> QED
  BY <1>2 DEF WaitFor, TypeOK

LEMMA EndRunType ==
  ASSUME TypeOK, cur \in Runs, NEW state \in TerminalStates, EndRun(state)
  PROVE  runs' \in [Runs -> RunRow]
BY DEF EndRun, TypeOK, RunRow

\* What the handler would archive, and how long it backs off.
LEMMA InPageType ==
  ASSUME TypeOK, cur \in Runs
  PROVE  /\ reply # Null => NewObject \in Object /\ reply.left \in Nat
         /\ TransientBackoff(runs[cur].attempt) \in Nat
         /\ Left(TransientBackoff(runs[cur].attempt), elapsed) \in Nat
<1>1. /\ NextRequestBefore(cur) \in Messages \cup {Null}
      /\ TransientBackoff(runs[cur].attempt) \in Nat
  BY RowType
<1>2. Left(TransientBackoff(runs[cur].attempt), elapsed) \in Nat
  BY <1>1, LeftType DEF TypeOK
<1>3. reply # Null => reply \in Reply
  BY DEF TypeOK
<1> QED
  BY <1>1, <1>2, <1>3 DEF NewObject, Object, Reply

\* EnsureScheduled arms a well-formed alarm.
LEMMA ScheduledType ==
  ASSUME TypeOK, EnsureScheduled
  PROVE  alarm' \in Nat \cup {Null}
<1>1. \A r \in Runs : runs[r].eligibleIn \in Nat
  BY RowType
<1> QED
  BY <1>1 DEF EnsureScheduled, ActiveRuns, TypeOK

(* Every step keeps the types.                                              *)
LEMMA TypeStep == TypeOK /\ Placed /\ [Next]_vars => TypeOK' /\ Placed'
<1> SUFFICES ASSUME TypeOK, Placed, [Next]_vars
             PROVE  TypeOK' /\ Placed'
  OBVIOUS
<1> USE ChannelAssumption DEF Awaits, Sync
<1>1. CASE Wake
  <2>1. alarm' \in Nat \cup {Null}
    BY <1>1, ScheduledType DEF Wake
  <2> QED
    BY <1>1, <2>1 DEF Wake, TypeOK, Placed, durable, handler, environment,
       history
<1>2. CASE AlarmFires
  BY <1>2 DEF AlarmFires, EnterHandler, ActiveRuns, Active, TypeOK, Placed,
     durable, handler, environment, history
<1>3. CASE AlarmRedelivered
  BY <1>3 DEF AlarmRedelivered, EnterHandler, ActiveRuns, Active, TypeOK,
     Placed, durable, handler, environment, history
<1>4. CASE LoopEnds
  BY <1>4 DEF LoopEnds, TypeOK, Placed, durable, handler, environment, history
<1>5. CASE Iterate
  BY <1>5 DEF Iterate, TypeOK, Placed, durable, handler, environment, history
<1>6. CASE Arm
  <2>1. cur \in Runs
    BY <1>6 DEF Arm, Placed
  <2>2. runs[cur].eligibleIn \in Nat
    BY <2>1, RowType
  <2>3. alarm' \in Nat \cup {Null}
    BY <1>6, <2>2 DEF Arm, TypeOK
  <2> QED
    BY <1>6, <2>3 DEF Arm, TypeOK, Placed, durable, handler, environment,
       history
<1>7. CASE AcquireGranted
  BY <1>7 DEF AcquireGranted, Elsewhere, TypeOK, Placed, durable, handler,
     environment, history
<1>8. CASE AcquireRefused
  <2>1. cur \in Runs
    BY <1>8 DEF AcquireRefused, Placed
  <2>2. runs' \in [Runs -> RunRow]
    BY <1>8, <2>1, WaitForType DEF AcquireRefused, Placed
  <2> QED
    BY <1>8, <2>1, <2>2 DEF AcquireRefused, WaitFor, Elsewhere, TypeOK,
       Placed, durable, handler, environment, history
<1>9. CASE AcquireHalted
  <2>1. cur \in Runs
    BY <1>9 DEF AcquireHalted, Placed
  <2>2. runs' \in [Runs -> RunRow]
    BY <1>9, <2>1, EndRunType DEF AcquireHalted, TerminalStates, Placed
  <2> QED
    BY <1>9, <2>1, <2>2 DEF AcquireHalted, EndRun, Elsewhere, TypeOK,
       Placed, durable, handler, environment, history
<1>10. CASE AcquireFails
  <2>1. cur \in Runs
    BY <1>10 DEF AcquireFails, Placed
  <2>2. runs' \in [Runs -> RunRow]
    BY <1>10, <2>1, RetryInType, InPageType DEF AcquireFails, Placed
  <2> QED
    BY <1>10, <2>1, <2>2 DEF AcquireFails, RetryIn, Elsewhere, TypeOK,
       Placed, durable, handler, environment, history
<1>11. CASE FetchFails
  <2>1. cur \in Runs
    BY <1>11 DEF FetchFails, Placed
  <2>2. runs' \in [Runs -> RunRow]
    BY <1>11, <2>1, RetryInType, InPageType DEF FetchFails, Placed
  <2> QED
    BY <1>11, <2>1, <2>2 DEF FetchFails, RetryIn, Elsewhere, TypeOK, Placed,
       durable, handler, environment, history
<1>12. CASE FetchPage
  <2>1. PICK page \in SUBSET Older(NextRequestBefore(cur)),
             left \in Resets \cup {0} : Answer("page", page, left)
    BY <1>12 DEF FetchPage, ResetDelays
  <2>2. reply' \in Reply
    <3>1. page \in SUBSET Messages /\ left \in Nat
      BY DEF Older, TypeOK
    <3> QED
      BY <2>1, <3>1 DEF Answer, Reply
  <2> QED
    BY <2>1, <2>2 DEF Answer, Elsewhere, TypeOK, Placed, durable, handler,
       environment, history, Reply
<1>13. CASE FetchOther
  <2>1. cur \in Runs
    BY <1>13 DEF FetchOther, Answer, Placed
  <2>2. PICK class \in {"garbled", "client_error", "server_error"},
             left \in Nat : Answer(class, {}, left)
    BY <1>13, <2>1, InPageType DEF FetchOther
  <2>3. reply' \in Reply
    BY <2>2 DEF Answer, Reply
  <2> QED
    BY <2>2, <2>3 DEF Answer, Elsewhere, TypeOK, Placed, durable, handler,
       environment, history, Reply
<1>14. CASE FetchRejected
  <2>1. PICK then \in {"halt", "fail", "wait"}, left \in Nat :
          FetchCritical(then, left)
    BY <1>14 DEF FetchRejected
  <2>2. cur \in Runs
    BY <2>1 DEF FetchCritical, Placed
  <2>3. [then |-> then, left |-> left] \in Pending
    BY DEF Pending
  <2>4. runs' \in [Runs -> RunRow]
    <3>1. runs'[cur] = [runs[cur] EXCEPT
                          !.state = "waiting", !.eligibleIn = 0,
                          !.pending = [then |-> then, left |-> left]]
      BY <2>1, <2>2 DEF FetchCritical, TypeOK
    <3> DEFINE pending == [then |-> then, left |-> left]
    <3>2. runs[cur] \in RunRow /\ pending \in Pending
      BY <2>2, <2>3, RowType
    <3> HIDE DEF pending
    <3>3. [runs[cur] EXCEPT !.state = "waiting", !.eligibleIn = 0,
                            !.pending = pending] \in RunRow
      BY <3>2 DEF RunRow, ActiveStates
    <3>4. runs'[cur] \in RunRow
      BY <3>1, <3>3 DEF pending
    <3> QED
      BY <3>4, <2>1, <2>2 DEF FetchCritical, TypeOK
  <2>5. hold' \in [run: Runs \cup {Null}, left: Nat]
    BY <2>1, <2>2 DEF FetchCritical, TypeOK
  <2> QED
    BY <2>1, <2>2, <2>4, <2>5 DEF FetchCritical, Elsewhere, TypeOK, Placed,
       durable, handler, environment, history
<1>15. CASE CommitPage
  BY <1>15 DEF CommitPage, Elsewhere, TypeOK, Placed, durable, handler,
     environment, history
<1>16. CASE ServerError
  <2>1. cur \in Runs
    BY <1>16 DEF ServerError, Placed
  <2>2. runs' \in [Runs -> RunRow]
    BY <1>16, <2>1, RetryInType, InPageType DEF ServerError, Placed
  <2> QED
    BY <1>16, <2>1, <2>2 DEF ServerError, RetryIn, Elsewhere, TypeOK,
       Placed, durable, handler, environment, history
<1>17. CASE PermanentError
  <2>1. cur \in Runs
    BY <1>17 DEF PermanentError, Placed
  <2>2. runs' \in [Runs -> RunRow]
    BY <1>17, <2>1, EndRunType DEF PermanentError, TerminalStates, Placed
  <2> QED
    BY <1>17, <2>1, <2>2 DEF PermanentError, EndRun, Elsewhere, TypeOK,
       Placed, durable, handler, environment, history
<1>18. CASE CommitAccepted
  <2>1. NewObject \in Object
    BY <1>18, InPageType DEF CommitAccepted, Placed
  <2> QED
    BY <1>18, <2>1 DEF CommitAccepted, Elsewhere, TypeOK, Placed, durable,
       handler, environment, history
<1>19. CASE CommitFails
  <2>1. cur \in Runs /\ NewObject \in Object
    BY <1>19, InPageType DEF CommitFails, Placed
  <2>2. runs' \in [Runs -> RunRow]
    BY <1>19, <2>1, RetryInType, InPageType DEF CommitFails
  <2>3. archive' \subseteq Object
    BY <1>19, <2>1 DEF CommitFails, TypeOK
  <2> QED
    BY <1>19, <2>1, <2>2, <2>3 DEF CommitFails, RetryIn, Elsewhere, TypeOK,
       Placed, durable, handler, environment, history
<1>20. CASE CommitViolates
  <2>1. cur \in Runs
    BY <1>20 DEF CommitViolates, Placed
  <2>2. runs' \in [Runs -> RunRow]
    BY <1>20, <2>1, EndRunType DEF CommitViolates, TerminalStates, Placed
  <2> QED
    BY <1>20, <2>1, <2>2 DEF CommitViolates, EndRun, Elsewhere, TypeOK,
       Placed, durable, handler, environment, history
<1>21. CASE Progress
  <2>1. cur \in Runs /\ reply \in Reply
    BY <1>21 DEF Progress, TypeOK, Placed
  <2>2. NewObject \in Object /\ reply.left \in Nat
    BY <2>1, <1>21, InPageType DEF Progress, Placed
  <2>3. ~ Completes(reply.page, runs[cur].range) => Min(reply.page) \in Messages
    <3>1. reply.page \in SUBSET Nat /\ reply.page \subseteq Messages
      BY <2>1 DEF Reply, Messages
    <3> QED
      BY <3>1, MinExists DEF Completes
  <2>4. runs' \in [Runs -> RunRow]
    <3> DEFINE done == Completes(reply.page, runs[cur].range)
    <3>1. runs'[cur] = [runs[cur] EXCEPT
                          !.state = IF done THEN "completed" ELSE "running",
                          !.cursor = IF done THEN @ ELSE Min(reply.page),
                          !.last = NewObject,
                          !.eligibleIn = reply.left, !.attempt = 0]
      BY <1>21, <2>1 DEF Progress, TypeOK
    <3> HIDE DEF done
    <3>2. runs'[cur] \in RunRow
      <4>1. runs[cur] \in RunRow
        BY <2>1, RowType
      <4> DEFINE cursor == IF done THEN runs[cur].cursor ELSE Min(reply.page)
                 state  == IF done THEN "completed" ELSE "running"
                 left   == reply.left
                 object == NewObject
      <4>2. cursor \in Messages \cup {Null}
        BY <4>1, <2>3 DEF RunRow, done
      <4>3. state \in ActiveStates \cup TerminalStates
        BY DEF ActiveStates, TerminalStates
      <4>4. left \in Nat /\ object \in Object
        BY <2>2
      <4>5. runs'[cur] = [runs[cur] EXCEPT
                            !.state = state, !.cursor = cursor,
                            !.last = object, !.eligibleIn = left, !.attempt = 0]
        BY <3>1
      <4> HIDE DEF cursor, state, left, object
      <4> DEFINE row == [runs[cur] EXCEPT !.state = state, !.cursor = cursor,
                                          !.last = object]
      <4>6. row \in RunRow
        BY <4>1, <4>2, <4>3, <4>4 DEF RunRow
      <4>7. runs'[cur] = [row EXCEPT !.eligibleIn = left, !.attempt = 0]
        BY <4>5
      <4> HIDE DEF row
      <4>8. [row EXCEPT !.eligibleIn = left] \in RunRow
        BY <4>4, <4>6 DEF RunRow
      <4>9. \A x \in RunRow, n \in 0..AttemptCap : [x EXCEPT !.attempt = n] \in RunRow
        BY DEF RunRow
      <4>10. 0 \in 0..AttemptCap
        OBVIOUS
      <4>11. runs'[cur] = [[row EXCEPT !.eligibleIn = left] EXCEPT !.attempt = 0]
        BY <4>7
      <4> QED
        BY <4>8, <4>9, <4>10, <4>11
    <3> QED
      BY <3>2, <1>21, <2>1 DEF Progress, TypeOK
  <2>5. hold' \in [run: Runs \cup {Null}, left: Nat]
    BY <1>21, <2>1, <2>2 DEF Progress
  <2> QED
    BY <1>21, <2>1, <2>4, <2>5 DEF Progress, Elsewhere, TypeOK, Placed,
       durable, handler, environment, history
<1>22. CASE FlushRecorded
  BY <1>22 DEF FlushRecorded, Elsewhere, TypeOK, Placed, durable, handler,
     environment, history
<1>23. CASE FlushFails
  <2>1. cur \in Runs
    BY <1>23 DEF FlushFails, Placed
  <2>2. /\ TransientBackoff(runs[cur].attempt) \in Nat
        /\ NextAttempt(runs[cur].attempt) \in 0..AttemptCap
    BY <2>1, RowType
  <2>3. runs' \in [Runs -> RunRow]
    <3>1. runs'[cur] = [runs[cur] EXCEPT
                          !.state = "waiting",
                          !.eligibleIn = TransientBackoff(runs[cur].attempt),
                          !.attempt = NextAttempt(runs[cur].attempt)]
      BY <1>23, <2>1 DEF FlushFails, TypeOK
    <3>2. runs'[cur] \in RunRow
      BY <3>1, <2>1, <2>2, RowType DEF RunRow, ActiveStates
    <3> QED
      BY <3>2, <1>23, <2>1 DEF FlushFails, TypeOK
  <2> QED
    BY <1>23, <2>1, <2>3 DEF FlushFails, Elsewhere, TypeOK, Placed, durable,
       handler, environment, history
<1>24. CASE Resolve
  <2>1. cur \in Runs /\ runs[cur].pending \in Pending
    BY <1>24, RowType DEF Resolve, Placed
  <2>2. /\ DeferredState(runs[cur].pending.then) \in ActiveStates \cup TerminalStates
        /\ runs[cur].pending.left \in Nat
    BY <2>1 DEF Pending, DeferredState, ActiveStates, TerminalStates
  <2>3. runs' \in [Runs -> RunRow]
    <3> DEFINE pending == runs[cur].pending
    <3>1. runs'[cur] = [runs[cur] EXCEPT
                          !.pending = Null,
                          !.state = DeferredState(pending.then),
                          !.eligibleIn = IF pending.then = "wait"
                                         THEN pending.left ELSE @]
      BY <1>24, <2>1 DEF Resolve, TypeOK
    <3>2. runs'[cur] \in RunRow
      BY <3>1, <2>1, <2>2, RowType DEF RunRow
    <3> QED
      BY <3>2, <1>24, <2>1 DEF Resolve, TypeOK
  <2> QED
    BY <1>24, <2>1, <2>3 DEF Resolve, Elsewhere, TypeOK, Placed, durable,
       handler, environment, history
<1>25. CASE Resume
  <2>1. alarm' \in Nat \cup {Null}
    BY <1>25, ScheduledType DEF Resume
  <2> QED
    BY <1>25, <2>1 DEF Resume, TypeOK, Placed, durable, handler,
       environment, history
<1>26. CASE Crash
  <2>1. alarm' \in Nat \cup {Null}
    BY <1>26 DEF Crash, TypeOK
  <2>2. up' \in BOOLEAN
    BY <1>26 DEF Crash
  <2>3. crashes' \in Nat
    BY <1>26 DEF Crash, TypeOK
  <2> QED
    BY <1>26, <2>1, <2>2, <2>3 DEF Crash, TypeOK, Placed, durable, handler,
       environment, history
<1>27. CASE Tick
  <2>1. \A t \in Nat : Sooner(t) \in Nat
    BY LeftType DEF Sooner
  <2>2. ASSUME NEW r \in Runs
        PROVE  /\ RowAfterTick(runs[r]) \in RunRow
               /\ runs[r].pending # Null => RowAfterTick(runs[r]).pending # Null
    <3>1. runs[r].pending # Null =>
            [runs[r].pending EXCEPT !.left = Sooner(@)] \in Pending
      BY <2>1, RowType DEF Pending
    <3> DEFINE left    == Sooner(runs[r].eligibleIn)
               pending == IF runs[r].pending = Null THEN Null
                          ELSE [runs[r].pending EXCEPT !.left = Sooner(@)]
    <3>2. left \in Nat /\ runs[r] \in RunRow
      BY <2>1, RowType
    <3>3. pending \in Pending \cup {Null}
      BY <3>1
    <3>4. RowAfterTick(runs[r]) =
            [runs[r] EXCEPT !.eligibleIn = left, !.pending = pending]
      BY DEF RowAfterTick
    <3>5. runs[r].pending # Null => pending # Null
      BY <3>1
    <3> HIDE DEF left, pending
    <3> QED
      BY <3>2, <3>3, <3>4, <3>5 DEF RunRow
  <2>3. /\ runs' \in [Runs -> RunRow]
        /\ \A r \in Runs : runs[r].pending # Null => runs'[r].pending # Null
    BY <1>27, <2>2 DEF Tick
  <2>4. reply' \in Reply \cup {Null} /\ (reply # Null => reply' # Null)
    BY <1>27, <2>1 DEF Tick, TypeOK, Reply
  <2>5. hold' \in [run: Runs \cup {Null}, left: Nat]
    BY <1>27, <2>1 DEF Tick, TypeOK
  <2>6. alarm' \in Nat \cup {Null} /\ elapsed' \in Nat
    BY <1>27, <2>1 DEF Tick, TypeOK
  <2> QED
    BY <1>27, <2>3, <2>4, <2>5, <2>6 DEF Tick, TypeOK, Placed, durable,
       handler, environment, history
<1>28. CASE Post
  <2>1. newest' \in 0..MaxMessage /\ discord' \subseteq Messages
    BY <1>28 DEF Post, TypeOK, Messages
  <2> QED
    BY <1>28, <2>1 DEF Post, TypeOK, Placed, durable, handler, environment,
       history
<1>29. ASSUME NEW r \in Runs, NEW range \in Ranges, Start(r, range)
      PROVE  TypeOK' /\ Placed'
  <2>1. runs' \in [Runs -> RunRow]
    <3>1. range \in CrawlRange
      BY DEF TypeOK
    <3>2. [AbsentRun EXCEPT !.state = "running", !.range = range] \in RunRow
      <4>1. AbsentRun \in RunRow
        BY DEF AbsentRun, RunRow, CrawlRange
      <4> QED
        BY <3>1, <4>1 DEF RunRow, ActiveStates
    <3> QED
      BY <1>29, <3>2 DEF Start, TypeOK
  <2> QED
    BY <1>29, <2>1 DEF Start, TypeOK, Placed, durable, handler, environment,
       history
<1>30. ASSUME NEW m \in Messages, Delete(m)
      PROVE  TypeOK' /\ Placed'
  BY <1>30 DEF Delete, TypeOK, Placed, durable, handler, environment, history
<1>31. CASE UNCHANGED vars
  BY <1>31 DEF vars, TypeOK, Placed, durable, handler, environment, history
<1> QED
  BY <1>1, <1>2, <1>3, <1>4, <1>5, <1>6, <1>7, <1>8, <1>9, <1>10, <1>11,
     <1>12, <1>13, <1>14, <1>15, <1>16, <1>17, <1>18, <1>19, <1>20, <1>21,
     <1>22, <1>23, <1>24, <1>25, <1>26, <1>27, <1>28, <1>29, <1>30, <1>31
     DEF Next, AlarmHandler

(* The channel's rows, alarm, archive and handler state are always well     *)
(* formed: an advanced cursor is a message, a backoff a number.             *)
THEOREM ChannelTypeCorrect == Spec => []TypeOK
<1>1. Spec => [](TypeOK /\ Placed)
  BY TypeInit, TypeStep, PTL DEF Spec
<1> QED
  BY <1>1, PTL

-----------------------------------------------------------------------------
(* Reports come first.                                                      *)

(* At most one run is active (start() refuses a second), the handler works  *)
(* on it, asks for a new request only when no report is pending, clears a   *)
(* report only when the Budget knows it, and an owed report is pending.     *)
ReportInv ==
    /\ \A r, s \in ActiveRuns : r = s
    /\ pc \notin {"idle", "arm"} => Active(cur)
    /\ pc \in {"acquire", "fetch", "advise", "commit", "progress"} =>
          runs[cur].pending = Null
    /\ pc = "resolve" => ~ owed
    /\ OwedIsPending

(* Every step keeps that.                                                   *)
LEMMA ReportStep ==
  ASSUME TypeOK, Placed, ReportInv, [Next]_vars
  PROVE  ReportInv'
<1>1. runs \in [Runs -> RunRow] /\ (pc # "idle" => cur \in Runs)
  BY DEF TypeOK, Placed
<1>2. \A r \in Runs :
        /\ RowAfterTick(runs[r]).state = runs[r].state
        /\ RowAfterTick(runs[r]).pending = Null <=> runs[r].pending = Null
  <2> SUFFICES ASSUME NEW r \in Runs
               PROVE  /\ RowAfterTick(runs[r]).state = runs[r].state
                      /\ RowAfterTick(runs[r]).pending = Null
                           <=> runs[r].pending = Null
    OBVIOUS
  <2>1. runs[r] \in RunRow /\ runs[r].pending \in Pending \cup {Null}
    BY RowType
  <2>2. runs[r].pending # Null =>
          [runs[r].pending EXCEPT !.left = Sooner(@)] # Null
    <3>1. \A t \in Nat : Sooner(t) \in Nat
      BY LeftType DEF Sooner
    <3> QED
      BY <2>1, <3>1, ChannelAssumption DEF Pending
  <2> QED
    BY <2>1, <2>2 DEF RowAfterTick, RunRow
<1>11. CASE Wake
  BY <1>11, <1>1 DEF Wake, EnsureScheduled, ReportInv, OwedIsPending,
     ActiveRuns, Active, ActiveStates, durable, handler, environment, history
<1>12. CASE AlarmFires
  BY <1>12, <1>1 DEF AlarmFires, EnterHandler, ReportInv, OwedIsPending,
     ActiveRuns, Active, ActiveStates, durable, handler, environment, history
<1>13. CASE AlarmRedelivered
  BY <1>13, <1>1 DEF AlarmRedelivered, EnterHandler, ReportInv,
     OwedIsPending, ActiveRuns, Active, ActiveStates, durable, handler,
     environment, history
<1>14. CASE LoopEnds
  BY <1>14, <1>1 DEF LoopEnds, ReportInv, OwedIsPending, ActiveRuns,
     Active, ActiveStates, durable, handler, environment, history
<1>15. CASE Iterate
  BY <1>15, <1>1 DEF Iterate, ReportInv, OwedIsPending, ActiveRuns, Active,
     ActiveStates, durable, handler, environment, history
<1>16. CASE Arm
  BY <1>16, <1>1 DEF Arm, ReportInv, OwedIsPending, ActiveRuns, Active,
     ActiveStates, durable, handler, environment, history
<1>17. CASE AcquireGranted
  BY <1>17, <1>1 DEF AcquireGranted, Elsewhere, ReportInv, OwedIsPending,
     ActiveRuns, Active, ActiveStates, durable, handler, environment, history
<1>18. CASE AcquireRefused
  BY <1>18, <1>1 DEF AcquireRefused, WaitFor, Elsewhere, ReportInv,
     OwedIsPending, ActiveRuns, Active, ActiveStates, durable, handler,
     environment, history
<1>19. CASE AcquireHalted
  BY <1>19, <1>1 DEF AcquireHalted, EndRun, Elsewhere, ReportInv,
     OwedIsPending, ActiveRuns, Active, ActiveStates, durable, handler,
     environment, history
<1>20. CASE AcquireFails
  BY <1>20, <1>1 DEF AcquireFails, RetryIn, Elsewhere, ReportInv,
     OwedIsPending, ActiveRuns, Active, ActiveStates, durable, handler,
     environment, history
<1>21. CASE FetchFails
  BY <1>21, <1>1 DEF FetchFails, RetryIn, Elsewhere, ReportInv,
     OwedIsPending, ActiveRuns, Active, ActiveStates, durable, handler,
     environment, history
<1>22. CASE FetchPage
  BY <1>22, <1>1 DEF FetchPage, Answer, Elsewhere, ReportInv,
     OwedIsPending, ActiveRuns, Active, ActiveStates, durable, handler,
     environment, history
<1>23. CASE FetchOther
  BY <1>23, <1>1 DEF FetchOther, Answer, Elsewhere, ReportInv,
     OwedIsPending, ActiveRuns, Active, ActiveStates, durable, handler,
     environment, history
<1>24. CASE FetchRejected
  <2>1. PICK then \in {"halt", "fail", "wait"}, left \in Nat :
          FetchCritical(then, left)
    BY <1>24, ChannelAssumption DEF FetchRejected
  <2>2. [then |-> then, left |-> left] # Null
    BY ChannelAssumption DEF Pending
  <2>3. cur \in Runs /\ pc' = "loop" /\ cur' = cur
    BY <2>1, <1>1 DEF FetchCritical, Elsewhere
  <2>4. /\ runs'[cur].state = "waiting" /\ runs'[cur].pending # Null
        /\ \A r \in Runs \ {cur} : runs'[r] = runs[r]
    BY <2>1, <2>2, <2>3, <1>1 DEF FetchCritical
  <2>5. runs[cur].state \in ActiveStates /\ cur' \in Runs
    BY <2>1, <2>3 DEF FetchCritical, ReportInv, Active
  <2>6. \A r \in Runs : Active(r)' <=> Active(r)
    BY <2>3, <2>4, <2>5 DEF Active, ActiveStates
  <2>7. ActiveRuns' = ActiveRuns /\ cur \in ActiveRuns
    BY <2>3, <2>5, <2>6 DEF ActiveRuns, Active
  <2>8. OwedIsPending'
    BY <2>3, <2>4, <2>7 DEF OwedIsPending
  <2> QED
    BY <2>3, <2>6, <2>7, <2>8 DEF ReportInv, ActiveRuns
<1>25. CASE CommitPage
  BY <1>25, <1>1 DEF CommitPage, Elsewhere, ReportInv, OwedIsPending,
     ActiveRuns, Active, ActiveStates, durable, handler, environment, history
<1>26. CASE ServerError
  BY <1>26, <1>1 DEF ServerError, RetryIn, Elsewhere, ReportInv,
     OwedIsPending, ActiveRuns, Active, ActiveStates, durable, handler,
     environment, history
<1>27. CASE PermanentError
  BY <1>27, <1>1 DEF PermanentError, EndRun, Elsewhere, ReportInv,
     OwedIsPending, ActiveRuns, Active, ActiveStates, durable, handler,
     environment, history
<1>28. CASE CommitAccepted
  BY <1>28, <1>1 DEF CommitAccepted, Elsewhere, ReportInv, OwedIsPending,
     ActiveRuns, Active, ActiveStates, durable, handler, environment, history
<1>29. CASE CommitFails
  BY <1>29, <1>1 DEF CommitFails, RetryIn, Elsewhere, ReportInv,
     OwedIsPending, ActiveRuns, Active, ActiveStates, durable, handler,
     environment, history
<1>30. CASE CommitViolates
  BY <1>30, <1>1 DEF CommitViolates, EndRun, Elsewhere, ReportInv,
     OwedIsPending, ActiveRuns, Active, ActiveStates, durable, handler,
     environment, history
<1>31. CASE Progress
  <2>1. /\ cur \in Runs /\ cur' = cur /\ pc' \in {"arm", "loop"} /\ owed' = owed
        /\ Active(cur) /\ runs[cur].pending = Null
    BY <1>31, <1>1 DEF Progress, Elsewhere, ReportInv
  <2>2. /\ runs'[cur].state \in {"completed", "running"}
        /\ pc' = "loop" => runs'[cur].state = "running"
        /\ runs'[cur].pending = Null
        /\ \A r \in Runs \ {cur} : runs'[r] = runs[r]
    BY <1>31, <2>1, <1>1 DEF Progress, RunRow
  <2>3. ~ owed
    <3>1. cur \in ActiveRuns
      BY <2>1 DEF ActiveRuns
    <3> QED
      BY <2>1, <3>1 DEF ReportInv, OwedIsPending
  <2>4. \A r, s \in ActiveRuns' : r = s
    <3>1. ActiveRuns' \subseteq ActiveRuns
      BY <2>1, <2>2 DEF ActiveRuns, Active
    <3> QED
      BY <3>1 DEF ReportInv
  <2> QED
    BY <2>1, <2>2, <2>3, <2>4 DEF ReportInv, OwedIsPending, Active, ActiveStates
<1>32. CASE FlushRecorded
  BY <1>32, <1>1 DEF FlushRecorded, Elsewhere, ReportInv, OwedIsPending,
     ActiveRuns, Active, ActiveStates, durable, handler, environment, history
<1>33. CASE FlushFails
  <2>1. cur \in Runs /\ pc' = "arm" /\ cur' = cur /\ owed' \in {owed, FALSE}
    BY <1>33, <1>1 DEF FlushFails, Elsewhere
  <2>2. /\ runs'[cur].state = "waiting"
        /\ runs'[cur].pending = runs[cur].pending
        /\ \A r \in Runs \ {cur} : runs'[r] = runs[r]
    BY <1>33, <2>1, <1>1 DEF FlushFails, RunRow
  <2>3. runs[cur].state \in ActiveStates
    BY <1>33 DEF FlushFails, ReportInv, Active
  <2>4. \A r \in Runs : Active(r)' <=> Active(r)
    BY <2>1, <2>2, <2>3 DEF Active, ActiveStates
  <2>5. ActiveRuns' = ActiveRuns
    BY <2>4 DEF ActiveRuns
  <2>6. \A r \in Runs : runs'[r].pending = runs[r].pending
    BY <2>1, <2>2
  <2>7. OwedIsPending'
    BY <2>1, <2>5, <2>6 DEF ReportInv, OwedIsPending, ActiveRuns
  <2>8. \A r, s \in ActiveRuns' : r = s
    BY <2>5 DEF ReportInv
  <2> QED
    BY <2>1, <2>7, <2>8 DEF ReportInv
<1>34. CASE Resolve
  <2>1. cur \in Runs /\ pc' = "arm" /\ cur' = cur /\ owed' = owed /\ ~ owed
    BY <1>34, <1>1 DEF Resolve, Elsewhere, ReportInv, history
  <2>2. \A r \in Runs \ {cur} : runs'[r] = runs[r]
    BY <1>34, <2>1, <1>1 DEF Resolve
  <2>3. Active(cur)
    BY <1>34 DEF Resolve, ReportInv
  <2> QED
    BY <2>1, <2>2, <2>3 DEF ReportInv, OwedIsPending, ActiveRuns, Active, ActiveStates
<1>35. CASE Resume
  BY <1>35, <1>1 DEF Resume, EnsureScheduled, ReportInv, OwedIsPending,
     ActiveRuns, Active, ActiveStates, durable, handler, environment, history
<1>36. CASE Crash
  BY <1>36, <1>1 DEF Crash, ReportInv, OwedIsPending, ActiveRuns, Active,
     ActiveStates, durable, handler, environment, history
<1>37. CASE Tick
  <2>1. /\ pc' = pc /\ cur' = cur /\ owed' = owed
        /\ runs' = [r \in Runs |-> RowAfterTick(runs[r])]
    BY <1>37 DEF Tick, environment
  <2>2. \A r \in Runs : /\ runs'[r].state = runs[r].state
                        /\ runs'[r].pending = Null <=> runs[r].pending = Null
    BY <2>1, <1>2
  <2>3. ActiveRuns' = ActiveRuns /\ (pc # "idle" => (Active(cur)' <=> Active(cur)))
    BY <2>1, <2>2, <1>1 DEF ActiveRuns, Active
  <2>4. OwedIsPending'
    BY <2>1, <2>2, <2>3 DEF ReportInv, OwedIsPending, ActiveRuns
  <2>5. pc \in {"acquire", "fetch", "advise", "commit", "progress"} =>
          runs'[cur].pending = Null
    BY <2>2, <1>1 DEF ReportInv
  <2>6. pc \notin {"idle", "arm"} => Active(cur)'
    BY <2>3 DEF ReportInv
  <2>7. \A r, s \in ActiveRuns' : r = s
    BY <2>3 DEF ReportInv
  <2> QED
    BY <2>1, <2>4, <2>5, <2>6, <2>7 DEF ReportInv
<1>38. CASE Post
  BY <1>38, <1>1 DEF Post, ReportInv, OwedIsPending, ActiveRuns, Active,
     ActiveStates, durable, handler, environment, history
<1>39. ASSUME NEW r \in Runs, NEW range \in Ranges, Start(r, range)
       PROVE  ReportInv'
  BY <1>39, <1>1 DEF Start, AbsentRun, ReportInv, OwedIsPending,
     ActiveRuns, Active, ActiveStates, durable, handler, environment, history
<1>40. ASSUME NEW m \in Messages, Delete(m)
       PROVE  ReportInv'
  BY <1>40, <1>1 DEF Delete, ReportInv, OwedIsPending, ActiveRuns, Active,
     ActiveStates, durable, handler, environment, history
<1>41. CASE UNCHANGED vars
  BY <1>41, <1>1 DEF vars, ReportInv, OwedIsPending, ActiveRuns, Active,
     ActiveStates, durable, handler, environment, history
<1> QED
  BY <1>11, <1>12, <1>13, <1>14, <1>15, <1>16, <1>17, <1>18, <1>19, <1>20,
     <1>21, <1>22, <1>23, <1>24, <1>25, <1>26, <1>27, <1>28, <1>29, <1>30,
     <1>31, <1>32, <1>33, <1>34, <1>35, <1>36, <1>37, <1>38, <1>39, <1>40,
     <1>41
     DEF Next, AlarmHandler

LEMMA ReportInvariant == Spec => [](TypeOK /\ Placed /\ ReportInv)
<1>1. Init => ReportInv
  BY ChannelAssumption DEF Init, ReportInv, OwedIsPending, ActiveRuns, Active, ActiveStates,
                           AbsentRun
<1> QED
  BY <1>1, TypeInit, TypeStep, ReportStep, PTL DEF Spec

(* A recorded 401 / 403 / 429 stays pending until the Budget knows of it,   *)
(* through crashes, failed deliveries and lost replies.                     *)
THEOREM OwedReportsArePending == Spec => []OwedIsPending
<1>1. ReportInv => OwedIsPending
  BY DEF ReportInv
<1> QED
  BY <1>1, ReportInvariant, PTL

\* A request is sent by exactly one step, the grant of a slot.
LEMMA SendStep ==
  ASSUME TypeOK, [Next]_vars, RequestSent
  PROVE  AcquireGranted
BY DEF RequestSent, Next, AlarmHandler, vars,
       Wake, AlarmFires, AlarmRedelivered, EnterHandler, LoopEnds, Iterate, Arm,
       AcquireRefused, WaitFor, AcquireHalted, EndRun, AcquireFails, RetryIn,
       FetchFails, FetchPage, FetchOther, Answer, FetchRejected, FetchCritical,
       CommitPage, ServerError, PermanentError, CommitAccepted, CommitFails,
       CommitViolates, Progress, FlushRecorded, FlushFails, Resolve, Start,
       Resume, Crash, Tick, Post, Delete,
       durable, handler, environment, history

(* While such a report is owed the channel sends Discord no request.        *)
THEOREM ReportsComeFirst == Spec => ReportFirst
<1>1. ASSUME TypeOK, Placed, ReportInv, [Next]_vars, RequestSent
      PROVE  ~ owed
  <2>1. AcquireGranted
    BY <1>1, SendStep
  <2>2. Active(cur) /\ runs[cur].pending = Null /\ pc # "idle"
    BY <1>1, <2>1 DEF AcquireGranted, ReportInv
  <2>3. cur \in ActiveRuns
    BY <1>1, <2>1, <2>2 DEF ActiveRuns, Placed
  <2> QED
    BY <1>1, <2>2, <2>3 DEF ReportInv, OwedIsPending
<1>2. TypeOK /\ Placed /\ ReportInv /\ [Next]_vars => [RequestSent => ~ owed]_vars
  BY <1>1
<1> QED
  BY <1>2, ReportInvariant, PTL DEF Spec, ReportFirst

-----------------------------------------------------------------------------
(* Retry-After and route resets.                                            *)

(* While a run works, nothing it has recorded is still running; otherwise   *)
(* the pause is covered by next_eligible_at, or by the deferred outcome     *)
(* while a report is pending.                                               *)
HoldInv ==
    /\ pc \in {"acquire", "fetch", "advise", "commit", "progress",
               "flush", "resolve"} => runs[cur].eligibleIn = 0
    /\ hold.run \in Runs => runs[hold.run].state # "absent"
    /\ (hold.run \in Runs /\ Active(hold.run)) =>
          hold.left <= IF runs[hold.run].pending = Null
                       THEN runs[hold.run].eligibleIn
                       ELSE runs[hold.run].pending.left

\* What a step that ends with "leave the loop" does to the rows.
LEMMA LeavesLoop ==
  ASSUME TypeOK, cur \in Runs, NEW delay \in Nat,
         RetryIn(delay) \/ WaitFor(delay)
  PROVE  /\ pc' = "arm"
         /\ runs'[cur].state \in ActiveStates
         /\ runs'[cur].eligibleIn = delay
         /\ runs'[cur].pending = runs[cur].pending
         /\ \A r \in Runs \ {cur} : runs'[r] = runs[r]
<1>1. runs \in [Runs -> RunRow] /\ runs[cur] \in RunRow
  BY DEF TypeOK
<1>2. CASE RetryIn(delay)
  BY <1>1, <1>2 DEF RetryIn, RunRow, ActiveStates
<1>3. CASE WaitFor(delay)
  BY <1>1, <1>3 DEF WaitFor, RunRow, ActiveStates
<1> QED
  BY <1>2, <1>3

\* Postponing the run the handler works on keeps the pause covered: it is
\* over, or the pending report carries it.
LEMMA HoldPostponed ==
  ASSUME TypeOK, Placed, HoldInv, cur \in Runs, Active(cur),
         runs[cur].eligibleIn = 0,
         NEW delay \in Nat,
         pc' = "arm", hold' = hold,
         runs'[cur].state \in ActiveStates,
         runs'[cur].eligibleIn = delay,
         runs'[cur].pending = runs[cur].pending,
         \A r \in Runs \ {cur} : runs'[r] = runs[r]
  PROVE  HoldInv'
<1>1. hold.left \in Nat
  BY DEF TypeOK
<1>2. ASSUME hold.run \in Runs
      PROVE  runs'[hold.run].state # "absent"
  BY <1>2 DEF HoldInv, ActiveStates
<1>3. ASSUME hold.run \in Runs, Active(hold.run)'
      PROVE  hold.left <= IF runs'[hold.run].pending = Null
                          THEN runs'[hold.run].eligibleIn
                          ELSE runs'[hold.run].pending.left
  <2>1. CASE hold.run = cur
    BY <1>1, <2>1 DEF HoldInv
  <2>2. CASE hold.run # cur
    BY <1>3, <2>2 DEF HoldInv, Active
  <2> QED
    BY <2>1, <2>2
<1> QED
  BY <1>2, <1>3 DEF HoldInv, Active

(* Every step keeps that.                                                   *)
LEMMA HoldStep ==
  ASSUME TypeOK, Placed, ReportInv, HoldInv, [Next]_vars
  PROVE  HoldInv'
<1>1. /\ runs \in [Runs -> RunRow] /\ (pc # "idle" => cur \in Runs)
      /\ hold.run \in Runs \cup {Null} /\ hold.left \in Nat
      /\ \A r \in Runs : /\ runs[r].eligibleIn \in Nat
                         /\ runs[r].pending # Null => runs[r].pending.left \in Nat
  BY RowType DEF TypeOK, Placed, Pending
<1>11. CASE Wake
  BY <1>11, <1>1 DEF Wake, EnsureScheduled, HoldInv, Active, ActiveStates,
     durable, handler, environment, history
<1>12. CASE AlarmFires
  BY <1>12, <1>1 DEF AlarmFires, EnterHandler, HoldInv, Active,
     ActiveStates, durable, handler, environment, history
<1>13. CASE AlarmRedelivered
  BY <1>13, <1>1 DEF AlarmRedelivered, EnterHandler, HoldInv, Active,
     ActiveStates, durable, handler, environment, history
<1>14. CASE LoopEnds
  BY <1>14, <1>1 DEF LoopEnds, HoldInv, Active, ActiveStates, durable,
     handler, environment, history
<1>15. CASE Iterate
  BY <1>15, <1>1 DEF Iterate, HoldInv, Active, ActiveStates, durable,
     handler, environment, history
<1>16. CASE Arm
  BY <1>16, <1>1 DEF Arm, HoldInv, Active, ActiveStates, durable, handler,
     environment, history
<1>17. CASE AcquireGranted
  BY <1>17, <1>1 DEF AcquireGranted, Elsewhere, HoldInv, Active,
     ActiveStates, durable, handler, environment, history
<1>18. CASE AcquireRefused
  <2>1. cur \in Runs /\ Active(cur) /\ runs[cur].eligibleIn = 0
    BY <1>18, <1>1 DEF AcquireRefused, ReportInv, HoldInv
  <2>2. PICK delay \in Nat : WaitFor(delay)
    BY <1>18, <2>1, ChannelAssumption DEF AcquireRefused, Placed
  <2>3. hold' = hold
    BY <1>18 DEF AcquireRefused, history
  <2> QED
    BY <2>1, <2>2, <2>3, LeavesLoop, HoldPostponed
<1>19. CASE AcquireHalted
  BY <1>19, <1>1 DEF AcquireHalted, EndRun, Elsewhere, HoldInv, Active,
     ActiveStates, durable, handler, environment, history
<1>20. CASE AcquireFails
  <2>1. cur \in Runs /\ Active(cur) /\ runs[cur].eligibleIn = 0
    BY <1>20, <1>1 DEF AcquireFails, ReportInv, HoldInv
  <2>2. PICK delay \in Nat : RetryIn(delay)
    BY <1>20, <2>1, InPageType DEF AcquireFails, Placed
  <2>3. hold' = hold
    BY <1>20 DEF AcquireFails, history
  <2> QED
    BY <2>1, <2>2, <2>3, LeavesLoop, HoldPostponed
<1>21. CASE FetchFails
  <2>1. cur \in Runs /\ Active(cur) /\ runs[cur].eligibleIn = 0
    BY <1>21, <1>1 DEF FetchFails, ReportInv, HoldInv
  <2>2. PICK delay \in Nat : RetryIn(delay)
    BY <1>21, <2>1, InPageType DEF FetchFails, Placed
  <2>3. hold' = hold
    BY <1>21 DEF FetchFails, history
  <2> QED
    BY <2>1, <2>2, <2>3, LeavesLoop, HoldPostponed
<1>22. CASE FetchPage
  BY <1>22, <1>1 DEF FetchPage, Answer, Elsewhere, HoldInv, Active,
     ActiveStates, durable, handler, environment, history
<1>23. CASE FetchOther
  BY <1>23, <1>1 DEF FetchOther, Answer, Elsewhere, HoldInv, Active,
     ActiveStates, durable, handler, environment, history
<1>24. CASE FetchRejected
  <2>1. PICK then \in {"halt", "fail", "wait"}, left \in Nat :
          FetchCritical(then, left)
    BY <1>24, ChannelAssumption DEF FetchRejected
  <2>2. /\ cur \in Runs /\ pc' = "loop" /\ cur' = cur /\ Active(cur)
        /\ runs[cur].pending = Null /\ runs[cur].eligibleIn = 0
    BY <2>1, <1>1 DEF FetchCritical, Elsewhere, ReportInv, HoldInv
  <2>3. /\ runs'[cur].state = "waiting"
        /\ runs'[cur].pending = [then |-> then, left |-> left]
        /\ \A r \in Runs \ {cur} : runs'[r] = runs[r]
    BY <2>1, <2>2, <1>1 DEF FetchCritical
  <2>4. runs'[cur].pending # Null /\ runs'[cur].pending.left = left
    BY <2>3, ChannelAssumption DEF Pending
  <2>5. hold' \in {hold, [run |-> cur, left |-> left]}
    BY <2>1 DEF FetchCritical
  <2>6. CASE hold' = hold
    <3>1. hold.run = cur => hold.left = 0
      BY <2>2, <1>1 DEF HoldInv
    <3> QED
      BY <2>2, <2>3, <2>4, <2>6, <3>1, <1>1 DEF HoldInv, Active
  <2>7. CASE hold' = [run |-> cur, left |-> left]
    BY <2>2, <2>3, <2>4, <2>7, <1>1 DEF HoldInv, Active
  <2> QED
    BY <2>5, <2>6, <2>7
<1>25. CASE CommitPage
  BY <1>25, <1>1 DEF CommitPage, Elsewhere, HoldInv, Active, ActiveStates,
     durable, handler, environment, history
<1>26. CASE ServerError
  <2>1. cur \in Runs /\ Active(cur) /\ runs[cur].eligibleIn = 0
    BY <1>26, <1>1 DEF ServerError, ReportInv, HoldInv
  <2>2. PICK delay \in Nat : RetryIn(delay)
    BY <1>26, <2>1, InPageType DEF ServerError, Placed
  <2>3. hold' = hold
    BY <1>26 DEF ServerError, history
  <2> QED
    BY <2>1, <2>2, <2>3, LeavesLoop, HoldPostponed
<1>27. CASE PermanentError
  <2>1. /\ cur \in Runs /\ pc' = "arm" /\ hold' = hold
        /\ runs' = [runs EXCEPT ![cur].state = "failed"]
    BY <1>27, <1>1 DEF PermanentError, EndRun, history
  <2>2. /\ runs'[cur].state = "failed"
        /\ \A r \in Runs \ {cur} : runs'[r] = runs[r]
    BY <2>1, <1>1 DEF RunRow
  <2> QED
    BY <2>1, <2>2, <1>1 DEF HoldInv, Active, ActiveStates
<1>28. CASE CommitAccepted
  BY <1>28, <1>1 DEF CommitAccepted, Elsewhere, HoldInv, Active,
     ActiveStates, durable, handler, environment, history
<1>29. CASE CommitFails
  <2>1. cur \in Runs /\ Active(cur) /\ runs[cur].eligibleIn = 0
    BY <1>29, <1>1 DEF CommitFails, ReportInv, HoldInv
  <2>2. PICK delay \in Nat : RetryIn(delay)
    BY <1>29, <2>1, InPageType DEF CommitFails, Placed
  <2>3. hold' = hold
    BY <1>29 DEF CommitFails, history
  <2> QED
    BY <2>1, <2>2, <2>3, LeavesLoop, HoldPostponed
<1>30. CASE CommitViolates
  BY <1>30, <1>1 DEF CommitViolates, EndRun, Elsewhere, HoldInv, Active,
     ActiveStates, durable, handler, environment, history
<1>31. CASE Progress
  <2>1. /\ cur \in Runs /\ runs[cur].pending = Null
        /\ hold' = [run |-> cur, left |-> reply.left] /\ pc' \in {"arm", "loop"}
    BY <1>31, <1>1 DEF Progress, ReportInv
  <2>2. reply.left \in Nat
    BY <1>31, <2>1, InPageType DEF Progress, Placed
  <2>3. /\ runs'[cur].eligibleIn = reply.left /\ runs'[cur].pending = Null
        /\ runs'[cur].state \in {"completed", "running"}
    BY <1>31, <2>1, <1>1 DEF Progress, RunRow
  <2> QED
    BY <2>1, <2>2, <2>3 DEF HoldInv
<1>32. CASE FlushRecorded
  BY <1>32, <1>1 DEF FlushRecorded, Elsewhere, HoldInv, Active,
     ActiveStates, durable, handler, environment, history
<1>33. CASE FlushFails
  <2>1. cur \in Runs /\ Active(cur) /\ runs[cur].eligibleIn = 0
    BY <1>33, <1>1 DEF FlushFails, ReportInv, HoldInv
  <2>2. /\ pc' = "arm" /\ hold' = hold
        /\ runs'[cur].state = "waiting"
        /\ runs'[cur].eligibleIn = TransientBackoff(runs[cur].attempt)
        /\ runs'[cur].pending = runs[cur].pending
        /\ \A r \in Runs \ {cur} : runs'[r] = runs[r]
    BY <1>33, <1>1 DEF FlushFails, RunRow
  <2>3. TransientBackoff(runs[cur].attempt) \in Nat
    BY <2>1, RowType
  <2> QED
    BY <2>1, <2>2, <2>3, HoldPostponed DEF ActiveStates
<1>34. CASE Resolve
  <2>1. /\ cur \in Runs /\ pc' = "arm" /\ hold' = hold /\ Active(cur)
        /\ runs[cur].pending \in Pending /\ runs[cur].pending # Null
    BY <1>34, <1>1, RowType DEF Resolve, Placed, ReportInv, history
  <2>2. /\ runs'[cur].state = DeferredState(runs[cur].pending.then)
        /\ runs'[cur].pending = Null
        /\ runs[cur].pending.then = "wait" =>
              runs'[cur].eligibleIn = runs[cur].pending.left
        /\ \A r \in Runs \ {cur} : runs'[r] = runs[r]
    BY <1>34, <2>1, <1>1 DEF Resolve, RunRow
  <2>3. /\ runs'[cur].state # "absent"
        /\ runs'[cur].state \in ActiveStates => runs[cur].pending.then = "wait"
    BY <2>1, <2>2 DEF DeferredState, Pending, ActiveStates
  <2>4. ASSUME hold.run \in Runs
        PROVE  runs'[hold.run].state # "absent"
    BY <2>2, <2>3, <2>4 DEF HoldInv
  <2>5. ASSUME hold.run \in Runs, Active(hold.run)'
        PROVE  hold.left <= IF runs'[hold.run].pending = Null
                            THEN runs'[hold.run].eligibleIn
                            ELSE runs'[hold.run].pending.left
    BY <2>1, <2>2, <2>3, <2>5 DEF HoldInv, Active
  <2> QED
    BY <2>1, <2>4, <2>5 DEF HoldInv, Active
<1>35. CASE Resume
  BY <1>35, <1>1 DEF Resume, EnsureScheduled, HoldInv, Active,
     ActiveStates, durable, handler, environment, history
<1>36. CASE Crash
  BY <1>36, <1>1 DEF Crash, HoldInv, Active, ActiveStates, durable,
     handler, environment, history
<1>37. CASE Tick
  <2>1. /\ pc' = pc /\ cur' = cur
        /\ runs' = [r \in Runs |-> RowAfterTick(runs[r])]
        /\ hold' = [hold EXCEPT !.left = Sooner(@)]
    BY <1>37 DEF Tick, environment
  <2>2. /\ hold'.run = hold.run /\ hold'.left = Sooner(hold.left)
        /\ hold.left \in Nat
    BY <2>1 DEF TypeOK
  <2>3. ASSUME NEW r \in Runs
        PROVE  /\ runs'[r].state = runs[r].state
               /\ runs'[r].eligibleIn = Sooner(runs[r].eligibleIn)
               /\ runs[r].pending = Null => runs'[r].pending = Null
               /\ runs[r].pending # Null =>
                     /\ runs'[r].pending # Null
                     /\ runs'[r].pending.left = Sooner(runs[r].pending.left)
    <3>1. runs[r] \in RunRow /\ runs[r].pending \in Pending \cup {Null}
      BY RowType
    <3>2. runs'[r] = RowAfterTick(runs[r])
      BY <2>1
    <3>3. ASSUME runs[r].pending # Null
          PROVE  LET p == [runs[r].pending EXCEPT !.left = Sooner(@)]
                 IN  p # Null /\ p.left = Sooner(runs[r].pending.left)
      <4>1. \A t \in Nat : Sooner(t) \in Nat
        BY LeftType DEF Sooner
      <4> QED
        BY <3>1, <3>3, <4>1, ChannelAssumption DEF Pending
    <3> QED
      BY <3>1, <3>2, <3>3 DEF RowAfterTick, RunRow
  <2>4. \A a, b \in Nat : a <= b => Sooner(a) <= Sooner(b)
    BY DEF Sooner, Left
  <2>5. Sooner(0) = 0
    BY DEF Sooner, Left
  <2>6. ASSUME hold.run \in Runs, Active(hold.run)'
        PROVE  hold'.left <= IF runs'[hold.run].pending = Null
                             THEN runs'[hold.run].eligibleIn
                             ELSE runs'[hold.run].pending.left
    <3>1. Active(hold.run)
      BY <2>2, <2>3, <2>6 DEF Active
    <3>2. CASE runs[hold.run].pending = Null
      BY <1>1, <2>2, <2>3, <2>4, <2>6, <3>1, <3>2 DEF HoldInv
    <3>3. CASE runs[hold.run].pending # Null
      BY <1>1, <2>2, <2>3, <2>4, <2>6, <3>1, <3>3 DEF HoldInv
    <3> QED
      BY <3>2, <3>3
  <2>7. pc \in {"acquire", "fetch", "advise", "commit", "progress", "flush",
                "resolve"} => runs'[cur].eligibleIn = 0
    BY <1>1, <2>3, <2>5 DEF HoldInv
  <2>8. hold.run \in Runs => runs'[hold.run].state # "absent"
    BY <2>3 DEF HoldInv
  <2> QED
    BY <2>1, <2>2, <2>6, <2>7, <2>8 DEF HoldInv, Active
<1>38. CASE Post
  BY <1>38, <1>1 DEF Post, HoldInv, Active, ActiveStates, durable, handler,
     environment, history
<1>39. ASSUME NEW r \in Runs, NEW range \in Ranges, Start(r, range)
       PROVE  HoldInv'
  BY <1>39, <1>1 DEF Start, AbsentRun, HoldInv, Active, ActiveStates,
     durable, handler, environment, history
<1>40. ASSUME NEW m \in Messages, Delete(m)
       PROVE  HoldInv'
  BY <1>40, <1>1 DEF Delete, HoldInv, Active, ActiveStates, durable,
     handler, environment, history
<1>41. CASE UNCHANGED vars
  BY <1>41, <1>1 DEF vars, HoldInv, Active, ActiveStates, durable, handler,
     environment, history
<1> QED
  BY <1>11, <1>12, <1>13, <1>14, <1>15, <1>16, <1>17, <1>18, <1>19, <1>20,
     <1>21, <1>22, <1>23, <1>24, <1>25, <1>26, <1>27, <1>28, <1>29, <1>30,
     <1>31, <1>32, <1>33, <1>34, <1>35, <1>36, <1>37, <1>38, <1>39, <1>40,
     <1>41
     DEF Next, AlarmHandler

(* A run sends no request before a Retry-After or an exhausted route bucket *)
(* that it has recorded has run out, whatever crashes, failed reports,      *)
(* repeated alarms and resume() calls came in between.                      *)
THEOREM HoldsRespected == Spec => HoldHonoured
<1>1. Init => HoldInv
  BY ChannelAssumption DEF Init, HoldInv
<1>2. ASSUME TypeOK, Placed, ReportInv, HoldInv, [Next]_vars, RequestSent
      PROVE  hold.run = cur => hold.left = 0
  <2>1. AcquireGranted
    BY <1>2, SendStep
  <2>2. /\ cur \in Runs /\ Active(cur)
        /\ runs[cur].pending = Null /\ runs[cur].eligibleIn = 0
    BY <1>2, <2>1 DEF AcquireGranted, ReportInv, HoldInv, Placed
  <2>3. hold.left \in Nat
    BY <1>2 DEF TypeOK
  <2> QED
    BY <1>2, <2>2, <2>3 DEF HoldInv
<1>3. TypeOK /\ Placed /\ ReportInv /\ HoldInv /\ [Next]_vars
        => [RequestSent => (hold.run = cur => hold.left = 0)]_vars
  BY <1>2
<1>4. TypeOK /\ Placed /\ ReportInv /\ HoldInv /\ [Next]_vars => HoldInv'
  BY HoldStep
<1> QED
  BY <1>1, <1>3, <1>4, ReportInvariant, PTL DEF Spec, HoldHonoured

-----------------------------------------------------------------------------
(* The crawl leaves no gap.                                                 *)

Below(m, before) == before = Null \/ m < before

(* The page in hand comes from below the cursor.  It holds every message    *)
(* there that is newer than its oldest, and all of them when it is not      *)
(* full: of the messages that count, those present at the start and never   *)
(* deleted.                                                                 *)
InFlight ==
    /\ pc \in {"commit", "progress"} => reply.class = "page"
    /\ (pc \in {"advise", "commit", "progress"} /\ reply.class = "page") =>
          \A p \in reply.page : Below(p, NextRequestBefore(cur))
    /\ (pc \in {"advise", "commit", "progress"} /\ reply.class = "page") =>
          \A m \in stable[cur] :
             (Below(m, NextRequestBefore(cur)) /\ m \notin reply.page) =>
                /\ \A p \in reply.page : m < p
                /\ Cardinality(reply.page) >= PageLimit
    /\ pc = "progress" => NewObject \in archive

CrawlInv ==
    /\ \A r \in Runs : stable[r] \subseteq discord
    /\ ProgressBacked
    /\ NoGap
    /\ InFlight

\* What all but two steps keep of the progress of the runs.
ProgressKept ==
    /\ \A r \in Runs :
          /\ runs'[r].range = runs[r].range
          /\ runs'[r].cursor = runs[r].cursor
          /\ runs'[r].last = runs[r].last
          /\ runs'[r].state = "completed" <=> runs[r].state = "completed"
          /\ stable'[r] \subseteq stable[r]
          /\ stable'[r] \subseteq discord'
    /\ archive \subseteq archive'

\* All steps but Progress and Start.
LEMMA ProgressStep ==
  ASSUME TypeOK, Placed, ReportInv, \A r \in Runs : stable[r] \subseteq discord,
         ~ Progress, ~ \E r \in Runs, range \in Ranges : Start(r, range), [Next]_vars
  PROVE  ProgressKept
<1>1. /\ runs \in [Runs -> RunRow] /\ (pc # "idle" => cur \in Runs)
      /\ stable \in [Runs -> SUBSET Messages]
      /\ \A r \in Runs : stable[r] \subseteq discord
  BY DEF TypeOK, Placed
<1>11. CASE Wake
  BY <1>11, <1>1 DEF Wake, EnsureScheduled, ProgressKept, ReportInv,
     Active, ActiveStates, TerminalStates, RunRow, durable, handler,
     environment, history
<1>12. CASE AlarmFires
  BY <1>12, <1>1 DEF AlarmFires, EnterHandler, ProgressKept, ReportInv,
     Active, ActiveStates, TerminalStates, RunRow, durable, handler,
     environment, history
<1>13. CASE AlarmRedelivered
  BY <1>13, <1>1 DEF AlarmRedelivered, EnterHandler, ProgressKept,
     ReportInv, Active, ActiveStates, TerminalStates, RunRow, durable,
     handler, environment, history
<1>14. CASE LoopEnds
  BY <1>14, <1>1 DEF LoopEnds, ProgressKept, ReportInv, Active,
     ActiveStates, TerminalStates, RunRow, durable, handler, environment,
     history
<1>15. CASE Iterate
  BY <1>15, <1>1 DEF Iterate, ProgressKept, ReportInv, Active,
     ActiveStates, TerminalStates, RunRow, durable, handler, environment,
     history
<1>16. CASE Arm
  BY <1>16, <1>1 DEF Arm, ProgressKept, ReportInv, Active, ActiveStates,
     TerminalStates, RunRow, durable, handler, environment, history
<1>17. CASE AcquireGranted
  BY <1>17, <1>1 DEF AcquireGranted, Elsewhere, ProgressKept, ReportInv,
     Active, ActiveStates, TerminalStates, RunRow, durable, handler,
     environment, history
<1>18. CASE AcquireRefused
  BY <1>18, <1>1 DEF AcquireRefused, WaitFor, Elsewhere, ProgressKept,
     ReportInv, Active, ActiveStates, TerminalStates, RunRow, durable,
     handler, environment, history
<1>19. CASE AcquireHalted
  BY <1>19, <1>1 DEF AcquireHalted, EndRun, Elsewhere, ProgressKept,
     ReportInv, Active, ActiveStates, TerminalStates, RunRow, durable,
     handler, environment, history
<1>20. CASE AcquireFails
  BY <1>20, <1>1 DEF AcquireFails, RetryIn, Elsewhere, ProgressKept,
     ReportInv, Active, ActiveStates, TerminalStates, RunRow, durable,
     handler, environment, history
<1>21. CASE FetchFails
  BY <1>21, <1>1 DEF FetchFails, RetryIn, Elsewhere, ProgressKept,
     ReportInv, Active, ActiveStates, TerminalStates, RunRow, durable,
     handler, environment, history
<1>22. CASE FetchPage
  BY <1>22, <1>1 DEF FetchPage, Answer, Elsewhere, ProgressKept, ReportInv,
     Active, ActiveStates, TerminalStates, RunRow, durable, handler,
     environment, history
<1>23. CASE FetchOther
  BY <1>23, <1>1 DEF FetchOther, Answer, Elsewhere, ProgressKept,
     ReportInv, Active, ActiveStates, TerminalStates, RunRow, durable,
     handler, environment, history
<1>24. CASE FetchRejected
  <2>1. PICK then \in {"halt", "fail", "wait"}, left \in Nat :
          FetchCritical(then, left)
    BY <1>24, ChannelAssumption DEF FetchRejected
  <2>2. /\ cur \in Runs /\ Active(cur) /\ archive' = archive /\ stable' = stable
        /\ discord' = discord
    BY <2>1, <1>1 DEF FetchCritical, Elsewhere, ReportInv, environment
  <2>3. /\ runs'[cur].range = runs[cur].range
        /\ runs'[cur].cursor = runs[cur].cursor
        /\ runs'[cur].last = runs[cur].last
        /\ runs'[cur].state = "waiting"
        /\ \A r \in Runs \ {cur} : runs'[r] = runs[r]
    BY <2>1, <2>2, <1>1 DEF FetchCritical, RunRow
  <2> QED
    BY <2>2, <2>3, <1>1 DEF ProgressKept, Active, ActiveStates
<1>25. CASE CommitPage
  BY <1>25, <1>1 DEF CommitPage, Elsewhere, ProgressKept, ReportInv,
     Active, ActiveStates, TerminalStates, RunRow, durable, handler,
     environment, history
<1>26. CASE ServerError
  BY <1>26, <1>1 DEF ServerError, RetryIn, Elsewhere, ProgressKept,
     ReportInv, Active, ActiveStates, TerminalStates, RunRow, durable,
     handler, environment, history
<1>27. CASE PermanentError
  BY <1>27, <1>1 DEF PermanentError, EndRun, Elsewhere, ProgressKept,
     ReportInv, Active, ActiveStates, TerminalStates, RunRow, durable,
     handler, environment, history
<1>28. CASE CommitAccepted
  BY <1>28, <1>1 DEF CommitAccepted, Elsewhere, ProgressKept, ReportInv,
     Active, ActiveStates, TerminalStates, RunRow, durable, handler,
     environment, history
<1>29. CASE CommitFails
  BY <1>29, <1>1 DEF CommitFails, RetryIn, Elsewhere, ProgressKept,
     ReportInv, Active, ActiveStates, TerminalStates, RunRow, durable,
     handler, environment, history
<1>30. CASE CommitViolates
  BY <1>30, <1>1 DEF CommitViolates, EndRun, Elsewhere, ProgressKept,
     ReportInv, Active, ActiveStates, TerminalStates, RunRow, durable,
     handler, environment, history
<1>31. CASE Progress
  BY <1>31, <1>1 DEF Progress, Elsewhere, ProgressKept, ReportInv, Active,
     ActiveStates, TerminalStates, RunRow, durable, handler, environment,
     history
<1>32. CASE FlushRecorded
  BY <1>32, <1>1 DEF FlushRecorded, Elsewhere, ProgressKept, ReportInv,
     Active, ActiveStates, TerminalStates, RunRow, durable, handler,
     environment, history
<1>33. CASE FlushFails
  BY <1>33, <1>1 DEF FlushFails, Elsewhere, ProgressKept, ReportInv,
     Active, ActiveStates, TerminalStates, RunRow, durable, handler,
     environment, history
<1>34. CASE Resolve
  <2>1. /\ cur \in Runs /\ Active(cur) /\ archive' = archive /\ stable' = stable
        /\ discord' = discord /\ runs[cur].pending \in Pending
    BY <1>34, <1>1, RowType DEF Resolve, Elsewhere, ReportInv, Placed, environment,
                               history
  <2>2. DeferredState(runs[cur].pending.then) # "completed"
    BY <2>1 DEF DeferredState, Pending
  <2>3. /\ runs'[cur].range = runs[cur].range
        /\ runs'[cur].cursor = runs[cur].cursor
        /\ runs'[cur].last = runs[cur].last
        /\ runs'[cur].state = DeferredState(runs[cur].pending.then)
        /\ \A r \in Runs \ {cur} : runs'[r] = runs[r]
    BY <1>34, <2>1, <1>1 DEF Resolve, RunRow
  <2> QED
    BY <2>1, <2>2, <2>3, <1>1 DEF ProgressKept, Active, ActiveStates
<1>35. CASE Resume
  BY <1>35, <1>1 DEF Resume, EnsureScheduled, ProgressKept, ReportInv,
     Active, ActiveStates, TerminalStates, RunRow, durable, handler,
     environment, history
<1>36. CASE Crash
  BY <1>36, <1>1 DEF Crash, ProgressKept, ReportInv, Active, ActiveStates,
     TerminalStates, RunRow, durable, handler, environment, history
<1>37. CASE Tick
  BY <1>37, <1>1 DEF Tick, RowAfterTick, ProgressKept, ReportInv, Active,
     ActiveStates, TerminalStates, RunRow, durable, handler, environment,
     history
<1>38. CASE Post
  BY <1>38, <1>1 DEF Post, ProgressKept, ReportInv, Active, ActiveStates,
     TerminalStates, RunRow, durable, handler, environment, history
<1>39. ASSUME NEW r \in Runs, NEW range \in Ranges, Start(r, range)
       PROVE  ProgressKept
  BY <1>39, <1>1 DEF Start, AbsentRun, ProgressKept, ReportInv, Active,
     ActiveStates, TerminalStates, RunRow, durable, handler, environment,
     history
<1>40. ASSUME NEW m \in Messages, Delete(m)
       PROVE  ProgressKept
  BY <1>40, <1>1 DEF Delete, ProgressKept, ReportInv, Active, ActiveStates,
     TerminalStates, RunRow, durable, handler, environment, history
<1>41. CASE UNCHANGED vars
  BY <1>41, <1>1 DEF vars, ProgressKept, ReportInv, Active, ActiveStates,
     TerminalStates, RunRow, durable, handler, environment, history
<1> QED
  BY <1>11, <1>12, <1>13, <1>14, <1>15, <1>16, <1>17, <1>18, <1>19, <1>20,
     <1>21, <1>22, <1>23, <1>24, <1>25, <1>26, <1>27, <1>28, <1>29, <1>30,
     <1>31, <1>32, <1>33, <1>34, <1>35, <1>36, <1>37, <1>38, <1>39, <1>40,
     <1>41
     DEF Next, AlarmHandler

LEMMA ArchivedMember ==
  ASSUME NEW r \in Runs, NEW m
  PROVE  m \in Archived(r) <=> \E o \in archive : o.run = r /\ m \in o.page
BY DEF Archived

\* Then nothing is uncovered.
LEMMA CoveredKept ==
  ASSUME TypeOK, CrawlInv, ProgressKept
  PROVE  /\ \A r \in Runs : stable'[r] \subseteq discord'
         /\ ProgressBacked'
         /\ NoGap'
<1>1. \A r \in Runs : stable'[r] \subseteq discord'
  BY DEF ProgressKept
<1>2. ProgressBacked'
  BY DEF ProgressKept, CrawlInv, ProgressBacked
<1>3. ASSUME NEW r \in Runs, NEW m \in stable'[r] \cap Claimed(r)'
      PROVE  m \in Archived(r)'
  <2>1. Claimed(r)' = Claimed(r)
    BY DEF Claimed, ProgressKept
  <2>2. m \in Archived(r)
    BY <2>1 DEF ProgressKept, CrawlInv, NoGap
  <2> QED
    BY <2>2 DEF Archived, ProgressKept
<1> QED
  BY <1>1, <1>2, <1>3 DEF NoGap

\* The page in hand stays what InFlight says.
LEMMA InFlightStep ==
  ASSUME TypeOK, Placed, CrawlInv, ProgressKept, [Next]_vars
  PROVE  InFlight'
<1>1. /\ runs \in [Runs -> RunRow] /\ (pc # "idle" => cur \in Runs)
      /\ stable \in [Runs -> SUBSET Messages] /\ discord \subseteq Messages
      /\ \A r \in Runs : stable[r] \subseteq discord
      /\ InFlight
  BY DEF TypeOK, Placed, CrawlInv
<1>11. CASE Wake
  BY <1>11, <1>1 DEF Wake, EnsureScheduled, InFlight, Below,
     NextRequestBefore, NewObject, durable, handler, environment, history
<1>12. CASE AlarmFires
  BY <1>12, <1>1 DEF AlarmFires, EnterHandler, InFlight, Below,
     NextRequestBefore, NewObject, durable, handler, environment, history
<1>13. CASE AlarmRedelivered
  BY <1>13, <1>1 DEF AlarmRedelivered, EnterHandler, InFlight, Below,
     NextRequestBefore, NewObject, durable, handler, environment, history
<1>14. CASE LoopEnds
  BY <1>14, <1>1 DEF LoopEnds, InFlight, Below, NextRequestBefore,
     NewObject, durable, handler, environment, history
<1>15. CASE Iterate
  BY <1>15, <1>1 DEF Iterate, InFlight, Below, NextRequestBefore,
     NewObject, durable, handler, environment, history
<1>16. CASE Arm
  BY <1>16, <1>1 DEF Arm, InFlight, Below, NextRequestBefore, NewObject,
     durable, handler, environment, history
<1>17. CASE AcquireGranted
  BY <1>17, <1>1 DEF AcquireGranted, Elsewhere, InFlight, Below,
     NextRequestBefore, NewObject, durable, handler, environment, history
<1>18. CASE AcquireRefused
  BY <1>18, <1>1 DEF AcquireRefused, WaitFor, Elsewhere, InFlight, Below,
     NextRequestBefore, NewObject, durable, handler, environment, history
<1>19. CASE AcquireHalted
  BY <1>19, <1>1 DEF AcquireHalted, EndRun, Elsewhere, InFlight, Below,
     NextRequestBefore, NewObject, durable, handler, environment, history
<1>20. CASE AcquireFails
  BY <1>20, <1>1 DEF AcquireFails, RetryIn, Elsewhere, InFlight, Below,
     NextRequestBefore, NewObject, durable, handler, environment, history
<1>21. CASE FetchFails
  BY <1>21, <1>1 DEF FetchFails, RetryIn, Elsewhere, InFlight, Below,
     NextRequestBefore, NewObject, durable, handler, environment, history
<1>22. CASE FetchPage
  <2>1. PICK page \in SUBSET Older(NextRequestBefore(cur)),
             left \in Resets \cup {0} :
          /\ IsPage(page, NextRequestBefore(cur))
          /\ Answer("page", page, left)
    BY <1>22 DEF FetchPage, ResetDelays
  <2>2. /\ pc' = "advise" /\ cur' = cur /\ runs' = runs /\ stable' = stable
        /\ reply'.class = "page" /\ reply'.page = page /\ cur \in Runs
    BY <2>1, <1>1 DEF Answer, Elsewhere, history
  <2>3. Cardinality(page) \in Nat
    <3>1. page \subseteq Messages /\ IsFiniteSet(Messages)
      BY <1>1, FS_Interval, ChannelAssumption DEF Older, Messages
    <3> QED
      BY <3>1, FS_Subset, FS_CardinalityType
  <2>4. ASSUME NEW m \in stable[cur],
               Below(m, NextRequestBefore(cur)), m \notin page
        PROVE  /\ \A p \in page : m < p
               /\ Cardinality(page) >= PageLimit
    <3>1. m \in Older(NextRequestBefore(cur))
      BY <2>2, <2>4, <1>1 DEF Older, Below
    <3>2. ~ (Cardinality(page) < PageLimit)
      BY <2>1, <2>4, <3>1 DEF IsPage
    <3>3. \A p \in page : m < p
      BY <2>1, <2>4, <3>1 DEF IsPage
    <3> QED
      BY <2>3, <3>2, <3>3, ChannelAssumption
  <2>5. \A p \in page : Below(p, NextRequestBefore(cur))
    BY <2>1 DEF IsPage, Older, Below
  <2> QED
    BY <2>2, <2>4, <2>5 DEF InFlight, NextRequestBefore
<1>23. CASE FetchOther
  BY <1>23, <1>1 DEF FetchOther, Answer, Elsewhere, InFlight, Below,
     NextRequestBefore, NewObject, durable, handler, environment, history
<1>24. CASE FetchRejected
  BY <1>24, <1>1 DEF FetchRejected, FetchCritical, Elsewhere, InFlight,
     Below, NextRequestBefore, NewObject, durable, handler, environment,
     history
<1>25. CASE CommitPage
  BY <1>25, <1>1 DEF CommitPage, Elsewhere, InFlight, Below,
     NextRequestBefore, NewObject, durable, handler, environment, history
<1>26. CASE ServerError
  BY <1>26, <1>1 DEF ServerError, RetryIn, Elsewhere, InFlight, Below,
     NextRequestBefore, NewObject, durable, handler, environment, history
<1>27. CASE PermanentError
  BY <1>27, <1>1 DEF PermanentError, EndRun, Elsewhere, InFlight, Below,
     NextRequestBefore, NewObject, durable, handler, environment, history
<1>28. CASE CommitAccepted
  BY <1>28, <1>1 DEF CommitAccepted, Elsewhere, InFlight, Below,
     NextRequestBefore, NewObject, durable, handler, environment, history
<1>29. CASE CommitFails
  BY <1>29, <1>1 DEF CommitFails, RetryIn, Elsewhere, InFlight, Below,
     NextRequestBefore, NewObject, durable, handler, environment, history
<1>30. CASE CommitViolates
  BY <1>30, <1>1 DEF CommitViolates, EndRun, Elsewhere, InFlight, Below,
     NextRequestBefore, NewObject, durable, handler, environment, history
<1>31. CASE Progress
  BY <1>31, <1>1 DEF Progress, Elsewhere, InFlight, Below,
     NextRequestBefore, NewObject, durable, handler, environment, history
<1>32. CASE FlushRecorded
  BY <1>32, <1>1 DEF FlushRecorded, Elsewhere, InFlight, Below,
     NextRequestBefore, NewObject, durable, handler, environment, history
<1>33. CASE FlushFails
  BY <1>33, <1>1 DEF FlushFails, Elsewhere, InFlight, Below,
     NextRequestBefore, NewObject, durable, handler, environment, history
<1>34. CASE Resolve
  BY <1>34, <1>1 DEF Resolve, DeferredState, Elsewhere, InFlight, Below,
     NextRequestBefore, NewObject, durable, handler, environment, history
<1>35. CASE Resume
  BY <1>35, <1>1 DEF Resume, EnsureScheduled, InFlight, Below,
     NextRequestBefore, NewObject, durable, handler, environment, history
<1>36. CASE Crash
  BY <1>36, <1>1 DEF Crash, InFlight, Below, NextRequestBefore, NewObject,
     durable, handler, environment, history
<1>37. CASE Tick
  <2>1. /\ pc' = pc /\ cur' = cur /\ stable' = stable /\ archive' = archive
        /\ reply # Null => reply'.class = reply.class /\ reply'.page = reply.page
    BY <1>37 DEF Tick, TypeOK, Reply, environment
  <2>2. pc \in {"advise", "commit", "progress"} =>
          NextRequestBefore(cur)' = NextRequestBefore(cur)
    BY <2>1, <1>1 DEF NextRequestBefore, ProgressKept
  <2>3. pc \in {"advise", "commit", "progress"} => reply # Null
    BY DEF Placed
  <2>4. pc = "progress" => NewObject' = NewObject
    BY <2>1, <2>2, <2>3 DEF NewObject
  <2> QED
    BY <1>1, <2>1, <2>2, <2>3, <2>4 DEF InFlight
<1>38. CASE Post
  BY <1>38, <1>1 DEF Post, InFlight, Below, NextRequestBefore, NewObject,
     durable, handler, environment, history
<1>39. ASSUME NEW r \in Runs, NEW range \in Ranges, Start(r, range)
       PROVE  InFlight'
  BY <1>39, <1>1 DEF Start, AbsentRun, InFlight, Below, NextRequestBefore,
     NewObject, durable, handler, environment, history
<1>40. ASSUME NEW m \in Messages, Delete(m)
       PROVE  InFlight'
  BY <1>40, <1>1 DEF Delete, InFlight, Below, NextRequestBefore, NewObject,
     durable, handler, environment, history
<1>41. CASE UNCHANGED vars
  BY <1>41, <1>1 DEF vars, InFlight, Below, NextRequestBefore, NewObject,
     durable, handler, environment, history
<1> QED
  BY <1>11, <1>12, <1>13, <1>14, <1>15, <1>16, <1>17, <1>18, <1>19, <1>20,
     <1>21, <1>22, <1>23, <1>24, <1>25, <1>26, <1>27, <1>28, <1>29, <1>30,
     <1>31, <1>32, <1>33, <1>34, <1>35, <1>36, <1>37, <1>38, <1>39, <1>40,
     <1>41
     DEF Next, AlarmHandler

\* A run that starts claims nothing yet.
LEMMA CrawlStart ==
  ASSUME TypeOK, Placed, CrawlInv, NEW r \in Runs, NEW range \in Ranges,
         Start(r, range)
  PROVE  CrawlInv'
<1>1. /\ runs' = [runs EXCEPT ![r] = [AbsentRun EXCEPT !.state = "running",
                                                     !.range = range]]
      /\ stable' = [stable EXCEPT ![r] = discord]
      /\ archive' = archive /\ discord' = discord
      /\ pc = "idle" /\ pc' = "idle"
  BY DEF Start, handler, environment
<1>2. /\ runs \in [Runs -> RunRow] /\ stable \in [Runs -> SUBSET Messages]
  BY DEF TypeOK
<1>3. /\ runs'[r].state = "running" /\ runs'[r].cursor = Null
      /\ runs'[r].last = Null /\ stable'[r] = discord
      /\ \A s \in Runs \ {r} : runs'[s] = runs[s] /\ stable'[s] = stable[s]
  BY <1>1, <1>2 DEF AbsentRun
<1>4. \A s \in Runs : stable'[s] \subseteq discord'
  BY <1>1, <1>3 DEF CrawlInv
<1>5. ProgressBacked'
  BY <1>1, <1>3 DEF CrawlInv, ProgressBacked
<1>6. ASSUME NEW s \in Runs
      PROVE  stable'[s] \cap Claimed(s)' \subseteq Archived(s)'
  <2>1. CASE s = r
    BY <1>3, <2>1 DEF Claimed
  <2>2. CASE s # r
    <3>1. Claimed(s)' = Claimed(s) /\ Archived(s)' = Archived(s)
      BY <1>1, <1>3, <2>2 DEF Claimed, Archived
    <3> QED
      BY <1>3, <2>2, <3>1 DEF CrawlInv, NoGap
  <2> QED
    BY <2>1, <2>2
<1>7. InFlight'
  BY <1>1 DEF InFlight
<1> QED
  BY <1>4, <1>5, <1>6, <1>7 DEF CrawlInv, NoGap

\* When the cursor moves, what it leaves behind is in the archive: either it
\* was before, or the page in hand holds it.
LEMMA CrawlProgress ==
  ASSUME TypeOK, Placed, ReportInv, CrawlInv, Progress
  PROVE  CrawlInv'
<1> DEFINE before == NextRequestBefore(cur)
           page   == reply.page
           range  == runs[cur].range
           done   == Completes(page, range)
<1>1. /\ runs \in [Runs -> RunRow] /\ stable \in [Runs -> SUBSET Messages]
      /\ cur \in Runs /\ runs[cur] \in RunRow /\ reply \in Reply
      /\ Active(cur) /\ pc = "progress"
  BY DEF Progress, TypeOK, Placed, ReportInv
<1>2. /\ pc' \in {"arm", "loop"} /\ archive' = archive /\ stable' = stable
      /\ discord' = discord /\ cur' = cur
  BY DEF Progress, Elsewhere, environment
<1>3. /\ runs'[cur].state = IF done THEN "completed" ELSE "running"
      /\ runs'[cur].cursor = IF done THEN runs[cur].cursor ELSE Min(page)
      /\ runs'[cur].range = range
      /\ runs'[cur].last = NewObject
      /\ \A r \in Runs \ {cur} : runs'[r] = runs[r]
  BY <1>1 DEF Progress, RunRow
<1>4. NewObject \in archive /\ NewObject.run = cur /\ NewObject.page = page
  BY <1>1 DEF CrawlInv, InFlight, NewObject
<1>5. /\ page \in SUBSET Nat /\ page \subseteq Messages
      /\ stable[cur] \subseteq Nat /\ stable[cur] \subseteq Messages
      /\ range.after \in Nat \cup {Null} /\ range.before \in Nat \cup {Null}
      /\ runs[cur].cursor \in Nat \cup {Null}
  BY <1>1 DEF Reply, RunRow, CrawlRange, Messages
<1>6. page # {} => Min(page) \in page /\ \A p \in page : Min(page) <= p
  BY <1>5, MinExists
<1>7. ASSUME NEW m \in stable[cur], InRange(m, range), ~ Below(m, before)
      PROVE  m \in Archived(cur)
  <2>1. CASE runs[cur].cursor = Null
    BY <1>1, <1>5, <1>7, <2>1 DEF Below, NextRequestBefore, InRange
  <2>2. CASE runs[cur].cursor # Null
    <3>1. m >= runs[cur].cursor
      BY <1>5, <1>7, <2>2 DEF Below, NextRequestBefore
    <3>2. m \in Claimed(cur)
      BY <1>5, <1>7, <2>2, <3>1 DEF Claimed
    <3> QED
      BY <1>1, <3>2 DEF CrawlInv, NoGap
  <2> QED
    BY <2>1, <2>2
<1>8. ASSUME NEW m \in stable[cur], Below(m, before), m \notin page
      PROVE  (\A p \in page : m < p) /\ Cardinality(page) >= PageLimit
  BY <1>1, <1>8 DEF CrawlInv, InFlight
<1>9. ASSUME NEW m \in stable[cur], InRange(m, range), done \/ m >= Min(page)
      PROVE  m \in page \/ ~ Below(m, before)
  <2> SUFFICES ASSUME m \notin page, Below(m, before)
               PROVE  FALSE
    OBVIOUS
  <2>1. (\A p \in page : m < p) /\ Cardinality(page) >= PageLimit
    BY <1>8
  <2>2. page # {}
    <3>1. Cardinality({}) = 0
      BY FS_EmptySet
    <3>2. Cardinality(page) # 0
      BY <2>1, ChannelAssumption
    <3> QED
      BY <3>1, <3>2, Zenon
  <2>3. m < Min(page) /\ m \in Nat /\ Min(page) \in Nat
    BY <1>5, <1>6, <2>1, <2>2
  <2>4. CASE done
    <3>1. Cardinality(page) \in Nat
      <4>1. IsFiniteSet(page)
        <5>1. IsFiniteSet(Messages)
          BY FS_Interval, ChannelAssumption DEF Messages
        <5> QED
          BY <1>5, <5>1, FS_Subset
      <4> QED
        BY <4>1, FS_CardinalityType
    <3>2. ~ (Cardinality(page) < PageLimit)
      BY <2>1, <3>1, ChannelAssumption
    <3>3. range.after # Null /\ Min(page) <= range.after
      BY <2>2, <2>4, <3>2 DEF Completes
    <3> QED
      BY <1>5, <1>9, <2>3, <3>3 DEF InRange
  <2>5. CASE m >= Min(page)
    BY <2>3, <2>5
  <2> QED
    BY <1>9, <2>4, <2>5
<1>10. ASSUME NEW m \in stable[cur] \cap Claimed(cur)'
       PROVE  m \in Archived(cur)
  <2>1. InRange(m, range) /\ m \in stable[cur]
    BY <1>2, <1>3 DEF Claimed, InRange
  <2>2. done \/ m >= Min(page)
    <3> SUFFICES ASSUME ~ done
                 PROVE  m >= Min(page)
      OBVIOUS
    <3>1. runs'[cur].state = "running" /\ runs'[cur].cursor = Min(page)
      BY <1>3
    <3> QED
      BY <1>2, <3>1 DEF Claimed
  <2>3. CASE m \in page
    BY <1>1, <1>4, <2>3, ArchivedMember
  <2>4. CASE ~ Below(m, before)
    BY <1>7, <2>1, <2>4
  <2> QED
    BY <1>9, <2>1, <2>2, <2>3, <2>4
<1>11. NoGap'
  <2> SUFFICES ASSUME NEW r \in Runs
               PROVE  stable'[r] \cap Claimed(r)' \subseteq Archived(r)'
    BY DEF NoGap
  <2>1. Archived(r)' = Archived(r)
    BY <1>2 DEF Archived
  <2>2. CASE r = cur
    <3>1. Claimed(r)' = Claimed(cur)' /\ Archived(r) = Archived(cur)
      BY <1>2, <2>2 DEF Claimed, Archived
    <3>2. stable'[r] = stable[cur]
      BY <1>2, <2>2
    <3> QED
      BY <1>10, <2>1, <3>1, <3>2
  <2>3. CASE r # cur
    <3>1. Claimed(r)' = Claimed(r)
      BY <1>3, <2>3 DEF Claimed
    <3> QED
      BY <1>2, <2>1, <3>1 DEF CrawlInv, NoGap
  <2> QED
    BY <2>2, <2>3
<1>12. ProgressBacked'
  <2>1. NewObject # Null
    BY <1>1, InPageType, ChannelAssumption DEF Placed
  <2> QED
    BY <1>2, <1>3, <1>4, <2>1 DEF CrawlInv, ProgressBacked
<1> QED
  BY <1>2, <1>11, <1>12 DEF CrawlInv, InFlight

LEMMA CrawlInvariant == Spec => [](CrawlInv /\ TypeOK)
<1>1. Init => CrawlInv
  <2> SUFFICES ASSUME Init
               PROVE  CrawlInv
    OBVIOUS
  <2> USE DEF Init
  <2>1. \A r \in Runs : runs[r] = AbsentRun /\ stable[r] = {}
    OBVIOUS
  <2>2. ProgressBacked
    BY <2>1 DEF ProgressBacked, AbsentRun
  <2>3. NoGap
    BY <2>1 DEF NoGap
  <2>4. InFlight
    BY DEF InFlight
  <2> QED
    BY <2>1, <2>2, <2>3, <2>4 DEF CrawlInv
<1>2. TypeOK /\ Placed /\ ReportInv /\ CrawlInv /\ [Next]_vars => CrawlInv'
  <2> SUFFICES ASSUME TypeOK, Placed, ReportInv, CrawlInv, [Next]_vars
               PROVE  CrawlInv'
    OBVIOUS
  <2>1. CASE Progress
    BY <2>1, CrawlProgress
  <2>2. CASE \E r \in Runs, range \in Ranges : Start(r, range)
    BY <2>2, CrawlStart
  <2>3. CASE ~ Progress /\ ~ \E r \in Runs, range \in Ranges : Start(r, range)
    <3>1. \A r \in Runs : stable[r] \subseteq discord
      BY DEF CrawlInv
    <3>2. ProgressKept
      BY <2>3, <3>1, ProgressStep
    <3> QED
      BY <3>2, CoveredKept, InFlightStep DEF CrawlInv
  <2> QED
    BY <2>1, <2>2, <2>3
<1> QED
  BY <1>1, <1>2, ReportInvariant, PTL DEF Spec

(* Every message that was there when the run started and was not deleted    *)
(* since is archived once the cursor has passed it; a completed run has     *)
(* archived its whole range.                                                *)
THEOREM CrawlLeavesNoGap == Spec => []NoGap
<1>1. CrawlInv => NoGap
  BY DEF CrawlInv
<1> QED
  BY <1>1, CrawlInvariant, PTL

(* The recorded progress never runs ahead of R2.                            *)
THEOREM ProgressIsBacked == Spec => []ProgressBacked
<1>1. CrawlInv => ProgressBacked
  BY DEF CrawlInv
<1> QED
  BY <1>1, CrawlInvariant, PTL

-----------------------------------------------------------------------------
(* The channel carries out a Crawl.                                         *)

LEMMA UnderwayIsActive ==
  ASSUME TypeOK, NEW r \in Runs
  PROVE  Promise!Underway(r) <=> Active(r)
BY RowType DEF RunRow, TerminalStates, Progressing, SeenAs, Active, ActiveStates,
               Promise!Underway

\* A step that leaves all runs but one, and the range of that one.
LEMMA OneRunChanged ==
  ASSUME NEW S, NEW T, NEW C,
         NEW f \in [Runs -> [state: S, range: T, cursor: C]],
         NEW g \in [Runs -> [state: S, range: T, cursor: C]],
         NEW r \in Runs, g[r].range = f[r].range,
         \A s \in Runs \ {r} : g[s] = f[s]
  PROVE  /\ g[r].cursor = f[r].cursor => g = [f EXCEPT ![r].state = g[r].state]
         /\ g[r].state = f[r].state => g = [f EXCEPT ![r].cursor = g[r].cursor]
<1>1. ASSUME g[r].cursor = f[r].cursor
      PROVE  g[r] = [f[r] EXCEPT !.state = g[r].state]
  BY <1>1
<1>2. ASSUME g[r].state = f[r].state
      PROVE  g[r] = [f[r] EXCEPT !.cursor = g[r].cursor]
  BY <1>2
<1> QED
  BY <1>1, <1>2

SeenRun == [state: {"absent", "active", "completed", "abandoned"},
            range: CrawlRange, cursor: Messages \cup {Null}]

LEMMA SeenType == TypeOK => Progressing \in [Runs -> SeenRun]
<1> SUFFICES ASSUME TypeOK, NEW r \in Runs
             PROVE  Progressing[r] \in SeenRun
  BY DEF Progressing
<1>1. /\ runs[r] \in RunRow /\ runs[r].range \in CrawlRange
      /\ NextRequestBefore(r) \in Messages \cup {Null}
  BY RowType
<1>2. SeenAs(runs[r].state) \in {"absent", "active", "completed", "abandoned"}
  BY <1>1 DEF RunRow, SeenAs, ActiveStates, TerminalStates
<1> QED
  BY <1>1, <1>2 DEF Progressing, SeenRun

LEMMA PromiseInit == Init => Promise!Init
<1> SUFFICES ASSUME Init
             PROVE  Promise!Init
  OBVIOUS
<1>1. Progressing = [r \in Runs |-> Promise!Unbegun]
  BY DEF Init, Progressing, SeenAs, AbsentRun, Active, ActiveStates, NextRequestBefore, Promise!Unbegun
<1>2. ArchivedSoFar = [r \in Runs |-> {}]
  BY DEF Init, ArchivedSoFar, Archived
<1> QED
  BY <1>1, <1>2 DEF Init, Promise!Init

\* Most steps leave every run in the state it is seen in ...
Unseen ==
    /\ \A r \in Runs : SeenAs(runs'[r].state) = SeenAs(runs[r].state)
    /\ stable' = stable

\* ... and some give up the active run.
GivesUp ==
    /\ cur \in Runs /\ Active(cur)
    /\ runs'[cur].state \in {"failed", "halted"}
    /\ \A r \in Runs \ {cur} : runs'[r].state = runs[r].state
    /\ archive' = archive /\ stable' = stable

LEMMA UnseenStutters ==
  ASSUME ProgressKept, Unseen
  PROVE  Progressing' = Progressing /\ (archive' = archive => UNCHANGED Promise!vars)
<1>1. Progressing' = Progressing
  BY DEF Progressing, ProgressKept, Unseen, NextRequestBefore
<1>2. archive' = archive => ArchivedSoFar' = ArchivedSoFar
  BY DEF ArchivedSoFar, Archived
<1> QED
  BY <1>1, <1>2 DEF Unseen, Promise!vars

LEMMA GivingUpAbandons ==
  ASSUME TypeOK, TypeOK', ProgressKept, GivesUp
  PROVE  Promise!Abandon(cur)
<1>1. Progressing \in [Runs -> SeenRun] /\ Progressing' \in [Runs -> SeenRun]
  <2>1. (TypeOK => Progressing \in [Runs -> SeenRun])'
    BY SeenType, PTL
  <2> QED
    BY <2>1, SeenType
<1>2. /\ Progressing'[cur].state = "abandoned"
      /\ Progressing'[cur].range = Progressing[cur].range
      /\ Progressing'[cur].cursor = Progressing[cur].cursor
      /\ \A r \in Runs \ {cur} : Progressing'[r] = Progressing[r]
  BY DEF Progressing, ProgressKept, GivesUp, NextRequestBefore, SeenAs, ActiveStates
<1>3. Progressing' = [Progressing EXCEPT ![cur].state = "abandoned"]
  BY <1>1, <1>2, OneRunChanged DEF GivesUp, SeenRun
<1>4. ArchivedSoFar' = ArchivedSoFar
  BY DEF GivesUp, ArchivedSoFar, Archived
<1> QED
  BY <1>3, <1>4, UnderwayIsActive DEF GivesUp, Promise!Abandon

\* A page that reaches the archive comes from ahead of the cursor.
LEMMA CommitStores ==
  ASSUME TypeOK, Placed, ReportInv, CrawlInv, ProgressKept, Unseen,
         pc = "commit", archive' = archive \cup {NewObject}
  PROVE  Promise!Store(cur)
<1> DEFINE page == reply.page
<1>1. cur \in Runs /\ Active(cur) /\ reply \in Reply
  BY DEF TypeOK, Placed, ReportInv
<1>2. page \in SUBSET Promise!Ahead(cur)
  <2>1. \A p \in page : p \in Messages /\ Below(p, NextRequestBefore(cur))
    BY <1>1 DEF CrawlInv, InFlight, Reply
  <2> QED
    BY <1>1, <2>1 DEF Progressing, Below, Promise!Ahead
<1>3. ASSUME NEW r \in Runs
      PROVE  Archived(r)' = IF r = cur THEN Archived(r) \cup page ELSE Archived(r)
  <2>1. NewObject.run = cur /\ NewObject.page = page
    BY DEF NewObject
  <2>2. \A m : m \in Archived(r)' <=> \E o \in archive' : o.run = r /\ m \in o.page
    BY DEF Archived
  <2>3. \A m : m \in Archived(r)' <=> m \in Archived(r) \/ (r = cur /\ m \in page)
    BY <2>1, <2>2, ArchivedMember
  <2> QED
    BY <2>3
<1>4. ArchivedSoFar' = [ArchivedSoFar EXCEPT ![cur] = @ \cup page]
  BY <1>1, <1>3 DEF ArchivedSoFar
<1>5. Progressing' = Progressing /\ stable' = stable
  BY UnseenStutters DEF Unseen
<1> QED
  BY <1>1, <1>2, <1>4, <1>5, UnderwayIsActive DEF Promise!Store

\* When the page is done with, the cursor follows the archive.
LEMMA ProgressAdvances ==
  ASSUME TypeOK, TypeOK', Placed, ReportInv, CrawlInv, CrawlInv', Progress
  PROVE  Promise!Advance(cur) \/ Promise!Complete(cur)
<1> DEFINE page == reply.page
           range == runs[cur].range
           done == Completes(page, range)
<1>1. /\ cur \in Runs /\ Active(cur) /\ reply \in Reply /\ pc = "progress"
      /\ runs \in [Runs -> RunRow] /\ runs[cur] \in RunRow
  BY DEF Progress, TypeOK, Placed, ReportInv
<1>2. archive' = archive /\ stable' = stable /\ cur' = cur
  BY DEF Progress, Elsewhere
<1>3. /\ runs'[cur].state = IF done THEN "completed" ELSE "running"
      /\ runs'[cur].cursor = IF done THEN runs[cur].cursor ELSE Min(page)
      /\ runs'[cur].range = range
      /\ \A r \in Runs \ {cur} : runs'[r] = runs[r]
  BY <1>1 DEF Progress, RunRow
<1>4. ArchivedSoFar' = ArchivedSoFar
  BY <1>2 DEF ArchivedSoFar, Archived
<1>5. Progressing \in [Runs -> SeenRun] /\ Progressing' \in [Runs -> SeenRun]
  <2>1. (TypeOK => Progressing \in [Runs -> SeenRun])'
    BY SeenType, PTL
  <2> QED
    BY <2>1, SeenType
<1>6. /\ Progressing'[cur].range = Progressing[cur].range
      /\ Progressing[cur].range = range
      /\ Progressing[cur].cursor = NextRequestBefore(cur)
      /\ \A r \in Runs \ {cur} : Progressing'[r] = Progressing[r]
  BY <1>1, <1>3 DEF Progressing, NextRequestBefore
<1>7. ASSUME NEW m \in stable[cur], InRange(m, range),
             done \/ (Min(page) # Null /\ m >= Min(page))
      PROVE  m \in Archived(cur)
  <2>1. m \in Messages
    BY <1>1, <1>7 DEF TypeOK
  <2>2. m \in Claimed(cur)'
    BY <1>2, <1>3, <1>7, <2>1 DEF Claimed, InRange
  <2>3. m \in Archived(cur)'
    BY <1>1, <1>2, <1>7, <2>2 DEF CrawlInv, NoGap
  <2> QED
    BY <1>2, <2>3 DEF Archived
<1>8. CASE done
  <2>1. Promise!Covered(cur, Null)
    BY <1>1, <1>6, <1>7, <1>8 DEF Promise!Covered, Promise!InRange, InRange, ArchivedSoFar
  <2>2. /\ Progressing'[cur].state = "completed"
        /\ Progressing'[cur].cursor = Progressing[cur].cursor
    BY <1>1, <1>3, <1>6, <1>8 DEF Progressing, SeenAs, ActiveStates, NextRequestBefore
  <2>3. Progressing' = [Progressing EXCEPT ![cur].state = "completed"]
    BY <1>1, <1>5, <1>6, <2>2, OneRunChanged DEF SeenRun
  <2> QED
    BY <1>1, <1>2, <1>4, <2>1, <2>3, UnderwayIsActive DEF Promise!Complete
<1>9. CASE ~ done
  <2>1. page \in SUBSET Nat /\ page \subseteq Messages /\ page # {}
    BY <1>1, <1>9 DEF Reply, Completes, Messages
  <2>2. Min(page) \in page /\ Min(page) \in Messages /\ Min(page) # Null
    BY <2>1, MinExists, ChannelAssumption
  <2>3. Min(page) \in Archived(cur)
    <3>1. NewObject \in archive /\ NewObject.run = cur /\ NewObject.page = page
      BY <1>1 DEF CrawlInv, InFlight, NewObject
    <3> QED
      BY <1>1, <2>2, <3>1, ArchivedMember
  <2>4. Min(page) \in Promise!Ahead(cur)
    <3>1. Below(Min(page), NextRequestBefore(cur))
      BY <1>1, <2>2 DEF CrawlInv, InFlight
    <3> QED
      BY <1>6, <2>2, <3>1 DEF Below, Promise!Ahead
  <2>5. Promise!Covered(cur, Min(page))
    BY <1>1, <1>6, <1>7, <2>2 DEF Promise!Covered, Promise!InRange, InRange, ArchivedSoFar
  <2>6. /\ Progressing'[cur].state = Progressing[cur].state
        /\ Progressing'[cur].cursor = Min(page)
    BY <1>1, <1>3, <1>9, <2>2 DEF Progressing, SeenAs, Active, ActiveStates, NextRequestBefore
  <2>7. Progressing' = [Progressing EXCEPT ![cur].cursor = Min(page)]
    BY <1>1, <1>5, <1>6, <2>6, OneRunChanged DEF SeenRun
  <2> QED
    BY <1>1, <1>2, <1>4, <2>2, <2>3, <2>4, <2>5, <2>7, UnderwayIsActive
       DEF Promise!Advance, ArchivedSoFar
<1> QED
  BY <1>8, <1>9

LEMMA StartBegins ==
  ASSUME TypeOK, NEW r \in Runs, NEW range \in Ranges, Start(r, range)
  PROVE  Promise!Begin(r)
<1>1. /\ runs' = [runs EXCEPT ![r] = [AbsentRun EXCEPT !.state = "running",
                                                     !.range = range]]
      /\ runs \in [Runs -> RunRow] /\ runs[r].state = "absent"
      /\ stable' = [stable EXCEPT ![r] = discord] /\ discord \in SUBSET Messages
      /\ \A s \in Runs : ~ Active(s)
      /\ archive' = archive
  BY DEF Start, TypeOK, ActiveRuns
<1>2. /\ runs'[r].state = "running" /\ runs'[r].cursor = Null /\ runs'[r].range = range
      /\ \A s \in Runs \ {r} : runs'[s] = runs[s]
  BY <1>1 DEF AbsentRun
<1>3. /\ Progressing'[r] = [state |-> "active", range |-> range, cursor |-> range.before]
      /\ \A s \in Runs \ {r} : Progressing'[s] = Progressing[s]
  BY <1>2 DEF Progressing, SeenAs, ActiveStates, NextRequestBefore
<1>4. Progressing' = [Progressing EXCEPT ![r] = [state |-> "active", range |-> range,
                                                 cursor |-> range.before]]
  BY <1>3 DEF Progressing
<1>5. ArchivedSoFar' = ArchivedSoFar
  BY <1>1 DEF ArchivedSoFar, Archived
<1>6. Progressing[r].state = "absent"
  BY <1>1 DEF Progressing, SeenAs, ActiveStates
<1> QED
  BY <1>1, <1>4, <1>5, <1>6, UnderwayIsActive DEF Promise!Begin

LEMMA DeleteForgets ==
  ASSUME ProgressKept, NEW m \in Messages, Delete(m)
  PROVE  Promise!Forget(m)
<1>1. runs' = runs /\ archive' = archive
  BY DEF Delete, durable
<1>2. Progressing' = Progressing /\ ArchivedSoFar' = ArchivedSoFar
  BY <1>1 DEF Progressing, NextRequestBefore, ArchivedSoFar, Archived
<1> QED
  BY <1>2 DEF Delete, Promise!Forget

(* Every step but Progress, Start and Delete stores a page, gives up the    *)
(* run or is not seen at all.                                               *)
LEMMA HandlerStep ==
  ASSUME TypeOK, Placed, ReportInv, [Next]_vars,
         ~ Progress, ~ \E r \in Runs, range \in Ranges : Start(r, range),
         ~ \E m \in Messages : Delete(m)
  PROVE  \/ Unseen /\ archive' = archive
         \/ Unseen /\ pc = "commit" /\ archive' = archive \cup {NewObject}
         \/ GivesUp
<1>1. /\ runs \in [Runs -> RunRow] /\ (pc # "idle" => cur \in Runs)
      /\ pc \notin {"idle", "arm"} => Active(cur)
  BY DEF TypeOK, Placed, ReportInv
<1>11. CASE Wake
  BY <1>11, <1>1 DEF Wake, EnsureScheduled, Unseen, SeenAs, Active,
     ActiveStates, RunRow, durable, handler, environment, history
<1>12. CASE AlarmFires
  BY <1>12, <1>1 DEF AlarmFires, EnterHandler, Unseen, SeenAs, Active,
     ActiveStates, RunRow, durable, handler, environment, history
<1>13. CASE AlarmRedelivered
  BY <1>13, <1>1 DEF AlarmRedelivered, EnterHandler, Unseen, SeenAs,
     Active, ActiveStates, RunRow, durable, handler, environment, history
<1>14. CASE LoopEnds
  BY <1>14, <1>1 DEF LoopEnds, Unseen, SeenAs, Active, ActiveStates,
     RunRow, durable, handler, environment, history
<1>15. CASE Iterate
  BY <1>15, <1>1 DEF Iterate, Unseen, SeenAs, Active, ActiveStates,
     RunRow, durable, handler, environment, history
<1>16. CASE Arm
  BY <1>16, <1>1 DEF Arm, Unseen, SeenAs, Active, ActiveStates, RunRow,
     durable, handler, environment, history
<1>17. CASE AcquireGranted
  BY <1>17, <1>1 DEF AcquireGranted, Elsewhere, Unseen, SeenAs, Active,
     ActiveStates, RunRow, durable, handler, environment, history
<1>18. CASE AcquireRefused
  BY <1>18, <1>1 DEF AcquireRefused, WaitFor, Elsewhere, Unseen, SeenAs,
     Active, ActiveStates, RunRow, durable, handler, environment, history
<1>19. CASE AcquireHalted
  BY <1>19, <1>1 DEF AcquireHalted, EndRun, Elsewhere, GivesUp, Active,
     ActiveStates, RunRow, durable, handler, environment, history
<1>20. CASE AcquireFails
  BY <1>20, <1>1 DEF AcquireFails, RetryIn, Elsewhere, Unseen, SeenAs,
     Active, ActiveStates, RunRow, durable, handler, environment, history
<1>21. CASE FetchFails
  BY <1>21, <1>1 DEF FetchFails, RetryIn, Elsewhere, Unseen, SeenAs,
     Active, ActiveStates, RunRow, durable, handler, environment, history
<1>22. CASE FetchPage
  BY <1>22, <1>1 DEF FetchPage, Answer, Elsewhere, Unseen, SeenAs, Active,
     ActiveStates, RunRow, durable, handler, environment, history
<1>23. CASE FetchOther
  BY <1>23, <1>1 DEF FetchOther, Answer, Elsewhere, Unseen, SeenAs,
     Active, ActiveStates, RunRow, durable, handler, environment, history
<1>24. CASE FetchRejected
  <2>1. PICK then \in {"halt", "fail", "wait"}, left \in Nat : FetchCritical(then, left)
    BY <1>24, ChannelAssumption DEF FetchRejected
  <2> QED
    BY <2>1, <1>1 DEF FetchCritical, Elsewhere, Unseen, SeenAs, Active, ActiveStates, RunRow
<1>25. CASE CommitPage
  BY <1>25, <1>1 DEF CommitPage, Elsewhere, Unseen, SeenAs, Active,
     ActiveStates, RunRow, durable, handler, environment, history
<1>26. CASE ServerError
  BY <1>26, <1>1 DEF ServerError, RetryIn, Elsewhere, Unseen, SeenAs,
     Active, ActiveStates, RunRow, durable, handler, environment, history
<1>27. CASE PermanentError
  BY <1>27, <1>1 DEF PermanentError, EndRun, Elsewhere, GivesUp, Active,
     ActiveStates, RunRow, durable, handler, environment, history
<1>28. CASE CommitAccepted
  BY <1>28, <1>1 DEF CommitAccepted, Elsewhere, Unseen, SeenAs, Active,
     ActiveStates, RunRow, durable, handler, environment, history
<1>29. CASE CommitFails
  BY <1>29, <1>1 DEF CommitFails, RetryIn, Elsewhere, Unseen, SeenAs,
     Active, ActiveStates, RunRow, durable, handler, environment, history
<1>30. CASE CommitViolates
  BY <1>30, <1>1 DEF CommitViolates, EndRun, Elsewhere, GivesUp, Active,
     ActiveStates, RunRow, durable, handler, environment, history
<1>31. CASE FlushRecorded
  BY <1>31, <1>1 DEF FlushRecorded, Elsewhere, Unseen, SeenAs, Active,
     ActiveStates, RunRow, durable, handler, environment, history
<1>32. CASE FlushFails
  BY <1>32, <1>1 DEF FlushFails, Elsewhere, Unseen, SeenAs, Active,
     ActiveStates, RunRow, durable, handler, environment, history
<1>33. CASE Resolve
  <2>1. /\ cur \in Runs /\ Active(cur) /\ runs[cur].pending \in Pending
        /\ archive' = archive /\ stable' = stable
    BY <1>33, <1>1, RowType DEF Resolve, Elsewhere, Placed, history
  <2>2. /\ runs'[cur].state = DeferredState(runs[cur].pending.then)
        /\ \A r \in Runs \ {cur} : runs'[r] = runs[r]
    BY <1>33, <2>1, <1>1 DEF Resolve, RunRow
  <2>3. CASE runs[cur].pending.then = "wait"
    BY <2>1, <2>2, <2>3 DEF DeferredState, Unseen, SeenAs, Active, ActiveStates
  <2>4. CASE runs[cur].pending.then # "wait"
    BY <2>1, <2>2, <2>4 DEF DeferredState, Pending, GivesUp
  <2> QED
    BY <2>3, <2>4
<1>34. CASE Resume
  BY <1>34, <1>1 DEF Resume, EnsureScheduled, Unseen, SeenAs, Active,
     ActiveStates, RunRow, durable, handler, environment, history
<1>35. CASE Crash
  BY <1>35, <1>1 DEF Crash, Unseen, SeenAs, Active, ActiveStates, RunRow,
     durable, handler, environment, history
<1>36. CASE Tick
  BY <1>36, <1>1 DEF Tick, RowAfterTick, Unseen, SeenAs, Active,
     ActiveStates, RunRow, durable, handler, environment, history
<1>37. CASE Post
  BY <1>37, <1>1 DEF Post, Unseen, SeenAs, Active, ActiveStates, RunRow,
     durable, handler, environment, history
<1>38. CASE UNCHANGED vars
  BY <1>38 DEF vars, Unseen, durable, handler, environment, history
<1> QED
  BY <1>11, <1>12, <1>13, <1>14, <1>15, <1>16, <1>17, <1>18, <1>19, <1>20,
     <1>21, <1>22, <1>23, <1>24, <1>25, <1>26, <1>27, <1>28, <1>29, <1>30,
     <1>31, <1>32, <1>33, <1>34, <1>35, <1>36, <1>37, <1>38
     DEF Next, AlarmHandler

(* Every step is one of Crawl's, or changes nothing the caller sees.        *)
LEMMA PromiseStep ==
  ASSUME TypeOK, TypeOK', Placed, ReportInv, CrawlInv, CrawlInv', [Next]_vars
  PROVE  Promise!Next \/ UNCHANGED Promise!vars
<1>1. CASE Progress
  <2>1. cur \in Runs
    BY <1>1 DEF Progress, Placed
  <2> QED
    BY <1>1, <2>1, ProgressAdvances DEF Promise!Next
<1>2. ASSUME NEW r \in Runs, NEW range \in Ranges, Start(r, range)
      PROVE  Promise!Next
  BY <1>2, StartBegins DEF Promise!Next
<1>3. CASE ~ Progress /\ ~ \E r \in Runs, range \in Ranges : Start(r, range)
  <2>1. ProgressKept
    BY <1>3, ProgressStep DEF CrawlInv
  <2>2. ASSUME NEW m \in Messages, Delete(m)
        PROVE  Promise!Next
    BY <2>1, <2>2, DeleteForgets DEF Promise!Next
  <2>3. ASSUME ~ \E m \in Messages : Delete(m)
        PROVE  \/ Unseen /\ archive' = archive
               \/ Unseen /\ pc = "commit" /\ archive' = archive \cup {NewObject}
               \/ GivesUp
    BY <1>3, <2>3, HandlerStep
  <2>4. ASSUME Unseen, archive' = archive
        PROVE  UNCHANGED Promise!vars
    BY <2>1, <2>4, UnseenStutters
  <2>5. ASSUME Unseen, pc = "commit", archive' = archive \cup {NewObject}
        PROVE  Promise!Next
    BY <2>1, <2>5, CommitStores DEF Placed, Promise!Next
  <2>6. ASSUME GivesUp
        PROVE  Promise!Next
    BY <2>1, <2>6, GivingUpAbandons DEF GivesUp, Promise!Next
  <2> QED
    BY <2>2, <2>3, <2>4, <2>5, <2>6
<1> QED
  BY <1>1, <1>2, <1>3

(* The alarms, retries and crashes together carry out a crawl: one run at a *)
(* time, whose cursor only descends and only over what is archived, and     *)
(* which archives nothing once it has ended (backfill-channel.ts).          *)
THEOREM CrawlIsImplemented == Spec => ImplementsCrawl
<1> DEFINE I == TypeOK /\ Placed /\ ReportInv /\ CrawlInv
<1>1. I /\ I' /\ [Next]_vars => [Promise!Next]_(Promise!vars)
  BY PromiseStep
<1>2. Spec => []I
  BY ReportInvariant, CrawlInvariant, PTL
<1> QED
  BY <1>1, <1>2, PromiseInit, PTL DEF Spec, ImplementsCrawl, Promise!Spec

-----------------------------------------------------------------------------
(* The alarm.                                                               *)

(* An alarm is never later than the time its run may go on, at rest an      *)
(* active run has one, and while the handler works no other run is active.  *)
AlarmInv ==
    \A r \in Runs : Active(r) =>
        /\ alarm # Null => alarm <= runs[r].eligibleIn
        /\ pc = "idle" => alarm # Null
        /\ pc # "idle" => r = cur

\* Postponing the run the handler works on cannot make an alarm late.
LEMMA AlarmPostponed ==
  ASSUME TypeOK, ReportInv, AlarmInv, cur \in Runs, Active(cur),
         runs[cur].eligibleIn = 0,
         alarm' = alarm, pc' # "idle", cur' = cur,
         runs'[cur].eligibleIn \in Nat,
         \A r \in Runs \ {cur} : runs'[r] = runs[r]
  PROVE  AlarmInv'
<1>1. alarm # Null => alarm = 0
  BY DEF AlarmInv, TypeOK
<1>2. \A r \in Runs : Active(r) => r = cur
  BY DEF ReportInv, ActiveRuns
<1>3. \A r \in Runs : Active(r)' => r = cur
  BY <1>2 DEF Active
<1> QED
  BY <1>1, <1>3 DEF AlarmInv

(* Every step keeps that, as long as alarms are not lost.                   *)
LEMMA AlarmStep ==
  ASSUME ~ AlarmsCanBeLost, TypeOK, Placed, ReportInv, HoldInv, AlarmInv, [Next]_vars
  PROVE  AlarmInv'
<1>1. /\ runs \in [Runs -> RunRow] /\ (pc # "idle" => up /\ cur \in Runs)
      /\ alarm \in Nat \cup {Null} /\ Null \notin Nat
      /\ \A r \in Runs : runs[r].eligibleIn \in Nat
      /\ ~ AlarmsCanBeLost
  BY RowType, ChannelAssumption DEF TypeOK, Placed
<1>11. CASE Wake
  BY <1>11, <1>1 DEF Wake, EnsureScheduled, AlarmInv, ReportInv,
     ActiveRuns, Active, ActiveStates, durable, handler, environment, history
<1>12. CASE AlarmFires
  BY <1>12, <1>1 DEF AlarmFires, EnterHandler, AlarmInv, ReportInv,
     ActiveRuns, Active, ActiveStates, durable, handler, environment, history
<1>13. CASE AlarmRedelivered
  BY <1>13, <1>1 DEF AlarmRedelivered, EnterHandler, AlarmInv, ReportInv,
     ActiveRuns, Active, ActiveStates, durable, handler, environment, history
<1>14. CASE LoopEnds
  BY <1>14, <1>1 DEF LoopEnds, AlarmInv, ReportInv, ActiveRuns, Active,
     ActiveStates, durable, handler, environment, history
<1>15. CASE Iterate
  BY <1>15, <1>1 DEF Iterate, AlarmInv, ReportInv, ActiveRuns, Active,
     ActiveStates, durable, handler, environment, history
<1>16. CASE Arm
  BY <1>16, <1>1 DEF Arm, AlarmInv, ReportInv, ActiveRuns, Active,
     ActiveStates, durable, handler, environment, history
<1>17. CASE AcquireGranted
  BY <1>17, <1>1 DEF AcquireGranted, Elsewhere, AlarmInv, ReportInv,
     ActiveRuns, Active, ActiveStates, durable, handler, environment, history
<1>18. CASE AcquireRefused
  <2>1. /\ cur \in Runs /\ Active(cur) /\ runs[cur].eligibleIn = 0
        /\ alarm' = alarm /\ cur' = cur
    BY <1>18, <1>1 DEF AcquireRefused, ReportInv, HoldInv, Elsewhere
  <2>2. PICK delay \in Nat : WaitFor(delay)
    BY <1>18, <2>1, ChannelAssumption DEF AcquireRefused, Placed
  <2> QED
    BY <2>1, <2>2, LeavesLoop, AlarmPostponed
<1>19. CASE AcquireHalted
  BY <1>19, <1>1 DEF AcquireHalted, EndRun, Elsewhere, AlarmInv, ReportInv,
     ActiveRuns, Active, ActiveStates, durable, handler, environment, history
<1>20. CASE AcquireFails
  <2>1. /\ cur \in Runs /\ Active(cur) /\ runs[cur].eligibleIn = 0
        /\ alarm' = alarm /\ cur' = cur
    BY <1>20, <1>1 DEF AcquireFails, ReportInv, HoldInv, Elsewhere
  <2>2. PICK delay \in Nat : RetryIn(delay)
    BY <1>20, <2>1, InPageType DEF AcquireFails, Placed
  <2> QED
    BY <2>1, <2>2, LeavesLoop, AlarmPostponed
<1>21. CASE FetchFails
  <2>1. /\ cur \in Runs /\ Active(cur) /\ runs[cur].eligibleIn = 0
        /\ alarm' = alarm /\ cur' = cur
    BY <1>21, <1>1 DEF FetchFails, ReportInv, HoldInv, Elsewhere
  <2>2. PICK delay \in Nat : RetryIn(delay)
    BY <1>21, <2>1, InPageType DEF FetchFails, Placed
  <2> QED
    BY <2>1, <2>2, LeavesLoop, AlarmPostponed
<1>22. CASE FetchPage
  BY <1>22, <1>1 DEF FetchPage, Answer, Elsewhere, AlarmInv, ReportInv,
     ActiveRuns, Active, ActiveStates, durable, handler, environment, history
<1>23. CASE FetchOther
  BY <1>23, <1>1 DEF FetchOther, Answer, Elsewhere, AlarmInv, ReportInv,
     ActiveRuns, Active, ActiveStates, durable, handler, environment, history
<1>24. CASE FetchRejected
  <2>1. PICK then \in {"halt", "fail", "wait"}, left \in Nat :
          FetchCritical(then, left)
    BY <1>24, ChannelAssumption DEF FetchRejected
  <2>2. /\ cur \in Runs /\ pc' = "loop" /\ Active(cur) /\ alarm' = alarm
        /\ runs[cur].eligibleIn = 0 /\ cur' = cur
    BY <2>1, <1>1 DEF FetchCritical, Elsewhere, ReportInv, HoldInv
  <2>3. /\ runs'[cur].eligibleIn = 0
        /\ \A r \in Runs \ {cur} : runs'[r] = runs[r]
    BY <2>1, <2>2, <1>1 DEF FetchCritical
  <2> QED
    BY <2>2, <2>3, AlarmPostponed
<1>25. CASE CommitPage
  BY <1>25, <1>1 DEF CommitPage, Elsewhere, AlarmInv, ReportInv,
     ActiveRuns, Active, ActiveStates, durable, handler, environment, history
<1>26. CASE ServerError
  <2>1. /\ cur \in Runs /\ Active(cur) /\ runs[cur].eligibleIn = 0
        /\ alarm' = alarm /\ cur' = cur
    BY <1>26, <1>1 DEF ServerError, ReportInv, HoldInv, Elsewhere
  <2>2. PICK delay \in Nat : RetryIn(delay)
    BY <1>26, <2>1, InPageType DEF ServerError, Placed
  <2> QED
    BY <2>1, <2>2, LeavesLoop, AlarmPostponed
<1>27. CASE PermanentError
  BY <1>27, <1>1 DEF PermanentError, EndRun, Elsewhere, AlarmInv,
     ReportInv, ActiveRuns, Active, ActiveStates, durable, handler,
     environment, history
<1>28. CASE CommitAccepted
  BY <1>28, <1>1 DEF CommitAccepted, Elsewhere, AlarmInv, ReportInv,
     ActiveRuns, Active, ActiveStates, durable, handler, environment, history
<1>29. CASE CommitFails
  <2>1. /\ cur \in Runs /\ Active(cur) /\ runs[cur].eligibleIn = 0
        /\ alarm' = alarm /\ cur' = cur
    BY <1>29, <1>1 DEF CommitFails, ReportInv, HoldInv, Elsewhere
  <2>2. PICK delay \in Nat : RetryIn(delay)
    BY <1>29, <2>1, InPageType DEF CommitFails, Placed
  <2> QED
    BY <2>1, <2>2, LeavesLoop, AlarmPostponed
<1>30. CASE CommitViolates
  BY <1>30, <1>1 DEF CommitViolates, EndRun, Elsewhere, AlarmInv,
     ReportInv, ActiveRuns, Active, ActiveStates, durable, handler,
     environment, history
<1>31. CASE Progress
  <2>1. /\ cur \in Runs /\ Active(cur) /\ runs[cur].eligibleIn = 0
        /\ alarm' = alarm /\ cur' = cur /\ pc' \in {"arm", "loop"}
    BY <1>31, <1>1 DEF Progress, ReportInv, HoldInv, Elsewhere
  <2>2. reply.left \in Nat
    BY <1>31, <2>1, InPageType DEF Progress, Placed
  <2>3. /\ runs'[cur].eligibleIn = reply.left
        /\ \A r \in Runs \ {cur} : runs'[r] = runs[r]
    BY <1>31, <2>1, <1>1 DEF Progress, RunRow
  <2> QED
    BY <2>1, <2>2, <2>3, AlarmPostponed
<1>32. CASE FlushRecorded
  BY <1>32, <1>1 DEF FlushRecorded, Elsewhere, AlarmInv, ReportInv,
     ActiveRuns, Active, ActiveStates, durable, handler, environment, history
<1>33. CASE FlushFails
  <2>1. /\ cur \in Runs /\ Active(cur) /\ runs[cur].eligibleIn = 0
        /\ alarm' = alarm /\ cur' = cur
    BY <1>33, <1>1 DEF FlushFails, ReportInv, HoldInv, Elsewhere
  <2>2. /\ pc' = "arm"
        /\ runs'[cur].eligibleIn = TransientBackoff(runs[cur].attempt)
        /\ \A r \in Runs \ {cur} : runs'[r] = runs[r]
    BY <1>33, <1>1 DEF FlushFails, RunRow
  <2>3. TransientBackoff(runs[cur].attempt) \in Nat
    BY <2>1, RowType
  <2> QED
    BY <2>1, <2>2, <2>3, AlarmPostponed
<1>34. CASE Resolve
  <2>1. /\ cur \in Runs /\ pc' = "arm" /\ Active(cur) /\ alarm' = alarm
        /\ runs[cur].eligibleIn = 0 /\ runs[cur].pending \in Pending /\ cur' = cur
    BY <1>34, <1>1, RowType DEF Resolve, Placed, ReportInv, HoldInv, Elsewhere
  <2>2. /\ runs'[cur].eligibleIn \in {runs[cur].eligibleIn, runs[cur].pending.left}
        /\ \A r \in Runs \ {cur} : runs'[r] = runs[r]
    BY <1>34, <2>1, <1>1 DEF Resolve, RunRow
  <2>3. runs'[cur].eligibleIn \in Nat
    BY <2>1, <2>2 DEF Pending
  <2> QED
    BY <2>1, <2>2, <2>3, AlarmPostponed
<1>35. CASE Resume
  BY <1>35, <1>1 DEF Resume, EnsureScheduled, AlarmInv, ReportInv,
     ActiveRuns, Active, ActiveStates, durable, handler, environment, history
<1>36. CASE Crash
  BY <1>36, <1>1 DEF Crash, AlarmInv, ReportInv, ActiveRuns, Active,
     ActiveStates, durable, handler, environment, history
<1>37. CASE Tick
  <2>1. /\ pc' = pc /\ cur' = cur /\ runs' = [r \in Runs |-> RowAfterTick(runs[r])]
        /\ alarm' = IF alarm = Null THEN Null ELSE Sooner(alarm)
    BY <1>37 DEF Tick
  <2>2. \A r \in Runs : /\ runs'[r].state = runs[r].state
                        /\ runs'[r].eligibleIn = Sooner(runs[r].eligibleIn)
    BY <2>1, <1>1 DEF RowAfterTick, RunRow
  <2>3. \A a, b \in Nat : a <= b => Sooner(a) <= Sooner(b)
    BY DEF Sooner, Left
  <2>4. alarm # Null => Sooner(alarm) # Null
    BY LeftType, <1>1, ChannelAssumption DEF Sooner
  <2> QED
    BY <1>1, <2>1, <2>2, <2>3, <2>4 DEF AlarmInv, Active
<1>38. CASE Post
  BY <1>38, <1>1 DEF Post, AlarmInv, ReportInv, ActiveRuns, Active,
     ActiveStates, durable, handler, environment, history
<1>39. ASSUME NEW r \in Runs, NEW range \in Ranges, Start(r, range)
       PROVE  AlarmInv'
  BY <1>39, <1>1 DEF Start, AbsentRun, AlarmInv, ReportInv, ActiveRuns,
     Active, ActiveStates, durable, handler, environment, history
<1>40. ASSUME NEW m \in Messages, Delete(m)
       PROVE  AlarmInv'
  BY <1>40, <1>1 DEF Delete, AlarmInv, ReportInv, ActiveRuns, Active,
     ActiveStates, durable, handler, environment, history
<1>41. CASE UNCHANGED vars
  BY <1>41, <1>1 DEF vars, AlarmInv, ReportInv, ActiveRuns, Active,
     ActiveStates, durable, handler, environment, history
<1> QED
  BY <1>11, <1>12, <1>13, <1>14, <1>15, <1>16, <1>17, <1>18, <1>19, <1>20,
     <1>21, <1>22, <1>23, <1>24, <1>25, <1>26, <1>27, <1>28, <1>29, <1>30,
     <1>31, <1>32, <1>33, <1>34, <1>35, <1>36, <1>37, <1>38, <1>39, <1>40,
     <1>41
     DEF Next, AlarmHandler

LEMMA HoldInvariant == Spec => [](TypeOK /\ Placed /\ ReportInv /\ HoldInv)
<1>1. Init => HoldInv
  BY ChannelAssumption DEF Init, HoldInv
<1> QED
  BY <1>1, HoldStep, ReportInvariant, PTL DEF Spec

(* As long as the platform re-delivers an alarm whose handler failed, an    *)
(* active run at rest always has an alarm, and none later than the time it  *)
(* may go on.                                                               *)
THEOREM AlarmIsArmed ==
  ASSUME ~ AlarmsCanBeLost
  PROVE  Spec => []AlarmArmed
<1>1. Init => AlarmInv
  BY DEF Init, AlarmInv, AbsentRun, Active, ActiveStates
<1>2. TypeOK /\ Placed /\ ReportInv /\ HoldInv /\ AlarmInv /\ [Next]_vars
        => AlarmInv'
  BY AlarmStep
<1>3. AlarmInv => AlarmArmed
  BY DEF AlarmInv, AlarmArmed, ActiveRuns
<1> QED
  BY <1>1, <1>2, <1>3, HoldInvariant, PTL DEF Spec
=============================================================================
