----------------------------- MODULE HttpBudget -----------------------------
(***************************************************************************)
(* The Discord HTTP Budget Durable Object: one instance per Discord        *)
(* application, called by every Backfill Channel before a request          *)
(* (acquire) and after a response (report), and by an operator             *)
(* (clearCredentialHalt).                                                  *)
(*                                                                         *)
(* Every method runs inside one storage transaction of a single-threaded   *)
(* object, so one method call is one step.  What interleaves is the order  *)
(* of the calls: reports arrive late, arrive again after a Channel crash,  *)
(* or never arrive.  Rows keep the request they belong to; the SQL tables  *)
(* hold only the timestamps, which is all the decisions look at.           *)
(***************************************************************************)
EXTENDS Integers, FiniteSets, FiniteSetsExt

CONSTANTS
    Requests,        \* identities (report_id) of the Discord requests
    Second,          \* clock ticks in the code's literal 1_000 ms
    InvalidWindow,   \* DISCORD_INVALID_REQUEST_WINDOW_SECONDS, in ticks
    GlobalCeiling,   \* DISCORD_GLOBAL_REQUESTS_PER_SECOND
    InvalidBudget,   \* DISCORD_INVALID_REQUEST_BUDGET
    Answers,         \* the Discord answers a report can carry
    Null,
    MaxNow           \* bound: the clock stops here

Scopes == {"user", "global", "shared", "none"}

Answer == [status: {200, 401, 403, 404, 429, 500}, scope: Scopes,
           global: BOOLEAN, retry_after: Nat \cup {Null}]

ASSUME BudgetAssumption ==
    /\ Second \in Nat \ {0}
    /\ InvalidWindow \in Nat /\ InvalidWindow >= Second
    /\ GlobalCeiling \in Nat \ {0}
    /\ InvalidBudget \in Nat \ {0}
    /\ Null \notin Nat
    /\ Answers \subseteq Answer
    /\ Null \notin Answers
    /\ MaxNow \in Nat

VARIABLES
    now,               \* Date.now()
    slots,             \* table request_slots
    invalid,           \* table invalid_requests
    processed,         \* table processed_reports
    globalRetryUntil,  \* budget_state["global_retry_until"]
    credentialHaltAt,  \* budget_state["credential_halt_at"]
    answer,            \* what Discord answered to each request (environment)
    grantLog,          \* history: every grant ever given
    applyLog           \* history: every report whose effects were applied

tables == <<slots, invalid, processed, globalRetryUntil, credentialHaltAt>>
vars == <<now, tables, answer, grantLog, applyLog>>

Row == [id: Requests, ts: Nat]

TypeOK ==
    /\ now \in Nat
    /\ slots \subseteq Row /\ invalid \subseteq Row /\ processed \subseteq Row
    /\ globalRetryUntil \in Nat \cup {Null}
    /\ credentialHaltAt \in Nat \cup {Null}
    /\ answer \in [Requests -> Answers \cup {Null}]
    /\ grantLog \subseteq Row /\ applyLog \subseteq Row

Init ==
    /\ now = 0
    /\ slots = {} /\ invalid = {} /\ processed = {}
    /\ globalRetryUntil = Null /\ credentialHaltAt = Null
    /\ answer = [r \in Requests |-> Null]
    /\ grantLog = {} /\ applyLog = {}

-----------------------------------------------------------------------------
(* The decision acquire() takes, as a function of the wall clock t.         *)

Since(rows, t) == {row \in rows : row.ts > t}

Timestamps(rows) == {row.ts : row \in rows}

\* Math.floor(this.invalidBudget * INVALID_BUDGET_SAFETY_RATIO)
InvalidThreshold == (9 * InvalidBudget) \div 10

-----------------------------------------------------------------------------
(* Mutants: plausible slips in the code, each of which breaks a property.   *)
(* No definition of the specification uses them.                            *)

\* for LiveSlots: a slot is forgotten one tick early
LiveSlotsEarly(t) == Since(slots, t - Second + 1)

\* for LiveProcessed: report ids are pruned with the window of the slots
LiveProcessedShort(t) == Since(processed, t - Second)

\* for InvalidRefuses: > instead of >= against the threshold
InvalidRefusesLate(t) ==
    Cardinality(Since(invalid, t - InvalidWindow)) > InvalidThreshold

\* for Expiry: the oldest row is said to leave its window one tick early
ExpiryOffByOne(rows, window, t) ==
    (IF rows = {} THEN t ELSE Min(Timestamps(rows))) + window - t - 1

\* for LaterPause: the last 429 wins, the Math.max is forgotten
LaterPauseLastWins(until) == until

-----------------------------------------------------------------------------

LiveSlots(t)     == Since(slots, t - Second)
LiveInvalid(t)   == Since(invalid, t - InvalidWindow)
LiveProcessed(t) == Since(processed, t - InvalidWindow)

HaltRefuses       == credentialHaltAt # Null
PauseRefuses(t)   == globalRetryUntil # Null /\ globalRetryUntil > t
InvalidRefuses(t) == Cardinality(LiveInvalid(t)) >= InvalidThreshold
CeilingRefuses(t) == Cardinality(LiveSlots(t)) >= GlobalCeiling

Larger(a, b) == IF a > b THEN a ELSE b

\* oldestSince(...) ?? nowMs, then the time until that row leaves the window
Expiry(rows, window, t) ==
    (IF rows = {} THEN t ELSE Min(Timestamps(rows))) + window - t

Refusal(reason, retryAfter) ==
    [granted |-> FALSE, reason |-> reason, retry_after |-> retryAfter]

Decision(t) ==
    IF HaltRefuses THEN Refusal("credential_halt", InvalidWindow)
    ELSE IF PauseRefuses(t)
         THEN Refusal("global_retry_after", globalRetryUntil - t)
    ELSE IF InvalidRefuses(t)
         THEN Refusal("invalid_request_budget",
                      Larger(Second, Expiry(LiveInvalid(t), InvalidWindow, t)))
    ELSE IF CeilingRefuses(t)
         THEN Refusal("global_ceiling",
                      Larger(1, Expiry(LiveSlots(t), Second, t)))
    ELSE [granted |-> TRUE]

-----------------------------------------------------------------------------
(* The methods of the object.                                               *)

Granted == {row.id : row \in grantLog}

\* prune(): every call first deletes the rows that left their windows
Prune ==
    /\ slots' = LiveSlots(now)
    /\ invalid' = LiveInvalid(now)
    /\ processed' = LiveProcessed(now)

\* acquire(): the grant takes a slot and stands for one new Discord request r
AcquireGranted(r) ==
    /\ r \notin Granted
    /\ Decision(now).granted
    /\ slots' = LiveSlots(now) \cup {[id |-> r, ts |-> now]}
    /\ invalid' = LiveInvalid(now)
    /\ processed' = LiveProcessed(now)
    /\ grantLog' = grantLog \cup {[id |-> r, ts |-> now]}
    /\ UNCHANGED <<now, globalRetryUntil, credentialHaltAt, answer, applyLog>>

\* acquire(): a refusal only prunes
AcquireRefused ==
    /\ ~Decision(now).granted
    /\ Prune
    /\ UNCHANGED <<now, globalRetryUntil, credentialHaltAt, answer,
                   grantLog, applyLog>>

\* countsAsInvalidRequest
CountsAsInvalidRequest(a) ==
    \/ a.status \in {401, 403}
    \/ a.status = 429 /\ a.scope # "shared"

PausesEverybody(a) == a.status = 429 /\ (a.global \/ a.scope = "global")

\* now + (retry_after_ms ?? 1_000)
PauseEnd(t, a) == t + (IF a.retry_after = Null THEN Second ELSE a.retry_after)

\* Math.max(current, until)
LaterPause(until) ==
    IF globalRetryUntil = Null THEN until ELSE Larger(globalRetryUntil, until)

Seen(r) == \E row \in LiveProcessed(now) : row.id = r

\* The answer to request r is fixed once; a re-send carries the same answer
Answered(r, a) ==
    /\ r \in Granted
    /\ answer[r] \in {Null, a}
    /\ answer' = [answer EXCEPT ![r] = a]

\* report(): a report_id that is still in processed_reports is a no-op
ReportSeen(r, a) ==
    /\ Answered(r, a)
    /\ Seen(r)
    /\ Prune
    /\ UNCHANGED <<now, globalRetryUntil, credentialHaltAt, grantLog, applyLog>>

\* report(): a new report_id is recorded and takes effect
ReportNew(r, a) ==
    /\ Answered(r, a)
    /\ ~Seen(r)
    /\ slots' = LiveSlots(now)
    /\ processed' = LiveProcessed(now) \cup {[id |-> r, ts |-> now]}
    /\ invalid' = LiveInvalid(now) \cup
                    (IF CountsAsInvalidRequest(a)
                     THEN {[id |-> r, ts |-> now]} ELSE {})
    /\ globalRetryUntil' = IF PausesEverybody(a)
                           THEN LaterPause(PauseEnd(now, a))
                           ELSE globalRetryUntil
    /\ credentialHaltAt' = IF a.status = 401 THEN now ELSE credentialHaltAt
    /\ applyLog' = applyLog \cup {[id |-> r, ts |-> now]}
    /\ UNCHANGED <<now, grantLog>>

\* clearCredentialHalt(): operator action after the token was rotated
ClearCredentialHalt ==
    /\ credentialHaltAt # Null
    /\ credentialHaltAt' = Null
    /\ UNCHANGED <<now, slots, invalid, processed, globalRetryUntil, answer,
                   grantLog, applyLog>>

Tick ==
    /\ now < MaxNow
    /\ now' = now + 1
    /\ UNCHANGED <<tables, answer, grantLog, applyLog>>

Next ==
    \/ \E r \in Requests : AcquireGranted(r)
    \/ AcquireRefused
    \/ \E r \in Requests, a \in Answers : ReportSeen(r, a)
    \/ \E r \in Requests, a \in Answers : ReportNew(r, a)
    \/ ClearCredentialHalt
    \/ Tick

Spec == Init /\ [][Next]_vars
-----------------------------------------------------------------------------
(* Properties.                                                              *)

(* acquire() never lets more than GlobalCeiling requests start within any   *)
(* window of one second, wherever the window begins: over the whole history *)
(* of grants, not only over the rows that survived pruning.                 *)
CeilingInEveryWindow ==
    \A first \in grantLog :
        Cardinality({g \in grantLog : /\ g.ts >= first.ts
                                      /\ g.ts < first.ts + Second})
            <= GlobalCeiling

(* report() applies the effects of one response (invalid count, global      *)
(* pause, halt) at most once per invalid-request window, however often the  *)
(* Channel re-sends the report after crashes.                               *)
OncePerWindow ==
    \A a, b \in applyLog :
        (a.id = b.id /\ a # b) => \/ a.ts >= b.ts + InvalidWindow
                                  \/ b.ts >= a.ts + InvalidWindow

PausesApplied == {a \in applyLog : PausesEverybody(answer[a.id])}

(* No request is granted before every global 429 pause ever reported has    *)
(* run out, also when a shorter pause is reported after a longer one.       *)
PauseHonoured ==
    [][grantLog' # grantLog =>
         \A a \in PausesApplied : now >= PauseEnd(a.ts, answer[a.id])]_vars

InvalidApplied(t) ==
    {a \in applyLog : /\ CountsAsInvalidRequest(answer[a.id])
                      /\ a.ts > t - InvalidWindow}

(* A grant is given only while fewer invalid responses than the safety      *)
(* threshold were reported during the window that ends now.                 *)
InvalidBudgetHonoured ==
    [][grantLog' # grantLog =>
         Cardinality(InvalidApplied(now)) < InvalidThreshold]_vars

(* The retry_after_ms of a refusal is neither too early nor too late: a     *)
(* Channel that waits exactly that long is no longer refused for the        *)
(* ceiling or the pause it met (if nobody else used the budget meanwhile),  *)
(* and one tick earlier it still would have been.                           *)
RefusalHintExact ==
    LET d == Decision(now)
        before == now + d.retry_after - 1
        after == now + d.retry_after
    IN  /\ (~d.granted /\ d.reason = "global_ceiling")
               => CeilingRefuses(before) /\ ~CeilingRefuses(after)
        /\ (~d.granted /\ d.reason = "global_retry_after")
               => PauseRefuses(before) /\ ~PauseRefuses(after)

(* What the worker's README claims of re-sent reports: a Channel crash      *)
(* after a delivery can never make the Budget count the same response twice *)
(* or extend a global pause.                                                *)
NeverAppliedTwice ==
    \A a, b \in applyLog :
        /\ a.id = b.id
        /\ \/ CountsAsInvalidRequest(answer[a.id])
           \/ PausesEverybody(answer[a.id])
        => a = b
=============================================================================
