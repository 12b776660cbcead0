--------------------------- MODULE BackfillChannel ---------------------------
(***************************************************************************)
(* One Backfill Channel Durable Object: it crawls the history of one       *)
(* Discord channel backwards, page by page, archives every page in R2 and  *)
(* only then advances its cursor.  The crawl runs inside the alarm handler *)
(* (alarm, executePage, flushPendingCoordination, applyOutcome); start()   *)
(* and resume() are called by the API.                                     *)
(*                                                                         *)
(* A step is the synchronous code between two awaits (Budget RPC, Discord  *)
(* request, R2 put) or between two of the code's fault points; a crash may *)
(* fall between any two steps.  The Budget, Discord and R2 answer in every *)
(* way the code distinguishes.                                             *)
(*                                                                         *)
(* Time.  The code stores absolute times and only ever compares them with  *)
(* the clock or takes their maximum with it, so a stored time t is kept    *)
(* here as the time left, max(0, t - now), and Tick lets one unit pass.    *)
(***************************************************************************)
EXTENDS Integers, FiniteSets, FiniteSetsExt

CONSTANTS
    Runs,            \* run ids
    Ranges,          \* the ranges start() is called with
    PageLimit,       \* page_limit of a run
    PagesPerAlarm,   \* BACKFILL_PAGES_PER_ALARM
    BackoffBase,     \* transientBackoffMs: 2_000 ms
    BackoffMax,      \* transientBackoffMs: 5 minutes
    AttemptCap,      \* transientBackoffMs: Math.min(attempt, 10)
    Hints,           \* retry_after_ms values the Budget refuses with
    RetryAfters,     \* Retry-After values of a 429
    Resets,          \* time to the reset of an exhausted route bucket
    FirstMessages,   \* messages in the channel at the beginning
    Null,
    MaxMessage,      \* bound: message ids are 1..MaxMessage
    MaxLatency,      \* bound: a page takes at most this many ticks
    MaxCrashes,      \* bound: number of crashes
    AlarmsCanBeLost  \* may the platform give up re-delivering an alarm?

Messages == 1..MaxMessage

CrawlRange == [after: Messages \cup {Null}, before: Messages \cup {Null}]

\* A recorded 401 / 403 / 429 and what to do once the Budget knows: halt,
\* fail, or wait until the Retry-After (left) has passed.
Pending == [then: {"halt", "fail", "wait"}, left: Nat]

\* One archived page: the Observations of one request differ in their random
\* id only, which no decision of the channel looks at.
Object == [run: Runs, before: Messages \cup {Null}, page: SUBSET Messages]

\* A Discord response; left is the time to the reset, or the backoff of a 5xx.
Reply == [class: {"page", "garbled", "client_error", "server_error"},
          page: SUBSET Messages, left: Nat]

ASSUME ChannelAssumption ==
    /\ MaxMessage \in Nat
    /\ FirstMessages \subseteq Messages
    /\ Ranges \subseteq CrawlRange
    /\ PageLimit \in Nat \ {0} /\ PagesPerAlarm \in Nat \ {0}
    /\ BackoffBase \in Nat \ {0} /\ BackoffMax \in Nat \ {0}
    /\ AttemptCap \in Nat
    /\ Hints \subseteq Nat /\ RetryAfters \subseteq Nat /\ Resets \subseteq Nat
    /\ MaxLatency \in Nat /\ MaxCrashes \in Nat
    /\ AlarmsCanBeLost \in BOOLEAN
    /\ Null \notin Nat \cup Pending \cup Reply \cup Object
    /\ Null \notin Runs

VARIABLES
    \* durable: SQLite of the object, its alarm, the R2 bucket
    runs,       \* table runs
    alarm,      \* the time left to the scheduled alarm, or Null
    archive,    \* the Observations in R2
    \* volatile: the instance and the alarm handler it is running
    up,         \* is the object instantiated?
    pc,         \* where the alarm handler stands ("idle": not running)
    cur,        \* the run the handler works on
    pagesLeft,  \* iterations left in the loop over pagesPerAlarm
    reply,      \* the Discord response being processed
    elapsed,    \* time since the clock was read after budget.acquire()
    \* environment
    discord,    \* the messages in the channel
    newest,     \* the newest message id ever assigned
    crashes,    \* crashes so far
    \* history
    stable,     \* per run: messages there since its start and never deleted
    owed,       \* a recorded 401/403/429 the Budget does not know of yet
    hold        \* the recorded rate-limit pause of the channel still running

durable     == <<runs, alarm, archive>>
handler     == <<pc, cur, pagesLeft, reply, elapsed>>
environment == <<discord, newest, crashes>>
history     == <<stable, owed, hold>>
vars == <<durable, up, handler, environment, history>>

ActiveStates   == {"running", "waiting"}
TerminalStates == {"completed", "failed", "halted"}

RunRow == [state: {"absent"} \cup ActiveStates \cup TerminalStates,
           range: CrawlRange,
           cursor: Messages \cup {Null},   \* cursor_before
           eligibleIn: Nat,                \* next_eligible_at
           attempt: 0..AttemptCap,
           pending: Pending \cup {Null},   \* pending_coordination
           last: Object \cup {Null}]       \* last_archived

Awaits == {"acquire", "fetch", "advise", "commit", "flush"}
Sync   == {"loop", "progress", "resolve", "arm"}

TypeOK ==
    /\ runs \in [Runs -> RunRow]
    /\ alarm \in Nat \cup {Null}
    /\ archive \subseteq Object
    /\ up \in BOOLEAN
    /\ pc \in {"idle"} \cup Awaits \cup Sync
    /\ cur \in Runs \cup {Null}
    /\ pagesLeft \in 0..PagesPerAlarm
    /\ reply \in Reply \cup {Null}
    /\ elapsed \in Nat
    /\ discord \subseteq Messages
    /\ newest \in 0..MaxMessage
    /\ crashes \in Nat
    /\ stable \in [Runs -> SUBSET Messages]
    /\ owed \in BOOLEAN
    /\ hold \in [run: Runs \cup {Null}, left: Nat]

AbsentRun == [state |-> "absent", range |-> [after |-> Null, before |-> Null],
              cursor |-> Null, eligibleIn |-> 0, attempt |-> 0,
              pending |-> Null, last |-> Null]

Init ==
    /\ runs = [r \in Runs |-> AbsentRun]
    /\ alarm = Null
    /\ archive = {}
    /\ up = TRUE
    /\ pc = "idle" /\ cur = Null /\ pagesLeft = 0 /\ reply = Null /\ elapsed = 0
    /\ discord = FirstMessages
    /\ newest = IF FirstMessages = {} THEN 0 ELSE Max(FirstMessages)
    /\ crashes = 0
    /\ stable = [r \in Runs |-> {}]
    /\ owed = FALSE
    /\ hold = [run |-> Null, left |-> 0]

-----------------------------------------------------------------------------
(* Pure parts of the worker.                                                *)

Active(r) == runs[r].state \in ActiveStates
ActiveRuns == {r \in Runs : Active(r)}

Smaller(a, b) == IF a < b THEN a ELSE b

\* t minus the time already spent, never below zero
Left(t, spent) == IF t > spent THEN t - spent ELSE 0

TransientBackoff(attempt) ==
    Smaller(BackoffMax, BackoffBase * 2^Smaller(attempt, AttemptCap))

\* attempt + 1; nothing reads it above AttemptCap
NextAttempt(attempt) == Smaller(attempt + 1, AttemptCap)

NextRequestBefore(r) ==
    IF runs[r].cursor # Null THEN runs[r].cursor ELSE runs[r].range.before

\* Mutant for Completes: a page that is exactly full counts as the last one
CompletesEarly(page, range) ==
    \/ page = {}
    \/ range.after # Null /\ Min(page) <= range.after
    \/ Cardinality(page) <= PageLimit

\* advanceCursor: is the crawl of range complete after this page?
Completes(page, range) ==
    \/ page = {}
    \/ range.after # Null /\ Min(page) <= range.after
    \/ Cardinality(page) < PageLimit

\* Get Channel Messages: the newest PageLimit messages older than before
Older(before) == {m \in discord : before = Null \/ m < before}

IsPage(page, before) ==
    /\ page \subseteq Older(before)
    /\ Cardinality(page) <= PageLimit
    /\ \A m \in Older(before) \ page, p \in page : m < p
    /\ Cardinality(page) < PageLimit => page = Older(before)

-----------------------------------------------------------------------------
(* How a step of the handler may end.                                       *)

\* applyOutcome(retry), then the loop is left
RetryIn(delay) ==
    /\ runs' = [runs EXCEPT ![cur].state = "running",
                            ![cur].eligibleIn = delay,
                            ![cur].attempt = NextAttempt(@)]
    /\ pc' = "arm"
    /\ reply' = Null /\ elapsed' = 0

\* applyOutcome(deferred), then the loop is left
WaitFor(delay) ==
    /\ runs' = [runs EXCEPT ![cur].state = "waiting",
                            ![cur].eligibleIn = delay]
    /\ pc' = "arm"
    /\ reply' = Null /\ elapsed' = 0

\* markTerminal, then the loop is left
EndRun(state) ==
    /\ runs' = [runs EXCEPT ![cur].state = state]
    /\ pc' = "arm"
    /\ reply' = Null /\ elapsed' = 0

\* what every step of the handler below leaves alone
Elsewhere == UNCHANGED <<alarm, up, cur, pagesLeft, environment>>

-----------------------------------------------------------------------------
(* Mutants: plausible slips in the code, each of which breaks a property    *)
(* (CompletesEarly, above, is another).  No definition uses them.           *)

\* for EnterHandler: any run that was started is loaded, ended or not
EnterHandlerEnded ==
    /\ up /\ pc = "idle"
    /\ IF \A r \in Runs : runs[r].state = "absent"
       THEN UNCHANGED <<pc, cur, pagesLeft>>
       ELSE \E r \in Runs :
               /\ runs[r].state # "absent"
               /\ pc' = "loop" /\ cur' = r /\ pagesLeft' = PagesPerAlarm
    /\ UNCHANGED <<runs, archive, up, reply, elapsed, environment, history>>

\* for Iterate: the pending report is not delivered first
IterateWithoutFlush ==
    /\ pc = "loop"
    /\ pagesLeft > 0 /\ runs[cur].eligibleIn = 0
    /\ pagesLeft' = pagesLeft - 1
    /\ pc' = "acquire"
    /\ UNCHANGED <<durable, up, cur, reply, elapsed, environment, history>>

\* for Arm: only a run in state "running" gets its next alarm
ArmRunningOnly ==
    /\ pc = "arm"
    /\ alarm' = IF runs[cur].state = "running" THEN runs[cur].eligibleIn ELSE alarm
    /\ pc' = "idle" /\ cur' = Null /\ pagesLeft' = 0
    /\ UNCHANGED <<runs, archive, up, reply, elapsed, environment, history>>

\* for CommitFails: the R2 put is not awaited, so nobody sees it fail
CommitNotAwaited ==
    /\ pc = "commit"
    /\ pc' = "progress"
    /\ Elsewhere /\ UNCHANGED <<runs, archive, reply, elapsed, history>>

\* for FlushFails: the report is dropped when its delivery fails
FlushFailureDropped ==
    /\ pc = "flush"
    /\ runs' = [runs EXCEPT ![cur].pending = Null,
                            ![cur].eligibleIn = TransientBackoff(runs[cur].attempt)]
    /\ pc' = "arm"
    /\ Elsewhere /\ UNCHANGED <<archive, reply, elapsed, history>>

\* for EnsureScheduled: a waiting run is not looked for
EnsureScheduledForRunning ==
    IF alarm = Null /\ \E r \in Runs : runs[r].state = "running"
    THEN \E r \in ActiveRuns : alarm' = runs[r].eligibleIn
    ELSE UNCHANGED alarm

\* for Resolve: the deferred Retry-After is forgotten
ResolveAtOnce ==
    /\ pc = "resolve"
    /\ runs' = [runs EXCEPT ![cur].pending = Null,
                            ![cur].state = IF runs[cur].pending.then = "halt"
                                           THEN "halted" ELSE "waiting"]
    /\ pc' = "arm"
    /\ Elsewhere /\ UNCHANGED <<archive, reply, elapsed, history>>

-----------------------------------------------------------------------------
(* The alarm handler.                                                       *)

\* The object is instantiated: migrate(), then ensureScheduled() re-arms an
\* active run whose alarm is gone.
EnsureScheduled ==
    IF alarm = Null /\ ActiveRuns # {}
    THEN \E r \in ActiveRuns : alarm' = runs[r].eligibleIn
    ELSE UNCHANGED alarm

Wake ==
    /\ ~up
    /\ up' = TRUE
    /\ EnsureScheduled
    /\ UNCHANGED <<runs, archive, handler, environment, history>>

\* alarm(): load the active run, if there is one
EnterHandler ==
    /\ up /\ pc = "idle"
    /\ IF ActiveRuns = {}
       THEN UNCHANGED <<pc, cur, pagesLeft>>
       ELSE \E r \in ActiveRuns :
               /\ pc' = "loop" /\ cur' = r /\ pagesLeft' = PagesPerAlarm
    /\ UNCHANGED <<runs, archive, up, reply, elapsed, environment, history>>

AlarmFires ==
    /\ alarm = 0
    /\ alarm' = Null
    /\ EnterHandler

\* Alarms are delivered at least once: a delivery may be repeated
AlarmRedelivered ==
    /\ UNCHANGED alarm
    /\ EnterHandler

\* the loop is left: pages used up, or next_eligible_at not reached
LoopEnds ==
    /\ pc = "loop"
    /\ pagesLeft = 0 \/ runs[cur].eligibleIn > 0
    /\ pc' = "arm"
    /\ UNCHANGED <<durable, up, cur, pagesLeft, reply, elapsed, environment,
                   history>>

\* an iteration begins: executePage, or first flush the pending report
Iterate ==
    /\ pc = "loop"
    /\ pagesLeft > 0 /\ runs[cur].eligibleIn = 0
    /\ pagesLeft' = pagesLeft - 1
    /\ pc' = IF runs[cur].pending = Null THEN "acquire" ELSE "flush"
    /\ UNCHANGED <<durable, up, cur, reply, elapsed, environment, history>>

\* alarm() ends: an active run gets its next alarm
Arm ==
    /\ pc = "arm"
    /\ alarm' = IF Active(cur) THEN runs[cur].eligibleIn ELSE alarm
    /\ pc' = "idle" /\ cur' = Null /\ pagesLeft' = 0
    /\ UNCHANGED <<runs, archive, up, reply, elapsed, environment, history>>

-----------------------------------------------------------------------------
(* executePage: budget.acquire(), the Discord request, the R2 commit.       *)

\* the request is sent as soon as the Budget grants a slot
AcquireGranted ==
    /\ pc = "acquire"
    /\ pc' = "fetch" /\ elapsed' = 0
    /\ Elsewhere /\ UNCHANGED <<runs, archive, reply, history>>

AcquireRefused ==
    /\ pc = "acquire"
    /\ \E hint \in Hints : WaitFor(hint)
    /\ Elsewhere /\ UNCHANGED <<archive, history>>

AcquireHalted ==
    /\ pc = "acquire"
    /\ EndRun("halted")
    /\ Elsewhere /\ UNCHANGED <<archive, history>>

\* the Budget cannot be reached: caught by alarm() as an unexpected error
AcquireFails ==
    /\ pc = "acquire"
    /\ RetryIn(TransientBackoff(runs[cur].attempt))
    /\ Elsewhere /\ UNCHANGED <<archive, history>>

\* no response: the backoff counts from before the request
FetchFails ==
    /\ pc = "fetch"
    /\ RetryIn(Left(TransientBackoff(runs[cur].attempt), elapsed))
    /\ Elsewhere /\ UNCHANGED <<archive, history>>

\* any response that is no 401 / 403 / 429 is first reported to the Budget,
\* as advice: whether that succeeds makes no difference
Answer(class, page, left) ==
    /\ pc = "fetch"
    /\ reply' = [class |-> class, page |-> page, left |-> left]
    /\ pc' = "advise"
    /\ Elsewhere /\ UNCHANGED <<runs, archive, elapsed, history>>

\* nextEligibleAfterSuccess: only an exhausted bucket makes the run wait
ResetDelays == Resets \cup {0}

FetchPage ==
    /\ pc = "fetch"
    /\ \E page \in SUBSET Older(NextRequestBefore(cur)), left \in ResetDelays :
          /\ IsPage(page, NextRequestBefore(cur))
          /\ Answer("page", page, left)

FetchOther ==
    \/ Answer("garbled", {}, 0)
    \/ Answer("client_error", {}, 0)
    \/ Answer("server_error", {}, TransientBackoff(runs[cur].attempt))

\* 401 / 403 / 429 (safetyCritical): report and deferred outcome are stored
\* before anything else happens; the next iteration delivers the report
FetchCritical(then, left) ==
    /\ pc = "fetch"
    /\ runs' = [runs EXCEPT ![cur].state = "waiting",
                            ![cur].pending = [then |-> then, left |-> left],
                            ![cur].eligibleIn = 0]
    /\ pc' = "loop" /\ elapsed' = 0
    /\ owed' = TRUE
    /\ hold' = IF then = "wait" THEN [run |-> cur, left |-> left] ELSE hold
    /\ Elsewhere /\ UNCHANGED <<archive, reply, stable>>

FetchRejected ==
    \/ FetchCritical("halt", 0)
    \/ FetchCritical("fail", 0)
    \/ \E left \in RetryAfters : FetchCritical("wait", left)

\* the advisory report is over: a page goes to the archive ...
CommitPage ==
    /\ pc = "advise" /\ reply.class = "page"
    /\ pc' = "commit"
    /\ Elsewhere /\ UNCHANGED <<runs, archive, reply, elapsed, history>>

\* ... a 5xx is retried, the backoff counting from the response ...
ServerError ==
    /\ pc = "advise" /\ reply.class = "server_error"
    /\ RetryIn(reply.left)
    /\ Elsewhere /\ UNCHANGED <<archive, history>>

\* ... and an unparseable page, a 404 or another 4xx ends the run
PermanentError ==
    /\ pc = "advise" /\ reply.class \in {"garbled", "client_error"}
    /\ EndRun("failed")
    /\ Elsewhere /\ UNCHANGED <<archive, history>>

NewObject == [run |-> cur, before |-> NextRequestBefore(cur),
              page |-> reply.page]

\* archive.commit() resolves: created, or already present with the same id
\* and hash (the put had been replayed)
CommitAccepted ==
    /\ pc = "commit"
    /\ archive' = archive \cup {NewObject}
    /\ pc' = "progress"
    /\ Elsewhere /\ UNCHANGED <<runs, reply, elapsed, history>>

\* archive.commit() rejects; the object may have been stored all the same
CommitFails ==
    /\ pc = "commit"
    /\ archive' \in {archive, archive \cup {NewObject}}
    /\ RetryIn(Left(TransientBackoff(runs[cur].attempt), elapsed))
    /\ Elsewhere /\ UNCHANGED history

\* ArchiveInvariantViolation: another object is stored under the key
CommitViolates ==
    /\ pc = "commit"
    /\ EndRun("failed")
    /\ Elsewhere /\ UNCHANGED <<archive, history>>

\* applyOutcome(archived): the cursor follows the archive
Progress ==
    /\ pc = "progress"
    /\ LET done == Completes(reply.page, runs[cur].range)
       IN  /\ runs' = [runs EXCEPT
                         ![cur].state = IF done THEN "completed" ELSE "running",
                         ![cur].cursor = IF done THEN @ ELSE Min(reply.page),
                         ![cur].last = NewObject,
                         ![cur].eligibleIn = reply.left,
                         ![cur].attempt = 0]
           /\ pc' = IF done THEN "arm" ELSE "loop"
    /\ hold' = [run |-> cur, left |-> reply.left]
    /\ reply' = Null /\ elapsed' = 0
    /\ Elsewhere /\ UNCHANGED <<archive, stable, owed>>

-----------------------------------------------------------------------------
(* flushPendingCoordination: budget.report() before any new request.        *)

FlushRecorded ==
    /\ pc = "flush"
    /\ owed' = FALSE
    /\ pc' = "resolve"
    /\ Elsewhere /\ UNCHANGED <<runs, archive, reply, elapsed, stable, hold>>

\* the call fails; the Budget may have recorded the report all the same
FlushFails ==
    /\ pc = "flush"
    /\ owed' \in {owed, FALSE}
    /\ runs' = [runs EXCEPT
                  ![cur].state = "waiting",
                  ![cur].eligibleIn = TransientBackoff(runs[cur].attempt),
                  ![cur].attempt = NextAttempt(@)]
    /\ pc' = "arm"
    /\ Elsewhere /\ UNCHANGED <<archive, reply, elapsed, stable, hold>>

DeferredState(then) ==
    CASE then = "halt" -> "halted" [] then = "fail" -> "failed"
      [] then = "wait" -> "waiting"

\* applyOutcome(coordination_resolved): one transaction clears the pending
\* report and applies the deferred outcome
Resolve ==
    /\ pc = "resolve"
    /\ LET pending == runs[cur].pending
       IN  runs' = [runs EXCEPT
                      ![cur].pending = Null,
                      ![cur].state = DeferredState(pending.then),
                      ![cur].eligibleIn = IF pending.then = "wait"
                                          THEN pending.left ELSE @]
    /\ pc' = "arm"
    /\ Elsewhere /\ UNCHANGED <<archive, reply, elapsed, history>>

-----------------------------------------------------------------------------
(* API calls, crashes, the clock and the channel itself.                    *)

\* validateStart: the API refuses an empty range
ValidRange(range) ==
    range.after # Null /\ range.before # Null => range.after < range.before

\* start(): refused while a run is active, which it is whenever the handler
\* is not idle
Start(r, range) ==
    /\ ValidRange(range)
    /\ up /\ pc = "idle"
    /\ ActiveRuns = {}
    /\ runs[r].state = "absent"
    /\ runs' = [runs EXCEPT ![r] = [AbsentRun EXCEPT !.state = "running",
                                                     !.range = range]]
    /\ alarm' = 0
    /\ stable' = [stable EXCEPT ![r] = discord]
    /\ UNCHANGED <<archive, up, handler, environment, owed, hold>>

\* resume(): while the handler runs its own alarm counts as gone, so a call
\* at one of its awaits arms a second one
Resume ==
    /\ up /\ pc \in {"idle"} \cup Awaits
    /\ alarm = Null /\ ActiveRuns # {}
    /\ EnsureScheduled
    /\ UNCHANGED <<runs, archive, up, handler, environment, history>>

\* The handler throws or the instance dies: its locals are gone.  An alarm
\* whose handler did not finish is delivered again, unless the platform gives
\* up on it.
Crash ==
    /\ up /\ crashes < MaxCrashes
    /\ crashes' = crashes + 1
    /\ up' \in (IF pc = "idle" THEN {FALSE} ELSE BOOLEAN)
    /\ pc' = "idle" /\ cur' = Null /\ pagesLeft' = 0 /\ reply' = Null
    /\ elapsed' = 0
    /\ IF pc = "idle" \/ alarm # Null
       THEN UNCHANGED alarm
       ELSE alarm' \in {0} \cup (IF AlarmsCanBeLost THEN {Null} ELSE {})
    /\ UNCHANGED <<runs, archive, discord, newest, history>>

Sooner(t) == Left(t, 1)

RowAfterTick(row) ==
    [row EXCEPT !.eligibleIn = Sooner(@),
                !.pending = IF row.pending = Null THEN Null
                            ELSE [row.pending EXCEPT !.left = Sooner(@)]]

InPage == pc \in {"fetch", "advise", "commit"}

Tick ==
    /\ InPage => elapsed < MaxLatency
    /\ runs' = [r \in Runs |-> RowAfterTick(runs[r])]
    /\ alarm' = IF alarm = Null THEN Null ELSE Sooner(alarm)
    /\ elapsed' = IF InPage THEN elapsed + 1 ELSE elapsed
    /\ reply' = IF reply = Null THEN Null
                ELSE [reply EXCEPT !.left = Sooner(@)]
    /\ hold' = [hold EXCEPT !.left = Sooner(@)]
    /\ UNCHANGED <<archive, up, pc, cur, pagesLeft, environment, stable, owed>>

Post ==
    /\ newest < MaxMessage
    /\ newest' = newest + 1
    /\ discord' = discord \cup {newest + 1}
    /\ UNCHANGED <<durable, up, handler, crashes, history>>

Delete(m) ==
    /\ m \in discord
    /\ discord' = discord \ {m}
    /\ stable' = [r \in Runs |-> stable[r] \ {m}]
    /\ UNCHANGED <<durable, up, handler, newest, crashes, owed, hold>>

AlarmHandler ==
    \/ LoopEnds \/ Iterate \/ Arm
    \/ AcquireGranted \/ AcquireRefused \/ AcquireHalted \/ AcquireFails
    \/ FetchFails \/ FetchPage \/ FetchOther \/ FetchRejected
    \/ CommitPage \/ ServerError \/ PermanentError
    \/ CommitAccepted \/ CommitFails \/ CommitViolates \/ Progress
    \/ FlushRecorded \/ FlushFails \/ Resolve

Next ==
    \/ AlarmHandler
    \/ Wake \/ AlarmFires \/ AlarmRedelivered
    \/ \E r \in Runs, range \in Ranges : Start(r, range)
    \/ Resume \/ Crash \/ Tick
    \/ Post \/ \E m \in Messages : Delete(m)

Spec == Init /\ [][Next]_vars

(* Fairness.  The runtime runs a handler on to its next await, lets time     *)
(* pass, instantiates the object for a due alarm and delivers the alarm; a   *)
(* call that is awaited returns.  Of the services only this much is assumed: *)
(* asked again and again, the Budget grants a slot and records a report,     *)
(* Discord serves the page and R2 stores it, each at least once in a while.  *)
Fairness ==
    /\ WF_vars(LoopEnds \/ Iterate \/ Arm \/ CommitPage \/ ServerError
               \/ PermanentError \/ Progress \/ Resolve)
    /\ WF_vars(Tick)
    /\ WF_vars(alarm = 0 /\ Wake)
    /\ WF_vars(AlarmFires)
    /\ SF_vars(AcquireGranted)
    /\ SF_vars(FetchPage)
    /\ SF_vars(CommitAccepted)
    /\ SF_vars(FlushRecorded)

FairSpec == Spec /\ Fairness

(* Once the platform has given up on an alarm, which it does only after a    *)
(* crash of the handler, nothing in the code wakes the run: the operator has *)
(* to, whose call of resume() instantiates the object.                       *)
Stranded == crashes > 0 /\ pc = "idle" /\ alarm = Null /\ ActiveRuns # {}

AttendedSpec == FairSpec /\ WF_vars(Stranded /\ (Wake \/ Resume))

-----------------------------------------------------------------------------
(* Properties.                                                              *)

InRange(m, range) ==
    /\ range.before # Null => m < range.before
    /\ range.after # Null => m > range.after

\* the part of its range a run claims to have archived
Claimed(r) ==
    {m \in Messages :
        /\ InRange(m, runs[r].range)
        /\ \/ runs[r].state = "completed"
           \/ runs[r].cursor # Null /\ m >= runs[r].cursor}

Archived(r) == UNION {o.page : o \in {x \in archive : x.run = r}}

(* Every message that was in the channel when the run started and was not   *)
(* deleted since is archived by this run once the cursor has passed it, and *)
(* a completed run has archived all of its range, through crashes at every  *)
(* point, refetched pages, deletions during the crawl and pages that are    *)
(* exactly full.                                                            *)
NoGap == \A r \in Runs : stable[r] \cap Claimed(r) \subseteq Archived(r)

(* Durable progress is never ahead of R2: the page a run names as its last  *)
(* is stored, and an advanced cursor is the oldest message of that page     *)
(* (until the closing page, which leaves the cursor).                       *)
ProgressBacked ==
    \A r \in Runs :
        /\ runs[r].last # Null => runs[r].last \in archive
        /\ (runs[r].cursor # Null /\ runs[r].state # "completed") =>
              runs[r].last # Null /\ runs[r].cursor = Min(runs[r].last.page)

(* A 401 / 403 / 429 that was recorded is not lost before the Budget knows  *)
(* of it: its run stays active with the report pending, through crashes,    *)
(* failed deliveries and lost replies.                                      *)
OwedIsPending ==
    owed => \E r \in ActiveRuns : runs[r].pending # Null

RequestSent == pc # "fetch" /\ pc' = "fetch"

(* While such a report is owed the channel sends Discord no request.        *)
ReportFirst == [][RequestSent => ~owed]_vars

(* A run sends no request before a Retry-After or an exhausted route bucket *)
(* that it has recorded has run out, whatever crashes, backoffs of failed   *)
(* reports, repeated alarms and resume() calls came in between.             *)
HoldHonoured ==
    [][RequestSent => (hold.run = cur => hold.left = 0)]_vars

(* What rate-limit.ts says of the route: "When the bucket is exhausted the  *)
(* caller waits for the reset instead of provoking a 429", here for every   *)
(* run of the channel, all of which use the same route.                     *)
BucketHonoured == [][RequestSent => hold.left = 0]_vars

(* A live instance at rest never leaves an active run without an alarm, nor *)
(* with one later than the time the run may go on.                          *)
AlarmArmed ==
    (up /\ pc = "idle") =>
        \A r \in ActiveRuns : alarm # Null /\ alarm <= runs[r].eligibleIn

\* The state of a run as the one who started it sees it
SeenAs(state) ==
    IF state \in ActiveStates THEN "active"
    ELSE IF state \in {"failed", "halted"} THEN "abandoned" ELSE state

Progressing ==
    [r \in Runs |-> [state  |-> SeenAs(runs[r].state),
                     range  |-> runs[r].range,
                     cursor |-> NextRequestBefore(r)]]

ArchivedSoFar == [r \in Runs |-> Archived(r)]

Promise ==
    INSTANCE Crawl WITH
        run <- Progressing, archived <- ArchivedSoFar, present <- stable

(* The alarms, retries and crashes together carry out a crawl: one run at a *)
(* time, whose cursor only descends and only over what is archived, and     *)
(* which archives nothing once it has ended (backfill-channel.ts:188-247,   *)
(* cursor.ts).                                                              *)
ImplementsCrawl == Promise!Spec

(* Every run that is started ends, through crashes and repeated alarms, and *)
(* through lost ones when the operator resumes a run that stands still      *)
(* (backfill-channel.ts:115-120, 178-186, 238-241).                        *)
RunEnds ==
    \A r \in Runs : Active(r) ~> runs[r].state \in TerminalStates
=============================================================================
