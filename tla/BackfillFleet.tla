--------------------------- MODULE BackfillFleet ---------------------------
(***************************************************************************)
(* Several Backfill Channels and the one Discord HTTP Budget they ask: how *)
(* far the decisions of the Budget carry when the requests it granted are  *)
(* under way, when their answers are still unreported, and when a Channel  *)
(* gives up a request that reaches Discord all the same.                   *)
(*                                                                         *)
(* The Budget is HttpBudget, all of it.  Of a Channel only the part of     *)
(* executePage and flushPendingCoordination is kept that the Budget has to *)
(* do with; BackfillChannel has the rest, and its ReportFirst is here the  *)
(* shape of the Channel.  Advisory reports change nothing the Budget       *)
(* decides by and are left out, and a Channel may end a wait at any time.  *)
(***************************************************************************)
EXTENDS HttpBudget

CONSTANTS
    Channels,   \* Backfill Channel objects
    MaxAstray   \* bound: requests that crashes and transport failures make a
                \* Channel give up

ASSUME FleetAssumption ==
    IsFiniteSet(Channels) /\ MaxAstray \in Nat /\ Null \notin Requests

VARIABLES
    channel,    \* per channel: where it stands with its request
    sentLog,    \* history: the requests that reached Discord
    heardLog,   \* history: the invalid answers Discord gave
    astray      \* history: the requests a Channel gave up before their answers

fleet == <<channel, sentLog, heardLog, astray>>
fleetVars == <<vars, fleet>>

ChannelState == {"ready", "granted", "sent", "owing", "stopped"}

Idle(state) == [state |-> state, request |-> Null, answer |-> Null]

FleetTypeOK ==
    /\ TypeOK
    /\ sentLog \subseteq Row /\ heardLog \subseteq Row
    /\ astray \subseteq Granted
    /\ \A c \in Channels :
          /\ channel[c].state \in ChannelState
          /\ IF channel[c].state \in {"ready", "stopped"}
             THEN channel[c] = Idle(channel[c].state)
             ELSE channel[c].request \in Granted
          /\ channel[c].answer \in IF channel[c].state = "owing" THEN Answers ELSE {Null}
    /\ \A c, d \in Channels :
          c # d /\ channel[c].request # Null => channel[c].request # channel[d].request
    /\ \A c \in Channels : channel[c].request \notin astray

FleetInit ==
    /\ Init
    /\ channel = [c \in Channels |-> Idle("ready")]
    /\ sentLog = {} /\ heardLog = {} /\ astray = {}

At(c, state) == channel[c].state = state

-----------------------------------------------------------------------------
(* executePage                                                             *)

\* budget.acquire() grants
Ask(c) ==
    /\ At(c, "ready")
    /\ \E r \in Requests :
          /\ AcquireGranted(r)
          /\ channel' = [channel EXCEPT ![c] =
                           [state |-> "granted", request |-> r, answer |-> Null]]
    /\ UNCHANGED <<sentLog, heardLog, astray>>

\* ... or refuses: a credential halt ends the run, all else makes it wait
AskRefused(c) ==
    /\ At(c, "ready")
    /\ AcquireRefused
    /\ channel' = [channel EXCEPT ![c] = Idle(IF HaltRefuses THEN "stopped" ELSE "ready")]
    /\ UNCHANGED <<sentLog, heardLog, astray>>

Stamped(r) == [id |-> r, ts |-> now]

\* The request reaches Discord some time after the grant
Send(c) ==
    /\ At(c, "granted")
    /\ sentLog' = sentLog \cup {Stamped(channel[c].request)}
    /\ channel' = [channel EXCEPT ![c].state = "sent"]
    /\ UNCHANGED <<vars, heardLog, astray>>

Heard(c, a) ==
    heardLog' = IF CountsAsInvalidRequest(a)
                THEN heardLog \cup {Stamped(channel[c].request)} ELSE heardLog

SafetyCritical(a) == a.status \in {401, 403, 429}

\* A rejection is reported like any other answer, once and for what it is worth
ReplyAdvisory(c, a) ==
    /\ At(c, "sent")
    /\ Heard(c, a)
    /\ channel' = [channel EXCEPT ![c] = Idle("ready")]
    /\ UNCHANGED <<vars, sentLog, astray>>

\* A 401, 403 or 429 is recorded, and nothing is asked before it is reported
Reply(c, a) ==
    /\ At(c, "sent")
    /\ Heard(c, a)
    /\ channel' = [channel EXCEPT ![c] =
                     IF SafetyCritical(a) THEN [@ EXCEPT !.state = "owing", !.answer = a]
                     ELSE Idle("ready")]
    /\ UNCHANGED <<vars, sentLog, astray>>

\* The Channel crashes, or its fetch throws: it will ask for another request,
\* while this one may be on its way
GiveUp(c) ==
    /\ Cardinality(astray) < MaxAstray
    /\ At(c, "granted") \/ At(c, "sent")
    /\ astray' = astray \cup {channel[c].request}
    /\ channel' = [channel EXCEPT ![c] = Idle("ready")]
    /\ UNCHANGED <<vars, sentLog, heardLog>>

\* A request that was given up reaches Discord after all ...
StrayArrives(r) ==
    /\ r \in astray /\ \A x \in sentLog : x.id # r
    /\ sentLog' = sentLog \cup {Stamped(r)}
    /\ UNCHANGED <<vars, channel, heardLog, astray>>

\* ... and is answered to nobody: what counts is an invalid answer
StrayAnswered(r) ==
    /\ r \in astray /\ (\E x \in sentLog : x.id = r)
    /\ \A x \in heardLog : x.id # r
    /\ \E a \in Answers : CountsAsInvalidRequest(a)
    /\ heardLog' = heardLog \cup {Stamped(r)}
    /\ UNCHANGED <<vars, channel, sentLog, astray>>

-----------------------------------------------------------------------------
(* flushPendingCoordination                                                *)

Deferred(a) == Idle(IF a.status = 429 THEN "ready" ELSE "stopped")

\* budget.report(), whose answer may be lost: then it is sent again
Report(c) ==
    /\ At(c, "owing")
    /\ LET r == channel[c].request
           a == channel[c].answer
       IN  /\ ReportNew(r, a) \/ ReportSeen(r, a)
           /\ channel' \in {channel, [channel EXCEPT ![c] = Deferred(a)]}
    /\ UNCHANGED <<sentLog, heardLog, astray>>

\* start(): another run of the channel
StartRun(c) ==
    /\ At(c, "stopped")
    /\ channel' = [channel EXCEPT ![c] = Idle("ready")]
    /\ UNCHANGED <<vars, sentLog, heardLog, astray>>

FleetNext ==
    \/ \E c \in Channels :
          \/ Ask(c) \/ AskRefused(c) \/ Send(c)
          \/ \E a \in Answers : Reply(c, a)
          \/ GiveUp(c) \/ Report(c) \/ StartRun(c)
    \/ \E r \in Requests : StrayArrives(r) \/ StrayAnswered(r)
    \/ (ClearCredentialHalt \/ Tick) /\ UNCHANGED fleet

FleetSpec == FleetInit /\ [][FleetNext]_fleetVars

-----------------------------------------------------------------------------
(* Properties                                                              *)

Within(log, first, window) == {x \in log : x.ts >= first.ts /\ x.ts < first.ts + window}

Strays(rows) == {x \in rows : x.id \in astray}

\* What the Budget leaves unused of the invalid-request budget is enough for
\* the requests under way when it begins to refuse: Discord never counts more
\* invalid requests in any window than the threshold lets through, one more
\* for each other Channel, and those a Channel had given up
\* (discord-http-budget.ts:17-22, 131-140).
InvalidBounded ==
    \A first \in heardLog :
        LET counted == Within(heardLog, first, InvalidWindow)
        IN  Cardinality(counted) <= InvalidThreshold - 1 + Cardinality(Channels)
                                      + Cardinality(Strays(counted))

GrantedAt(r) == (CHOOSE g \in grantLog : g.id = r).ts

\* Requests reach Discord late, and so more than the ceiling may in a second.
\* Of those it sees in any second the ones granted in it are within the
\* ceiling, and of the older ones each Channel sent one at most, those that it
\* had given up apart (discord-http-budget.ts:142-153, step.ts:206-218).
CeilingAtDiscord ==
    \A first \in sentLog :
        LET seen == Within(sentLog, first, Second)
            older == {x \in seen : GrantedAt(x.id) < first.ts}
        IN  /\ Cardinality(seen \ older) <= GlobalCeiling
            /\ Cardinality(older \ Strays(older)) <= Cardinality(Channels)

\* Once the Budget knows of a 401 or of a global pause the only requests that
\* still go out are those it granted before (discord-http-budget.ts:118-129,
\* execution.md:65).
StopsReachFleet ==
    [][\A x \in sentLog' \ sentLog :
          /\ HaltRefuses => GrantedAt(x.id) <= credentialHaltAt
          /\ \A a \in PausesApplied :
                now < PauseEnd(a.ts, answer[a.id]) => GrantedAt(x.id) <= a.ts]_fleetVars
=============================================================================
