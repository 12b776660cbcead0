-------------------------- MODULE RunControlProofs --------------------------
(***************************************************************************)
(* Theorems about the control bucket of a rebuild run, for any number of   *)
(* calls, chunks, batches and attempts, and any interleaving of the calls. *)
(***************************************************************************)
EXTENDS RunControl, TLAPS

-----------------------------------------------------------------------------
(* What the actions have in common.                                        *)

(* Every action of a call replaces the state of that call only.             *)
LEMMA BecomeOne ==
  ASSUME TypeOK, NEW c \in Calls, NEW r, Become(c, r)
  PROVE  /\ call'[c] = r
         /\ \A d \in Calls : d # c => call'[d] = call[d]
BY DEF TypeOK, Become

LEMMA BecomeType ==
  ASSUME TypeOK, NEW c \in Calls, NEW r \in CallState, Become(c, r)
  PROVE  call' \in [Calls -> CallState]
BY DEF TypeOK, Become

LEMMA Units == Chunks \subseteq Unit /\ ExtractCount \in 0..UnitCount
BY RunControlAssumption DEF Chunks, Unit

LEMMA EndedType == NewCall \in CallState /\ Ended \in CallState
<1>1. /\ 1 \in 1..MaxAttempts /\ MaxUnits \in 0..MaxUnits
      /\ 0 \in 0..UnitCount
  BY RunControlAssumption
<1>2. "new" \in Pc /\ "ended" \in Pc /\ "extracting" \in Phase
  BY DEF Pc, Phase
<1>3. NewCall \in CallState
  BY <1>1, <1>2, Zenon DEF NewCall, CallState
<1> QED
  BY <1>2, <1>3 DEF Ended, CallState

(* The client never counts past its last attempt.                           *)
LEMMA ResendType ==
  ASSUME TypeOK, NEW c \in Calls, Resend(c)
  PROVE  call' \in [Calls -> CallState]
<1>1. call[c] \in CallState
  BY DEF TypeOK
<1>2. CASE call[c].attempt < MaxAttempts
  <2>1. [call[c] EXCEPT !.attempt = @ + 1] \in CallState
    BY <1>1, <1>2, RunControlAssumption DEF CallState
  <2> QED
    BY <2>1, <1>2, BecomeType DEF Resend
<1>3. CASE ~ (call[c].attempt < MaxAttempts)
  BY <1>3, EndedType, BecomeType DEF Resend
<1> QED
  BY <1>2, <1>3

(* What a call is after another attempt, or after its last one.             *)
Resent(c) == [call[c] EXCEPT !.attempt = @ + 1]

LEMMA ResendResult ==
  ASSUME TypeOK, NEW c \in Calls, Resend(c)
  PROVE  \E r \in {Resent(c), Ended} : Become(c, r)
BY DEF Resend, Resent

LEMMA ResentFields ==
  ASSUME TypeOK, NEW c \in Calls
  PROVE  /\ Resent(c).pc = call[c].pc /\ Resent(c).input = call[c].input
         /\ Resent(c).next = call[c].next /\ Resent(c).phase = call[c].phase
         /\ Resent(c).stopped = call[c].stopped /\ Resent(c).found = call[c].found
BY DEF TypeOK, CallState, Resent

LEMMA EndedFields ==
  /\ Ended.pc = "ended" /\ Ended.input = Null /\ Ended.next = 0
  /\ Ended.phase = "extracting" /\ ~ Ended.stopped /\ Ended.found = Null
BY DEF Ended, NewCall

(* An action of a call leaves the others alone.                             *)
CallAction(c) == Start(c) \/ Step(c) \/ Crash(c)

LEMMA OthersKept ==
  ASSUME TypeOK, NEW c \in Calls, CallAction(c)
  PROVE  \A d \in Calls : d # c => call'[d] = call[d]
<1>1. CASE PutCreates(c) \/ PutFails(c) \/ WriteRunStatus(c)
  BY <1>1, BecomeOne DEF PutCreates, PutFails, WriteRunStatus, Resend
<1>2. CASE Start(c) \/ PutRefused(c) \/ PutConflicts(c) \/ LoadManifest(c) \/ Crash(c)
  BY <1>2, BecomeOne DEF Start, PutRefused, PutConflicts, LoadManifest, Crash
<1>3. CASE Skip(c) \/ Work(c) \/ StopWork(c) \/ EndPhase(c) \/ ReadRunStatus(c)
  BY <1>3, BecomeOne DEF Skip, Work, StopWork, EndPhase, ReadRunStatus
<1> QED
  BY <1>1, <1>2, <1>3 DEF CallAction, Step

LEMMA CallDomain ==
  ASSUME TypeOK, NEW c \in Calls
  PROVE  DOMAIN call[c] = {"pc", "attempt", "input", "left", "next", "stopped", "phase", "found"}
BY DEF TypeOK, CallState

(* The fields that a step of the work changes.                              *)
LEMMA WorkResult ==
  ASSUME TypeOK, NEW c \in Calls, Skip(c) \/ Work(c) \/ StopWork(c)
  PROVE  /\ call'[c].pc = call[c].pc /\ call'[c].input = call[c].input
         /\ call'[c].phase = call[c].phase /\ call'[c].found = call[c].found
         /\ call'[c].next = IF StopWork(c) THEN call[c].next ELSE call[c].next + 1
         /\ call[c].pc \in {"extract", "commit"}
<1>1. CASE StopWork(c)
  <2>1. call'[c] = [call[c] EXCEPT !.stopped = TRUE]
    BY <1>1, BecomeOne DEF StopWork
  <2> QED
    BY <1>1, <2>1, CallDomain DEF StopWork, Working, At
<1>2. CASE ~ StopWork(c) /\ Skip(c)
  <2>1. call'[c] = [call[c] EXCEPT !.next = @ + 1]
    BY <1>2, BecomeOne DEF Skip
  <2> QED
    BY <1>2, <2>1, CallDomain DEF Skip, Working, At
<1>3. CASE ~ StopWork(c) /\ Work(c)
  <2>1. call'[c] = [call[c] EXCEPT !.next = @ + 1, !.left = IF @ > 0 THEN @ - 1 ELSE @]
    BY <1>3, BecomeOne DEF Work
  <2> QED
    BY <1>3, <2>1, CallDomain DEF Work, Working, At
<1> QED
  BY <1>1, <1>2, <1>3

LEMMA ReportResult ==
  ASSUME TypeOK, NEW c \in Calls, EndPhase(c) \/ ReadRunStatus(c)
  PROVE  /\ call'[c].input = call[c].input /\ call'[c].next = call[c].next
         /\ call'[c].stopped = call[c].stopped
         /\ EndPhase(c) => call'[c].pc = "read" /\ call'[c].phase = PhaseReached(c)
         /\ ReadRunStatus(c) => /\ call[c].pc = "read" /\ call'[c].pc = "write"
                                /\ call'[c].phase = call[c].phase
                                /\ call'[c].found = status
<1>1. CASE EndPhase(c)
  <2>1. call'[c] = [call[c] EXCEPT !.pc = "read", !.phase = PhaseReached(c)]
    BY <1>1, BecomeOne DEF EndPhase
  <2>2. ~ ReadRunStatus(c)
    BY <1>1 DEF EndPhase, ReadRunStatus, At
  <2> QED
    BY <2>1, <2>2, CallDomain
<1>2. CASE ReadRunStatus(c)
  <2>1. call'[c] = [call[c] EXCEPT !.pc = "write", !.found = status, !.attempt = 1]
    BY <1>2, BecomeOne DEF ReadRunStatus
  <2>2. ~ EndPhase(c)
    BY <1>2 DEF EndPhase, ReadRunStatus, At
  <2> QED
    BY <1>2, <2>1, <2>2, CallDomain DEF ReadRunStatus, At
<1> QED
  BY <1>1, <1>2

LEMMA FixResult ==
  ASSUME TypeOK, NEW c \in Calls,
         \/ Start(c) \/ PutCreates(c) \/ PutRefused(c) \/ PutConflicts(c)
         \/ PutFails(c) \/ LoadManifest(c) \/ Crash(c)
  PROVE  /\ call'[c].next \in {call[c].next, 0}
         /\ call'[c].pc \in {"put", "load", "extract", "ended"}
<1>1. CASE PutFails(c) \/ Crash(c)
  <2>1. call'[c] \in {Resent(c), Ended}
    BY <1>1, BecomeOne DEF PutFails, Crash, Resend, Resent
  <2> QED
    BY <1>1, <2>1, ResentFields, EndedFields, BecomeOne DEF PutFails, Crash, At
<1>2. CASE Start(c)
  <2>1. call'[c] = [call[c] EXCEPT !.pc = "put"]
    BY <1>2, BecomeOne DEF Start
  <2> QED
    BY <2>1, CallDomain
<1>3. CASE PutRefused(c) \/ PutConflicts(c)
  <2>1. call'[c] = [call[c] EXCEPT !.pc = "load"]
    BY <1>3, BecomeOne DEF PutRefused, PutConflicts
  <2> QED
    BY <2>1, CallDomain
<1>4. CASE PutCreates(c)
  <2>1. call'[c] \in {[call[c] EXCEPT !.pc = "extract", !.input = c], Resent(c), Ended}
    BY <1>4, BecomeOne DEF PutCreates, Resend, Resent
  <2> QED
    BY <1>4, <2>1, CallDomain, ResentFields, EndedFields DEF PutCreates, At
<1>5. CASE LoadManifest(c)
  <2>1. call'[c] \in {[call[c] EXCEPT !.pc = "extract", !.input = manifest], Ended}
    BY <1>5, BecomeOne DEF LoadManifest
  <2> QED
    BY <2>1, CallDomain, EndedFields
<1> QED
  BY <1>1, <1>2, <1>3, <1>4, <1>5

LEMMA WriteResult ==
  ASSUME TypeOK, NEW c \in Calls, WriteRunStatus(c)
  PROVE  /\ call'[c].next \in {call[c].next, 0}
         /\ \/ call'[c].pc = "ended"
            \/ /\ call'[c].pc = "write" /\ call'[c].phase = call[c].phase
               /\ call'[c].found = call[c].found
            \/ call'[c].pc = "commit" /\ call[c].phase = "committing"
<1>1. CASE Resend(c)
  <2>1. call'[c] \in {Resent(c), Ended}
    BY <1>1, BecomeOne DEF Resend, Resent
  <2> QED
    BY <2>1, ResentFields, EndedFields DEF WriteRunStatus, At
<1>2. CASE Become(c, Reported(c))
  <2>1. call'[c] = Reported(c)
    BY <1>2, BecomeOne
  <2> QED
    BY <2>1, CallDomain, EndedFields DEF Reported
<1> QED
  BY <1>1, <1>2 DEF WriteRunStatus

-----------------------------------------------------------------------------
(* Types.                                                                   *)

LEMMA TypeStep == TypeOK /\ [Next]_vars => TypeOK'
<1> SUFFICES ASSUME TypeOK, [Next]_vars
             PROVE  TypeOK'
  OBVIOUS
<1> USE RunControlAssumption
<1>1. ASSUME NEW c \in Calls, Start(c)
      PROVE  TypeOK'
  <2>1. [call[c] EXCEPT !.pc = "put"] \in CallState
    BY DEF TypeOK, CallState, Pc
  <2> QED
    BY <1>1, <2>1, BecomeType DEF Start, TypeOK
<1>2. ASSUME NEW c \in Calls, PutCreates(c)
      PROVE  TypeOK'
  <2>1. [call[c] EXCEPT !.pc = "extract", !.input = c] \in CallState
    BY DEF TypeOK, CallState, Pc
  <2>2. call' \in [Calls -> CallState]
    BY <1>2, <2>1, BecomeType, ResendType DEF PutCreates
  <2> QED
    BY <1>2, <2>2 DEF PutCreates, TypeOK
<1>3. ASSUME NEW c \in Calls, PutRefused(c) \/ PutConflicts(c)
      PROVE  TypeOK'
  <2>1. [call[c] EXCEPT !.pc = "load"] \in CallState
    BY DEF TypeOK, CallState, Pc
  <2> QED
    BY <1>3, <2>1, BecomeType DEF PutRefused, PutConflicts, TypeOK
<1>4. ASSUME NEW c \in Calls, PutFails(c)
      PROVE  TypeOK'
  BY <1>4, ResendType DEF PutFails, TypeOK
<1>5. ASSUME NEW c \in Calls, LoadManifest(c)
      PROVE  TypeOK'
  <2>1. CASE manifest = Null
    BY <1>5, <2>1, EndedType, BecomeType DEF LoadManifest, TypeOK
  <2>2. CASE manifest # Null
    <3>1. manifest \in Calls /\ call[c] \in CallState /\ "extract" \in Pc
      BY <2>2 DEF TypeOK, Pc
    <3>2. [call[c] EXCEPT !.pc = "extract", !.input = manifest] \in CallState
      BY <3>1 DEF CallState
    <3> QED
      BY <1>5, <2>2, <3>2, BecomeType DEF LoadManifest, TypeOK
  <2> QED
    BY <2>1, <2>2
<1>6. ASSUME NEW c \in Calls, Skip(c)
      PROVE  TypeOK'
  <2>1. call[c] \in CallState /\ call[c].next + 1 \in 0..UnitCount
    BY <1>6 DEF Skip, Last, TypeOK, CallState
  <2>2. [call[c] EXCEPT !.next = @ + 1] \in CallState
    BY <2>1 DEF CallState
  <2> QED
    BY <1>6, <2>2, BecomeType DEF Skip, TypeOK
<1>7. ASSUME NEW c \in Calls, Work(c)
      PROVE  TypeOK'
  <2>1. /\ call[c] \in CallState /\ call[c].next + 1 \in 0..UnitCount
        /\ call[c].next \in Unit
    BY <1>7 DEF Work, Last, TypeOK, CallState, Unit
  <2>2. (IF call[c].left > 0 THEN call[c].left - 1 ELSE call[c].left) \in 0..MaxUnits
    BY <2>1 DEF CallState
  <2>3. [call[c] EXCEPT !.next = @ + 1, !.left = IF @ > 0 THEN @ - 1 ELSE @] \in CallState
    BY <2>1, <2>2 DEF CallState
  <2> QED
    BY <1>7, <2>1, <2>3, BecomeType DEF Work, TypeOK
<1>8. ASSUME NEW c \in Calls, StopWork(c)
      PROVE  TypeOK'
  <2>1. call[c] \in CallState
    BY DEF TypeOK
  <2>2. [call[c] EXCEPT !.stopped = TRUE] \in CallState
    BY <2>1 DEF CallState
  <2> QED
    BY <1>8, <2>2, BecomeType DEF StopWork, TypeOK
<1>9. ASSUME NEW c \in Calls, EndPhase(c)
      PROVE  TypeOK'
  <2>1. PhaseReached(c) \in Phase
    BY DEF PhaseReached, Phase
  <2>2. call[c] \in CallState /\ "read" \in Pc
    BY DEF TypeOK, Pc
  <2>3. [call[c] EXCEPT !.pc = "read", !.phase = PhaseReached(c)] \in CallState
    BY <2>1, <2>2 DEF CallState
  <2> QED
    BY <1>9, <2>3, BecomeType DEF EndPhase, TypeOK
<1>10. ASSUME NEW c \in Calls, ReadRunStatus(c)
       PROVE  TypeOK'
  <2>1. /\ call[c] \in CallState /\ "write" \in Pc
        /\ status \in Status \cup {Null} /\ 1 \in 1..MaxAttempts
    BY DEF TypeOK, Pc
  <2>2. [call[c] EXCEPT !.pc = "write", !.found = status, !.attempt = 1] \in CallState
    BY <2>1 DEF CallState
  <2> QED
    BY <1>10, <2>2, BecomeType DEF ReadRunStatus, TypeOK
<1>11. ASSUME NEW c \in Calls, WriteRunStatus(c)
       PROVE  TypeOK'
  <2>1. call[c] \in CallState
    BY DEF TypeOK
  <2>2. status' \in Status
    <3>1. StartedAt(c) \in Calls
      BY <2>1 DEF StartedAt, CallState, Status
    <3> QED
      BY <1>11, <2>1, <3>1 DEF WriteRunStatus, CallState, Status
  <2>3. Reported(c) \in CallState
    BY <2>1, EndedType DEF Reported, CallState, Pc
  <2>4. call' \in [Calls -> CallState]
    BY <1>11, <2>3, BecomeType, ResendType DEF WriteRunStatus
  <2>5. completed' \in BOOLEAN
    BY <1>11 DEF WriteRunStatus, TypeOK
  <2> QED
    BY <1>11, <2>2, <2>4, <2>5 DEF WriteRunStatus, TypeOK
<1>12. ASSUME NEW c \in Calls, Crash(c)
       PROVE  TypeOK'
  BY <1>12, EndedType, BecomeType DEF Crash, TypeOK
<1>13. CASE UNCHANGED vars
  BY <1>13 DEF vars, TypeOK
<1> QED
  BY <1>1, <1>2, <1>3, <1>4, <1>5, <1>6, <1>7, <1>8, <1>9, <1>10, <1>11, <1>12,
     <1>13 DEF Next, Step

(* Every object of the control bucket and every local variable of a call   *)
(* keeps its type, in particular the attempts of a request stay bounded.    *)
THEOREM ControlTypeCorrect == Spec => []TypeOK
<1>1. Init => TypeOK
  BY EndedType DEF Init, TypeOK
<1> QED
  BY <1>1, TypeStep, PTL DEF Spec

-----------------------------------------------------------------------------
(* One manifest.                                                            *)

(* Only a put into an empty store writes the manifest, and every call takes *)
(* what it works on from the store.                                         *)
LEMMA ManifestStep ==
  ASSUME TypeOK, WorksOnFixedManifest, [Next]_vars
  PROVE  /\ manifest # Null => manifest' = manifest
         /\ WorksOnFixedManifest'
<1> USE DEF WorksOnFixedManifest
<1>1. ASSUME NEW c \in Calls, PutCreates(c)
      PROVE  /\ manifest = Null /\ manifest' # Null
             /\ WorksOnFixedManifest'
  <2>1. manifest = Null /\ manifest' = c /\ c # Null
    BY <1>1, RunControlAssumption DEF PutCreates
  <2>2. \A d \in Calls : call[d].input = Null
    BY <2>1
  <2>3. call[c] \in CallState
    BY DEF TypeOK
  <2>4. call'[c].input \in {c, Null}
    <3>1. CASE Resend(c)
      BY <2>2, <3>1, ResendResult, ResentFields, EndedFields, BecomeOne
    <3>2. CASE Become(c, [call[c] EXCEPT !.pc = "extract", !.input = c])
      <4>1. call'[c] = [call[c] EXCEPT !.pc = "extract", !.input = c]
        BY <3>2, BecomeOne
      <4> QED
        BY <4>1, CallDomain
    <3> QED
      BY <1>1, <3>1, <3>2 DEF PutCreates
  <2>5. \A d \in Calls : d # c => call'[d].input = Null
    BY <1>1, <2>2, OthersKept DEF CallAction, Step
  <2> QED
    BY <2>1, <2>4, <2>5
<1>2. ASSUME NEW c \in Calls, LoadManifest(c)
      PROVE  UNCHANGED manifest /\ WorksOnFixedManifest'
  <2>1. call[c] \in CallState
    BY DEF TypeOK
  <2>2. call'[c].input \in {manifest, Null}
    <3>1. CASE manifest = Null
      BY <1>2, <3>1, EndedFields, BecomeOne DEF LoadManifest
    <3>2. CASE manifest # Null
      <4>1. call'[c] = [call[c] EXCEPT !.pc = "extract", !.input = manifest]
        BY <1>2, <3>2, BecomeOne DEF LoadManifest
      <4> QED
        BY <4>1, CallDomain
    <3> QED
      BY <3>1, <3>2
  <2> QED
    BY <1>2, <2>2, BecomeOne DEF LoadManifest
<1>3. ASSUME NEW c \in Calls, CallAction(c), ~ PutCreates(c), ~ LoadManifest(c)
      PROVE  UNCHANGED manifest /\ WorksOnFixedManifest'
  <2>1. call'[c].input \in {call[c].input, Null}
    <3>1. CASE PutFails(c) \/ WriteRunStatus(c)
      <4>1. call'[c] \in {Resent(c), Ended, Reported(c)}
        BY <3>1, BecomeOne DEF PutFails, WriteRunStatus, Resend, Resent
      <4> QED
        BY <4>1, ResentFields, EndedFields, CallDomain DEF Reported
    <3>2. CASE Crash(c)
      BY <3>2, EndedFields, BecomeOne DEF Crash
    <3>3. CASE Start(c)
      <4>1. call'[c] = [call[c] EXCEPT !.pc = "put"]
        BY <3>3, BecomeOne DEF Start
      <4> QED
        BY <4>1, CallDomain
    <3>4. CASE PutRefused(c) \/ PutConflicts(c)
      <4>1. call'[c] = [call[c] EXCEPT !.pc = "load"]
        BY <3>4, BecomeOne DEF PutRefused, PutConflicts
      <4> QED
        BY <4>1, CallDomain
    <3>5. CASE Skip(c) \/ Work(c) \/ StopWork(c)
      BY <3>5, WorkResult
    <3>6. CASE EndPhase(c) \/ ReadRunStatus(c)
      BY <3>6, ReportResult
    <3> QED
      BY <1>3, <3>1, <3>2, <3>3, <3>4, <3>5, <3>6 DEF CallAction, Step
  <2>2. UNCHANGED manifest
    BY <1>3 DEF CallAction, Step, Start, PutRefused, PutConflicts, PutFails, Crash, Skip,
       Work, StopWork, EndPhase, ReadRunStatus, WriteRunStatus
  <2> QED
    BY <1>3, <2>1, <2>2, OthersKept
<1>4. CASE UNCHANGED vars
  BY <1>4 DEF vars
<1> QED
  BY <1>1, <1>2, <1>3, <1>4 DEF Next, CallAction

LEMMA ManifestInvariant == Spec => [](TypeOK /\ WorksOnFixedManifest)
<1>1. Init => WorksOnFixedManifest
  BY DEF Init, WorksOnFixedManifest, NewCall
<1>2. WorksOnFixedManifest /\ TypeOK /\ [Next]_vars => WorksOnFixedManifest'
  BY ManifestStep
<1> QED
  BY <1>1, <1>2, ControlTypeCorrect, PTL DEF Spec

(* Whatever answers are lost and however often a request is repeated, no    *)
(* call works on a manifest other than the one that is stored (fixManifest, *)
(* PutIfAbsentJSON).                                                        *)
THEOREM OneManifest == Spec => []WorksOnFixedManifest
BY ManifestInvariant, PTL

(* A manifest, once stored, is never replaced (PutIfAbsentJSON).            *)
THEOREM ManifestIsKept == Spec => ManifestImmutable
<1>1. TypeOK /\ WorksOnFixedManifest /\ [Next]_vars
         => [manifest # Null => manifest' = manifest]_manifest
  BY ManifestStep
<1> QED
  BY <1>1, ManifestInvariant, PTL DEF Spec, ManifestImmutable

-----------------------------------------------------------------------------
(* What a status claims.                                                    *)

Claims(phase) ==
    /\ phase # "extracting" => Chunks \subseteq done
    /\ phase = "completed" => done = Unit

(* A call has every checkpoint behind it, all of the chunks once it commits, *)
(* and what its status is about to claim.                                    *)
BackedCall(c) ==
    /\ \A u \in Unit : u < call[c].next => u \in done
    /\ call[c].pc = "commit" => Chunks \subseteq done
    /\ call[c].pc \in {"read", "write"} => Claims(call[c].phase)

Backed == PhaseBacked /\ \A c \in Calls : BackedCall(c)

LEMMA DoneGrows == TypeOK /\ [Next]_vars => done \subseteq done' /\ done' \subseteq Unit
<1> SUFFICES ASSUME TypeOK, [Next]_vars
             PROVE  done \subseteq done'
  BY TypeStep DEF TypeOK
<1> QED
  BY DEF Next, Step, Start, PutCreates, PutRefused, PutConflicts, PutFails, LoadManifest,
     Skip, Work, StopWork, EndPhase, ReadRunStatus, WriteRunStatus, Crash, vars

LEMMA BackedStep == TypeOK /\ Backed /\ [Next]_vars => Backed'
<1> SUFFICES ASSUME TypeOK, Backed, [Next]_vars
             PROVE  Backed'
  OBVIOUS
<1>1. /\ done \subseteq done' /\ done' \subseteq Unit
      /\ \A p \in Phase : Claims(p) => Claims(p)'
  BY DoneGrows DEF Claims
<1>2. ASSUME NEW c \in Calls, CallAction(c)
      PROVE  Backed'
  <2>1. /\ call[c] \in CallState /\ call[c].next \in Nat /\ call[c].phase \in Phase
        /\ BackedCall(c)
    BY DEF TypeOK, CallState, Backed
  <2>2. \A d \in Calls : d # c => BackedCall(d)'
    <3>1. \A d \in Calls : d # c => call'[d] = call[d] /\ call[d].phase \in Phase
      BY <1>2, OthersKept DEF TypeOK, CallState
    <3> QED
      BY <1>1, <3>1 DEF Backed, BackedCall
  <2>3. CASE WriteRunStatus(c)
    <3>1. status'.phase = call[c].phase
      BY <2>3 DEF WriteRunStatus
    <3>2. completed' => completed \/ call[c].phase = "completed"
      BY <2>3, Zenon DEF WriteRunStatus
    <3>3. Claims(call[c].phase) /\ UNCHANGED done
      BY <2>1, <2>3 DEF BackedCall, WriteRunStatus, At
    <3>4. PhaseBacked'
      BY <3>1, <3>2, <3>3 DEF Backed, PhaseBacked, Claims
    <3>5. BackedCall(c)'
      <4>1. \A u \in Unit : u < call'[c].next => u \in done'
        BY <2>1, <2>3, <3>3, WriteResult DEF BackedCall, Unit
      <4> QED
        BY <2>3, <3>3, <4>1, WriteResult DEF BackedCall, Claims
    <3> QED
      BY <2>2, <3>4, <3>5 DEF Backed
  <2>4. CASE ~ WriteRunStatus(c)
    <3>1. PhaseBacked'
      <4>1. UNCHANGED <<status, completed>>
        BY <1>2, <2>4 DEF CallAction, Step, Start, PutCreates, PutRefused, PutConflicts,
           PutFails, LoadManifest, Skip, Work, StopWork, EndPhase, ReadRunStatus, Crash
      <4> QED
        BY <1>1, <4>1 DEF Backed, PhaseBacked
    <3>2. BackedCall(c)'
      <4>1. CASE \/ Start(c) \/ PutCreates(c) \/ PutRefused(c) \/ PutConflicts(c)
                 \/ PutFails(c) \/ LoadManifest(c) \/ Crash(c)
        BY <1>1, <2>1, <4>1, FixResult DEF BackedCall, Unit
      <4>2. CASE Skip(c) \/ Work(c) \/ StopWork(c)
        <5>1. ~ StopWork(c) => call[c].next \in done'
          BY <4>2 DEF Skip, Work
        <5>2. /\ call'[c].pc = call[c].pc /\ call[c].pc \in {"extract", "commit"}
              /\ call'[c].next = IF StopWork(c) THEN call[c].next ELSE call[c].next + 1
          BY <4>2, WorkResult
        <5>3. \A u \in Unit : u < call'[c].next => u \in done'
          BY <1>1, <2>1, <5>1, <5>2 DEF BackedCall, Unit
        <5> QED
          BY <1>1, <2>1, <5>2, <5>3 DEF BackedCall
      <4>3. CASE EndPhase(c)
        <5>1. UNCHANGED done
          BY <4>3 DEF EndPhase
        <5>2. Claims(PhaseReached(c))
          <6>1. CASE At(c, "extract")
            BY <2>1, <4>3, <6>1, RunControlAssumption
               DEF EndPhase, PhaseReached, Last, At, Claims, BackedCall, Chunks, Unit
          <6>2. CASE At(c, "commit") /\ call[c].stopped
            BY <2>1, <6>2 DEF PhaseReached, At, Claims, BackedCall
          <6>3. CASE At(c, "commit") /\ ~ call[c].stopped
            <7>1. call[c].next >= UnitCount /\ ~ At(c, "extract")
              BY <4>3, <6>3 DEF EndPhase, Last, At
            <7>2. done = Unit
              <8>1. \A u \in Unit : u \in done
                BY <2>1, <7>1, RunControlAssumption DEF BackedCall, Unit
              <8> QED
                BY <8>1 DEF TypeOK
            <7> QED
              BY <6>3, <7>1, <7>2, Units DEF PhaseReached, Claims
          <6> QED
            BY <4>3, <6>1, <6>2, <6>3 DEF EndPhase
        <5> QED
          BY <2>1, <4>3, <5>1, <5>2, ReportResult DEF BackedCall, Claims
      <4>4. CASE ReadRunStatus(c)
        <5>1. UNCHANGED done
          BY <4>4 DEF ReadRunStatus
        <5> QED
          BY <2>1, <4>4, <5>1, ReportResult DEF BackedCall, Claims
      <4> QED
        BY <1>2, <2>4, <4>1, <4>2, <4>3, <4>4 DEF CallAction, Step
    <3> QED
      BY <2>2, <3>1, <3>2 DEF Backed
  <2> QED
    BY <2>3, <2>4
<1>3. CASE UNCHANGED vars
  BY <1>3 DEF vars, Backed, BackedCall, PhaseBacked, Claims
<1> QED
  BY <1>2, <1>3 DEF Next, CallAction

(* Neither the stored status nor a call that returns ever claims more than  *)
(* the checkpoints bear out (Run, writeRunStatus).                          *)
THEOREM StatusIsBacked == Spec => []PhaseBacked
<1>1. Init => Backed
  BY RunControlAssumption DEF Init, Backed, PhaseBacked, BackedCall, NewCall, Unit
<1>2. Backed => PhaseBacked
  BY DEF Backed
<1> QED
  BY <1>1, <1>2, BackedStep, ControlTypeCorrect, PTL DEF Spec

-----------------------------------------------------------------------------
(* The start of a run.                                                      *)

(* Without overlap, what a call has read is still there when it writes, or  *)
(* an attempt of its own has written over it.                               *)
ReadIsRecent ==
    /\ \A c, d \in Calls : Active(c) /\ Active(d) => c = d
    /\ \A c \in Calls :
          At(c, "write") =>
             IF call[c].found = Null THEN status # Null => status.started = c
             ELSE status.started = call[c].found.started

LEMMA ReadIsRecentStep ==
  ASSUME ~ Overlap, TypeOK, ReadIsRecent, [Next]_vars
  PROVE  /\ ReadIsRecent'
         /\ status # Null => status'.started = status.started
<1>1. ASSUME NEW c \in Calls, CallAction(c)
      PROVE  /\ ReadIsRecent'
             /\ status # Null => status'.started = status.started
  <2>1. \A d \in Calls : d # c => call'[d] = call[d] /\ ~ Active(d)
    <3>1. Start(c) => \A d \in Calls : ~ Active(d)
      BY DEF Start
    <3>2. ~ Start(c) => Active(c)
      BY <1>1 DEF CallAction, Step, PutCreates, PutRefused, PutConflicts, PutFails,
         LoadManifest, Skip, Work, StopWork, Working, EndPhase, ReadRunStatus,
         WriteRunStatus, Crash, At, Active
    <3> QED
      BY <1>1, <3>1, <3>2, OthersKept DEF ReadIsRecent
  <2>2. \A d, e \in Calls : Active(d)' /\ Active(e)' => d = e
    BY <2>1 DEF Active
  <2>3. \A d \in Calls : d # c => ~ At(d, "write")'
    BY <2>1 DEF At, Active
  <2>4. CASE WriteRunStatus(c)
    <3>1. status'.started = IF call[c].found = Null THEN c ELSE call[c].found.started
      BY <2>4 DEF WriteRunStatus, StartedAt
    <3>2. status # Null => status'.started = status.started
      BY <2>4, <3>1 DEF ReadIsRecent, WriteRunStatus
    <3>3. At(c, "write")' => call'[c].found = call[c].found
      BY <2>4, WriteResult DEF At
    <3> QED
      BY <2>2, <2>3, <3>1, <3>2, <3>3 DEF ReadIsRecent, At
  <2>5. CASE ~ WriteRunStatus(c)
    <3>1. UNCHANGED status
      BY <1>1, <2>5 DEF CallAction, Step, Start, PutCreates, PutRefused, PutConflicts,
         PutFails, LoadManifest, Skip, Work, StopWork, EndPhase, ReadRunStatus, Crash
    <3>2. CASE ReadRunStatus(c)
      BY <2>2, <2>3, <3>1, <3>2, ReportResult DEF ReadIsRecent, At
    <3>3. CASE ~ ReadRunStatus(c)
      <4>1. ~ At(c, "write")'
        BY <1>1, <2>5, <3>3, FixResult, WorkResult, ReportResult DEF CallAction, Step, At
      <4> QED
        BY <2>2, <2>3, <3>1, <4>1 DEF ReadIsRecent
    <3> QED
      BY <3>2, <3>3
  <2> QED
    BY <2>4, <2>5
<1>2. CASE UNCHANGED vars
  BY <1>2 DEF vars, ReadIsRecent, Active, At
<1> QED
  BY <1>1, <1>2 DEF Next, CallAction

(* One call after the other: however often the write of the status is       *)
(* repeated, the recorded start stays (writeRunStatus).                     *)
THEOREM StartIsKept ==
  ASSUME ~ Overlap
  PROVE  Spec => StartedKept
<1>1. Init => ReadIsRecent
  BY DEF Init, ReadIsRecent, NewCall, Active, At
<1>2. TypeOK /\ ReadIsRecent /\ [Next]_vars => ReadIsRecent'
  BY ReadIsRecentStep
<1>3. TypeOK /\ ReadIsRecent /\ [Next]_vars
         => [status # Null => status'.started = status.started]_status
  BY ReadIsRecentStep
<1> QED
  BY <1>1, <1>2, <1>3, ControlTypeCorrect, PTL DEF Spec, StartedKept
=============================================================================
