----------------------------- MODULE RunControl -----------------------------
(***************************************************************************)
(* The control bucket of one rebuild run, as the calls of Run share it:    *)
(* S3ControlStore, fixManifest and writeRunStatus of internal/materializer *)
(* and the two commands of cmd/dwh-materializer.                           *)
(*                                                                         *)
(* Materializer takes a request to the control bucket for one step.  Here  *)
(* a request is what the S3 client makes of it: an attempt may take effect *)
(* and its answer be lost, and the client then sends it again; and the run *)
(* status is read in one request and written in another.  The work of a    *)
(* call is only its checkpoints, UnitCount of them, of which the first     *)
(* ExtractCount are chunks and the others commit batches.                  *)
(***************************************************************************)
EXTENDS Naturals, FiniteSets

CONSTANTS Calls,         \* calls of Run with the one Run ID, in order of their start
          ExtractCount,  \* chunks of the manifest
          UnitCount,     \* chunks and commit batches
          MaxUnits,      \* --max-units, 0 for no limit
          MaxAttempts,   \* attempts the S3 client makes at a request
          Overlap,       \* whether a call may start while another is under way
          Null           \* absent

ASSUME RunControlAssumption ==
    /\ Calls \subseteq Nat \ {0}
    /\ ExtractCount \in Nat /\ UnitCount \in Nat /\ ExtractCount <= UnitCount
    /\ MaxUnits \in Nat /\ MaxAttempts \in Nat \ {0}
    /\ Overlap \in BOOLEAN
    /\ Null \notin Nat

VARIABLES
    manifest,    \* manifest.json: the call whose candidate it is
    done,        \* the checkpoints present
    status,      \* status.json
    call,        \* per call: where it is and what it holds
    completed    \* whether some call returned the phase completed

vars == <<manifest, done, status, call, completed>>

-----------------------------------------------------------------------------
(* Data                                                                    *)

\* No call writes the phase reducing
Phase == {"extracting", "committing", "completed"}

Status == [phase: Phase, started: Calls]

Unit == 0..(UnitCount - 1)
Chunks == 0..(ExtractCount - 1)

Pc == {"new", "put", "load", "extract", "read", "write", "commit", "ended"}

\* left counts the units still allowed, next is the unit the loop is at,
\* phase is the status to write, found the status that was read before
CallState ==
    [pc: Pc, attempt: 1..MaxAttempts, input: Calls \cup {Null}, left: 0..MaxUnits,
     next: 0..UnitCount, stopped: BOOLEAN, phase: Phase, found: Status \cup {Null}]

NewCall ==
    [pc |-> "new", attempt |-> 1, input |-> Null, left |-> MaxUnits,
     next |-> 0, stopped |-> FALSE, phase |-> "extracting", found |-> Null]

Ended == [NewCall EXCEPT !.pc = "ended"]

TypeOK ==
    /\ manifest \in Calls \cup {Null}
    /\ done \subseteq Unit
    /\ status \in Status \cup {Null}
    /\ call \in [Calls -> CallState]
    /\ completed \in BOOLEAN

Init ==
    /\ manifest = Null
    /\ done = {}
    /\ status = Null
    /\ call = [c \in Calls |-> NewCall]
    /\ completed = FALSE

-----------------------------------------------------------------------------

At(c, pc) == call[c].pc = pc
Active(c) == call[c].pc \notin {"new", "ended"}
Become(c, r) == call' = [call EXCEPT ![c] = r]

\* The client sends the request again, or gives up and Run returns the error
Resend(c) ==
    Become(c, IF call[c].attempt < MaxAttempts
              THEN [call[c] EXCEPT !.attempt = @ + 1] ELSE Ended)

\* runCommand: each call lists the Archive anew and brings its own candidate
Start(c) ==
    /\ At(c, "new")
    /\ \A d \in Calls : d < c => ~ At(d, "new")
    /\ Overlap \/ \A d \in Calls : ~ Active(d)
    /\ Become(c, [call[c] EXCEPT !.pc = "put"])
    /\ UNCHANGED <<manifest, done, status, completed>>

-----------------------------------------------------------------------------
(* fixManifest                                                             *)

\* A store that does not know If-None-Match
PutOverwrites(c) ==
    /\ At(c, "put")
    /\ manifest' = c
    /\ \/ Become(c, [call[c] EXCEPT !.pc = "extract", !.input = c])
       \/ Resend(c)
    /\ UNCHANGED <<done, status, completed>>

\* PutIfAbsentJSON takes effect; its answer arrives or is lost
PutCreates(c) ==
    /\ At(c, "put")
    /\ manifest = Null
    /\ manifest' = c
    /\ \/ Become(c, [call[c] EXCEPT !.pc = "extract", !.input = c])
       \/ Resend(c)
    /\ UNCHANGED <<done, status, completed>>

\* A refusal is taken for the late answer to the own request
PutRefusedTakenAsOwn(c) ==
    /\ At(c, "put")
    /\ manifest # Null
    /\ Become(c, [call[c] EXCEPT !.pc = "extract", !.input = c])
    /\ UNCHANGED <<manifest, done, status, completed>>

\* 412: the key is there
PutRefused(c) ==
    /\ At(c, "put")
    /\ manifest # Null
    /\ Become(c, [call[c] EXCEPT !.pc = "load"])
    /\ UNCHANGED <<manifest, done, status, completed>>

\* 409 while another conditional put is under way, or an error in whose text
\* there is a 412, count as refusals too, whatever the store holds
PutConflicts(c) ==
    /\ At(c, "put")
    /\ Become(c, [call[c] EXCEPT !.pc = "load"])
    /\ UNCHANGED <<manifest, done, status, completed>>

\* The attempt fails without effect, or its refusal is lost
PutFails(c) ==
    /\ At(c, "put")
    /\ Resend(c)
    /\ UNCHANGED <<manifest, done, status, completed>>

\* GetJSON; that there is no manifest after all is an error
LoadManifest(c) ==
    /\ At(c, "load")
    /\ Become(c, IF manifest = Null THEN Ended
                 ELSE [call[c] EXCEPT !.pc = "extract", !.input = manifest])
    /\ UNCHANGED <<manifest, done, status, completed>>

-----------------------------------------------------------------------------
(* The work, and what each of its phases reports                           *)

Last(c) == IF At(c, "extract") THEN ExtractCount ELSE UnitCount
Working(c) == (At(c, "extract") \/ At(c, "commit")) /\ ~ call[c].stopped

Skip(c) ==
    /\ Working(c)
    /\ call[c].next < Last(c) /\ call[c].next \in done
    /\ Become(c, [call[c] EXCEPT !.next = @ + 1])
    /\ UNCHANGED <<manifest, done, status, completed>>

Work(c) ==
    /\ Working(c)
    /\ call[c].next < Last(c) /\ call[c].next \notin done
    /\ MaxUnits > 0 => call[c].left > 0
    /\ done' = done \cup {call[c].next}
    /\ Become(c, [call[c] EXCEPT !.next = @ + 1, !.left = IF @ > 0 THEN @ - 1 ELSE @])
    /\ UNCHANGED <<manifest, status, completed>>

\* The budget refuses the unit, and the phase ends
StopWork(c) ==
    /\ Working(c)
    /\ call[c].next < Last(c) /\ call[c].next \notin done
    /\ MaxUnits > 0 /\ call[c].left = 0
    /\ Become(c, [call[c] EXCEPT !.stopped = TRUE])
    /\ UNCHANGED <<manifest, done, status, completed>>

\* A stopped run is reported as what it was about to become
PhaseReachedEarly(c) == IF At(c, "extract") THEN "committing" ELSE "completed"

\* The phase Run reports when its extraction or its commits end
PhaseReached(c) ==
    IF At(c, "extract") THEN IF call[c].stopped THEN "extracting" ELSE "committing"
    ELSE IF call[c].stopped THEN "committing" ELSE "completed"

EndPhase(c) ==
    /\ At(c, "extract") \/ At(c, "commit")
    /\ call[c].stopped \/ call[c].next >= Last(c)
    /\ Become(c, [call[c] EXCEPT !.pc = "read", !.phase = PhaseReached(c)])
    /\ UNCHANGED <<manifest, done, status, completed>>

\* writeRunStatus: GetJSON of the status there is
ReadRunStatus(c) ==
    /\ At(c, "read")
    /\ Become(c, [call[c] EXCEPT !.pc = "write", !.found = status, !.attempt = 1])
    /\ UNCHANGED <<manifest, done, status, completed>>

StartedAt(c) == IF call[c].found = Null THEN c ELSE call[c].found.started

\* What follows the write: the commits, or the end of the call
Reported(c) ==
    IF call[c].phase = "committing" /\ ~ call[c].stopped
    THEN [call[c] EXCEPT !.pc = "commit", !.found = Null] ELSE Ended

\* writeRunStatus: PutJSON over whatever is there; the answer may be lost
WriteRunStatus(c) ==
    /\ At(c, "write")
    /\ status' = [phase |-> call[c].phase, started |-> StartedAt(c)]
    /\ \/ Become(c, Reported(c)) /\ completed' = (completed \/ call[c].phase = "completed")
       \/ Resend(c) /\ UNCHANGED completed
    /\ UNCHANGED <<manifest, done>>

\* The process is killed, or Run returns the error of a request without effect
Crash(c) ==
    /\ Active(c)
    /\ Become(c, Ended)
    /\ UNCHANGED <<manifest, done, status, completed>>

Step(c) ==
    \/ PutCreates(c) \/ PutRefused(c) \/ PutConflicts(c) \/ PutFails(c) \/ LoadManifest(c)
    \/ Skip(c) \/ Work(c) \/ StopWork(c) \/ EndPhase(c)
    \/ ReadRunStatus(c) \/ WriteRunStatus(c)

Next == \E c \in Calls : Start(c) \/ Step(c) \/ Crash(c)

Spec == Init /\ [][Next]_vars

-----------------------------------------------------------------------------
(* Properties                                                              *)

\* Every call that does any work does it on the manifest that is stored,
\* although answers are lost, requests repeated and conflicts misread
\* (control.go:39-42, driver.go:180-204).
WorksOnFixedManifest ==
    \A c \in Calls : call[c].input # Null => call[c].input = manifest

\* A manifest, once fixed, is not replaced (driver.go:100-105).
ManifestImmutable == [][manifest # Null => manifest' = manifest]_manifest

\* What the status says of the progress is true and stays true, also when a
\* call that lags behind writes it, and so is a returned completed: what is
\* reported committing has all of its chunks, what is reported completed has
\* all of its commits (driver.go:153-178).
PhaseBacked ==
    /\ status # Null =>
          /\ status.phase # "extracting" => Chunks \subseteq done
          /\ status.phase = "completed" => done = Unit
    /\ completed => done = Unit

\* One call after the other keeps the start an earlier call recorded
\* (driver.go:449-452).
StartedKept == [][status # Null => status'.started = status.started]_status
=============================================================================
