------------------------- MODULE ObservationArchive -------------------------
(***************************************************************************)
(* The Observation Archive: create-only objects in R2, one per             *)
(* observation, written by the Backfill Worker through its bucket binding  *)
(* (r2-archive.ts) and by Go programs through the S3 API (archive.go),     *)
(* listed page by page and decoded by the replay reader, and removed by    *)
(* the cleanup of the acceptance spike.                                    *)
(*                                                                         *)
(* A step is one request to R2 with the local work around it.  R2 itself   *)
(* is external: it is strongly consistent per request, and a request that  *)
(* fails may or may not have taken effect.                                 *)
(***************************************************************************)
EXTENDS Naturals, FiniteSets

CONSTANTS GoWriters,     \* callers of archive.Client.PutCreateOnly
          Workers,       \* callers of R2ObservationArchive.commit
          Readers,       \* replays: List, then Get of every key
          Cleaners,      \* dwh-spike cleanup: List, then Delete of every key
          Envelopes,     \* the envelopes writers may be asked to store
          MaxAttempts,   \* requests the S3 client makes for one call
          PageSize,      \* keys per page of a listing
          Garbled,       \* a body that is no gzip-compressed envelope
          Null           \* absent

Writers == GoWriters \cup Workers
Listers == Readers \cup Cleaners

Kinds == {"http_backfill", "http_reconciliation", "gateway"}

\* A payload is its text and the spelling of it: SHA-256 is injective on both
Payload == [text: Nat, spelling: {"received", "compact"}]

Envelope == [version: {"v1", "v2"}, id: Nat, uuidVersion: {4, 7}, kind: Kinds,
             observedAt: Nat, provenance: BOOLEAN, payload: Payload \cup {Null}]

ASSUME ArchiveAssumption ==
    /\ Envelopes \subseteq Envelope
    /\ GoWriters \cap Workers = {} /\ Readers \cap Cleaners = {}
    /\ MaxAttempts \in Nat \ {0} /\ PageSize \in Nat \ {0}
    /\ IsFiniteSet(Envelopes)
    /\ Null \notin Nat \cup Payload \cup Envelope
    /\ Garbled \notin Payload \cup {Null}

VARIABLES
    store,      \* the object under each key, or Null
    writer,     \* per writer: pc, the envelope, the requests made
    lister,     \* per lister: pc, the keys found, where the next page starts
    got,        \* per reader: the envelopes decoded, with their keys
    accepted,   \* history: what callers were told is stored, unless erased since
    throughout  \* history, per reader: the keys present since its start

vars == <<store, writer, lister, got, accepted, throughout>>

-----------------------------------------------------------------------------
(* Envelopes, keys and objects                                             *)

Validate(e) ==
    /\ e.version = "v1"
    /\ e.uuidVersion = 7
    /\ e.kind \in {"http_backfill", "http_reconciliation"} => e.provenance
    /\ e.observedAt # 0
    /\ e.payload # Null

PayloadSHA256(e) == e.payload

\* The hour stands for the partition a key is in
ArchiveKey(e) == <<e.kind, e.observedAt, e.id>>

Keys == {ArchiveKey(e) : e \in Envelopes}

\* json.Encoder compacts a RawMessage and escapes it for HTML, and
\* JSON.stringify writes the parsed payload anew: what is stored is another
\* spelling of the same text
Encode(e) == [e EXCEPT !.payload = IF @ = Null THEN Null ELSE [@ EXCEPT !.spelling = "compact"]]

\* The object put for an envelope; origin is history
ObjectOf(e, w) ==
    [body |-> Encode(e), observationId |-> e.id, payloadSHA256 |-> PayloadSHA256(e),
     origin |-> <<w, e>>]

ASSUME AbsenceAssumption ==
    \A e \in Envelopes, w \in Writers : ObjectOf(e, w) # Null /\ <<w, e>> # Null

\* A truncated or foreign upload, whose metadata is the hash of no payload
GarbledObject(k) ==
    [body |-> Garbled, observationId |-> k[3], payloadSHA256 |-> Garbled, origin |-> Null]

\* The envelope is taken as it was parsed
DecodesUnvalidated(body) == body # Garbled

Decodes(body) == body # Garbled /\ Validate(body)

Present == {k \in Keys : store[k] # Null}

Readable(k) == k \in Present /\ Decodes(store[k].body)

\* S3 lists keys in one fixed order
Before(j, k) ==
    \/ j[2] < k[2]
    \/ j[2] = k[2] /\ j[3] < k[3]

-----------------------------------------------------------------------------
TypeOK ==
    /\ \A k \in Keys : \/ store[k] \in {Null, GarbledObject(k)}
                       \/ \E e \in Envelopes, w \in Writers :
                             ArchiveKey(e) = k /\ store[k] = ObjectOf(e, w)
    /\ writer \in [Writers -> [pc: {"idle", "put", "head"}, envelope: Envelopes \cup {Null},
                               requests: 0..MaxAttempts]]
    /\ lister \in [Listers -> [pc: {"idle", "list", "use", "done"},
                               found: SUBSET Keys, after: Keys \cup {Null}]]
    /\ got \in [Readers -> SUBSET (Keys \X {Encode(e) : e \in Envelopes})]
    /\ accepted \subseteq Keys \X Nat \X (Payload \cup {Null})
    /\ throughout \in [Readers -> SUBSET Keys]

IdleWriter == [pc |-> "idle", envelope |-> Null, requests |-> 0]
IdleLister(pc) == [pc |-> pc, found |-> {}, after |-> Null]

Init ==
    /\ store = [k \in Keys |-> Null]
    /\ writer = [w \in Writers |-> IdleWriter]
    /\ lister = [r \in Listers |-> IdleLister("idle")]
    /\ got = [r \in Readers |-> {}]
    /\ accepted = {}
    /\ throughout = [r \in Readers |-> {}]

-----------------------------------------------------------------------------
(* PutCreateOnly and commit                                                *)

KeyOf(w) == ArchiveKey(writer[w].envelope)

\* The call ends with an error
Return(w) == writer' = [writer EXCEPT ![w] = IdleWriter]

\* The call ends with created or already_present: the caller takes the
\* observation as durably archived
Accept(w) ==
    /\ Return(w)
    /\ accepted' = accepted \cup
         {<<KeyOf(w), writer[w].envelope.id, PayloadSHA256(writer[w].envelope)>>}

AskHead(w) == writer' = [writer EXCEPT ![w].pc = "head"]

\* The Go client encodes the envelope first, which validates it: an invalid
\* one is an error before any request
Put(w, e) ==
    /\ writer[w].pc = "idle"
    /\ w \in GoWriters => Validate(e)
    /\ writer' = [writer EXCEPT ![w] = [pc |-> "put", envelope |-> e, requests |-> 1]]
    /\ UNCHANGED <<store, lister, got, accepted, throughout>>

StoreIfAbsent(w) ==
    store' = [store EXCEPT ![KeyOf(w)] =
                IF @ = Null THEN ObjectOf(writer[w].envelope, w) ELSE @]

\* The put is sent without its precondition
PutUnconditionally(w) ==
    /\ writer[w].pc = "put"
    /\ store' = [store EXCEPT ![KeyOf(w)] = ObjectOf(writer[w].envelope, w)]
    /\ Accept(w)
    /\ UNCHANGED <<lister, got, throughout>>

PutStores(w) ==
    /\ writer[w].pc = "put"
    /\ store[KeyOf(w)] = Null
    /\ StoreIfAbsent(w)
    /\ Accept(w)
    /\ UNCHANGED <<lister, got, throughout>>

\* A failed precondition is taken for one's own earlier write
PutRefusedAccepted(w) ==
    /\ writer[w].pc = "put"
    /\ store[KeyOf(w)] # Null
    /\ Accept(w)
    /\ UNCHANGED <<store, lister, got, throughout>>

\* 412, or a null answer of the binding
PutRefused(w) ==
    /\ writer[w].pc = "put"
    /\ store[KeyOf(w)] # Null
    /\ AskHead(w)
    /\ UNCHANGED <<store, lister, got, accepted, throughout>>

\* 409: another conditional put of the key is under way.  isPreconditionFailed
\* takes it for a 412, although there may be no object
PutConflicts(w) ==
    /\ w \in GoWriters
    /\ writer[w].pc = "put"
    /\ \E v \in Writers \ {w} : writer[v].pc = "put" /\ KeyOf(v) = KeyOf(w)
    /\ AskHead(w)
    /\ UNCHANGED <<store, lister, got, accepted, throughout>>

\* The retryer of the S3 client
MayResend(w) == w \in GoWriters /\ writer[w].requests < MaxAttempts

\* The answer is lost or an error, with or without effect.  The S3 client
\* sends the request again; its last error ends the call, unless the text of
\* it happens to contain "412", as a URL with the Observation ID may
PutFails(w) ==
    /\ writer[w].pc = "put"
    /\ StoreIfAbsent(w) \/ UNCHANGED store
    /\ \/ /\ MayResend(w)
          /\ writer' = [writer EXCEPT ![w].requests = @ + 1]
       \/ w \in GoWriters /\ AskHead(w)
       \/ Return(w)
    /\ UNCHANGED <<lister, got, accepted, throughout>>

\* The hash is computed from the stored body instead of the metadata
SameObservationByBody(w, object) ==
    /\ object.observationId = writer[w].envelope.id
    /\ object.body # Garbled
    /\ PayloadSHA256(object.body) = PayloadSHA256(writer[w].envelope)

SameObservation(w, object) ==
    /\ object.observationId = writer[w].envelope.id
    /\ object.payloadSHA256 = PayloadSHA256(writer[w].envelope)

HeadMatches(w) ==
    /\ writer[w].pc = "head"
    /\ store[KeyOf(w)] # Null
    /\ SameObservation(w, store[KeyOf(w)])
    /\ Accept(w)
    /\ UNCHANGED <<store, lister, got, throughout>>

\* The key is held by something else: an invariant violation
HeadDiffers(w) ==
    /\ writer[w].pc = "head"
    /\ store[KeyOf(w)] # Null
    /\ ~ SameObservation(w, store[KeyOf(w)])
    /\ Return(w)
    /\ UNCHANGED <<store, lister, got, accepted, throughout>>

\* The object is gone again, or the request fails
HeadFails(w) ==
    /\ writer[w].pc = "head"
    /\ Return(w)
    /\ UNCHANGED <<store, lister, got, accepted, throughout>>

-----------------------------------------------------------------------------
(* List, Get and Delete                                                    *)

\* The prefix in use is that of the HTTP backfill
Prefixed == {k \in Present : k[1] = "http_backfill"}

\* Nothing a replay or a cleanup holds survives its error
Fail(r) ==
    /\ lister' = [lister EXCEPT ![r] = IdleLister("idle")]
    /\ throughout' = [q \in Readers |-> IF q = r THEN {} ELSE throughout[q]]
    /\ got' = [q \in Readers |-> IF q = r THEN {} ELSE got[q]]
    /\ UNCHANGED <<store, writer, accepted>>

StartList(r) ==
    /\ lister[r].pc \in {"idle", "done"}
    /\ lister' = [lister EXCEPT ![r] = IdleLister("list")]
    /\ throughout' = [q \in Readers |-> IF q = r THEN Prefixed ELSE throughout[q]]
    /\ got' = [q \in Readers |-> IF q = r THEN {} ELSE got[q]]
    /\ UNCHANGED <<store, writer, accepted>>

Remaining(r) ==
    {k \in Prefixed : lister[r].after = Null \/ Before(lister[r].after, k)}

\* The first keys of a set in listing order
Page(keys) == {k \in keys : Cardinality({j \in keys : Before(j, k)}) < PageSize}

ListPage(r) ==
    LET page == Page(Remaining(r))
    IN  /\ lister[r].pc = "list"
        /\ \/ /\ page = Remaining(r)
              /\ lister' = [lister EXCEPT ![r] =
                   [pc |-> "use", found |-> @.found \cup page, after |-> Null]]
           \/ \E last \in page :
              /\ page # Remaining(r)
              /\ \A k \in page : ~ Before(last, k)
              /\ lister' = [lister EXCEPT ![r].found = @ \cup page, ![r].after = last]
        /\ UNCHANGED <<store, writer, got, accepted, throughout>>

\* Keys are used in the order of the listing
NextKey(r, k) ==
    /\ lister[r].pc = "use"
    /\ k \in lister[r].found
    /\ \A j \in lister[r].found : ~ Before(j, k)

Gone(r, k) == lister' = [lister EXCEPT ![r].found = @ \ {k}]

\* An object that cannot be decoded is passed over
GetSkipping(r, k) ==
    /\ NextKey(r, k)
    /\ Gone(r, k)
    /\ got' = [got EXCEPT ![r] = @ \cup
         IF Readable(k) THEN {<<k, store[k].body>>} ELSE {}]
    /\ UNCHANGED <<store, writer, accepted, throughout>>

Get(r, k) ==
    /\ NextKey(r, k)
    /\ Readable(k)
    /\ Gone(r, k)
    /\ got' = [got EXCEPT ![r] = @ \cup {<<k, store[k].body>>}]
    /\ UNCHANGED <<store, writer, accepted, throughout>>

\* Every replay ends with the first key that it cannot get and decode
GetFails(r, k) ==
    /\ NextKey(r, k)
    /\ ~ Readable(k)
    /\ Fail(r)

Delete(c, k) ==
    /\ NextKey(c, k)
    /\ Gone(c, k)
    /\ store' = [store EXCEPT ![k] = Null]
    /\ accepted' = {a \in accepted : a[1] # k}
    /\ throughout' = [r \in Readers |-> throughout[r] \ {k}]
    /\ UNCHANGED <<writer, got>>

AllUsed(r) ==
    /\ lister[r].pc = "use"
    /\ lister[r].found = {}
    /\ lister' = [lister EXCEPT ![r].pc = "done"]
    /\ UNCHANGED <<store, writer, got, accepted, throughout>>

\* A request of List, Get or Delete fails, or the process is killed
ListerFails(r) ==
    /\ lister[r].pc \in {"list", "use"}
    /\ Fail(r)

\* Somebody uploads what no envelope encoder wrote
UploadGarbled(k) ==
    /\ store[k] = Null
    /\ store' = [store EXCEPT ![k] = GarbledObject(k)]
    /\ UNCHANGED <<writer, lister, got, accepted, throughout>>

-----------------------------------------------------------------------------
WriterStep(w) ==
    \/ PutStores(w) \/ PutRefused(w) \/ PutConflicts(w) \/ PutFails(w)
    \/ HeadMatches(w) \/ HeadDiffers(w) \/ HeadFails(w)

Next ==
    \/ \E w \in Writers : WriterStep(w) \/ \E e \in Envelopes : Put(w, e)
    \/ \E r \in Listers : StartList(r) \/ ListPage(r) \/ AllUsed(r) \/ ListerFails(r)
    \/ \E k \in Keys :
          \/ \E r \in Readers : Get(r, k) \/ GetFails(r, k)
          \/ \E c \in Cleaners : Delete(c, k)
          \/ UploadGarbled(k)

Spec == Init /\ [][Next]_vars

-----------------------------------------------------------------------------
(* Properties                                                              *)

\* Durable Acceptance (archive-write-path.md): whenever a caller was told that
\* its observation is stored, by whichever path of answers, retries, conflicts
\* and misread errors, the Archive holds that observation with that payload
\* until it is erased (archive.go:77-115, r2-archive.ts:17-45).
DurableAcceptance ==
    \A a \in accepted :
        /\ store[a[1]] # Null
        /\ store[a[1]].origin # Null
        /\ store[a[1]].origin[2].id = a[2]
        /\ store[a[1]].origin[2].payload = a[3]

\* No Overwrite (archive-write-path.md): an object is never changed, whoever
\* writes to its key and however the requests interleave; it can only be
\* deleted (archive.go:89, r2-archive.ts:19).
NoOverwrite ==
    [][\A k \in Keys : store[k] # Null => store'[k] \in {store[k], Null}]_store

\* The retry of a write that was stored before is never reported as an
\* invariant violation, although what is stored is another spelling of the
\* payload (archive.go:111-113, r2-archive.ts:34-44).
OwnRetryNoViolation ==
    [][\A w \in Writers :
         HeadDiffers(w) =>
             \/ store[KeyOf(w)].origin = Null
             \/ store[KeyOf(w)].origin[2] # writer[w].envelope]_vars

\* A replay that ends without error has decoded every object that was there
\* from its start to its end, over any number of pages and while objects are
\* created and deleted; one it cannot decode makes it fail
\* (archive.go:128-142, 145-159, minio_test.go:213-218).
ReplayComplete ==
    \A r \in Readers :
        lister[r].pc = "done" =>
            \A k \in throughout[r] : \E g \in got[r] : g[1] = k

\* What a replay decodes is an envelope some writer put under that key, valid,
\* with the payload text it was given.
ReplayFaithful ==
    \A r \in Readers : \A g \in got[r] :
        \E e \in Envelopes : ArchiveKey(e) = g[1] /\ Validate(e) /\ Encode(e) = g[2]
=============================================================================
