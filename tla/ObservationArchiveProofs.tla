---------------------- MODULE ObservationArchiveProofs ----------------------
(***************************************************************************)
(* Theorems about the Observation Archive, for any writers, readers,       *)
(* envelopes, page size and number of attempts.                            *)
(***************************************************************************)
EXTENDS ObservationArchive, FiniteSetTheorems, TLAPS

-----------------------------------------------------------------------------
(* Envelopes, keys and objects.                                             *)

LEMMA KeyParts ==
  ASSUME NEW e \in Envelopes
  PROVE  /\ ArchiveKey(e) \in Keys
         /\ ArchiveKey(e) = <<e.kind, e.observedAt, e.id>>
         /\ e.id \in Nat /\ e.observedAt \in Nat
         /\ e.payload \in Payload \cup {Null}
         /\ e # Null
BY ArchiveAssumption DEF Keys, ArchiveKey, Envelope

LEMMA KeysAreFinite == IsFiniteSet(Keys)
<1> DEFINE f == [e \in Envelopes |-> ArchiveKey(e)]
<1>1. f \in Surjection(Envelopes, Keys)
  BY DEF Surjection, Keys
<1> QED
  BY <1>1, ArchiveAssumption, FS_Surjection

LEMMA ObjectParts ==
  ASSUME NEW e \in Envelopes, NEW w \in Writers
  PROVE  /\ ObjectOf(e, w) # Null
         /\ ObjectOf(e, w).body = Encode(e)
         /\ ObjectOf(e, w).observationId = e.id
         /\ ObjectOf(e, w).payloadSHA256 = e.payload
         /\ ObjectOf(e, w).origin = <<w, e>> /\ <<w, e>> # Null
         /\ ObjectOf(e, w).origin[2] = e
BY AbsenceAssumption DEF ObjectOf, PayloadSHA256

LEMMA GarbledParts ==
  ASSUME NEW k
  PROVE  /\ GarbledObject(k).body = Garbled /\ GarbledObject(k).origin = Null
         /\ GarbledObject(k).payloadSHA256 = Garbled
BY DEF GarbledObject

-----------------------------------------------------------------------------
(* What is stored.                                                          *)

(* Under a key there is nothing, an upload that is no envelope, or the      *)
(* object of an envelope with that key; a writer at work has an envelope.   *)
Object(k) ==
    \/ store[k] \in {Null, GarbledObject(k)}
    \/ \E e \in Envelopes, w \in Writers : ArchiveKey(e) = k /\ store[k] = ObjectOf(e, w)

WriterState == [pc: {"idle", "put", "head"}, envelope: Envelopes \cup {Null},
                requests: 0..MaxAttempts]

StoreInv ==
    /\ store = [k \in Keys |-> store[k]]
    /\ \A k \in Keys : Object(k)
    /\ writer \in [Writers -> WriterState]
    /\ \A w \in Writers : writer[w].pc # "idle" => writer[w].envelope \in Envelopes

LEMMA IdleWriterType == IdleWriter \in WriterState
BY ArchiveAssumption DEF IdleWriter, WriterState

(* The writers only ever create objects, the cleanup only deletes them.     *)
LEMMA StoreStep ==
  ASSUME StoreInv, [Next]_vars
  PROVE  /\ StoreInv'
         /\ \A k \in Keys : store[k] # Null => store'[k] \in {store[k], Null}
<1> USE DEF StoreInv
<1>1. ASSUME NEW w \in Writers, WriterStep(w)
      PROVE  /\ StoreInv'
             /\ \A k \in Keys : store[k] # Null => store'[k] \in {store[k], Null}
  <2>1. writer[w].pc # "idle" /\ writer[w].envelope \in Envelopes
    BY <1>1 DEF WriterStep, PutStores, PutRefused, PutConflicts, PutFails,
       HeadMatches, HeadDiffers, HeadFails
  <2>2. StoreIfAbsent(w) \/ UNCHANGED store
    BY <1>1 DEF WriterStep, PutStores, PutRefused, PutConflicts, PutFails,
       HeadMatches, HeadDiffers, HeadFails
  <2>3. /\ store' = [k \in Keys |-> store'[k]]
        /\ \A k \in Keys : Object(k)'
        /\ \A k \in Keys : store[k] # Null => store'[k] \in {store[k], Null}
    <3>1. CASE UNCHANGED store
      BY <3>1 DEF Object
    <3>2. CASE StoreIfAbsent(w)
      <4>1. KeyOf(w) \in Keys
        BY <2>1, KeyParts DEF KeyOf
      <4>2. /\ store' = [k \in Keys |-> store'[k]]
            /\ \A k \in Keys : store[k] # Null => store'[k] = store[k]
            /\ \A k \in Keys : store'[k] = store[k] \/ (k = KeyOf(w) /\ store'[k] = ObjectOf(writer[w].envelope, w))
        BY <3>2, <4>1 DEF StoreIfAbsent
      <4> QED
        BY <2>1, <4>2 DEF Object, KeyOf
    <3> QED
      BY <2>2, <3>1, <3>2
  <2>4. \/ writer' = [writer EXCEPT ![w] = IdleWriter]
        \/ writer' = [writer EXCEPT ![w].pc = "head"]
        \/ writer' = [writer EXCEPT ![w].requests = @ + 1] /\ MayResend(w)
    BY <1>1 DEF WriterStep, PutStores, PutRefused, PutConflicts, PutFails,
       HeadMatches, HeadDiffers, HeadFails, Accept, Return, AskHead
  <2>5. /\ writer' \in [Writers -> WriterState]
        /\ \A v \in Writers : writer'[v].pc # "idle" => writer'[v].envelope \in Envelopes
    <3>1. writer[w] \in WriterState
      OBVIOUS
    <3>2. CASE writer' = [writer EXCEPT ![w] = IdleWriter]
      BY <3>2, IdleWriterType DEF IdleWriter
    <3>3. CASE writer' = [writer EXCEPT ![w].pc = "head"]
      BY <2>1, <3>1, <3>3 DEF WriterState
    <3>4. CASE writer' = [writer EXCEPT ![w].requests = @ + 1] /\ MayResend(w)
      <4>1. writer[w].requests + 1 \in 0..MaxAttempts
        BY <3>1, <3>4, ArchiveAssumption DEF WriterState, MayResend
      <4> QED
        BY <2>1, <3>1, <3>4, <4>1 DEF WriterState
    <3> QED
      BY <2>4, <3>2, <3>3, <3>4
  <2> QED
    BY <2>3, <2>5
<1>2. ASSUME NEW w \in Writers, NEW e \in Envelopes, Put(w, e)
      PROVE  StoreInv' /\ UNCHANGED store
  <2>1. [pc |-> "put", envelope |-> e, requests |-> 1] \in WriterState
    BY ArchiveAssumption DEF WriterState
  <2>2. /\ writer' \in [Writers -> WriterState]
        /\ \A v \in Writers : writer'[v].pc # "idle" => writer'[v].envelope \in Envelopes
    BY <1>2, <2>1 DEF Put
  <2> QED
    BY <1>2, <2>2 DEF Put, Object
<1>3. ASSUME NEW c \in Cleaners, NEW k \in Keys, Delete(c, k)
      PROVE  /\ StoreInv'
             /\ \A j \in Keys : store[j] # Null => store'[j] \in {store[j], Null}
  BY <1>3 DEF Delete, Object
<1>4. ASSUME NEW k \in Keys, UploadGarbled(k)
      PROVE  /\ StoreInv'
             /\ \A j \in Keys : store[j] # Null => store'[j] \in {store[j], Null}
  BY <1>4 DEF UploadGarbled, Object
<1>5. CASE UNCHANGED <<store, writer>>
  BY <1>5 DEF Object
<1>6. ASSUME NEW r, StartList(r) \/ ListPage(r) \/ AllUsed(r) \/ ListerFails(r)
      PROVE  UNCHANGED <<store, writer>>
  BY <1>6 DEF StartList, ListPage, AllUsed, ListerFails, Fail
<1>7. ASSUME NEW r, NEW k, Get(r, k) \/ GetFails(r, k)
      PROVE  UNCHANGED <<store, writer>>
  BY <1>7 DEF Get, GetFails, Fail
<1> QED
  BY <1>1, <1>2, <1>3, <1>4, <1>5, <1>6, <1>7 DEF Next, vars

LEMMA StoreInvariant == Spec => []StoreInv
<1>1. Init => StoreInv
  BY IdleWriterType DEF Init, StoreInv, Object, IdleWriter
<1> QED
  BY <1>1, StoreStep, PTL DEF Spec

(* An object is never changed, whoever writes to its key (PutCreateOnly,    *)
(* commit).                                                                 *)
THEOREM ObjectsAreImmutable == Spec => NoOverwrite
<1>1. StoreInv /\ [Next]_vars
         => [\A k \in Keys : store[k] # Null => store'[k] \in {store[k], Null}]_store
  BY StoreStep
<1> QED
  BY <1>1, StoreInvariant, PTL DEF Spec, NoOverwrite

-----------------------------------------------------------------------------
(* What is accepted.                                                        *)

(* A head that matches has found the object of an envelope with the         *)
(* identity and the payload of the caller's own.                            *)
LEMMA MatchIsStored ==
  ASSUME StoreInv, NEW w \in Writers, HeadMatches(w)
  PROVE  /\ KeyOf(w) \in Keys
         /\ \E e \in Envelopes, v \in Writers :
               /\ store[KeyOf(w)] = ObjectOf(e, v)
               /\ e.id = writer[w].envelope.id
               /\ e.payload = writer[w].envelope.payload
<1> DEFINE mine == writer[w].envelope
<1>1. mine \in Envelopes /\ KeyOf(w) \in Keys
  BY KeyParts DEF StoreInv, HeadMatches, KeyOf
<1>2. /\ store[KeyOf(w)] # Null
      /\ store[KeyOf(w)].observationId = mine.id
      /\ store[KeyOf(w)].payloadSHA256 = mine.payload
  BY DEF HeadMatches, SameObservation, PayloadSHA256
<1>3. mine.payload # Garbled
  BY <1>1, KeyParts, ArchiveAssumption
<1>4. store[KeyOf(w)] # GarbledObject(KeyOf(w))
  BY <1>2, <1>3, GarbledParts
<1>5. PICK e \in Envelopes, v \in Writers : store[KeyOf(w)] = ObjectOf(e, v)
  BY <1>1, <1>2, <1>4 DEF StoreInv, Object
<1> QED
  BY <1>1, <1>2, <1>5, ObjectParts

Backed(a) ==
    /\ a[1] \in Keys
    /\ store[a[1]] # Null
    /\ store[a[1]].origin # Null
    /\ store[a[1]].origin[2].id = a[2]
    /\ store[a[1]].origin[2].payload = a[3]

AcceptedInv == \A a \in accepted : Backed(a)

LEMMA AcceptedStep ==
  ASSUME StoreInv, AcceptedInv, [Next]_vars
  PROVE  AcceptedInv'
<1>1. ASSUME NEW a \in accepted, store'[a[1]] # Null
      PROVE  Backed(a)'
  BY <1>1, StoreStep DEF AcceptedInv, Backed
<1>2. ASSUME NEW w \in Writers, PutStores(w) \/ HeadMatches(w)
      PROVE  AcceptedInv'
  <2>1. PICK mine \in Envelopes, k \in Keys : mine = writer[w].envelope /\ k = KeyOf(w)
    BY <1>2, KeyParts DEF StoreInv, PutStores, HeadMatches, KeyOf
  <2> PICK new : new = <<k, mine.id, mine.payload>>
    OBVIOUS
  <2>2. accepted' = accepted \cup {new}
    BY <1>2, <2>1 DEF PutStores, HeadMatches, Accept, PayloadSHA256
  <2>3. PICK e \in Envelopes, v \in Writers :
           /\ store'[k] = ObjectOf(e, v)
           /\ e.id = mine.id /\ e.payload = mine.payload
    <3>1. CASE PutStores(w)
      BY <2>1, <3>1 DEF PutStores, StoreIfAbsent, StoreInv
    <3>2. CASE HeadMatches(w)
      BY <2>1, <3>2, MatchIsStored DEF HeadMatches
    <3> QED
      BY <1>2, <3>1, <3>2
  <2>4. Backed(new)'
    <3>1. new[1] = k /\ new[2] = mine.id /\ new[3] = mine.payload
      OBVIOUS
    <3>2. /\ store'[k] # Null /\ store'[k].origin # Null
          /\ store'[k].origin[2] = e
      <4>1. /\ ObjectOf(e, v) # Null /\ ObjectOf(e, v).origin # Null
            /\ ObjectOf(e, v).origin[2] = e
        <5>1. ObjectOf(e, v).origin = <<v, e>> /\ <<v, e>> # Null /\ ObjectOf(e, v) # Null
          BY ObjectParts, Zenon
        <5> QED
          BY <5>1
      <4> QED
        BY <2>3, <4>1, Zenon
    <3> QED
      BY <2>3, <3>1, <3>2 DEF Backed
  <2>5. \A a \in accepted : store'[a[1]] # Null
    <3>1. \A a \in accepted : a[1] \in Keys /\ store[a[1]] # Null
      BY DEF AcceptedInv, Backed
    <3>2. \A j \in Keys : store[j] # Null => store'[j] # Null
      BY <1>2, <2>1, <2>3, ObjectParts DEF PutStores, HeadMatches, StoreIfAbsent, StoreInv
    <3> QED
      BY <3>1, <3>2
  <2> QED
    BY <1>1, <2>2, <2>4, <2>5 DEF AcceptedInv
<1>3. ASSUME NEW c \in Cleaners, NEW k \in Keys, Delete(c, k)
      PROVE  AcceptedInv'
  <2>1. \A a \in accepted' : a \in accepted /\ a[1] # k
    BY <1>3 DEF Delete
  <2>2. \A a \in accepted' : store'[a[1]] = store[a[1]]
    BY <1>3, <2>1 DEF Delete, StoreInv, AcceptedInv, Backed
  <2> QED
    BY <1>1, <2>1, <2>2 DEF AcceptedInv, Backed
<1>4. ASSUME NEW w \in Writers,
             \/ PutRefused(w) \/ PutConflicts(w) \/ PutFails(w) \/ HeadDiffers(w)
             \/ HeadFails(w) \/ \E e \in Envelopes : Put(w, e)
      PROVE  /\ UNCHANGED accepted
             /\ \/ UNCHANGED store
                \/ /\ writer[w].pc # "idle"
                   /\ StoreIfAbsent(w)
  BY <1>4 DEF PutRefused, PutConflicts, PutFails, HeadDiffers, HeadFails, Put
<1>5. ASSUME NEW w \in Writers, UNCHANGED accepted, StoreIfAbsent(w), writer[w].pc # "idle"
      PROVE  AcceptedInv'
  <2>1. KeyOf(w) \in Keys
    BY <1>5, KeyParts DEF StoreInv, KeyOf
  <2>2. \A a \in accepted : store'[a[1]] # Null
    BY <1>5, <2>1 DEF StoreIfAbsent, StoreInv, AcceptedInv, Backed
  <2> QED
    BY <1>1, <1>5, <2>2 DEF AcceptedInv
<1>6. CASE UNCHANGED <<store, accepted>>
  BY <1>6 DEF AcceptedInv, Backed
<1>7. ASSUME NEW k \in Keys, UploadGarbled(k)
      PROVE  AcceptedInv'
  <2>1. \A a \in accepted : store'[a[1]] = store[a[1]]
    BY <1>7 DEF UploadGarbled, StoreInv, AcceptedInv, Backed
  <2> QED
    BY <1>1, <1>7, <2>1 DEF UploadGarbled, AcceptedInv, Backed
<1>8. ASSUME NEW r, StartList(r) \/ ListPage(r) \/ AllUsed(r) \/ ListerFails(r)
      PROVE  UNCHANGED <<store, accepted>>
  BY <1>8 DEF StartList, ListPage, AllUsed, ListerFails, Fail
<1>9. ASSUME NEW r, NEW k, Get(r, k) \/ GetFails(r, k)
      PROVE  UNCHANGED <<store, accepted>>
  BY <1>9 DEF Get, GetFails, Fail
<1>10. CASE UNCHANGED vars
  BY <1>6, <1>10 DEF vars
<1> QED
  BY <1>2, <1>3, <1>4, <1>5, <1>6, <1>7, <1>8, <1>9, <1>10 DEF Next, WriterStep

(* What a caller was told is stored is stored, by whichever path of         *)
(* retries, conflicts and misread errors it came there, until it is erased  *)
(* (PutCreateOnly, commit).                                                 *)
THEOREM AcceptanceIsDurable == Spec => []DurableAcceptance
<1>1. Init => AcceptedInv
  BY DEF Init, AcceptedInv
<1>2. AcceptedInv => DurableAcceptance
  BY DEF AcceptedInv, Backed, DurableAcceptance
<1> QED
  BY <1>1, <1>2, AcceptedStep, StoreInvariant, PTL DEF Spec

(* The retry of a write that is stored already is never taken for a         *)
(* violation (headMatches, commit).                                         *)
THEOREM RetriesAreRecognised == Spec => OwnRetryNoViolation
<1>1. ASSUME StoreInv, NEW w \in Writers, HeadDiffers(w), store[KeyOf(w)].origin # Null
      PROVE  store[KeyOf(w)].origin[2] # writer[w].envelope
  <2>1. KeyOf(w) \in Keys /\ store[KeyOf(w)] # Null
    BY <1>1, KeyParts DEF StoreInv, HeadDiffers, KeyOf
  <2>2. PICK e \in Envelopes, v \in Writers : store[KeyOf(w)] = ObjectOf(e, v)
    BY <1>1, <2>1, GarbledParts DEF StoreInv, Object
  <2>3. e # writer[w].envelope
    BY <1>1, <2>2, ObjectParts DEF HeadDiffers, SameObservation, PayloadSHA256
  <2> QED
    BY <2>2, <2>3, ObjectParts
<1>2. StoreInv /\ [Next]_vars =>
        [\A w \in Writers :
           HeadDiffers(w) =>
             \/ store[KeyOf(w)].origin = Null
             \/ store[KeyOf(w)].origin[2] # writer[w].envelope]_vars
  BY <1>1
<1> QED
  BY <1>2, StoreInvariant, PTL DEF Spec, OwnRetryNoViolation

-----------------------------------------------------------------------------
(* The listing.                                                             *)

LEMMA Order ==
  ASSUME NEW i \in Prefixed, NEW j \in Prefixed, NEW k \in Prefixed
  PROVE  /\ i = j \/ Before(i, j) \/ Before(j, i)
         /\ Before(i, j) /\ Before(j, k) => Before(i, k)
<1>1. ASSUME NEW x \in Prefixed
      PROVE  x = <<"http_backfill", x[2], x[3]>> /\ x[2] \in Nat /\ x[3] \in Nat
  BY KeyParts DEF Prefixed, Present, Keys
<1> QED
  BY <1>1 DEF Before

(* What does not fit on a page comes after every key that does.             *)
LEMMA PageIsFirst ==
  ASSUME NEW R \in SUBSET Prefixed,
         NEW last \in Page(R), NEW k \in R, k \notin Page(R)
  PROVE  Before(last, k)
<1> SUFFICES ASSUME ~ Before(last, k)
             PROVE  FALSE
  OBVIOUS
<1> DEFINE below(x) == {j \in R : Before(j, x)}
<1>1. last \in R /\ last # k
  BY DEF Page
<1>2. Before(k, last)
  BY <1>1, Order
<1>3. below(k) \subseteq below(last)
  BY <1>1, <1>2, Order
<1>4. IsFiniteSet(below(last))
  BY KeysAreFinite, FS_Subset DEF Prefixed, Present
<1>5. /\ Cardinality(below(k)) \in Nat /\ Cardinality(below(last)) \in Nat
      /\ Cardinality(below(k)) <= Cardinality(below(last))
  BY <1>3, <1>4, FS_Subset, FS_CardinalityType
<1>6. Cardinality(below(last)) < PageSize
  BY DEF Page
<1>7. Cardinality(below(k)) < PageSize
  BY <1>5, <1>6, ArchiveAssumption
<1> QED
  BY <1>7 DEF Page

-----------------------------------------------------------------------------
(* What a replay reads.                                                     *)

ListerState == [pc: {"idle", "list", "use", "done"},
                found: SUBSET Keys, after: Keys \cup {Null}]

ListerTypes ==
    /\ lister \in [Listers -> ListerState]
    /\ got \in [Readers -> SUBSET (Keys \X {Encode(e) : e \in Envelopes})]
    /\ throughout \in [Readers -> SUBSET Keys]

LEMMA ListerStateType ==
  ASSUME NEW pc \in {"idle", "list", "use", "done"}
  PROVE  IdleLister(pc) \in ListerState
BY DEF IdleLister, ListerState

LEMMA ReadableBody ==
  ASSUME StoreInv, NEW k \in Keys, Readable(k)
  PROVE  \E e \in Envelopes : ArchiveKey(e) = k /\ store[k].body = Encode(e) /\ Validate(Encode(e))
<1>1. store[k] # Null /\ store[k].body # Garbled /\ Validate(store[k].body)
  BY DEF Readable, Present, Decodes
<1>2. PICK e \in Envelopes, v \in Writers : ArchiveKey(e) = k /\ store[k] = ObjectOf(e, v)
  BY <1>1, GarbledParts DEF StoreInv, Object
<1> QED
  BY <1>1, <1>2, ObjectParts

LEMMA ListerTypesStep ==
  ASSUME StoreInv, ListerTypes, [Next]_vars
  PROVE  ListerTypes'
<1> USE DEF ListerTypes
<1>1. ASSUME NEW r \in Listers, StartList(r) \/ Fail(r)
      PROVE  ListerTypes'
  <2>1. Prefixed \subseteq Keys
    BY DEF Prefixed, Present
  <2>2. IdleLister("list") \in ListerState /\ IdleLister("idle") \in ListerState
    BY ListerStateType
  <2> QED
    BY <1>1, <2>1, <2>2 DEF StartList, Fail
<1>2. ASSUME NEW r \in Listers, ListPage(r)
      PROVE  ListerTypes'
  <2>1. Page(Remaining(r)) \subseteq Keys
    BY DEF Page, Remaining, Prefixed, Present
  <2>2. lister[r] \in ListerState
    BY <1>2
  <2>3. \E l \in ListerState : lister' = [lister EXCEPT ![r] = l]
    <3>1. CASE lister' = [lister EXCEPT ![r] =
                 [pc |-> "use", found |-> @.found \cup Page(Remaining(r)), after |-> Null]]
      <4>1. [pc |-> "use", found |-> lister[r].found \cup Page(Remaining(r)), after |-> Null]
               \in ListerState
        BY <2>1, <2>2 DEF ListerState
      <4> QED
        BY <3>1, <4>1
    <3>2. ASSUME NEW last \in Page(Remaining(r)),
                 lister' = [lister EXCEPT ![r].found = @ \cup Page(Remaining(r)), ![r].after = last]
          PROVE  \E l \in ListerState : lister' = [lister EXCEPT ![r] = l]
      <4>1. [lister[r] EXCEPT !.found = @ \cup Page(Remaining(r)), !.after = last] \in ListerState
        BY <2>1, <2>2 DEF ListerState
      <4>2. lister' = [lister EXCEPT ![r] =
                         [lister[r] EXCEPT !.found = @ \cup Page(Remaining(r)), !.after = last]]
        BY <1>2, <2>2, <3>2
      <4> QED
        BY <4>1, <4>2
    <3> QED
      BY <1>2, <3>1, <3>2 DEF ListPage
  <2> QED
    BY <1>2, <2>3 DEF ListPage
<1>3. ASSUME NEW r \in Listers, NEW k \in Keys, Gone(r, k)
      PROVE  lister' \in [Listers -> ListerState]
  <2>1. [lister[r] EXCEPT !.found = @ \ {k}] \in ListerState
    BY <1>3 DEF ListerState
  <2> QED
    BY <1>3, <2>1 DEF Gone
<1>4. ASSUME NEW r \in Readers, NEW k \in Keys, Get(r, k)
      PROVE  ListerTypes'
  <2>1. <<k, store[k].body>> \in Keys \X {Encode(e) : e \in Envelopes}
    BY <1>4, ReadableBody DEF Get
  <2> QED
    BY <1>3, <1>4, <2>1 DEF Get, Listers
<1>5. ASSUME NEW c \in Cleaners, NEW k \in Keys, Delete(c, k)
      PROVE  ListerTypes'
  BY <1>3, <1>5 DEF Delete, Listers
<1>6. ASSUME NEW r \in Listers, AllUsed(r)
      PROVE  ListerTypes'
  <2>1. [lister[r] EXCEPT !.pc = "done"] \in ListerState
    BY <1>6 DEF ListerState
  <2> QED
    BY <1>6, <2>1 DEF AllUsed
<1>7. CASE UNCHANGED <<lister, got, throughout>>
  BY <1>7
<1>8. ASSUME NEW w \in Writers, WriterStep(w) \/ \E e \in Envelopes : Put(w, e)
      PROVE  UNCHANGED <<lister, got, throughout>>
  BY <1>8 DEF WriterStep, PutStores, PutRefused, PutConflicts, PutFails, HeadMatches,
     HeadDiffers, HeadFails, Put
<1>9. ASSUME NEW k, UploadGarbled(k)
      PROVE  UNCHANGED <<lister, got, throughout>>
  BY <1>9 DEF UploadGarbled
<1> QED
  BY <1>1, <1>2, <1>4, <1>5, <1>6, <1>7, <1>8, <1>9 DEF Next, vars, ListerFails, GetFails, Listers

LEMMA ListerInvariant == Spec => [](StoreInv /\ ListerTypes)
<1>1. Init => ListerTypes
  BY ListerStateType DEF Init, ListerTypes
<1> QED
  BY <1>1, ListerTypesStep, StoreInvariant, PTL DEF Spec

(* Every object in the Archive, every caller and everything decoded keeps   *)
(* its type.                                                                *)
THEOREM ArchiveTypeCorrect == Spec => []TypeOK
<1> DEFINE AcceptedType == accepted \subseteq Keys \X Nat \X (Payload \cup {Null})
<1>1. Init => AcceptedType
  BY DEF Init
<1>2. StoreInv /\ AcceptedType /\ [Next]_vars => AcceptedType'
  <2> SUFFICES ASSUME StoreInv, AcceptedType, [Next]_vars
               PROVE  AcceptedType'
    OBVIOUS
  <2>1. ASSUME NEW w \in Writers, PutStores(w) \/ HeadMatches(w)
        PROVE  AcceptedType'
    <3>1. writer[w].envelope \in Envelopes
      BY <2>1 DEF StoreInv, PutStores, HeadMatches
    <3>2. <<KeyOf(w), writer[w].envelope.id, PayloadSHA256(writer[w].envelope)>>
             \in Keys \X Nat \X (Payload \cup {Null})
      BY <3>1, KeyParts DEF KeyOf, PayloadSHA256
    <3> QED
      BY <2>1, <3>2 DEF PutStores, HeadMatches, Accept
  <2>2. ASSUME NEW c, NEW k, Delete(c, k)
        PROVE  AcceptedType'
    BY <2>2 DEF Delete
  <2>3. ASSUME NEW w \in Writers,
               \/ PutRefused(w) \/ PutConflicts(w) \/ PutFails(w) \/ HeadDiffers(w)
               \/ HeadFails(w) \/ \E e \in Envelopes : Put(w, e)
        PROVE  UNCHANGED accepted
    BY <2>3 DEF PutRefused, PutConflicts, PutFails, HeadDiffers, HeadFails, Put
  <2>4. ASSUME NEW r, StartList(r) \/ ListPage(r) \/ AllUsed(r) \/ ListerFails(r)
        PROVE  UNCHANGED accepted
    BY <2>4 DEF StartList, ListPage, AllUsed, ListerFails, Fail
  <2>5. ASSUME NEW r, NEW k, Get(r, k) \/ GetFails(r, k) \/ UploadGarbled(k)
        PROVE  UNCHANGED accepted
    BY <2>5 DEF Get, GetFails, Fail, UploadGarbled
  <2> QED
    BY <2>1, <2>2, <2>3, <2>4, <2>5 DEF Next, WriterStep, vars
<1>3. StoreInv /\ ListerTypes /\ AcceptedType => TypeOK
  BY DEF StoreInv, Object, WriterState, ListerTypes, ListerState, TypeOK
<1> QED
  BY <1>1, <1>2, <1>3, ListerInvariant, PTL DEF Spec

LEMMA FaithfulStep ==
  ASSUME StoreInv, ListerTypes, ReplayFaithful, [Next]_vars
  PROVE  ReplayFaithful'
<1> DEFINE Decoded(g) ==
             \E e \in Envelopes : ArchiveKey(e) = g[1] /\ Validate(e) /\ Encode(e) = g[2]
<1>1. ASSUME NEW r \in Readers, NEW k \in Keys, Get(r, k)
      PROVE  ReplayFaithful'
  <2>1. PICK e \in Envelopes : /\ ArchiveKey(e) = k /\ store[k].body = Encode(e)
                               /\ Validate(Encode(e))
    BY <1>1, ReadableBody DEF Get
  <2>2. Validate(e)
    <3>1. e \in Envelope
      BY ArchiveAssumption
    <3>2. /\ Encode(e).version = e.version /\ Encode(e).uuidVersion = e.uuidVersion
          /\ Encode(e).kind = e.kind /\ Encode(e).provenance = e.provenance
          /\ Encode(e).observedAt = e.observedAt
          /\ e.payload = Null => Encode(e).payload = Null
      BY <3>1 DEF Encode, Envelope
    <3> QED
      BY <2>1, <3>2 DEF Validate
  <2>3. Decoded(<<k, store[k].body>>)
    BY <2>1, <2>2
  <2>4. \A q \in Readers : \A g \in got'[q] : g \in got[q] \/ g = <<k, store[k].body>>
    BY <1>1 DEF Get, ListerTypes
  <2> QED
    BY <2>3, <2>4 DEF ReplayFaithful
<1>2. ASSUME NEW r, StartList(r) \/ Fail(r)
      PROVE  ReplayFaithful'
  BY <1>2 DEF StartList, Fail, ReplayFaithful
<1>3. CASE UNCHANGED got
  BY <1>3 DEF ReplayFaithful
<1>4. ASSUME NEW w \in Writers, WriterStep(w) \/ \E e \in Envelopes : Put(w, e)
      PROVE  UNCHANGED got
  BY <1>4 DEF WriterStep, PutStores, PutRefused, PutConflicts, PutFails, HeadMatches,
     HeadDiffers, HeadFails, Put
<1>5. ASSUME NEW r, ListPage(r) \/ AllUsed(r)
      PROVE  UNCHANGED got
  BY <1>5 DEF ListPage, AllUsed
<1>6. ASSUME NEW c, NEW k, Delete(c, k) \/ UploadGarbled(k)
      PROVE  UNCHANGED got
  BY <1>6 DEF Delete, UploadGarbled
<1> QED
  BY <1>1, <1>2, <1>3, <1>4, <1>5, <1>6 DEF Next, vars, ListerFails, GetFails

(* What is decoded under a key is the envelope of some writer with that     *)
(* key, and a valid one (Get, Decode).                                      *)
THEOREM ReplaysAreFaithful == Spec => []ReplayFaithful
<1>1. Init => ReplayFaithful
  BY DEF Init, ReplayFaithful
<1> QED
  BY <1>1, FaithfulStep, ListerInvariant, PTL DEF Spec

-----------------------------------------------------------------------------
(* Nothing is left out.                                                     *)

(* A key that was there all along is decoded, found, or still to be listed. *)
Reached(r, k) ==
    \/ \E g \in got[r] : g[1] = k
    \/ k \in lister[r].found
    \/ lister[r].pc = "list" /\ k \in Remaining(r)

Whole(r) ==
    \A k \in throughout[r] :
        /\ k \in Prefixed
        /\ Reached(r, k)
        /\ lister[r].pc = "done" => lister[r].found = {}

CompleteInv == \A r \in Readers : Whole(r)

(* A reader that does nothing loses nothing while objects are only created. *)
LEMMA ReachedKept ==
  ASSUME NEW r \in Readers, NEW k \in Prefixed, Reached(r, k),
         lister'[r] = lister[r], got'[r] = got[r], store'[k] # Null
  PROVE  k \in Prefixed' /\ Reached(r, k)'
BY DEF Reached, Remaining, Prefixed, Present

LEMMA CompleteStep ==
  ASSUME StoreInv, ListerTypes, CompleteInv, [Next]_vars
  PROVE  CompleteInv'
<1>1. ASSUME NEW r \in Readers, lister'[r] = lister[r], got'[r] = got[r],
             throughout'[r] \subseteq throughout[r],
             \A k \in throughout'[r] : store'[k] # Null
      PROVE  Whole(r)'
  BY <1>1, ReachedKept DEF CompleteInv, Whole
<1>2. \A r \in Readers : \A k \in throughout[r] : k \in Keys /\ store[k] # Null
  BY DEF CompleteInv, Whole, Prefixed, Present
<1>3. ASSUME NEW r \in Readers, UNCHANGED store,
             lister'[r] = lister[r], got'[r] = got[r], throughout'[r] = throughout[r]
      PROVE  Whole(r)'
  BY <1>1, <1>2, <1>3
<1>4. ASSUME NEW r \in Listers, StartList(r) \/ Fail(r)
      PROVE  CompleteInv'
  <2>1. \A q \in Readers : q # r => /\ lister'[q] = lister[q] /\ got'[q] = got[q]
                                    /\ throughout'[q] = throughout[q]
    BY <1>4 DEF StartList, Fail, ListerTypes, Listers
  <2>2. UNCHANGED store
    BY <1>4 DEF StartList, Fail
  <2>3. ASSUME r \in Readers
        PROVE  Whole(r)'
    <3>1. CASE Fail(r)
      BY <2>3, <3>1 DEF Fail, Whole
    <3>2. CASE StartList(r)
      <4>1. throughout'[r] = Prefixed /\ lister'[r] = IdleLister("list")
        BY <2>3, <3>2 DEF StartList, ListerTypes, Listers
      <4>2. Prefixed' = Prefixed
        BY <2>2 DEF Prefixed, Present
      <4> QED
        BY <4>1, <4>2 DEF IdleLister, Reached, Remaining, Whole
    <3> QED
      BY <1>4, <3>1, <3>2
  <2> QED
    BY <1>3, <2>1, <2>2, <2>3 DEF CompleteInv, Whole
<1>5. ASSUME NEW r \in Listers, ListPage(r)
      PROVE  CompleteInv'
  <2>1. \A q \in Readers : q # r => lister'[q] = lister[q]
    BY <1>5 DEF ListPage, ListerTypes, Listers
  <2>2. UNCHANGED <<store, got, throughout>> /\ lister[r].pc = "list"
    BY <1>5 DEF ListPage
  <2>3. ASSUME r \in Readers, NEW k \in throughout[r]
        PROVE  k \in Prefixed' /\ Reached(r, k)' /\ lister'[r].pc # "done"
    <3> DEFINE page == Page(Remaining(r))
    <3>1. k \in Prefixed /\ Reached(r, k) /\ Prefixed' = Prefixed
      BY <2>2, <2>3 DEF CompleteInv, Whole, Prefixed, Present
    <3>2. lister[r] \in ListerState /\ r \in DOMAIN lister
      BY <1>5 DEF ListerTypes
    <3>3. CASE /\ page = Remaining(r)
               /\ lister' = [lister EXCEPT ![r] =
                    [pc |-> "use", found |-> @.found \cup page, after |-> Null]]
      <4>1. lister'[r] = [pc |-> "use", found |-> lister[r].found \cup page, after |-> Null]
        BY <3>2, <3>3
      <4>2. lister'[r].found = lister[r].found \cup page /\ lister'[r].pc = "use"
        BY <4>1
      <4> HIDE DEF page
      <4> QED
        BY <2>2, <3>1, <3>3, <4>2 DEF Reached
    <3>4. ASSUME NEW last \in page,
                 lister' = [lister EXCEPT ![r].found = @ \cup page, ![r].after = last]
          PROVE  k \in Prefixed' /\ Reached(r, k)' /\ lister'[r].pc # "done"
      <4>1. /\ lister'[r].found = lister[r].found \cup page
            /\ lister'[r].pc = "list" /\ lister'[r].after = last
        BY <2>2, <3>2, <3>4 DEF ListerState
      <4>2. CASE k \in Remaining(r) /\ k \notin page
        <5>1. Before(last, k)
          BY <3>4, <4>2, PageIsFirst DEF Remaining
        <5> QED
          BY <3>1, <4>1, <5>1 DEF Reached, Remaining
      <4>3. CASE ~ (k \in Remaining(r) /\ k \notin page)
        <5> HIDE DEF page
        <5> QED
          BY <2>2, <3>1, <4>1, <4>3 DEF Reached
      <4> QED
        BY <4>2, <4>3
    <3> QED
      BY <1>5, <3>3, <3>4 DEF ListPage
  <2> QED
    BY <1>3, <2>1, <2>2, <2>3 DEF CompleteInv, Whole
<1>6. ASSUME NEW r \in Readers, NEW k \in Keys, Get(r, k)
      PROVE  CompleteInv'
  <2>1. \A q \in Readers : q # r => lister'[q] = lister[q] /\ got'[q] = got[q]
    BY <1>6 DEF Get, Gone, ListerTypes, Listers
  <2>2. UNCHANGED <<store, throughout>> /\ lister[r].pc = "use"
    BY <1>6 DEF Get, NextKey
  <2>3. /\ lister'[r].found = lister[r].found \ {k} /\ lister'[r].pc = "use"
        /\ got'[r] = got[r] \cup {<<k, store[k].body>>}
    BY <1>6, <2>2 DEF Get, Gone, ListerTypes, ListerState, Listers
  <2>4. ASSUME NEW j \in throughout[r]
        PROVE  j \in Prefixed' /\ Reached(r, j)'
    <3>1. j \in Prefixed /\ Reached(r, j) /\ Prefixed' = Prefixed
      BY <2>2, <2>4 DEF CompleteInv, Whole, Prefixed, Present
    <3>2. CASE j = k
      <4>1. <<k, store[k].body>>[1] = k
        OBVIOUS
      <4> QED
        BY <2>3, <3>1, <3>2, <4>1, Zenon DEF Reached
    <3>3. CASE j # k
      BY <2>2, <2>3, <3>1, <3>3 DEF Reached
    <3> QED
      BY <3>2, <3>3
  <2> QED
    BY <1>3, <2>1, <2>2, <2>3, <2>4 DEF CompleteInv, Whole
<1>7. ASSUME NEW r \in Listers, AllUsed(r)
      PROVE  CompleteInv'
  <2>1. \A q \in Readers : q # r => lister'[q] = lister[q]
    BY <1>7 DEF AllUsed, ListerTypes, Listers
  <2>2. UNCHANGED <<store, got, throughout>> /\ lister[r].pc = "use"
    BY <1>7 DEF AllUsed
  <2>3. lister'[r].found = {} /\ lister[r].found = {}
    BY <1>7 DEF AllUsed, ListerTypes, ListerState
  <2>4. Prefixed' = Prefixed
    BY <2>2 DEF Prefixed, Present
  <2>5. r \in Readers => Whole(r)'
    BY <2>2, <2>3, <2>4 DEF CompleteInv, Whole, Reached
  <2> QED
    BY <1>3, <2>1, <2>2, <2>5 DEF CompleteInv, Whole
<1>8. ASSUME NEW c \in Cleaners, NEW k \in Keys, Delete(c, k)
      PROVE  CompleteInv'
  <2>1. \A q \in Readers : /\ lister'[q] = lister[q] /\ got'[q] = got[q]
                           /\ throughout'[q] = throughout[q] \ {k}
    BY <1>8, ArchiveAssumption DEF Delete, Gone, ListerTypes, Listers
  <2>2. \A j \in Keys : j # k => store'[j] = store[j]
    BY <1>8 DEF Delete, StoreInv
  <2> QED
    BY <1>1, <1>2, <2>1, <2>2 DEF CompleteInv, Whole
<1>9. ASSUME UNCHANGED <<lister, got, throughout>>,
             \A k \in Keys : store[k] # Null => store'[k] # Null
      PROVE  CompleteInv'
  BY <1>1, <1>2, <1>9 DEF CompleteInv, Whole
<1>10. ASSUME NEW w \in Writers, WriterStep(w) \/ \E e \in Envelopes : Put(w, e)
       PROVE  CompleteInv'
  <2>1. UNCHANGED <<lister, got, throughout>>
    BY <1>10 DEF WriterStep, PutStores, PutRefused, PutConflicts, PutFails, HeadMatches,
       HeadDiffers, HeadFails, Put
  <2>2. StoreIfAbsent(w) \/ UNCHANGED store
    BY <1>10 DEF WriterStep, PutStores, PutRefused, PutConflicts, PutFails,
       HeadMatches, HeadDiffers, HeadFails, Put
  <2>3. \A k \in Keys : store[k] # Null => store'[k] # Null
    BY <2>2 DEF StoreIfAbsent, StoreInv
  <2> QED
    BY <1>9, <2>1, <2>3
<1>11. ASSUME NEW k \in Keys, UploadGarbled(k)
       PROVE  CompleteInv'
  BY <1>9, <1>11 DEF UploadGarbled, StoreInv
<1>12. CASE UNCHANGED vars
  BY <1>9, <1>12 DEF vars
<1> QED
  BY <1>4, <1>5, <1>6, <1>7, <1>8, <1>10, <1>11, <1>12 DEF Next, ListerFails, GetFails, Listers

(* A replay that ends has decoded every object that was in the Archive from *)
(* its start to its end, over any number of pages and whatever is created   *)
(* or deleted meanwhile (List, Get).                                        *)
THEOREM ReplaysAreComplete == Spec => []ReplayComplete
<1>1. Init => CompleteInv
  BY DEF Init, CompleteInv, Whole
<1>2. CompleteInv => ReplayComplete
  BY DEF CompleteInv, Whole, Reached, ReplayComplete
<1> QED
  BY <1>1, <1>2, CompleteStep, ListerInvariant, PTL DEF Spec
=============================================================================
