------------------------- MODULE AcceptanceSpikeProofs -------------------------
(***************************************************************************)
(* Theorems about the acceptance loop, for any number of loops, cleanups   *)
(* and failures, every fixture and every Archive.                          *)
(*                                                                         *)
(* The invariant says at each point of a loop how much of its report is    *)
(* written, what its two scans showed, how the numbers of its two tables   *)
(* compare, and which files it has yet to register.                        *)
(***************************************************************************)
EXTENDS AcceptanceSpike, ProjectionProofs, SequenceTheorems

\* The state of one loop; what it built is what some keys project to
LoopState ==
    [pc: Pc, phase: Phase, next: Nat,
     first: SUBSET Objects, build: [manifest: SUBSET Objects, rows: SUBSET Row],
     table: Table \cup {Null}, before: Table \cup {Null},
     polls: 0..(MaxPolls - 1), criteria: Seq(Verdict), rebuildRun: BOOLEAN, failure: BOOLEAN]

Versions == {catalog[v] : v \in DOMAIN catalog} \ {Null}

OnePath(files) ==
    \A m, n \in DOMAIN files :
        files[m].by = files[n].by /\ files[m].phase = files[n].phase => m = n

VersionSound(t, n) == t.number <= n /\ OnePath(t.files)

\* How many criteria are on record at each point of a loop
Reached(phase, pc) ==
    IF phase = "first"
    THEN CASE pc \in {"idle", "put", "put_again"} -> 0
           [] pc = "list" -> 1
           [] pc = "ensure" -> 2
           [] pc = "commit" -> 4
           [] pc \in {"reload", "confirm"} -> 5
           [] pc = "scan" -> 6
           [] pc \in {"query", "count"} -> 7
           [] pc \in {"drop", "check_dropped"} -> 8
           [] OTHER -> 0
    ELSE CASE pc = "list" -> 9
           [] pc \in {"ensure", "commit"} -> 10
           [] pc = "scan" -> 11
           [] pc \in {"query", "count"} -> 12
           [] OTHER -> 13

\* The first n criteria are on record, and none of them failed
Recorded(criteria, n) ==
    /\ criteria \in Seq(Verdict) /\ Len(criteria) = n
    /\ \A i \in 1..n : criteria[i].name = AllCriteria[i] /\ criteria[i].verdict # "failed"

\* A loop that failed is over, and its phase is reset: in the second phase
\* nothing has failed so far
Broken(r) == r.pc = "killed" \/ (r.pc = "reported" /\ r.phase = "first")

RecordSound(r) ==
    /\ r.phase = "rebuild" => r.pc \in {"list", "ensure", "commit", "scan", "query", "count", "reported"}
    /\ r.phase = "first" /\ r.pc # "reported" => ~ r.rebuildRun
    /\ ~ Broken(r) => ~ r.failure /\ Recorded(r.criteria, Reached(r.phase, r.pc))
    /\ Broken(r) /\ r.pc = "reported" => r.failure /\ r.criteria # << >> /\ Ending(r)

HasListed(r) ==
    r.phase = "rebuild" \/ r.pc \notin {"idle", "put", "put_again", "list", "reported", "killed"}

HasScanned(r) == r.phase = "rebuild" \/ r.pc \in {"query", "count", "drop", "check_dropped"}

HasRescanned(r) == r.phase = "rebuild" /\ r.pc \in {"query", "count", "reported"}

ContentSound(r) ==
    /\ HasListed(r) => r.build = Build(r.first)
    /\ HasScanned(r) => Lines(ScanRows(r.before.files)) = Lines(SetToBag(r.build.rows))
    /\ HasRescanned(r) => Lines(ScanRows(r.table.files)) = Lines(ScanRows(r.before.files))

HoldsTable(r) ==
    \/ r.pc \in {"commit", "reload", "confirm", "scan"}
    \/ HasRescanned(r)

NumberSound(r, n, current) ==
    /\ HoldsTable(r) => r.table \in Table /\ r.table.number <= n
    /\ HasScanned(r) => r.before \in Table /\ r.before.number <= n
    /\ r.phase = "rebuild" /\ r.pc # "reported" /\ current # Null => r.before.number < current.number
    /\ r.phase = "rebuild" /\ HoldsTable(r) => r.before.number < r.table.number

\* The phases whose file the loop may still register
Pending(r) ==
    IF r.pc \in {"reported", "killed"} THEN {}
    ELSE IF r.phase = "rebuild" THEN (IF r.pc \in {"list", "ensure", "commit"} THEN {"rebuild"} ELSE {})
    ELSE IF r.pc \in {"idle", "put", "put_again", "list", "ensure", "commit"} THEN Phase
    ELSE {"rebuild"}

PathSound(l, r, versions) ==
    \A p \in Pending(r), t \in versions : [by |-> l, phase |-> p] \notin Paths(t.files)

\* What holds of a loop in state r next to a catalog of these versions
LoopSound(l, r, n, current, versions) ==
    /\ r \in LoopState /\ r.next \in 1..Len(Fixture[l])
    /\ RecordSound(r)
    /\ ContentSound(r)
    /\ NumberSound(r, n, current)
    /\ PathSound(l, r, versions)

CatalogType == catalog \in Seq(Table \cup {Null}) /\ catalog # << >>

SharedInv ==
    /\ archive \in SUBSET Objects
    /\ CatalogType
    /\ created \in Nat
    /\ cleanup \in [left: 0..MaxCleanups, keys: (SUBSET Objects) \cup {Null}]
    /\ \A t \in Versions : VersionSound(t, created)

IInv ==
    /\ SharedInv
    /\ DOMAIN loop = Loops /\ loop = [l \in Loops |-> loop[l]]
    /\ \A l \in Loops : LoopSound(l, loop[l], created, Current, Versions)

-----------------------------------------------------------------------------
(* The report.                                                              *)

(* The names of the criteria are among those a verdict may have.            *)
LEMMA CriterionNames ==
  /\ \A i \in 1..13 : AllCriteria[i] \in Criterion
  /\ "catalog_connect_and_create" \in Criterion /\ "iceberg_go_scan" \in Criterion
<1>1. DOMAIN AllCriteria = 1..13
  BY DEF AllCriteria
<1> QED
  BY <1>1 DEF Criterion, Range

LEMMA OneName ==
  ASSUME NEW S, NEW name \in S
  PROVE  << name >> \in Seq(S) /\ Len(<< name >>) = 1 /\ << name >>[1] = name
OBVIOUS

(* Recording appends the names with their verdict and leaves what is there. *)
LEMMA RecordAppends ==
  ASSUME NEW criteria \in Seq(Verdict), NEW names \in Seq(Criterion),
         NEW verdict \in {"passed", "skipped", "failed"}
  PROVE  /\ Record(criteria, names, verdict) \in Seq(Verdict)
         /\ Len(Record(criteria, names, verdict)) = Len(criteria) + Len(names)
         /\ \A i \in 1..Len(criteria) : Record(criteria, names, verdict)[i] = criteria[i]
         /\ \A i \in 1..Len(names) :
               Record(criteria, names, verdict)[Len(criteria) + i] = [name |-> names[i], verdict |-> verdict]
<1> DEFINE new == [n \in DOMAIN names |-> [name |-> names[n], verdict |-> verdict]]
<1>1. DOMAIN names = 1..Len(names) /\ Len(names) \in Nat
  OBVIOUS
<1>2. new \in [1..Len(names) -> Verdict]
  BY <1>1 DEF Verdict
<1>3. new \in Seq(Verdict) /\ Len(new) = Len(names)
  <2> HIDE DEF new
  <2> QED
    BY <1>1, <1>2, SeqDef
<1>4. Record(criteria, names, verdict) = criteria \o new
  BY DEF Record
<1>5. \A i \in 1..Len(names) : new[i] = [name |-> names[i], verdict |-> verdict]
  BY <1>1
<1> HIDE DEF new
<1>6. /\ criteria \o new \in Seq(Verdict)
      /\ Len(criteria \o new) = Len(criteria) + Len(new)
      /\ \A i \in 1..(Len(criteria) + Len(new)) :
            (criteria \o new)[i] = IF i <= Len(criteria) THEN criteria[i] ELSE new[i - Len(criteria)]
  BY <1>3, ConcatProperties
<1>7. \A i \in 1..Len(criteria) : (criteria \o new)[i] = criteria[i]
  BY <1>3, <1>6
<1>8. \A i \in 1..Len(names) : (criteria \o new)[Len(criteria) + i] = new[i]
  <2> TAKE i \in 1..Len(names)
  <2>1. Len(criteria) \in Nat /\ Len(criteria) + i \in 1..(Len(criteria) + Len(new))
    BY <1>1, <1>3
  <2>2. (criteria \o new)[Len(criteria) + i] = new[(Len(criteria) + i) - Len(criteria)]
    BY <1>6, <2>1
  <2> QED
    BY <2>1, <2>2
<1> QED
  BY <1>3, <1>4, <1>5, <1>6, <1>7, <1>8

(* A report that agrees with the list of criteria so far still does after   *)
(* the next ones on the list.                                               *)
LEMMA RecordedGrows ==
  ASSUME NEW n \in Nat, NEW criteria, Recorded(criteria, n), NEW names \in Seq(Criterion),
         \A i \in 1..Len(names) : names[i] = AllCriteria[n + i],
         NEW verdict \in {"passed", "skipped"}
  PROVE  Recorded(Record(criteria, names, verdict), n + Len(names))
<1> DEFINE more == Record(criteria, names, verdict)
<1>1. /\ criteria \in Seq(Verdict) /\ Len(criteria) = n /\ Len(names) \in Nat
      /\ verdict \in {"passed", "skipped", "failed"} /\ verdict # "failed"
      /\ \A i \in 1..n : criteria[i].name = AllCriteria[i] /\ criteria[i].verdict # "failed"
  BY DEF Recorded
<1>2. /\ more \in Seq(Verdict) /\ Len(more) = n + Len(names)
      /\ \A i \in 1..n : more[i] = criteria[i]
      /\ \A i \in 1..Len(names) : more[n + i] = [name |-> names[i], verdict |-> verdict]
  BY <1>1, RecordAppends
<1> HIDE DEF more
<1>3. ASSUME NEW i \in 1..(n + Len(names))
      PROVE  more[i].name = AllCriteria[i] /\ more[i].verdict # "failed"
  <2>1. CASE i <= n
    BY <1>1, <1>2, <2>1
  <2>2. CASE i > n
    <3>1. PICK j \in 1..Len(names) : i = n + j
      <4>1. i - n \in 1..Len(names) /\ i = n + (i - n)
        BY <1>1, <2>2
      <4> QED
        BY <4>1
    <3>2. more[n + j] = [name |-> names[j], verdict |-> verdict] /\ names[j] = AllCriteria[n + j]
      BY <1>2
    <3> QED
      BY <3>1, <3>2
  <2> QED
    BY <2>1, <2>2
<1> QED
  BY <1>2, <1>3 DEF Recorded, more

LEMMA FixtureLength == \A l \in Loops : Len(Fixture[l]) \in Nat \ {0}
<1> TAKE l \in Loops
<1>1. Fixture[l] \in Seq(Objects) /\ Fixture[l] # << >>
  BY SpikeAssumption
<1> QED
  BY <1>1, EmptySeq, LenProperties

LEMMA IdleType == IdleLoop \in LoopState
<1>1. NoBuild \in [manifest: SUBSET Objects, rows: SUBSET Row]
  BY DEF NoBuild
<1>2. 0 \in 0..(MaxPolls - 1)
  BY SpikeAssumption
<1>3. "idle" \in Pc /\ "first" \in Phase /\ << >> \in Seq(Verdict)
  BY DEF Pc, Phase
<1> QED
  BY <1>1, <1>2, <1>3 DEF IdleLoop, LoopState

(* A loop that fails is over, and sound, if its last criterion is one to    *)
(* end with.                                                                *)
LEMMA FailedIsSound ==
  ASSUME NEW l \in Loops, NEW q \in LoopState, NEW criteria \in Seq(Verdict), criteria # << >>,
         \/ criteria[Len(criteria)].verdict = "failed"
         \/ /\ criteria[Len(criteria)] = [name |-> "canonical_table_deleted", verdict |-> "passed"]
            /\ ~ q.rebuildRun,
         NEW n, NEW current, NEW versions
  PROVE  LoopSound(l, Over(q, criteria), n, current, versions)
<1> DEFINE r == Over(q, criteria)
<1>0. q.rebuildRun \in BOOLEAN
  BY DEF LoopState
<1>1. /\ r.pc = "reported" /\ r.phase = "first" /\ r.next = 1
      /\ r.criteria = criteria /\ r.rebuildRun = q.rebuildRun /\ r.failure
  BY DEF Over, IdleLoop
<1>2. r \in LoopState
  BY <1>0, IdleType DEF Over, LoopState, Pc
<1>3. r.next \in 1..Len(Fixture[l])
  <2>1. Len(Fixture[l]) \in Nat \ {0}
    BY FixtureLength
  <2> HIDE DEF r
  <2> QED
    BY <1>1, <2>1
<1> HIDE DEF r
<1>4. RecordSound(r)
  BY <1>1 DEF RecordSound, Broken, Ending
<1>5. ContentSound(r) /\ NumberSound(r, n, current) /\ PathSound(l, r, versions)
  BY <1>1 DEF ContentSound, NumberSound, PathSound, Pending, HasListed, HasScanned, HasRescanned, HoldsTable
<1> QED
  BY <1>2, <1>3, <1>4, <1>5 DEF LoopSound, r

(* The same of Fail, which records the criterion it blames.                 *)
LEMMA FailIsSound ==
  ASSUME NEW l \in Loops, NEW q \in LoopState, NEW criteria \in Seq(Verdict), NEW name \in Criterion,
         NEW n, NEW current, NEW versions
  PROVE  LoopSound(l, Over(q, Record(criteria, << name >>, "failed")), n, current, versions)
<1> DEFINE more == Record(criteria, << name >>, "failed")
<1>1. << name >> \in Seq(Criterion) /\ Len(<< name >>) = 1 /\ Len(criteria) \in Nat
  BY OneName
<1>2. /\ more \in Seq(Verdict) /\ Len(more) = Len(criteria) + 1
      /\ \A i \in 1..1 : more[Len(criteria) + i] = [name |-> << name >>[i], verdict |-> "failed"]
  BY <1>1, RecordAppends
<1> HIDE DEF more
<1>3. more[Len(criteria) + 1] = [name |-> << name >>[1], verdict |-> "failed"]
  BY <1>2
<1>4. more # << >> /\ more[Len(more)].verdict = "failed"
  BY <1>1, <1>2, <1>3
<1> QED
  BY <1>2, <1>4, FailedIsSound DEF more

(* Whatever request fails, there is a criterion to blame.                   *)
LEMMA BlamedType ==
  ASSUME NEW l \in Loops, loop[l] \in LoopState, Active(l)
  PROVE  Blamed(l) \in Criterion
<1>1. /\ loop[l].phase \in {"first", "rebuild"}
      /\ loop[l].pc \in {"put", "put_again", "list", "ensure", "commit", "reload", "confirm",
                        "scan", "query", "count", "drop", "check_dropped"}
  BY DEF LoopState, Pc, Phase, Active
<1>2. Blamed(l) \in {AllCriteria[i] : i \in 1..13}
                    \cup {"catalog_connect_and_create", "iceberg_go_scan"}
  BY <1>1 DEF Blamed, AllCriteria
<1> QED
  BY <1>2, CriterionNames

-----------------------------------------------------------------------------
(* The catalog: what the steps do to its versions.                          *)

Keeps == Current' = Current /\ created' = created /\ Versions' \subseteq Versions

Creates ==
    /\ Current = Null
    /\ Current' = [number |-> created + 1, files |-> << >>]
    /\ created' = created + 1
    /\ Versions' \subseteq Versions \cup {Current'}

Registers(l) ==
    /\ Current \in Table
    /\ OwnPath(l) \notin Paths(Current.files)
    /\ Current' = [Current EXCEPT !.files = Append(@, BuildFile(l))]
    /\ created' = created
    /\ Versions' \subseteq Versions \cup {Current'}

Drops == Current' = Null /\ created' = created /\ Versions' \subseteq Versions

LEMMA CurrentType ==
  ASSUME CatalogType
  PROVE  /\ Current \in Table \cup {Null}
         /\ Current # Null => Current \in Table /\ Current \in Versions
         /\ Versions \subseteq Table
<1>1. Len(catalog) \in DOMAIN catalog /\ \A v \in DOMAIN catalog : catalog[v] \in Table \cup {Null}
  BY DEF CatalogType
<1> QED
  BY <1>1 DEF Current, Versions

(* Publishing a version makes it the current one; the others may be gone.   *)
LEMMA PublishEffect ==
  ASSUME CatalogType, NEW t \in Table \cup {Null}, Publish(t)
  PROVE  CatalogType' /\ Current' = t /\ Versions' \subseteq Versions \cup {t}
<1>1. CASE catalog' = << t >>
  <2>1. /\ catalog' \in Seq(Table \cup {Null}) /\ Len(catalog') = 1 /\ catalog'[1] = t
        /\ DOMAIN catalog' = 1..1
    BY <1>1
  <2>2. \A v \in DOMAIN catalog' : catalog'[v] = t
    BY <2>1
  <2>3. Current' = t /\ Versions' \subseteq {t}
    BY <2>1, <2>2 DEF Current, Versions
  <2>4. catalog' # << >>
    BY <1>1
  <2> QED
    BY <2>1, <2>3, <2>4 DEF CatalogType
<1>2. CASE catalog' = Append(catalog, t)
  <2>1. /\ catalog' \in Seq(Table \cup {Null}) /\ Len(catalog') = Len(catalog) + 1
        /\ catalog'[Len(catalog')] = t
        /\ DOMAIN catalog' = 1..Len(catalog') /\ DOMAIN catalog = 1..Len(catalog)
        /\ Len(catalog) \in Nat
        /\ \A v \in 1..Len(catalog) : catalog'[v] = catalog[v]
    BY <1>2 DEF CatalogType
  <2>2. \A v \in DOMAIN catalog' : catalog'[v] = t \/ (v \in DOMAIN catalog /\ catalog'[v] = catalog[v])
    BY <2>1
  <2>3. catalog' # << >>
    BY <2>1
  <2> QED
    BY <2>1, <2>2, <2>3 DEF CatalogType, Current, Versions
<1> QED
  BY <1>1, <1>2 DEF Publish

(* R2 SQL takes over a later version: nothing but old versions goes.        *)
LEMMA CatchUpEffect ==
  ASSUME CatalogType, CatchUp
  PROVE  CatalogType' /\ Keeps
<1>1. /\ catalog' = Tail(catalog) /\ created' = created
      /\ Len(catalog) \in Nat /\ Len(catalog) > 1
      /\ catalog \in Seq(Table \cup {Null}) /\ DOMAIN catalog = 1..Len(catalog)
  BY DEF CatchUp, CatalogType
<1>2. /\ catalog' \in Seq(Table \cup {Null}) /\ Len(catalog') = Len(catalog) - 1
      /\ DOMAIN catalog' = 1..Len(catalog')
      /\ \A v \in 1..Len(catalog') : catalog'[v] = catalog[v + 1]
  BY <1>1
<1>3. catalog' # << >> /\ catalog'[Len(catalog')] = catalog[Len(catalog)]
  <2>1. Len(catalog') \in 1..Len(catalog') /\ Len(catalog') + 1 = Len(catalog)
    BY <1>1, <1>2
  <2>2. Len(catalog') # 0
    BY <1>1, <1>2
  <2> QED
    BY <1>2, <2>1, <2>2
<1>4. \A v \in DOMAIN catalog' : v + 1 \in DOMAIN catalog
  BY <1>1, <1>2
<1> QED
  BY <1>1, <1>2, <1>3, <1>4 DEF CatalogType, Keeps, Current, Versions

LEMMA UnsharedEffect ==
  ASSUME CatalogType, UNCHANGED <<catalog, created>>
  PROVE  CatalogType' /\ Keeps
BY DEF CatalogType, Keeps, Current, Versions

LEMMA EnsureEffectIs ==
  ASSUME CatalogType, created \in Nat, EnsureEffect
  PROVE  CatalogType' /\ (Keeps \/ Creates) /\ Current' \in Table
<1>1. CASE Current = Null
  <2> DEFINE t == [number |-> created + 1, files |-> << >>]
  <2>1. Publish(t) /\ created' = created + 1
    BY <1>1 DEF EnsureEffect
  <2>2. t \in Table
    BY DEF Table
  <2>3. CatalogType' /\ Current' = t /\ Versions' \subseteq Versions \cup {t}
    BY <2>1, <2>2, PublishEffect
  <2> QED
    BY <1>1, <2>1, <2>2, <2>3 DEF Creates
<1>2. CASE Current # Null
  <2>1. UNCHANGED <<catalog, created>>
    BY <1>2 DEF EnsureEffect
  <2>2. CatalogType' /\ Keeps
    BY <2>1, UnsharedEffect
  <2> QED
    BY <1>2, <2>2, CurrentType DEF Keeps
<1> QED
  BY <1>1, <1>2

LEMMA DropEffectIs ==
  ASSUME CatalogType, DropEffect
  PROVE  CatalogType' /\ (Keeps \/ Drops) /\ Current' = Null
<1>1. CASE Current = Null
  <2>1. UNCHANGED <<catalog, created>>
    BY <1>1 DEF DropEffect
  <2> QED
    BY <1>1, <2>1, UnsharedEffect DEF Keeps
<1>2. CASE Current # Null
  <2>1. Publish(Null) /\ created' = created
    BY <1>2 DEF DropEffect
  <2>2. CatalogType' /\ Current' = Null /\ Versions' \subseteq Versions \cup {Null}
    BY <2>1, PublishEffect
  <2> QED
    BY <2>1, <2>2 DEF Drops, Versions
<1> QED
  BY <1>1, <1>2

LEMMA RegisterIs ==
  ASSUME CatalogType, NEW l \in Loops, loop[l] \in LoopState, Current # Null,
         OwnPath(l) \notin Paths(Current.files), Register(l)
  PROVE  CatalogType' /\ Registers(l) /\ Current' \in Table
<1> DEFINE t == [Current EXCEPT !.files = Append(@, BuildFile(l))]
<1>1. Publish(t) /\ created' = created
  BY DEF Register
<1>2. Current \in Table
  BY CurrentType
<1>3. BuildFile(l) \in File
  BY DEF BuildFile, File, LoopState
<1>4. t \in Table
  BY <1>2, <1>3 DEF Table
<1>5. CatalogType' /\ Current' = t /\ Versions' \subseteq Versions \cup {t}
  BY <1>1, <1>4, PublishEffect
<1> QED
  BY <1>1, <1>2, <1>4, <1>5 DEF Registers

-----------------------------------------------------------------------------
(* What the loops share stays sound.                                        *)

LEMMA PathOf ==
  ASSUME NEW files, NEW n \in DOMAIN files
  PROVE  [by |-> files[n].by, phase |-> files[n].phase] \in Paths(files)
<1>1. files[n] \in Range(files)
  BY DEF Range
<1> QED
  BY <1>1 DEF Paths

(* One more file is one more path.                                          *)
LEMMA AppendPath ==
  ASSUME NEW files \in Seq(File), NEW f \in File
  PROVE  /\ Append(files, f) \in Seq(File)
         /\ Paths(Append(files, f)) \subseteq Paths(files) \cup {[by |-> f.by, phase |-> f.phase]}
         /\ OnePath(files) /\ [by |-> f.by, phase |-> f.phase] \notin Paths(files)
               => OnePath(Append(files, f))
<1> DEFINE more == Append(files, f)
<1>1. /\ more \in Seq(File) /\ Len(more) = Len(files) + 1 /\ Len(files) \in Nat
      /\ DOMAIN more = 1..Len(more) /\ DOMAIN files = 1..Len(files)
      /\ more[Len(more)] = f
      /\ \A n \in 1..Len(files) : more[n] = files[n]
  OBVIOUS
<1> HIDE DEF more
<1>2. \A n \in DOMAIN more : (n \in DOMAIN files /\ more[n] = files[n]) \/ (n = Len(more) /\ more[n] = f)
  BY <1>1
<1>3. ASSUME NEW g \in Range(more)
      PROVE  g \in Range(files) \cup {f}
  BY <1>2 DEF Range
<1>4. Paths(more) \subseteq Paths(files) \cup {[by |-> f.by, phase |-> f.phase]}
  BY <1>3 DEF Paths
<1>5. ASSUME OnePath(files), [by |-> f.by, phase |-> f.phase] \notin Paths(files),
             NEW m \in DOMAIN more, NEW n \in DOMAIN more,
             more[m].by = more[n].by, more[m].phase = more[n].phase
      PROVE  m = n
  <2>1. \A k \in DOMAIN files : ~ (files[k].by = f.by /\ files[k].phase = f.phase)
    BY <1>5, PathOf
  <2>2. CASE m \in DOMAIN files /\ n \in DOMAIN files
    BY <1>2, <1>1, <1>5, <2>2 DEF OnePath
  <2>3. CASE m \in DOMAIN files /\ n = Len(more)
    BY <1>1, <1>5, <2>1, <2>3
  <2>4. CASE n \in DOMAIN files /\ m = Len(more)
    BY <1>1, <1>5, <2>1, <2>4
  <2> QED
    BY <1>2, <2>2, <2>3, <2>4
<1> QED
  BY <1>1, <1>4, <1>5 DEF OnePath, more

(* The file a loop registers, and the version it makes.                     *)
LEMMA RegisteredVersion ==
  ASSUME NEW l \in Loops, loop[l] \in LoopState, Registers(l)
  PROVE  /\ Current.files \in Seq(File) /\ BuildFile(l) \in File
         /\ Current'.number = Current.number
         /\ Current'.files = Append(Current.files, BuildFile(l))
         /\ OwnPath(l) = [by |-> BuildFile(l).by, phase |-> BuildFile(l).phase]
         /\ Paths(Current'.files) \subseteq Paths(Current.files) \cup {OwnPath(l)}
<1>1. Current \in Table /\ Current' = [Current EXCEPT !.files = Append(@, BuildFile(l))]
  BY DEF Registers
<1>2. Current.files \in Seq(File) /\ Current'.number = Current.number
      /\ Current'.files = Append(Current.files, BuildFile(l))
  BY <1>1 DEF Table
<1>3. BuildFile(l) \in File /\ OwnPath(l) = [by |-> BuildFile(l).by, phase |-> BuildFile(l).phase]
  BY DEF BuildFile, File, LoopState, OwnPath
<1> QED
  BY <1>2, <1>3, AppendPath

(* Numbers are given out in order, and a file is added only where its path  *)
(* is not yet.                                                              *)
LEMMA VersionsKept ==
  ASSUME CatalogType, created \in Nat, \A t \in Versions : VersionSound(t, created),
         \/ Keeps \/ Creates \/ Drops
         \/ \E l \in Loops : loop[l] \in LoopState /\ Registers(l)
  PROVE  created' \in Nat /\ created <= created' /\ \A t \in Versions' : VersionSound(t, created')
<1>0. \A t \in Versions : t.number \in Nat
  BY CurrentType DEF Table
<1>1. CASE Keeps \/ Drops
  BY <1>1 DEF Keeps, Drops
<1>2. CASE Creates
  <2>1. /\ created' = created + 1 /\ Versions' \subseteq Versions \cup {Current'}
        /\ Current'.number = created + 1 /\ Current'.files = << >>
    BY <1>2 DEF Creates
  <2>2. VersionSound(Current', created')
    BY <2>1 DEF VersionSound, OnePath
  <2>3. \A t \in Versions : VersionSound(t, created')
    BY <1>0, <2>1 DEF VersionSound
  <2> QED
    BY <2>1, <2>2, <2>3
<1>3. ASSUME NEW l \in Loops, loop[l] \in LoopState, Registers(l)
      PROVE  created' \in Nat /\ created <= created' /\ \A t \in Versions' : VersionSound(t, created')
  <2>1. /\ created' = created /\ Versions' \subseteq Versions \cup {Current'}
        /\ Current \in Table /\ OwnPath(l) \notin Paths(Current.files)
    BY <1>3 DEF Registers
  <2>2. VersionSound(Current, created)
    BY <2>1, CurrentType, NoTableAssumption
  <2>3. OnePath(Current'.files)
    <3>1. /\ Current.files \in Seq(File) /\ BuildFile(l) \in File
          /\ Current'.files = Append(Current.files, BuildFile(l))
          /\ OwnPath(l) = [by |-> BuildFile(l).by, phase |-> BuildFile(l).phase]
      BY <1>3, RegisteredVersion
    <3>2. OnePath(Append(Current.files, BuildFile(l)))
      BY <2>1, <2>2, <3>1, AppendPath DEF VersionSound
    <3> QED
      BY <3>1, <3>2
  <2>4. VersionSound(Current', created')
    BY <1>3, <2>1, <2>2, <2>3, RegisteredVersion DEF VersionSound
  <2> QED
    BY <2>1, <2>4
<1> QED
  BY <1>1, <1>2, <1>3

(* A table that replaces another has a higher number, whoever creates it.   *)
LEMMA NumberKept ==
  ASSUME CatalogType, created \in Nat, \A t \in Versions : VersionSound(t, created),
         NEW r \in LoopState, NumberSound(r, created, Current),
         \/ Keeps \/ Creates \/ Drops
         \/ \E m \in Loops : loop[m] \in LoopState /\ Registers(m)
  PROVE  NumberSound(r, created', Current')
<1>1. created' \in Nat /\ created <= created'
  BY VersionsKept
<1>2. \A t \in Table : t.number \in Nat
  BY DEF Table
<1>3. Current' # Null => (Current # Null /\ Current'.number = Current.number)
                         \/ Current'.number = created + 1
  <2>1. CASE Keeps \/ Drops
    BY <2>1 DEF Keeps, Drops
  <2>2. CASE Creates
    BY <2>2 DEF Creates
  <2>3. ASSUME NEW m \in Loops, loop[m] \in LoopState, Registers(m)
        PROVE  Current # Null /\ Current'.number = Current.number
    BY <2>3, RegisteredVersion, NoTableAssumption DEF Registers
  <2> QED
    BY <2>1, <2>2, <2>3
<1>4. HoldsTable(r) => r.table \in Table /\ r.table.number <= created'
  BY <1>1, <1>2 DEF NumberSound
<1>5. HasScanned(r) => r.before \in Table /\ r.before.number <= created'
  BY <1>1, <1>2 DEF NumberSound
<1>6. ASSUME r.phase = "rebuild", r.pc # "reported", Current' # Null
      PROVE  r.before.number < Current'.number
  <2>1. r.before \in Table /\ r.before.number <= created
    BY <1>1, <1>6 DEF NumberSound, HasScanned
  <2>2. Current # Null => r.before.number < Current.number
    BY <1>1, <1>6 DEF NumberSound
  <2>3. Current'.number = created + 1 => r.before.number < Current'.number
    BY <1>1, <1>2, <1>3, <1>6, <2>1
  <2> QED
    BY <1>3, <1>6, <2>2, <2>3
<1> QED
  BY <1>1, <1>4, <1>5, <1>6 DEF NumberSound

(* The file of a pending phase only the loop itself registers.              *)
LEMMA PathKept ==
  ASSUME CatalogType, NEW l \in Loops, NEW r, PathSound(l, r, Versions),
         \/ Keeps \/ Creates \/ Drops
         \/ \E m \in Loops \ {l} : loop[m] \in LoopState /\ Registers(m)
  PROVE  PathSound(l, r, Versions')
<1>1. CASE Keeps \/ Drops
  BY <1>1 DEF Keeps, Drops, PathSound
<1>2. CASE Creates
  <2>1. Versions' \subseteq Versions \cup {Current'} /\ Current'.files = << >>
    BY <1>2 DEF Creates
  <2>2. Paths(<< >>) = {}
    BY DEF Paths, Range
  <2> QED
    BY <2>1, <2>2 DEF PathSound
<1>3. ASSUME NEW m \in Loops \ {l}, loop[m] \in LoopState, Registers(m)
      PROVE  PathSound(l, r, Versions')
  <2>1. /\ Versions' \subseteq Versions \cup {Current'} /\ Current \in Table
        /\ Paths(Current'.files) \subseteq Paths(Current.files) \cup {OwnPath(m)}
    BY <1>3, RegisteredVersion DEF Registers
  <2>2. Current \in Versions
    BY <2>1, CurrentType, NoTableAssumption
  <2>3. \A p : [by |-> l, phase |-> p] # OwnPath(m)
    BY DEF OwnPath
  <2> QED
    BY <2>1, <2>2, <2>3 DEF PathSound
<1> QED
  BY <1>1, <1>2, <1>3

(* What a loop counts on, nobody but the loop itself takes away.            *)
LEMMA LoopKept ==
  ASSUME CatalogType, created \in Nat, \A t \in Versions : VersionSound(t, created),
         NEW l \in Loops, NEW r, LoopSound(l, r, created, Current, Versions),
         \/ Keeps \/ Creates \/ Drops
         \/ \E m \in Loops \ {l} : loop[m] \in LoopState /\ Registers(m)
  PROVE  LoopSound(l, r, created', Current', Versions')
<1>1. NumberSound(r, created', Current')
  BY NumberKept DEF LoopSound
<1>2. PathSound(l, r, Versions')
  BY PathKept DEF LoopSound
<1> QED
  BY <1>1, <1>2 DEF LoopSound

-----------------------------------------------------------------------------
(* The steps of one loop.                                                   *)

(* A step that only goes on in the report, to a point that claims no more   *)
(* than the last one, leaves the loop sound.                                *)
LEMMA MoveIsSound ==
  ASSUME NEW l \in Loops, NEW r, NEW n, NEW current, NEW versions,
         LoopSound(l, r, n, current, versions),
         NEW s, s \in LoopState, s.next \in 1..Len(Fixture[l]),
         s.phase = r.phase, s.first = r.first, s.build = r.build,
         s.table = r.table, s.before = r.before, ~ s.failure,
         RecordSound(s),
         HasListed(s) => HasListed(r), HasScanned(s) => HasScanned(r),
         HasRescanned(s) => HasRescanned(r), HoldsTable(s) => HoldsTable(r),
         r.phase = "rebuild" /\ s.pc # "reported" => r.pc # "reported",
         Pending(s) \subseteq Pending(r)
  PROVE  LoopSound(l, s, n, current, versions)
<1>1. ContentSound(s)
  BY DEF LoopSound, ContentSound
<1>2. NumberSound(s, n, current)
  BY DEF LoopSound, NumberSound
<1>3. PathSound(l, s, versions)
  BY DEF LoopSound, PathSound
<1> QED
  BY <1>1, <1>2, <1>3 DEF LoopSound

(* Where a loop that is under way stands, and what it has on record.        *)
LEMMA UnderWay ==
  ASSUME NEW r, RecordSound(r), r \in LoopState, r.pc \notin {"reported", "killed"}
  PROVE  /\ ~ r.failure /\ Recorded(r.criteria, Reached(r.phase, r.pc))
         /\ r.phase \in {"first", "rebuild"}
         /\ r.pc \in {"idle", "put", "put_again", "reload", "confirm", "drop", "check_dropped"}
               => r.phase = "first"
         /\ r.phase = "first" => ~ r.rebuildRun
         /\ r.criteria \in Seq(Verdict)
BY DEF RecordSound, Broken, LoopState, Phase

\* A loop with k criteria on record writes down the next ones and goes on at pc
Passes(r, k, names, verdict, pc, s) ==
    /\ r \in LoopState /\ ~ r.failure /\ (r.phase = "first" => ~ r.rebuildRun)
    /\ k \in Nat /\ Recorded(r.criteria, k)
    /\ names \in Seq(Criterion) /\ \A i \in 1..Len(names) : names[i] = AllCriteria[k + i]
    /\ verdict \in {"passed", "skipped"}
    /\ pc \in Pc /\ pc # "killed" /\ Reached(r.phase, pc) = k + Len(names)
    /\ r.phase = "first" => pc # "reported"
    /\ r.phase = "rebuild" => pc \in {"list", "ensure", "commit", "scan", "query", "count", "reported"}
    /\ s = [r EXCEPT !.criteria = Record(@, names, verdict), !.pc = pc]

(* Its report then is what the new point claims.                            *)
LEMMA PassIs ==
  ASSUME NEW r, NEW k, NEW names, NEW verdict, NEW pc, NEW s,
         Passes(r, k, names, verdict, pc, s)
  PROVE  /\ s \in LoopState /\ s.pc = pc /\ s.phase = r.phase /\ s.next = r.next
         /\ s.first = r.first /\ s.build = r.build /\ s.table = r.table /\ s.before = r.before
         /\ ~ s.failure
         /\ RecordSound(s)
<1> USE DEF Passes
<1>1. Recorded(Record(r.criteria, names, verdict), Reached(r.phase, pc))
  BY RecordedGrows
<1>2. Record(r.criteria, names, verdict) \in Seq(Verdict)
  BY <1>1 DEF Recorded
<1>3. /\ s \in LoopState /\ s.pc = pc /\ s.phase = r.phase /\ s.next = r.next
      /\ s.first = r.first /\ s.build = r.build /\ s.table = r.table /\ s.before = r.before
      /\ s.criteria = Record(r.criteria, names, verdict)
      /\ s.rebuildRun = r.rebuildRun /\ ~ s.failure
  BY <1>2 DEF LoopState
<1>4. RecordSound(s)
  <2>1. r.phase \in {"first", "rebuild"}
    BY DEF LoopState, Phase
  <2> QED
    BY <1>1, <1>3, <2>1 DEF RecordSound, Broken
<1> QED
  BY <1>3, <1>4

(* Most steps pass one criterion, the k-th.                                 *)
LEMMA OneCriterion ==
  ASSUME NEW k \in 1..13, NEW name, name = AllCriteria[k]
  PROVE  /\ << name >> \in Seq(Criterion) /\ Len(<< name >>) = 1
         /\ \A i \in 1..Len(<< name >>) : << name >>[i] = AllCriteria[(k - 1) + i]
<1>1. name \in Criterion
  BY CriterionNames
<1>2. << name >> \in Seq(Criterion) /\ Len(<< name >>) = 1 /\ << name >>[1] = name
  BY <1>1, OneName
<1>3. \A i \in 1..Len(<< name >>) : << name >>[i] = AllCriteria[(k - 1) + i]
  BY <1>2
<1> QED
  BY <1>2, <1>3

\* The loop goes on in a sound state next to the catalog after the step
GoesOn(l) ==
    \E s : loop' = [loop EXCEPT ![l] = s] /\ LoopSound(l, s, created', Current', Versions')

LEMMA FailGoesOn ==
  ASSUME NEW l \in Loops, NEW n, NEW current, NEW versions,
         LoopSound(l, loop[l], n, current, versions), Active(l), Fail(l, Blamed(l))
  PROVE  GoesOn(l)
<1>1. loop[l] \in LoopState /\ loop[l].criteria \in Seq(Verdict)
  BY DEF LoopSound, LoopState
<1>2. Blamed(l) \in Criterion
  BY <1>1, BlamedType
<1>3. LoopSound(l, Over(loop[l], Record(loop[l].criteria, << Blamed(l) >>, "failed")),
                created', Current', Versions')
  BY <1>1, <1>2, FailIsSound
<1> QED
  BY <1>3 DEF GoesOn, Fail, Become

LEMMA ReachedIs ==
  /\ Reached("first", "idle") = 0 /\ Reached("first", "put") = 0 /\ Reached("first", "put_again") = 0
  /\ Reached("first", "list") = 1 /\ Reached("first", "ensure") = 2 /\ Reached("first", "commit") = 4
  /\ Reached("first", "reload") = 5 /\ Reached("first", "confirm") = 5 /\ Reached("first", "scan") = 6
  /\ Reached("first", "query") = 7 /\ Reached("first", "count") = 7
  /\ Reached("first", "drop") = 8 /\ Reached("first", "check_dropped") = 8
  /\ Reached("rebuild", "list") = 9 /\ Reached("rebuild", "ensure") = 10 /\ Reached("rebuild", "commit") = 10
  /\ Reached("rebuild", "scan") = 11
  /\ Reached("rebuild", "query") = 12 /\ Reached("rebuild", "count") = 12
  /\ Reached("rebuild", "reported") = 13
BY DEF Reached

\* The loop has taken notice of nothing yet, but the catalog has changed
NextCatalog(l, r) == r = loop[l] /\ LoopSound(l, r, created', Current', Versions')

LEMMA StartGoesOn ==
  ASSUME NEW l \in Loops, NEW r, NextCatalog(l, r), Start(l)
  PROVE  GoesOn(l)
<1> DEFINE s == [r EXCEPT !.pc = "put"]
<1>1. /\ r \in LoopState /\ r.pc = "idle" /\ RecordSound(r) /\ LoopSound(l, r, created', Current', Versions')
      /\ r.next \in 1..Len(Fixture[l])
      /\ loop' = [loop EXCEPT ![l] = s]
  BY DEF NextCatalog, LoopSound, Start, At, Become
<1>2. r.phase = "first" /\ ~ r.failure /\ ~ r.rebuildRun /\ Recorded(r.criteria, 0)
  BY <1>1, UnderWay, ReachedIs
<1>3. /\ s \in LoopState /\ s.pc = "put" /\ s.next = r.next /\ s.phase = r.phase /\ s.first = r.first
      /\ s.build = r.build /\ s.table = r.table /\ s.before = r.before
      /\ s.criteria = r.criteria /\ s.rebuildRun = r.rebuildRun /\ ~ s.failure
  BY <1>1, <1>2 DEF LoopState, Pc
<1> HIDE DEF s
<1>4. RecordSound(s)
  BY <1>2, <1>3, ReachedIs DEF RecordSound, Broken
<1>5. LoopSound(l, s, created', Current', Versions')
  BY <1>1, <1>2, <1>3, <1>4, MoveIsSound
     DEF HasListed, HasScanned, HasRescanned, HoldsTable, Pending
<1> QED
  BY <1>1, <1>5 DEF GoesOn, s

LEMMA PutFixtureGoesOn ==
  ASSUME NEW l \in Loops, NEW r, NextCatalog(l, r), PutFixture(l)
  PROVE  GoesOn(l)
<1> DEFINE s == IF r.next = Len(Fixture[l]) THEN [r EXCEPT !.next = 1, !.pc = "put_again"]
                ELSE [r EXCEPT !.next = @ + 1]
<1>1. /\ r \in LoopState /\ r.pc = "put" /\ RecordSound(r) /\ LoopSound(l, r, created', Current', Versions')
      /\ r.next \in 1..Len(Fixture[l])
      /\ loop' = [loop EXCEPT ![l] = s]
  BY DEF NextCatalog, LoopSound, PutFixture, At, Become
<1>2. r.phase = "first" /\ ~ r.failure /\ ~ r.rebuildRun /\ Recorded(r.criteria, 0)
  BY <1>1, UnderWay, ReachedIs
<1>3. Len(Fixture[l]) \in Nat \ {0}
  BY FixtureLength
<1>4. /\ s \in LoopState /\ s.pc \in {"put", "put_again"} /\ s.phase = r.phase /\ s.first = r.first
      /\ s.build = r.build /\ s.table = r.table /\ s.before = r.before
      /\ s.criteria = r.criteria /\ s.rebuildRun = r.rebuildRun /\ ~ s.failure
      /\ s.next \in 1..Len(Fixture[l])
  <2>1. CASE r.next = Len(Fixture[l])
    <3>1. s = [r EXCEPT !.next = 1, !.pc = "put_again"]
      BY <2>1
    <3>2. 1 \in 1..Len(Fixture[l])
      BY <1>3
    <3> HIDE DEF s
    <3> QED
      BY <1>1, <1>2, <3>1, <3>2 DEF LoopState, Pc
  <2>2. CASE r.next # Len(Fixture[l])
    <3>1. s = [r EXCEPT !.next = @ + 1]
      BY <2>2
    <3>2. r.next + 1 \in 1..Len(Fixture[l]) /\ r.next + 1 \in Nat
      BY <1>1, <1>3, <2>2
    <3> HIDE DEF s
    <3> QED
      BY <1>1, <1>2, <3>1, <3>2 DEF LoopState, Pc
  <2> QED
    BY <2>1, <2>2
<1> HIDE DEF s
<1>5. RecordSound(s)
  BY <1>2, <1>4, ReachedIs DEF RecordSound, Broken
<1>6. LoopSound(l, s, created', Current', Versions')
  BY <1>1, <1>2, <1>4, <1>5, MoveIsSound
     DEF HasListed, HasScanned, HasRescanned, HoldsTable, Pending
<1> QED
  BY <1>1, <1>6 DEF GoesOn, s

LEMMA PutAgainGoesOn ==
  ASSUME NEW l \in Loops, NEW r, NextCatalog(l, r), PutAgain(l)
  PROVE  GoesOn(l)
<1>0. PICK s : s = [r EXCEPT !.criteria = Record(@, << "archive_put_envelope_v1" >>, "passed"), !.pc = "list"]
  OBVIOUS
<1>1. /\ r = loop[l] /\ r \in LoopState /\ r.pc = "put_again" /\ RecordSound(r)
      /\ LoopSound(l, r, created', Current', Versions')
      /\ r.next \in 1..Len(Fixture[l])
      /\ loop' = [loop EXCEPT ![l] = s] \/ Fail(l, Blamed(l))
  BY <1>0 DEF NextCatalog, LoopSound, PutAgain, At, Become, Pass
<1>2. r.phase = "first" /\ ~ r.failure /\ ~ r.rebuildRun /\ Recorded(r.criteria, 0)
  BY <1>1, UnderWay, ReachedIs
<1>3. Passes(r, 0, << "archive_put_envelope_v1" >>, "passed", "list", s)
  <2>1. "archive_put_envelope_v1" = AllCriteria[1] /\ "list" \in Pc
    BY DEF AllCriteria, Pc
  <2> QED
    BY <1>0, <1>1, <1>2, <2>1, ReachedIs, OneCriterion DEF Passes
<1>4. LoopSound(l, s, created', Current', Versions')
  BY <1>1, <1>2, <1>3, PassIs, MoveIsSound
     DEF HasListed, HasScanned, HasRescanned, HoldsTable, Pending
<1> QED
  BY <1>1, <1>4, FailGoesOn DEF GoesOn, Active

(* The rows a loop builds are the best known of the evidence it listed.     *)
LEMMA BuildIsBest ==
  ASSUME NEW keys \in SUBSET Objects
  PROVE  /\ Projected(keys) = CurrentState(keys)
         /\ Build(keys) \in [manifest: SUBSET Objects, rows: SUBSET Row]
<1> DEFINE offered == UNION {ToCanonical(Evidence[k]) : k \in keys}
<1>1. IsFiniteSet(keys) /\ keys \in SUBSET Nat
  BY SpikeAssumption, FS_Subset
<1>2. /\ \A k \in keys : Evidence[k] \in Envelope /\ IsFiniteSet(Evidence[k].page)
      /\ \A j, k \in keys : Evidence[j].observation = Evidence[k].observation => Evidence[j] = Evidence[k]
  BY SpikeAssumption
<1>3. Projected(keys) = Project([n \in 1..Cardinality(keys) |-> Evidence[Nth(keys, n)]])
  BY DEF Projected, Nth
<1>4. IsBest(Projected(keys), offered)
  BY <1>1, <1>2, <1>3, ListingIsBest
<1>5. offered \in SUBSET Row
  BY <1>2, CanonicalRows
<1>6. Projected(keys) \subseteq Row
  BY <1>4, <1>5 DEF IsBest
<1>7. Projected(keys) = BestKnown(offered)
  <2> HIDE DEF offered
  <2> QED
    BY <1>4, <1>5, BestIsBestKnown
<1> QED
  BY <1>6, <1>7 DEF Build, CurrentState

LEMMA MaterializeGoesOn ==
  ASSUME NEW l \in Loops, NEW r, NextCatalog(l, r), Materialize(l), archive \in SUBSET Objects
  PROVE  GoesOn(l)
<1> PICK keys : keys = archive
  OBVIOUS
<1>1. /\ r = loop[l] /\ r \in LoopState /\ r.pc = "list" /\ RecordSound(r)
      /\ LoopSound(l, r, created', Current', Versions')
      /\ r.next \in 1..Len(Fixture[l]) /\ keys \in SUBSET Objects
  BY DEF NextCatalog, LoopSound, Materialize, At
<1>2. /\ ~ r.failure /\ (r.phase = "first" => ~ r.rebuildRun)
      /\ r.criteria \in Seq(Verdict) /\ Recorded(r.criteria, Reached(r.phase, r.pc))
  BY <1>1, UnderWay
<1>3. Build(keys) \in [manifest: SUBSET Objects, rows: SUBSET Row]
  BY <1>1, BuildIsBest
<1>4. CASE Fail(l, Blamed(l))
  BY <1>1, <1>4, FailGoesOn DEF Active
<1>5. CASE r.phase = "first" /\ Pass(l, [[r EXCEPT !.build = Build(keys)] EXCEPT !.first = keys],
                                      << "materialize_parquet_from_archive" >>, "ensure")
  <2>1. PICK q : q = [[r EXCEPT !.build = Build(keys)] EXCEPT !.first = keys]
    OBVIOUS
  <2>2. PICK s : s = [q EXCEPT !.criteria = Record(@, << "materialize_parquet_from_archive" >>, "passed"),
                               !.pc = "ensure"]
    OBVIOUS
  <2>3. /\ q \in LoopState /\ q.phase = "first" /\ ~ q.rebuildRun /\ ~ q.failure /\ q.next = r.next
        /\ q.criteria = r.criteria /\ q.first = keys /\ q.build = Build(keys)
    BY <1>1, <1>2, <1>3, <1>5, <2>1 DEF LoopState
  <2>4. Passes(q, 1, << "materialize_parquet_from_archive" >>, "passed", "ensure", s)
    <3>1. "materialize_parquet_from_archive" = AllCriteria[2] /\ "ensure" \in Pc
      BY DEF AllCriteria, Pc
    <3>2. Recorded(q.criteria, 1)
      BY <1>1, <1>2, <1>5, <2>3, ReachedIs
    <3> QED
      BY <2>2, <2>3, <3>1, <3>2, ReachedIs, OneCriterion DEF Passes
  <2>5. /\ s \in LoopState /\ s.pc = "ensure" /\ s.phase = "first" /\ s.next = r.next
        /\ s.first = keys /\ s.build = Build(keys) /\ RecordSound(s)
    BY <2>3, <2>4, PassIs
  <2>6. ContentSound(s) /\ NumberSound(s, created', Current')
    BY <2>5 DEF ContentSound, NumberSound, HasListed, HasScanned, HasRescanned, HoldsTable
  <2>7. PathSound(l, s, Versions')
    <3>1. PathSound(l, r, Versions') /\ Pending(s) = Pending(r)
      BY <1>1, <1>5, <2>5 DEF LoopSound, Pending
    <3> QED
      BY <3>1 DEF PathSound
  <2>8. LoopSound(l, s, created', Current', Versions')
    BY <1>1, <2>5, <2>6, <2>7 DEF LoopSound
  <2>9. loop' = [loop EXCEPT ![l] = s]
    BY <1>5, <2>1, <2>2 DEF Pass, Become
  <2> QED
    BY <2>8, <2>9 DEF GoesOn
<1>6. CASE /\ r.phase = "rebuild" /\ keys = r.first
           /\ Pass(l, [r EXCEPT !.build = Build(keys)], << "rebuild_materialize" >>, "ensure")
  <2>1. PICK q : q = [r EXCEPT !.build = Build(keys)]
    OBVIOUS
  <2>2. PICK s : s = [q EXCEPT !.criteria = Record(@, << "rebuild_materialize" >>, "passed"),
                               !.pc = "ensure"]
    OBVIOUS
  <2>3. r.build = Build(keys)
    BY <1>1, <1>6 DEF LoopSound, ContentSound, HasListed
  <2>4. /\ q \in LoopState /\ q.phase = "rebuild" /\ ~ q.failure /\ q.next = r.next
        /\ q.criteria = r.criteria /\ q.first = r.first /\ q.build = r.build
        /\ q.table = r.table /\ q.before = r.before
    BY <1>1, <1>2, <1>3, <1>6, <2>1, <2>3 DEF LoopState
  <2>5. Passes(q, 9, << "rebuild_materialize" >>, "passed", "ensure", s)
    <3>1. "rebuild_materialize" = AllCriteria[10] /\ "ensure" \in Pc
      BY DEF AllCriteria, Pc
    <3>2. Recorded(q.criteria, 9)
      BY <1>1, <1>2, <1>6, <2>4, ReachedIs
    <3> QED
      BY <2>2, <2>4, <3>1, <3>2, ReachedIs, OneCriterion DEF Passes
  <2>6. LoopSound(l, s, created', Current', Versions')
    BY <1>1, <1>6, <2>4, <2>5, PassIs, MoveIsSound
       DEF HasListed, HasScanned, HasRescanned, HoldsTable, Pending
  <2>7. loop' = [loop EXCEPT ![l] = s]
    BY <1>6, <2>1, <2>2 DEF Pass, Become
  <2> QED
    BY <2>6, <2>7 DEF GoesOn
<1>7. CASE Become(l, Over(r, Record(Record(r.criteria, << "rebuild_materialize" >>, "passed"),
                                    << "rebuild_without_discord" >>, "failed")))
  <2>1. /\ "rebuild_materialize" = AllCriteria[10] /\ "rebuild_without_discord" = AllCriteria[11]
        /\ AllCriteria[10] \in Criterion /\ AllCriteria[11] \in Criterion
    BY CriterionNames DEF AllCriteria
  <2>2. << "rebuild_materialize" >> \in Seq(Criterion)
    BY <2>1, OneName
  <2>3. Record(r.criteria, << "rebuild_materialize" >>, "passed") \in Seq(Verdict)
    BY <1>2, <2>2, RecordAppends
  <2>4. "rebuild_without_discord" \in Criterion
    BY <2>1
  <2> QED
    BY <1>1, <1>7, <2>3, <2>4, FailIsSound DEF GoesOn, Become
<1> QED
  BY <1>1, <1>4, <1>5, <1>6, <1>7 DEF Materialize

(* The table a loop holds is one that the catalog shows.                    *)
LEMMA EnsureTableGoesOn ==
  ASSUME NEW l \in Loops, NEW r, NextCatalog(l, r), EnsureTable(l),
         Current' \in Table, Current'.number <= created'
  PROVE  GoesOn(l)
<1>1. /\ r = loop[l] /\ r \in LoopState /\ r.pc = "ensure" /\ RecordSound(r)
      /\ LoopSound(l, r, created', Current', Versions')
      /\ r.next \in 1..Len(Fixture[l])
      /\ NumberSound(r, created', Current')
  BY DEF NextCatalog, LoopSound, EnsureTable, At
<1>2. /\ ~ r.failure /\ r.phase \in {"first", "rebuild"} /\ (r.phase = "first" => ~ r.rebuildRun)
      /\ Recorded(r.criteria, Reached(r.phase, r.pc))
  BY <1>1, UnderWay
<1>3. PICK q : q = [r EXCEPT !.table = Current']
  OBVIOUS
<1>4. PICK names : names = IF r.phase = "first"
                           THEN << "rest_catalog_connect", "namespace_and_table_created" >> ELSE << >>
  OBVIOUS
<1>5. PICK s : s = [q EXCEPT !.criteria = Record(@, names, "passed"), !.pc = "commit"]
  OBVIOUS
<1>6. loop' = [loop EXCEPT ![l] = s]
  BY <1>1, <1>3, <1>4, <1>5 DEF EnsureTable, Pass, Become, Current
<1>7. /\ q \in LoopState /\ q.phase = r.phase /\ q.rebuildRun = r.rebuildRun /\ ~ q.failure /\ q.next = r.next
      /\ q.criteria = r.criteria /\ q.first = r.first /\ q.build = r.build
      /\ q.table = Current' /\ q.before = r.before
  BY <1>1, <1>2, <1>3 DEF LoopState
<1>8. Passes(q, Reached(r.phase, "ensure"), names, "passed", "commit", s)
  <2>1. "commit" \in Pc
    BY DEF Pc
  <2>2. CASE r.phase = "first"
    <3>1. /\ "rest_catalog_connect" = AllCriteria[3] /\ "namespace_and_table_created" = AllCriteria[4]
          /\ AllCriteria[3] \in Criterion /\ AllCriteria[4] \in Criterion
      BY CriterionNames DEF AllCriteria
    <3>2. /\ names \in Seq(Criterion) /\ Len(names) = 2
          /\ names[1] = AllCriteria[3] /\ names[2] = AllCriteria[4]
      BY <1>4, <2>2, <3>1
    <3>3. \A i \in 1..Len(names) : names[i] = AllCriteria[2 + i]
      <4>1. \A i \in 1..2 : i = 1 \/ i = 2
        OBVIOUS
      <4> QED
        BY <3>2, <4>1
    <3> QED
      BY <1>1, <1>2, <1>5, <1>7, <2>1, <2>2, <3>2, <3>3, ReachedIs DEF Passes
  <2>3. CASE r.phase = "rebuild"
    <3>1. names \in Seq(Criterion) /\ Len(names) = 0
      BY <1>4, <2>3
    <3> QED
      BY <1>1, <1>2, <1>5, <1>7, <2>1, <2>3, <3>1, ReachedIs DEF Passes
  <2> QED
    BY <1>2, <2>2, <2>3
<1>9. /\ s \in LoopState /\ s.pc = "commit" /\ s.phase = r.phase /\ s.next = r.next
      /\ s.first = r.first /\ s.build = r.build /\ s.table = Current' /\ s.before = r.before
      /\ RecordSound(s)
  BY <1>7, <1>8, PassIs
<1>10. ContentSound(s)
  BY <1>1, <1>9 DEF LoopSound, ContentSound, HasListed, HasScanned, HasRescanned
<1>11. NumberSound(s, created', Current')
  BY <1>1, <1>9, NoTableAssumption DEF NumberSound, HasScanned, HasRescanned, HoldsTable
<1>12. PathSound(l, s, Versions')
  <2>1. PathSound(l, r, Versions') /\ Pending(s) = Pending(r)
    BY <1>1, <1>9 DEF LoopSound, Pending
  <2> QED
    BY <2>1 DEF PathSound
<1> QED
  BY <1>1, <1>6, <1>9, <1>10, <1>11, <1>12 DEF LoopSound, GoesOn

(* The commit puts the loop's file into the table the loop holds, which is  *)
(* the only one with it, and leaves it with the number it had.              *)
LEMMA CommitGoesOn ==
  ASSUME CatalogType, created \in Nat, \A t \in Versions : VersionSound(t, created),
         NEW l \in Loops, NEW r, r = loop[l], LoopSound(l, r, created, Current, Versions),
         Commit(l), Registers(l) \/ Fail(l, Blamed(l))
  PROVE  GoesOn(l)
<1>1. /\ r \in LoopState /\ r.pc = "commit" /\ RecordSound(r)
      /\ r.next \in 1..Len(Fixture[l])
      /\ NumberSound(r, created, Current)
  BY DEF LoopSound, Commit, At
<1>2. CASE Fail(l, Blamed(l))
  BY <1>1, <1>2, FailGoesOn DEF Active
<1>3. CASE Registers(l) /\ ~ Fail(l, Blamed(l))
  <2>1. /\ ~ r.failure /\ r.phase \in {"first", "rebuild"} /\ (r.phase = "first" => ~ r.rebuildRun)
        /\ Recorded(r.criteria, Reached(r.phase, r.pc))
    BY <1>1, UnderWay
  <2>2. /\ Current' \in Table /\ Current \in Table /\ Current'.number = Current.number
        /\ created' = created /\ Current.number <= created
    <3>1. Current \in Table /\ created' = created /\ Current'.number = Current.number
      BY <1>1, <1>3, RegisteredVersion DEF Registers
    <3>2. Current \in Versions
      BY <3>1, CurrentType, NoTableAssumption
    <3>3. Current' \in Table
      BY <1>1, <1>3, <3>1, RegisteredVersion, AppendPath DEF Registers, Table
    <3> QED
      BY <3>1, <3>2, <3>3 DEF VersionSound
  <2>3. PICK q : q = [r EXCEPT !.table = Current']
    OBVIOUS
  <2>4. /\ q \in LoopState /\ q.phase = r.phase /\ q.rebuildRun = r.rebuildRun /\ ~ q.failure /\ q.next = r.next
        /\ q.criteria = r.criteria /\ q.first = r.first /\ q.build = r.build
        /\ q.table = Current' /\ q.before = r.before
    BY <1>1, <2>1, <2>2, <2>3 DEF LoopState
  <2>5. PICK name, pc : /\ name = IF r.phase = "first"
                                  THEN "parquet_committed_to_iceberg" ELSE "rebuild_without_discord"
                        /\ pc = IF r.phase = "first" THEN "reload" ELSE "scan"
    OBVIOUS
  <2>6. PICK s : s = [q EXCEPT !.criteria = Record(@, << name >>, "passed"), !.pc = pc]
    OBVIOUS
  <2>7. loop' = [loop EXCEPT ![l] = s]
    BY <1>3, <2>3, <2>5, <2>6 DEF Commit, Pass, Become, Current
  <2>8. Passes(q, Reached(r.phase, "commit"), << name >>, "passed", pc, s)
    <3>1. "reload" \in Pc /\ "scan" \in Pc
      BY DEF Pc
    <3>2. "parquet_committed_to_iceberg" = AllCriteria[5] /\ "rebuild_without_discord" = AllCriteria[11]
      BY DEF AllCriteria
    <3>3. CASE r.phase = "first"
      <4>1. name = AllCriteria[5] /\ pc = "reload"
        BY <2>5, <3>2, <3>3
      <4> QED
        BY <1>1, <2>1, <2>4, <2>6, <3>1, <3>3, <4>1, ReachedIs, OneCriterion DEF Passes
    <3>4. CASE r.phase = "rebuild"
      <4>1. name = AllCriteria[11] /\ pc = "scan"
        BY <2>5, <3>2, <3>4
      <4> QED
        BY <1>1, <2>1, <2>4, <2>6, <3>1, <3>4, <4>1, ReachedIs, OneCriterion DEF Passes
    <3> QED
      BY <2>1, <3>3, <3>4
  <2>9. /\ s \in LoopState /\ s.pc = pc /\ s.phase = r.phase /\ s.next = r.next
        /\ s.first = r.first /\ s.build = r.build /\ s.table = Current' /\ s.before = r.before
        /\ RecordSound(s)
    BY <2>4, <2>8, PassIs
  <2>10. ContentSound(s)
    BY <1>1, <2>1, <2>5, <2>9 DEF LoopSound, ContentSound, HasListed, HasScanned, HasRescanned
  <2>11. NumberSound(s, created', Current')
    BY <1>1, <2>1, <2>2, <2>5, <2>9, NoTableAssumption
       DEF NumberSound, HasScanned, HasRescanned, HoldsTable
  <2>12. PathSound(l, s, Versions')
    <3>1. PathSound(l, r, Versions)
      BY DEF LoopSound
    <3>2. CASE r.phase = "rebuild"
      <4>1. Pending(s) = {}
        BY <2>5, <2>9, <3>2 DEF Pending
      <4> QED
        BY <4>1 DEF PathSound
    <3>3. CASE r.phase = "first"
      <4>1. Pending(s) = {"rebuild"} /\ Pending(s) \subseteq Pending(r)
        BY <1>1, <2>5, <2>9, <3>3 DEF Pending, Phase
      <4>2. /\ Versions' \subseteq Versions \cup {Current'} /\ Current \in Versions
            /\ Paths(Current'.files) \subseteq Paths(Current.files) \cup {OwnPath(l)}
        BY <1>1, <1>3, RegisteredVersion, CurrentType, NoTableAssumption DEF Registers
      <4>3. OwnPath(l) # [by |-> l, phase |-> "rebuild"]
        BY <3>3 DEF OwnPath
      <4> QED
        BY <3>1, <4>1, <4>2, <4>3 DEF PathSound
    <3> QED
      BY <2>1, <3>2, <3>3
  <2> QED
    BY <1>1, <2>7, <2>9, <2>10, <2>11, <2>12 DEF LoopSound, GoesOn
<1> QED
  BY <1>2, <1>3

LEMMA RetryCommitGoesOn ==
  ASSUME NEW l \in Loops, NEW r, NextCatalog(l, r), RetryCommit(l)
  PROVE  GoesOn(l)
<1>0. PICK s : s = [r EXCEPT !.criteria = Record(@, << >>, "passed"), !.pc = "confirm"]
  OBVIOUS
<1>1. /\ r = loop[l] /\ r \in LoopState /\ r.pc = "reload" /\ RecordSound(r)
      /\ LoopSound(l, r, created', Current', Versions')
      /\ r.next \in 1..Len(Fixture[l])
      /\ loop' = [loop EXCEPT ![l] = s] \/ Fail(l, Blamed(l))
  BY <1>0 DEF NextCatalog, LoopSound, RetryCommit, At, Become, Pass
<1>2. r.phase = "first" /\ ~ r.failure /\ ~ r.rebuildRun /\ Recorded(r.criteria, 5)
  BY <1>1, UnderWay, ReachedIs
<1>3. Passes(r, 5, << >>, "passed", "confirm", s)
  <2>1. "confirm" \in Pc /\ << >> \in Seq(Criterion) /\ Len(<< >>) = 0
    BY DEF Pc
  <2> QED
    BY <1>0, <1>1, <1>2, <2>1, ReachedIs DEF Passes
<1>4. LoopSound(l, s, created', Current', Versions')
  BY <1>1, <1>2, <1>3, PassIs, MoveIsSound
     DEF HasListed, HasScanned, HasRescanned, HoldsTable, Pending
<1> QED
  BY <1>1, <1>4, FailGoesOn DEF GoesOn, Active

LEMMA ConfirmRetryGoesOn ==
  ASSUME NEW l \in Loops, NEW r, NextCatalog(l, r), ConfirmRetry(l)
  PROVE  GoesOn(l)
<1>0. PICK s : s = [r EXCEPT !.criteria = Record(@, << "commit_retry_no_duplicate_file" >>, "passed"), !.pc = "scan"]
  OBVIOUS
<1>1. /\ r = loop[l] /\ r \in LoopState /\ r.pc = "confirm" /\ RecordSound(r)
      /\ LoopSound(l, r, created', Current', Versions')
      /\ r.next \in 1..Len(Fixture[l])
      /\ loop' = [loop EXCEPT ![l] = s] \/ Fail(l, Blamed(l))
  BY <1>0 DEF NextCatalog, LoopSound, ConfirmRetry, At, Become, Pass
<1>2. r.phase = "first" /\ ~ r.failure /\ ~ r.rebuildRun /\ Recorded(r.criteria, 5)
  BY <1>1, UnderWay, ReachedIs
<1>3. Passes(r, 5, << "commit_retry_no_duplicate_file" >>, "passed", "scan", s)
  <2>1. "commit_retry_no_duplicate_file" = AllCriteria[6] /\ "scan" \in Pc
    BY DEF AllCriteria, Pc
  <2> QED
    BY <1>0, <1>1, <1>2, <2>1, ReachedIs, OneCriterion DEF Passes
<1>4. LoopSound(l, s, created', Current', Versions')
  BY <1>1, <1>2, <1>3, PassIs, MoveIsSound
     DEF HasListed, HasScanned, HasRescanned, HoldsTable, Pending
<1> QED
  BY <1>1, <1>4, FailGoesOn DEF GoesOn, Active

LEMMA NoDifference ==
  ASSUME NEW a, NEW b, Diff(a, b) = {}
  PROVE  Lines(a) = Lines(b)
<1>1. Lines(a) \ Lines(b) = {} /\ Lines(b) \ Lines(a) = {}
  BY Zenon DEF Diff
<1> QED
  BY <1>1

(* The first scan is compared with what was built, the second with the      *)
(* first.                                                                   *)
LEMMA ScanGoesOn ==
  ASSUME NEW l \in Loops, NEW r, NextCatalog(l, r), Scan(l)
  PROVE  GoesOn(l)
<1>1. /\ r = loop[l] /\ r \in LoopState /\ r.pc = "scan" /\ RecordSound(r)
      /\ LoopSound(l, r, created', Current', Versions')
      /\ r.next \in 1..Len(Fixture[l])
      /\ r.table \in Table /\ r.table.number <= created'
  BY DEF NextCatalog, LoopSound, Scan, At, NumberSound, HoldsTable
<1>2. /\ ~ r.failure /\ r.phase \in {"first", "rebuild"} /\ (r.phase = "first" => ~ r.rebuildRun)
      /\ Recorded(r.criteria, Reached(r.phase, r.pc))
  BY <1>1, UnderWay
<1>3. CASE Fail(l, Blamed(l))
  BY <1>1, <1>3, FailGoesOn DEF Active
<1>4. CASE /\ r.phase = "first" /\ Diff(SetToBag(r.build.rows), ScanRows(r.table.files)) = {}
           /\ Pass(l, [r EXCEPT !.before = r.table], << "iceberg_go_scan_matches_projection" >>, "query")
  <2>1. PICK q : q = [r EXCEPT !.before = r.table]
    OBVIOUS
  <2>2. PICK s : s = [q EXCEPT !.criteria = Record(@, << "iceberg_go_scan_matches_projection" >>, "passed"),
                               !.pc = "query"]
    OBVIOUS
  <2>3. /\ q \in LoopState /\ q.phase = "first" /\ ~ q.rebuildRun /\ ~ q.failure /\ q.next = r.next
        /\ q.criteria = r.criteria /\ q.first = r.first /\ q.build = r.build
        /\ q.table = r.table /\ q.before = r.table
    BY <1>1, <1>2, <1>4, <2>1 DEF LoopState
  <2>4. Passes(q, 6, << "iceberg_go_scan_matches_projection" >>, "passed", "query", s)
    <3>1. "iceberg_go_scan_matches_projection" = AllCriteria[7] /\ "query" \in Pc
      BY DEF AllCriteria, Pc
    <3>2. Recorded(q.criteria, 6)
      BY <1>1, <1>2, <1>4, <2>3, ReachedIs
    <3> QED
      BY <2>2, <2>3, <3>1, <3>2, ReachedIs, OneCriterion DEF Passes
  <2>5. /\ s \in LoopState /\ s.pc = "query" /\ s.phase = "first" /\ s.next = r.next
        /\ s.first = r.first /\ s.build = r.build /\ s.before = r.table /\ RecordSound(s)
    BY <2>3, <2>4, PassIs
  <2>6. ContentSound(s)
    <3>1. Lines(ScanRows(s.before.files)) = Lines(SetToBag(s.build.rows))
      BY <1>4, <2>5, NoDifference
    <3>2. s.build = Build(s.first)
      BY <1>1, <2>5 DEF LoopSound, ContentSound, HasListed
    <3> QED
      BY <2>5, <3>1, <3>2 DEF ContentSound, HasRescanned
  <2>7. NumberSound(s, created', Current')
    BY <1>1, <2>5 DEF NumberSound, HasScanned, HasRescanned, HoldsTable
  <2>8. PathSound(l, s, Versions')
    <3>1. PathSound(l, r, Versions') /\ Pending(s) = Pending(r)
      BY <1>1, <1>4, <2>5 DEF LoopSound, Pending
    <3> QED
      BY <3>1 DEF PathSound
  <2>9. loop' = [loop EXCEPT ![l] = s]
    BY <1>4, <2>1, <2>2 DEF Pass, Become
  <2> QED
    BY <1>1, <2>5, <2>6, <2>7, <2>8, <2>9 DEF LoopSound, GoesOn
<1>5. CASE /\ r.phase = "rebuild" /\ Diff(ScanRows(r.before.files), ScanRows(r.table.files)) = {}
           /\ Pass(l, r, << "rebuild_semantic_equivalence" >>, "query")
  <2>2. PICK s : s = [r EXCEPT !.criteria = Record(@, << "rebuild_semantic_equivalence" >>, "passed"),
                               !.pc = "query"]
    OBVIOUS
  <2>4. Passes(r, 11, << "rebuild_semantic_equivalence" >>, "passed", "query", s)
    <3>1. "rebuild_semantic_equivalence" = AllCriteria[12] /\ "query" \in Pc
      BY DEF AllCriteria, Pc
    <3>2. Recorded(r.criteria, 11)
      BY <1>1, <1>2, <1>5, ReachedIs
    <3> QED
      BY <1>1, <1>2, <1>5, <2>2, <3>1, <3>2, ReachedIs, OneCriterion DEF Passes
  <2>5. /\ s \in LoopState /\ s.pc = "query" /\ s.phase = "rebuild" /\ s.next = r.next
        /\ s.first = r.first /\ s.build = r.build /\ s.before = r.before /\ s.table = r.table
        /\ RecordSound(s)
    BY <1>5, <2>4, PassIs
  <2>6. ContentSound(s)
    <3>1. Lines(ScanRows(s.table.files)) = Lines(ScanRows(s.before.files))
      BY <1>5, <2>5, NoDifference
    <3> QED
      BY <1>1, <1>5, <2>5, <3>1 DEF LoopSound, ContentSound, HasListed, HasScanned
  <2>7. NumberSound(s, created', Current')
    BY <1>1, <1>5, <2>5 DEF LoopSound, NumberSound, HasScanned, HasRescanned, HoldsTable
  <2>8. PathSound(l, s, Versions')
    BY <1>1, <2>5 DEF PathSound, Pending
  <2>9. loop' = [loop EXCEPT ![l] = s]
    BY <1>5, <2>2 DEF Pass, Become
  <2> QED
    BY <1>1, <2>5, <2>6, <2>7, <2>8, <2>9 DEF LoopSound, GoesOn
<1> QED
  BY <1>1, <1>3, <1>4, <1>5 DEF Scan

\* What a query or the count of it lets the loop write down
QueryName(phase) == IF phase = "first" THEN "r2_sql_query" ELSE "r2_sql_query_after_rebuild"

(* SkipQuery and QueryCount go on alike, with another verdict.              *)
LEMMA QueriedGoesOn ==
  ASSUME NEW l \in Loops, NEW r, NextCatalog(l, r), r.pc \in {"query", "count"},
         NEW verdict \in {"passed", "skipped"},
         loop' = [loop EXCEPT ![l] = [r EXCEPT !.criteria = Record(@, << QueryName(r.phase) >>, verdict),
                                               !.pc = AfterQuery(l)]]
  PROVE  GoesOn(l)
<1>0. PICK name, pc : name = QueryName(r.phase) /\ pc = AfterQuery(l)
  OBVIOUS
<1>1. PICK s : s = [r EXCEPT !.criteria = Record(@, << name >>, verdict), !.pc = pc]
  OBVIOUS
<1>2. /\ r = loop[l] /\ r \in LoopState /\ RecordSound(r)
      /\ LoopSound(l, r, created', Current', Versions')
      /\ r.next \in 1..Len(Fixture[l])
      /\ loop' = [loop EXCEPT ![l] = s]
  BY <1>0, <1>1 DEF NextCatalog, LoopSound
<1>3. /\ ~ r.failure /\ r.phase \in {"first", "rebuild"} /\ (r.phase = "first" => ~ r.rebuildRun)
      /\ Recorded(r.criteria, Reached(r.phase, r.pc))
  BY <1>2, UnderWay
<1>4. "r2_sql_query" = AllCriteria[8] /\ "r2_sql_query_after_rebuild" = AllCriteria[13]
      /\ "drop" \in Pc /\ "reported" \in Pc
  BY DEF AllCriteria, Pc
<1>5. CASE r.phase = "first"
  <2>1. name = AllCriteria[8] /\ pc = "drop"
    BY <1>0, <1>2, <1>4, <1>5 DEF QueryName, AfterQuery
  <2>2. Recorded(r.criteria, 7)
    BY <1>3, <1>5, ReachedIs
  <2>3. Passes(r, 7, << name >>, verdict, pc, s)
    BY <1>1, <1>2, <1>3, <1>4, <1>5, <2>1, <2>2, ReachedIs, OneCriterion DEF Passes
  <2>4. LoopSound(l, s, created', Current', Versions')
    BY <1>2, <1>5, <2>1, <2>3, PassIs, MoveIsSound
       DEF HasListed, HasScanned, HasRescanned, HoldsTable, Pending
  <2> QED
    BY <1>2, <2>4 DEF GoesOn
<1>6. CASE r.phase = "rebuild"
  <2>1. name = AllCriteria[13] /\ pc = "reported" /\ Reached("rebuild", "reported") = 13
    BY <1>0, <1>2, <1>4, <1>6 DEF QueryName, AfterQuery, Reached
  <2>2. Recorded(r.criteria, 12)
    BY <1>3, <1>6, ReachedIs
  <2>3. Passes(r, 12, << name >>, verdict, pc, s)
    BY <1>1, <1>2, <1>3, <1>4, <1>6, <2>1, <2>2, ReachedIs, OneCriterion DEF Passes
  <2>4. LoopSound(l, s, created', Current', Versions')
    BY <1>2, <1>6, <2>1, <2>3, PassIs, MoveIsSound
       DEF HasListed, HasScanned, HasRescanned, HoldsTable, Pending
  <2> QED
    BY <1>2, <2>4 DEF GoesOn
<1> QED
  BY <1>3, <1>5, <1>6

LEMMA BlamedQuery ==
  ASSUME NEW l \in Loops, loop[l].pc \in {"query", "count"}
  PROVE  Blamed(l) = QueryName(loop[l].phase)
<1>1. CASE loop[l].pc = "query"
  BY <1>1 DEF Blamed, QueryName
<1>2. CASE loop[l].pc = "count"
  BY <1>2 DEF Blamed, QueryName
<1> QED
  BY <1>1, <1>2

LEMMA SkipQueryGoesOn ==
  ASSUME NEW l \in Loops, NEW r, NextCatalog(l, r), SkipQuery(l)
  PROVE  GoesOn(l)
<1>1. r = loop[l] /\ r.pc = "query" /\ Blamed(l) = QueryName(r.phase)
  BY BlamedQuery DEF NextCatalog, SkipQuery, At
<1>2. loop' = [loop EXCEPT ![l] = [r EXCEPT !.criteria = Record(@, << QueryName(r.phase) >>, "skipped"),
                                            !.pc = AfterQuery(l)]]
  BY <1>1 DEF SkipQuery, Become
<1> QED
  BY <1>1, <1>2, QueriedGoesOn

LEMMA QueryCountGoesOn ==
  ASSUME NEW l \in Loops, NEW r, NextCatalog(l, r), QueryCount(l)
  PROVE  GoesOn(l)
<1>1. r = loop[l] /\ r.pc = "count" /\ Blamed(l) = QueryName(r.phase)
  BY BlamedQuery DEF NextCatalog, QueryCount, At
<1>2. CASE Pass(l, loop[l], << Blamed(l) >>, AfterQuery(l))
  <2>1. loop' = [loop EXCEPT ![l] = [r EXCEPT !.criteria = Record(@, << QueryName(r.phase) >>, "passed"),
                                              !.pc = AfterQuery(l)]]
    BY <1>1, <1>2 DEF Pass, Become
  <2> QED
    BY <1>1, <2>1, QueriedGoesOn
<1>3. CASE Fail(l, Blamed(l))
  BY <1>1, <1>3, FailGoesOn DEF NextCatalog, Active
<1> QED
  BY <1>2, <1>3 DEF QueryCount

LEMMA QueryAgainGoesOn ==
  ASSUME NEW l \in Loops, NEW r, NextCatalog(l, r), QueryAgain(l)
  PROVE  GoesOn(l)
<1>0. PICK s : s = [r EXCEPT !.polls = @ + 1]
  OBVIOUS
<1>1. /\ r = loop[l] /\ r \in LoopState /\ r.pc = "query" /\ RecordSound(r)
      /\ LoopSound(l, r, created', Current', Versions')
      /\ r.next \in 1..Len(Fixture[l])
      /\ loop' = [loop EXCEPT ![l] = s]
      /\ r.polls + 1 < MaxPolls
  BY <1>0 DEF NextCatalog, LoopSound, QueryAgain, At, Become, PollAgain
<1>2. /\ ~ r.failure /\ r.phase \in {"first", "rebuild"} /\ (r.phase = "first" => ~ r.rebuildRun)
      /\ Recorded(r.criteria, Reached(r.phase, r.pc))
  BY <1>1, UnderWay
<1>3. r.polls + 1 \in 0..(MaxPolls - 1)
  BY <1>1, SpikeAssumption DEF LoopState
<1>4. /\ s \in LoopState /\ s.pc = "query" /\ s.phase = r.phase /\ s.next = r.next
      /\ s.first = r.first /\ s.build = r.build /\ s.table = r.table /\ s.before = r.before
      /\ s.criteria = r.criteria /\ s.rebuildRun = r.rebuildRun /\ ~ s.failure
  BY <1>0, <1>1, <1>2, <1>3 DEF LoopState
<1>5. RecordSound(s)
  BY <1>1, <1>2, <1>4 DEF RecordSound, Broken
<1>6. LoopSound(l, s, created', Current', Versions')
  BY <1>1, <1>4, <1>5, MoveIsSound
     DEF HasListed, HasScanned, HasRescanned, HoldsTable, Pending
<1> QED
  BY <1>1, <1>6 DEF GoesOn

LEMMA QueryRowsGoesOn ==
  ASSUME NEW l \in Loops, NEW r, NextCatalog(l, r), QueryRows(l)
  PROVE  GoesOn(l)
<1>0. PICK s : s = [r EXCEPT !.pc = "count"]
  OBVIOUS
<1>1. /\ r = loop[l] /\ r \in LoopState /\ r.pc = "query" /\ RecordSound(r)
      /\ LoopSound(l, r, created', Current', Versions')
      /\ r.next \in 1..Len(Fixture[l])
      /\ loop' = [loop EXCEPT ![l] = s] \/ Fail(l, Blamed(l))
  BY <1>0 DEF NextCatalog, LoopSound, QueryRows, At, Become
<1>2. /\ ~ r.failure /\ r.phase \in {"first", "rebuild"} /\ (r.phase = "first" => ~ r.rebuildRun)
      /\ Recorded(r.criteria, Reached(r.phase, r.pc))
  BY <1>1, UnderWay
<1>3. /\ s \in LoopState /\ s.pc = "count" /\ s.phase = r.phase /\ s.next = r.next
      /\ s.first = r.first /\ s.build = r.build /\ s.table = r.table /\ s.before = r.before
      /\ s.criteria = r.criteria /\ s.rebuildRun = r.rebuildRun /\ ~ s.failure
  BY <1>0, <1>1, <1>2 DEF LoopState, Pc
<1>4. Recorded(s.criteria, Reached(s.phase, s.pc))
  BY <1>1, <1>2, <1>3, ReachedIs
<1>5. RecordSound(s)
  BY <1>2, <1>3, <1>4 DEF RecordSound, Broken
<1>6. LoopSound(l, s, created', Current', Versions')
  BY <1>1, <1>3, <1>5, MoveIsSound
     DEF HasListed, HasScanned, HasRescanned, HoldsTable, Pending
<1> QED
  BY <1>1, <1>6, FailGoesOn DEF GoesOn, Active

LEMMA DropTableGoesOn ==
  ASSUME NEW l \in Loops, NEW r, NextCatalog(l, r), DropTable(l)
  PROVE  GoesOn(l)
<1>0. PICK s : s = [r EXCEPT !.pc = "check_dropped"]
  OBVIOUS
<1>1. /\ r = loop[l] /\ r \in LoopState /\ r.pc = "drop" /\ RecordSound(r)
      /\ LoopSound(l, r, created', Current', Versions')
      /\ r.next \in 1..Len(Fixture[l])
      /\ loop' = [loop EXCEPT ![l] = s]
  BY <1>0 DEF NextCatalog, LoopSound, DropTable, At, Become
<1>2. r.phase = "first" /\ ~ r.failure /\ ~ r.rebuildRun /\ Recorded(r.criteria, 8)
  BY <1>1, UnderWay, ReachedIs
<1>3. /\ s \in LoopState /\ s.pc = "check_dropped" /\ s.phase = r.phase /\ s.next = r.next
      /\ s.first = r.first /\ s.build = r.build /\ s.table = r.table /\ s.before = r.before
      /\ s.criteria = r.criteria /\ s.rebuildRun = r.rebuildRun /\ ~ s.failure
  BY <1>0, <1>1, <1>2 DEF LoopState, Pc
<1>4. Recorded(s.criteria, Reached(s.phase, s.pc))
  BY <1>2, <1>3, ReachedIs
<1>5. RecordSound(s)
  BY <1>2, <1>3, <1>4 DEF RecordSound, Broken
<1>6. LoopSound(l, s, created', Current', Versions')
  BY <1>1, <1>2, <1>3, <1>5, MoveIsSound
     DEF HasListed, HasScanned, HasRescanned, HoldsTable, Pending
<1> QED
  BY <1>1, <1>6 DEF GoesOn

(* The drop is the last criterion on record before the rebuild.             *)
LEMMA DeletedIsLast ==
  ASSUME NEW criteria, Recorded(criteria, 8)
  PROVE  /\ Record(criteria, << "canonical_table_deleted" >>, "passed") \in Seq(Verdict)
         /\ Len(Record(criteria, << "canonical_table_deleted" >>, "passed")) = 9
         /\ Record(criteria, << "canonical_table_deleted" >>, "passed")[9]
               = [name |-> "canonical_table_deleted", verdict |-> "passed"]
<1> DEFINE deleted == Record(criteria, << "canonical_table_deleted" >>, "passed")
<1>1. "canonical_table_deleted" = AllCriteria[9] /\ AllCriteria[9] \in Criterion
  BY CriterionNames DEF AllCriteria
<1>2. << "canonical_table_deleted" >> \in Seq(Criterion) /\ Len(<< "canonical_table_deleted" >>) = 1
  BY <1>1, OneName
<1>3. criteria \in Seq(Verdict) /\ Len(criteria) = 8
  BY DEF Recorded
<1>4. /\ deleted \in Seq(Verdict) /\ Len(deleted) = Len(criteria) + Len(<< "canonical_table_deleted" >>)
      /\ \A i \in 1..Len(<< "canonical_table_deleted" >>) :
            deleted[Len(criteria) + i] = [name |-> << "canonical_table_deleted" >>[i], verdict |-> "passed"]
  <2>1. "passed" \in {"passed", "skipped", "failed"}
    OBVIOUS
  <2> QED
    BY <1>2, <1>3, <2>1, RecordAppends, Zenon
<1> HIDE DEF deleted
<1>5. deleted[Len(criteria) + 1] = [name |-> << "canonical_table_deleted" >>[1], verdict |-> "passed"]
  BY <1>2, <1>4
<1>6. deleted \in Seq(Verdict) /\ Len(deleted) = 9
      /\ deleted[9] = [name |-> "canonical_table_deleted", verdict |-> "passed"]
  BY <1>3, <1>4, <1>5
<1> QED
  BY <1>6 DEF deleted

(* The rebuild starts without a table, so that whatever table there is      *)
(* later is a later one.                                                    *)
LEMMA CheckDroppedGoesOn ==
  ASSUME NEW l \in Loops, NEW r, NextCatalog(l, r), CheckDropped(l), Current' = Current
  PROVE  GoesOn(l)
<1>1. /\ r = loop[l] /\ r \in LoopState /\ r.pc = "check_dropped" /\ RecordSound(r)
      /\ LoopSound(l, r, created', Current', Versions')
      /\ r.next \in 1..Len(Fixture[l])
  BY DEF NextCatalog, LoopSound, CheckDropped, At
<1>2. r.phase = "first" /\ ~ r.failure /\ ~ r.rebuildRun /\ Recorded(r.criteria, 8)
  BY <1>1, UnderWay, ReachedIs
<1> PICK deleted : deleted = Record(r.criteria, << "canonical_table_deleted" >>, "passed")
  OBVIOUS
<1>0. \/ Fail(l, Blamed(l))
      \/ /\ Current = Null
         /\ Pass(l, [r EXCEPT !.phase = "rebuild", !.rebuildRun = TRUE, !.polls = 0],
                 << "canonical_table_deleted" >>, "list")
      \/ Become(l, Over(r, Record(deleted, << "rebuild_without_discord" >>, "failed")))
      \/ Become(l, Over(r, deleted))
  BY <1>1 DEF CheckDropped, EnterRebuild
<1>5. /\ deleted \in Seq(Verdict) /\ Len(deleted) = 9
      /\ deleted[9] = [name |-> "canonical_table_deleted", verdict |-> "passed"]
  BY <1>2, DeletedIsLast
<1>6. CASE Become(l, Over(r, Record(deleted, << "rebuild_without_discord" >>, "failed")))
  <2>1. "rebuild_without_discord" = AllCriteria[11] /\ AllCriteria[11] \in Criterion
    BY CriterionNames DEF AllCriteria
  <2>2. "rebuild_without_discord" \in Criterion
    BY <2>1
  <2> QED
    BY <1>1, <1>5, <1>6, <2>2, FailIsSound DEF GoesOn, Become
<1>7. CASE Become(l, Over(r, deleted))
  <2>1. deleted # << >> /\ deleted[Len(deleted)] = [name |-> "canonical_table_deleted", verdict |-> "passed"]
    BY <1>5
  <2> QED
    BY <1>1, <1>2, <1>5, <1>7, <2>1, FailedIsSound DEF GoesOn, Become
<1>3. CASE Fail(l, Blamed(l))
  BY <1>1, <1>3, FailGoesOn DEF Active
<1>4. CASE /\ Current = Null
           /\ Pass(l, [r EXCEPT !.phase = "rebuild", !.rebuildRun = TRUE, !.polls = 0],
                   << "canonical_table_deleted" >>, "list")
  <2>1. PICK q : q = [r EXCEPT !.phase = "rebuild", !.rebuildRun = TRUE, !.polls = 0]
    OBVIOUS
  <2>2. PICK s : s = [q EXCEPT !.criteria = Record(@, << "canonical_table_deleted" >>, "passed"),
                               !.pc = "list"]
    OBVIOUS
  <2>3. 0 \in 0..(MaxPolls - 1) /\ "rebuild" \in Phase
    BY SpikeAssumption DEF Phase
  <2>4. /\ q \in LoopState /\ q.phase = "rebuild" /\ ~ q.failure /\ q.next = r.next
        /\ q.criteria = r.criteria /\ q.first = r.first /\ q.build = r.build
        /\ q.table = r.table /\ q.before = r.before
    BY <1>1, <1>2, <2>1, <2>3 DEF LoopState
  <2>5. Passes(q, 8, << "canonical_table_deleted" >>, "passed", "list", s)
    <3>1. "canonical_table_deleted" = AllCriteria[9] /\ "list" \in Pc
      BY DEF AllCriteria, Pc
    <3>2. Recorded(q.criteria, 8)
      BY <1>2, <2>4
    <3> QED
      BY <2>2, <2>4, <3>1, <3>2, ReachedIs, OneCriterion DEF Passes
  <2>6. /\ s \in LoopState /\ s.pc = "list" /\ s.phase = "rebuild" /\ s.next = r.next
        /\ s.first = r.first /\ s.build = r.build /\ s.table = r.table /\ s.before = r.before
        /\ RecordSound(s)
    BY <2>4, <2>5, PassIs
  <2>7. ContentSound(s)
    BY <1>1, <2>6 DEF LoopSound, ContentSound, HasListed, HasScanned, HasRescanned
  <2>8. NumberSound(s, created', Current')
    BY <1>1, <1>4, <2>6 DEF LoopSound, NumberSound, HasScanned, HasRescanned, HoldsTable
  <2>9. PathSound(l, s, Versions')
    <3>1. PathSound(l, r, Versions') /\ Pending(s) = Pending(r)
      BY <1>1, <1>2, <2>6 DEF LoopSound, Pending
    <3> QED
      BY <3>1 DEF PathSound
  <2>10. loop' = [loop EXCEPT ![l] = s]
    BY <1>1, <1>4, <2>1, <2>2 DEF Pass, Become
  <2> QED
    BY <1>1, <2>6, <2>7, <2>8, <2>9, <2>10 DEF LoopSound, GoesOn
<1> QED
  BY <1>0, <1>3, <1>4, <1>6, <1>7

(* A killed loop claims nothing.                                            *)
LEMMA KillGoesOn ==
  ASSUME NEW l \in Loops, Kill(l)
  PROVE  GoesOn(l)
<1>0. PICK s : s = [IdleLoop EXCEPT !.pc = "killed"]
  OBVIOUS
<1>1. /\ s.pc = "killed" /\ s.phase = "first" /\ s.next = 1 /\ ~ s.rebuildRun
      /\ loop' = [loop EXCEPT ![l] = s]
  BY <1>0 DEF IdleLoop, Kill, Become
<1>2. s \in LoopState
  BY <1>0, IdleType DEF LoopState, Pc
<1>3. s.next \in 1..Len(Fixture[l])
  BY <1>1, FixtureLength
<1>4. /\ RecordSound(s) /\ ContentSound(s)
      /\ NumberSound(s, created', Current') /\ PathSound(l, s, Versions')
  BY <1>1 DEF RecordSound, Broken, ContentSound, NumberSound, PathSound, Pending,
              HasListed, HasScanned, HasRescanned, HoldsTable
<1> QED
  BY <1>1, <1>2, <1>3, <1>4 DEF LoopSound, GoesOn

-----------------------------------------------------------------------------
(* What the steps of a loop do to what is shared.                           *)

\* One of the effects above, of which only the loop itself registers its file
Shares(l) ==
    /\ CatalogType'
    /\ Keeps \/ Creates \/ Drops \/ Registers(l)
    /\ archive' \in SUBSET Objects

LEMMA UnsharedShares ==
  ASSUME SharedInv, NEW l, Unshared
  PROVE  Shares(l) /\ Keeps
BY UnsharedEffect DEF SharedInv, Unshared, Shares

LEMMA PutShares ==
  ASSUME SharedInv, NEW l \in Loops, loop[l].next \in 1..Len(Fixture[l]), PutEffect(l)
  PROVE  Shares(l) /\ Keeps
<1>1. Fixture[l] \in Seq(Objects)
  BY SpikeAssumption
<1>2. Fixture[l][loop[l].next] \in Objects
  BY <1>1
<1>3. archive' \in SUBSET Objects /\ UNCHANGED <<catalog, created>>
  BY <1>2 DEF PutEffect, SharedInv
<1> QED
  BY <1>3, UnsharedEffect DEF SharedInv, Shares

LEMMA EnsureShares ==
  ASSUME SharedInv, NEW l, EnsureEffect
  PROVE  Shares(l) /\ (Keeps \/ Creates) /\ Current' \in Table
<1>1. archive' = archive
  BY DEF EnsureEffect
<1> QED
  BY <1>1, EnsureEffectIs DEF SharedInv, Shares

LEMMA DropShares ==
  ASSUME SharedInv, NEW l, DropEffect
  PROVE  Shares(l) /\ (Keeps \/ Drops)
<1>1. archive' = archive
  BY DEF DropEffect
<1> QED
  BY <1>1, DropEffectIs DEF SharedInv, Shares

LEMMA RegisterShares ==
  ASSUME SharedInv, NEW l \in Loops, loop[l] \in LoopState, Current # Null,
         OwnPath(l) \notin Paths(Current.files), Register(l)
  PROVE  Shares(l) /\ Registers(l)
<1>1. archive' = archive
  BY DEF Register
<1> QED
  BY <1>1, RegisterIs DEF SharedInv, Shares

(* A loop about to commit has not registered its file anywhere.             *)
LEMMA CommitShares ==
  ASSUME SharedInv, NEW l \in Loops, LoopSound(l, loop[l], created, Current, Versions),
         loop[l].pc = "commit", Current = loop[l].table, Register(l)
  PROVE  Shares(l) /\ Registers(l)
<1>1. /\ loop[l] \in LoopState /\ loop[l].phase \in Phase
      /\ NumberSound(loop[l], created, Current) /\ PathSound(l, loop[l], Versions)
  BY DEF LoopSound, LoopState
<1>2. Current \in Table
  BY <1>1 DEF NumberSound, HoldsTable
<1>3. Current # Null /\ Current \in Versions
  BY <1>2, NoTableAssumption, CurrentType DEF SharedInv
<1>4. loop[l].phase \in Pending(loop[l])
  BY <1>1 DEF Pending, Phase
<1>5. OwnPath(l) \notin Paths(Current.files)
  BY <1>1, <1>3, <1>4 DEF PathSound, OwnPath
<1> QED
  BY <1>1, <1>3, <1>5, RegisterShares

\* The loop goes on next to a catalog that is still sound
StepSound(l) == Shares(l) /\ cleanup' = cleanup /\ GoesOn(l)

LEMMA NextCatalogIs ==
  ASSUME SharedInv, NEW l \in Loops, LoopSound(l, loop[l], created, Current, Versions),
         Keeps \/ Creates \/ Drops
  PROVE  NextCatalog(l, loop[l])
BY LoopKept DEF SharedInv, NextCatalog

LEMMA EnsureTableStep ==
  ASSUME SharedInv, NEW l \in Loops, LoopSound(l, loop[l], created, Current, Versions), EnsureTable(l)
  PROVE  StepSound(l)
<1>1. Shares(l) /\ (Keeps \/ Creates) /\ Current' \in Table /\ cleanup' = cleanup
  BY EnsureShares DEF EnsureTable
<1>2. \A t \in Versions' : VersionSound(t, created')
  BY <1>1, VersionsKept DEF SharedInv
<1>3. CatalogType'
  BY <1>1 DEF Shares
<1>4. Current' \in Versions'
  <2>1. Len(catalog') \in DOMAIN catalog' /\ Current' = catalog'[Len(catalog')]
    BY <1>3 DEF CatalogType, Current
  <2> QED
    BY <1>1, <2>1, NoTableAssumption DEF Versions
<1>5. Current'.number <= created'
  BY <1>2, <1>4 DEF VersionSound
<1>6. NextCatalog(l, loop[l])
  BY <1>1, NextCatalogIs
<1>7. GoesOn(l)
  BY <1>1, <1>5, <1>6, EnsureTableGoesOn
<1> QED
  BY <1>1, <1>7 DEF StepSound

LEMMA CommitStep ==
  ASSUME SharedInv, NEW l \in Loops, LoopSound(l, loop[l], created, Current, Versions), Commit(l)
  PROVE  StepSound(l)
<1>1. CASE Current = loop[l].table /\ Register(l)
  <2>1. Shares(l) /\ Registers(l)
    BY <1>1, CommitShares DEF Commit, At
  <2>2. GoesOn(l)
    BY <2>1, CommitGoesOn DEF SharedInv
  <2> QED
    BY <2>1, <2>2 DEF StepSound, Commit
<1>2. CASE Fail(l, Blamed(l)) /\ Unshared
  <2>1. Shares(l)
    BY <1>2, UnsharedShares
  <2>2. GoesOn(l)
    BY <1>2, CommitGoesOn DEF SharedInv
  <2> QED
    BY <2>1, <2>2 DEF StepSound, Commit
<1> QED
  BY <1>1, <1>2 DEF Commit

(* A retry that is none registers the file, and the loop is over.           *)
LEMMA RetryCommitStep ==
  ASSUME SharedInv, NEW l \in Loops, LoopSound(l, loop[l], created, Current, Versions), RetryCommit(l)
  PROVE  StepSound(l)
<1>1. CASE Unshared
  <2>1. Shares(l) /\ Keeps
    BY <1>1, UnsharedShares
  <2>2. GoesOn(l)
    BY <2>1, NextCatalogIs, RetryCommitGoesOn
  <2> QED
    BY <2>1, <2>2 DEF StepSound, RetryCommit
<1>2. CASE Current # Null /\ OwnPath(l) \notin Paths(Current.files) /\ Fail(l, Blamed(l)) /\ Register(l)
  <2>1. Shares(l)
    BY <1>2, RegisterShares DEF LoopSound
  <2>2. Active(l)
    BY DEF RetryCommit, At, Active
  <2>3. GoesOn(l)
    BY <1>2, <2>2, FailGoesOn
  <2> QED
    BY <2>1, <2>3 DEF StepSound, RetryCommit
<1> QED
  BY <1>1, <1>2 DEF RetryCommit

(* A request that fails ends the loop, whatever became of the request.      *)
LEMMA RequestFailsStep ==
  ASSUME SharedInv, NEW l \in Loops, LoopSound(l, loop[l], created, Current, Versions), RequestFails(l)
  PROVE  StepSound(l)
<1>1. GoesOn(l)
  BY FailGoesOn DEF RequestFails
<1>2. Shares(l)
  <2>1. CASE Unshared
    BY <2>1, UnsharedShares
  <2>2. CASE PutEffect(l)
    BY <2>2, PutShares DEF LoopSound
  <2>3. CASE EnsureEffect
    BY <2>3, EnsureShares
  <2>4. CASE At(l, "commit") /\ Current = loop[l].table /\ Register(l)
    BY <2>4, CommitShares DEF At
  <2>5. CASE Current # Null /\ OwnPath(l) \notin Paths(Current.files) /\ Register(l)
    BY <2>5, RegisterShares DEF LoopSound
  <2>6. CASE DropEffect
    BY <2>6, DropShares
  <2> QED
    BY <2>1, <2>2, <2>3, <2>4, <2>5, <2>6 DEF RequestFails
<1> QED
  BY <1>1, <1>2 DEF StepSound, RequestFails

(* Every step of a loop leaves it and what is shared sound.                 *)
LEMMA LoopStep ==
  ASSUME SharedInv, NEW l \in Loops, LoopSound(l, loop[l], created, Current, Versions),
         Start(l) \/ Step(l) \/ RequestFails(l) \/ Kill(l)
  PROVE  StepSound(l)
<1>1. ASSUME Unshared
      PROVE  Shares(l) /\ NextCatalog(l, loop[l]) /\ Current' = Current
  <2>1. Shares(l) /\ Keeps
    BY <1>1, UnsharedShares
  <2> QED
    BY <2>1, NextCatalogIs DEF Keeps
<1>2. ASSUME PutEffect(l)
      PROVE  Shares(l) /\ NextCatalog(l, loop[l])
  <2>1. Shares(l) /\ Keeps
    BY <1>2, PutShares DEF LoopSound
  <2> QED
    BY <2>1, NextCatalogIs
<1>3. CASE Start(l)
  BY <1>1, <1>3, StartGoesOn DEF Start, StepSound
<1>4. CASE PutFixture(l)
  BY <1>2, <1>4, PutFixtureGoesOn DEF PutFixture, StepSound
<1>5. CASE PutAgain(l)
  BY <1>2, <1>5, PutAgainGoesOn DEF PutAgain, StepSound
<1>6. CASE Materialize(l)
  BY <1>1, <1>6, MaterializeGoesOn DEF Materialize, StepSound, SharedInv
<1>7. CASE ConfirmRetry(l)
  BY <1>1, <1>7, ConfirmRetryGoesOn DEF ConfirmRetry, StepSound
<1>8. CASE Scan(l)
  BY <1>1, <1>8, ScanGoesOn DEF Scan, StepSound
<1>9. CASE SkipQuery(l)
  BY <1>1, <1>9, SkipQueryGoesOn DEF SkipQuery, StepSound
<1>10. CASE QueryAgain(l)
  BY <1>1, <1>10, QueryAgainGoesOn DEF QueryAgain, StepSound
<1>11. CASE QueryRows(l)
  BY <1>1, <1>11, QueryRowsGoesOn DEF QueryRows, StepSound
<1>12. CASE QueryCount(l)
  BY <1>1, <1>12, QueryCountGoesOn DEF QueryCount, StepSound
<1>13. CASE DropTable(l)
  <2>1. Shares(l) /\ (Keeps \/ Drops)
    BY <1>13, DropShares DEF DropTable
  <2>2. GoesOn(l)
    BY <1>13, <2>1, NextCatalogIs, DropTableGoesOn
  <2> QED
    BY <1>13, <2>1, <2>2 DEF DropTable, StepSound
<1>14. CASE CheckDropped(l)
  BY <1>1, <1>14, CheckDroppedGoesOn DEF CheckDropped, StepSound
<1>15. CASE Kill(l)
  BY <1>1, <1>15, KillGoesOn DEF Kill, StepSound
<1> QED
  BY <1>3, <1>4, <1>5, <1>6, <1>7, <1>8, <1>9, <1>10, <1>11, <1>12, <1>13, <1>14, <1>15,
     EnsureTableStep, CommitStep, RetryCommitStep, RequestFailsStep DEF Step

-----------------------------------------------------------------------------
(* The invariant.                                                           *)

LEMMA InitIInv == Init => IInv
<1> SUFFICES ASSUME Init PROVE IInv
  OBVIOUS
<1>1. catalog = << Null >> /\ created = 0 /\ archive = {} /\ loop = [l \in Loops |-> IdleLoop]
      /\ cleanup = [left |-> MaxCleanups, keys |-> Null]
  BY DEF Init
<1>2. /\ catalog \in Seq(Table \cup {Null}) /\ catalog # << >> /\ Len(catalog) = 1
      /\ DOMAIN catalog = 1..1 /\ catalog[1] = Null
  BY <1>1
<1>3. Current = Null /\ Versions = {}
  <2>1. \A v \in DOMAIN catalog : catalog[v] = Null
    BY <1>2
  <2> QED
    BY <1>2, <2>1 DEF Current, Versions
<1>4. SharedInv
  <2>1. MaxCleanups \in 0..MaxCleanups
    BY SpikeAssumption
  <2>2. cleanup \in [left: 0..MaxCleanups, keys: (SUBSET Objects) \cup {Null}]
    BY <1>1, <2>1
  <2> QED
    BY <1>1, <1>2, <1>3, <2>2 DEF SharedInv, CatalogType
<1>5. ASSUME NEW l \in Loops
      PROVE  LoopSound(l, IdleLoop, created, Current, Versions)
  <2>1. /\ IdleLoop.pc = "idle" /\ IdleLoop.phase = "first" /\ IdleLoop.next = 1
        /\ IdleLoop.criteria = << >> /\ ~ IdleLoop.rebuildRun /\ ~ IdleLoop.failure
    BY DEF IdleLoop
  <2>2. 1 \in 1..Len(Fixture[l])
    BY FixtureLength
  <2>3. << >> \in Seq(Verdict) /\ Len(<< >>) = 0
    OBVIOUS
  <2>4. Recorded(IdleLoop.criteria, 0)
    BY <2>1, <2>3 DEF Recorded
  <2>5. RecordSound(IdleLoop)
    BY <2>1, <2>4, ReachedIs DEF RecordSound, Broken
  <2>6. ContentSound(IdleLoop) /\ NumberSound(IdleLoop, created, Current)
    BY <2>1 DEF ContentSound, NumberSound, HasListed, HasScanned, HasRescanned, HoldsTable
  <2>7. PathSound(l, IdleLoop, Versions)
    BY <1>3 DEF PathSound
  <2> QED
    BY <2>1, <2>2, <2>5, <2>6, <2>7, IdleType DEF LoopSound
<1> QED
  BY <1>1, <1>4, <1>5 DEF IInv

(* A step of a loop: the others keep what they count on.                    *)
LEMMA LoopStepIInv ==
  ASSUME IInv, NEW l \in Loops, Start(l) \/ Step(l) \/ RequestFails(l) \/ Kill(l)
  PROVE  IInv'
<1>1. SharedInv /\ LoopSound(l, loop[l], created, Current, Versions) /\ loop[l] \in LoopState
  BY DEF IInv, LoopSound
<1>2. Shares(l) /\ cleanup' = cleanup /\ GoesOn(l)
  BY <1>1, LoopStep DEF StepSound
<1>3. PICK s : loop' = [loop EXCEPT ![l] = s] /\ LoopSound(l, s, created', Current', Versions')
  BY <1>2 DEF GoesOn
<1>4. /\ CatalogType' /\ archive' \in SUBSET Objects
      /\ created' \in Nat /\ \A t \in Versions' : VersionSound(t, created')
  BY <1>1, <1>2, VersionsKept DEF SharedInv, Shares
<1>5. SharedInv'
  BY <1>1, <1>2, <1>4 DEF SharedInv
<1>6. DOMAIN loop' = Loops /\ loop' = [m \in Loops |-> loop'[m]]
      /\ loop'[l] = s /\ \A m \in Loops \ {l} : loop'[m] = loop[m]
  BY <1>3 DEF IInv
<1>7. ASSUME NEW m \in Loops \ {l}
      PROVE  LoopSound(m, loop[m], created', Current', Versions')
  <2>1. LoopSound(m, loop[m], created, Current, Versions) /\ l \in Loops \ {m}
    BY DEF IInv
  <2> QED
    BY <1>1, <1>2, <2>1, LoopKept DEF SharedInv, Shares
<1>8. \A m \in Loops : LoopSound(m, loop'[m], created', Current', Versions')
  BY <1>3, <1>6, <1>7
<1> QED
  BY <1>5, <1>6, <1>8 DEF IInv

(* The backfill, R2 SQL and a cleanup leave every loop what it counts on.   *)
LEMMA EnvironmentIInv ==
  ASSUME IInv,
         (\E o \in Backfilled : Backfill(o)) \/ CatchUp \/ CleanupList \/ CleanupDelete
         \/ CleanupDrop \/ CleanupFails
  PROVE  IInv'
<1>1. SharedInv /\ CatalogType
      /\ archive \in SUBSET Objects
      /\ cleanup \in [left: 0..MaxCleanups, keys: (SUBSET Objects) \cup {Null}]
      /\ cleanup.left \in 0..MaxCleanups /\ MaxCleanups \in Nat
  BY SpikeAssumption DEF IInv, SharedInv
<1>2. loop' = loop
  BY DEF Backfill, CatchUp, CleanupList, CleanupDelete, CleanupDrop, CleanupFails
<1>3. /\ CatalogType' /\ (Keeps \/ Drops) /\ archive' \in SUBSET Objects
      /\ cleanup' \in [left: 0..MaxCleanups, keys: (SUBSET Objects) \cup {Null}]
  <2>1. CASE \E o \in Backfilled : Backfill(o)
    BY <1>1, <2>1, UnsharedEffect, SpikeAssumption DEF Backfill
  <2>2. CASE CatchUp
    BY <1>1, <2>2, CatchUpEffect DEF CatchUp
  <2>3. CASE CleanupList
    <3>1. cleanup.left - 1 \in 0..MaxCleanups /\ cleanup' = [left |-> cleanup.left - 1, keys |-> archive]
      BY <1>1, <2>3 DEF CleanupList
    <3>2. UNCHANGED <<archive, catalog, created>>
      BY <2>3 DEF CleanupList, Unshared
    <3> QED
      BY <1>1, <3>1, <3>2, UnsharedEffect
  <2>4. CASE CleanupDelete
    <3>1. PICK k : archive' = archive \ {k} /\ cleanup' = [cleanup EXCEPT !.keys = @ \ {k}]
      BY <2>4 DEF CleanupDelete
    <3>2. cleanup.keys \in SUBSET Objects /\ UNCHANGED <<catalog, created>>
      BY <1>1, <2>4 DEF CleanupDelete
    <3>3. cleanup.keys \ {k} \in SUBSET Objects /\ archive' \in SUBSET Objects
      BY <1>1, <3>1, <3>2
    <3> QED
      BY <1>1, <3>1, <3>2, <3>3, UnsharedEffect
  <2>5. CASE CleanupDrop
    <3>1. cleanup' = [cleanup EXCEPT !.keys = Null] /\ archive' = archive
      BY <2>5 DEF CleanupDrop, DropEffect
    <3> QED
      BY <1>1, <2>5, <3>1, DropEffectIs DEF CleanupDrop
  <2>6. CASE CleanupFails
    <3>1. cleanup' = [cleanup EXCEPT !.keys = Null] /\ UNCHANGED <<archive, catalog, created>>
      BY <2>6 DEF CleanupFails, Unshared
    <3> QED
      BY <1>1, <3>1, UnsharedEffect
  <2> QED
    BY <2>1, <2>2, <2>3, <2>4, <2>5, <2>6
<1>4. created' \in Nat /\ \A t \in Versions' : VersionSound(t, created')
  BY <1>1, <1>3, VersionsKept DEF SharedInv
<1>5. SharedInv'
  BY <1>3, <1>4 DEF SharedInv
<1>6. \A l \in Loops : LoopSound(l, loop[l], created', Current', Versions')
  <2> TAKE l \in Loops
  <2>1. LoopSound(l, loop[l], created, Current, Versions)
    BY DEF IInv
  <2> QED
    BY <1>1, <1>3, <2>1, LoopKept DEF SharedInv
<1>7. DOMAIN loop' = Loops /\ loop' = [l \in Loops |-> loop'[l]]
  BY <1>2 DEF IInv
<1>8. \A l \in Loops : LoopSound(l, loop'[l], created', Current', Versions')
  BY <1>2, <1>6
<1> QED
  BY <1>5, <1>7, <1>8 DEF IInv

LEMMA NextIInv == IInv /\ [Next]_vars => IInv'
<1> SUFFICES ASSUME IInv, [Next]_vars PROVE IInv'
  OBVIOUS
<1>1. CASE UNCHANGED vars
  <2>1. UNCHANGED <<archive, catalog, created, cleanup, loop>>
    BY <1>1 DEF vars
  <2>2. Current' = Current /\ Versions' = Versions
    BY <2>1 DEF Current, Versions
  <2>3. SharedInv'
    BY <2>1, <2>2 DEF IInv, SharedInv, CatalogType
  <2> QED
    BY <2>1, <2>2, <2>3 DEF IInv
<1> QED
  BY <1>1, LoopStepIInv, EnvironmentIInv DEF Next

(* The invariant holds in every state.                                      *)
THEOREM InvariantHolds == Spec => []IInv
BY InitIInv, NextIInv, PTL DEF Spec

-----------------------------------------------------------------------------
(* What follows from it.                                                    *)

(* Type correctness of the loop, the Archive and the catalog.               *)
THEOREM TypeIsCorrect == Spec => []TypeOK
<1>1. IInv => TypeOK
  <2> SUFFICES ASSUME IInv PROVE TypeOK
    OBVIOUS
  <2>1. /\ archive \subseteq Objects /\ catalog \in Seq(Table \cup {Null}) /\ catalog # << >>
        /\ created \in Nat
        /\ cleanup.left \in 0..MaxCleanups /\ cleanup.keys \in (SUBSET Objects) \cup {Null}
    BY DEF IInv, SharedInv, CatalogType
  <2>2. ASSUME NEW l \in Loops
        PROVE  loop[l] \in LoopState /\ loop[l].next \in 1..Len(Fixture[l])
    BY DEF IInv, LoopSound
  <2> QED
    BY <2>1, <2>2 DEF TypeOK, LoopState
<1> QED
  BY <1>1, InvariantHolds, PTL

(* A loop that has reported success is in its second phase.                 *)
LEMMA PassedIsRebuilt ==
  ASSUME IInv, NEW l \in Loops, AllPassed(l)
  PROVE  /\ loop[l] \in LoopState /\ loop[l].phase = "rebuild" /\ loop[l].pc = "reported"
         /\ RecordSound(loop[l]) /\ ContentSound(loop[l])
         /\ NumberSound(loop[l], created, Current)
<1>1. LoopSound(l, loop[l], created, Current, Versions)
  BY DEF IInv
<1>2. loop[l].pc = "reported" /\ ~ loop[l].failure /\ loop[l].phase \in {"first", "rebuild"}
  BY <1>1 DEF AllPassed, At, LoopSound, LoopState, Phase
<1>3. loop[l].phase = "rebuild"
  BY <1>1, <1>2 DEF LoopSound, RecordSound, Broken
<1> QED
  BY <1>1, <1>2, <1>3 DEF LoopSound

(* The two scans of a successful loop are of two tables, of which the       *)
(* second was created after the first was dropped, for any number of loops  *)
(* and cleanups.                                                            *)
THEOREM TwoTablesCompared == Spec => []ComparedTwoTables
<1>1. IInv => ComparedTwoTables
  <2> SUFFICES ASSUME IInv, NEW l \in Loops, AllPassed(l)
               PROVE  loop[l].before.number < loop[l].table.number
    BY DEF ComparedTwoTables
  <2> QED
    BY PassedIsRebuilt DEF NumberSound, HoldsTable, HasRescanned
<1> QED
  BY <1>1, InvariantHolds, PTL

(* A success has every criterion on record and a failure the one it failed, *)
(* whatever request of whatever phase fails; only where the rebuild gets no *)
(* identifier does the report end with the drop instead.                    *)
THEOREM ReportIsHonest == Spec => []ReportHonest
<1>1. IInv => ReportHonest
  <2> SUFFICES ASSUME IInv, NEW l \in Loops, At(l, "reported")
               PROVE  IF AllPassed(l)
                      THEN [n \in DOMAIN loop[l].criteria |-> loop[l].criteria[n].name] = AllCriteria
                      ELSE loop[l].criteria # << >> /\ Ending(loop[l])
    BY DEF ReportHonest
  <2>1. /\ loop[l].pc = "reported" /\ RecordSound(loop[l])
        /\ loop[l].phase \in {"first", "rebuild"}
    BY DEF At, IInv, LoopSound, LoopState, Phase
  <2>2. PICK criteria : criteria = loop[l].criteria
    OBVIOUS
  <2>3. CASE loop[l].phase = "rebuild"
    <3>1. ~ loop[l].failure /\ Recorded(criteria, 13)
      <4>1. Reached("rebuild", "reported") = 13
        BY DEF Reached
      <4> QED
        BY <2>1, <2>2, <2>3, <4>1 DEF RecordSound, Broken
    <3>2. /\ DOMAIN criteria = 1..13
          /\ \A i \in 1..13 : criteria[i].name = AllCriteria[i] /\ criteria[i].verdict # "failed"
      BY <3>1 DEF Recorded
    <3>3. AllPassed(l)
      BY <2>1, <2>2, <3>1, <3>2 DEF AllPassed, At
    <3>4. [n \in DOMAIN criteria |-> criteria[n].name] = [n \in 1..13 |-> AllCriteria[n]]
      BY <3>2
    <3>5. AllCriteria = [n \in 1..13 |-> AllCriteria[n]]
      BY DEF AllCriteria
    <3> QED
      BY <2>2, <3>3, <3>4, <3>5
  <2>4. CASE loop[l].phase = "first"
    <3>1. loop[l].failure /\ criteria # << >> /\ Ending(loop[l])
      BY <2>1, <2>2, <2>4 DEF RecordSound, Broken
    <3>2. ~ AllPassed(l)
      BY <3>1 DEF AllPassed
    <3> QED
      BY <2>2, <3>1, <3>2
  <2> QED
    BY <2>1, <2>3, <2>4
<1> QED
  BY <1>1, InvariantHolds, PTL

(* The lines of a scan tell which rows were scanned; Null is no row.        *)
LEMMA LinesDetermine ==
  ASSUME NEW files \in Seq(File), NEW rows \in SUBSET Row,
         Lines(ScanRows(files)) = Lines(SetToBag(rows))
  PROVE  BagToSet(ScanRows(files)) = rows
<1>1. PICK bag : bag = ScanRows(files)
  OBVIOUS
<1>2. DOMAIN bag \subseteq Row
  <2>1. \A f \in Range(files) : f.rows \subseteq Row
    <3>1. \A n \in DOMAIN files : files[n] \in File
      OBVIOUS
    <3>2. \A f \in File : f.rows \subseteq Row
      BY DEF File
    <3> QED
      BY <3>1, <3>2 DEF Range
  <2>2. DOMAIN bag = UNION {f.rows : f \in Range(files)}
    BY <1>1 DEF ScanRows
  <2> QED
    BY <2>1, <2>2
<1>3. DOMAIN SetToBag(rows) = rows /\ DOMAIN EmptyBag = {}
  BY DEF SetToBag, EmptyBag
<1>4. DOMAIN bag = {} => bag = EmptyBag
  <2>1. bag = [row \in DOMAIN bag |-> bag[row]]
    BY <1>1 DEF ScanRows
  <2> QED
    BY <2>1 DEF EmptyBag, SetToBag
<1>5. rows = {} => SetToBag(rows) = EmptyBag
  BY DEF EmptyBag
<1>6. Lines(bag) = (IF DOMAIN bag = {} THEN {Null} ELSE DOMAIN bag)
  BY <1>3, <1>4 DEF Lines, BagToSet
<1>7. Lines(SetToBag(rows)) = (IF rows = {} THEN {Null} ELSE rows)
  BY <1>3, <1>5 DEF Lines, BagToSet
<1>8. Null \notin Row
  BY SpikeAssumption
<1>9. DOMAIN bag = rows
  BY <1>1, <1>2, <1>6, <1>7, <1>8
<1> QED
  BY <1>1, <1>9 DEF BagToSet

(* A loop that reports success has rebuilt, from the same evidence, a table *)
(* that shows its Current State, whatever other loops, the backfill, a      *)
(* cleanup and lost answers did meanwhile.                                  *)
THEOREM PassedIsHonest == Spec => []PassedMeansRebuilt
<1>1. IInv => PassedMeansRebuilt
  <2> SUFFICES ASSUME IInv, NEW l \in Loops, AllPassed(l)
               PROVE  /\ loop[l].first = loop[l].build.manifest
                      /\ BagToSet(ScanRows(loop[l].table.files)) = CurrentState(loop[l].build.manifest)
    BY DEF PassedMeansRebuilt
  <2>1. PICK r : r = loop[l]
    OBVIOUS
  <2>2. /\ r \in LoopState /\ r.phase = "rebuild" /\ r.pc = "reported"
        /\ ContentSound(r) /\ NumberSound(r, created, Current)
    BY <2>1, PassedIsRebuilt
  <2>3. /\ r.build = Build(r.first)
        /\ Lines(ScanRows(r.table.files)) = Lines(SetToBag(r.build.rows))
    BY <2>2 DEF ContentSound, HasListed, HasScanned, HasRescanned
  <2>4. /\ r.table \in Table /\ r.table.files \in Seq(File)
        /\ r.first \in SUBSET Objects /\ r.build.rows \in SUBSET Row
    <3>1. r.table \in Table
      BY <2>2 DEF NumberSound, HoldsTable, HasRescanned
    <3> QED
      BY <2>2, <3>1 DEF LoopState, Table
  <2>5. r.build.manifest = r.first /\ r.build.rows = Projected(r.first)
    BY <2>3 DEF Build
  <2>6. Projected(r.first) = CurrentState(r.first)
    BY <2>4, BuildIsBest
  <2>7. BagToSet(ScanRows(r.table.files)) = r.build.rows
    BY <2>3, <2>4, LinesDetermine
  <2> QED
    BY <2>1, <2>5, <2>6, <2>7
<1> QED
  BY <1>1, InvariantHolds, PTL

(* Files with paths of their own are as many as their paths.                *)
LEMMA PathsCount ==
  ASSUME NEW files \in Seq(File), OnePath(files)
  PROVE  Cardinality(Paths(files)) = Len(files)
<1>1. DOMAIN files = 1..Len(files) /\ Len(files) \in Nat
  OBVIOUS
<1>2. PICK path : path = [n \in 1..Len(files) |-> [by |-> files[n].by, phase |-> files[n].phase]]
  OBVIOUS
<1>3. /\ DOMAIN path = 1..Len(files)
      /\ \A n \in 1..Len(files) : path[n] = [by |-> files[n].by, phase |-> files[n].phase]
      /\ path = [n \in 1..Len(files) |-> path[n]]
  BY <1>2
<1>4. \A n \in 1..Len(files) : path[n] \in Paths(files)
  BY <1>1, <1>3, PathOf
<1>5. \A p \in Paths(files) : \E n \in 1..Len(files) : path[n] = p
  BY <1>1, <1>3 DEF Paths, Range
<1>6. \A m, n \in 1..Len(files) : path[m] = path[n] => m = n
  <2> TAKE m, n \in 1..Len(files)
  <2>1. path[m].by = files[m].by /\ path[m].phase = files[m].phase
        /\ path[n].by = files[n].by /\ path[n].phase = files[n].phase
    BY <1>3
  <2> QED
    BY <1>1, <2>1 DEF OnePath
<1>7. path \in Bijection(1..Len(files), Paths(files))
  <2>1. path \in [1..Len(files) -> Paths(files)]
    BY <1>3, <1>4
  <2>2. path \in Injection(1..Len(files), Paths(files))
    BY <1>3, <1>6, <2>1 DEF Injection, IsInjective
  <2>3. path \in Surjection(1..Len(files), Paths(files))
    BY <1>5, <2>1 DEF Surjection
  <2> QED
    BY <2>2, <2>3 DEF Bijection
<1>8. IsFiniteSet(1..Len(files)) /\ Cardinality(1..Len(files)) = Len(files)
  BY <1>1, FS_Interval
<1>9. ExistsBijection(1..Len(files), Paths(files))
  BY <1>7 DEF ExistsBijection
<1> QED
  BY <1>8, <1>9, FS_Bijection

(* No version of the table references a staging path twice, however often   *)
(* the commits are repeated and whoever replaces the table between them.    *)
THEOREM PathIsReferencedOnce == Spec => []PathReferencedOnce
<1>1. IInv => PathReferencedOnce
  <2> SUFFICES ASSUME IInv, NEW v \in DOMAIN catalog, catalog[v] # Null
               PROVE  Cardinality(Paths(catalog[v].files)) = Len(catalog[v].files)
    BY DEF PathReferencedOnce
  <2>1. SharedInv /\ CatalogType
    BY DEF IInv, SharedInv
  <2>2. catalog[v] \in Versions
    BY DEF Versions
  <2>3. catalog[v] \in Table /\ OnePath(catalog[v].files)
    BY <2>1, <2>2, CurrentType DEF SharedInv, VersionSound
  <2>4. catalog[v].files \in Seq(File)
    BY <2>3 DEF Table
  <2> QED
    BY <2>3, <2>4, PathsCount
<1> QED
  BY <1>1, InvariantHolds, PTL

================================================================================
