--------------------------- MODULE GenerateProofs ---------------------------
(***************************************************************************)
(* Proofs about Generate, for any tables, files, flags and bounds: the     *)
(* types, that a component is skipped only when there is nothing to do,    *)
(* what a --force run delivers, and what the migration files build.        *)
(*                                                                         *)
(* A skip is sound because a hash covers its component (Sound): the cache  *)
(* never has a hash whose artifacts come from another revision, and a run  *)
(* that is writing is covered for what it has written.  A --force run is   *)
(* followed from ParseSchema on (Delivering): what it has still to write   *)
(* and what it has written are together what it was asked for.  The files  *)
(* build the snapshot because, half-way through them, the directory builds *)
(* the old snapshot changed by the files written so far (Half), each new   *)
(* file being the last of its table (NewIsLast).                           *)
(***************************************************************************)
EXTENDS Generate, FiniteSetTheorems, WellFoundedInduction, TLAPS

-----------------------------------------------------------------------------
(* What the helpers return. *)

\* A set of numbers that is not empty has a least member.
LEMMA LeastMember ==
    ASSUME NEW S \in SUBSET Nat, S # {}
    PROVE  \E n \in S : \A m \in S : n <= m
<1>1. PICK n \in S : \A m \in S : ~ (<<m, n>> \in OpToRel(<, Nat))
  BY NatLessThanWellFounded, WFMin, Zenon
<1>2. \A m \in S : ~ (m < n)
  BY <1>1 DEF OpToRel
<1> QED
  BY <1>2

\* The hash of a revision is that of it or of an earlier one.
LEMMA HashExists ==
    ASSUME NEW r \in Revisions
    PROVE  Hash(r) \in 0..r
<1> DEFINE Back == {d \in 0..r : r - d \notin Unsigned}
<1>1. r \in Nat /\ 0 \notin Unsigned
  BY BoundsAssumption, UnsignedAssumption DEF Revisions
<1>2. Back \in SUBSET Nat /\ r \in Back
  BY <1>1
<1>3. PICK d \in Back : \A m \in Back : d <= m
  BY <1>2, LeastMember
<1>4. r - d \in 0..r /\ r - d \notin Unsigned
  BY <1>1, <1>3
<1>5. ASSUME NEW k \in (r - d + 1)..r PROVE k \in Unsigned
  <2>1. r - k \in 0..r /\ r - k < d /\ r - (r - k) = k
    BY <1>1, <1>4
  <2>2. r - k \notin Back
    BY <1>3, <2>1
  <2> QED
    BY <2>1, <2>2
<1> QED
  BY <1>4, <1>5 DEF Hash

LEMMA ArtifactsAreNumbers == Artifacts \subseteq Nat \ {0}
BY FilesAssumption DEF Artifacts

\* A run writes an artifact that it has still to write.
LEMMA NextIsToDo ==
    ASSUME run.todo \in SUBSET Artifacts, run.todo # {}
    PROVE  NextArtifact \in run.todo
<1>1. run.todo \in SUBSET Nat
  BY ArtifactsAreNumbers
<1>2. PICK a \in run.todo : \A b \in run.todo : a <= b
  BY <1>1, LeastMember
<1> QED
  BY <1>2 DEF NextArtifact

\* Drops before creations, by table: some change comes first.
LEMMA FirstExists ==
    ASSUME NEW S \in SUBSET Changes, S # {}, \A x, y \in S : x.table = y.table => x = y
    PROVE  First(S) \in S
<1> DEFINE Of(op) == {x.table : x \in {y \in S : y.op = op}}
<1>1. \A x \in S : x.table \in Nat /\ x.op \in {"create", "drop"}
  BY TablesAssumption DEF Changes
<1>2. ASSUME NEW op \in {"create", "drop"}, Of(op) # {}
      PROVE  \E x \in S : x.op = op /\ \A y \in S \ {x} : y.op = op => x.table < y.table
  <2>1. Of(op) \in SUBSET Nat
    BY <1>1
  <2>2. PICK n \in Of(op) : \A m \in Of(op) : n <= m
    BY <1>2, <2>1, LeastMember
  <2>3. PICK x \in S : x.op = op /\ x.table = n
    BY <2>2
  <2>4. ASSUME NEW y \in S \ {x}, y.op = op PROVE x.table < y.table
    <3>1. y.table \in Of(op) /\ y.table # x.table
      BY <2>4
    <3> QED
      BY <1>1, <2>2, <2>3, <3>1
  <2> QED
    BY <2>3, <2>4
<1>3. \E x \in S : \A y \in S \ {x} : Precedes(x, y)
  <2>1. CASE Of("drop") # {}
    BY <1>1, <1>2, <2>1 DEF Precedes
  <2>2. CASE Of("drop") = {}
    <3>1. \A x \in S : x.op = "create"
      BY <1>1, <2>2
    <3>2. Of("create") # {}
      BY <3>1
    <3> QED
      BY <1>2, <3>1, <3>2 DEF Precedes
  <2> QED
    BY <2>1, <2>2
<1> QED
  BY <1>3 DEF First

\* Before any change come fewer changes than there are tables.
LEMMA SlotsSuffice ==
    ASSUME NEW S \in SUBSET Changes, \A x, y \in S : x.table = y.table => x = y, NEW x \in S
    PROVE  Cardinality({y \in S : Precedes(y, x)}) + 1 \in 0..Cardinality(Tables)
<1> DEFINE P == {y \in S : Precedes(y, x)}
           R == Tables \ {x.table}
           f == [y \in P |-> y.table]
<1>1. \A y \in S : y.table \in Tables /\ y.table \in Nat
  BY TablesAssumption DEF Changes
<1>2. x \notin P
  BY <1>1 DEF Precedes
<1>3. f \in Injection(P, R)
  BY <1>1, <1>2 DEF Injection, IsInjective
<1>4. IsFiniteSet(Tables) /\ x.table \in Tables
  BY <1>1, TablesAssumption
<1>5. IsFiniteSet(R) /\ Cardinality(R) = Cardinality(Tables) - 1
  BY <1>4, FS_RemoveElement
<1>6. IsFiniteSet(P) /\ Cardinality(P) <= Cardinality(R)
  BY <1>3, <1>5, FS_Injection
<1>7. Cardinality(P) \in Nat /\ Cardinality(R) \in Nat /\ Cardinality(Tables) \in Nat
  BY <1>4, <1>5, <1>6, FS_CardinalityType
<1> QED
  BY <1>5, <1>6, <1>7
-----------------------------------------------------------------------------
(* Types. *)

Bit(b) == IF b THEN 1 ELSE 0

\* Each run, and each edit that the watcher is told of, takes the time once.
Stamps ==
    clock + Bit(pc \in {"load", "parse", "write"}) + Bit(event) + Bit(armed) <= runs + edits

\* The operations of a diff are about tables of their own.
Single(S) == \A x, y \in S : x.table = y.table => x = y

Emitting ==
    /\ Single(run.changes)
    /\ run.left \subseteq run.changes
    /\ pc = "emit" => run.left # {} /\ clock # 0

Types == TypeOK /\ Stamps /\ Emitting

LEMMA RunTypes ==
    /\ NoRun \in Runs
    /\ DefaultOpts \in OptionSet
    /\ NoCache \in [Components -> Hashes]
    /\ \A opts \in OptionSet : [NoRun EXCEPT !.opts = opts] \in Runs
<1>1. DefaultOpts \in OptionSet
  BY DEF DefaultOpts, OptionSet
<1>2. NoCache \in [Components -> Hashes]
  BY DEF NoCache, Hashes
<1>3. 0 \in Revisions
  BY BoundsAssumption DEF Revisions
<1>4. NoRun \in Runs
  BY <1>1, <1>2, <1>3 DEF NoRun, Runs
<1>5. \A opts \in OptionSet : [NoRun EXCEPT !.opts = opts] \in Runs
  BY <1>4 DEF Runs
<1> QED
  BY <1>1, <1>2, <1>4, <1>5

LEMMA InitTypes == Init => Types
<1> SUFFICES ASSUME Init PROVE Types
  OBVIOUS
<1>1. TypeOK
  <2>1. /\ rev \in Revisions /\ edits \in Revisions /\ clock \in 0..MaxStamp
        /\ runs \in 0..MaxRuns /\ faults \in 0..MaxFaults
    BY BoundsAssumption DEF Init, Revisions, MaxStamp
  <2>2. art \in [Artifacts -> Revisions \cup {None, Torn}]
    BY DEF Init
  <2>3. cache \in [Components -> Hashes] \cup {Torn} /\ run \in Runs /\ watchOpts \in OptionSet
    BY RunTypes DEF Init
  <2> QED
    BY <2>1, <2>2, <2>3 DEF Init, TypeOK, Points
<1>2. Stamps
  BY BoundsAssumption DEF Init, Stamps, Bit
<1>3. Emitting
  BY DEF Init, Emitting, NoRun, Single
<1> QED
  BY <1>1, <1>2, <1>3 DEF Types

\* A run that is over leaves nothing behind.
LEMMA IdleEmits == ASSUME run' = NoRun, pc' \in {"idle", "load"} PROVE Emitting'
BY DEF Emitting, NoRun, Single

\* Steps of a run keep the types.
LEMMA BeginTypes ==
    ASSUME Types, NEW opts \in OptionSet, Begin(opts)
    PROVE  pc' \in Points /\ run' \in Runs /\ Emitting' /\ pc' = "load" /\ pc = "idle"
<1>1. run' = [NoRun EXCEPT !.opts = opts] /\ pc' = "load" /\ pc = "idle"
  BY DEF Begin
<1>2. run' \in Runs
  BY <1>1, RunTypes
<1>3. run'.changes = {} /\ run'.left = {}
  BY <1>1 DEF NoRun
<1> QED
  BY <1>1, <1>2, <1>3 DEF Points, Emitting, Single

LEMMA EndTypes ==
    ASSUME Types, NEW ok \in BOOLEAN, EndRun(ok)
    PROVE  /\ pc' \in Points /\ run' \in Runs /\ watch' \in {"off", "first", "adding", "on"}
           /\ UNCHANGED <<watchOpts, event, armed>> /\ Emitting' /\ pc' = "idle"
  BY RunTypes, IdleEmits DEF EndRun, Points, Types, TypeOK

LEMMA WriteTypes == ASSUME Types, WriteArtifact PROVE Types'
<1> DEFINE a == NextArtifact
           c == Owner(a)
           h == IF \E b \in run.todo \ {a} : Owner(b) = c THEN run.st[c] ELSE Hash(run.ent)
<1>1. run \in Runs /\ run.ent \in Revisions /\ art \in [Artifacts -> Revisions \cup {None, Torn}]
  BY DEF Types, TypeOK, Runs
<1>2. a \in run.todo /\ a \in Artifacts
  BY <1>1, NextIsToDo DEF WriteArtifact, Runs
<1>3. c \in Components
  BY DEF Owner, Components
<1>4. h \in Hashes
  <2>1. Hash(run.ent) \in Hashes
    BY <1>1, HashExists, BoundsAssumption DEF Hashes, Revisions
  <2> QED
    BY <1>1, <1>3, <2>1 DEF Runs
<1>5. /\ art' = [art EXCEPT ![a] = run.ent]
      /\ run' = [run EXCEPT !.todo = run.todo \ {a}, !.st = [run.st EXCEPT ![c] = h]]
      /\ UNCHANGED <<schemaVars, cache, migrationVars, pc, watchVars, countVars>>
  BY DEF WriteArtifact
<1> HIDE DEF a, c, h
<1>6. run' \in Runs /\ run'.changes = run.changes /\ run'.left = run.left
  BY <1>1, <1>3, <1>4, <1>5 DEF Runs
<1>7. art' \in [Artifacts -> Revisions \cup {None, Torn}]
  BY <1>1, <1>5
<1> QED
  BY <1>5, <1>6, <1>7
  DEF Types, TypeOK, Stamps, Emitting, schemaVars, migrationVars, watchVars, countVars

LEMMA DiffTypes ==
    ASSUME NEW b \in SUBSET Tables, NEW a \in SUBSET Tables
    PROVE  Diff(b, a) \in SUBSET Changes /\ Single(Diff(b, a))
<1>1. \A x \in Diff(b, a) :
         \/ x = [op |-> "drop", table |-> x.table] /\ x.table \in b \ a
         \/ x = [op |-> "create", table |-> x.table] /\ x.table \in a \ b
  BY DEF Diff
<1> QED
  BY <1>1 DEF Changes, Single

LEMMA DiffSchemaTypes == ASSUME Types, DiffSchema PROVE Types'
<1>1. TypeOK /\ Stamps /\ run \in Runs /\ shape[run.ent] \in SUBSET Tables /\ pc = "write"
  BY DEF Types, TypeOK, Runs, DiffSchema
<1>2. UNCHANGED <<schemaVars, art, cache, files, snap, countVars>>
  BY DEF DiffSchema
<1>3. CASE snap = Torn
  <2>0. EndRun(FALSE) /\ UNCHANGED clock
    BY <1>3 DEF DiffSchema
  <2>1. /\ pc' \in Points /\ run' \in Runs /\ watch' \in {"off", "first", "adding", "on"}
        /\ UNCHANGED <<watchOpts, event, armed>> /\ Emitting' /\ pc' = "idle"
    BY <2>0, EndTypes
  <2>2. TypeOK'
    BY <1>1, <1>2, <2>0, <2>1 DEF TypeOK, schemaVars, countVars
  <2>3. Stamps'
    BY <1>1, <1>2, <2>0, <2>1, BoundsAssumption
    DEF Stamps, Bit, TypeOK, Revisions, MaxStamp, schemaVars, countVars
  <2> QED
    BY <2>1, <2>2, <2>3 DEF Types
<1>4. CASE snap # Torn
  <2> DEFINE changes == Diff(snap, shape[run.ent])
  <2>1. changes \in SUBSET Changes /\ Single(changes)
    BY <1>1, <1>4, DiffTypes DEF TypeOK
  <2>2. /\ run' = [run EXCEPT !.changes = changes, !.left = changes]
        /\ pc' = IF run.opts.dry THEN "save"
                 ELSE IF changes # {} THEN "emit"
                 ELSE IF run.opts.force THEN "snapshot" ELSE "save"
        /\ clock' \in IF changes = {} \/ run.opts.dry THEN {clock}
                     ELSE {clock + 1} \cup
                          IF SameSecond /\ clock > 0 THEN {clock} ELSE {}
        /\ UNCHANGED watchVars
    BY <1>4 DEF DiffSchema
  <2> HIDE DEF changes
  <2>3. run' \in Runs /\ run'.changes = changes /\ run'.left = changes
    BY <1>1, <2>1, <2>2 DEF Runs
  <2>4. clock' = clock \/ clock' = clock + 1
    BY <2>2
  <2>5. pc' = "emit" => clock' # 0
    BY <1>1, <2>2 DEF TypeOK
  <2>6. pc' \in Points \ {"load", "parse", "write"}
    BY <2>2 DEF Points
  <2>7. Stamps' /\ clock' \in 0..MaxStamp
    BY <1>1, <1>2, <2>2, <2>4, <2>6, BoundsAssumption
    DEF Stamps, Bit, TypeOK, schemaVars, countVars, watchVars, MaxStamp, Revisions
  <2>8. Emitting'
    BY <2>1, <2>2, <2>3, <2>5 DEF Emitting
  <2>9. TypeOK'
    BY <1>1, <1>2, <2>2, <2>3, <2>7, <2>6 DEF TypeOK, Points, schemaVars, countVars, watchVars
  <2> QED
    BY <2>7, <2>8, <2>9 DEF Types
<1> QED
  BY <1>3, <1>4 DEF DiffSchema

\* A migration file under its name.
LEMMA FileTypes ==
    ASSUME Types, pc = "emit", NEW d \in Changes \cup {Torn}
    PROVE  First(run.left) \in run.left /\ WithFile(First(run.left), d) \in SUBSET Files
<1> DEFINE x == First(run.left)
<1>1. /\ run.left # {} /\ run.left \in SUBSET Changes /\ run.changes \in SUBSET Changes
      /\ run.left \subseteq run.changes /\ Single(run.changes)
      /\ clock \in 1..MaxStamp /\ files \in SUBSET Files
  BY BoundsAssumption DEF Types, TypeOK, Emitting, Runs, MaxStamp
<1>2. x \in run.left
  BY <1>1, FirstExists DEF Single
<1>3. Cardinality({y \in run.changes : Precedes(y, x)}) + 1 \in 0..Cardinality(Tables)
  BY <1>1, <1>2, SlotsSuffice DEF Single
<1>4. 0 \in 0..Cardinality(Tables)
  BY TablesAssumption, FS_CardinalityType
<1>5. FileName(x) \in Names
  BY <1>1, <1>3, <1>4 DEF FileName, Names
<1>6. [name |-> FileName(x), does |-> d] \in Files
  BY <1>5 DEF Files
<1> QED
  BY <1>1, <1>2, <1>6 DEF WithFile

LEMMA EmitTypes == ASSUME Types, EmitFile PROVE Types'
<1> DEFINE x == First(run.left)
<1>1. /\ pc = "emit" /\ files' = WithFile(x, x)
      /\ run' = [run EXCEPT !.left = run.left \ {x}]
      /\ pc' = IF run.left = {x} THEN "snapshot" ELSE "emit"
      /\ UNCHANGED <<schemaVars, art, cache, snap, clock, watchVars, countVars>>
  BY DEF EmitFile
<1>2. run \in Runs /\ run.left \in SUBSET Changes
  BY DEF Types, TypeOK, Runs
<1>3. x \in run.left /\ \A d \in Changes : WithFile(x, d) \in SUBSET Files
  BY <1>1, FileTypes
<1> HIDE DEF x
<1>4. files' \in SUBSET Files
  BY <1>1, <1>2, <1>3
<1>5. run' \in Runs /\ run'.left = run.left \ {x} /\ run'.changes = run.changes
  BY <1>1, <1>2 DEF Runs
<1>6. pc' \in {"snapshot", "emit"} /\ (pc' = "emit" => run'.left # {})
  BY <1>1, <1>3, <1>5
<1>7. Emitting' /\ Stamps'
  BY <1>1, <1>5, <1>6
  DEF Types, Emitting, Stamps, schemaVars, watchVars, countVars
<1>8. TypeOK'
  BY <1>1, <1>4, <1>5, <1>6 DEF Types, TypeOK, Points, schemaVars, watchVars, countVars
<1> QED
  BY <1>7, <1>8 DEF Types

\* What a file cut short leaves has the types of what was there.
LEMMA TornTypes ==
    ASSUME Types, TornWrite \/ UNCHANGED <<art, cache, files, snap>>
    PROVE  /\ art' \in [Artifacts -> Revisions \cup {None, Torn}]
           /\ cache' \in [Components -> Hashes] \cup {Torn}
           /\ files' \in SUBSET Files
           /\ snap' \in (SUBSET Tables) \cup {Torn}
<1>1. CASE pc = "emit" /\ files' = WithFile(First(run.left), Torn) /\ UNCHANGED <<art, cache, snap>>
  BY <1>1, FileTypes DEF Types, TypeOK
<1>2. CASE art' = [art EXCEPT ![NextArtifact] = Torn] /\ UNCHANGED <<cache, files, snap>>
  BY <1>2 DEF Types, TypeOK
<1>3. CASE snap' \in {{}, Torn} /\ UNCHANGED <<art, cache, files>>
  BY <1>3 DEF Types, TypeOK
<1>4. CASE cache' = Torn /\ UNCHANGED <<art, files, snap>>
  BY <1>4 DEF Types, TypeOK
<1>5. CASE UNCHANGED <<art, cache, files, snap>>
  BY <1>5 DEF Types, TypeOK
<1> QED
  BY <1>1, <1>2, <1>3, <1>4, <1>5 DEF TornWrite

LEMMA InterruptTypes == ASSUME Types, Interrupt PROVE Types'
<1>1. /\ faults' \in 0..MaxFaults
      /\ UNCHANGED <<schemaVars, clock, runs, watchOpts>>
      /\ pc' = "idle"
  BY BoundsAssumption DEF Interrupt, EndRun, Types, TypeOK
<1>2. /\ art' \in [Artifacts -> Revisions \cup {None, Torn}]
      /\ cache' \in [Components -> Hashes] \cup {Torn}
      /\ files' \in SUBSET Files
      /\ snap' \in (SUBSET Tables) \cup {Torn}
  BY TornTypes DEF Interrupt
<1>3. /\ run' = NoRun
      /\ watch' \in {"off", "first", "adding", "on"}
      /\ event' \in BOOLEAN /\ armed' \in BOOLEAN
      /\ (event' => event) /\ (armed' => armed)
  <2>1. CASE EndRun(FALSE)
    BY <2>1 DEF EndRun, Types, TypeOK
  <2>2. CASE run' = NoRun /\ watch' = "off" /\ event' = FALSE /\ armed' = FALSE
    BY <2>2
  <2> QED
    BY <2>1, <2>2 DEF Interrupt
<1>4. Emitting' /\ run' \in Runs
  BY <1>1, <1>3, IdleEmits, RunTypes
<1>5. Stamps'
  BY <1>1, <1>3, BoundsAssumption
  DEF Types, TypeOK, Stamps, Bit, schemaVars, Revisions, MaxStamp
<1>6. TypeOK'
  BY <1>1, <1>2, <1>3, <1>4 DEF Types, TypeOK, Points, schemaVars
<1> QED
  BY <1>4, <1>5, <1>6 DEF Types

\* The steps that only move the run on or concern watch mode, the developer
\* and the cache.
LEMMA OtherTypes ==
    ASSUME Types,
           \/ \E opts \in Options : StartRun(opts) \/ StartWatch(opts)
           \/ LoadState \/ ParseSchema \/ WriteSnapshot \/ SaveState
           \/ AddWatch \/ ReceiveEvent \/ Fire \/ StopWatch \/ EditSchema \/ ClearCache
    PROVE  Types'
<1> USE BoundsAssumption DEF Revisions, MaxStamp
<1>t. TypeOK /\ Stamps /\ Emitting /\ run \in Runs
  BY DEF Types, TypeOK
<1>1. ASSUME NEW opts \in Options, StartRun(opts) \/ StartWatch(opts) PROVE Types'
  <2>1. opts \in OptionSet /\ Begin(opts)
    BY <1>1, OptionsAssumption DEF StartRun, StartWatch
  <2>2. pc' \in Points /\ run' \in Runs /\ Emitting' /\ pc' = "load" /\ pc = "idle"
    BY <2>1, BeginTypes
  <2>3. /\ runs' = runs + 1 /\ runs < MaxRuns
        /\ watch' \in {watch, "first"} /\ watchOpts' \in {watchOpts, opts}
        /\ UNCHANGED <<schemaVars, art, cache, migrationVars, event, armed, faults>>
    BY <1>1 DEF StartRun, StartWatch, watchVars
  <2>4. TypeOK'
    BY <1>t, <2>1, <2>2, <2>3 DEF TypeOK, schemaVars, migrationVars
  <2>5. Stamps'
    BY <1>t, <2>2, <2>3 DEF TypeOK, Stamps, Bit, schemaVars, migrationVars
  <2> QED
    BY <2>2, <2>4, <2>5 DEF Types
<1>2. CASE Fire
  <2>1. watchOpts \in OptionSet /\ Begin(watchOpts)
    BY <1>2 DEF Fire, Types, TypeOK
  <2>2. pc' \in Points /\ run' \in Runs /\ Emitting' /\ pc' = "load" /\ pc = "idle"
    BY <2>1, BeginTypes
  <2>3. /\ armed /\ armed' = FALSE
        /\ UNCHANGED <<schemaVars, art, cache, migrationVars, watch, watchOpts, event, countVars>>
    BY <1>2 DEF Fire
  <2>4. TypeOK'
    BY <1>t, <2>1, <2>2, <2>3 DEF TypeOK, schemaVars, migrationVars, countVars
  <2>5. Stamps'
    BY <1>t, <2>2, <2>3 DEF TypeOK, Stamps, Bit, schemaVars, migrationVars, countVars
  <2> QED
    BY <2>2, <2>4, <2>5 DEF Types
<1>3. ASSUME NEW ok \in BOOLEAN, EndRun(ok), cache' \in [Components -> Hashes] \cup {Torn},
             UNCHANGED <<schemaVars, art, migrationVars, countVars>>
      PROVE  Types'
  <2>1. /\ pc' \in Points /\ run' \in Runs /\ watch' \in {"off", "first", "adding", "on"}
        /\ UNCHANGED <<watchOpts, event, armed>> /\ Emitting' /\ pc' = "idle"
    BY <1>3, EndTypes
  <2>2. TypeOK'
    BY <1>t, <1>3, <2>1 DEF TypeOK, schemaVars, migrationVars, countVars
  <2>3. Stamps'
    BY <1>t, <1>3, <2>1 DEF TypeOK, Stamps, Bit, schemaVars, migrationVars, countVars
  <2> QED
    BY <2>1, <2>2, <2>3 DEF Types
<1>4. ASSUME run' \in Runs, run'.changes = run.changes, run'.left = run.left,
             \/ pc = "load" /\ pc' = "parse"
             \/ pc = "parse" /\ pc' = "write"
             \/ pc = "snapshot" /\ pc' = "save",
             snap' \in (SUBSET Tables) \cup {Torn},
             UNCHANGED <<schemaVars, art, cache, files, clock, watchVars, countVars>>
      PROVE  Types'
  <2>1. TypeOK'
    BY <1>t, <1>4 DEF TypeOK, Points, schemaVars, watchVars, countVars
  <2>2. Stamps'
    BY <1>t, <1>4 DEF TypeOK, Stamps, Bit, schemaVars, watchVars, countVars
  <2>3. Emitting'
    BY <1>t, <1>4 DEF Emitting
  <2> QED
    BY <2>1, <2>2, <2>3 DEF Types
<1>5. CASE LoadState
  <2>1. CASE cache = Torn /\ EndRun(FALSE)
    BY <1>t, <1>3, <1>5, <2>1 DEF LoadState, TypeOK
  <2>2. CASE cache # Torn /\ run' = [run EXCEPT !.st = cache] /\ pc' = "parse" /\ UNCHANGED watchVars
    <3>1. run' \in Runs /\ run'.changes = run.changes /\ run'.left = run.left
      BY <1>t, <2>2 DEF TypeOK, Runs
    <3>2. snap' \in (SUBSET Tables) \cup {Torn} /\ pc = "load"
      BY <1>t, <1>5 DEF LoadState, TypeOK, migrationVars
    <3>3. UNCHANGED <<schemaVars, art, cache, files, clock, watchVars, countVars>>
      BY <1>5, <2>2 DEF LoadState, migrationVars
    <3> QED
      BY <1>4, <2>2, <3>1, <3>2, <3>3
  <2> QED
    BY <1>5, <2>1, <2>2 DEF LoadState
<1>6. CASE ParseSchema
  <2>1. Planned(run.opts, run.st, rev) \in SUBSET Artifacts /\ rev \in Revisions
    BY <1>t DEF Planned, TypeOK
  <2>2. run' \in Runs /\ run'.changes = run.changes /\ run'.left = run.left
    BY <1>t, <1>6, <2>1 DEF ParseSchema, Runs
  <2>3. snap' \in (SUBSET Tables) \cup {Torn} /\ pc = "parse" /\ pc' = "write"
    BY <1>t, <1>6 DEF ParseSchema, TypeOK, migrationVars
  <2>4. UNCHANGED <<schemaVars, art, cache, files, clock, watchVars, countVars>>
    BY <1>6 DEF ParseSchema, migrationVars
  <2> QED
    BY <1>4, <2>2, <2>3, <2>4
<1>7. CASE WriteSnapshot
  <2>1. snap' \in SUBSET Tables
    BY <1>t, <1>7 DEF WriteSnapshot, TypeOK, Runs
  <2> QED
    BY <1>t, <1>4, <1>7, <2>1 DEF WriteSnapshot
<1>8. CASE SaveState
  <2>1. cache' \in [Components -> Hashes] \cup {Torn}
    BY <1>t, <1>8 DEF SaveState, TypeOK, Runs
  <2> QED
    BY <1>3, <1>8, <2>1 DEF SaveState
<1>9. CASE AddWatch \/ ReceiveEvent \/ StopWatch \/ EditSchema \/ ClearCache
  <2>1. UNCHANGED <<shape, art, migrationVars, pc, run, watchOpts, countVars>>
    BY <1>9 DEF AddWatch, ReceiveEvent, StopWatch, EditSchema, ClearCache, schemaVars, watchVars
  <2>2. Emitting'
    BY <1>t, <2>1 DEF Emitting, migrationVars
  <2>3. CASE EditSchema
    <3>1. /\ rev' \in Revisions /\ edits' \in Revisions /\ edits' = edits + 1
          /\ UNCHANGED <<cache, watch, armed>> /\ event' \in BOOLEAN
      BY <1>t, <2>3 DEF TypeOK, EditSchema
    <3>2. Stamps'
      BY <1>t, <2>1, <3>1 DEF TypeOK, Stamps, Bit, migrationVars, countVars
    <3>3. TypeOK'
      BY <1>t, <2>1, <3>1 DEF TypeOK, migrationVars, countVars
    <3> QED
      BY <2>2, <3>2, <3>3 DEF Types
  <2>4. CASE ~EditSchema
    <3>1. /\ UNCHANGED <<rev, edits>>
          /\ watch' \in {"off", "first", "adding", "on"}
          /\ cache' \in [Components -> Hashes] \cup {Torn}
      BY <1>t, <1>9, <2>4, RunTypes
      DEF TypeOK, AddWatch, ReceiveEvent, StopWatch, ClearCache, schemaVars, watchVars
    <3>2. event' \in BOOLEAN /\ armed' \in BOOLEAN
      BY <1>t, <1>9, <2>4 DEF TypeOK, AddWatch, ReceiveEvent, StopWatch, ClearCache, watchVars
    <3>5. \/ (event' => event) /\ (armed' => armed)
          \/ event /\ ~event'
      BY <1>9, <2>4 DEF AddWatch, ReceiveEvent, StopWatch, ClearCache, watchVars
    <3>3. Stamps'
      BY <1>t, <2>1, <3>1, <3>2, <3>5 DEF TypeOK, Stamps, Bit, migrationVars, countVars
    <3>4. TypeOK'
      BY <1>t, <2>1, <3>1, <3>2 DEF TypeOK, migrationVars, countVars
    <3> QED
      BY <2>2, <3>3, <3>4 DEF Types
  <2> QED
    BY <2>3, <2>4
<1> QED
  BY <1>1, <1>2, <1>5, <1>6, <1>7, <1>8, <1>9

LEMMA NextTypes == Types /\ [Next]_vars => Types'
<1> SUFFICES ASSUME Types, [Next]_vars PROVE Types'
  OBVIOUS
<1>1. CASE UNCHANGED vars
  BY <1>1 DEF Types, TypeOK, Stamps, Emitting, Single, vars, schemaVars, migrationVars, watchVars,
              countVars
<1> QED
  BY <1>1, WriteTypes, DiffSchemaTypes, EmitTypes, InterruptTypes, OtherTypes DEF Next, Step

\* Every state of a project and its runs has the types that TypeOK states;
\* the stamps of the migrations are bounded by the runs and the edits.
THEOREM TypeCorrect == Spec => []TypeOK
<1>1. Init => Types
  BY InitTypes
<1>2. Types /\ [Next]_vars => Types'
  BY NextTypes
<1>3. Types => TypeOK
  BY DEF Types
<1> QED
  BY <1>1, <1>2, <1>3, PTL DEF Spec

-----------------------------------------------------------------------------
(* What a --force run delivers. *)

Running == {"write", "emit", "snapshot", "save"}

\* The artifacts of the flags are written or still to write, and the snapshot
\* is written before the state is saved.
Delivering ==
    run.opts.force /\ ~run.opts.dry =>
        /\ pc \in Running =>
              \A a \in Artifacts : Owner(a) \in run.opts.only => a \in run.todo \/ art[a] = run.ent
        /\ pc \in Running \ {"write"} => run.todo = {}
        /\ pc = "save" => snap = shape[run.ent]

LEMMA DeliveringStep ==
    ASSUME Types, Delivering, [Next]_vars PROVE Delivering'
<1> USE DEF Running
<1>t. TypeOK /\ run \in Runs /\ run.opts \in OptionSet
  BY DEF Types, TypeOK, Runs
<1>1. CASE pc' \in {"idle", "load", "parse"}
  BY <1>1 DEF Delivering
<1>2. CASE UNCHANGED <<shape, art, snap, pc, run>>
  BY <1>2 DEF Delivering
<1>3. CASE ParseSchema
  <2>1. run'.opts = run.opts /\ run'.ent = rev /\ run'.todo = Planned(run.opts, run.st, rev)
    BY <1>t, <1>3 DEF ParseSchema, Runs
  <2>2. run.opts.force /\ ~run.opts.dry =>
            \A a \in Artifacts : Owner(a) \in run.opts.only => a \in run'.todo
    BY <2>1 DEF Planned
  <2> QED
    BY <1>3, <2>1, <2>2 DEF ParseSchema, Delivering
<1>4. CASE WriteArtifact
  <2>1. PICK a \in run.todo : /\ a \in Artifacts /\ art' = [art EXCEPT ![a] = run.ent]
                              /\ run'.todo = run.todo \ {a} /\ run'.opts = run.opts
                              /\ run'.ent = run.ent /\ pc = "write" /\ pc' = "write"
    BY <1>t, <1>4, NextIsToDo DEF WriteArtifact, Runs
  <2>2. art'[a] = run.ent /\ \A b \in Artifacts \ {a} : art'[b] = art[b]
    BY <1>t, <2>1 DEF TypeOK
  <2> QED
    BY <2>1, <2>2 DEF Delivering
<1>5. CASE DiffSchema /\ pc' # "idle"
  <2>1. /\ run.todo = {} /\ pc = "write" /\ UNCHANGED art
        /\ run'.todo = run.todo /\ run'.opts = run.opts /\ run'.ent = run.ent
        /\ pc' = "save" => run.opts.dry \/ ~run.opts.force
        /\ pc' \in {"save", "emit", "snapshot"}
    BY <1>t, <1>5 DEF DiffSchema, EndRun, Runs
  <2> QED
    BY <2>1 DEF Delivering
<1>6. CASE EmitFile
  <2>1. /\ pc = "emit" /\ pc' \in {"emit", "snapshot"} /\ UNCHANGED art
        /\ run'.todo = run.todo /\ run'.opts = run.opts /\ run'.ent = run.ent
    BY <1>t, <1>6 DEF EmitFile, Runs
  <2> QED
    BY <2>1 DEF Delivering
<1>7. CASE WriteSnapshot
  BY <1>7 DEF WriteSnapshot, Delivering, schemaVars
<1>8. CASE \/ \E opts \in Options : StartRun(opts) \/ StartWatch(opts)
           \/ LoadState \/ SaveState \/ Interrupt \/ Fire
  BY <1>1, <1>8 DEF StartRun, StartWatch, Begin, LoadState, SaveState, EndRun, Interrupt, Fire
<1>9. CASE AddWatch \/ ReceiveEvent \/ StopWatch \/ EditSchema \/ ClearCache \/ UNCHANGED vars
  BY <1>2, <1>9 DEF AddWatch, ReceiveEvent, StopWatch, EditSchema, ClearCache, vars, schemaVars,
                    migrationVars
<1> QED
  BY <1>1, <1>3, <1>4, <1>5, <1>6, <1>7, <1>8, <1>9 DEF Next, Step

\* A --force run that ends well has written everything it was asked for from
\* the schema it parsed (buildComponentPlan, generateMigrations), whatever was
\* there before, whatever the developer did meanwhile.
THEOREM ForceCorrect == Spec => ForceDelivers
<1> DEFINE Done ==
      SaveState /\ run.opts.force /\ ~run.opts.dry =>
          /\ \A a \in Artifacts : Owner(a) \in run.opts.only => art[a] = run.ent
          /\ "migrations" \in run.opts.only => snap = shape[run.ent]
<1>1. Init => Types /\ Delivering
  <2>1. Init => Delivering
    BY DEF Init, Delivering, Running
  <2> QED
    BY <2>1, InitTypes
<1>2. Types /\ Delivering /\ [Next]_vars => (Types /\ Delivering)'
  BY NextTypes, DeliveringStep
<1>3. Delivering => Done
  BY DEF Delivering, Running, SaveState, ReadyToSave
<1>4. Delivering /\ [Next]_vars => [Done]_vars
  BY <1>3
<1> QED
  BY <1>1, <1>2, <1>4, PTL DEF Spec, ForceDelivers

-----------------------------------------------------------------------------
(* Skipping, where every edit changes the signature and none is taken back. *)

\* Hash h of artifact x says that x comes from revision h or a later one.
Covers(h, x, r) == h # None => x \in (h..r) \cup {Torn}

\* The artifacts and the hashes a run can meet are of revisions up to r.
Upto(r) ==
    /\ \A a \in Artifacts : art[a] \in (0..r) \cup {None, Torn}
    /\ cache # Torn => \A c \in Components : cache[c] \in (0..r) \cup {None}

Sound ==
    /\ Upto(rev)
    /\ cache # Torn => \A a \in Artifacts : Covers(cache[Owner(a)], art[a], rev)
    /\ pc \in Running => run.ent <= rev /\ Upto(run.ent)
    /\ pc \in Running \cup {"parse"} =>
          /\ \A a \in Artifacts : Covers(run.st[Owner(a)], art[a], rev)
          /\ \A c \in Components :
                run.st[c] \in (0..(IF pc = "parse" THEN rev ELSE run.ent)) \cup {None}
    /\ pc = "write" => \A a, b \in Artifacts :
          Owner(a) = Owner(b) /\ b \in run.todo => a \in run.todo \/ art[a] = run.ent

LEMMA HashIsRevision ==
    ASSUME Unsigned = {}, NEW r \in Revisions PROVE Hash(r) = r
<1>1. r \in Nat
  BY BoundsAssumption DEF Revisions
<1>2. Hash(r) \in 0..r /\ (Hash(r) + 1)..r \subseteq Unsigned
  <2>1. r \in 0..r /\ r \notin Unsigned /\ (r + 1)..r \subseteq Unsigned
    BY <1>1
  <2> QED
    BY <2>1 DEF Hash
<1>3. ASSUME Hash(r) # r PROVE FALSE
  <2>1. Hash(r) + 1 \in (Hash(r) + 1)..r
    BY <1>1, <1>2, <1>3
  <2> QED
    BY <1>2, <2>1
<1> QED
  BY <1>3

LEMMA SoundWrite ==
    ASSUME Types, Unsigned = {}, Sound, WriteArtifact PROVE Sound'
<1> DEFINE a == NextArtifact
           c == Owner(a)
           h == IF \E b \in run.todo \ {a} : Owner(b) = c THEN run.st[c] ELSE Hash(run.ent)
<1>1. /\ run \in Runs /\ run.ent \in Revisions /\ run.ent \in Nat /\ rev \in Nat /\ run.ent <= rev
      /\ art \in [Artifacts -> Revisions \cup {None, Torn}] /\ pc = "write"
  BY BoundsAssumption DEF Types, TypeOK, Runs, WriteArtifact, Sound, Running, Revisions
<1>2. a \in run.todo /\ a \in Artifacts
  BY <1>1, NextIsToDo DEF WriteArtifact, Runs
<1>3. c \in Components /\ \A b \in Artifacts : Owner(b) \in Components
  BY DEF Owner, Components
<1>4. Hash(run.ent) = run.ent
  BY <1>1, HashIsRevision
<1>5. /\ art' = [art EXCEPT ![a] = run.ent]
      /\ run' = [run EXCEPT !.todo = run.todo \ {a}, !.st = [run.st EXCEPT ![c] = h]]
      /\ UNCHANGED <<rev, cache, pc>>
  BY DEF WriteArtifact, schemaVars
<1>6. \/ h = run.st[c]
      \/ h = run.ent /\ \A b \in run.todo \ {a} : Owner(b) # c
  BY <1>4
<1>7. c = Owner(a)
  OBVIOUS
<1> HIDE DEF a, c, h
<1>8. art'[a] = run.ent /\ \A b \in Artifacts : b # a => art'[b] = art[b]
  BY <1>1, <1>2, <1>5
<1>9. /\ run'.ent = run.ent /\ run'.todo = run.todo \ {a}
      /\ run'.st[c] = h /\ \A d \in Components : d # c => run'.st[d] = run.st[d]
  BY <1>1, <1>3, <1>5 DEF Runs
<1>10. Upto(run.ent)' /\ Upto(rev)'
  <2>1. Upto(run.ent) /\ Upto(rev)
    BY <1>1 DEF Sound, Running
  <2>2. \A b \in Artifacts : /\ art'[b] \in (0..run.ent) \cup {None, Torn}
                             /\ art'[b] \in (0..rev) \cup {None, Torn}
    BY <1>1, <1>8, <2>1 DEF Upto
  <2> QED
    BY <1>5, <1>9, <2>1, <2>2 DEF Upto
<1>11. ASSUME cache' # Torn, NEW b \in Artifacts PROVE Covers(cache'[Owner(b)], art'[b], rev')
  <2>1. Covers(cache[Owner(b)], art[b], rev) /\ cache[Owner(b)] \in (0..run.ent) \cup {None}
    BY <1>1, <1>3, <1>5, <1>11 DEF Sound, Running, Upto
  <2> QED
    BY <1>1, <1>5, <1>8, <2>1 DEF Covers
<1>12. ASSUME NEW b \in Artifacts PROVE Covers(run'.st[Owner(b)], art'[b], rev')
  <2>1. /\ Covers(run.st[Owner(b)], art[b], rev)
        /\ run.st[Owner(b)] \in (0..run.ent) \cup {None}
    BY <1>1, <1>3 DEF Sound, Running
  <2>2. CASE run'.st[Owner(b)] = run.st[Owner(b)]
    BY <1>1, <1>5, <1>8, <2>1, <2>2 DEF Covers
  <2>3. CASE run'.st[Owner(b)] # run.st[Owner(b)]
    <3>1. Owner(b) = c /\ h = run.ent /\ \A d \in run.todo \ {a} : Owner(d) # c
      BY <1>3, <1>6, <1>9, <2>3
    <3>2. b = a \/ b \notin run.todo
      BY <3>1
    <3>3. art'[b] = run.ent
      BY <1>1, <1>2, <1>7, <1>8, <3>1, <3>2 DEF Sound
    <3> QED
      BY <1>1, <1>5, <1>9, <3>1, <3>3 DEF Covers
  <2> QED
    BY <2>2, <2>3
<1>13. \A d \in Components : run'.st[d] \in (0..run'.ent) \cup {None}
  <2>1. \A d \in Components : run.st[d] \in (0..run.ent) \cup {None}
    BY <1>1 DEF Sound, Running
  <2> QED
    BY <1>1, <1>3, <1>6, <1>9, <2>1
<1>14. ASSUME NEW x \in Artifacts, NEW b \in Artifacts, Owner(x) = Owner(b), b \in run'.todo
       PROVE  x \in run'.todo \/ art'[x] = run'.ent
  BY <1>1, <1>8, <1>9, <1>14 DEF Sound
<1> QED
  BY <1>1, <1>5, <1>9, <1>10, <1>11, <1>12, <1>13, <1>14 DEF Sound, Running

\* Between runs only the artifacts and the cache count.
LEMMA SoundIdle ==
    ASSUME pc' \in {"idle", "load"}, Upto(rev)',
           cache' # Torn => \A a \in Artifacts : Covers(cache'[Owner(a)], art'[a], rev')
    PROVE  Sound'
BY DEF Sound, Running

\* Where artifacts, cache and the run's own state are left alone.
LEMMA SoundStays ==
    ASSUME Sound, UNCHANGED <<art, cache>>, run'.ent = run.ent, run'.st = run.st,
           run'.todo = run.todo, run.ent \in Nat, rev \in Nat, rev' \in Nat, rev <= rev',
           \/ pc' = pc /\ (pc = "parse" => rev' = rev \/ rev' = rev + 1)
           \/ pc \in Running /\ pc' \in Running \ {"write"}
    PROVE  Sound'
<1>1. Upto(rev)'
  BY DEF Sound, Upto
<1>2. \A h \in Nat \cup {None} : \A x : Covers(h, x, rev) => Covers(h, x, rev')
  BY DEF Covers
<1>3. \A a \in Artifacts : Owner(a) \in Components
  BY DEF Owner, Components
<1>4. cache # Torn => \A a \in Artifacts : Covers(cache[Owner(a)], art[a], rev')
  BY <1>2, <1>3 DEF Sound, Upto
<1>5. pc' \in Running => pc \in Running /\ (pc' = "write" => pc = "write")
  BY DEF Running
<1>6. pc \in Running => run.ent <= rev /\ run.ent <= rev' /\ Upto(run.ent)'
  <2>1. pc \in Running => run.ent <= rev /\ Upto(run.ent) /\ run.ent \in Nat
    BY DEF Sound
  <2> QED
    BY <2>1 DEF Upto
<1>7. pc' = "parse" => pc = "parse"
  BY DEF Running
<1>8. ASSUME pc' \in Running \cup {"parse"}
      PROVE  /\ \A a \in Artifacts : Covers(run'.st[Owner(a)], art'[a], rev')
             /\ \A c \in Components :
                   run'.st[c] \in (0..(IF pc' = "parse" THEN rev' ELSE run'.ent)) \cup {None}
  <2>1. /\ \A a \in Artifacts : Covers(run.st[Owner(a)], art[a], rev)
        /\ \A c \in Components :
              run.st[c] \in (0..(IF pc = "parse" THEN rev ELSE run.ent)) \cup {None}
    BY <1>5, <1>7, <1>8 DEF Sound
  <2>2. \A c \in Components : run.st[c] \in Nat \cup {None}
    BY <2>1
  <2>3. pc = "parse" <=> pc' = "parse"
    BY <1>7, <1>8 DEF Running
  <2>4. \A a \in Artifacts : Covers(run.st[Owner(a)], art[a], rev')
    BY <1>2, <1>3, <2>1, <2>2
  <2>5. \A c \in Components :
           run.st[c] \in (0..(IF pc' = "parse" THEN rev' ELSE run.ent)) \cup {None}
    BY <2>1, <2>3
  <2> QED
    BY <2>4, <2>5
<1>9. pc' = "write" => \A a, b \in Artifacts :
          Owner(a) = Owner(b) /\ b \in run'.todo => a \in run'.todo \/ art'[a] = run'.ent
  BY <1>5 DEF Sound, Running
<1> QED
  BY <1>1, <1>4, <1>5, <1>6, <1>8, <1>9 DEF Sound

LEMMA SoundParse ==
    ASSUME Types, Unsigned = {}, Sound, ParseSchema PROVE Sound'
<1>1. /\ run \in Runs /\ rev \in Nat /\ rev \in Revisions
  BY BoundsAssumption DEF Types, TypeOK, Revisions
<1>2. /\ pc = "parse" /\ pc' = "write" /\ UNCHANGED <<art, cache, rev>>
      /\ run'.ent = rev /\ run'.st = run.st /\ run'.todo = Planned(run.opts, run.st, rev)
  BY <1>1 DEF ParseSchema, Runs, schemaVars
<1>3. \A a, b \in Artifacts : Owner(a) = Owner(b) /\ b \in run'.todo => a \in run'.todo
  BY <1>2 DEF Planned
<1> QED
  BY <1>1, <1>2, <1>3 DEF Sound, Running, Upto

LEMMA SoundLoad ==
    ASSUME Types, Sound, LoadState PROVE Sound'
<1>1. run \in Runs /\ UNCHANGED <<art, cache, rev>>
  BY DEF Types, TypeOK, LoadState, schemaVars
<1>2. CASE cache = Torn /\ EndRun(FALSE)
  BY <1>1, <1>2, SoundIdle DEF EndRun, Sound, Upto
<1>3. CASE cache # Torn /\ run' = [run EXCEPT !.st = cache] /\ pc' = "parse"
  <2>1. run'.st = cache
    BY <1>1, <1>3 DEF Runs
  <2> QED
    BY <1>1, <1>3, <2>1 DEF Sound, Running, Upto
<1> QED
  BY <1>2, <1>3 DEF LoadState

LEMMA SoundSave ==
    ASSUME Types, Sound, SaveState PROVE Sound'
<1>1. /\ pc' = "idle" /\ UNCHANGED <<art, rev>> /\ pc \in Running /\ run.ent <= rev
      /\ run.ent \in Nat /\ rev \in Nat
  BY BoundsAssumption
  DEF Types, TypeOK, Runs, Revisions, SaveState, EndRun, ReadyToSave, Sound, Running, schemaVars
<1>2. CASE cache' = cache
  BY <1>1, <1>2, SoundIdle DEF Sound, Upto
<1>3. CASE cache' = run.st
  <2>1. \A c \in Components : run.st[c] \in (0..run.ent) \cup {None}
    BY <1>1 DEF Sound, Running
  <2>2. Upto(rev)'
    BY <1>1, <1>3, <2>1 DEF Sound, Upto
  <2>3. \A a \in Artifacts : Covers(run.st[Owner(a)], art[a], rev)
    BY <1>1 DEF Sound
  <2> QED
    BY <1>1, <1>3, <2>2, <2>3, SoundIdle
<1> QED
  BY <1>2, <1>3 DEF SaveState

LEMMA SoundInterrupt ==
    ASSUME Types, Sound, Interrupt PROVE Sound'
<1>1. pc' = "idle" /\ UNCHANGED rev
  BY DEF Interrupt, EndRun, schemaVars
<1>2. \A a \in Artifacts : art'[a] \in {art[a], Torn}
  <2>1. art \in [Artifacts -> Revisions \cup {None, Torn}]
    BY DEF Types, TypeOK
  <2>2. CASE art' = [art EXCEPT ![NextArtifact] = Torn]
    BY <2>1, <2>2
  <2> QED
    BY <2>2 DEF Interrupt, TornWrite
<1>3. cache' \in {cache, Torn}
  BY DEF Interrupt, TornWrite
<1>4. Upto(rev)'
  BY <1>1, <1>2, <1>3 DEF Sound, Upto
<1>5. cache' # Torn => \A a \in Artifacts : Covers(cache'[Owner(a)], art'[a], rev')
  BY <1>1, <1>2, <1>3 DEF Sound, Covers
<1> QED
  BY <1>1, <1>4, <1>5, SoundIdle

LEMMA SoundStep ==
    ASSUME Unsigned = {}, Reverts = FALSE, Types, Sound, [Next]_vars PROVE Sound'
<1>t. TypeOK /\ run \in Runs /\ rev \in Nat /\ run.ent \in Nat
  BY BoundsAssumption DEF Types, TypeOK, Runs, Revisions
<1>1. ASSUME pc' = "load", UNCHANGED <<art, cache, rev>> PROVE Sound'
  BY <1>1, SoundIdle DEF Sound, Upto
<1>2. CASE (\E opts \in Options : StartRun(opts) \/ StartWatch(opts)) \/ Fire
  BY <1>1, <1>2 DEF StartRun, StartWatch, Fire, Begin, schemaVars
<1>3. CASE DiffSchema
  <2>1. UNCHANGED <<art, cache, rev>> /\ pc = "write"
    BY <1>3 DEF DiffSchema, schemaVars
  <2>2. CASE pc' = "idle"
    BY <2>1, <2>2, SoundIdle DEF Sound, Upto
  <2>3. CASE pc' # "idle"
    <3>1. /\ run'.ent = run.ent /\ run'.st = run.st /\ run'.todo = run.todo
          /\ pc' \in {"save", "emit", "snapshot"}
      BY <1>t, <1>3, <2>3 DEF DiffSchema, EndRun, Runs
    <3> QED
      BY <1>t, <2>1, <3>1, SoundStays DEF Running
  <2> QED
    BY <2>2, <2>3
<1>4. CASE EmitFile \/ WriteSnapshot
  <2>1. /\ run'.ent = run.ent /\ run'.st = run.st /\ run'.todo = run.todo
        /\ UNCHANGED <<art, cache, rev>> /\ pc \in Running /\ pc' \in Running \ {"write"}
    BY <1>t, <1>4 DEF EmitFile, WriteSnapshot, Runs, Running, schemaVars
  <2> QED
    BY <1>t, <2>1, SoundStays
<1>5. CASE EditSchema
  <2>1. UNCHANGED <<art, cache, pc, run>> /\ rev' = rev + 1
    BY <1>5 DEF EditSchema
  <2> QED
    BY <1>t, <2>1, SoundStays
<1>6. CASE AddWatch \/ ReceiveEvent \/ StopWatch \/ UNCHANGED vars
  <2>1. UNCHANGED <<art, cache, pc, run, rev>>
    BY <1>6 DEF AddWatch, ReceiveEvent, StopWatch, vars, schemaVars
  <2> QED
    BY <1>t, <2>1, SoundStays
<1>7. CASE ClearCache
  <2>1. pc' = "idle" /\ UNCHANGED <<art, rev>> /\ \A c \in Components : cache'[c] = None
    BY <1>7 DEF ClearCache, NoCache, schemaVars
  <2>2. \A a \in Artifacts : Owner(a) \in Components
    BY DEF Owner, Components
  <2> QED
    BY <2>1, <2>2, SoundIdle DEF Sound, Upto, Covers
<1> QED
  BY <1>2, <1>3, <1>4, <1>5, <1>6, <1>7, SoundWrite, SoundParse, SoundLoad, SoundSave,
     SoundInterrupt
  DEF Next, Step

LEMMA SoundInit == Init => Sound
<1> SUFFICES ASSUME Init PROVE Sound
  OBVIOUS
<1>1. pc = "idle" /\ rev = 0 /\ \A a \in Artifacts : art[a] = None
  BY DEF Init
<1>2. \A c \in Components : cache[c] = None
  BY DEF Init, NoCache
<1>3. \A a \in Artifacts : Owner(a) \in Components
  BY DEF Owner, Components
<1> QED
  BY <1>1, <1>2, <1>3 DEF Sound, Upto, Covers, Running

\* Where every edit changes the signature and none is taken back, a component
\* is skipped (buildComponentPlan) only when its artifacts are of the schema
\* the developer has, wherever earlier runs have stopped.
THEOREM SkippingIsSound ==
    ASSUME Unsigned = {}, Reverts = FALSE PROVE Spec => []SkipIsSound
<1>1. Init => Types /\ Sound
  BY InitTypes, SoundInit
<1>2. Types /\ Sound /\ [Next]_vars => (Types /\ Sound)'
  BY NextTypes, SoundStep
<1>3. Types /\ Sound => SkipIsSound
  <2> SUFFICES ASSUME Types, Sound, cache # Torn, NEW a \in Artifacts,
                      cache[Owner(a)] = Hash(rev)
               PROVE  art[a] \in {rev, Torn}
    BY DEF SkipIsSound
  <2>1. rev \in Revisions /\ rev \in Nat
    BY BoundsAssumption DEF Types, TypeOK, Revisions
  <2>2. cache[Owner(a)] = rev
    BY <2>1, HashIsRevision
  <2>3. Covers(rev, art[a], rev)
    BY <2>2 DEF Sound
  <2> QED
    BY <2>1, <2>3, NoneAssumption DEF Covers
<1> QED
  BY <1>1, <1>2, <1>3, PTL DEF Spec

-----------------------------------------------------------------------------
(* The migration files. *)

\* The names of one run's files grow with the order of its changes.
LEMMA SlotGrows ==
    ASSUME NEW S \in SUBSET Changes, Single(S), NEW x \in S, NEW y \in S, Precedes(x, y)
    PROVE  /\ Cardinality({z \in S : Precedes(z, x)}) \in Nat
           /\ Cardinality({z \in S : Precedes(z, y)}) \in Nat
           /\ Cardinality({z \in S : Precedes(z, x)}) < Cardinality({z \in S : Precedes(z, y)})
<1> DEFINE A == {z \in S : Precedes(z, x)}
           B == {z \in S : Precedes(z, y)}
           f == [z \in S |-> z.table]
<1>1. \A z \in S : z.op \in {"create", "drop"} /\ z.table \in Tables /\ z.table \in Nat
  BY TablesAssumption DEF Changes
<1>2. A \subseteq B \ {x} /\ x \in B
  BY <1>1 DEF Precedes
<1>3. f \in Injection(S, Tables)
  BY <1>1 DEF Injection, IsInjective, Single
<1>4. IsFiniteSet(S)
  BY <1>3, TablesAssumption, FS_Injection
<1>5. IsFiniteSet(B) /\ B \subseteq S
  BY <1>4, FS_Subset
<1>6. IsFiniteSet(B \ {x}) /\ Cardinality(B \ {x}) = Cardinality(B) - 1
  BY <1>2, <1>5, FS_RemoveElement
<1>7. IsFiniteSet(A) /\ Cardinality(A) <= Cardinality(B \ {x})
  BY <1>2, <1>6, FS_Subset
<1>8. Cardinality(A) \in Nat /\ Cardinality(B) \in Nat
  BY <1>5, <1>7, FS_CardinalityType
<1> HIDE DEF A, B
<1>9. Cardinality(A) < Cardinality(B)
  BY <1>6, <1>7, <1>8
<1> QED
  BY <1>8, <1>9 DEF A, B

\* Files of one run have names of their own.
LEMMA NamesDiffer ==
    ASSUME run.changes \in SUBSET Changes, Single(run.changes),
           NEW x \in run.changes, NEW y \in run.changes, x # y
    PROVE  FileName(x) # FileName(y)
<1> DEFINE Cx == Cardinality({z \in run.changes : Precedes(z, x)})
           Cy == Cardinality({z \in run.changes : Precedes(z, y)})
<1>1. /\ x.op \in {"create", "drop"} /\ y.op \in {"create", "drop"}
      /\ x.table \in Nat /\ y.table \in Nat /\ x.table # y.table
  BY TablesAssumption DEF Changes, Single
<1>2. CASE Precedes(x, y)
  <2>1. Cx \in Nat /\ Cy \in Nat /\ Cx < Cy
    BY <1>2, SlotGrows
  <2> QED
    <3>1. FileName(x).slot = Cx + 1 /\ FileName(y).slot = Cy + 1
      BY DEF FileName
    <3> HIDE DEF Cx, Cy
    <3> QED
      BY <2>1, <3>1
<1>3. CASE Precedes(y, x)
  <2>1. Cx \in Nat /\ Cy \in Nat /\ Cy < Cx
    BY <1>3, SlotGrows
  <2> QED
    <3>1. FileName(x).slot = Cx + 1 /\ FileName(y).slot = Cy + 1
      BY DEF FileName
    <3> HIDE DEF Cx, Cy
    <3> QED
      BY <2>1, <3>1
<1> QED
  BY <1>1, <1>2, <1>3 DEF Precedes

\* The files of a table that can be read, whether the last of them creates it,
\* and whether it is never created twice.
Of(F, t) == {f \in F : f.does # Torn /\ f.does.table = t}
Final(F, t) ==
    \E f \in Of(F, t) : f.does.op = "create" /\ \A g \in Of(F, t) \ {f} : Older(g, f)
Legal(F, t) ==
    \A f, g \in Of(F, t) :
        f.does.op = "create" /\ g.does.op = "create" /\ Older(f, g) =>
            \E h \in Of(F, t) : h.does.op = "drop" /\ Older(f, h) /\ Older(h, g)

LEMMA BuiltIsFinal ==
    /\ Built = {t \in Tables : Final(files, t)}
    /\ Replayable <=> (\A f \in files : f.does # Torn) /\ (\A t \in Tables : Legal(files, t))
BY DEF Built, Replayable, FilesFor, Final, Legal, Of

\* What one more file, the last of its table, does to its table.
LEMMA AppendFile ==
    ASSUME NEW F, NEW n, NEW t, n.does # Torn, n.does.table = t,
           \A f \in Of(F, t) : /\ Older(f, n) /\ ~Older(n, f)
                               /\ f.does.op \in {"create", "drop"},
           ~Older(n, n),
           \A f, g \in Of(F, t) : f # g => Older(f, g) \/ Older(g, f),
           Legal(F, t),
           n.does.op = "create" => ~Final(F, t)
    PROVE  /\ Legal(F \cup {n}, t)
           /\ Final(F \cup {n}, t) <=> n.does.op = "create"
<1> DEFINE S == Of(F, t)
           R == Of(F \cup {n}, t)
<1>1. R = S \cup {n}
  BY DEF Of
<1>f. \A f \in S : Older(f, n) /\ ~Older(n, f) /\ f.does.op \in {"create", "drop"}
  OBVIOUS
<1>l. \A f, g \in S :
        f.does.op = "create" /\ g.does.op = "create" /\ Older(f, g) =>
            \E h \in S : h.does.op = "drop" /\ Older(f, h) /\ Older(h, g)
  BY DEF Legal
<1>n. n.does.op = "create" =>
        ~ \E f \in S : f.does.op = "create" /\ \A g \in S \ {f} : Older(g, f)
  BY DEF Final
<1>g. \A f, g \in S : f # g => Older(f, g) \/ Older(g, f)
  OBVIOUS
<1> HIDE DEF S
<1>2. (\E f \in R : f.does.op = "create" /\ \A g \in R \ {f} : Older(g, f))
      <=> n.does.op = "create"
  <2> HIDE DEF R
  <2>1. ASSUME n.does.op = "create"
        PROVE  \E f \in R : f.does.op = "create" /\ \A g \in R \ {f} : Older(g, f)
    BY <1>1, <1>f, <2>1
  <2>2. ASSUME NEW f \in R, f.does.op = "create", \A g \in R \ {f} : Older(g, f)
        PROVE  n.does.op = "create"
    BY <1>1, <1>f, <2>2
  <2> QED
    BY <2>1, <2>2
<1>3. ASSUME NEW f \in R, NEW g \in R,
             f.does.op = "create", g.does.op = "create", Older(f, g)
      PROVE  \E h \in R : h.does.op = "drop" /\ Older(f, h) /\ Older(h, g)
  <2>r. f \in S \cup {n} /\ g \in S \cup {n}
    BY <1>1, <1>3
  <2>1. f \in S
    BY <1>f, <1>3, <2>r
  <2>2. CASE g \in S
    BY <1>1, <1>l, <1>3, <2>1, <2>2
  <2>3. CASE g = n
    <3>1. PICK h \in S : h # f /\ ~Older(h, f)
      BY <1>n, <1>3, <2>1, <2>3
    <3>2. Older(f, h)
      BY <1>g, <2>1, <3>1
    <3>3. CASE h.does.op = "drop"
      BY <1>1, <1>f, <2>3, <3>1, <3>2, <3>3
    <3>4. CASE h.does.op = "create"
      <4>1. PICK k \in S : k.does.op = "drop" /\ Older(f, k)
        BY <1>l, <1>3, <2>1, <3>1, <3>2, <3>4
      <4> QED
        BY <1>1, <1>f, <2>3, <4>1
    <3> QED
      BY <1>f, <3>1, <3>3, <3>4
  <2> QED
    BY <2>r, <2>2, <2>3
<1> QED
  BY <1>2, <1>3 DEF Legal, Final

\* What is known of the files whatever the run is doing.
FilesInOrder ==
    /\ snap # Torn
    /\ \A f \in files : f.does # Torn /\ f.name.stamp <= clock
    /\ \A f, g \in files : f.name = g.name => f = g
    /\ Replayable

\* In the middle of a run's files, the directory builds the snapshot changed by
\* what has been written.
Half ==
    LET written == run.changes \ run.left IN
    /\ run.changes = Diff(snap, shape[run.ent])
    /\ \A f \in files : f.name.stamp = clock => f.does \in written /\ f.name = FileName(f.does)
    /\ \A t \in Tables : t \in Built <=>
           IF \E x \in written : x.table = t THEN t \in shape[run.ent] ELSE t \in snap

Replay ==
    /\ FilesInOrder
    /\ pc \notin {"emit", "snapshot"} => Built = snap
    /\ pc = "emit" => Half
    /\ pc = "snapshot" => Built = shape[run.ent]

LEMMA FileFacts ==
    ASSUME Types
    PROVE  /\ \A f \in files : /\ f.name.stamp \in Nat /\ f.name.slot \in Nat
                               /\ f.name = [stamp |-> f.name.stamp, slot |-> f.name.slot]
                               /\ f.does \in Changes \cup {Torn}
           /\ clock \in Nat
<1>1. files \in SUBSET Files /\ clock \in Nat
  BY BoundsAssumption DEF Types, TypeOK, MaxStamp
<1>2. Cardinality(Tables) \in Nat
  BY TablesAssumption, FS_CardinalityType
<1>3. \A n \in Names : n.stamp \in Nat /\ n.slot \in Nat /\ n = [stamp |-> n.stamp, slot |-> n.slot]
  BY <1>2, BoundsAssumption DEF Names, MaxStamp
<1> QED
  BY <1>1, <1>3 DEF Files

\* The file of the next change is new and the last of its table.
LEMMA NewIsLast ==
    ASSUME Types, Replay, pc = "emit", NEW x \in run.left
    PROVE  /\ \A f \in files : f.name # FileName(x)
           /\ \A f \in FilesFor(x.table) : f.name.stamp < clock
<1>1. /\ run.changes \in SUBSET Changes /\ Single(run.changes)
      /\ run.left \subseteq run.changes
  BY DEF Types, TypeOK, Runs, Emitting
<1>2. Half
  BY DEF Replay
<1>3. FileName(x).stamp = clock
  BY DEF FileName
<1>4. ASSUME NEW f \in files, f.name = FileName(x) PROVE FALSE
  <2>1. f.does \in run.changes /\ f.does # x /\ f.name = FileName(f.does)
    BY <1>2, <1>3, <1>4 DEF Half
  <2> QED
    BY <1>1, <1>4, <2>1, NamesDiffer
<1>5. ASSUME NEW f \in FilesFor(x.table) PROVE f.name.stamp < clock
  <2>1. f \in files /\ f.does.table = x.table
    BY DEF FilesFor
  <2>2. f.name.stamp # clock
    BY <1>1, <1>2, <2>1 DEF Half, Single
  <2>3. f.name.stamp <= clock
    BY <2>1 DEF Replay, FilesInOrder
  <2>4. f.name.stamp \in Nat /\ clock \in Nat
    BY <2>1, FileFacts
  <2> QED
    BY <2>2, <2>3, <2>4
<1> QED
  BY <1>4, <1>5

\* Writing the file of the next change.
LEMMA EmitReplay ==
    ASSUME Types, Replay, EmitFile PROVE Replay'
<1> DEFINE x == First(run.left)
           n == [name |-> FileName(x), does |-> x]
           written == run.changes \ run.left
<1>t. /\ run \in Runs /\ run.changes \in SUBSET Changes /\ Single(run.changes)
      /\ run.left \subseteq run.changes
      /\ shape[run.ent] \in SUBSET Tables /\ files \in SUBSET Files
  BY DEF Types, TypeOK, Runs, Emitting
<1>e. /\ pc = "emit" /\ files' = WithFile(x, x)
      /\ run' = [run EXCEPT !.left = run.left \ {x}]
      /\ pc' = IF run.left = {x} THEN "snapshot" ELSE "emit"
      /\ UNCHANGED <<shape, snap, clock>>
  BY DEF EmitFile, schemaVars
<1>x. x \in run.left /\ x \in Changes
  BY <1>e, <1>t, FileTypes
<1>h. Half /\ FilesInOrder
  BY <1>e DEF Replay
<1>b. clock \in Nat /\ \A f \in files : f.name.stamp \in Nat /\ f.name.slot \in Nat
  BY FileFacts
<1>c. FileName(x).stamp = clock /\ FileName(x).slot \in Nat
  <2>1. FileName(x).stamp = clock
    BY DEF FileName
  <2>2. Cardinality({y \in run.changes : Precedes(y, x)}) + 1 \in 0..Cardinality(Tables)
    BY <1>t, <1>x, SlotsSuffice DEF Single
  <2>3. FileName(x).slot \in Nat
    BY <2>2, TablesAssumption, FS_CardinalityType DEF FileName
  <2> QED
    BY <2>1, <2>3
<1> HIDE DEF x
<1>w. /\ \A f \in files : f.name # FileName(x)
      /\ \A f \in FilesFor(x.table) : f.name.stamp < clock
  BY <1>e, <1>x, NewIsLast
<1>1. files' = files \cup {n}
  BY <1>e, <1>w DEF WithFile
<1>2. n.does = x /\ n.name.stamp = clock /\ n.name.slot \in Nat /\ n.name = FileName(x)
  BY <1>c
<1> HIDE DEF n
<1>3. x # Torn /\ x.op \in {"create", "drop"} /\ x.table \in Tables
  BY <1>x, TornAssumption DEF Changes
<1>4. /\ x.op = "create" <=> x.table \in shape[run.ent]
      /\ x.op = "create" <=> x.table \notin snap
  BY <1>h, <1>t, <1>x DEF Half, Diff
<1>5. \A y \in written : y.table # x.table
  BY <1>t, <1>x DEF Single
<1>6. x.op = "create" => ~Final(files, x.table)
  <2>1. x.table \in Built <=> x.table \in snap
    BY <1>h, <1>3, <1>5 DEF Half
  <2> QED
    BY <1>3, <1>4, <2>1, BuiltIsFinal
<1>7. \A f \in Of(files, x.table) : f \in files /\ f \in FilesFor(x.table) /\ f.does.op \in {"create", "drop"}
  BY <1>t DEF Of, FilesFor, Files, Changes
<1>8. \A f \in Of(files, x.table) : Older(f, n) /\ ~Older(n, f)
  <2> SUFFICES ASSUME NEW f \in Of(files, x.table) PROVE Older(f, n) /\ ~Older(n, f)
    OBVIOUS
  <2>1. f.name.stamp < n.name.stamp /\ f.name.stamp \in Nat /\ n.name.stamp \in Nat
    BY <1>2, <1>7, <1>b, <1>w
  <2> QED
    BY <2>1 DEF Older
<1>9. ~Older(n, n)
  BY <1>2, <1>b DEF Older
<1>10. \A f, g \in Of(files, x.table) : f # g => Older(f, g) \/ Older(g, f)
  <2> SUFFICES ASSUME NEW f \in files, NEW g \in files, f # g PROVE Older(f, g) \/ Older(g, f)
    BY <1>7
  <2>1. f.name # g.name
    BY <1>h DEF FilesInOrder
  <2>2. f.name.stamp # g.name.stamp \/ f.name.slot # g.name.slot
    BY <2>1, FileFacts
  <2>3. /\ f.name.stamp \in Nat /\ f.name.slot \in Nat
        /\ g.name.stamp \in Nat /\ g.name.slot \in Nat
    BY <1>b
  <2> QED
    BY <2>2, <2>3 DEF Older
<1>11. Legal(files, x.table) /\ \A t \in Tables : Legal(files, t)
  BY <1>h, <1>3, BuiltIsFinal DEF FilesInOrder
<1>12. Legal(files', x.table) /\ (Final(files', x.table) <=> x.op = "create")
  BY <1>1, <1>2, <1>3, <1>6, <1>7, <1>8, <1>9, <1>10, <1>11, AppendFile
<1>13. \A t \in Tables : t # x.table => Of(files', t) = Of(files, t)
  BY <1>1, <1>2 DEF Of
<1>14. \A t \in Tables : /\ Legal(files', t)
                         /\ t # x.table => (Final(files', t) <=> Final(files, t))
  BY <1>11, <1>12, <1>13 DEF Legal, Final
<1>15. /\ Built' = {t \in Tables : Final(files', t)}
       /\ Replayable' <=> (\A f \in files' : f.does # Torn) /\ (\A t \in Tables : Legal(files', t))
  BY DEF Built, Replayable, FilesFor, Final, Legal, Of
<1>16. FilesInOrder'
  <2>1. \A f \in files' : f.does # Torn /\ f.name.stamp <= clock
    BY <1>1, <1>2, <1>3, <1>b, <1>h DEF FilesInOrder
  <2>2. \A f, g \in files' : f.name = g.name => f = g
    BY <1>1, <1>2, <1>w, <1>h DEF FilesInOrder
  <2>3. snap' # Torn
    BY <1>e, <1>h DEF FilesInOrder
  <2> QED
    BY <1>e, <1>14, <1>15, <2>1, <2>2, <2>3 DEF FilesInOrder
<1>17. \A t \in Tables : t \in Built' <=>
         IF \E y \in written \cup {x} : y.table = t THEN t \in shape[run.ent] ELSE t \in snap
  <2> SUFFICES ASSUME NEW t \in Tables
               PROVE  t \in Built' <=> IF \E y \in written \cup {x} : y.table = t
                                       THEN t \in shape[run.ent] ELSE t \in snap
    OBVIOUS
  <2>1. CASE t = x.table
    BY <1>4, <1>12, <1>15, <2>1
  <2>2. CASE t # x.table
    <3>1. t \in Built' <=> t \in Built
      BY <1>14, <1>15, <2>2, BuiltIsFinal
    <3>2. (\E y \in written \cup {x} : y.table = t) <=> \E y \in written : y.table = t
      BY <2>2
    <3> QED
      BY <1>h, <3>1, <3>2 DEF Half
  <2> QED
    BY <2>1, <2>2
<1>18. /\ run'.changes = run.changes /\ run'.ent = run.ent /\ run'.left = run.left \ {x}
       /\ run'.changes \ run'.left = written \cup {x}
  BY <1>e, <1>t, <1>x DEF Runs
<1>19. ASSUME pc' = "emit" PROVE Half'
  <2>1. \A y : FileName(y)' = FileName(y)
    BY <1>e, <1>18 DEF FileName
  <2>2. \A f \in files' : f.name.stamp = clock =>
            f.does \in written \cup {x} /\ f.name = FileName(f.does)
    BY <1>1, <1>2, <1>h DEF Half
  <2> QED
    BY <1>e, <1>h, <1>17, <1>18, <2>1, <2>2 DEF Half
<1>20. ASSUME pc' = "snapshot" PROVE Built' = shape[run.ent]
  <2>1. written \cup {x} = run.changes
    BY <1>e, <1>t, <1>x, <1>20
  <2>2. \A t \in Tables : t \in Built' <=> t \in shape[run.ent]
    <3> SUFFICES ASSUME NEW t \in Tables PROVE t \in Built' <=> t \in shape[run.ent]
      OBVIOUS
    <3>1. CASE \E y \in run.changes : y.table = t
      BY <1>17, <2>1, <3>1
    <3>2. CASE ~ \E y \in run.changes : y.table = t
      <4>1. run.changes = Diff(snap, shape[run.ent])
        BY <1>h DEF Half
      <4>2. /\ t \in snap \ shape[run.ent] => [op |-> "drop", table |-> t] \in run.changes
            /\ t \in shape[run.ent] \ snap => [op |-> "create", table |-> t] \in run.changes
        BY <4>1 DEF Diff
      <4>3. t \in snap <=> t \in shape[run.ent]
        BY <3>2, <4>2
      <4> QED
        BY <1>17, <2>1, <3>2, <4>3
    <3> QED
      BY <3>1, <3>2
  <2> QED
    BY <1>t, <1>15, <2>2
<1> QED
  BY <1>e, <1>16, <1>18, <1>19, <1>20 DEF Replay

\* Where a run turns to the migrations.
LEMMA DiffReplay ==
    ASSUME SameSecond = FALSE, Types, Replay, DiffSchema PROVE Replay'
<1>1. /\ TypeOK /\ run \in Runs /\ shape[run.ent] \in SUBSET Tables /\ pc = "write"
      /\ clock \in Nat
  BY FileFacts DEF Types, TypeOK, Runs, DiffSchema
<1>2. UNCHANGED <<shape, files, snap>>
  BY DEF DiffSchema, schemaVars
<1>3. FilesInOrder /\ Built = snap /\ snap \in SUBSET Tables
  BY <1>1 DEF Replay, FilesInOrder, TypeOK
<1>4. Built' = Built /\ (Replayable' <=> Replayable)
  BY <1>2 DEF Built, Replayable, FilesFor, Older
<1> DEFINE changes == Diff(snap, shape[run.ent])
<1>5. /\ run' = [run EXCEPT !.changes = changes, !.left = changes]
      /\ pc' = IF run.opts.dry THEN "save"
               ELSE IF changes # {} THEN "emit"
               ELSE IF run.opts.force THEN "snapshot" ELSE "save"
      /\ clock' \in IF changes = {} \/ run.opts.dry THEN {clock}
                   ELSE {clock + 1} \cup
                        IF SameSecond /\ clock > 0 THEN {clock} ELSE {}
  BY <1>3 DEF DiffSchema, FilesInOrder
<1>6. changes = {} => snap = shape[run.ent]
  <2> SUFFICES ASSUME changes = {} PROVE snap = shape[run.ent]
    OBVIOUS
  <2>1. \A t \in Tables : /\ t \in snap \ shape[run.ent] => [op |-> "drop", table |-> t] \in changes
                          /\ t \in shape[run.ent] \ snap => [op |-> "create", table |-> t] \in changes
    BY DEF Diff
  <2> QED
    BY <1>1, <1>3, <2>1
<1> HIDE DEF changes
<1>7. run'.changes = changes /\ run'.left = changes /\ run'.ent = run.ent
  BY <1>1, <1>5 DEF Runs
<1>8. clock' = clock \/ clock' = clock + 1
  BY <1>5
<1>9. FilesInOrder'
  <2>1. \A f \in files : f.name.stamp <= clock'
    <3> SUFFICES ASSUME NEW f \in files PROVE f.name.stamp <= clock'
      OBVIOUS
    <3>1. f.name.stamp \in Nat /\ f.name.stamp <= clock
      BY <1>3, FileFacts DEF FilesInOrder
    <3> QED
      BY <1>1, <1>8, <3>1
  <2> QED
    BY <1>2, <1>3, <1>4, <2>1 DEF FilesInOrder
<1>10. ASSUME pc' = "emit" PROVE Half'
  <2>1. clock' = clock + 1
    BY <1>5, <1>10
  <2>2. \A f \in files : f.name.stamp # clock'
    <3> SUFFICES ASSUME NEW f \in files PROVE f.name.stamp # clock'
      OBVIOUS
    <3>1. f.name.stamp \in Nat /\ f.name.stamp <= clock
      BY <1>3, FileFacts DEF FilesInOrder
    <3> QED
      BY <1>1, <2>1, <3>1
  <2>3. run'.changes \ run'.left = {} /\ run'.changes = Diff(snap', shape'[run'.ent])
    BY <1>2, <1>7 DEF changes
  <2>4. \A t \in Tables : t \in Built' <=> t \in snap'
    BY <1>2, <1>3, <1>4
  <2> QED
    BY <1>2, <2>2, <2>3, <2>4 DEF Half
<1>11. ASSUME pc' = "snapshot" PROVE Built' = shape'[run'.ent]
  BY <1>2, <1>3, <1>4, <1>5, <1>6, <1>7, <1>11
<1>12. pc' \in {"save", "emit", "snapshot"}
  BY <1>5
<1> QED
  BY <1>2, <1>3, <1>4, <1>9, <1>10, <1>11, <1>12 DEF Replay

\* Steps that leave the migrations alone.
LEMMA ReplayStays ==
    ASSUME Replay, UNCHANGED <<files, snap, clock, shape>>,
           \/ UNCHANGED <<pc, run>>
           \/ {pc, pc'} \cap {"emit", "snapshot"} = {}
    PROVE  Replay'
<1>1. Built' = Built /\ (Replayable' <=> Replayable)
  BY DEF Built, Replayable, FilesFor, Older
<1>2. FilesInOrder'
  BY <1>1 DEF Replay, FilesInOrder
<1>3. CASE {pc, pc'} \cap {"emit", "snapshot"} = {}
  BY <1>1, <1>2, <1>3 DEF Replay
<1>4. CASE UNCHANGED <<pc, run>>
  <2>1. Half => Half'
    <3>1. \A y : FileName(y)' = FileName(y)
      BY <1>4 DEF FileName
    <3> QED
      BY <1>1, <1>4, <3>1 DEF Half
  <2> QED
    BY <1>1, <1>2, <1>4, <2>1 DEF Replay
<1> QED
  BY <1>3, <1>4

LEMMA ReplayStep ==
    ASSUME SameSecond = FALSE, CutPoints \cap {"emit", "snapshot"} = {},
           Types, Replay, [Next]_vars
    PROVE  Replay'
<1> USE DEF schemaVars, migrationVars
<1>1. CASE WriteSnapshot
  <2>1. /\ pc = "snapshot" /\ pc' = "save" /\ snap' = shape[run.ent]
        /\ UNCHANGED <<shape, files, clock, run>>
    BY <1>1 DEF WriteSnapshot
  <2>2. shape[run.ent] \in SUBSET Tables
    BY DEF Types, TypeOK, Runs
  <2>3. Built' = Built /\ (Replayable' <=> Replayable)
    BY <2>1 DEF Built, Replayable, FilesFor, Older
  <2>4. snap' # Torn
    BY <2>1, <2>2, TornAssumption
  <2> QED
    BY <2>1, <2>3, <2>4 DEF Replay, FilesInOrder
<1>2. CASE Interrupt
  <2>1. /\ pc \notin {"emit", "snapshot"} /\ pc' = "idle"
        /\ UNCHANGED <<files, snap, clock, shape>>
    BY <1>2 DEF Interrupt, TornWrite, EndRun
  <2> QED
    BY <2>1, ReplayStays
<1>3. CASE (\E opts \in Options : StartRun(opts) \/ StartWatch(opts)) \/ Fire
  <2>1. /\ pc = "idle" /\ pc' = "load" /\ UNCHANGED <<files, snap, clock, shape>>
    BY <1>3 DEF StartRun, StartWatch, Fire, Begin
  <2> QED
    BY <2>1, ReplayStays
<1>4. CASE LoadState \/ ParseSchema \/ WriteArtifact \/ SaveState
  <2>1. /\ pc \in {"load", "parse", "write", "save"} /\ pc' \in {"idle", "parse", "write"}
        /\ UNCHANGED <<files, snap, clock, shape>>
    BY <1>4 DEF LoadState, ParseSchema, WriteArtifact, SaveState, ReadyToSave, EndRun
  <2> QED
    BY <2>1, ReplayStays
<1>5. CASE AddWatch \/ ReceiveEvent \/ StopWatch \/ EditSchema \/ ClearCache \/ UNCHANGED vars
  <2>1. UNCHANGED <<files, snap, clock, shape, pc, run>>
    BY <1>5 DEF AddWatch, ReceiveEvent, StopWatch, EditSchema, ClearCache, vars
  <2> QED
    BY <2>1, ReplayStays
<1> QED
  BY <1>1, <1>2, <1>3, <1>4, <1>5, DiffReplay, EmitReplay DEF Next, Step

LEMMA ReplayInit == Init => Replay
<1> SUFFICES ASSUME Init PROVE Replay
  OBVIOUS
<1>1. files = {} /\ snap = {} /\ pc = "idle"
  BY DEF Init
<1>2. Built = {} /\ Replayable
  BY <1>1 DEF Built, Replayable, FilesFor
<1>3. snap # Torn
  BY <1>1, TornAssumption
<1> QED
  BY <1>1, <1>2, <1>3 DEF Replay, FilesInOrder

\* Where no run is cut short between the first migration file and the snapshot
\* and every migration has a second of its own, the files in the directory, run
\* in order on an empty database, build exactly what the snapshot says
\* (generateMigrations, assignMigrationFilenames): whatever the schema goes
\* through, whatever flags the runs have, wherever else they stop.
THEOREM FilesBuildSnapshot ==
    ASSUME SameSecond = FALSE, CutPoints \cap {"emit", "snapshot"} = {}
    PROVE  Spec => []MigrationsReplay
<1>1. Init => Types /\ Replay
  BY InitTypes, ReplayInit
<1>2. Types /\ Replay /\ [Next]_vars => (Types /\ Replay)'
  BY NextTypes, ReplayStep
<1>3. Replay => MigrationsReplay
  BY DEF Replay, FilesInOrder, MigrationsReplay
<1> QED
  BY <1>1, <1>2, <1>3, PTL DEF Spec
=============================================================================
