------------------------------ MODULE Generate ------------------------------
(***************************************************************************)
(* `erm gen` (generator/run.go, migrations.go, state.go, driven by         *)
(* cli/gen.go) in one project directory: the schema a developer edits, the *)
(* artifacts generated from it, the cache of component hashes that lets a  *)
(* run skip a component, the migration files and the schema snapshot they  *)
(* are diffed from.  A run writes all of this file by file and may stop    *)
(* anywhere; the schema may change under it; watch mode runs it again on   *)
(* every change.                                                           *)
(*                                                                         *)
(* The developer's schema is a number, its revision: shape[r] are the      *)
(* tables revision r needs, and a revision in Unsigned differs from the    *)
(* one before it only in what buildSchemaSignature leaves out (ReadOnly,   *)
(* ComputedSpec).  An artifact is the revision it was generated from.      *)
(***************************************************************************)
EXTENDS Integers, FiniteSets

CONSTANTS
    Tables,         \* tables the schema may have, as numbers in name order
    OrmFiles,       \* files writeORMArtifacts writes
    GraphqlFiles,   \* files writeGraphQLArtifacts and gqlgen write
    Options,        \* the flags `erm gen` is run with
    Unsigned,       \* revisions that change nothing the signature covers
    Reverts,        \* whether the developer may return to an old revision
    SameSecond,     \* whether two migrations may be generated in one second
    CutPoints,      \* where a run may fail or die
    None,           \* nothing there
    Torn,           \* a file that was being written when the run stopped
    MaxEdits,       \* bound: changes to the schema
    MaxRuns,        \* bound: runs the developer starts
    MaxFaults       \* bound: runs that fail or die

Components == {"orm", "graphql"}
Parts == Components \cup {"migrations"}

\* --force, --dry-run and the parts --only leaves, all of them without it.
OptionSet == [force: BOOLEAN, dry: BOOLEAN, only: SUBSET Parts]

Points == {"idle", "load", "parse", "write", "emit", "snapshot", "save"}

ASSUME TablesAssumption == Tables \subseteq Nat /\ IsFiniteSet(Tables)
ASSUME FilesAssumption == OrmFiles \in Nat \ {0} /\ GraphqlFiles \in Nat \ {0}
ASSUME OptionsAssumption == Options \subseteq OptionSet
ASSUME NoneAssumption == None \notin Nat
ASSUME SwitchAssumption == Reverts \in BOOLEAN /\ SameSecond \in BOOLEAN
ASSUME CutAssumption == CutPoints \subseteq Points \ {"idle"}
ASSUME BoundsAssumption == MaxEdits \in Nat /\ MaxRuns \in Nat /\ MaxFaults \in Nat

Revisions == 0..MaxEdits

ASSUME UnsignedAssumption == Unsigned \subseteq Revisions \ {0}

\* Numbered in the order a run writes them.
Artifacts == 1..(OrmFiles + GraphqlFiles)
Owner(a) == IF a <= OrmFiles THEN "orm" ELSE "graphql"

\* What one migration file does.
Changes == [op: {"create", "drop"}, table: Tables]

ASSUME TornAssumption == Torn \notin Changes /\ \A S \in SUBSET Tables : S # Torn

\* <timestamp>_<slug>.sql.  The slug is "schema", which slugify makes of no
\* --name, or the same --name each time; slot is the number added to it, 0 for
\* a file alone.
MaxStamp == MaxRuns + MaxEdits
Names == [stamp: 1..MaxStamp, slot: 0..Cardinality(Tables)]
Files == [name: Names, does: Changes \cup {Torn}]

VARIABLES
    shape,      \* the tables of each revision, fixed from the start
    rev,        \* the revision the developer's schema files hold
    edits,      \* how often they have changed
    art,        \* the artifacts
    cache,      \* .erm/cache/generator_state.json: a hash for each component
    files,      \* the migrations directory, a set of Files
    snap,       \* migrations/schema.snapshot.json: the tables it lists
    clock,      \* the second of the last migration
    pc,         \* where the run is
    run,        \* its local variables
    watch,      \* `erm gen --watch`: off, in its first run, about to watch, on
    watchOpts,  \* its flags
    event,      \* changes the watcher has not been told of yet
    armed,      \* its debounce timer runs
    runs,       \* runs started by the developer
    faults      \* runs that have failed or died

schemaVars == <<shape, rev, edits>>
migrationVars == <<files, snap, clock>>
watchVars == <<watch, watchOpts, event, armed>>
countVars == <<runs, faults>>
vars == <<schemaVars, art, cache, migrationVars, pc, run, watchVars, countVars>>

-----------------------------------------------------------------------------

\* The hash of a revision: revisions with the same signature share it.
Hash(r) == CHOOSE q \in 0..r : /\ q \notin Unsigned
                               /\ (q + 1)..r \subseteq Unsigned

Hashes == Revisions \cup {None}

DefaultOpts == [force |-> FALSE, dry |-> FALSE, only |-> Parts]

Runs == [opts: OptionSet,
         st: [Components -> Hashes],    \* generatorState
         ent: Revisions,                \* the revision loadEntities parsed
         todo: SUBSET Artifacts,        \* artifacts still to write
         changes: SUBSET Changes,       \* the operations of diffSchema
         left: SUBSET Changes]          \* those without a file yet

NoCache == [c \in Components |-> None]
NoRun == [opts |-> DefaultOpts, st |-> NoCache, ent |-> 0, todo |-> {},
          changes |-> {}, left |-> {}]

TypeOK ==
    /\ shape \in [Revisions -> SUBSET Tables]
    /\ rev \in Revisions
    /\ edits \in Revisions
    /\ art \in [Artifacts -> Revisions \cup {None, Torn}]
    /\ cache \in [Components -> Hashes] \cup {Torn}
    /\ files \in SUBSET Files
    /\ snap \in (SUBSET Tables) \cup {Torn}
    /\ clock \in 0..MaxStamp
    /\ pc \in Points
    /\ run \in Runs
    /\ watch \in {"off", "first", "adding", "on"}
    /\ watchOpts \in OptionSet
    /\ event \in BOOLEAN
    /\ armed \in BOOLEAN
    /\ runs \in 0..MaxRuns
    /\ faults \in 0..MaxFaults

Init ==
    /\ shape \in [Revisions -> SUBSET Tables]
    /\ rev = 0
    /\ edits = 0
    /\ art = [a \in Artifacts |-> None]
    /\ cache = NoCache
    /\ files = {}
    /\ snap = {}
    /\ clock = 0
    /\ pc = "idle"
    /\ run = NoRun
    /\ watch = "off"
    /\ watchOpts = DefaultOpts
    /\ event = FALSE
    /\ armed = FALSE
    /\ runs = 0
    /\ faults = 0

-----------------------------------------------------------------------------
(* Parts of a run.  Definitions named *Faulty* are not the code: each is a *)
(* plausible bug in the definition after it.                               *)

PlannedFaulty(opts, st, r) ==
    {a \in Artifacts : ~opts.dry /\ Owner(a) \in opts.only /\ st[Owner(a)] # Hash(r)}
\* buildComponentPlan: what a run writes to the project.  A component that is
\* up to date is skipped, or written to the staging directory in watch mode.
Planned(opts, st, r) ==
    {a \in Artifacts : /\ ~opts.dry
                       /\ Owner(a) \in opts.only
                       /\ opts.force \/ st[Owner(a)] # Hash(r)}

Diff(before, after) ==
    [op: {"drop"}, table: before \ after] \cup [op: {"create"}, table: after \ before]

\* The order diffSchema lists them in.
Precedes(x, y) ==
    \/ x.op = "drop" /\ y.op = "create"
    \/ x.op = y.op /\ x.table < y.table

First(S) == CHOOSE x \in S : \A y \in S \ {x} : Precedes(x, y)

\* assignMigrationFilenames: one file for each target, all with the stamp of
\* the run.
FileName(x) ==
    [stamp |-> clock,
     slot |-> IF run.changes = {x} THEN 0
              ELSE Cardinality({y \in run.changes : Precedes(y, x)}) + 1]

\* The directory with d in the file for x, over whatever has its name.
WithFile(x, d) ==
    {f \in files : f.name # FileName(x)} \cup {[name |-> FileName(x), does |-> d]}

EndRunFaulty(success) ==
    /\ pc' = "idle"
    /\ run' = NoRun
    /\ watch' = IF watch # "first" THEN watch ELSE IF success THEN "adding" ELSE "off"
    /\ event' = FALSE
    /\ UNCHANGED <<watchOpts, armed>>
\* Run returns.  Watch mode gives up when its first run fails; later failures
\* are printed.
EndRun(success) ==
    /\ pc' = "idle"
    /\ run' = NoRun
    /\ watch' = IF watch # "first" THEN watch ELSE IF success THEN "adding" ELSE "off"
    /\ UNCHANGED <<watchOpts, event, armed>>

-----------------------------------------------------------------------------
(* One run. *)

Begin(opts) ==
    /\ pc = "idle"
    /\ pc' = "load"
    /\ run' = [NoRun EXCEPT !.opts = opts]

\* `erm gen`.
StartRun(opts) ==
    /\ watch = "off"
    /\ runs < MaxRuns
    /\ runs' = runs + 1
    /\ Begin(opts)
    /\ UNCHANGED <<schemaVars, art, cache, migrationVars, watchVars, faults>>

LoadStateFaulty ==
    /\ pc = "load"
    /\ run' = [run EXCEPT !.st = cache]
    /\ pc' = "parse"
    /\ UNCHANGED <<schemaVars, art, cache, migrationVars, watchVars, countVars>>
\* loadGeneratorState: no file is an empty state, a torn one an error.
LoadState ==
    /\ pc = "load"
    /\ \/ /\ cache # Torn
          /\ run' = [run EXCEPT !.st = cache]
          /\ pc' = "parse"
          /\ UNCHANGED watchVars
       \/ cache = Torn /\ EndRun(FALSE)
    /\ UNCHANGED <<schemaVars, art, cache, migrationVars, countVars>>

\* loadEntities, schemaInputHash and the component plans.
ParseSchema ==
    /\ pc = "parse"
    /\ run' = [run EXCEPT !.ent = rev, !.todo = Planned(run.opts, run.st, rev)]
    /\ pc' = "write"
    /\ UNCHANGED <<schemaVars, art, cache, migrationVars, watchVars, countVars>>

NextArtifact == CHOOSE a \in run.todo : \A b \in run.todo : a <= b

\* writeFile on the next artifact; a component's hash enters the state in
\* memory when its last file is written.
WriteArtifact ==
    /\ pc = "write"
    /\ run.todo # {}
    /\ LET a == NextArtifact
           c == Owner(a)
       IN  /\ art' = [art EXCEPT ![a] = run.ent]
           /\ run' = [run EXCEPT
                 !.todo = @ \ {a},
                 !.st[c] = IF \E b \in run.todo \ {a} : Owner(b) = c
                           THEN @ ELSE Hash(run.ent)]
    /\ UNCHANGED <<schemaVars, cache, migrationVars, pc, watchVars, countVars>>

\* generateMigrations up to the file names: a torn snapshot is an error, no
\* operations leave only --force something to write, and the time is taken to
\* the second.
DiffSchema ==
    /\ pc = "write"
    /\ run.todo = {}
    /\ "migrations" \in run.opts.only
    /\ \/ snap = Torn /\ EndRun(FALSE) /\ UNCHANGED clock
       \/ /\ snap # Torn
          /\ LET changes == Diff(snap, shape[run.ent])
             IN  /\ run' = [run EXCEPT !.changes = changes, !.left = changes]
                 /\ pc' = IF run.opts.dry THEN "save"
                          ELSE IF changes # {} THEN "emit"
                          ELSE IF run.opts.force THEN "snapshot" ELSE "save"
                 /\ clock' \in IF changes = {} \/ run.opts.dry THEN {clock}
                               ELSE {clock + 1} \cup
                                    IF SameSecond /\ clock > 0 THEN {clock} ELSE {}
          /\ UNCHANGED watchVars
    /\ UNCHANGED <<schemaVars, art, cache, files, snap, countVars>>

\* writeFile on the next migration file.
EmitFile ==
    /\ pc = "emit"
    /\ LET x == First(run.left)
       IN  /\ files' = WithFile(x, x)
           /\ run' = [run EXCEPT !.left = @ \ {x}]
           /\ pc' = IF run.left = {x} THEN "snapshot" ELSE "emit"
    /\ UNCHANGED <<schemaVars, art, cache, snap, clock, watchVars, countVars>>

WriteSnapshotFaulty ==
    /\ pc = "snapshot"
    /\ snap' = shape[rev]
    /\ pc' = "save"
    /\ UNCHANGED <<schemaVars, art, cache, files, clock, run, watchVars, countVars>>
\* writeSchemaSnapshot of the revision that was parsed.
WriteSnapshot ==
    /\ pc = "snapshot"
    /\ snap' = shape[run.ent]
    /\ pc' = "save"
    /\ UNCHANGED <<schemaVars, art, cache, files, clock, run, watchVars, countVars>>

ReadyToSave ==
    \/ pc = "save"
    \/ pc = "write" /\ run.todo = {} /\ "migrations" \notin run.opts.only

SaveStateFaulty ==
    /\ ReadyToSave
    /\ cache' = IF run.opts.dry THEN cache ELSE [c \in Components |-> Hash(run.ent)]
    /\ EndRun(TRUE)
    /\ UNCHANGED <<schemaVars, art, migrationVars, countVars>>
\* saveGeneratorState, the last thing a run does, except with --dry-run.
SaveState ==
    /\ ReadyToSave
    /\ cache' = IF run.opts.dry THEN cache ELSE run.st
    /\ EndRun(TRUE)
    /\ UNCHANGED <<schemaVars, art, migrationVars, countVars>>

\* What os.WriteFile leaves behind when it does not get to its end: the target
\* is truncated, then written; writeFile does not touch a file that is as it
\* should be, gqlgen does.  An empty snapshot file reads as an empty snapshot.
TornWrite ==
    \/ /\ pc = "write"
       /\ run.todo # {}
       /\ \/ art[NextArtifact] # run.ent
          \/ run.opts.force
          \/ Owner(NextArtifact) = "graphql"
       /\ art' = [art EXCEPT ![NextArtifact] = Torn]
       /\ UNCHANGED <<cache, files, snap>>
    \/ /\ pc = "emit"
       /\ files' = WithFile(First(run.left), Torn)
       /\ UNCHANGED <<art, cache, snap>>
    \/ /\ pc = "snapshot"
       /\ snap' \in {{}, Torn}
       /\ UNCHANGED <<art, cache, files>>
    \/ /\ ReadyToSave
       /\ ~run.opts.dry
       /\ cache' = Torn
       /\ UNCHANGED <<art, files, snap>>

\* A step of the run fails (a schema that does not parse, gqlgen, the disk),
\* or the process is killed and watch mode with it.
Interrupt ==
    /\ pc \in CutPoints
    /\ faults < MaxFaults
    /\ faults' = faults + 1
    /\ TornWrite \/ UNCHANGED <<art, cache, files, snap>>
    /\ \/ EndRun(FALSE)
       \/ /\ pc' = "idle"
          /\ run' = NoRun
          /\ watch' = "off"
          /\ event' = FALSE
          /\ armed' = FALSE
          /\ UNCHANGED watchOpts
    /\ UNCHANGED <<schemaVars, clock, runs>>

-----------------------------------------------------------------------------
(* Watch mode. *)

\* `erm gen --watch`, which --dry-run excludes; the first run comes before the
\* watcher.
StartWatch(opts) ==
    /\ watch = "off"
    /\ ~opts.dry
    /\ runs < MaxRuns
    /\ runs' = runs + 1
    /\ Begin(opts)
    /\ watch' = "first"
    /\ watchOpts' = opts
    /\ UNCHANGED <<schemaVars, art, cache, migrationVars, event, armed, faults>>

\* fsnotify.NewWatcher and watcher.Add(schema).
AddWatch ==
    /\ pc = "idle"
    /\ watch = "adding"
    /\ watch' = "on"
    /\ UNCHANGED <<schemaVars, art, cache, migrationVars, pc, run, watchOpts,
                   event, armed, countVars>>

\* The loop receives a change and (re)starts the debounce timer.
ReceiveEvent ==
    /\ pc = "idle"
    /\ watch = "on"
    /\ event
    /\ event' = FALSE
    /\ armed' = TRUE
    /\ UNCHANGED <<schemaVars, art, cache, migrationVars, pc, run, watch,
                   watchOpts, countVars>>

\* The timer fires: the loop itself runs the generator, and receives nothing
\* until it returns.
Fire ==
    /\ watch = "on"
    /\ armed
    /\ armed' = FALSE
    /\ Begin(watchOpts)
    /\ UNCHANGED <<schemaVars, art, cache, migrationVars, watch, watchOpts,
                   event, countVars>>

\* The command's context ends.
StopWatch ==
    /\ pc = "idle"
    /\ watch = "on"
    /\ watch' = "off"
    /\ event' = FALSE
    /\ armed' = FALSE
    /\ UNCHANGED <<schemaVars, art, cache, migrationVars, pc, run, watchOpts, countVars>>

-----------------------------------------------------------------------------
(* The developer. *)

\* Saves the schema files; only a running watcher hears of it.
EditSchema ==
    /\ edits < MaxEdits
    /\ edits' = edits + 1
    /\ \/ rev < MaxEdits /\ rev' = rev + 1
       \/ Reverts /\ rev' \in 0..(rev - 1)
    /\ event' = (event \/ watch = "on")
    /\ UNCHANGED <<shape, art, cache, migrationVars, pc, run, watch, watchOpts,
                   armed, countVars>>

\* "clean .erm/cache/generator_state.json and regenerate"
\* (docs/development-workflow.md:42).
ClearCache ==
    /\ pc = "idle"
    /\ cache' = NoCache
    /\ UNCHANGED <<schemaVars, art, migrationVars, pc, run, watchVars, countVars>>

-----------------------------------------------------------------------------

\* What the process does by itself.
Step ==
    \/ LoadState \/ ParseSchema \/ WriteArtifact \/ DiffSchema
    \/ EmitFile \/ WriteSnapshot \/ SaveState
    \/ AddWatch \/ ReceiveEvent \/ Fire

Next ==
    \/ \E opts \in Options : StartRun(opts) \/ StartWatch(opts)
    \/ Step
    \/ Interrupt
    \/ StopWatch
    \/ EditSchema
    \/ ClearCache

Spec == Init /\ [][Next]_vars

\* A process that can take a step takes one.  Nobody has to edit, to start a
\* run, to stop or to fail.
FairSpec == Spec /\ WF_vars(Step)

-----------------------------------------------------------------------------
(* Properties. *)

\* A run may skip a component only when there is nothing to do: whenever the
\* cache holds the hash of the schema, no artifact of the component comes from
\* another revision.  Runs that stop half-way, --only, --dry-run and edits
\* during a run must not break this.  (A --force run that is killed may leave
\* a torn file, which does not compile.)
SkipIsSound ==
    cache # Torn =>
        \A a \in Artifacts : cache[Owner(a)] = Hash(rev) => art[a] \in {rev, Torn}

\* The order of the file names, which is the order they run in.
Older(f, g) ==
    \/ f.name.stamp < g.name.stamp
    \/ f.name.stamp = g.name.stamp /\ f.name.slot < g.name.slot

FilesFor(t) == {f \in files : f.does # Torn /\ f.does.table = t}

\* The tables there are after all migration files have run, in order.
Built ==
    {t \in Tables : \E f \in FilesFor(t) :
        /\ f.does.op = "create"
        /\ \A g \in FilesFor(t) \ {f} : Older(g, f)}

\* CREATE TABLE is never run for a table that is there (DROP TABLE IF EXISTS
\* always works).
Replayable ==
    /\ \A f \in files : f.does # Torn
    /\ \A t \in Tables : \A f, g \in FilesFor(t) :
          f.does.op = "create" /\ g.does.op = "create" /\ Older(f, g) =>
              \E h \in FilesFor(t) : /\ h.does.op = "drop"
                                     /\ Older(f, h) /\ Older(h, g)

\* Between runs the migration files, run in order on an empty database, build
\* exactly what the snapshot says, so the next diff starts from the truth.
MigrationsReplay ==
    pc \notin {"emit", "snapshot"} => snap # Torn /\ Replayable /\ Built = snap

\* A --force run that ends well has rewritten everything it was asked for, and
\* the snapshot is that of the schema it parsed, whatever was there before and
\* whatever the developer did meanwhile.
ForceDelivers ==
    [][SaveState /\ run.opts.force /\ ~run.opts.dry =>
          /\ \A a \in Artifacts : Owner(a) \in run.opts.only => art[a] = run.ent
          /\ "migrations" \in run.opts.only => snap = shape[run.ent]]_vars

\* The project is what the developer's schema asks for, as far as its
\* signature tells.
Current(opts) ==
    /\ \A a \in Artifacts : Owner(a) \in opts.only =>
          art[a] \in Revisions /\ Hash(art[a]) = Hash(rev)
    /\ "migrations" \in opts.only => snap = shape[rev]

\* A change the watcher saw is generated in the end, also one that arrives
\* while a run is going, unless a run failed or watching stopped.
WatchConverges ==
    watch = "on" /\ event ~> Current(watchOpts) \/ faults > 0 \/ watch = "off"

\* Versions are the stamps of the files (orm/migrate/migrate.go:175): no two
\* files share one, or no migration can be planned or applied.
DistinctVersions ==
    \A f, g \in files : f.name.stamp = g.name.stamp => f = g
=============================================================================
