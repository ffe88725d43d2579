# A TLA+ model of erm

erm generates an ORM, a GraphQL API and SQL migrations from Go schema files,
applies the migrations, and ships the runtime the generated code uses. This
directory specifies the parts of it that decide whether data, schema and code
stay in step: what the generator reads, derives and writes, how migrations are
diffed and applied, what the generated client sends and remembers, how reads
are routed, and how changes reach subscribers. Paths below are relative to the
repository's source directory.

## 1. Inventory

| Part | Source | State it keeps | Operations | Talks to | Module |
| --- | --- | --- | --- | --- | --- |
| Schema parser and DSL | `generator/parser.go`, `orm/dsl/schema.go`, `cli/new.go` | none across runs | read files, evaluate the methods of schema types; `erm new` | the developer's files | `SchemaFiles`, `SchemaExpr` |
| Schema plan | `generator/parser.go`, `validation.go`, `migrations.go`, `schema_snapshot.go`, `orm.go` | none across runs | defaults, inverse edges, validation, tables and keys, loaders | parser; diff; emission | `SchemaPlan` |
| Schema diff | `generator/schema_diff.go`, `migrations.go` | the snapshot file | snapshot × snapshot → operations → files | generator; PostgreSQL | `SchemaDiff` |
| Generator | `generator/run.go`, `state.go`, `migrations.go`, `write.go`, `cli/gen.go` | artifacts, `.erm/cache/generator_state.json`, `migrations/*.sql`, `schema.snapshot.json` | `erm gen` with `--force`, `--dry-run`, `--only`, `--watch` | schema files, file-change events | `Generate` |
| Migration engine | `orm/migrate/migrate.go`, `cli/migrate.go` | `erm_schema_migrations`, the database schema, an advisory lock | Discover, Plan, Apply, Rollback | the files the generator writes; other sessions through the lock | `Migrate`, `MigrateAbs` |
| Client emission | `generator/orm.go` | none | entities to the code of a client | plan | `EntityCode` |
| Edge loaders | `generator/orm.go` | the edges struct of an object | Load, Set, EdgeLoaded | the database | `EdgeLoaders` |
| Runtime helpers | `orm/runtime/query.go`, `bulk.go`, `stream.go` | a builder, a stream | query builder, aggregates, bulk statements, streams | generated clients | `Queries` |
| Entity client and cache | `orm/gen/client_gen.go`, `orm/runtime/cache` | a cache shared by requests | ByID, Create, Update, Delete, bulk forms | replicas for reads, the writer for writes | `EntityCache` |
| Dataloaders | `graphql/dataloaders` | a map per request | Load, Prime | resolvers, entity client | `EntityCache` |
| Connections | `graphql/resolvers/query.resolvers.go`, `entities_gen.go` | none; the cursor is with the client | Users with first and after | entity client | `Pagination` |
| Replica routing | `orm/pg/driver.go` | status per replica behind a mutex each, named policies | Query and QueryRow routing, probe, fallback, Close | the entity client | `Replicas` |
| Subscriptions | `graphql/subscriptions/bus.go`, `graphql/resolvers/entities_gen.go` | topic map, bounded channels, an RWMutex, a `sync.Once` each | Publish, Subscribe, cancel, forward | mutations publish; a transport reads for the client | `Subscriptions` |
| Validation registry, observability, OIDC, GraphQL server, API process, other commands, GraphQL emission, gqlgen output | `orm/runtime/validation`, `observability`, `oidc`, `graphql/server`, `cmd/api`, `cli`, `generator/graphql.go`, `graphql/generated.go` | little or none across calls | | | section 13 |

Where it is hard, and what makes each part correct:

* **Parser.** The generator never compiles the schema; it evaluates expressions
  itself. It must see every entity of the package, wherever it is declared, and
  give it the values Go would.
* **Plan.** Two edges may describe one relation from its two ends, the inverse
  of an edge is made up, and entities come out of a map in any order. A relation
  must get one foreign key, and the loaders must search by the column the
  migration creates.
* **Diff.** The operations of a diff run one after the other against a database
  that checks each; several diffs may wait to be applied. The files must be
  accepted, must lead to the schema of the entities and must not drop what stays.
* **Generator.** A run writes many files, one by one, and saves its cache last;
  the schema changes meanwhile; flags make it do only part of the work. A
  component may be skipped only if its artifacts are those of the schema, the
  migration files must build what the snapshot claims, `--force` must repair
  anything, and watch mode must catch up.
* **Migration engine.** Several sessions race; any statement may fail, the
  process may die with the lock held, the answer to Commit may get lost. The
  table must record exactly the scripts in effect; an Apply must add the next
  batch as of its commit, although it read the directory before it had the lock
  and the CLI planned in an earlier transaction; every call must end.
* **Client, loaders, queries, connections.** Column lists, placeholders and scan
  targets are three lists that must agree; a statement may fail after some of
  its rows; a walk goes on while rows come and go.
* **Cache and dataloaders.** Values are read, then stored after somebody else
  has written; an answer may be lost after its commit; a bulk statement may be
  rolled back after it returned rows.
* **Replica routing.** Reads share probes and policies; a status read under a
  lock is used after it; a replica that lags or fails must not decide.
* **Subscriptions.** Four goroutines per subscription, two of which cancel it;
  publishers inside requests. No send on a closed channel, no mutation held up
  by a slow client, nothing left behind by one that leaves.

## 2. Plan, and how the modules fit together

Every module has its own specification and its own state. Components that share
no state are checked side by side in one run, with a variable `part` that says
which of them a behaviour exercises:

    MCMigrate        Migrate --(refines)--> MigrateAbs
    MCGenerate       Generate
    MCSchemaRead     SchemaFiles, SchemaExpr
    MCSchemaPlan     SchemaPlan, SchemaDiff
    MCClient         EntityCode, EdgeLoaders, Queries, Pagination
    MCEntityCache    EntityCache (client, cache, dataloaders, resolvers)
    MCReplicas       Replicas
    MCSubscriptions  Subscriptions

What connects them is an abstraction of one in another: `Generate` takes the
diff to be what `SchemaDiff` shows it is, reduced to tables; `Migrate` takes a
script as an effect that is or is not there; `EntityCache` takes a lagging
replica as a read of an older version, which `Replicas` says when to expect, and
publishes to the broker of `Subscriptions` as an event.

Done: all modules above, and the proofs of section 12. Left, in order of worth:
two generators in one directory; parallel fields of one request, and callers of
an edge loader on several goroutines; the aggregates other than COUNT; a proof
of the hypotheses under which a plan does not depend on the order of the entities
(section 12).

## 3. Migrate: concurrent `erm migrate`

`Migrate.tla` has one action per statement of Discover, Plan, Apply and
Rollback, for any number of sessions. `pc[s]` is the statement a session is at,
`call[s]` its local variables, `tx[s]` what its open transaction has written.
`rec`, `at`, `fx`, `table` are the committed database: recorded versions, their
`applied_at`, how often each script is in effect, whether the tracking table
exists.

| Code | Action |
| --- | --- |
| `cli/migrate.go:30` (plan, then apply or rollback in a second transaction) | `StartCLI`, `EndPlan`, `NextOp` |
| a program calling the package | `StartAPI` |
| `Discover`, `BeginTx`, `pg_advisory_xact_lock` | `Discover`, `Begin`, `AcquireLock` |
| `CREATE TABLE IF NOT EXISTS` | `EnsureTable` |
| Plan's query, drift check and pending list | `ListForPlan` |
| Apply's query and batch; script; insertion | `ListForApply`, `ExecMigration`, `RecordMigration` |
| Rollback's query, script, deletion | `SelectLatest`, `RunDown`, `Unrecord` |
| Commit, deferred Rollback | `CommitTx`, `Abort` |
| a failed statement, cancelled context, dead process | `Fail` |

Abstractions: a version is a number (only its place in the order matters); a
script is an effect that is or is not there; PostgreSQL is what the code relies
on: atomic commits, READ COMMITTED, a lock freed with its transaction. `now()`
is a counter advanced by each Apply transaction, since only Apply's insertions
use it; a tie between versions of one Apply is resolved either way.

`MigrateAbs.tla` is the promise: a session looks at the directory and later, in
one step, brings an initial segment of what is pending into force, or reverts
one migration. `Migrate` implements it (`ImplementsAbs`) with `applied <- rec`,
`effect <- fx`, `files <- ups` and each session's view the directory its call
has read.

Runs. `migrate_safety`: two sessions, three versions (one without a rollback
script), three calls, batch sizes 0 and 1, one change of the directory. Two
sessions suffice for every race about one lock; three calls let one session
fail or lose the answer to its commit, retry, and meet another's work; three
versions make a batch of one a proper part of what is pending.
`migrate_liveness`: two versions, no directory change, weak fairness on each
session's own steps and strong fairness on `AcquireLock`, since PostgreSQL
queues the waiters; a failed session's transaction is eventually rolled back by
its deferred call or the server, so `Abort` is among the fair steps. `Fail` and
new calls are not fair.

## 4. Generate: `erm gen`

`Generate.tla` models a project directory. The developer's schema is a revision
number; `shape` says which tables each revision needs and every assignment is
explored. An artifact holds the revision it came from, or `Torn`. `cache` is
`generator_state.json`, `files` the migrations, `snap` the snapshot.

| Code | Action |
| --- | --- |
| `erm gen` with its flags | `StartRun` |
| `loadGeneratorState` (`state.go:31`) | `LoadState` |
| `loadEntities`, `schemaInputHash`, `buildComponentPlan` | `ParseSchema`, `Hash`, `Planned` |
| the loop over components (`run.go:94`), file by file | `WriteArtifact` |
| `generateMigrations` up to the names; its loop; the snapshot | `DiffSchema`, `EmitFile`, `WriteSnapshot` |
| `saveGeneratorState` | `SaveState` |
| an error return, a killed process, a file cut short | `Interrupt`, `TornWrite` |
| `runWatch` | `StartWatch`, `AddWatch`, `ReceiveEvent`, `Fire`, `StopWatch` |
| the developer | `EditSchema`, `ClearCache` |

Abstractions: the snapshot is a set of tables and a migration file creates or
drops one; staged output of an up-to-date component in watch mode goes outside
the project and is left out; the slug of a file name is constant, which it is
without `--name` (slugify turns the empty name into `schema`) and with the same
`--name`. A hash is the latest signed revision, so revisions in `Unsigned`
(changes `buildSchemaSignature` does not see) share their predecessor's.

Runs. `generate_safety`: all flags, two tables, two edits, two runs by the
developer (plus those of watch mode), one stop anywhere outside the migration
step. Two tables make a run with two migration files and all orders of create
and drop; two edits let the schema change during a run and again after it; one
graphql component of two files lets a run stop between them. `CutPoints`
excludes a stop between the first migration file and the end of the snapshot:
after one the next run emits the same statements again, and neither code nor
documentation promises otherwise (listed under hazards). `Unsigned` is empty and
`Reverts` false there: `SkipIsSound` fails with either (the second is among the
disagreements of section 14). `generate_recover` has all of these on, with stops
everywhere, and checks what is still promised: a finished `--force` run has
rewritten what it was asked for (`ForceDelivers`), and watch mode generates any
change it was told of (`WatchConverges`). Fairness is weak fairness of the
process's own steps (`Step`): a running process goes on, a started timer fires.
Edits, starts, stops and failures are not fair.

`generate_versions` is a disagreement between documentation and code: one run
that creates two tables writes two migration files with one version, which the
migration engine refuses. It is checked because the two components meet in it;
the finding in `PROJECT.json` quotes both sides.

## 5. Subscriptions

`Subscriptions.tla` has a variable for each lock, channel and goroutine. A
subscription is the resolver that registers it, the broker's goroutine waiting
for its context (the watcher), the forwarder and the transport. `gpc` says where
the first three are; `buf[s]` and `out[s]` are the two channels; `todo[p]` is
whom a publisher still has to send to under the read lock.

| Code | Action |
| --- | --- |
| `publishSubscriptionEvent` after a mutation | `StartPublish` |
| `Publish`: RLock; the loop's select; RUnlock; early return on a done context | `ReadLock`, `Send`, `EndPublish`, `AbandonPublish` |
| `Subscribe`: Lock in two parts, registration, goroutines | `StartSubscribe`, `RequestLock`, `Register` |
| `<-ctx.Done()` | `CancelContext`, `Wake` |
| cancel: `once.Do`, its body | `EnterOnce`, `RequestLock`, `Close` |
| the forwarder of `entities_gen.go:319` | `Receive`, `Forward`, `Leave`, `CloseOut` |
| the gqlgen transport (external) | `Read` |

The RWMutex is Go's: `RequestLock` announces the writer, after which no new
reader gets in, and `Register` and `Close` wait for the readers that are in. A
message is a number with an author and a topic; those in `Foreign` have a
payload the resolver does not expect.

Runs. `subscriptions_safety`: two publishers, two subscriptions, three messages
(one foreign), one topic, channels of capacity one, the default. Two
subscriptions let one close while a publisher is between them; three messages
overflow a channel of one behind a forwarder that holds one.
The part of `InOrderOnce` that keeps topics apart is met by the proof, which is
for any topics.
`subscriptions_liveness`: one subscription, two publishers, same bounds.
Fairness: weak for each goroutine's step, strong for `ReadLock` and
`RequestLock`, since Go's mutexes hand the lock to waiters in turn, and weak for
`Read` while the context lives. Nobody has to publish, subscribe or leave.

## 6. Reading a schema: SchemaFiles and SchemaExpr

`erm gen` never compiles the schema package. It picks files by name, collects
type declarations and methods, and evaluates the methods' return expressions
itself. Two modules say when that gives what the Go compiler would give; run
`schema_read` checks both side by side.

`SchemaFiles.tla`: the schema directory is a function from file names to the
types and methods they declare; a file's suffix decides who reads it.

| Code | Action or operator |
| --- | --- |
| `discoverSchemaFiles`, `embedsDSLSchema`, `receiverName` (`parser.go:187`) | `discoverSchemaFiles`, `typeDecls`, `methodsOf` |
| `loadEntities`, error returns and success | `GenFails`, `GenLoads` |
| `erm new`: Stat, WriteFile, a stop between creation and content | `NewFile`, `WriteTemplate`, `Crash` |
| the developer | `AddFile`, `MoveMethods`, `DeleteFile` |

The developer keeps the package compiling and does not write the file `erm new`
is writing. A project follows one layout: file names with the suffix, or without
it. `ReadsPackage` fails when a project mixes them (section 14), so the run has
both layouts and no mixture; `Uniform` says this of a layout, and `MCSchemaRead`
has TLC evaluate it for the layouts of the run. Two entities and a helper type, in two files the
developer writes, a test file and the file of `erm new`, are every way a method
can be apart from its type and an entity apart from another. `CHECK_DEADLOCK
FALSE`: the half about expressions ends when the type is loaded.

`SchemaExpr.tla`: an expression is a record. `Read` and `ReadBody` are the
parser's evaluator, `Run` and `RunBody` are Go executing the same expression, and
both end in the builders of `orm/dsl/schema.go`, written once.

| Code | Operator or action |
| --- | --- |
| `evalExpr`, `evalCompositeLit`, `evalCallExpr` | `Read` and what it calls |
| `evalFieldSlice` and its siblings, one statement at a time | `ReadBody` |
| `executeDSLFunc`, `executeFieldMethod`, ... with their `arg...` conversions | `executeDSLFunc`, `Apply`, `ReadArgs`, `argNamed`, ... |
| the builders of the DSL | `NewField`, `FieldMethod`, `EdgeMethod`, `IndexMethod`, ... |
| the methods of a type, in whatever order they stand | `ReadMethod` |
| default field, default query, enum and authorization metadata | `Load` |

`ReadAsRun` compares the entity the generator loads with the one Go would, and
the errors with the schemas Go refuses. The set of schemas has every function of
the DSL with every method of its result, chains of two methods on typical
results, sequences of up to two annotations, and whole types whose methods are
read in any order; chains of two are where one method's result is what another
one reads or overwrites (a default after or before the values of an enum, an
override after a derived value). Left out, each because the evaluator does take
it for something else (section 14) or cannot read it: identifiers of the schema
package, conversions, time values, the `Cascade...` and `AuthRequirement`
constants, `dsl.TypeEnum` as the element of an array, `[]string` literals,
lower-case strings for typed parameters, conditional returns. The wording of
errors is left out. Expressions nest, so this module declares RECURSIVE
operators; it is checked by TLC only.

## 7. From edges to tables and loaders: SchemaPlan and SchemaDiff

`SchemaPlan.tla` starts from loaded entities and ends with the snapshot and the
statements of the loaders. A name is a sequence of words, as the code derives
names by joining words with underscores.

| Code | Operator or action |
| --- | --- |
| `ensureDefaultField`, `synthesizeInverseEdges`, `validateEntities` | the same names; action `LoadEntities` |
| `writeORMArtifacts`, `emitEdgeLoaders` | `WriteORM`, `emitEdgeLoaders` |
| `buildMigrationPlan`, `ensureToOneColumn`, `ensureToManyColumn`, `ensureJoinTable`, `resolveForeignKeyColumn` | the same names; action `BuildSnapshot` |
| another run, with the entities in another order | `Again` |

`PlanIsWellFormed`: the tables of an accepted schema can be created.
`OrderIndependent`: the plan does not depend on the order of the entities, which
come out of a Go map, or on whether the ORM component sorted them in between.
`OneKeyPerRelation`: both ends of a
relation use one foreign key. `LoadersMatchPlan`: what a loader searches by is
that key. The declarations are every way to state the author of a post from
either side (with or without a declared column, a nullable edge, an inverse, a
Ref by name or by column) together with a many-to-many relation, and a set of
mistakes: edges to nobody, to oneself, declared columns of a wrong type. Three
entities suffice, since an edge concerns two and a join table is the third. Two
mistakes that `validateEntities` accepts are left out of the set: a column of
another type than the key of another entity, and one column for edges to two
targets; so are the declarations of section 14. What is left out is said by
operators on loaded entities, `TypesAgree`, `OneTargetEach`, `JoinsHaveTwoColumns`,
`JoinsAreOfTwo` and `NoInverseOfUnique`, and, for `OrderIndependent`, by four on
what the edges ask of the tables (`AllColumnsAsked`, `AllJoinsAsked`):
`ColumnsAgree` and `JoinsAgree`, edges that ask for one column or join table ask
for the same target and cascade; `RefsAreClear`, the name of an edge in a Ref is
not a column that another edge adds; `InversesAreOnce`, two entities do not want
inverses of one name in a third. In each of these cases the first edge to come
decides, and a map decides which that is. The assumption
`DeclarationsAreConsistent` of `MCSchemaPlan` has TLC evaluate them all for every
accepted declaration in every order, and they are the hypotheses of the theorems
of section 12.

`SchemaDiff.tla` has a database in the shape of a snapshot, the recorded
snapshot, and the pending files.

| Code | Operator or action |
| --- | --- |
| `diffSchema`, `diffExtensions`, `diffTables`, `diffTable`, `diffColumns`, `diffColumn`, `diffIndexes`, `diffForeignKeys`, `diffHypertable`, `createTableOps` | the same names (`IndexDrops`, `IndexAdds`, ... where the code interleaves two lists) |
| `orderMigrationOperations`, `chunkMigrationOperations`, `sortEntityMigrations` | the same names |
| `generateMigrations`, `renderInitialMigration` | `Generate`, `GenerateInitial` |
| `erm migrate` and PostgreSQL: what each operation needs and does | `Apply`, `Accepts`, `Effect` (external) |

`Converges`: no operation is refused, once all files are applied the database is
that of the entities, and (`DataIsKept`, where each file is applied before the
next edit) no column the entities keep is dropped. PostgreSQL refuses an
operation for what is not there or what depends on it; refusals that depend on
rows are left out. Identity columns, index methods and predicates are not told
apart, TimescaleDB is two functions taken as external, of which the one that
drops a hypertable is taken to succeed (section 14), and the initial migration is
only rendered by tests of the repository. Three sets of schemas, each closed
under any sequence of edits: columns, types, defaults, enums, indexes, foreign
keys and join tables (`edits`); generated columns, columns of an extension's type
and hypertables with one file left pending (`computed`); every graph of foreign
keys on three tables, with cycles and self-references (`graphs`).

Left out are schemas whose edits the diff does not express or PostgreSQL refuses
(section 14). The assumption `SchemasAreExpressible` says which are left, in terms
of any two snapshots of a project, so that it says when the diff can be relied on;
TLC evaluates it on the three sets, and the theorem of section 12 rests on it:

| Part | What it asks | Why |
| --- | --- | --- |
| `Shape`, `Refers` | a foreign key refers to the one primary key column of a table; a name of an index is used once | `ensureToOneColumn` and `ensureJoinTable` refer to the primary key; PostgreSQL's names of indexes are those of the schema |
| `WellFormed` | types and extensions, key types, hypertable keys fit; a generated column reads ordinary ones and has no default or enum of its own | the table could not be created otherwise, and `diffColumn` passes over the default and the enum of a generated column |
| `Alterable` | the primary key and Unique stay | `diffColumn` and `diffTable` never compare them |
| | an ordinary column changes its type only along a cast, where no generated column reads it and no foreign key that stays is on it or refers to it | PostgreSQL refuses the ALTER |
| | a generated column is rebuilt only without an index or key that stays, and reads columns that were there; a new one reads older or earlier columns | the DROP takes the index along; `diffColumns` adds shared columns before new ones, in the order of names |
| `Expressible` | an extension that goes is of no column's type | it is dropped before the columns |
| | a table takes no index name from another that stays | `CREATE INDEX IF NOT EXISTS` skips it |
| | the foreign keys of a new table have no actions | `createTableOps` leaves them out |
| `Startable` | no key refers to a join table, where the project starts with the initial migration | join tables are its end |

## 8. The code of a client: EntityCode and EdgeLoaders

`EntityCode.tla` takes the fields of an entity to the column lists of its
statements, the struct fields passed for them and scanned into, whether the Go
compiler takes the code, and what calls of it do to rows.

| Code | Operator or action |
| --- | --- |
| `entityColumns`, `insertColumns`, `insertableFields`, `updatableFields`, `scanArgs`, `isReadOnly` | the same names |
| `writeClients` with its imports, `emitQueryBuilder`, `defaultGoType` | `writeClients`, `compiles`, `queryFields`, `queryTypes`, `goType` |
| the emitted Create, Update, ByID, Delete | `Create`, `Update`, `ByID`, `Delete` |
| PostgreSQL: INSERT and UPDATE with RETURNING, generated columns | external |

`RoundTrip` says that these lists agree: the code compiles, no statement is
refused for its columns, and what is written is what is read. `CreatedAtKept`
says that reading, changing and writing back leaves creation times alone. The
entities are every order of two to four fields, one of each kind that has code of
its own, since each emitter skips or renames by kind. BulkCreate emits the same
lists and is taken as Create for each input; BulkUpdate stamps and lists the same,
but its statement is refused (sections 9 and 14), so it is not taken as Update. Of
the query builder only columns are taken, and the types that predicates and
aggregates have in their signatures, which need an import; an aggregate or a field
with a GoType of its own is left out. Fields with a default, and identity columns
that are always generated, are not in the set (section 14); `Usable` in `MCClient`
says which schemas have code that compiles and statements that are accepted, and
TLC evaluates it for every entity of the run.

`EdgeLoaders.tla` is the `Load...` method of one relation of each kind, row by
row, for a caller that asks `EdgeLoaded` first and passes a struct once.

| Code | Action |
| --- | --- |
| `emitToOneLoader`, `emitToManyLoader`, `emitManyToManyLoader`: the statement; each row; a failure before, between and after rows; the end | `Load`, `ScanRow`, `Fail`, `Finish` |
| `emitEdgeAccessors` | `SetEdge`, the marks of `MarkFirst` and `MarkLast` |
| other clients of the database | `Write` (external) |

`LoadedIsRight` excludes objects whose load failed until they are Set; what goes
wrong there is in section 14. Two structs that may hold the same row and two
targets show rows that are shared, missing and doubled; `MaxItems` bounds how
often a failed load is retried.

## 9. Queries and connections: Queries and Pagination

`Queries.tla` is the query builder with its limits, the builders of SELECT,
aggregate and bulk statements with their numbered placeholders, and the stream.

| Code | Operator or action |
| --- | --- |
| `UserQuery.Limit`, `Offset`, `WhereIDEq`, `OrderBy...`, `All`, `First`, `Count` | `Limit`, `Offset`, `AddWhere`, `OrderBy`, `All`, `First`, `Count` |
| `BuildSelectSQL`, `BuildAggregateSQL`, `BuildBulkInsertSQL`, `BuildBulkUpdateSQL`, `BuildBulkDeleteSQL` | `BuildSelect`, ... |
| `BulkCreate`, `BulkUpdate`, `BulkDelete` | `BulkInsert`, `BulkUpdate`, `BulkDelete` |
| `Stream`, `Next`, `Item`, `Close` | `Open`, `StreamNext`, `StreamClose` |

`AnswersAsAsked` compares each answer with the rows the caller's own calls
describe, and bulk inserts and deletes with the table the caller described, so
that placeholders, default and maximal limits, and what First leaves behind in the
builder all show; and a stream gives back its connection once. Every bulk update
is refused by PostgreSQL (section 14): it changes nothing and is answered
`Refused`, never the table its caller described, and the property makes an
exception of that answer. The caller does one thing at a time.

`Pagination.tla` is a client that walks `Users` page by page while rows come and
go. Count and List are two statements, at two moments; a cursor is a position.
Rows come in any order of their ids: `CreateUser` takes an id from its caller, and
`Create` draws a UUIDv7 before it validates and inserts, so that two creates may
commit the other way round. `WalkIsComplete` says what offsets can promise, by
what happened meanwhile:

- `crossed`: a row was inserted before one the client had got. Only then may a row
  come twice.
- `deleted`: a row was deleted. Otherwise the walk gets every row that was there
  all along, and a page that announces a next one has its cursor, unless
- `late`: a row was inserted before one of those between the last Count and its
  List, so that the walk stops by a total that is too small.

Each of the three does break the walk (section 14). Count and List read one
current table here; in the code both are reads of `pg.DB`, which policies may route
to different replicas with a lag of their own, and then nothing relates the total
to the page. Five rows, pages of one, three and the default of two, and three
changes give walks of several pages and empty, full and exactly full last ones.

Both run in `client`, with the modules of section 8. `CHECK_DEADLOCK FALSE`:
callers and walks are bounded and end.

## 10. Entity reads and writes: EntityCache

`EntityCache.tla` has the table, the cache shared by all requests, the loader of
each request and the last event of each row. A row is its version, and every
write takes the next one, so whatever a cache holds can be told from every other
state of the row.

| Code | Action |
| --- | --- |
| a resolver, `EntityLoader.Load`, `ByID` from the cache, from the database, into the cache | `StartLoad`, `Hit`, `Read`, `FillRead` |
| `Users` priming the loader | `List` |
| Create, Update, Delete: statement, lost answer, cache | `StartWrite`, `Write`, `WriteFails`, `FillWrite`, `Drop` |
| the bulk forms, row by row, and their end | `Write`, `WriteDoomed`, `NextRow`, `EndRows` |
| hooks that fail, events, the answer | `HooksFail`, `Publish`, `ReturnOrNot`, `ReadFails` |
| replication | `Replicate` (external) |

`Faults` says what may happen: "store" (the cache store fails), "answer" (a
commit whose answer is lost), "lag" (ByID reads a replica that is behind),
"rollback" (a bulk statement that returns rows and is rolled back), "oldList" (a
list from a replica that is behind). The run has the first four. With "oldList" a
request may prime its loader with a row older than one it wrote itself, and
`ReadYourWrites` fails; nothing promises otherwise.

`CommittedOnly`: nothing but committed rows is cached, answered or published,
except rows of a bulk statement that was rolled back. `UndisturbedIsFresh`: only
an overlap or a fault can leave a stale entry. `ReadYourWrites` has two parts,
for `wrote` and `since` of a request. It never reads an older row than one that
Create or Update has returned to it, whatever the shared cache holds. And, of an id
where nothing interfered, not one older than what a deletion or a bulk form of its
own left, as long as its loader held no row of that id when it was told: those
leave the loader alone, which keeps answering the row it holds (section 14).

Run `entity` has two requests with up to four calls between them on one row, the
fourth none of the bulk forms, or two calls on two rows (bulk operations take
both), and four versions of a row: two writes, one that overtakes them, and a
reader are enough to put any two of read, write, commit, fill and publish in either
order. The bounds are in `MCEntityCache`.

Bulk updates succeed here although the statement `Queries` builds is refused:
what the client does with the returned rows is what BulkCreate does with its own.
Fields of one request that run in parallel are not modelled, and neither is what
a BeforeReturn hook does to a record that others hold.

## 11. Read routing: Replicas

`Replicas.tla` has the status and mutex of each replica, the policies, the pools,
and for each read its place, options and answer. A read can be interleaved at
every lock and at every query.

| Code | Action |
| --- | --- |
| `ConnectCluster`, `Close` | `OpenPool`, `OpenFails`, `Close` |
| `UseReplicaPolicies` | `SetPolicies` |
| options from the context, a named policy, the default (two locks) | `Start`, `NamedPolicy`, `DefaultName`, `DefaultPolicy` |
| `selectReplica`: copy the status; wait for the mutex and look again; the probe's end | `Snapshot`, `Lock`, `ProbeEnds` |
| the query, its answer, the retry, the end of the observation | `Ask`, `Answer`, `Retry`, `Finish` |
| the clock | `Tick` |

`RoutedByFreshStatus`, `ProbesAreSpaced`, `PrimaryHasTheLastWord` and
`ResourcesAreReturned` are stated in the module. Deadlock is checked: `Quiet`,
the only step of a state with nothing to do, needs every read to be over, so a
read that waits for a mutex nobody frees is a deadlock. Two reads over two
replicas (one that must be read-only, one with a bound on lag), an interval of
one, a clock up to two, one change of policies: a read can find a status fresh,
find it stale and wait for the other's probe, or find it stale again after the
probe. There is no liveness run; what each step waits for is either a mutex whose
holder is in a probe or the answer of a query.

## 12. Proofs

TLC checks small instances; `tlapm` proves the following for every value of the
constants that satisfies the assumptions named in the modules. The argument is
an inductive invariant in each case. The runs of section 15 check each property
on a small instance.

| Module | Theorems | Assumptions beyond types and bounds |
| --- | --- | --- |
| `MigrateProofs` | `TypeCorrect`, `LockSerialises`, `TableMatchesSchema`, `PlanCorrect`, `ApplyCorrect`, `RollbackCorrect`, `Implementation` | none |
| `GenerateProofs` | `TypeCorrect`, `ForceCorrect`, `SkippingIsSound`, `FilesBuildSnapshot` | the last two: see below |
| `SubscriptionsProofs` | `TypeCorrect`, `SendsAreSafe`, `DeliveredInOrder` | none |
| `EntityCacheProofs` | `TypeCorrect`, `OnlyCommittedRows`, `UndisturbedStaysFresh`, `OwnWritesAreRead` | the last: "oldList" is not among the faults |
| `ReplicasProofs` | `TypeCorrect`, `FreshRouting`, `SpacedProbes`, `PrimaryDecides`, `ResourcesReturned` | none |
| `ClientProofs` | `WalkIsCompleteAlways`, `AnswersAsAskedAlways` | none |
| | `LoadedIsRightAlways`, `ValuesRoundTripAlways`, `RoundTripAlways`, `CreatedAtKeptAlways`, `ClientTypeOK` | `RoundTripAlways`: every entity is `Usable` |
| `SchemaProofs` | `FilesTypeOKAlways`, `ReadsPackageAlways` | the second: every layout is `Uniform` |
| | `PlanIsWellFormedAlways` | accepted schemas satisfy `TypesAgree`, `JoinsHaveTwoColumns` |
| | `OneKeyPerRelationAlways` | accepted schemas satisfy `NoInverseOfUnique` |
| | `LoadersMatchPlanAlways` | accepted schemas satisfy `OneTargetEach`, `JoinsAreOfTwo` |
| | `OrderIndependentAlways` | accepted schemas satisfy `ColumnsAgree`, `JoinsAgree`, `RefsAreClear`, `InversesAreOnce` |
| `DiffProofs` | `ConvergesAlways` | `SchemasAreExpressible` (section 7) |

*Migrate.* None of the properties is inductive alone. `IndInv` adds, for each
program point of a session that holds the lock, how what it has read and written
relates to the committed database (`BatchInProgress`: recorded plus still-to-do
is the next batch of `rec`; `RevertInProgress`: the selected row is there and
latest). Another session cannot break it, because only the lock's holder commits;
this is lemma `SessionFrame` with `LockHeldByRunning`. The refinement maps each
step, under `IndInv`, to one of `MigrateAbs` or a stutter.

*Generate.* `TypeCorrect` needs the bound on timestamps (`Stamps`: every
migration takes one, and every run and edit brings at most one) and that the
operations of a diff concern different tables (`Emitting`), which bounds the
number in a file name. `ForceCorrect` follows from `Delivering`: in a forced run
each artifact is either still to write or of the revision parsed.
`SkippingIsSound` assumes `Unsigned = {}` and `Reverts = FALSE`, as its run does
and for the reason given in section 4; its invariant `Sound` relates the hash a
run carries in memory, not only the cache, to the artifacts at each point of a
run: a hash enters the state only when the last file of its component is written,
and revisions only grow. `FilesBuildSnapshot` is `MigrationsReplay` and assumes
that no two migrations have one second and that no run stops between its first
migration file and its snapshot, as its run does. Its invariant `Replay` says, in
the middle of a run's files, which tables the directory builds so far: those of
the snapshot, changed by what has been written. A new file is later than every
other of its table, since the others have an older stamp, and takes no other's
name, since changes of one diff are totally ordered.

*Subscriptions.* `IInv` has the lock's discipline: a publisher sends only as a
reader (`ReadersSend`), whom it has to send to is registered (`TodoRegistered`),
what is registered is open and of its topic (`RegisteredOpen`), and before its
resolver is done a subscription has no other goroutine (`ResolverFirst`). `Close`
and `Register` need no readers, so they meet no publisher with anybody to send
to. For the order, `Line` says of the four places a message passes (broker's
channel, forwarder, transport's channel, client) that each is in order and comes
before the places behind it; lemmas `LineSend`, `LineReceive`, `LineForward` and
`LineRead` move a message from one to the next. What makes `Send` keep it is
`Later`: a publisher that may still send to a subscription has a higher number
than everything it sent there before.

*EntityCache.* `Stage` ties what an operation holds to its place. For
`CommittedOnly`, `Held` adds to the cache, loaders and events the versions that
operations under way are about to store. For `UndisturbedIsFresh`, `Fresh`
describes each id that nothing has disturbed by the one operation that may be
working on it: what it has read or written so far is the row. For
`ReadYourWrites`, `Recalled` says that a loader holds nothing older than what
Create and Update have returned to the request, and a load under way will not
either: the loader is asked before the cache. `AllMinded` does the same for
deletions and bulk forms, of ids that nothing has disturbed: neither the row nor
the loader is older than what the request was told of, and by `Fresh` neither is
what an operation of its own is about to take.

*Replicas.* `Inv` has, for each read, what its place says (`Reading`): the status
it chose by was judged fresh when it was chosen, whichever of the two looks chose
it; a mutex is held only by a read that probes (`Mutexes`); pools are open from
the first up to the one that is being opened.

*Pagination.* A row's rank is the number of rows before it; a page is the rows of
consecutive ranks (`PageOfRanks`). That each rank below the size is some row's
(`RankExists`) is the one inductive fact, proved from the least rank nobody has,
since the naturals are well-founded. `WalkInv` says that the cursor is the
position of the last row seen (`CursorIsLast`); while no row came before one that
was seen, that everything seen has a rank below the next position
(`SeenIsBehind`), so that no later page has it; and while nothing was deleted,
that every row that was there all along is seen or not below that position
(`NothingMissed`). An insertion keeps the latter because it only moves rows back;
a deletion is what makes the cursor point too far. The `total` that a page is
compared with covers the rows that were there all along, unless one was inserted
before one of them since it was counted, which is what `late` records.

*Queries.* `QueryInv`: the builder is what the caller asked for, the answer is
the expected one or, of a bulk update, `Refused`, and a stream has read a prefix
of its rows and holds one connection exactly while it is open. The work is in
the lemmas about statements: `SelectArguments` and `BulkArguments` put each
value at its placeholder whatever the number of predicates or rows,
`ListIsWanted` and `LimitIsWanted` compare the limits sent with those the caller
is due.

*EntityCode.* `HasAll` says that a list of columns has those of a set of fields,
each once, and `Carries` that a statement passes for each of its columns the value
of the field; `EmitFacts` proves this of every emitter for any order of the
fields. On it rests `CodeInv`, the table field by field. `ValuesRoundTripAlways`
needs no hypothesis: as far as the code compiles and a statement is accepted,
values keep their columns. `RoundTripAlways` adds that they do, for `Usable`
schemas. `CreatedAtKeptAlways` is an action property: the step's own list leaves
the column out.

*EdgeLoaders.* `LoaderInv` describes the call under way (`CallIsRight`: what
a list has and what the rows still to come bring it is what the statement said,
each once) and the edges between calls (`EdgesAreRight`), with objects whose load
failed set apart.

The four parts of the client are proved for their own specifications; `MCClient`
interleaves them, and `PartsOfClient` shows that each of its behaviours is one of
every part, which is how `ClientTypeOK` follows.

*SchemaFiles.* Under `Uniform` what `discoverSchemaFiles` returns is what the
compiler is given (`ReadsCompiled`): the suffix decides only where files with and
without it are mixed. `FilesInv` adds to the types that no file appears outside
the layout, and that the file `erm new` is writing exists.

*SchemaPlan.* `PlanInv` says of loaded entities that they are well formed
(`EntitiesOK`: fields and edges are lists in which no name comes twice, and every
generated edge mirrors a declared one, `Mirrors`), that they are those of an
accepted schema in some order, and that the loaders and the snapshot were made
from them. What the loops over entities and edges do is proved from invariants of
their steps. A loop is a recursive function; that it exists and what its steps are
(`AddInversesOfSteps`, `InversesSteps`, `EnsureAllSteps`, `PlanSteps`), and that
the invariant holds at its end, follow from the least step at which it would fail.
The invariant of the plan is `PlanOK`: columns of a table differ, a declared one
keeps its type, every foreign key has a column and is there for an edge
(`KeyOK`, with `ColumnsFor` the columns an edge may ask for). `Done` says what an
edge has left behind, and `More` that later edges take nothing away. From these
follow the three properties: a key on a declared column needs `TypesAgree`; an
inverse resolves to the column of its declared edge because that column is in the
plan by then (`OneKey`); and a to-many loader's column is a key of its source
because no other entity's edge may ask for it (`OneTargetEach`). The hypotheses
are not assumptions about the code: each names schemas that `validateEntities`
lets through although the plan does not carry them (section 14), and without it
TLC finds a counterexample among such schemas. TLC has checked `PlanInv` and the
other invariants of this section on the runs' instances.

*Order.* The same loops, run over the entities in two orders, are compared through
what they compute as sets. `Reached` says how far `synthesizeInverseEdges` is: the
edges it has passed are `Served`, their target has an edge of the name they want,
and every edge it added is the inverse of the first edge of its entity to want
one of that name (`AllMade`, `FirstToWant`); at the end this leaves no choice
(`MadeAlike`), so two orders give the `SameEntities`. `PlanIs` says that a plan
holds what a set of edges has asked for: a field is nullable or unique if the
declaration or one of the edges says so (`FieldsAre`), each column asked for has
its key (`KeysAre`), each join table its two sides (`JoinsAre`). Each edge adds
what it asks (`EnsureMet`), and what it asks does not depend on the plan it meets
(`ResolvedIs`), so the plan `IsPlanOf` the schema (`SameNormal`). `OrderInv` says
this of both plans that are kept; TLC has checked that part of it on the run's
schemas.

*SchemaDiff.* `Converges` is not inductive: it says nothing of the files that
wait. `DiffInv` adds that they are a path (`Chain`): a sequence of databases, from
the present one to the snapshot, in which each file is accepted where the one
before it ends and drops no column that is to be kept. The snapshot on file is
always that of the entities: where the diff is empty they are equal. `Apply` takes
the first step of the path (`ChainFirst`, `AppliedIs`), and `Generate` makes it
longer (`ChainOn`) by what the diff leads through, `DiffLeads`. That is the bulk of
the proof. A list of operations `Leads` from one database to another if each is
accepted where it comes and the result keeps its `Shape`, so that no foreign key
or index is left without what it needs. The diff is a nest of loops over sorted
names, and each loop has a formula for the database in the middle of it, by the
set of names that are done (`LeadsEach`): `Mid` and `Between` while the columns of
a table change, `Mixed` while tables do, `Left` and `Creating` while they go and
come. `OrderLeads` splits the order: the diff is followed once without the foreign
keys it adds (`TablesLead`) and once for them alone (`KeysLead`), when all tables
are there. `ChunkLeads` says that cutting the list into files changes nothing. The
initial migration is followed the same way (`InitialLeads`). `ParentsFirst` comes
from the invariant of Kahn's algorithm (`Ordered`) and from what is left when
nothing is ready: each table that remains refers to another that remains, so it
leads to a cycle (`KahnIs`). That loops end where they should follows from the
least turn at which they would not, as for the plan. `Chain` quantifies over paths, so TLC
cannot evaluate `DiffInv`; it checks `Converges`, and the assumption, on the
run's schemas.

Not proved. Liveness (`EveryCallEnds`, `WatchConverges`, `PublishReturns`,
`AcceptedIsDelivered`, `LeavesNothing`) is out of the prover's reach and is
model-checked only. `ReadAsRun` speaks of RECURSIVE operators, which the prover
cannot be given; for it the breadth of the inputs is what counts.

## 13. What is not modelled

* Validation registry: rules run one after the other on one record; the registry
  is a map behind a mutex.
* Observability: spans, metrics and logs record what happens and change nothing
  that other parts read.
* GraphQL emission and scaffolds: text. `Generate` has their files, and the
  resolvers are modelled as they are checked in.
* GraphQL server, directives, OIDC: wiring and checks per request, without shared
  state that changes, apart from what third-party packages keep.
* API process: start, serve, shut down, in a line.
* Other commands (`erm init`, `doctor`, `graphql init`, `docker sync`, `test`): each
  writes or inspects files, or starts other programs, once.
* gqlgen output: written by a third-party tool.
* In parts that are modelled: two generators in one directory, parallel fields of
  one request, callers of a loader on several goroutines, pool sizes and tracing
  hooks, aggregates other than COUNT, the metadata literals of the generated
  registry.

## 14. Known disagreements

Where code and documentation (or a comment, or a test) differ. Each was met while
a definition was translated and is left out of the passing runs as said in the
sections above. The first is checked by run `generate_versions`.

| Where | What the code does | What is said |
| --- | --- | --- |
| `generator/migrations.go:206` | All files of a run share its timestamp, which is their version; the engine refuses two files of one version | docs/schema-definition.md:905, apply with `erm migrate` |
| `generator/migrations.go:88` | Two migrations within a second have one file name, and the second overwrites the first | docs/cli.md:116, `erm gen` is idempotent |
| `generator/run.go:181` | A run that fails leaves the old hash over new artifacts; after a revert they are "up-to-date" | docs/customizing-generated-code.md:95, "up-to-date" may be committed |
| `orm/migrate/migrate.go:442` | Rollback takes the highest `applied_at`, the time a transaction began: ties are arbitrary, and a long wait for the lock inverts it | orm/migrate/migrate.go:393, the most recently applied migration |
| `orm/gen/client_gen.go:190` | ByID stores what it read over what a write stored meanwhile | docs/performance-observability.md:71, lookups populate or invalidate the cache |
| `orm/gen/client_gen.go:159` | Bulk writes cache rows before they know that the statement holds | the same |
| `graphql/resolvers/entities_gen.go:281` | Events of one row may be published in another order than its commits | docs/graphql-api.md:177, subscribers stay in sync |
| `graphql/resolvers/entities_gen.go:299` | DeleteUser leaves the row in the request's loader, and the bulk forms leave theirs, so a later load of the same request may answer it | docs/performance-observability.md:71, lookups populate or invalidate the cache |
| `graphql/resolvers/entities_gen.go:221` | A row may take any id, and one inserted before the cursor makes the next page repeat a row | docs/graphql-api.md:125, deterministic pagination |
| `graphql/resolvers/entities_gen.go:175` | A row inserted between Count and List, before the last ones, makes the walk stop before them | the same |
| `graphql/resolvers/query.resolvers.go:19` | A cursor is a position, so a deletion makes the walk skip a row | docs/graphql-api.md:125, derived from the primary key |
| `orm/runtime/bulk.go:105` | The bulk update's RETURNING is ambiguous, PostgreSQL refuses it | docs/performance-observability.md:61, BulkUpdate is included |
| `orm/pg/driver.go:273` | A failure among the rows of a replica is final | docs/performance-observability.md:41, retried against the writer |
| `orm/pg/driver.go:361` | With no suitable replica the writer is used, DisableFallback or not | the same |
| `orm/pg/driver.go:514` | A change of policies between two locks leaves a read without a default | orm/pg/driver.go:474, the default is applied |
| `generator/schema_diff.go:471` | Foreign keys of a new table lose ON DELETE and ON UPDATE | docs/performance-observability.md:10, rendered into the migrations |
| `generator/schema_diff.go:443` | Dropping a hypertable calls `remove_hypertable`, which TimescaleDB does not have; the model takes it to succeed | docs/overview.md:39, hypertables come with migration helpers |
| `generator/schema_diff.go:247` | A field that becomes unique gets no constraint | docs/schema-definition.md:255, `.Unique()` generates one |
| `generator/schema_diff.go:198` | A rebuilt expression comes before the columns it newly reads | docs/performance-observability.md:13, dropped and recreated |
| `generator/schema_diff.go:37` | An extension is dropped before the columns of its types, which is refused | generator/migrations_test.go:363 expects that migration |
| `generator/validation.go:126` | The column of an edge is looked up in the target's fields, so one that is declared where it belongs is reported | docs/schema-definition.md:381, stored on the source |
| `generator/validation.go:144` | For the same reason its type is not compared | generator/validation_test.go:15, an invalid type fails |
| `generator/orm.go:949` | No loader is emitted where the migration adds the column | docs/schema-definition.md:586, each edge has one |
| `generator/parser.go:1312` | The inverse of a unique to-one edge gets a foreign key of its own | docs/schema-definition.md:455, without a second foreign key |
| `generator/parser.go:160` | Entities come out of a map, and the first edge decides a shared column's cascade | docs/cli.md:116, `erm gen` is idempotent |
| `generator/orm.go:1324` | Both columns of a join table of one entity have one name | docs/schema-definition.md:531, self-referential edges are ideal |
| `generator/orm.go:966` | The to-one loader marks the edge before its statement and leaves the mark when that fails | docs/schema-definition.md:587, EdgeLoaded |
| `generator/orm.go:1032` | A list loader called again after a failed row appends its rows twice | the same |
| `generator/orm.go:913` | The type of an aggregate, like that of a predicate (orm.go:818), may need a package that is not imported | docs/dsl-quick-reference.md:97, `.WithAggregates(aggs...)` |
| `generator/orm.go:640` | The client of an entity with a numeric key does not compile | docs/schema-definition.md:189, identity keys |
| `generator/orm.go:1407` | INSERT lists identity columns that are always generated | docs/schema-definition.md:266, `.Identity(mode)` |
| `generator/orm.go:489` | Create passes the zero value, so a column's default never applies | docs/schema-definition.md:259, `.Default(value)` |
| `generator/orm.go:650` | Update ignores a computed field that is set | docs/schema-definition.md:305, it is rejected |
| `generator/orm.go:1143` | The first argument of NewAggregate is a method name; without `.On` it runs over `*` | docs/dsl-quick-reference.md:101, `NewAggregate("field", ...)` |
| `generator/parser.go:814` | A conversion such as `string(StatusNew)` stops the generator | docs/schema-definition.md:285 shows one |
| `generator/parser.go:587` | Any identifier is read as its own name | docs/schema-definition.md:259, the default is the Go value |
| `generator/parser.go:1482` | The `Cascade...` constants are read as their names | docs/performance-observability.md:10, rendered into the migrations |
| `generator/parser.go:1202` | The parser takes `PolymorphicTargets`, which the DSL does not have | docs/dsl-quick-reference.md:77 lists it |
| `orm/dsl/schema.go:404` | Only string defaults of an enum are compared with its values | docs/schema-definition.md:259, defaults are validated |
| `generator/parser.go:192` | One `*.schema.go` file hides the entities of all other files | docs/dsl-quick-reference.md:3, other file names are accepted |

## 15. Running

    tlc -config Migrate.cfg MCMigrate.tla
    tlapm MigrateProofs.tla

`PROJECT.json` lists the runs with the module, the configuration and the
properties of each:

| Run | Shows |
| --- | --- |
| `migrate_safety` | Two sessions, three calls of any kind, a directory that changes once, a failure at any point: the schema and erm_schema_migrations agree, calls are serialised, and every behaviour is one of MigrateAbs. |
| `migrate_liveness` | Every call ends although sessions fail while they hold the advisory lock and others wait for it. |
| `generate_safety` | With every flag, edits during runs, watch mode and a run that stops anywhere outside the migration step: a skipped component has nothing to generate, and the migration files build what the snapshot says. |
| `generate_recover` | With stops anywhere, reverted and unsigned edits and migrations in the same second: a --force run always delivers, and watch mode catches up with what it was told of. |
| `generate_versions` | One run that creates two tables writes two migration files with one version. |
| `subscriptions_safety` | Two publishers, two subscriptions that come and go, three messages, full buffers: no send on a closed channel, and each client sees a publisher's messages in order and once. |
| `subscriptions_liveness` | Publish returns although a client does not read, an accepted message is delivered, and a client that leaves leaves nothing behind. |
| `replicas` | Two reads over two replicas with requirements of their own, policies that change, time, failing probes and queries, Close at any point: replicas are chosen by fresh and sufficient status, probed once per interval, the primary decides what is missing or failed, and no read is stuck behind another's probe. |
| `entity` | Single and bulk operations of two requests on one or two rows, with a failing store, lost answers, a lagging replica and bulk statements that are rolled back after they returned rows: what the cache, the loaders, the answers and the events hold was committed, and is current where nothing interfered. |
| `schema_read` | The files of a schema package in any layout while the developer edits and erm new adds to it, and the declarations in them, every function and method of the DSL in chains of two: the generator reads the entities Go would, with the values Go would give them. |
| `schema_plan` | Schemas of up to three entities in every order of their files, and sequences of edits to projects with pending migrations: relations get one foreign key, the generated loaders find it, and the migrations lead every database to the entities. |
| `client` | The code of an entity for fields in any order, its Load methods under failing queries, its query builder, streams and bulk statements, and the walk of a connection while rows come and go anywhere in the table. |

Each property has a mutant there: a definition named `...Faulty`, a plausible bug
in the definition that follows it, under which the property fails. No action uses
these definitions.

Symmetry is used where the permuted values are only compared: sessions, requests,
ids, reads, publishers, subscriptions and structs, and never in a run with a
liveness property. The runs finish in a few minutes each on two workers.
