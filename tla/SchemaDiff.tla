----------------------------- MODULE SchemaDiff -----------------------------
(***************************************************************************)
(* The schema diff of erm gen (generator/schema_diff.go), the order and    *)
(* the files generateMigrations gives its operations, the renderer of an   *)
(* initial migration (generator/migrations.go) and the snapshot they start *)
(* from (generator/schema_snapshot.go).                                    *)
(*                                                                         *)
(* A snapshot maps names to tables, a table maps names to columns, indexes *)
(* and foreign keys; the code keeps sorted lists of them.  Names are       *)
(* numbers, in the order the code sorts them.  A foreign key is named      *)
(* after its table and column, so the column stands for the constraint.    *)
(* The database has the shape of a snapshot; what PostgreSQL does with an  *)
(* operation, and which ones it refuses whatever the rows are, is external.*)
(***************************************************************************)
EXTENDS Integers, Sequences, FiniteSets, SequencesExt, FiniteSetsExt, Functions

CONSTANTS
    Schemas,        \* Schemas[project]: the snapshots its schemas may give
    Casts,          \* pairs of types PostgreSQL casts by itself
    ExtensionOf,    \* ExtensionOf[type]: the extension that brings it, or None
    Initial,        \* projects that may start with the initial migration
    Timescale,      \* the extension of hypertables
    MaxPending,     \* MaxPending[project]: bound on the files not yet applied
                    \* when erm gen runs
    None

ASSUME SchemaDiffAssumption ==
    /\ MaxPending \in [DOMAIN Schemas -> Nat] /\ Initial \subseteq DOMAIN Schemas
    /\ Casts \subseteq (DOMAIN ExtensionOf) \X (DOMAIN ExtensionOf)

VARIABLES
    project,    \* which project this is
    schema,     \* what the entities say now
    recorded,   \* schema.snapshot.json
    pending,    \* files that are not applied: sequences of operations
    db,         \* the database
    lost,       \* ordinary columns the last applied file has dropped
    refused     \* whether the database refused a file

diffVars == <<project, schema, recorded, pending, db, lost, refused>>

Nothing == [name \in {} |-> None]
Empty == [ext |-> {}, tables |-> Nothing]

DiffTypeOK ==
    /\ project \in DOMAIN Schemas
    /\ {schema, recorded} \subseteq Schemas[project] \cup {Empty}
    /\ \A i \in DOMAIN pending : pending[i] # <<>>
    /\ \A t \in DOMAIN db.tables :
           /\ db.tables[t].pk \subseteq DOMAIN db.tables[t].cols
           /\ \A x \in DOMAIN db.tables[t].idx :
                  ToSet(db.tables[t].idx[x].cols) \subseteq DOMAIN db.tables[t].cols
           /\ DOMAIN db.tables[t].fks \subseteq DOMAIN db.tables[t].cols
    /\ refused \in BOOLEAN

DiffInit ==
    /\ project \in DOMAIN Schemas
    /\ schema = Empty /\ recorded = Empty /\ db = Empty
    /\ pending = <<>> /\ lost = {} /\ refused = FALSE

-----------------------------------------------------------------------------
(* Operations.  Name is the extension, column, index or constraint; def is *)
(* what the SQL text says of it.  Definitions named *Faulty* are not the   *)
(* code: each is a plausible bug in the definition after it.               *)

Op(kind, table, name, def) == [kind |-> kind, table |-> table, name |-> name, def |-> def]

\* The Target of an operation, which decides what shares a file.
Target(op) ==
    CASE op.kind \in {"create_extension", "drop_extension"} -> <<"extension", 0, op.name>>
      [] op.kind \in {"create_table", "drop_table", "create_hypertable", "drop_hypertable"}
             -> <<"table", op.table, 0>>
      [] op.kind \in {"add_index", "drop_index"} -> <<"index", 0, op.name>>
      [] op.kind \in {"add_foreign_key", "drop_foreign_key"} -> <<"fk", op.table, op.name>>
      [] op.kind \in {"add_check_constraint", "drop_check_constraint"} -> <<"check", op.table, op.name>>
      [] OTHER -> <<"column", op.table, op.name>>

Sorted(S) ==
    [i \in 1..Cardinality(S) |-> CHOOSE x \in S : Cardinality({y \in S : y < x}) = i - 1]
Each(S, F(_)) == LET s == Sorted(S) IN FlattenSeq([i \in DOMAIN s |-> F(s[i])])
When(P, op) == IF P THEN <<op>> ELSE <<>>
Both(f, g) == DOMAIN f \cap DOMAIN g
Gone(f, g) == DOMAIN f \ DOMAIN g
Differ(f, g) == Gone(f, g) \cup {x \in Both(f, g) : f[x] # g[x]}

\* Join tables come after the others, for drops as for creations.
TablesFirst(names, tables, F(_)) ==
    Each({t \in names : ~tables[t].join}, F) \o Each({t \in names : tables[t].join}, F)

diffExtensions(prev, next) ==
    Each(prev \ next, LAMBDA x : <<Op("drop_extension", 0, x, None)>>)
      \o Each(next \ prev, LAMBDA x : <<Op("create_extension", 0, x, None)>>)

IndexDrops(t, prev, next) ==
    Each(Differ(prev, next), LAMBDA x : <<Op("drop_index", t, x, None)>>)
\* A changed index is dropped and added, as is a changed foreign key.
IndexAdds(t, prev, next) ==
    Each(Differ(next, prev), LAMBDA x : <<Op("add_index", t, x, next[x])>>)
ForeignKeyDrops(t, prev, next) ==
    Each(Differ(prev, next), LAMBDA c : <<Op("drop_foreign_key", t, c, None)>>)
ForeignKeyAdds(t, prev, next) ==
    Each(Differ(next, prev), LAMBDA c : <<Op("add_foreign_key", t, c, next[c])>>)

Rebuild(t, c, next) ==
    <<Op("drop_column", t, c, "restrict"), Op("add_column", t, c, next)>>

\* A generated column is rebuilt when anything but its default or values
\* changes; an ordinary one is altered clause by clause, and never in Unique.
diffColumn(t, c, prev, next) ==
    IF prev.reads # None \/ next.reads # None
    THEN IF \E a \in {"reads", "type", "nullable", "unique"} : prev[a] # next[a]
         THEN Rebuild(t, c, next) ELSE <<>>
    ELSE When(prev.type # next.type, Op("alter_type", t, c, next.type))
           \o When(prev.nullable # next.nullable, Op("alter_nullable", t, c, next.nullable))
           \o When(prev.default # next.default, Op("alter_default", t, c, next.default))
           \o When(prev.enum # next.enum /\ prev.enum # {}, Op("drop_check_constraint", t, c, None))
           \o When(prev.enum # next.enum /\ next.enum # {}, Op("add_check_constraint", t, c, next.enum))

diffColumns(t, prev, next) ==
    Each(Both(prev, next), LAMBDA c : diffColumn(t, c, prev[c], next[c]))
      \o Each(Gone(next, prev), LAMBDA c : <<Op("add_column", t, c, next[c])>>)
      \o Each(Gone(prev, next), LAMBDA c : <<Op("drop_column", t, c, "cascade")>>)

diffHypertable(t, prev, next) ==
    IF prev.hyper = next.hyper THEN <<>>
    ELSE When(prev.hyper # None, Op("drop_hypertable", t, 0, None))
           \o When(next.hyper # None, Op("create_hypertable", t, 0, next.hyper))

\* What depends on a column goes before the columns change, and comes after.
diffTable(t, prev, next) ==
    IndexDrops(t, prev.idx, next.idx) \o ForeignKeyDrops(t, prev.fks, next.fks)
      \o diffColumns(t, prev.cols, next.cols)
      \o IndexAdds(t, prev.idx, next.idx) \o ForeignKeyAdds(t, prev.fks, next.fks)
      \o diffHypertable(t, prev, next)

\* A new table's foreign keys are written without ON DELETE and ON UPDATE.
createTableOps(t, table) ==
    <<Op("create_table", t, 0, table)>>
      \o Each(DOMAIN table.idx, LAMBDA x : <<Op("add_index", t, x, table.idx[x])>>)
      \o Each(DOMAIN table.fks,
              LAMBDA c : <<Op("add_foreign_key", t, c, [table.fks[c] EXCEPT !.onDelete = None])>>)
      \o When(table.hyper # None, Op("create_hypertable", t, 0, table.hyper))

diffTables(prev, next) ==
    TablesFirst(Gone(prev, next), prev, LAMBDA t : <<Op("drop_table", t, 0, None)>>)
      \o Each(Both(prev, next), LAMBDA t : diffTable(t, prev[t], next[t]))
      \o TablesFirst(Gone(next, prev), next, LAMBDA t : createTableOps(t, next[t]))

diffSchema(prev, next) ==
    diffExtensions(prev.ext, next.ext) \o diffTables(prev.tables, next.tables)

Chosen(ops, chosen) == FlattenSeq([i \in DOMAIN ops |-> When(i \in chosen, ops[i])])
OnlyForeignKeys(ops) == Chosen(ops, {i \in DOMAIN ops : ops[i].kind = "add_foreign_key"})
WithoutForeignKeys(ops) == Chosen(ops, {i \in DOMAIN ops : ops[i].kind # "add_foreign_key"})

orderMigrationOperationsFaulty(ops) == ops
\* Foreign keys last, when every table there will be exists.
orderMigrationOperations(ops) == WithoutForeignKeys(ops) \o OnlyForeignKeys(ops)

\* A run of operations with one target is one file.
Chunked(files, op) ==
    IF files # <<>> /\ Target(Head(Last(files))) = Target(op)
    THEN Append(Front(files), Append(Last(files), op))
    ELSE Append(files, <<op>>)
chunkMigrationOperations(ops) ==
    LET files[i \in 0..Len(ops)] == IF i = 0 THEN <<>> ELSE Chunked(files[i - 1], ops[i])
    IN  files[Len(ops)]

-----------------------------------------------------------------------------
(* The initial migration, rendered from the entities in one piece. *)

Parents(tables, t) ==
    {tables[t].fks[c].table : c \in DOMAIN tables[t].fks} \cap (DOMAIN tables \ {t})

\* Kahn's algorithm with a sorted queue; what is on a cycle comes last, sorted.
sortEntityMigrations(tables) ==
    LET Ready(done) == {t \in DOMAIN tables \ ToSet(done) : Parents(tables, t) \subseteq ToSet(done)}
        order[n \in 0..Cardinality(DOMAIN tables)] ==
            IF n = 0 THEN <<>>
            ELSE LET done == order[n - 1]
                 IN  IF Ready(done) = {} THEN done ELSE Append(done, Min(Ready(done)))
        free == order[Cardinality(DOMAIN tables)]
    IN  free \o Sorted(DOMAIN tables \ ToSet(free))

\* Foreign keys of entities are deferred, with their actions; join tables end it.
renderInitialMigration(next) ==
    LET tables == next.tables
        entities == Restrict(tables, {t \in DOMAIN tables : ~tables[t].join})
        order == sortEntityMigrations(entities)
        Body(t) == WithoutForeignKeys(createTableOps(t, tables[t]))
        Keys(t) == ForeignKeyAdds(t, Nothing, tables[t].fks)
        Files(F(_)) == FlattenSeq([i \in DOMAIN order |-> F(order[i])])
    IN  Each(next.ext, LAMBDA x : <<Op("create_extension", 0, x, None)>>)
          \o Files(Body) \o Files(Keys)
          \o Each(DOMAIN tables \ DOMAIN entities, LAMBDA t : Body(t) \o Keys(t))

-----------------------------------------------------------------------------
(* PostgreSQL. *)

Put(f, x, v) == [y \in DOMAIN f \cup {x} |-> IF y = x THEN v ELSE f[y]]
Without(f, S) == Restrict(f, DOMAIN f \ S)

IsUnique(d, t, c) ==
    \/ d.tables[t].cols[c].unique \/ d.tables[t].pk = {c}
    \/ \E x \in DOMAIN d.tables[t].idx :
           d.tables[t].idx[x].unique /\ d.tables[t].idx[x].cols = <<c>>

\* The foreign keys, by the column each is on.
Keys(d) == UNION {{<<t, c>> : c \in DOMAIN d.tables[t].fks} : t \in DOMAIN d.tables}
Key(d, k) == d.tables[k[1]].fks[k[2]]
KeysTo(d, t, C) == {k \in Keys(d) : Key(d, k).table = t /\ Key(d, k).column \in C}
Readers(table, c) ==
    {g \in DOMAIN table.cols : table.cols[g].reads # None /\ c \in table.cols[g].reads}
IndexNames(d) == UNION {DOMAIN d.tables[t].idx : t \in DOMAIN d.tables}

\* An index belongs to its columns, a foreign key to both its ends.
WithoutKeys(tables, gone) ==
    [t \in DOMAIN tables |->
        [tables[t] EXCEPT !.fks = Without(@, {c \in DOMAIN @ : <<t, c>> \in gone})]]
WithoutColumns(d, t, C) ==
    LET tables == WithoutKeys(d.tables, KeysTo(d, t, C) \cup ({t} \X C))
        table == tables[t]
        rest == [table EXCEPT
                    !.cols = Without(@, C),
                    !.pk   = IF @ \cap C = {} THEN @ ELSE {},
                    !.idx  = Without(@, {x \in DOMAIN @ : ToSet(@[x].cols) \cap C # {}})]
    IN  [d EXCEPT !.tables = [tables EXCEPT ![t] = rest]]
WithoutTable(d, t) ==
    LET tables == WithoutKeys(d.tables, {k \in Keys(d) : Key(d, k).table = t}) IN
    [d EXCEPT !.tables = Without(tables, {t})]
WithoutIndex(d, x) ==
    [d EXCEPT !.tables = [t \in DOMAIN d.tables |-> [d.tables[t] EXCEPT !.idx = Without(@, {x})]]]

Usable(d, type) == ExtensionOf[type] \in d.ext \cup {None}

SameType(d, t, c, type) ==
    \A k \in Keys(d) :
        LET f == Key(d, k) IN
        /\ k = <<t, c>> => d.tables[f.table].cols[f.column].type = type
        /\ f.table = t /\ f.column = c => d.tables[k[1]].cols[k[2]].type = type

\* A change to a table that exists.
AcceptsChange(d, op) ==
    LET t == op.table
        table == d.tables[t]
    IN  CASE op.kind = "add_column" ->
                 /\ op.name \notin DOMAIN table.cols /\ Usable(d, op.def.type)
                 /\ op.def.reads # None => op.def.reads \subseteq DOMAIN table.cols
          [] op.kind = "drop_column" ->
                 op.def = "cascade" \/
                     /\ op.name \in DOMAIN table.cols /\ Readers(table, op.name) = {}
                     /\ KeysTo(d, t, {op.name}) = {}
          [] op.kind = "alter_type" ->
                 /\ Readers(table, op.name) = {}
                 /\ <<table.cols[op.name].type, op.def>> \in Casts
                 /\ Usable(d, op.def)
                 /\ SameType(d, t, op.name, op.def)
          [] op.kind = "alter_nullable" -> op.def => op.name \notin table.pk
          [] op.kind = "add_foreign_key" ->
                 /\ op.name \in DOMAIN table.cols /\ op.name \notin DOMAIN table.fks
                 /\ op.def.table \in DOMAIN d.tables
                 /\ op.def.column \in DOMAIN d.tables[op.def.table].cols
                 /\ IsUnique(d, op.def.table, op.def.column)
                 /\ table.cols[op.name].type = d.tables[op.def.table].cols[op.def.column].type
          [] op.kind = "add_index" ->
                 op.name \in IndexNames(d) \/ ToSet(op.def.cols) \subseteq DOMAIN table.cols
          [] op.kind = "create_hypertable" ->
                 /\ Timescale \in d.ext
                 /\ op.def \in table.pk \/ table.pk = {}
                 /\ \A c \in DOMAIN table.cols : table.cols[c].unique => c = op.def
          [] OTHER -> TRUE

Accepts(d, op) ==
    CASE op.kind \in {"create_extension", "drop_table"} -> TRUE
      [] op.kind = "drop_extension" ->
             \A u \in DOMAIN d.tables : \A c \in DOMAIN d.tables[u].cols :
                 ExtensionOf[d.tables[u].cols[c].type] # op.name
      [] op.kind = "create_table" ->
             /\ op.table \notin DOMAIN d.tables
             /\ \A c \in DOMAIN op.def.cols : Usable(d, op.def.cols[c].type)
      [] op.kind = "drop_index" ->
             \A k \in Keys(d) :
                 IsUnique(WithoutIndex(d, op.name), Key(d, k).table, Key(d, k).column)
      [] OTHER -> op.table \in DOMAIN d.tables /\ AcceptsChange(d, op)

\* What an operation does to the table it changes.
Changed(table, op) ==
    LET c == op.name IN
    CASE op.kind = "add_column" -> [table EXCEPT !.cols = Put(@, c, op.def)]
      [] op.kind = "alter_type" -> [table EXCEPT !.cols[c].type = op.def]
      [] op.kind = "alter_nullable" -> [table EXCEPT !.cols[c].nullable = op.def]
      [] op.kind = "alter_default" -> [table EXCEPT !.cols[c].default = op.def]
      [] op.kind = "add_check_constraint" -> [table EXCEPT !.cols[c].enum = op.def]
      [] op.kind = "drop_check_constraint" -> [table EXCEPT !.cols[c].enum = {}]
      [] op.kind = "add_foreign_key" -> [table EXCEPT !.fks = Put(@, c, op.def)]
      [] op.kind = "drop_foreign_key" -> [table EXCEPT !.fks = Without(@, {c})]
      [] op.kind = "create_hypertable" -> [table EXCEPT !.hyper = op.def]
      [] op.kind = "drop_hypertable" -> [table EXCEPT !.hyper = None]

Effect(d, op) ==
    LET t == op.table  c == op.name IN
    CASE op.kind = "create_extension" -> [d EXCEPT !.ext = @ \cup {c}]
      [] op.kind = "drop_extension" -> [d EXCEPT !.ext = @ \ {c}]
      [] op.kind = "create_table" ->
             [d EXCEPT !.tables =
                 Put(@, t, [op.def EXCEPT !.idx = Nothing, !.fks = Nothing, !.hyper = None])]
      [] op.kind = "drop_table" -> IF t \in DOMAIN d.tables THEN WithoutTable(d, t) ELSE d
      [] op.kind = "drop_column" ->
             IF c \in DOMAIN d.tables[t].cols
             THEN WithoutColumns(d, t, {c} \cup Readers(d.tables[t], c)) ELSE d
      [] op.kind = "drop_index" -> WithoutIndex(d, c)
      [] op.kind = "add_index" ->   \* IF NOT EXISTS
             IF c \in IndexNames(d) THEN d ELSE [d EXCEPT !.tables[t].idx = Put(@, c, op.def)]
      [] OTHER -> [d EXCEPT !.tables[t] = Changed(@, op)]

\* A file is one transaction: its operations, as long as each is accepted.
Step(s, op) ==
    IF s.ok /\ Accepts(s.db, op) THEN [ok |-> TRUE, db |-> Effect(s.db, op)]
    ELSE [ok |-> FALSE, db |-> s.db]
Applied(d, file) ==
    LET after[i \in 0..Len(file)] ==
            IF i = 0 THEN [ok |-> TRUE, db |-> d] ELSE Step(after[i - 1], file[i])
    IN  after[Len(file)]

-----------------------------------------------------------------------------

\* erm gen: without operations the snapshot is written only when forced.
Generate ==
    /\ ~refused /\ Len(pending) <= MaxPending[project]
    /\ \E next \in Schemas[project], force \in BOOLEAN :
           LET ops == orderMigrationOperations(diffSchema(recorded, next)) IN
           /\ schema' = next
           /\ recorded' = IF ops # <<>> \/ force THEN next ELSE recorded
           /\ pending' = pending \o chunkMigrationOperations(ops)
    /\ lost' = {}
    /\ UNCHANGED <<project, db, refused>>

\* A new project started with the initial migration (only tests render it).
GenerateInitial ==
    /\ project \in Initial /\ recorded = Empty
    /\ \E next \in Schemas[project] :
           /\ schema' = next /\ recorded' = next
           /\ pending' = <<renderInitialMigration(next)>>
    /\ UNCHANGED <<project, db, lost, refused>>

Ordinary(s) ==
    {k \in (DOMAIN s.tables) \X UNION {DOMAIN s.tables[t].cols : t \in DOMAIN s.tables} :
        /\ k[2] \in DOMAIN s.tables[k[1]].cols /\ s.tables[k[1]].cols[k[2]].reads = None}

\* erm migrate: the next file, or nothing of it.
Apply ==
    /\ ~refused /\ pending # <<>>
    /\ LET s == Applied(db, Head(pending))
           drops == {op \in ToSet(Head(pending)) : op.kind \in {"drop_column", "drop_table"}}
       IN  \/ /\ s.ok
              /\ db' = s.db /\ pending' = Tail(pending)
              /\ lost' = {k \in Ordinary(db) :
                             \/ k \notin Ordinary(s.db)
                             \/ \E op \in drops : op.table = k[1] /\ op.name \in {0, k[2]}}
              /\ UNCHANGED refused
           \/ /\ ~s.ok
              /\ refused' = TRUE
              /\ UNCHANGED <<db, pending, lost>>
    /\ UNCHANGED <<project, schema, recorded>>

DiffNext == Generate \/ GenerateInitial \/ Apply

DiffSpec == DiffInit /\ [][DiffNext]_diffVars

-----------------------------------------------------------------------------
(* The schemas whose edits the diff can express.  Left out are those it    *)
(* passes over or PostgreSQL refuses: an ordinary column that changes in   *)
(* Unique, a primary key that changes, a type with no cast, the type of a  *)
(* column that others read or refer to, a new table whose key has an       *)
(* action, an index that moves from one table to another.                  *)

IsMap(f) == f = [x \in DOMAIN f |-> f[x]]

IsColumn(c) ==
    /\ c = [type |-> c.type, nullable |-> c.nullable, unique |-> c.unique,
            default |-> c.default, reads |-> c.reads, enum |-> c.enum]
    /\ c.nullable \in BOOLEAN /\ c.unique \in BOOLEAN

IsTable(x) ==
    /\ x = [cols |-> x.cols, pk |-> x.pk, idx |-> x.idx, fks |-> x.fks,
            hyper |-> x.hyper, join |-> x.join]
    /\ IsMap(x.cols) /\ IsMap(x.idx) /\ IsMap(x.fks)
    /\ \A c \in DOMAIN x.cols : IsColumn(x.cols[c])
    /\ x.pk \subseteq DOMAIN x.cols /\ DOMAIN x.fks \subseteq DOMAIN x.cols
    /\ \A i \in DOMAIN x.idx : ToSet(x.idx[i].cols) \subseteq DOMAIN x.cols

\* A foreign key refers to a table's only primary key column.
Refers(d, f) == f.table \in DOMAIN d.tables /\ d.tables[f.table].pk = {f.column}

\* A snapshot or a database, with each index under its own name.
Shape(d) ==
    /\ d = [ext |-> d.ext, tables |-> d.tables] /\ IsMap(d.tables)
    /\ \A t \in DOMAIN d.tables :
           /\ IsTable(d.tables[t])
           /\ \A c \in DOMAIN d.tables[t].fks : Refers(d, d.tables[t].fks[c])
           /\ \A u \in DOMAIN d.tables \ {t} :
                  DOMAIN d.tables[t].idx \cap DOMAIN d.tables[u].idx = {}

AreNames(S) == S \in SUBSET Nat /\ IsFiniteSet(S)

\* Generated columns read ordinary ones and have nothing else; a foreign key is
\* of the type of the key it refers to; a hypertable's keys hold its time column.
WellFormed(s) ==
    /\ Shape(s) /\ AreNames(s.ext) /\ AreNames(DOMAIN s.tables)
    /\ \A t \in DOMAIN s.tables :
           LET x == s.tables[t] IN
           /\ AreNames(DOMAIN x.cols) /\ 0 \notin DOMAIN x.cols /\ AreNames(DOMAIN x.idx) /\ x.join \in BOOLEAN
           /\ \A c \in DOMAIN x.cols :
                  LET col == x.cols[c] IN
                  /\ Usable(s, col.type) /\ (col.nullable => c \notin x.pk)
                  /\ col.reads # None =>
                         /\ col.default = None /\ col.enum = {}
                         /\ \A r \in col.reads : r \in DOMAIN x.cols /\ x.cols[r].reads = None
           /\ \A c \in DOMAIN x.fks :
                  LET f == x.fks[c] IN
                  /\ f = [table |-> f.table, column |-> f.column, onDelete |-> f.onDelete]
                  /\ x.cols[c].type = s.tables[f.table].cols[f.column].type
           /\ x.hyper # None =>
                  /\ Timescale \in s.ext /\ (x.hyper \in x.pk \/ x.pk = {})
                  /\ \A c \in DOMAIN x.cols : x.cols[c].unique => c = x.hyper

Kept(p, n) == {c \in Both(p, n) : p[c] = n[c]}

\* What PostgreSQL lets the diff do to a table.  An ordinary column's UNIQUE is
\* never altered, its type has a cast of its own, no generated column reads it
\* and no key is on it; a generated column that is rebuilt has nothing on it.
Alterable(prev, next, t) ==
    LET p == prev.tables[t]  n == next.tables[t] IN
    /\ n.pk = p.pk /\ n.join = p.join
    /\ \A c \in Both(p.cols, n.cols) :
           LET a == p.cols[c]  b == n.cols[c]
               unread == Readers(p, c) = {} /\ Readers(n, c) \cap DOMAIN p.cols = {}
           IN  IF a.reads = None /\ b.reads = None
               THEN /\ a.unique = b.unique
                    /\ a.type # b.type =>
                           /\ <<a.type, b.type>> \in Casts /\ unread /\ c \notin Kept(p.fks, n.fks)
                           /\ \A u \in DOMAIN prev.tables : \A g \in DOMAIN prev.tables[u].fks :
                                  ~ (prev.tables[u].fks[g].table = t /\ prev.tables[u].fks[g].column = c)
               ELSE a # b =>
                        /\ unread /\ c \notin p.pk /\ c \notin Kept(p.fks, n.fks)
                        /\ \A i \in Kept(p.idx, n.idx) : c \notin ToSet(p.idx[i].cols)
                        /\ b.reads # None => b.reads \subseteq DOMAIN p.cols
    /\ \A c \in Gone(n.cols, p.cols) :
           n.cols[c].reads # None =>
               n.cols[c].reads \subseteq DOMAIN p.cols \cup {r \in DOMAIN n.cols : r < c}

\* What the diff of two snapshots leads the database through: an extension that
\* goes is used by no column there was, tables that stay are alterable and take
\* no index's name from each other, and a new table's keys have no actions.
Expressible(prev, next) ==
    /\ \A x \in prev.ext \ next.ext : \A u \in DOMAIN prev.tables : \A c \in DOMAIN prev.tables[u].cols :
           ExtensionOf[prev.tables[u].cols[c].type] # x
    /\ \A t \in Both(prev.tables, next.tables) : Alterable(prev, next, t)
    /\ \A t \in Both(prev.tables, next.tables) : \A u \in Both(prev.tables, next.tables) \ {t} :
           DOMAIN prev.tables[t].idx \cap DOMAIN next.tables[u].idx = {}
    /\ \A t \in Gone(next.tables, prev.tables) : \A c \in DOMAIN next.tables[t].fks :
           next.tables[t].fks[c].onDelete = None

\* No foreign key refers to a join table.
Startable(s) ==
    \A t \in DOMAIN s.tables : \A c \in DOMAIN s.tables[t].fks : ~s.tables[s.tables[t].fks[c].table].join

ASSUME SchemasAreExpressible ==
    \A p \in DOMAIN Schemas :
        /\ \A s \in Schemas[p] : WellFormed(s)
        /\ \A prev \in Schemas[p] \cup {Empty}, next \in Schemas[p] : Expressible(prev, next)
        /\ p \in Initial => Empty \notin Schemas[p] /\ \A s \in Schemas[p] : Startable(s)

-----------------------------------------------------------------------------

\* A table is on a cycle of references, or leads to one.
LeadsToCycle(tables, t) ==
    \E S \in SUBSET DOMAIN tables : t \in S /\ \A u \in S : Parents(tables, u) \cap S # {}

\* The initial migration creates a table after the tables it refers to,
\* wherever the references lead to no cycle.
ParentsFirst ==
    LET tables == schema.tables
        order == sortEntityMigrations(tables)
        At(t) == CHOOSE i \in DOMAIN order : order[i] = t
    IN  /\ ToSet(order) = DOMAIN tables /\ Len(order) = Cardinality(DOMAIN tables)
        /\ \A t \in DOMAIN tables : \A u \in Parents(tables, t) :
               ~LeadsToCycle(tables, t) => At(u) < At(t)

\* A column the entities keep is never dropped, not to be added again either,
\* where each file is applied before the entities change again.
DataIsKept == MaxPending[project] = 0 => lost \cap Ordinary(schema) = {}

\* The files erm gen writes lead the database where the entities are: none is
\* refused (each operation finds what it needs where the files before it have
\* left the database), once all are applied nothing that the diff leaves out,
\* orders wrongly or skips stays behind, and no data is lost on the way.
Converges ==
    /\ DiffTypeOK
    /\ ~refused
    /\ pending = <<>> => db = schema
    /\ DataIsKept /\ ParentsFirst
=============================================================================
