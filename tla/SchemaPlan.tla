----------------------------- MODULE SchemaPlan -----------------------------
(***************************************************************************)
(* What erm gen makes of the edges of a schema: the tail of loadEntities   *)
(* (generator/parser.go: defaults, inverse edges, validation), the plan of *)
(* tables and foreign keys (generator/migrations.go, schema_snapshot.go)   *)
(* and the loaders of the ORM client with the statements they hold         *)
(* (generator/orm.go).                                                     *)
(*                                                                         *)
(* A name is a sequence of words, in the snake case the code derives names *)
(* in: the column of edge <<"author">> is <<"author", "id">>.  Pluralized  *)
(* names are as distinct as the entities', so the entity's name stands for *)
(* its table.  The default name of a join table depends on the two         *)
(* entities only; the set of them stands for it.                           *)
(***************************************************************************)
EXTENDS Integers, Sequences, FiniteSets, SequencesExt, Functions

CONSTANTS
    Declarations,   \* schemas: functions from entity names to [fields, edges]
    Rank,           \* Rank[name]: the place of an entity's name in the alphabet
    Unset

\* Names are words; the fields and edges of an entity are lists, in which no
\* column and no name comes twice; edges are as they are declared.
IsList(s) == s \in Seq(Range(s))
ASSUME DeclarationsAreSchemas ==
    \A d \in Declarations :
        /\ IsFiniteSet(DOMAIN d)
        /\ \A n \in DOMAIN d : LET fields == d[n].fields
                                 edges == d[n].edges
                             IN
               /\ IsList(n) /\ n # <<>>
               /\ IsList(fields) /\ IsList(edges)
               /\ \A i \in DOMAIN fields :
                      /\ IsList(fields[i].column)
                      /\ fields[i] \in [column : {fields[i].column}, type : {fields[i].type},
                                       nullable : BOOLEAN, unique : BOOLEAN, primary : BOOLEAN]
               /\ \A i, j \in DOMAIN fields : fields[i].column = fields[j].column => i = j
               /\ \A i \in DOMAIN edges :
                      /\ IsList(edges[i].name) /\ ~edges[i].generated
                      /\ edges[i].kind \in {"ToOne", "ToMany", "ManyToMany"}
                      /\ edges[i].nullable \in BOOLEAN /\ edges[i].unique \in BOOLEAN
               /\ \A i, j \in DOMAIN edges : edges[i].name = edges[j].name => i = j

VARIABLES
    declaration,    \* the schema in use
    phase,          \* "idle", "loaded", "orm" or "done"; "refused"
    entities,       \* what loadEntities returns
    problems,       \* what validateEntities reports
    snapshot,       \* the tables of buildSchemaSnapshot
    previous,       \* those of the run before, if the schema was the same
    loaders         \* the Load methods written, or Unset

planVars == <<declaration, phase, entities, problems, snapshot, previous, loaders>>

NoName == <<>>
Kinds == {"ToOne", "ToMany", "ManyToMany"}
Problems == {"target", "missing", "shared", "self", "override", "mismatch", "reverse"}

PlanTypeOK ==
    /\ declaration \in Declarations
    /\ phase \in {"idle", "loaded", "orm", "done", "refused"}
    /\ \A i \in DOMAIN entities :
           /\ entities[i].name \in DOMAIN declaration
           /\ \A j, k \in DOMAIN entities[i].edges :
                  /\ entities[i].edges[j].kind \in Kinds
                  /\ entities[i].edges[j].name = entities[i].edges[k].name => j = k
    /\ Len(entities) \in {0, Cardinality(DOMAIN declaration)}
    /\ \A p \in problems : p.problem \in Problems

PlanInit ==
    /\ declaration \in Declarations /\ phase = "idle" /\ entities = <<>>
    /\ problems = {} /\ snapshot = Unset /\ previous = Unset /\ loaders = Unset

-----------------------------------------------------------------------------
(* Names.  Definitions named *Faulty* are not the code: each is a          *)
(* plausible bug in the definition after it.                               *)

edgeColumn(edge) ==
    IF edge.column # NoName THEN edge.column
    ELSE IF edge.kind = "ToOne" THEN Append(edge.name, "id") ELSE edge.name

\* The first primary field, or the first field.
findPrimaryField(ent) ==
    LET primary == {i \in DOMAIN ent.fields : ent.fields[i].primary}
    IN  ent.fields[IF primary = {} THEN 1 ELSE CHOOSE i \in primary : \A k \in primary : i <= k]

edgeRefColumn(source, edge) ==
    IF edge.ref # NoName THEN edge.ref
    ELSE source.name \o findPrimaryField(source).column

manyToManyJoinSpec(source, edge, target) ==
    [name  |-> IF edge.through # NoName THEN [given |-> edge.through, of |-> {}]
               ELSE [given |-> NoName, of |-> {source.name, target.name}],
     left  |-> source.name \o findPrimaryField(source).column,
     right |-> target.name \o findPrimaryField(target).column]

Field(column, type, nullable, unique, primary) ==
    [column |-> column, type |-> type, nullable |-> nullable, unique |-> unique, primary |-> primary]
HasColumn(fields, column) == \E i \in DOMAIN fields : fields[i].column = column
FieldAt(fields, column) == fields[CHOOSE i \in DOMAIN fields : fields[i].column = column]

Known(es, name) == \E i \in DOMAIN es : es[i].name = name
Index(es, name) == CHOOSE i \in DOMAIN es : es[i].name = name
Entity(es, name) == es[Index(es, name)]

-----------------------------------------------------------------------------
(* loadEntities. *)

ensureDefaultField(ent) ==
    IF HasColumn(ent.fields, <<"id">>) THEN ent
    ELSE [ent EXCEPT !.fields = <<Field(<<"id">>, "uuid", FALSE, FALSE, TRUE)>> \o @]

hasEdgeNamed(edges, name) == \E i \in DOMAIN edges : edges[i].name = name

inverseEdgeKind(edge) ==
    CASE edge.kind = "ToOne" /\ edge.unique -> "ToOne"
      [] edge.kind = "ToOne" /\ ~edge.unique -> "ToMany"
      [] edge.kind = "ToMany" -> "ToOne"
      [] OTHER -> edge.kind

buildInverseEdgeFaulty(source, edge) ==
    [edge EXCEPT !.name = edge.inverse, !.target = source.name, !.kind = inverseEdgeKind(edge),
                 !.inverse = edge.name, !.generated = TRUE, !.column = NoName, !.ref = NoName]
\* The inverse mirrors the column the forward edge resolves to.
buildInverseEdge(source, edge) ==
    [name |-> edge.inverse, target |-> source.name, kind |-> inverseEdgeKind(edge),
     nullable |-> edge.nullable, unique |-> edge.unique, through |-> edge.through,
     inverse |-> edge.name, cascade |-> edge.cascade, generated |-> TRUE,
     column |-> IF edge.kind = "ToMany" THEN edgeRefColumn(source, edge) ELSE NoName,
     ref |-> CASE edge.kind = "ToOne" -> edgeColumn(edge)
               [] edge.kind = "ToMany" -> edgeRefColumn(source, edge)
               [] OTHER -> NoName]

AddInverse(es, source, edge) ==
    IF edge.inverse = NoName \/ ~Known(es, edge.target) THEN es
    ELSE IF hasEdgeNamed(Entity(es, edge.target).edges, edge.inverse) THEN es
    ELSE [es EXCEPT ![Index(es, edge.target)].edges = Append(@, buildInverseEdge(source, edge))]

\* The edges of an entity are those it has when its turn comes.
AddInversesOf(es, i) ==
    LET added[k \in 0..Len(es[i].edges)] ==
            IF k = 0 THEN es ELSE AddInverse(added[k - 1], es[i], es[i].edges[k])
    IN  added[Len(es[i].edges)]
synthesizeInverseEdges(es) ==
    LET added[i \in 0..Len(es)] == IF i = 0 THEN es ELSE AddInversesOf(added[i - 1], i)
    IN  added[Len(es)]

\* Problems of an edge.  The column of the edge is looked up in the fields of
\* the TARGET, and only when it is there with another type is the rest looked at.
EdgeProblems(es, source, j) ==
    LET edge == source.edges[j]
        target == Entity(es, edge.target)
        key == findPrimaryField(target)
        column == edgeColumn(edge)
        \* to-one edges before this one that got as far as to own their column
        Owner(k) ==
            /\ source.edges[k].kind = "ToOne" /\ Known(es, source.edges[k].target)
            /\ LET t == Entity(es, source.edges[k].target) IN
               /\ HasColumn(t.fields, column)
               /\ FieldAt(t.fields, column).type # findPrimaryField(t).type
            /\ edgeColumn(source.edges[k]) = column
        ref == edgeRefColumn(source, edge)
    IN  IF ~Known(es, edge.target) THEN {"target"}
        ELSE IF ~HasColumn(target.fields, column)
        THEN IF edge.column = NoName \/ edge.generated THEN {} ELSE {"missing"}
        ELSE IF FieldAt(target.fields, column).type = key.type THEN {}
        ELSE CASE edge.kind = "ToOne" ->
                      {p \in {"shared", "self", "override", "mismatch"} :
                          CASE p = "shared" -> \E k \in 1..(j - 1) : Owner(k)
                            [] p = "self" -> source.name = edge.target /\ edge.column = NoName
                            [] p = "override" -> /\ edge.column # NoName /\ edge.ref = NoName
                                                 /\ ~HasColumn(source.fields, edge.column)
                            [] p = "mismatch" -> /\ HasColumn(source.fields, column)
                                                 /\ FieldAt(source.fields, column).type # key.type}
               [] edge.kind = "ToMany" ->
                      {p \in {"self", "reverse"} :
                          CASE p = "self" -> source.name = edge.target /\ edge.ref = NoName
                            [] p = "reverse" -> /\ HasColumn(target.fields, ref)
                                                /\ FieldAt(target.fields, ref).type
                                                       # findPrimaryField(source).type}
               [] OTHER -> {}

validateEntities(es) ==
    UNION {UNION {{[entity |-> es[i].name, edge |-> es[i].edges[j].name, problem |-> p] :
                       p \in EdgeProblems(es, es[i], j)} :
                  j \in DOMAIN es[i].edges} :
           i \in DOMAIN es}

-----------------------------------------------------------------------------
(* buildMigrationPlan: columns and foreign keys by table, and join tables. *)

makeForeignKeyField(column, key, edge) ==
    Field(column, key.type, edge.nullable, edge.unique, FALSE)

WidenLastFaulty(fields, column, key, edge) ==
    IF ~HasColumn(fields, column) THEN Append(fields, makeForeignKeyField(column, key, edge))
    ELSE [i \in DOMAIN fields |->
             LET f == fields[i] IN
             IF f.column # column THEN f
             ELSE Field(column, f.type, edge.nullable, edge.unique, f.primary)]
WidenFaulty(fields, column, key, edge) == Append(fields, makeForeignKeyField(column, key, edge))
\* A declared column is only made nullable or unique; another one is added.
Widen(fields, column, key, edge) ==
    IF ~HasColumn(fields, column) THEN Append(fields, makeForeignKeyField(column, key, edge))
    ELSE [i \in DOMAIN fields |->
             LET f == fields[i] IN
             IF f.column # column THEN f
             ELSE Field(column, f.type, f.nullable \/ edge.nullable, f.unique \/ edge.unique, f.primary)]

AddKey(keys, column, target, key, edge) ==
    IF column \in DOMAIN keys THEN keys
    ELSE [c \in DOMAIN keys \cup {column} |->
             IF c \in DOMAIN keys THEN keys[c]
             ELSE [table |-> target, column |-> key.column, onDelete |-> edge.cascade]]

ensureToOneColumn(plan, es, source, edge) ==
    IF ~Known(es, edge.target) THEN plan
    ELSE LET key == findPrimaryField(Entity(es, edge.target))
             column == edgeColumn(edge)
         IN  [plan EXCEPT !.tables[source.name] =
                 [fields |-> Widen(@.fields, column, key, edge),
                  keys   |-> AddKey(@.keys, column, edge.target, key, edge)]]

\* A Ref may name the column, or the edge of the target that owns it.
resolveForeignKeyColumn(plan, es, source, edge) ==
    LET column == edgeRefColumn(source, edge)
        edges == Entity(es, edge.target).edges
    IN  IF \/ HasColumn(plan.tables[edge.target].fields, column)
           \/ edge.ref = NoName \/ ~hasEdgeNamed(edges, edge.ref)
        THEN column
        ELSE edgeColumn(edges[CHOOSE k \in DOMAIN edges :
                                  /\ edges[k].name = edge.ref
                                  /\ \A m \in 1..(k - 1) : edges[m].name # edge.ref])

ensureToManyColumn(plan, es, source, edge) ==
    IF ~Known(es, edge.target) THEN plan
    ELSE LET key == findPrimaryField(source)
             column == resolveForeignKeyColumn(plan, es, source, edge)
         IN  [plan EXCEPT !.tables[edge.target] =
                 [fields |-> Widen(@.fields, column, key, edge),
                  keys   |-> AddKey(@.keys, column, source.name, key, edge)]]

\* The first edge to name a join table makes it.
ensureJoinTable(plan, es, source, edge) ==
    IF ~Known(es, edge.target) THEN plan
    ELSE LET target == Entity(es, edge.target)
             join == manyToManyJoinSpec(source, edge, target)
             Side(column, ent) ==
                 [column |-> column, type |-> findPrimaryField(ent).type, table |-> ent.name,
                  key |-> findPrimaryField(ent).column, onDelete |-> edge.cascade]
         IN  IF join.name \in DOMAIN plan.joins THEN plan
             ELSE [plan EXCEPT !.joins =
                      [n \in DOMAIN @ \cup {join.name} |->
                          IF n \in DOMAIN @ THEN @[n]
                          ELSE <<Side(join.left, source), Side(join.right, target)>>]]

Ensure(plan, es, source, edge) ==
    CASE edge.kind = "ToOne" -> ensureToOneColumn(plan, es, source, edge)
      [] edge.kind = "ToMany" -> ensureToManyColumn(plan, es, source, edge)
      [] OTHER -> ensureJoinTable(plan, es, source, edge)

EnsureAll(plan, es, source) ==
    LET ensured[k \in 0..Len(source.edges)] ==
            IF k = 0 THEN plan ELSE Ensure(ensured[k - 1], es, source, source.edges[k])
    IN  ensured[Len(source.edges)]

DeclaredTables(es) ==
    [tables |-> [n \in {es[i].name : i \in DOMAIN es} |->
                    [fields |-> Entity(es, n).fields, keys |-> <<>>]],
     joins |-> <<>>]
buildMigrationPlan(es) ==
    LET planned[i \in 0..Len(es)] ==
            IF i = 0 THEN DeclaredTables(es) ELSE EnsureAll(planned[i - 1], es, es[i])
    IN  planned[Len(es)]

-----------------------------------------------------------------------------
(* The Load methods: the table and column each one searches by. *)

Loader(source, edge, table, column, on) ==
    [source |-> source.name, edge |-> edge.name, target |-> edge.target,
     table |-> table, column |-> column, on |-> on]

\* Only a declared field can hold the key of the other side.
emitToOneLoader(es, source, edge) ==
    IF Known(es, edge.target) /\ HasColumn(source.fields, edgeColumn(edge))
    THEN {Loader(source, edge, edge.target,
                 findPrimaryField(Entity(es, edge.target)).column, NoName)} ELSE {}

emitToManyLoaderFaulty(es, source, edge) ==
    IF Known(es, edge.target)
    THEN {Loader(source, edge, edge.target, edgeRefColumn(source, edge), NoName)} ELSE {}
emitToManyLoader(es, source, edge) ==
    IF Known(es, edge.target) /\ HasColumn(Entity(es, edge.target).fields, edgeRefColumn(source, edge))
    THEN {Loader(source, edge, edge.target, edgeRefColumn(source, edge), NoName)} ELSE {}

emitManyToManyLoader(es, source, edge) ==
    IF ~Known(es, edge.target) THEN {}
    ELSE LET join == manyToManyJoinSpec(source, edge, Entity(es, edge.target))
         IN  {Loader(source, edge, join.name, join.left, join.right)}

emitEdgeLoaders(es) ==
    UNION {UNION {CASE es[i].edges[j].kind = "ToOne" -> emitToOneLoader(es, es[i], es[i].edges[j])
                    [] es[i].edges[j].kind = "ToMany" -> emitToManyLoader(es, es[i], es[i].edges[j])
                    [] OTHER -> emitManyToManyLoader(es, es[i], es[i].edges[j]) :
                  j \in DOMAIN es[i].edges} :
           i \in DOMAIN es}

-----------------------------------------------------------------------------

\* The entities of a schema d, when they come in this order.
DeclaredEntities(d, order) ==
    [i \in DOMAIN order |->
        ensureDefaultField([name |-> order[i], fields |-> d[order[i]].fields,
                            edges |-> d[order[i]].edges])]
\* They come out of a map, in any order.
LoadEntities ==
    /\ phase = "idle"
    /\ \E order \in SetToSeqs(DOMAIN declaration) :
           /\ entities' = synthesizeInverseEdges(DeclaredEntities(declaration, order))
           /\ problems' = validateEntities(entities')
           /\ phase' = IF problems' = {} THEN "loaded" ELSE "refused"
    /\ UNCHANGED <<declaration, snapshot, previous, loaders>>

\* The ORM component, when it runs, sorts the entities in place.
WriteORM ==
    /\ phase = "loaded"
    /\ \E sorted \in SetToSeqs(ToSet(entities)) :
           /\ \A i, j \in DOMAIN sorted : i < j => Rank[sorted[i].name] < Rank[sorted[j].name]
           /\ entities' = sorted
    /\ loaders' = emitEdgeLoaders(entities')
    /\ phase' = "orm"
    /\ UNCHANGED <<declaration, problems, snapshot, previous>>

BuildSnapshot ==
    /\ phase \in {"loaded", "orm"}
    /\ previous' = snapshot
    /\ snapshot' = buildMigrationPlan(entities)
    /\ phase' = "done"
    /\ UNCHANGED <<declaration, entities, problems, loaders>>

Again ==
    /\ phase \in {"done", "refused"}
    /\ phase' = "idle" /\ entities' = <<>> /\ problems' = {} /\ loaders' = Unset
    /\ UNCHANGED <<declaration, snapshot, previous>>

PlanNext == LoadEntities \/ WriteORM \/ BuildSnapshot \/ Again

PlanSpec == PlanInit /\ [][PlanNext]_planVars

-----------------------------------------------------------------------------
(* What validateEntities does not look at, in entities that are loaded.    *)

Accepted(d) ==
    {es \in {synthesizeInverseEdges(DeclaredEntities(d, order)) : order \in SetToSeqs(DOMAIN d)} :
        validateEntities(es) = {}}

\* The columns of t that edges make, or may make, foreign keys to n.
ColumnsFor(t, n) ==
    LET ones == {e \in ToSet(t.edges) : e.kind = "ToOne" /\ e.target = n.name}
        manys == {e \in ToSet(n.edges) : e.kind = "ToMany" /\ e.target = t.name}
        named == {f \in ToSet(t.edges) : \E e \in manys : f.name = e.ref}
    IN  {edgeColumn(e) : e \in ones \cup named} \cup {edgeRefColumn(n, e) : e \in manys}

\* A declared column has the type of the key it refers to.
TypesAgree(es) ==
    \A t, n \in ToSet(es) : \A f \in ToSet(t.fields) :
        f.column \in ColumnsFor(t, n) => f.type = findPrimaryField(n).type

\* The column a to-many edge is found by refers to no other entity.
OneTargetEach(es) ==
    \A t, n, m \in ToSet(es) : n # m => \A e \in ToSet(n.edges) :
        e.kind = "ToMany" /\ e.target = t.name => edgeRefColumn(n, e) \notin ColumnsFor(t, m)

Joins(s, t) == {e \in ToSet(s.edges) : e.kind = "ManyToMany" /\ e.target = t.name}

\* The two columns of a join table have two names.
JoinsHaveTwoColumns(es) ==
    \A s, t \in ToSet(es) : \A e \in Joins(s, t) :
        manyToManyJoinSpec(s, e, t).left # manyToManyJoinSpec(s, e, t).right

\* A join table that is given a name is that of two entities.
JoinsAreOfTwo(es) ==
    \A s, t, u, v \in ToSet(es) : \A e \in Joins(s, t), f \in Joins(u, v) :
        e.through = f.through /\ e.through # NoName => {s, t} = {u, v}

\* No one-to-one relation is declared from one end only.
NoInverseOfUnique(es) ==
    \A s \in ToSet(es) : \A e \in ToSet(s.edges) :
        e.kind = "ToOne" /\ e.unique /\ ~e.generated => e.inverse = NoName

\* What an edge asks of the tables: a column that refers to the key of another,
\* or a join table.
ResolvedColumn(es, source, edge) ==
    LET column == edgeRefColumn(source, edge)
        target == Entity(es, edge.target)
        named == {e \in ToSet(target.edges) : e.name = edge.ref}
    IN  IF HasColumn(target.fields, column) \/ edge.ref = NoName \/ named = {} THEN column
        ELSE edgeColumn(CHOOSE e \in named : TRUE)

ColumnAsked(table, column, of, edge) ==
    [table |-> table.name, column |-> column, of |-> of.name, key |-> findPrimaryField(of),
     nullable |-> edge.nullable, unique |-> edge.unique, onDelete |-> edge.cascade]
ColumnsAsked(es, source, edge) ==
    IF ~Known(es, edge.target) THEN {}
    ELSE LET target == Entity(es, edge.target) IN
         CASE edge.kind = "ToOne" -> {ColumnAsked(source, edgeColumn(edge), target, edge)}
           [] edge.kind = "ToMany" ->
                  {ColumnAsked(target, ResolvedColumn(es, source, edge), source, edge)}
           [] OTHER -> {}
JoinAsked(source, target, edge) ==
    LET join == manyToManyJoinSpec(source, edge, target)
        Side(column, ent) ==
            [column |-> column, type |-> findPrimaryField(ent).type, table |-> ent.name,
             key |-> findPrimaryField(ent).column, onDelete |-> edge.cascade]
    IN  [name |-> join.name, sides |-> {Side(join.left, source), Side(join.right, target)}]
JoinsAsked(es, source, edge) ==
    IF edge.kind # "ManyToMany" \/ ~Known(es, edge.target) THEN {}
    ELSE {JoinAsked(source, Entity(es, edge.target), edge)}

AllColumnsAsked(es) == UNION {UNION {ColumnsAsked(es, s, e) : e \in ToSet(s.edges)} : s \in ToSet(es)}
AllJoinsAsked(es) == UNION {UNION {JoinsAsked(es, s, e) : e \in ToSet(s.edges)} : s \in ToSet(es)}

\* The edges that ask for one column have it refer to one entity and do the
\* same on delete; so do those that ask for one join table.
ColumnsAgree(es) ==
    \A r, q \in AllColumnsAsked(es) :
        r.table = q.table /\ r.column = q.column => r.of = q.of /\ r.onDelete = q.onDelete
JoinsAgree(es) == \A r, q \in AllJoinsAsked(es) : r.name = q.name => r.sides = q.sides

\* A Ref that names an edge is not the name of a column that edges add, too.
RefsAreClear(es) ==
    \A s \in ToSet(es) : \A e \in ToSet(s.edges) :
        /\ e.kind = "ToMany" /\ Known(es, e.target)
        /\ ResolvedColumn(es, s, e) # edgeRefColumn(s, e)
        => \A r \in AllColumnsAsked(es) : r.table = e.target => r.column # edgeRefColumn(s, e)

\* No two entities give the edge they want in a third the same name.
InversesAreOnce(es) ==
    \A s, t, u \in ToSet(es) : \A e \in ToSet(s.edges), f \in ToSet(t.edges) :
        /\ ~e.generated /\ ~f.generated /\ e.target = u.name /\ f.target = u.name
        /\ e.inverse = f.inverse /\ e.inverse # NoName
        => s = t \/ \E g \in ToSet(u.edges) : ~g.generated /\ g.name = e.inverse

-----------------------------------------------------------------------------

Planned == phase = "done"

\* Whatever order the entities come in, the tables are the same, up to the
\* order of their columns.
Normal(plan) ==
    [tables |-> [t \in DOMAIN plan.tables |->
                    [fields |-> ToSet(plan.tables[t].fields), keys |-> plan.tables[t].keys]],
     joins |-> [n \in DOMAIN plan.joins |-> ToSet(plan.joins[n])]]
OrderIndependent == Planned /\ previous # Unset => Normal(snapshot) = Normal(previous)

\* The tables of an accepted schema can be created: no column comes twice and
\* every foreign key has a column of its own and refers to a primary key of
\* the same type; a join table has two columns.
PlanIsWellFormed ==
    /\ PlanTypeOK
    /\ Planned =>
        /\ \A t \in DOMAIN snapshot.tables :
               LET table == snapshot.tables[t] IN
               /\ \A i, j \in DOMAIN table.fields :
                      table.fields[i].column = table.fields[j].column => i = j
               /\ \A c \in DOMAIN table.keys :
                      /\ HasColumn(table.fields, c)
                      /\ table.keys[c].table \in DOMAIN snapshot.tables
                      /\ LET key == findPrimaryField(Entity(entities, table.keys[c].table)) IN
                         /\ table.keys[c].column = key.column
                         /\ FieldAt(table.fields, c).type = key.type
        /\ \A n \in DOMAIN snapshot.joins : snapshot.joins[n][1].column # snapshot.joins[n][2].column

\* What a loader searches by is a column of the migrated tables, and the
\* foreign key of the relation where there is one.
LoadersMatchPlan ==
    Planned /\ loaders # Unset => \A l \in loaders :
        IF l.on = NoName
        THEN /\ l.table \in DOMAIN snapshot.tables
             /\ HasColumn(snapshot.tables[l.table].fields, l.column)
             /\ \/ l.column = findPrimaryField(Entity(entities, l.table)).column
                \/ /\ l.column \in DOMAIN snapshot.tables[l.table].keys
                   /\ snapshot.tables[l.table].keys[l.column].table = l.source
        ELSE /\ l.table \in DOMAIN snapshot.joins
             /\ {l.column, l.on} = {snapshot.joins[l.table][s].column : s \in 1..2}

\* The two directions of a relation have one foreign key between them.
KeyOf(ent, edge) ==
    CASE edge.kind = "ToOne" -> <<ent.name, edgeColumn(edge)>>
      [] edge.kind = "ToMany" ->
             <<edge.target, resolveForeignKeyColumn(snapshot, entities, ent, edge)>>
      [] OTHER -> <<NoName, NoName>>
OneKeyPerRelation ==
    Planned => \A i \in DOMAIN entities : \A j \in DOMAIN entities[i].edges :
        LET inverse == entities[i].edges[j]
            source == Entity(entities, inverse.target)
        IN  inverse.generated => \E k \in DOMAIN source.edges :
                /\ source.edges[k].name = inverse.inverse
                /\ KeyOf(source, source.edges[k]) = KeyOf(entities[i], inverse)
=============================================================================
