----------------------------- MODULE EntityCode -----------------------------
(***************************************************************************)
(* The client code the generator writes for an entity (generator/orm.go:   *)
(* writeModels, writeClients, emit...): which columns its statements list, *)
(* which struct fields it passes for them and scans them into, whether the *)
(* Go compiler takes it, and what it then does to a table.                 *)
(*                                                                         *)
(* A field is [name, column, type, primary, nullable, defaultNow,          *)
(* updateNow, default, source, always]: default is the value of .Default   *)
(* or None, source the column a computed field copies or None, always says *)
(* GENERATED ALWAYS AS IDENTITY.  Zero is the zero value of every Go type, *)
(* Null a nil pointer or a NULL.  A struct is a function from field names  *)
(* to values, a row one from columns.                                      *)
(***************************************************************************)
EXTENDS Integers, Sequences, FiniteSets, SequencesExt

CONSTANTS
    Entities,   \* the schemas: [fields, predicates, orders, aggregates]
    Ids,        \* primary keys
    Values,     \* other values callers pass
    MaxClock,   \* bound: writes
    None

Zero == 0
Null == -1

ASSUME EntityCodeAssumption ==
    /\ Ids \subseteq Nat \ {0} /\ Values \subseteq Nat \ {0}
    /\ MaxClock \in Nat \ {0}

\* The struct and the table of an entity have each field once, the key is a UUID,
\* and PostgreSQL computes a column from one that is stored.
ASSUME EntitiesAreTables ==
    \A e \in Entities : LET fields == e.fields IN
        /\ Len(fields) \in Nat \ {0} /\ DOMAIN fields = 1..Len(fields)
        /\ \A i, j \in DOMAIN fields :
               fields[i].name = fields[j].name \/ fields[i].column = fields[j].column => i = j
        /\ \E i \in DOMAIN fields :
               /\ fields[i].primary /\ fields[i].type = "uuid" /\ fields[i].source = None
               /\ \A j \in DOMAIN fields : fields[j].primary => j = i
        /\ \A i \in DOMAIN fields : fields[i].source # None =>
               /\ ~fields[i].defaultNow /\ ~fields[i].updateNow
               /\ \E j \in DOMAIN fields : fields[j].column = fields[i].source /\ fields[j].source = None

VARIABLES
    ent,        \* the schema of the entity
    code,       \* what is emitted for it, or None
    rows,       \* rows[id]: a row of its table
    clock,      \* time.Now
    mine,       \* the struct the caller holds, or None
    last        \* the last call: [op, ok, input, refused, key]

codeVars == <<ent, code, rows, clock, mine, last>>

NoCall == [op |-> "none", ok |-> FALSE, input |-> None, refused |-> FALSE, key |-> None]

-----------------------------------------------------------------------------
(* Fields.  Definitions named *Faulty* are not the code: each is a         *)
(* plausible bug in the definition after it.                               *)

Names == {ent.fields[i].name : i \in DOMAIN ent.fields}
FieldNamed(name) == ent.fields[CHOOSE i \in DOMAIN ent.fields : ent.fields[i].name = name]
Columns(fields) == [i \in DOMAIN fields |-> fields[i].column]
FieldNames(fields) == [i \in DOMAIN fields |-> fields[i].name]

isReadOnly(f) == f.source # None

\* What a loop that appends from the places S has, and where one that returns
\* stops: the k-th place of S has k - 1 before it.
At(fields, S) ==
    [k \in 1..Cardinality(S) |->
        fields[CHOOSE i \in S : Cardinality({j \in S : j < i}) = k - 1]]
FirstAt(fields, S) == fields[CHOOSE i \in S : \A j \in S : i <= j]

primaryField(e) ==
    LET p == {i \in DOMAIN e.fields : e.fields[i].primary}
    IN  FirstAt(e.fields, IF p # {} THEN p ELSE DOMAIN e.fields)

insertable(e) == {i \in DOMAIN e.fields : ~isReadOnly(e.fields[i])}
insertableFields(e) == At(e.fields, insertable(e))
insertColumnsFaulty(e) ==
    LET p == {i \in DOMAIN e.fields : e.fields[i].primary}
    IN  Columns(At(e.fields, p) \o At(e.fields, insertable(e) \ p))
insertColumns(e) == Columns(insertableFields(e))

updatableFieldsFaulty(e) == At(e.fields, {i \in insertable(e) : ~e.fields[i].primary})
updatableFields(e) ==
    At(e.fields, {i \in insertable(e) :
        LET f == e.fields[i] IN ~f.primary /\ ~(f.defaultNow /\ ~f.updateNow)})

scanArgsFaulty(e) == FieldNames(insertableFields(e) \o At(e.fields, DOMAIN e.fields \ insertable(e)))
scanArgs(e) == FieldNames(e.fields)

\* What emitEntityClients writes: columns, and the struct fields that go with
\* them in the same places.
Emit(e) ==
    [returning |-> Columns(e.fields), scan |-> scanArgs(e),
     insert |-> [columns |-> insertColumns(e), args |-> FieldNames(insertableFields(e))],
     update |-> [columns |-> Columns(updatableFields(e)), args |-> FieldNames(updatableFields(e))],
     key |-> [column |-> primaryField(e).column, field |-> primaryField(e).name]]

-----------------------------------------------------------------------------
(* The Go compiler. *)

\* defaultGoType: slices and raw JSON hold NULL as nil, other types get a pointer.
goType(f) ==
    IF f.nullable /\ f.type \notin {"bytes", "json"} THEN <<"*", f.type>> ELSE <<"", f.type>>

\* The packages writeClients imports besides the fixed ones.
needsTime(e) == \E i \in DOMAIN e.fields : e.fields[i].defaultNow \/ e.fields[i].updateNow
needsID(e) == \E i \in DOMAIN e.fields : e.fields[i].primary /\ e.fields[i].type = "uuid"

\* What a predicate or an aggregate on a field means: an unknown name is taken
\* for a column of any type.
queryColumn(e, name) ==
    LET known == {i \in DOMAIN e.fields : e.fields[i].name = name}
    IN  IF known # {} THEN FirstAt(e.fields, known).column ELSE name
\* The fields whose Go type a predicate or an aggregate has in its signature
\* (an aggregate with a GoType of its own is left out).
queryFields(e) ==
    {i \in DOMAIN e.fields :
        e.fields[i].name \in e.predicates \cup {x.field : x \in e.aggregates}}
queryTypes(e) == {e.fields[i].type : i \in queryFields(e)}

compiles(e) ==
    \* input.X == "" and ByID(ctx, id string)
    /\ updatableFields(e) # <<>> => goType(primaryField(e)) \in {<<"", "uuid">>, <<"", "text">>}
    \* id.NewV7 is assigned, time.Now is assigned and asked for IsZero
    /\ \A i \in DOMAIN e.fields :
           LET f == e.fields[i] IN
           /\ f.primary /\ f.type = "uuid" => goType(f) = <<"", "uuid">>
           /\ f.defaultNow \/ f.updateNow => goType(f) = <<"", "time">>
    \* every package is imported if and only if it is used
    /\ (\E i \in DOMAIN e.fields : e.fields[i].defaultNow \/ e.fields[i].updateNow)
           \/ "time" \in queryTypes(e) <=> needsTime(e)
    /\ "json" \notin queryTypes(e)

-----------------------------------------------------------------------------
(* The table. *)

Generated(row) ==
    [c \in DOMAIN row |->
        LET f == ent.fields[CHOOSE i \in DOMAIN ent.fields : ent.fields[i].column = c]
        IN  IF f.source # None THEN row[f.source] ELSE row[c]]

\* PostgreSQL takes no value for a generated column, and none but DEFAULT for
\* an identity that is always generated.
Refuses(columns) ==
    \E i \in DOMAIN ent.fields :
        /\ ent.fields[i].column \in ToSet(columns)
        /\ ent.fields[i].source # None \/ ent.fields[i].always

ColumnDefault(c) ==
    LET f == ent.fields[CHOOSE i \in DOMAIN ent.fields : ent.fields[i].column = c]
    IN  CASE f.default # None -> f.default
          [] f.default = None /\ f.always -> clock
          [] OTHER -> Null

\* A row with the values of a statement in its columns.
Put(row, statement, input) ==
    Generated([c \in DOMAIN row |->
        IF c \notin ToSet(statement.columns) THEN row[c]
        ELSE input[statement.args[CHOOSE i \in DOMAIN statement.columns : statement.columns[i] = c]]])
NewRow == [c \in ToSet(code.returning) |-> ColumnDefault(c)]

Scan(row) ==
    [n \in Names |-> row[code.returning[CHOOSE i \in DOMAIN code.scan : code.scan[i] = n]]]

-----------------------------------------------------------------------------

Call(op, ok, input, refused, key) ==
    last' = [op |-> op, ok |-> ok, input |-> input, refused |-> refused, key |-> key]
Tick == clock < MaxClock /\ clock' = clock + 1

\* Times are numbers of the clock, so zero is no time.
Inputs ==
    {s \in [Names -> {Zero, Null} \cup Ids \cup Values] : \A n \in Names :
        LET f == FieldNamed(n) IN
        CASE f.primary -> s[n] \in Ids \cup {Zero}
          [] ~f.primary /\ f.nullable -> s[n] \in {Null} \cup Values
          [] OTHER -> s[n] \in {Zero} \cup Values}

\* What Create sets before it validates and inserts.
StampCreate(input, id) ==
    [n \in Names |->
        LET f == FieldNamed(n) IN
        IF f.primary /\ f.type = "uuid" /\ input[n] = Zero THEN id
        ELSE IF f.updateNow \/ (f.defaultNow /\ input[n] = Zero) THEN clock ELSE input[n]]
StampUpdate(input) == [n \in Names |-> IF FieldNamed(n).updateNow THEN clock ELSE input[n]]

ComputedSet(input) == \E n \in Names : FieldNamed(n).source # None /\ input[n] \notin {Zero, Null}

CodeInit ==
    /\ ent \in Entities /\ code = None /\ rows = <<>> /\ clock = 1
    /\ mine = None /\ last = NoCall

writeClients ==
    /\ code = None
    /\ code' = Emit(ent)
    /\ UNCHANGED <<ent, rows, clock, mine, last>>

Ready == code # None /\ compiles(ent)

\* Create; BulkCreate does the same to each input and inserts them at once.
Create ==
    /\ Ready /\ Tick
    /\ \E input \in Inputs, id \in Ids \ DOMAIN rows :
       LET struct == StampCreate(input, id)
           key == struct[code.key.field]
           row == Put(NewRow, code.insert, struct)
       IN  IF ComputedSet(input)
           THEN Call("create", FALSE, input, FALSE, None) /\ UNCHANGED <<rows, mine>>
           ELSE IF Refuses(code.insert.columns)
           THEN Call("create", FALSE, struct, TRUE, key) /\ UNCHANGED <<rows, mine>>
           ELSE IF key \in DOMAIN rows
           THEN Call("create", FALSE, struct, FALSE, key) /\ UNCHANGED <<rows, mine>>
           ELSE /\ rows' = [k \in DOMAIN rows \cup {key} |-> IF k = key THEN row ELSE rows[k]]
                /\ mine' = Scan(row)
                /\ Call("create", TRUE, struct, FALSE, key)
    /\ UNCHANGED <<ent, code>>

\* The struct a caller passes to Update: one it holds with a field changed, or
\* one it made itself.
Edited ==
    IF mine = None THEN Inputs
    ELSE {s \in Inputs : Cardinality({n \in Names : s[n] # mine[n]}) <= 1}

\* Update.  BulkUpdate stamps and lists the same, and its statement is refused
\* (Queries).
Update ==
    /\ Ready /\ Tick
    /\ code.update.columns # <<>>
    /\ \E input \in Edited :
       LET struct == StampUpdate(input)
           key == struct[code.key.field]
           row == Put(rows[key], code.update, struct)
       IN  IF key = Zero
           THEN Call("update", FALSE, input, FALSE, key) /\ UNCHANGED <<rows, mine>>
           ELSE IF Refuses(code.update.columns)
           THEN Call("update", FALSE, struct, TRUE, key) /\ UNCHANGED <<rows, mine>>
           ELSE IF key \notin DOMAIN rows
           THEN Call("update", FALSE, struct, FALSE, key) /\ UNCHANGED <<rows, mine>>
           ELSE /\ rows' = [rows EXCEPT ![key] = row]
                /\ mine' = Scan(row)
                /\ Call("update", TRUE, struct, FALSE, key)
    /\ UNCHANGED <<ent, code>>

ByID ==
    /\ Ready
    /\ \E id \in DOMAIN rows :
           /\ mine' = Scan(rows[id])
           /\ Call("byID", TRUE, mine', FALSE, id)
    /\ UNCHANGED <<ent, code, rows, clock>>

Delete ==
    /\ Ready
    /\ \E id \in DOMAIN rows :
           /\ rows' = [k \in DOMAIN rows \ {id} |-> rows[k]]
           /\ Call("delete", TRUE, None, FALSE, id)
    /\ UNCHANGED <<ent, code, clock, mine>>

CodeNext == writeClients \/ Create \/ Update \/ ByID \/ Delete

CodeSpec == CodeInit /\ [][CodeNext]_codeVars

-----------------------------------------------------------------------------

CodeTypeOK ==
    /\ DOMAIN rows \subseteq Ids
    /\ \A id \in DOMAIN rows :
           /\ DOMAIN rows[id] = ToSet(code.returning)
           /\ rows[id][code.key.column] = id
    /\ clock \in 1..MaxClock
    /\ mine # None => DOMAIN mine = Names

Wrote == last.ok /\ last.op \in {"create", "update"}
Read == last.ok /\ last.op \in {"create", "update", "byID"}
Row == rows[last.key]

\* What a call returns is the row, each column in its own field, and what was
\* passed is stored, each field in its own column; a timestamp of update is that
\* of the write.
ValuesRoundTrip ==
    /\ Read => \A n \in Names : mine[n] = Row[FieldNamed(n).column]
    /\ Wrote => \A n \in Names :
           LET f == FieldNamed(n) IN
           /\ f.source = None /\ ~(last.op = "update" /\ f.defaultNow /\ ~f.updateNow)
                  => Row[f.column] = last.input[n]
           /\ f.updateNow => Row[f.column] = clock - 1

\* The code of every entity compiles, the database refuses no statement for the
\* columns it lists, every column the query methods name is one of the table,
\* only COUNT goes without, and values pass through it unharmed: the four
\* lists of columns the generator writes, and the order of the fields in them,
\* agree.
RoundTrip ==
    code # None =>
        /\ compiles(ent) /\ ~last.refused
        /\ \A p \in ent.predicates \cup ent.orders : queryColumn(ent, p) \in ToSet(code.returning)
        /\ \A a \in ent.aggregates :
               IF a.field = "*" THEN a.func = "count"
               ELSE queryColumn(ent, a.field) \in ToSet(code.returning)
        /\ ValuesRoundTrip

\* A timestamp of creation is never changed by an update, whatever the caller
\* holds or passes.
CreatedAtKept ==
    [][\A id \in DOMAIN rows \cap DOMAIN rows' : \A n \in Names :
           FieldNamed(n).defaultNow /\ ~FieldNamed(n).updateNow
               => rows'[id][FieldNamed(n).column] = rows[id][FieldNamed(n).column]]_codeVars
=============================================================================
