------------------------------ MODULE Queries -------------------------------
(***************************************************************************)
(* The query builder of an entity, the SQL builders, the statements they   *)
(* send and the stream that reads rows one at a time (orm/gen/client_gen.go*)
(* UserQuery and the bulk operations, orm/runtime/query.go, bulk.go,       *)
(* stream.go).                                                             *)
(*                                                                         *)
(* A statement is its clauses with the numbers of their placeholders, and  *)
(* the arguments; the database, which is external, gives each placeholder  *)
(* the argument of its number.  The table has an id and one more column.   *)
(***************************************************************************)
EXTENDS Integers, Sequences, FiniteSets, SequencesExt

CONSTANTS
    RowIds,         \* sets of positive numbers
    RowValues,
    Limits,         \* what a schema may declare, and callers pass
    Offsets,
    MaxWhere,       \* bound: predicates of one query
    NoValue,
    Refused         \* the answer of a call whose statement the database refused

Absent == 0

ASSUME QueriesAssumption ==
    /\ RowIds \subseteq Nat \ {0} /\ RowValues \subseteq Nat \ {Absent}
    /\ IsFiniteSet(RowIds)
    /\ Limits \subseteq Int /\ Offsets \subseteq Int
    /\ NoValue \notin Limits \cup {1}

VARIABLES
    table,      \* table[i]: the other column of row i, or Absent
    conf,       \* defaultLimit and maxLimit of the entity
    query,      \* the builder
    asked,      \* what its caller has asked for
    answer,     \* what the last call returned
    expected,   \* what it should have returned
    stream      \* the open stream

queryVars == <<table, conf, query, asked, answer, expected, stream>>

TableColumns == {"id", "value"}
Predicate == [column: TableColumns, value: RowIds \cup RowValues]
NoStream == [rows |-> <<>>, read |-> <<>>, item |-> NoValue, err |-> FALSE,
             closed |-> TRUE, held |-> 0, of |-> <<>>]

QueryTypeOK ==
    /\ table \in [RowIds -> RowValues \cup {Absent}]
    /\ conf \in [default: Limits, max: Limits]
    /\ query.limit \in {NoValue} \cup (Limits \cap Nat) /\ query.offset \in Nat
    /\ query.where \in Seq(Predicate) /\ query.ordered \in BOOLEAN
    /\ stream.held \in 0..1

New == [where |-> <<>>, ordered |-> FALSE, limit |-> NoValue, offset |-> 0]

QueryInit ==
    /\ table \in [RowIds -> RowValues \cup {Absent}]
    /\ conf \in [default: Limits, max: Limits]
    /\ query = New /\ asked = New
    /\ answer = NoValue /\ expected = NoValue
    /\ stream = NoStream

-----------------------------------------------------------------------------
(* The database. *)

Present == {i \in RowIds : table[i] # Absent}
Cell(i, column) == IF column = "id" THEN i ELSE table[i]

Before(i, j, byValue) ==
    IF byValue /\ table[i] # table[j] THEN table[i] < table[j] ELSE i < j

\* The row with k - 1 rows before it is the k-th.
Ordered(S, byValue) ==
    [k \in 1..Cardinality(S) |->
        CHOOSE i \in S : Cardinality({j \in S : Before(j, i, byValue)}) = k - 1]

Slice(s, offset, limit) ==
    SubSeq(s, offset + 1,
           IF limit = NoValue THEN Len(s) ELSE IF offset + limit > Len(s) THEN Len(s) ELSE offset + limit)

Holds(sql, i) ==
    \A k \in DOMAIN sql.where :
        Cell(i, sql.where[k].column) = sql.args[sql.where[k].param]

Arg(sql, param, otherwise) == IF param = 0 THEN otherwise ELSE sql.args[param]

Run(sql) ==
    Slice(Ordered({i \in Present : Holds(sql, i)}, sql.ordered),
          Arg(sql, sql.offset, 0), Arg(sql, sql.limit, NoValue))

\* A column without a qualifier must belong to one source only.
Resolves(column, sources) == Cardinality({s \in DOMAIN sources : column \in sources[s]}) = 1

-----------------------------------------------------------------------------
(* The SQL builders.  Definitions named *Faulty* are not the code: each is *)
(* a plausible bug in the definition after it.                             *)

Where(predicates) ==
    [k \in DOMAIN predicates |-> [column |-> predicates[k].column, param |-> k]]
WhereArgs(predicates) == [k \in DOMAIN predicates |-> predicates[k].value]

\* LIMIT and OFFSET are left out at zero; each clause takes the next number.
BuildSelect(spec) ==
    LET n == Len(spec.where)
        m == IF spec.limit > 0 THEN n + 1 ELSE n
    IN  [where   |-> Where(spec.where),
         ordered |-> spec.ordered,
         limit   |-> IF spec.limit > 0 THEN n + 1 ELSE 0,
         offset  |-> IF spec.offset > 0 THEN m + 1 ELSE 0,
         args    |-> WhereArgs(spec.where)
                       \o (IF spec.limit > 0 THEN <<spec.limit>> ELSE <<>>)
                       \o (IF spec.offset > 0 THEN <<spec.offset>> ELSE <<>>)]

BuildAggregate(spec) ==
    [where |-> Where(spec.where), ordered |-> FALSE, limit |-> 0, offset |-> 0,
     args |-> WhereArgs(spec.where)]

ParamFaulty(k, j, width) == (k - 1) * (width - 1) + j
\* Row k, column j of the VALUES list of a bulk statement of that width.
Param(k, j, width) == (k - 1) * width + j
BulkArgs(rows) == FlattenSeq(rows)

BuildBulkInsert(rows) ==
    [values |-> [k \in DOMAIN rows |-> [j \in 1..2 |-> Param(k, j, 2)]],
     args |-> BulkArgs(rows)]

\* WITH data(id, value) AS (VALUES ...) UPDATE ... AS t ... FROM data ...
\* RETURNING id, value: the columns are returned without a qualifier.
BuildBulkUpdate(rows) ==
    [values |-> [k \in DOMAIN rows |-> [j \in 1..2 |-> Param(k, j, 2)]],
     args |-> BulkArgs(rows),
     returning |-> TableColumns, sources |-> [t |-> TableColumns, data |-> TableColumns]]

BuildBulkDelete(ids) == [values |-> [k \in DOMAIN ids |-> k], args |-> ids]

-----------------------------------------------------------------------------
(* The query builder. *)

\* The limit of the caller or the default one, capped where a cap is declared.
EffectiveLimit ==
    LET limit == IF query.limit # NoValue THEN query.limit
                 ELSE IF conf.default <= 0 /\ conf.max > 0 THEN conf.max
                 ELSE conf.default
    IN  IF conf.max > 0 /\ limit > conf.max THEN conf.max ELSE limit

\* The caller does one thing at a time: it forgets an answer, and a stream it
\* has closed, before it goes on.
Forget == stream.closed /\ stream' = NoStream
Building == Forget /\ answer' = NoValue /\ expected' = NoValue /\ UNCHANGED <<table, conf>>

\* A limit that is not positive is no limit of the caller's.
Limit(n) ==
    /\ query' = [query EXCEPT !.limit = IF n <= 0 THEN NoValue ELSE n]
    /\ asked' = [asked EXCEPT !.limit = IF n <= 0 THEN NoValue ELSE n]
    /\ Building

Offset(n) ==
    /\ query' = [query EXCEPT !.offset = IF n < 0 THEN @ ELSE n]
    /\ asked' = [asked EXCEPT !.offset = IF n < 0 THEN @ ELSE n]
    /\ Building

AddWhere(p) ==
    /\ Len(query.where) < MaxWhere
    /\ query' = [query EXCEPT !.where = Append(@, p)]
    /\ asked' = [asked EXCEPT !.where = Append(@, p)]
    /\ Building

OrderBy ==
    /\ query' = [query EXCEPT !.ordered = TRUE]
    /\ asked' = [asked EXCEPT !.ordered = TRUE]
    /\ Building

Select(limit) == [where |-> query.where, ordered |-> query.ordered,
                 limit |-> limit, offset |-> query.offset]

\* What the caller should get: the rows it described, in its order, from its
\* offset, as many as it asked for but no more than the schema allows.
Wanted(limit) ==
    LET rows == Ordered({i \in Present : \A k \in DOMAIN asked.where :
                            Cell(i, asked.where[k].column) = asked.where[k].value},
                        asked.ordered)
        cap == IF limit # NoValue THEN limit ELSE IF conf.default > 0 THEN conf.default ELSE conf.max
        most == IF conf.max > 0 /\ (cap <= 0 \/ cap > conf.max) THEN conf.max ELSE cap
    IN  Slice(rows, asked.offset, IF most <= 0 THEN NoValue ELSE most)

All ==
    /\ answer' = Run(BuildSelect(Select(EffectiveLimit)))
    /\ expected' = Wanted(asked.limit)
    /\ Forget /\ UNCHANGED <<table, conf, query, asked>>

\* First sets the limit of a clone.
First ==
    /\ answer' = Run(BuildSelect(Select(1)))
    /\ expected' = Wanted(1)
    /\ Forget /\ UNCHANGED <<table, conf, query, asked>>

Count ==
    /\ answer' = Cardinality({i \in Present : Holds(BuildAggregate(query), i)})
    /\ expected' = Cardinality({i \in Present : \A k \in DOMAIN asked.where :
                        Cell(i, asked.where[k].column) = asked.where[k].value})
    /\ Forget /\ UNCHANGED <<table, conf, query, asked>>

\* The caller takes a new builder.
NewQuery ==
    /\ query' = New /\ asked' = New
    /\ Building

-----------------------------------------------------------------------------
(* Bulk statements. *)

Cells(sql, k) == [j \in DOMAIN sql.values[k] |-> sql.args[sql.values[k][j]]]

\* Every row of the statement is applied, or the statement fails.
Applied(sql) ==
    [i \in RowIds |-> IF \E k \in DOMAIN sql.values : Cells(sql, k)[1] = i
                   THEN Cells(sql, CHOOSE k \in DOMAIN sql.values : Cells(sql, k)[1] = i)[2]
                   ELSE table[i]]

Given(rows) == {rows[k][1] : k \in DOMAIN rows}
After(rows) ==
    [i \in RowIds |-> IF i \in Given(rows)
                   THEN rows[CHOOSE k \in DOMAIN rows : rows[k][1] = i][2] ELSE table[i]]

BulkInsert(rows) ==
    /\ Given(rows) \cap Present = {}
    /\ table' = Applied(BuildBulkInsert(rows))
    /\ answer' = table' /\ expected' = After(rows)
    /\ Forget /\ UNCHANGED <<conf, query, asked>>

\* A statement the database refuses changes nothing, and the caller gets its error.
BulkUpdate(rows) ==
    LET sql == BuildBulkUpdate(rows)
        accepted == \A c \in sql.returning : Resolves(c, sql.sources)
    IN
    /\ Given(rows) \subseteq Present
    /\ table' = IF accepted THEN Applied(sql) ELSE table
    /\ answer' = IF accepted THEN table' ELSE Refused
    /\ expected' = After(rows)
    /\ Forget /\ UNCHANGED <<conf, query, asked>>

BulkDelete(ids) ==
    LET sql == BuildBulkDelete(ids) IN
    /\ table' = [i \in RowIds |-> IF \E k \in DOMAIN sql.values : sql.args[sql.values[k]] = i
                               THEN Absent ELSE table[i]]
    /\ answer' = table'
    /\ expected' = [i \in RowIds |-> IF i \in Range(ids) THEN Absent ELSE table[i]]
    /\ Forget /\ UNCHANGED <<conf, query, asked>>

-----------------------------------------------------------------------------
(* Streams.  An open result holds a connection until it is closed. *)

Open ==
    /\ stream.closed
    /\ LET rows == Run(BuildSelect(Select(EffectiveLimit))) IN
       stream' = [NoStream EXCEPT !.rows = rows, !.of = Wanted(asked.limit),
                                  !.closed = FALSE, !.held = 1]
    /\ answer' = NoValue /\ expected' = NoValue
    /\ UNCHANGED <<table, conf, query, asked>>

\* Once: Close, and Next at the end or after an error, give the rows back.
Closed(s) == [s EXCEPT !.closed = TRUE, !.held = IF s.closed THEN @ ELSE @ - 1]

\* A row is scanned; or the scan or the result fails; or the rows are over.
StreamNext ==
    /\ ~stream.closed /\ ~stream.err
    /\ \/ /\ stream.rows # <<>>
          /\ stream' = [stream EXCEPT !.item = Head(stream.rows), !.rows = Tail(@),
                                      !.read = Append(@, Head(stream.rows))]
       \/ stream' = Closed([stream EXCEPT !.err = TRUE, !.item = NoValue])
       \/ stream.rows = <<>> /\ stream' = Closed([stream EXCEPT !.item = NoValue])
    /\ UNCHANGED <<table, conf, query, asked, answer, expected>>

\* Close returns the rows once, however often it is called.
StreamClose ==
    /\ stream' = Closed(stream)
    /\ UNCHANGED <<table, conf, query, asked, answer, expected>>

-----------------------------------------------------------------------------

BulkRows == {<<r>> : r \in RowIds \X RowValues} \cup
            {s \in (RowIds \X RowValues) \X (RowIds \X RowValues) : s[1][1] # s[2][1]}

BulkIds == {<<i>> : i \in RowIds} \cup (RowIds \X RowIds)

QueryNext ==
    \/ \E n \in Limits : Limit(n)
    \/ \E n \in Offsets : Offset(n)
    \/ \E p \in Predicate : AddWhere(p)
    \/ OrderBy \/ All \/ First \/ Count \/ NewQuery
    \/ \E rows \in BulkRows : BulkInsert(rows) \/ BulkUpdate(rows)
    \/ \E ids \in BulkIds : BulkDelete(ids)
    \/ Open \/ StreamNext \/ StreamClose

QuerySpec == QueryInit /\ [][QueryNext]_queryVars

-----------------------------------------------------------------------------
(* Properties. *)

\* A stream yields the rows that All would have returned, in their order, each
\* once, and nothing after an error; one that ended, failed or was closed has
\* given its connection back, once.
StreamIsRight ==
    /\ IsPrefix(stream.read, stream.of)
    /\ stream.rows = <<>> /\ stream.closed /\ ~stream.err => stream.read = stream.of
    /\ stream.closed \/ stream.err => stream.held = 0

\* All, First, Count and a stream return what the caller has described by its
\* calls so far, and a bulk insert or delete leaves the table its caller
\* described: every value reaches its own placeholder, and First, the default
\* limit and the cap leave nothing behind in the builder.  The exception is a call
\* whose statement the database refuses, which only a bulk update's is.
AnswersAsAsked == answer \in {expected, Refused} /\ StreamIsRight
=============================================================================
