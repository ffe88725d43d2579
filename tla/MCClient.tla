------------------------------ MODULE MCClient ------------------------------
(* The generated client and what its callers do with it, side by side: the  *)
(* code of an entity (EntityCode), its Load methods (EdgeLoaders), its      *)
(* query builder (Queries) and the walk of a connection (Pagination).  They *)
(* share no state, so a behaviour exercises one part.                       *)
EXTENDS EntityCode, EdgeLoaders, Queries, Pagination, TLC

-----------------------------------------------------------------------------
(* Entities, their fields in any order, with and without the parts. *)

F(name, type) ==
    [name |-> name, column |-> name, type |-> type, primary |-> FALSE, nullable |-> FALSE,
     defaultNow |-> FALSE, updateNow |-> FALSE, default |-> None, source |-> None, always |-> FALSE]
E(fields) == [fields |-> fields, predicates |-> {"id"}, orders |-> {"id"},
              aggregates |-> {[field |-> "*", func |-> "count"]}]

Id == [F("id", "uuid") EXCEPT !.primary = TRUE]
Name == [F("name", "text") EXCEPT !.column = "full_name"]
Nick == [F("nick", "text") EXCEPT !.nullable = TRUE]
Created == [F("created", "time") EXCEPT !.defaultNow = TRUE]
Updated == [F("updated", "time") EXCEPT !.updateNow = TRUE]
Both == [F("seen", "time") EXCEPT !.defaultNow = TRUE, !.updateNow = TRUE]
Label == [F("label", "text") EXCEPT !.source = "full_name"]

Orders(fs) == {E(f) : f \in SetToSeqs(fs)}

\* The fields in any order, with and without the parts.
Accounts == UNION {Orders({Id, Name} \cup x) :
                       x \in {{Created}, {Updated}, {Label}, {Nick}, {Both}}}
            \cup Orders({Id, Created})
            \cup {E(<<Label, Id, Created, Name>>), E(<<Created, Name, Label, Id>>)}
            \cup {[E(<<Id, Name, Created>>) EXCEPT !.predicates = {"created"}]}
            \cup {[E(<<Id, Name, Created>>) EXCEPT !.aggregates = {[field |-> "created", func |-> "max"]}]}
            \cup {[E(<<Id, Name>>) EXCEPT !.predicates = {"name"}, !.orders = {"name"},
                                         !.aggregates = {[field |-> "name", func |-> "max"]}]}

(* Schemas whose code can be used. *)

\* The key and the timestamps are not nullable and a timestamp is a time; no
\* predicate or aggregate is on raw JSON, and one on a time comes with a
\* timestamp, which has the package imported; no identity is always generated;
\* predicates, orders and aggregates name fields or columns, and only COUNT
\* goes without.
Usable(e) ==
    /\ \A i \in DOMAIN e.fields : LET f == e.fields[i] IN
           /\ f.primary => ~f.nullable
           /\ f.defaultNow \/ f.updateNow => f.type = "time" /\ ~f.nullable
           /\ i \in queryFields(e) => f.type # "json" /\ (f.type = "time" => needsTime(e))
           /\ ~f.always
    /\ \A p \in e.predicates \cup e.orders :
           \E i \in DOMAIN e.fields : e.fields[i].name = p \/ e.fields[i].column = p
    /\ \A x \in e.aggregates :
           IF x.field = "*" THEN x.func = "count"
           ELSE \E i \in DOMAIN e.fields : e.fields[i].name = x.field \/ e.fields[i].column = x.field

ASSUME AccountsAreUsable == \A e \in Entities : Usable(e)

-----------------------------------------------------------------------------
(* Structs that may hold the same row, limits, and pages. *)

CONSTANTS a, b
Interchangeable == Permutations({a, b})

MCLimits == {0, 1, 2}
MCOffsets == {-1, 0, 1}
MCSizes == {Omitted, -1, 0, 1, 3}
MCAfters == {Omitted, Garbage}

-----------------------------------------------------------------------------

VARIABLE part

\* A part that is not exercised has one initial state.
Init ==
    /\ part \in {"code", "loaders", "queries", "walk"}
    /\ part # "code" => ent = E(<<Id, Created>>)
    /\ part # "loaders" => kind = "ToOne" /\ key = [o \in Objects |-> 0] /\ relation = {}
    /\ part # "queries" => /\ table = [i \in RowIds |-> Absent]
                           /\ conf = [default |-> 0, max |-> 0]
    /\ part # "walk" => users = {} /\ size = Omitted /\ after = Omitted
    /\ CodeInit /\ LoaderInit /\ QueryInit /\ WalkInit
Next ==
    \/ part = "code" /\ CodeNext /\ UNCHANGED <<part, loaderVars, queryVars, walkVars>>
    \/ part = "loaders" /\ LoaderNext /\ UNCHANGED <<part, codeVars, queryVars, walkVars>>
    \/ part = "queries" /\ QueryNext /\ UNCHANGED <<part, codeVars, loaderVars, walkVars>>
    \/ part = "walk" /\ WalkNext /\ UNCHANGED <<part, codeVars, loaderVars, queryVars>>
Spec == Init /\ [][Next]_<<part, codeVars, loaderVars, queryVars, walkVars>>

\* The state of every part is well formed.
TypeOK == CodeTypeOK /\ LoaderTypeOK /\ QueryTypeOK /\ WalkTypeOK
=============================================================================
