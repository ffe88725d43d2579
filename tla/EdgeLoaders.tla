---------------------------- MODULE EdgeLoaders -----------------------------
(***************************************************************************)
(* A Load method the generator writes into the ORM client, and the Edges   *)
(* of the structs it fills (generator/orm.go: emitToOneLoader,             *)
(* emitToManyLoader, emitManyToManyLoader, emitEdgesStruct,                *)
(* emitEdgeAccessors), as callers use them: one goroutine, which asks      *)
(* EdgeLoaded first.  There is one relation, of any kind.                  *)
(*                                                                         *)
(* An object is a struct in memory; several may hold the same row.  Its    *)
(* key is what the loader searches by: the foreign key for a to-one edge,  *)
(* its own otherwise.  Key 0 is the zero value, or a foreign key that is   *)
(* NULL.                                                                   *)
(***************************************************************************)
EXTENDS Integers, Sequences, FiniteSets, SequencesExt

CONSTANTS
    Objects,    \* the structs
    Keys,       \* the keys of their rows; for a to-one edge, those of the targets
    Targets,    \* the rows at the other end
    Kinds,      \* subset of {"ToOne", "ToMany", "ManyToMany"}
    MaxParents, \* bound: parents of one call
    MaxItems,   \* bound: a list this long is not loaded again
    Faults,     \* subset of {"query", "rows"}: what may fail
    Nil         \* no call, and a parent that is nil

ASSUME EdgeLoadersAssumption ==
    /\ Keys \subseteq Nat \ {0} /\ Targets \subseteq Nat \ {0} /\ Faults \subseteq {"query", "rows"}
    /\ IsFiniteSet(Keys) /\ IsFiniteSet(Targets)
    /\ MaxParents \in Nat /\ Nil \notin Objects
    /\ Nil \notin [parents : Seq(Objects \cup {Nil}), rows : Seq(Keys \X Targets), related : SUBSET Targets]

VARIABLES
    kind,       \* the kind of the edge
    key,        \* key[o]: what object o is searched by
    edges,      \* edges[o]: the items of the edge
    loaded,     \* the objects whose edge is marked as loaded
    relation,   \* the pairs <<key, target>> the database has
    call,       \* the call that runs, or Nil
    returned,   \* what the last one returned, or Nil
    truth,      \* truth[o]: what the statement said of the edge, or Set put there
    failed      \* the objects with a Load that failed since the edge was Set

loaderVars == <<kind, key, edges, loaded, relation, call, returned, truth, failed>>

\* What the tables may hold: a to-one edge finds the row of its key, a target
\* of a to-many edge has one owner.
Stored ==
    {r \in SUBSET (Keys \X Targets) :
        /\ kind = "ToOne" => \A p \in r : p[1] = p[2]
        /\ kind = "ToMany" => \A p, q \in r : p[2] = q[2] => p = q}

LoaderTypeOK ==
    /\ key \in [Objects -> Keys \cup {0}]
    /\ edges \in [Objects -> Seq(Targets)] /\ loaded \subseteq Objects
    /\ kind = "ToOne" => \A o \in Objects : Len(edges[o]) <= 1
    /\ relation \in Stored

LoaderInit ==
    /\ kind \in Kinds
    /\ key \in [Objects -> Keys \cup {0}]
    /\ edges = [o \in Objects |-> <<>>] /\ loaded = {}
    /\ relation \in Stored
    /\ call = Nil /\ returned = Nil
    /\ truth = [o \in Objects |-> <<>>] /\ failed = {}

-----------------------------------------------------------------------------
(* Definitions named *Faulty* are not the code: each is a plausible bug in *)
(* the definition after it.                                                *)

Parents(ps) == ToSet(ps) \ {Nil}

\* The places of the parents of a key: one is there as often as it was passed.
Bucket(ps, k) == {i \in DOMAIN ps : ps[i] # Nil /\ key[ps[i]] = k}

\* The rows of a statement that asks for every key once.
buildInQuery(keys) == {r \in relation : r[1] \in keys}

\* A to-one edge is marked before the statement is sent, a list only where
\* there is nothing to ask for.
MarkFirst(ps) ==
    loaded \cup (IF kind = "ToOne" THEN Parents(ps) ELSE {o \in Parents(ps) : key[o] = 0})

MarkLastFaulty(ps) == {o \in Parents(ps) : edges[o] # <<>>}
MarkLast(ps) == Parents(ps)

Idle == call = Nil
Return(ps, err) ==
    /\ call' = Nil /\ returned' = [parents |-> ps, err |-> err]
    /\ failed' = IF err THEN failed \cup Parents(ps) ELSE failed

\* A Load method up to its statement.
Load ==
    /\ Idle
    /\ \E n \in 1..MaxParents : \E ps \in [1..n -> Objects \cup {Nil}] :
       LET keys == {key[o] : o \in Parents(ps)} \ {0} IN
       /\ Parents(ps) \cap loaded = {}
       /\ \A o \in Parents(ps) : Len(edges[o]) < MaxItems
       /\ IsInjective(ps)
       /\ loaded' = MarkFirst(ps)
       /\ edges' = [o \in Objects |->
              IF kind = "ToOne" /\ o \in Parents(ps) /\ key[o] = 0 THEN <<>> ELSE edges[o]]
       /\ truth' = [o \in Objects |->
              IF o \notin Parents(ps) THEN truth[o]
              ELSE SetToSeq({r[2] : r \in {q \in buildInQuery(keys) : q[1] = key[o]}})]
       /\ \/ keys = {} /\ Return(ps, FALSE)
          \/ keys # {} /\ "query" \in Faults /\ Return(ps, TRUE)
          \/ /\ keys # {}
             /\ \E order \in SetToSeqs(buildInQuery(keys)) :
                    call' = [parents |-> ps, rows |-> order, related |-> {}]
             /\ UNCHANGED <<returned, failed>>
    /\ UNCHANGED <<kind, key, relation>>

\* One row: a list is filled at once, a to-one edge at the end.
ScanRow ==
    /\ ~Idle /\ call.rows # <<>>
    /\ LET row == Head(call.rows)
           times(o) == Cardinality({i \in Bucket(call.parents, row[1]) : call.parents[i] = o})
       IN  IF kind = "ToOne"
           THEN /\ call' = [call EXCEPT !.rows = Tail(@), !.related = @ \cup {row[2]}]
                /\ UNCHANGED edges
           ELSE /\ call' = [call EXCEPT !.rows = Tail(@)]
                /\ edges' = [o \in Objects |-> edges[o] \o [i \in 1..times(o) |-> row[2]]]
    /\ UNCHANGED <<kind, key, loaded, relation, returned, truth, failed>>

\* Scan fails on a row, or rows.Err reports that the statement did.
Fail ==
    /\ ~Idle /\ "rows" \in Faults
    /\ Return(call.parents, TRUE)
    /\ UNCHANGED <<kind, key, edges, loaded, relation, truth>>

Finish ==
    /\ ~Idle /\ call.rows = <<>>
    /\ LET ps == call.parents IN
       /\ loaded' = loaded \cup MarkLast(ps)
       /\ edges' = [o \in Objects |->
              IF kind # "ToOne" \/ o \notin Parents(ps) THEN edges[o]
              ELSE IF key[o] \in call.related THEN <<key[o]>> ELSE <<>>]
       /\ Return(ps, FALSE)
    /\ UNCHANGED <<kind, key, relation, truth>>

\* The Set method.
SetEdge ==
    /\ Idle
    /\ \E o \in Objects, items \in {<<>>} \cup {<<t>> : t \in Targets} :
           /\ edges' = [edges EXCEPT ![o] = items]
           /\ truth' = [truth EXCEPT ![o] = items]
           /\ loaded' = loaded \cup {o} /\ failed' = failed \ {o}
    /\ returned' = Nil
    /\ UNCHANGED <<kind, key, relation, call>>

\* Others write to the tables; a statement that runs sees them as they were.
Write ==
    /\ Idle
    /\ relation' \in Stored
    /\ UNCHANGED <<kind, key, edges, loaded, call, returned, truth, failed>>

LoaderNext == Load \/ ScanRow \/ Fail \/ Finish \/ SetEdge \/ Write

LoaderSpec == LoaderInit /\ [][LoaderNext]_loaderVars

-----------------------------------------------------------------------------

\* An edge EdgeLoaded answers for holds what the statement of its loader
\* returned for it, each row once, or what was Set, unless one of its loads has
\* failed.  A Load that returns no error has loaded the edge of every parent; a
\* list that failed to load is not taken for a loaded one until it was loaded
\* again, or Set.
LoadedIsRight ==
    /\ Idle => \A o \in loaded \ failed :
           /\ ToSet(edges[o]) = ToSet(truth[o])
           /\ Len(edges[o]) = Len(truth[o])
    /\ returned # Nil => \A o \in Parents(returned.parents) :
           IF returned.err THEN Idle /\ kind # "ToOne" /\ key[o] # 0 => o \notin loaded
           ELSE o \in loaded
=============================================================================
