------------------------- MODULE EntityCacheProofs -------------------------
(***************************************************************************)
(* Proofs about EntityCache, for any requests, ids, kinds of operation,    *)
(* faults and bounds: the types, that only committed rows travel, that a   *)
(* request reads what it wrote, and that a cached row is current where     *)
(* nothing interfered.                                                     *)
(*                                                                         *)
(* Each theorem has an invariant of its own over the types: Held vouches   *)
(* for every place a row can be in at once, Recalled bounds the rows a     *)
(* request holds by those it created and updated, Fresh says, for each     *)
(* point of an operation that was not disturbed, what it holds against the *)
(* table, and AllMinded, which rests on Fresh, bounds what a request holds *)
(* and may still find after a deletion or a bulk form of its own.          *)
(***************************************************************************)
EXTENDS EntityCache, TLAPS

-----------------------------------------------------------------------------
(* Types.  Shape is TypeOK with the domains of the functions, and what a   *)
(* request that is about to store or to publish holds.                     *)

Versions == 0..MaxVersion
Rows == 1..MaxVersion
Least == 0..(MaxVersion + 1)
PCs == {"idle", "write", "rows", "doomed", "fill", "publish", "read", "drop"}
Answers == [is: {None, "ok", "error"}] \cup [is: {"record"}, id: Ids, v: Versions]

Shape ==
    /\ row \in [Ids -> Versions] /\ replica \in [Ids -> Versions]
    /\ version \in Rows
    /\ cache \in [Ids -> Rows \cup {None}]
    /\ loader \in [Requests -> [Ids -> Rows \cup {None}]]
    /\ event \in [Ids -> Versions \cup {None}]
    /\ pc \in [Requests -> PCs]
    /\ op \in [Requests -> [kind: Kinds \cup {None}, ids: SUBSET Ids]]
    /\ batch \in [Requests -> [Ids -> Versions]]
    /\ calls \in [Requests -> 0..Calls]
    /\ answer \in [Requests -> Answers]
    /\ wrote \in [Requests -> [Ids -> Versions]]
    /\ since \in [Requests -> [Ids -> Least]]

\* What the point p of an operation o says of it and of the rows b it holds.
Stage(p, o, b) ==
    /\ p = "idle" <=> o.ids = {}
    /\ p # "idle" => o.kind \in Writes \cup {"load"}
    /\ p # "idle" /\ o.kind \notin Bulk => \E i \in Ids : o.ids = {i}
    /\ p = "read" => o.kind = "load"
    /\ p = "write" => o.kind \in Writes
    /\ p = "fill" => o.kind \in {"load", "create", "update"} /\ \A i \in o.ids : b[i] # 0
    /\ p \in {"rows", "doomed"} => o.kind \in {"bulkCreate", "bulkUpdate"}
    /\ p = "publish" => /\ o.kind \in {"create", "update", "delete"}
                        /\ o.kind # "delete" => \A i \in o.ids : b[i] # 0
                        /\ o.kind = "delete" => \A i \in Ids : b[i] = 0
    /\ p = "drop" => o.kind \in Deletes /\ \A i \in Ids : b[i] = 0
    /\ \A i \in Ids : b[i] # 0 => i \in o.ids

Underway ==
    /\ committed \subseteq Ids \X Versions /\ disturbed \subseteq Ids /\ doomed \subseteq disturbed
    /\ \A r \in Requests : Stage(pc[r], op[r], batch[r])

\* All that is used of versions below, but for the next one.
LEMMA Numbers ==
    /\ 0 \in Versions /\ Rows \subseteq Versions /\ None \notin Versions /\ 0 \notin Rows
    /\ \A v \in Versions : v # 0 => v \in Rows
  BY BoundsAssumption, NoneAssumption DEF Versions, Rows

LEMMA ShapeInit == Init => Shape
<1>1. Init => since \in [Requests -> [Ids -> Least]]
  BY BoundsAssumption DEF Init, NoRows, Least
<1> QED
  BY <1>1, BoundsAssumption, NoneAssumption
  DEF Init, Shape, Versions, Rows, PCs, Answers, Nothing, NoRows, Told

LEMMA BeginShape ==
    ASSUME Shape, NEW r \in Requests, NEW k, NEW S \in SUBSET Ids, NEW at \in PCs,
           Begin(r, k, S, at)
    PROVE  pc' \in [Requests -> PCs] /\ op' \in [Requests -> [kind: Kinds \cup {None}, ids: SUBSET Ids]]
           /\ batch' \in [Requests -> [Ids -> Versions]] /\ calls' \in [Requests -> 0..Calls]
           /\ answer' \in [Requests -> Answers]
  BY Numbers, BoundsAssumption DEF Shape, Begin, NoRows, Told, Answers

LEMMA EndShape ==
    ASSUME Shape, NEW r \in Requests, NEW a \in Answers, End(r, a)
    PROVE  pc' \in [Requests -> PCs] /\ op' \in [Requests -> [kind: Kinds \cup {None}, ids: SUBSET Ids]]
           /\ batch' \in [Requests -> [Ids -> Versions]] /\ answer' \in [Requests -> Answers]
  BY Numbers DEF Shape, End, NoRows, Nothing, PCs

LEMMA StoreShape ==
    ASSUME Shape, NEW i \in Ids, NEW v \in Rows \cup {None}, Store(i, v)
    PROVE  cache' \in [Ids -> Rows \cup {None}]
  BY DEF Shape, Store

\* What a request minds after a deletion or a bulk form.
LEMMA LeastRows ==
    ASSUME Shape
    PROVE  \A i \in Ids : row[i] \in Least /\ Later[i] = version + 1 /\ Later[i] \in Least
<1>1. version \in Rows /\ row \in [Ids -> Versions]
  BY DEF Shape
<1>2. version + 1 \in Least /\ Versions \subseteq Least
  BY <1>1, BoundsAssumption DEF Rows, Versions, Least
<1> QED
  BY <1>1, <1>2 DEF Later

LEMMA Minding ==
    ASSUME Shape, NEW r \in Requests, NEW S, NEW v, \A i \in Ids : v[i] \in Least, Minds(r, S, v)
    PROVE  /\ since' \in [Requests -> [Ids -> Least]] /\ wrote' = wrote
           /\ \A q \in Requests \ {r} : since'[q] = since[q]
           /\ \A i \in Ids : since'[r][i] =
                 IF i \in S \ disturbed /\ loader[r][i] = None THEN v[i] ELSE since[r][i]
<1> DEFINE new == [i \in Ids |-> IF i \in S \ disturbed /\ loader[r][i] = None THEN v[i] ELSE since[r][i]]
<1>1. since' = [since EXCEPT ![r] = new] /\ wrote' = wrote
  BY DEF Minds
<1>2. since \in [Requests -> [Ids -> Least]]
  BY DEF Shape
<1>3. since[r] \in [Ids -> Least]
  BY <1>2
<1>4. new \in [Ids -> Least]
  BY <1>3
<1>5. \A i \in Ids : new[i] = IF i \in S \ disturbed /\ loader[r][i] = None THEN v[i] ELSE since[r][i]
  OBVIOUS
<1> HIDE DEF new
<1> QED
  BY <1>1, <1>2, <1>4, <1>5

\* The operation of a request, and what it holds and was told, stay as they are.
Same(q) == /\ pc'[q] = pc[q] /\ op'[q] = op[q] /\ batch'[q] = batch[q]
           /\ answer'[q] = answer[q] /\ loader'[q] = loader[q] /\ wrote'[q] = wrote[q]
           /\ since'[q] = since[q]

\* What a request does with an operation that begins, and one that ends.
LEMMA BeginLocal ==
    ASSUME Shape, NEW r \in Requests, NEW k, NEW S, NEW at, Begin(r, k, S, at)
    PROVE  /\ pc'[r] = at /\ op'[r] = [kind |-> k, ids |-> S] /\ batch'[r] = NoRows
           /\ answer'[r] = Told(None)
           /\ \A q \in Requests \ {r} : /\ pc'[q] = pc[q] /\ op'[q] = op[q]
                                        /\ batch'[q] = batch[q] /\ answer'[q] = answer[q]
  BY DEF Shape, Begin

LEMMA EndLocal ==
    ASSUME Shape, NEW r \in Requests, NEW a, End(r, a)
    PROVE  /\ pc'[r] = "idle" /\ op'[r] = Nothing /\ batch'[r] = NoRows /\ answer'[r] = a
           /\ \A q \in Requests \ {r} : /\ pc'[q] = pc[q] /\ op'[q] = op[q]
                                        /\ batch'[q] = batch[q] /\ answer'[q] = answer[q]
  BY DEF Shape, End

\* The types that every action keeps alike.
LEMMA ShapeStep == Shape /\ Underway /\ [Next]_vars => Shape'
<1> SUFFICES ASSUME Shape, Underway, [Next]_vars PROVE Shape'
  OBVIOUS
<1> USE Numbers DEF dbVars, memVars, reqVars, own
<1>1. ASSUME NEW r \in Requests, NEW i \in Ids, StartLoad(r, i) PROVE Shape'
  BY <1>1, BeginShape DEF StartLoad, Shape, PCs
<1>2. ASSUME NEW r \in Requests, NEW k \in Kinds, NEW S \in (SUBSET Ids) \ {{}}, StartWrite(r, k, S)
      PROVE  Shape'
  BY <1>2, BeginShape DEF StartWrite, Shape, PCs
<1>3. ASSUME NEW r \in Requests, List(r) PROVE Shape'
  <2>0. calls' \in [Requests -> 0..Calls]
    <3>1. calls' = [calls EXCEPT ![r] = @ + 1] /\ calls[r] < Calls
      BY <1>3 DEF List
    <3>2. calls \in [Requests -> 0..Calls]
      BY DEF Shape
    <3>3. calls[r] + 1 \in 0..Calls
      BY <3>1, <3>2, BoundsAssumption
    <3> QED
      BY <3>1, <3>2, <3>3
  <2>1. PICK seen \in {row} \cup (IF "oldList" \in Faults THEN {replica} ELSE {}) :
           \E primed \in SUBSET {i \in Ids : seen[i] # 0} :
            loader' = [loader EXCEPT ![r] = [i \in Ids |-> IF i \in primed THEN seen[i] ELSE @[i]]]
    BY <1>3 DEF List
  <2>2. \A i \in Ids : seen[i] # 0 => seen[i] \in Rows
    <3>1. seen \in [Ids -> Versions]
      BY <2>1 DEF Shape
    <3> QED
      BY <3>1
  <2>a. PICK primed \in SUBSET {i \in Ids : seen[i] # 0} :
            loader' = [loader EXCEPT ![r] = [i \in Ids |-> IF i \in primed THEN seen[i] ELSE @[i]]]
    BY <2>1
  <2>b. [i \in Ids |-> IF i \in primed THEN seen[i] ELSE loader[r][i]] \in [Ids -> Rows \cup {None}]
    <3>1. loader[r] \in [Ids -> Rows \cup {None}]
      BY DEF Shape
    <3>2. \A i \in Ids : loader[r][i] \in Rows \cup {None}
      BY <3>1
    <3> QED
      BY <2>2, <3>2
  <2>3. loader' \in [Requests -> [Ids -> Rows \cup {None}]]
    <3>1. loader \in [Requests -> [Ids -> Rows \cup {None}]]
      BY DEF Shape
    <3> QED
      BY <2>a, <2>b, <3>1
  <2>d. Told(None) \in Answers
    BY DEF Answers, Told
  <2>4. calls' \in [Requests -> 0..Calls] /\ answer' \in [Requests -> Answers]
    BY <1>3, <2>0, <2>d DEF List, Shape
  <2> QED
    BY <1>3, <2>3, <2>4 DEF List, Shape
<1>4. ASSUME NEW r \in Requests, Hit(r) PROVE Shape'
  <2>1. PICK i \in Ids : loader[r][i] \in Rows /\ ReturnOrNot(r, i, loader[r][i])
    BY <1>4 DEF Hit, Shape
  <2>2. PICK a \in Answers : End(r, a)
    BY <2>1 DEF ReturnOrNot, Return, Told, Answers
  <2> QED
    BY <1>4, <2>2, EndShape DEF Hit, Shape
<1>5. ASSUME NEW r \in Requests, Read(r) PROVE Shape'
  <2>1. PICK i \in Ids, v \in Versions :
           IF v = 0 THEN Return(r, i, 0)
           ELSE /\ batch' = [batch EXCEPT ![r][i] = v]
                /\ pc' = [pc EXCEPT ![r] = "fill"]
                /\ UNCHANGED <<op, answer>>
    BY <1>5 DEF Read, Shape, Versions
  <2>2. [is |-> "record", id |-> i, v |-> 0] \in Answers
    BY DEF Answers
  <2>3. CASE v = 0
    BY <1>5, <2>1, <2>2, <2>3, EndShape DEF Read, Shape, Return
  <2>4. CASE v # 0
    <3>1. batch' \in [Requests -> [Ids -> Versions]] /\ pc' \in [Requests -> PCs]
      <4>1. batch' = [batch EXCEPT ![r][i] = v] /\ pc' = [pc EXCEPT ![r] = "fill"]
        BY <2>1, <2>4
      <4>2. batch \in [Requests -> [Ids -> Versions]] /\ pc \in [Requests -> PCs]
        BY DEF Shape
      <4> QED
        BY <4>1, <4>2 DEF PCs
    <3> QED
      BY <1>5, <2>1, <2>4, <3>1 DEF Read, Shape
  <2> QED
    BY <2>3, <2>4
<1>6. ASSUME NEW r \in Requests, ReadFails(r) PROVE Shape'
  BY <1>6, EndShape DEF ReadFails, Shape, Told, Answers
<1>7. ASSUME NEW r \in Requests, FillRead(r) PROVE Shape'
  <2>1. PICK i \in op[r].ids : /\ Store(i, batch[r][i])
                               /\ loader' = [loader EXCEPT ![r][i] = batch[r][i]]
                               /\ ReturnOrNot(r, i, batch[r][i])
    BY <1>7 DEF FillRead, Scanned
  <2>a. i \in Ids /\ batch[r][i] \in Rows
    BY <1>7 DEF FillRead, Shape, Underway, Stage
  <2>2. PICK a \in Answers : End(r, a)
    BY <2>1, <2>a DEF ReturnOrNot, Return, Told, Answers
  <2>3. cache' \in [Ids -> Rows \cup {None}]
    BY <2>1, <2>a, StoreShape
  <2>4. loader' \in [Requests -> [Ids -> Rows \cup {None}]]
    BY <2>1, <2>a DEF Shape
  <2> QED
    BY <1>7, <2>2, <2>3, <2>4, EndShape DEF FillRead, Shape
<1>8. ASSUME NEW r \in Requests, WriteFails(r) PROVE Shape'
  BY <1>8, EndShape DEF WriteFails, Shape, Told, Answers
<1>9. ASSUME NEW r \in Requests, Write(r) PROVE Shape'
  <2>1. /\ Result(r) \in [Ids -> Versions]
        /\ row' \in [Ids -> Versions] /\ version' \in Rows
    BY <1>9, BoundsAssumption DEF Write, CanTake, Takes, Commit, Result, Shape, Versions, Rows
  <2>2. CASE /\ batch' = [batch EXCEPT ![r] = Result(r)] /\ UNCHANGED <<op, answer>>
             /\ pc' \in [Requests -> PCs]
    BY <1>9, <2>1, <2>2 DEF Write, Commit, Shape
  <2>3. CASE End(r, Told("error"))
    <3>1. Told("error") \in Answers
      BY DEF Told, Answers
    <3> QED
      BY <1>9, <2>1, <2>3, <3>1, EndShape DEF Write, Commit, Shape
  <2> QED
    BY <1>9, <2>2, <2>3 DEF Write, Shape, PCs
<1>10. ASSUME NEW r \in Requests, WriteDoomed(r) PROVE Shape'
  <2>1. Result(r) \in [Ids -> Versions] /\ version' \in Rows
    BY <1>10, BoundsAssumption DEF WriteDoomed, CanTake, Takes, Result, Shape, Versions, Rows
  <2> QED
    BY <1>10, <2>1 DEF WriteDoomed, Shape, PCs
<1>11. ASSUME NEW r \in Requests, NextRow(r) PROVE Shape'
  <2>1. PICK i \in Ids : /\ batch[r][i] # 0
                         /\ Store(i, batch[r][i])
                         /\ batch' = [batch EXCEPT ![r][i] = 0]
    BY <1>11 DEF NextRow, Scanned
  <2>2. batch[r][i] \in Rows /\ batch' \in [Requests -> [Ids -> Versions]]
    BY <2>1 DEF Shape
  <2>3. cache' \in [Ids -> Rows \cup {None}]
    BY <2>1, <2>2, StoreShape
  <2> QED
    BY <1>11, <2>2, <2>3 DEF NextRow, Shape
<1>12. ASSUME NEW r \in Requests, EndRows(r) PROVE Shape'
  <2>1. PICK a \in Answers : End(r, a)
    BY <1>12 DEF EndRows, Told, Answers
  <2>2. since' \in [Requests -> [Ids -> Least]] /\ wrote' = wrote
    <3>1. CASE UNCHANGED own
      BY <3>1 DEF Shape
    <3>2. CASE Minds(r, {i \in op[r].ids : row[i] # 0}, row)
      BY <3>2, LeastRows, Minding
    <3> QED
      BY <1>12, <3>1, <3>2 DEF EndRows
  <2> QED
    BY <1>12, <2>1, <2>2, EndShape DEF EndRows, Shape
<1>13. ASSUME NEW r \in Requests, FillWrite(r) PROVE Shape'
  <2>1. PICK i \in op[r].ids : Store(i, batch[r][i])
    BY <1>13 DEF FillWrite, Scanned
  <2>a. i \in Ids /\ batch[r][i] \in Rows
    BY <1>13 DEF FillWrite, Shape, Underway, Stage
  <2>2. cache' \in [Ids -> Rows \cup {None}]
    BY <2>1, <2>a, StoreShape
  <2> QED
    BY <1>13, <2>2 DEF FillWrite, Shape, PCs
<1>14. ASSUME NEW r \in Requests, Drop(r) PROVE Shape'
  <2>1. PICK i \in Ids :
           /\ Store(i, None)
           /\ UNCHANGED own \/ Minds(r, {i}, Later)
           /\ \/ pc' = [pc EXCEPT ![r] = "publish"] /\ UNCHANGED <<op, batch, answer>>
              \/ op' = [op EXCEPT ![r].ids = @ \ {i}] /\ UNCHANGED <<pc, batch, answer>>
              \/ End(r, Told("ok"))
    BY <1>14 DEF Drop, Shape
  <2>2. cache' \in [Ids -> Rows \cup {None}]
    BY <2>1, StoreShape
  <2>3. Told("ok") \in Answers
    BY DEF Told, Answers
  <2>4. /\ pc' \in [Requests -> PCs] /\ op' \in [Requests -> [kind: Kinds \cup {None}, ids: SUBSET Ids]]
        /\ batch' \in [Requests -> [Ids -> Versions]] /\ answer' \in [Requests -> Answers]
    <3>1. CASE pc' = [pc EXCEPT ![r] = "publish"] /\ UNCHANGED <<op, batch, answer>>
      BY <3>1 DEF Shape, PCs
    <3>2. CASE op' = [op EXCEPT ![r].ids = @ \ {i}] /\ UNCHANGED <<pc, batch, answer>>
      BY <3>2 DEF Shape
    <3>3. CASE End(r, Told("ok"))
      BY <3>3, <2>3, EndShape
    <3> QED
      BY <2>1, <3>1, <3>2, <3>3
  <2>5. since' \in [Requests -> [Ids -> Least]] /\ wrote' = wrote
    <3>1. CASE UNCHANGED own
      BY <3>1 DEF Shape
    <3>2. CASE Minds(r, {i}, Later)
      BY <3>2, LeastRows, Minding
    <3> QED
      BY <2>1, <3>1, <3>2
  <2> QED
    BY <1>14, <2>2, <2>4, <2>5 DEF Drop, Shape
<1>15. ASSUME NEW r \in Requests, HooksFail(r) PROVE Shape'
  BY <1>15, EndShape DEF HooksFail, Shape, Told, Answers
<1>16. ASSUME NEW r \in Requests, Publish(r) PROVE Shape'
  <2>1. PICK i \in Ids :
           /\ i \in op[r].ids
           /\ event' = [event EXCEPT ![i] = batch[r][i]]
           /\ IF op[r].kind = "delete"
              THEN End(r, Told("ok")) /\ Minds(r, {i}, Later) /\ UNCHANGED loader
              ELSE /\ Return(r, i, batch[r][i])
                   /\ loader' = [loader EXCEPT ![r][i] = batch[r][i]]
                   /\ wrote' = [wrote EXCEPT ![r][i] = batch[r][i]]
                   /\ since' = [since EXCEPT ![r][i] = 0]
    BY <1>16 DEF Publish, Scanned, Shape
  <2>2. batch[r][i] \in Versions /\ event' \in [Ids -> Versions \cup {None}]
    BY <2>1 DEF Shape
  <2>3. CASE op[r].kind = "delete"
    <3>1. Told("ok") \in Answers
      BY DEF Told, Answers
    <3>2. since' \in [Requests -> [Ids -> Least]] /\ wrote' = wrote
      BY <2>1, <2>3, LeastRows, Minding
    <3> QED
      BY <1>16, <2>1, <2>2, <2>3, <3>1, <3>2, EndShape DEF Publish, Shape
  <2>4. CASE op[r].kind # "delete"
    <3>1. batch[r][i] \in Rows
      BY <1>16, <2>1, <2>2, <2>4 DEF Publish, Underway, Stage
    <3>2. [is |-> "record", id |-> i, v |-> batch[r][i]] \in Answers
      BY <2>2 DEF Answers
    <3>3. loader' \in [Requests -> [Ids -> Rows \cup {None}]]
      <4>1. loader' = [loader EXCEPT ![r][i] = batch[r][i]]
        BY <2>1, <2>4
      <4> QED
        BY <4>1, <3>1 DEF Shape
    <3>4. wrote' \in [Requests -> [Ids -> Versions]]
      <4>1. wrote' = [wrote EXCEPT ![r][i] = batch[r][i]]
        BY <2>1, <2>4
      <4> QED
        BY <4>1, <2>2 DEF Shape
    <3>5. since' \in [Requests -> [Ids -> Least]]
      <4>1. since' = [since EXCEPT ![r][i] = 0] /\ 0 \in Least
        BY <2>1, <2>4, BoundsAssumption DEF Least
      <4> QED
        BY <4>1 DEF Shape
    <3> QED
      BY <1>16, <2>1, <2>2, <2>4, <3>2, <3>3, <3>4, <3>5, EndShape DEF Publish, Shape, Return
  <2> QED
    BY <2>3, <2>4
<1>17. ASSUME NEW i \in Ids, Replicate(i) PROVE Shape'
  BY <1>17 DEF Replicate, Shape
<1>18. CASE UNCHANGED vars
  BY <1>18 DEF vars, Shape
<1> QED
  BY <1>1, <1>2, <1>3, <1>4, <1>5, <1>6, <1>7, <1>8, <1>9, <1>10, <1>11, <1>12, <1>13, <1>14,
     <1>15, <1>16, <1>17, <1>18 DEF Next, Step, Quiet

\* A step of one request leaves the operations of the others alone.
LEMMA Locality ==
    ASSUME Shape, NEW r \in Requests, Step(r), NEW q \in Requests \ {r}
    PROVE  Same(q)
<1> USE DEF dbVars, memVars, reqVars, own, Same
<1>1. ASSUME NEW i \in Ids, StartLoad(r, i) PROVE Same(q)
  BY <1>1, BeginLocal DEF StartLoad, Shape
<1>2. ASSUME NEW k \in Kinds, NEW S \in (SUBSET Ids) \ {{}}, StartWrite(r, k, S) PROVE Same(q)
  BY <1>2, BeginLocal DEF StartWrite
<1>3. CASE List(r)
  BY <1>3 DEF List, Shape
<1>4. CASE Hit(r)
  BY <1>4, EndLocal DEF Hit, ReturnOrNot, Return
<1>5. CASE Read(r)
  <2>1. PICK i \in op[r].ids, v \in 0..MaxVersion :
           IF v = 0 THEN Return(r, i, 0)
           ELSE /\ batch' = [batch EXCEPT ![r][i] = v]
                /\ pc' = [pc EXCEPT ![r] = "fill"]
                /\ UNCHANGED <<op, answer>>
    BY <1>5 DEF Read
  <2>2. UNCHANGED <<loader, wrote, since>>
    BY <1>5 DEF Read
  <2> QED
    BY <2>1, <2>2, EndLocal DEF Return, Shape
<1>6. CASE ReadFails(r)
  BY <1>6, EndLocal DEF ReadFails
<1>7. CASE FillRead(r)
  BY <1>7, EndLocal DEF FillRead, ReturnOrNot, Return, Shape
<1>8. CASE WriteFails(r)
  BY <1>8, EndLocal DEF WriteFails
<1>9. CASE Write(r)
  <2>1. UNCHANGED <<loader, wrote, since>>
    BY <1>9 DEF Write
  <2>2. CASE End(r, Told("error"))
    BY <2>1, <2>2, EndLocal
  <2>3. CASE ~End(r, Told("error"))
    BY <1>9, <2>1, <2>3 DEF Write, Shape
  <2> QED
    BY <2>2, <2>3
<1>10. CASE WriteDoomed(r)
  BY <1>10 DEF WriteDoomed, Shape
<1>11. CASE NextRow(r)
  BY <1>11 DEF NextRow, Shape
<1>12. CASE EndRows(r)
  <2>1. wrote' = wrote /\ since'[q] = since[q]
    <3>1. CASE Minds(r, {i \in op[r].ids : row[i] # 0}, row)
      BY <3>1, LeastRows, Minding
    <3> QED
      BY <1>12, <3>1 DEF EndRows
  <2> QED
    BY <1>12, <2>1, EndLocal DEF EndRows
<1>13. CASE FillWrite(r)
  BY <1>13 DEF FillWrite, Shape
<1>14. CASE Drop(r)
  <2>1. wrote' = wrote /\ since'[q] = since[q]
    <3>1. ASSUME NEW i, Minds(r, {i}, Later) PROVE wrote' = wrote /\ since'[q] = since[q]
      BY <3>1, LeastRows, Minding
    <3> QED
      BY <1>14, <3>1 DEF Drop
  <2> QED
    BY <1>14, <2>1, EndLocal DEF Drop, Shape
<1>15. CASE HooksFail(r)
  BY <1>15, EndLocal DEF HooksFail
<1>16. CASE Publish(r)
  <2>1. wrote'[q] = wrote[q] /\ since'[q] = since[q] /\ loader'[q] = loader[q]
    <3>1. ASSUME NEW i, Minds(r, {i}, Later) PROVE wrote' = wrote /\ since'[q] = since[q]
      BY <3>1, LeastRows, Minding
    <3> QED
      BY <1>16, <3>1 DEF Publish, Shape
  <2> QED
    BY <1>16, <2>1, EndLocal DEF Publish, Return
<1> QED
  BY <1>1, <1>2, <1>3, <1>4, <1>5, <1>6, <1>7, <1>8, <1>9, <1>10, <1>11, <1>12, <1>13, <1>14,
     <1>15, <1>16 DEF Step

\* What is disturbed, doomed and committed stays so, and is of ids.
Grown ==
    /\ disturbed \subseteq disturbed' /\ doomed \subseteq doomed' /\ committed \subseteq committed'
    /\ doomed' \subseteq disturbed' /\ disturbed' \subseteq Ids
    /\ committed' \subseteq Ids \X Versions

LEMMA Growth ==
    ASSUME Shape, Underway, [Next]_vars PROVE Grown
<1> USE DEF dbVars, memVars, reqVars, own, Underway, Grown
<1>1. ASSUME NEW r \in Requests, NEW i \in Ids, StartLoad(r, i) PROVE Grown
  BY <1>1 DEF StartLoad, Begin
<1>2. ASSUME NEW r \in Requests, NEW k \in Kinds, NEW S \in (SUBSET Ids) \ {{}}, StartWrite(r, k, S)
      PROVE  Grown
  BY <1>2 DEF StartWrite, Begin
<1>3. ASSUME NEW r \in Requests, List(r) \/ Hit(r) \/ ReadFails(r) \/ WriteFails(r) \/ HooksFail(r) \/ Publish(r)
      PROVE  Grown
  BY <1>3 DEF List, Hit, ReadFails, WriteFails, HooksFail, Publish
<1>4. ASSUME NEW r \in Requests, NEW i \in op[r].ids, NEW v, Store(i, v),
             UNCHANGED <<committed, doomed>>
      PROVE  Grown
  BY <1>4 DEF Store, Shape
<1>5. ASSUME NEW r \in Requests, Read(r) PROVE Grown
  <2>1. PICK i \in op[r].ids, v \in 0..MaxVersion :
           disturbed' = IF v # row[i] THEN disturbed \cup {i} ELSE disturbed
    BY <1>5 DEF Read
  <2> QED
    BY <1>5, <2>1 DEF Read, Shape
<1>7. ASSUME NEW r \in Requests, FillRead(r) \/ FillWrite(r) \/ Drop(r) PROVE Grown
  BY <1>4, <1>7 DEF FillRead, FillWrite, Drop
<1>9. ASSUME NEW r \in Requests, Write(r) PROVE Grown
  <2>1. Matching(r) \subseteq Ids /\ \A i \in Ids : Result(r)[i] \in Versions
    BY <1>9, BoundsAssumption
    DEF Write, CanTake, Takes, Matching, Result, Shape, Versions, Rows
  <2>2. committed' \subseteq Ids \X Versions /\ committed \subseteq committed'
    BY <1>9, <2>1 DEF Write, Commit
  <2> QED
    BY <1>9, <2>2 DEF Write, Commit, Shape
<1>10. ASSUME NEW r \in Requests, WriteDoomed(r) PROVE Grown
  BY <1>10 DEF WriteDoomed, Shape
<1>11. ASSUME NEW r \in Requests, NextRow(r) PROVE Grown
  <2>1. PICK i \in Ids : batch[r][i] # 0 /\ Store(i, Scanned(r, i))
    BY <1>11 DEF NextRow
  <2> QED
    BY <1>11, <2>1 DEF NextRow, Store
<1>12. ASSUME NEW r \in Requests, EndRows(r) PROVE Grown
  BY <1>12 DEF EndRows, Shape
<1>17. ASSUME NEW i \in Ids, Replicate(i) PROVE Grown
  BY <1>17 DEF Replicate
<1>18. CASE UNCHANGED vars
  BY <1>18 DEF vars
<1> QED
  BY <1>1, <1>2, <1>3, <1>5, <1>7, <1>9, <1>10, <1>11, <1>12, <1>17, <1>18 DEF Next, Step, Quiet

\* The request that takes a step is where the step says.
LEMMA StageStep ==
    ASSUME Shape, Shape', Underway, NEW r \in Requests, Step(r)
    PROVE  Stage(pc'[r], op'[r], batch'[r])
<1> USE DEF dbVars, memVars, reqVars, own
<1>s. Stage(pc[r], op[r], batch[r])
  BY DEF Underway
<1>e. Stage("idle", Nothing, NoRows)
  BY DEF Stage, Nothing, NoRows
<1>n. \A i \in Ids : NoRows[i] = 0
  BY DEF NoRows
<1>0. ASSUME NEW a, End(r, a) PROVE Stage(pc'[r], op'[r], batch'[r])
  BY <1>0, <1>e, EndLocal
<1>1. ASSUME NEW i \in Ids, StartLoad(r, i) PROVE Stage(pc'[r], op'[r], batch'[r])
  <2>1. pc'[r] = "read" /\ op'[r] = [kind |-> "load", ids |-> {i}] /\ batch'[r] = NoRows
    BY <1>1, BeginLocal DEF StartLoad
  <2> QED
    BY <2>1, <1>n DEF Stage
<1>2. ASSUME NEW k \in Kinds, NEW S \in (SUBSET Ids) \ {{}}, StartWrite(r, k, S)
      PROVE  Stage(pc'[r], op'[r], batch'[r])
  <2>1. pc'[r] = "write" /\ op'[r] = [kind |-> k, ids |-> S] /\ batch'[r] = NoRows
    BY <1>2, BeginLocal DEF StartWrite
  <2>2. k \in Writes /\ (k \notin Bulk => \E i \in Ids : S = {i})
    BY <1>2 DEF StartWrite
  <2> DEFINE o == [kind |-> k, ids |-> S]
  <2>3. o.kind = k /\ o.ids = S
    BY DEF o
  <2>4. Stage("write", o, NoRows)
    <3> HIDE DEF o
    <3>1. S # {}
      OBVIOUS
    <3> QED
      BY <2>2, <2>3, <3>1, <1>n DEF Stage
  <2> QED
    BY <2>1, <2>4
<1>3. CASE List(r)
  BY <1>3, <1>s DEF List
<1>4. CASE Hit(r) \/ ReadFails(r) \/ WriteFails(r) \/ HooksFail(r) \/ Publish(r)
  BY <1>4, <1>0 DEF Hit, ReturnOrNot, Return, ReadFails, WriteFails, HooksFail, Publish
<1>5. CASE Read(r)
  <2>1. PICK i \in op[r].ids, v \in 0..MaxVersion :
           IF v = 0 THEN Return(r, i, 0)
           ELSE /\ batch' = [batch EXCEPT ![r][i] = v]
                /\ pc' = [pc EXCEPT ![r] = "fill"]
                /\ UNCHANGED <<op, answer>>
    BY <1>5 DEF Read
  <2>2. CASE v = 0
    BY <2>1, <2>2, <1>0 DEF Return
  <2>3. CASE v # 0
    <3>1. op[r].kind = "load" /\ op[r].ids = {i}
      BY <1>5, <1>s DEF Read, Stage, Bulk
    <3>2. pc'[r] = "fill" /\ op'[r] = op[r] /\ batch'[r] = [batch[r] EXCEPT ![i] = v]
      BY <2>1, <2>3 DEF Shape
    <3>3. batch[r] \in [Ids -> Versions]
      BY DEF Shape
    <3> QED
      BY <1>s, <2>3, <3>1, <3>2, <3>3 DEF Stage, Bulk
  <2> QED
    BY <2>2, <2>3
<1>7. CASE FillRead(r)
  BY <1>7, <1>0 DEF FillRead, ReturnOrNot, Return
<1>9. CASE Write(r)
  <2>1. CASE End(r, Told("error"))
    BY <2>1, <1>0
  <2>2. CASE ~End(r, Told("error"))
    <3>1. /\ op'[r] = op[r] /\ batch'[r] = Result(r)
          /\ pc'[r] = CASE op[r].kind \in Deletes -> "drop"
                      [] op[r].kind \in {"create", "update"} -> "fill"
                      [] OTHER -> "rows"
      BY <1>9, <2>2 DEF Write, Shape
    <3>2. op[r].kind \in Writes
      BY <1>9, <1>s DEF Write, Stage
    <3>3. \A i \in Ids : batch'[r][i] # 0 => i \in Matching(r) /\ Matching(r) \subseteq op[r].ids
      BY <3>1 DEF Result, Matching
    <3>4. CASE op[r].kind \in Deletes
      <4>1. pc'[r] = "drop"
        BY <3>1, <3>4 DEF Deletes
      <4>2. \A i \in Ids : batch'[r][i] = 0
        BY <3>1, <3>4 DEF Result
      <4>3. op[r].ids # {} /\ (op[r].kind \notin Bulk => \E i \in Ids : op[r].ids = {i})
        BY <1>9, <1>s DEF Write, Stage
      <4>4. Stage("drop", op[r], batch'[r])
        BY <3>2, <3>4, <4>2, <4>3 DEF Stage
      <4> QED
        BY <3>1, <4>1, <4>4
    <3>5. CASE op[r].kind \in {"create", "update"}
      <4>1. pc'[r] = "fill"
        BY <3>1, <3>5 DEF Deletes
      <4>2. PICK i \in Ids : op[r].ids = {i}
        BY <1>s, <1>9, <3>5 DEF Stage, Write, Bulk
      <4>3. Matching(r) # {} /\ Matching(r) \subseteq {i}
        BY <1>9, <3>5, <4>2 DEF Write, Inserts, Matching
      <4>4. Result(r)[i] # 0
        BY <4>3, <3>5, <4>2 DEF Result, Shape, Rows, Deletes
      <4> QED
        BY <3>1, <3>3, <3>5, <4>1, <4>2, <4>4, <1>s, <1>9 DEF Stage, Write, Bulk
    <3>6. CASE op[r].kind \in {"bulkCreate", "bulkUpdate"}
      <4>1. pc'[r] = "rows"
        BY <3>1, <3>6 DEF Deletes
      <4> QED
        BY <3>1, <3>3, <3>6, <4>1, <1>s, <1>9 DEF Stage, Write
    <3> QED
      BY <3>2, <3>4, <3>5, <3>6 DEF Writes, Inserts, Updates
  <2> QED
    BY <2>1, <2>2
<1>10. CASE WriteDoomed(r)
  <2>1. op'[r] = op[r] /\ batch'[r] = Result(r) /\ pc'[r] = "doomed"
    BY <1>10 DEF WriteDoomed, Shape
  <2>2. op[r].kind \in {"bulkCreate", "bulkUpdate"}
    BY <1>10 DEF WriteDoomed, Bulk, Deletes
  <2>3. \A i \in Ids : batch'[r][i] # 0 => i \in op[r].ids
    BY <2>1 DEF Result, Matching
  <2> QED
    BY <1>s, <1>10, <2>1, <2>2, <2>3 DEF Stage, WriteDoomed
<1>11. CASE NextRow(r)
  <2>1. PICK i \in Ids : batch' = [batch EXCEPT ![r][i] = 0]
    BY <1>11 DEF NextRow
  <2>2. batch \in [Requests -> [Ids -> Versions]]
    BY DEF Shape
  <2>3. \A k \in Ids : batch'[r][k] # 0 => batch[r][k] # 0
    BY <2>1, <2>2
  <2> QED
    BY <1>s, <1>11, <2>3 DEF Stage, NextRow
<1>12. CASE EndRows(r)
  BY <1>12, <1>0 DEF EndRows
<1>13. CASE FillWrite(r)
  <2>1. pc'[r] = "publish" /\ op'[r] = op[r] /\ batch'[r] = batch[r]
    BY <1>13 DEF FillWrite, Shape
  <2> QED
    BY <1>s, <1>13, <2>1 DEF Stage, FillWrite
<1>14. CASE Drop(r)
  <2>1. PICK i \in op[r].ids :
           \/ /\ op[r].kind = "delete"
              /\ pc' = [pc EXCEPT ![r] = "publish"] /\ UNCHANGED <<op, batch, answer>>
           \/ /\ op[r].kind = "bulkDelete" /\ op[r].ids # {i}
              /\ op' = [op EXCEPT ![r].ids = @ \ {i}] /\ UNCHANGED <<pc, batch, answer>>
           \/ End(r, Told("ok"))
    BY <1>14 DEF Drop
  <2>2. CASE op[r].kind = "delete" /\ pc' = [pc EXCEPT ![r] = "publish"] /\ UNCHANGED <<op, batch, answer>>
    <3>1. pc'[r] = "publish" /\ op'[r] = op[r] /\ batch'[r] = batch[r]
      BY <2>2 DEF Shape
    <3> QED
      BY <1>s, <1>14, <2>2, <3>1 DEF Stage, Drop
  <2>3. CASE /\ op[r].kind = "bulkDelete" /\ op[r].ids # {i}
             /\ op' = [op EXCEPT ![r].ids = @ \ {i}] /\ UNCHANGED <<pc, batch, answer>>
    <3>1. op'[r].kind = "bulkDelete" /\ op'[r].ids = op[r].ids \ {i}
      BY <2>3 DEF Shape
    <3> QED
      BY <1>s, <1>14, <2>1, <2>3, <3>1 DEF Stage, Drop, Bulk, Writes, Deletes
  <2> QED
    BY <2>1, <2>2, <2>3, <1>0
<1> QED
  BY <1>1, <1>2, <1>3, <1>4, <1>5, <1>7, <1>9, <1>10, <1>11, <1>12, <1>13, <1>14 DEF Step

LEMMA UnderwayStep ==
    ASSUME Shape, Shape', Underway, [Next]_vars PROVE Underway'
<1>1. Grown
  BY Growth
<1>2. ASSUME NEW q \in Requests PROVE Stage(pc'[q], op'[q], batch'[q])
  <2>1. Stage(pc[q], op[q], batch[q])
    BY DEF Underway
  <2>2. ASSUME NEW r \in Requests, Step(r) PROVE Stage(pc'[q], op'[q], batch'[q])
    <3>1. CASE q = r
      BY <2>2, <3>1, StageStep
    <3>2. CASE q # r
      BY <2>1, <2>2, <3>2, Locality DEF Same
    <3> QED
      BY <3>1, <3>2
  <2>3. CASE UNCHANGED <<pc, op, batch>>
    BY <2>1, <2>3
  <2> QED
    BY <2>2, <2>3 DEF Next, Replicate, reqVars, Quiet, vars
<1> QED
  BY <1>1, <1>2 DEF Grown, Underway

LEMMA UnderwayInit == Init => Underway
<1> SUFFICES ASSUME Init PROVE Underway
  OBVIOUS
<1>1. \A r \in Requests : Stage(pc[r], op[r], batch[r])
  <2>1. Stage("idle", Nothing, NoRows)
    BY DEF Stage, Nothing, NoRows
  <2>2. \A r \in Requests : pc[r] = "idle" /\ op[r] = Nothing /\ batch[r] = NoRows
    BY DEF Init
  <2> QED
    BY <2>1, <2>2
<1>2. committed \subseteq Ids \X Versions /\ disturbed = {} /\ doomed = {}
  <2>1. \A i \in Ids : row[i] \in Versions
    BY BoundsAssumption DEF Init, Versions
  <2> QED
    BY <2>1, Numbers DEF Init
<1> QED
  BY <1>1, <1>2 DEF Underway

Types == Shape /\ Underway

LEMMA TypesHold == Spec => []Types
<1>1. Init => Types
  BY ShapeInit, UnderwayInit DEF Types
<1>2. Types /\ [Next]_vars => Types'
  BY ShapeStep, UnderwayStep DEF Types
<1> QED
  BY <1>1, <1>2, PTL DEF Spec

\* Every variable keeps its type, and a request is idle exactly when it works
\* on no id.
THEOREM TypeCorrect == Spec => []TypeOK
<1>1. Types => TypeOK
  BY DEF Types, Shape, Underway, Stage, TypeOK, Versions, Rows, Least, PCs
<1> QED
  BY <1>1, TypesHold, PTL

-----------------------------------------------------------------------------
(* Only committed rows.  A row may travel from the table or its replica    *)
(* over what a request holds to the cache, a loader, an event or an        *)
(* answer, so all of these are vouched for together.                       *)

Real(C, D, f) == \A i \in Ids \ D : f[i] # None => <<i, f[i]>> \in C
Truthful(C, D, a) == a.is = "record" /\ a.id \notin D => <<a.id, a.v>> \in C

Vouched(C, D, l, b, a) == Real(C, D, l) /\ Real(C, D, b) /\ Truthful(C, D, a)

Held ==
    /\ Real(committed, {}, NoRows) /\ Real(committed, {}, row) /\ Real(committed, {}, replica)
    /\ Real(committed, doomed, cache) /\ Real(committed, doomed, event)
    /\ \A r \in Requests : Vouched(committed, doomed, loader[r], batch[r], answer[r])

LEMMA HeldInit == Init => Held
<1> SUFFICES ASSUME Init PROVE Held
  OBVIOUS
<1>1. /\ Real(committed, {}, NoRows) /\ Real(committed, {}, row) /\ Real(committed, {}, replica)
      /\ Real(committed, doomed, cache) /\ Real(committed, doomed, event)
  BY DEF Init, Real, NoRows
<1>2. ASSUME NEW r \in Requests
      PROVE  Vouched(committed, doomed, loader[r], batch[r], answer[r])
  <2>1. Real(committed, doomed, loader[r]) /\ Real(committed, doomed, batch[r])
    BY <1>1 DEF Init, Real, NoRows
  <2>2. answer[r].is # "record"
    BY NoneAssumption DEF Init, Told
  <2> QED
    BY <2>1, <2>2 DEF Vouched, Truthful
<1> QED
  BY <1>1, <1>2 DEF Held

LEMMA RealGrows ==
    ASSUME NEW C, NEW D, NEW f, Real(C, D, f), NEW C2, NEW D2, C \subseteq C2, D \subseteq D2
    PROVE  Real(C2, D2, f)
  BY DEF Real

LEMMA RealPut ==
    ASSUME NEW C, NEW D, NEW f, Real(C, D, f), NEW i \in Ids, NEW v,
           v # None /\ i \notin D => <<i, v>> \in C,
           NEW g, \A j \in Ids : g[j] = IF j = i THEN v ELSE f[j]
    PROVE  Real(C, D, g)
  BY DEF Real

\* What is vouched for at every step.
Kept(r) ==
    /\ Real(committed', {}, row')
    /\ Real(committed', doomed', cache') /\ Real(committed', doomed', event')
    /\ Vouched(committed', doomed', loader'[r], batch'[r], answer'[r])

LEMMA StoreReal ==
    ASSUME Shape, Held, NEW i \in Ids, NEW v, Store(i, v),
           v # None /\ i \notin doomed => <<i, v>> \in committed
    PROVE  Real(committed, doomed, cache')
<1>1. Real(committed, doomed, cache) /\ cache \in [Ids -> Rows \cup {None}]
  BY DEF Held, Shape
<1>2. CASE cache' = [cache EXCEPT ![i] = v]
  <2>1. \A j \in Ids : cache'[j] = IF j = i THEN v ELSE cache[j]
    BY <1>1, <1>2
  <2> QED
    BY <1>1, <2>1, RealPut
<1>3. CASE cache' = cache
  BY <1>1, <1>3
<1> QED
  BY <1>2, <1>3 DEF Store

LEMMA EndVouched ==
    ASSUME Shape, Held, NEW r \in Requests, NEW a, End(r, a),
           Truthful(committed, doomed, a), Real(committed, doomed, loader'[r])
    PROVE  Vouched(committed, doomed, loader'[r], batch'[r], answer'[r])
<1>1. batch'[r] = NoRows /\ answer'[r] = a
  BY EndLocal
<1>2. Real(committed, doomed, NoRows)
  BY RealGrows DEF Held
<1> QED
  BY <1>1, <1>2 DEF Vouched

\* A step that commits and rolls back nothing.
LEMMA KeptInMemory ==
    ASSUME Held, NEW r \in Requests, UNCHANGED <<row, committed, doomed>>,
           Real(committed, doomed, cache'), Real(committed, doomed, event'),
           Vouched(committed, doomed, loader'[r], batch'[r], answer'[r])
    PROVE  Kept(r)
  BY DEF Kept, Held

LEMMA HeldReads ==
    ASSUME Shape, Underway, Held, NEW r \in Requests,
           (\E i \in Ids : StartLoad(r, i)) \/ Hit(r) \/ Read(r) \/ FillRead(r) \/ List(r)
    PROVE  Kept(r)
<1> USE DEF dbVars, memVars, reqVars, own
<1>h. /\ Real(committed, doomed, NoRows) /\ Real(committed, doomed, row)
      /\ Real(committed, doomed, replica)
      /\ Real(committed, doomed, cache) /\ Real(committed, doomed, event)
      /\ Real(committed, doomed, loader[r]) /\ Real(committed, doomed, batch[r])
      /\ Truthful(committed, doomed, answer[r])
  BY RealGrows DEF Held, Vouched
<1>l. loader \in [Requests -> [Ids -> Rows \cup {None}]] /\ batch \in [Requests -> [Ids -> Versions]]
  BY DEF Shape
<1>t. \A what \in {None, "ok", "error"} : Truthful(committed, doomed, Told(what))
  BY NoneAssumption DEF Truthful, Told
<1>r. ASSUME NEW i, NEW v, i \notin doomed => <<i, v>> \in committed, ReturnOrNot(r, i, v),
             Real(committed, doomed, loader'[r])
      PROVE  Vouched(committed, doomed, loader'[r], batch'[r], answer'[r])
  <2>1. Truthful(committed, doomed, [is |-> "record", id |-> i, v |-> v])
    BY <1>r DEF Truthful
  <2> QED
    BY <1>r, <1>t, <2>1, EndVouched DEF ReturnOrNot, Return
<1>1. ASSUME NEW i \in Ids, StartLoad(r, i) PROVE Kept(r)
  <2>1. batch'[r] = NoRows /\ answer'[r] = Told(None)
    BY <1>1, BeginLocal DEF StartLoad
  <2>2. PICK known \in {loader[r][i], cache[i]} : loader' = [loader EXCEPT ![r][i] = known]
    BY <1>1 DEF StartLoad
  <2>3. Real(committed, doomed, loader'[r])
    <3>1. \A j \in Ids : loader'[r][j] = IF j = i THEN known ELSE loader[r][j]
      BY <2>2, <1>l
    <3>2. known # None /\ i \notin doomed => <<i, known>> \in committed
      BY <1>h DEF Real
    <3> QED
      BY <1>h, <3>1, <3>2, RealPut
  <2> QED
    BY <1>1, <1>h, <1>t, <2>1, <2>3, KeptInMemory DEF StartLoad, Vouched
<1>2. CASE Hit(r)
  <2>1. PICK i \in op[r].ids : loader[r][i] # None /\ ReturnOrNot(r, i, loader[r][i])
    BY <1>2 DEF Hit
  <2>2. i \notin doomed => <<i, loader[r][i]>> \in committed
    BY <1>h, <2>1 DEF Real, Shape
  <2>3. Vouched(committed, doomed, loader'[r], batch'[r], answer'[r])
    BY <1>2, <1>h, <1>r, <2>1, <2>2 DEF Hit
  <2> QED
    BY <1>2, <1>h, <2>3, KeptInMemory DEF Hit
<1>3. CASE Read(r)
  <2>1. PICK i \in op[r].ids, v \in 0..MaxVersion :
           /\ v \in {row[i], replica[i]}
           /\ IF v = 0 THEN Return(r, i, 0)
              ELSE /\ batch' = [batch EXCEPT ![r][i] = v]
                   /\ UNCHANGED <<op, answer>>
    BY <1>3 DEF Read
  <2>i. i \in Ids
    BY DEF Shape
  <2>2. <<i, v>> \in committed
    <3>1. v # None
      BY <2>1, <2>i, Numbers DEF Shape
    <3> QED
      BY <2>1, <2>i, <3>1 DEF Held, Real
  <2>3. Vouched(committed, doomed, loader'[r], batch'[r], answer'[r])
    <3>1. loader' = loader
      BY <1>3 DEF Read
    <3>2. CASE v = 0
      BY <1>h, <1>r, <2>1, <2>2, <3>1, <3>2 DEF ReturnOrNot
    <3>3. CASE v # 0
      <4>1. (\A j \in Ids : batch'[r][j] = IF j = i THEN v ELSE batch[r][j]) /\ answer' = answer
        BY <2>1, <3>3, <1>l
      <4>2. Real(committed, doomed, batch'[r])
        BY <1>h, <2>i, <2>2, <4>1, RealPut
      <4> QED
        BY <1>h, <3>1, <4>1, <4>2 DEF Vouched
    <3> QED
      BY <3>2, <3>3
  <2> QED
    BY <1>3, <1>h, <2>3, KeptInMemory DEF Read
<1>4. CASE FillRead(r)
  <2>1. PICK i \in op[r].ids : /\ Store(i, batch[r][i])
                               /\ loader' = [loader EXCEPT ![r][i] = batch[r][i]]
                               /\ ReturnOrNot(r, i, batch[r][i])
    BY <1>4 DEF FillRead, Scanned
  <2>2. i \in Ids /\ batch[r][i] # None
    BY Numbers DEF Shape
  <2>3. i \notin doomed => <<i, batch[r][i]>> \in committed
    BY <1>h, <2>2 DEF Real
  <2>4. Real(committed, doomed, cache')
    BY <2>1, <2>2, <2>3, StoreReal
  <2>5. Real(committed, doomed, loader'[r])
    <3>1. \A j \in Ids : loader'[r][j] = IF j = i THEN batch[r][i] ELSE loader[r][j]
      BY <2>1, <2>2, <1>l
    <3> QED
      BY <1>h, <2>2, <2>3, <3>1, RealPut
  <2>6. Vouched(committed, doomed, loader'[r], batch'[r], answer'[r])
    BY <1>r, <2>1, <2>3, <2>5
  <2> QED
    BY <1>4, <1>h, <2>4, <2>6, KeptInMemory DEF FillRead
<1>5. CASE List(r)
  <2>1. PICK seen \in {row} \cup (IF "oldList" \in Faults THEN {replica} ELSE {}) :
           \E primed \in SUBSET {i \in Ids : seen[i] # 0} :
            loader' = [loader EXCEPT ![r] = [i \in Ids |-> IF i \in primed THEN seen[i] ELSE @[i]]]
    BY <1>5 DEF List
  <2>2. PICK primed \in SUBSET {i \in Ids : seen[i] # 0} :
            loader' = [loader EXCEPT ![r] = [i \in Ids |-> IF i \in primed THEN seen[i] ELSE @[i]]]
    BY <2>1
  <2>3. loader'[r] = [i \in Ids |-> IF i \in primed THEN seen[i] ELSE loader[r][i]]
    BY <2>2, <1>l
  <2>4. Real(committed, doomed, seen)
    <3>1. seen = row \/ seen = replica
      OBVIOUS
    <3> QED
      BY <1>h, <3>1
  <2>5. Real(committed, doomed, loader'[r])
    BY <1>h, <2>3, <2>4 DEF Real
  <2>6. answer'[r] = Told(None) /\ batch' = batch
    BY <1>5 DEF List, Shape
  <2>7. Vouched(committed, doomed, loader'[r], batch'[r], answer'[r])
    BY <1>h, <1>t, <2>5, <2>6 DEF Vouched
  <2> QED
    BY <1>5, <1>h, <2>7, KeptInMemory DEF List
<1> QED
  BY <1>1, <1>2, <1>3, <1>4, <1>5

\* The rows a statement changes, and what becomes of them.
LEMMA ResultFacts ==
    ASSUME Shape, NEW r \in Requests, CanTake(r)
    PROVE  /\ Matching(r) \subseteq op[r].ids /\ op[r].ids \subseteq Ids
           /\ \A i \in Ids : /\ Result(r)[i] \in Versions
                             /\ i \notin Matching(r) => Result(r)[i] = 0
                             /\ op[r].kind \in Deletes => Result(r)[i] = 0
                             /\ op[r].kind \notin Deletes /\ i \in Matching(r)
                                    => Result(r)[i] = version + 1
  BY BoundsAssumption DEF CanTake, Takes, Matching, Result, Shape, Versions, Rows

LEMMA HeldCommit ==
    ASSUME Shape, Underway, Held, Grown, NEW r \in Requests, Write(r)
    PROVE  Kept(r)
<1> USE DEF dbVars, memVars, reqVars, own
<1>h. /\ Real(committed', {}, NoRows) /\ Real(committed', {}, row)
      /\ Real(committed', doomed', cache) /\ Real(committed', doomed', event)
      /\ Real(committed', doomed', loader[r])
  BY RealGrows DEF Held, Vouched, Grown
<1>1. \A i \in Ids : /\ Result(r)[i] # None
                     /\ i \notin Matching(r) => Result(r)[i] = 0
  BY ResultFacts, Numbers DEF Write
<1>2. \A i \in Matching(r) : <<i, Result(r)[i]>> \in committed'
  BY DEF Write, Commit
<1>3. \A i \in Ids : <<i, 0>> \in committed'
  BY <1>h, Numbers DEF Real, NoRows
<1>4. Real(committed', {}, row')
  <2>1. row' = [i \in Ids |-> IF i \in Matching(r) THEN Result(r)[i] ELSE row[i]]
    BY DEF Write, Commit
  <2> QED
    BY <2>1, <1>2, <1>h DEF Real
<1>5. UNCHANGED <<cache, event, loader>>
  BY DEF Write
<1>6. CASE End(r, Told("error"))
  <2>1. batch'[r] = NoRows /\ answer'[r] = Told("error")
    BY <1>6, EndLocal
  <2>2. Vouched(committed', doomed', loader'[r], batch'[r], answer'[r])
    BY <1>h, <1>5, <2>1, NoneAssumption DEF Vouched, Truthful, Told, Real
  <2> QED
    BY <1>h, <1>4, <1>5, <2>2 DEF Kept
<1>7. CASE ~End(r, Told("error"))
  <2>1. batch' = [batch EXCEPT ![r] = Result(r)] /\ answer' = answer
    BY <1>7 DEF Write
  <2>2. batch'[r] = Result(r)
    BY <2>1 DEF Shape
  <2>3. Real(committed', doomed', batch'[r])
    BY <1>1, <1>2, <1>3, <2>2 DEF Real
  <2>4. Truthful(committed', doomed', answer'[r])
    BY <2>1 DEF Held, Vouched, Grown, Truthful
  <2>5. Vouched(committed', doomed', loader'[r], batch'[r], answer'[r])
    BY <1>h, <1>5, <2>3, <2>4 DEF Vouched
  <2> QED
    BY <1>h, <1>4, <1>5, <2>5 DEF Kept
<1> QED
  BY <1>6, <1>7

LEMMA StepKeeps ==
    ASSUME Shape, Underway, Held, Grown, NEW r \in Requests, Step(r)
    PROVE  Kept(r)
<1> USE DEF dbVars, memVars, reqVars, own
<1>h. /\ Real(committed, doomed, NoRows)
      /\ Real(committed, doomed, cache) /\ Real(committed, doomed, event)
      /\ Real(committed, doomed, loader[r]) /\ Real(committed, doomed, batch[r])
      /\ Truthful(committed, doomed, answer[r])
  BY RealGrows DEF Held, Vouched
<1>l. loader \in [Requests -> [Ids -> Rows \cup {None}]] /\ batch \in [Requests -> [Ids -> Versions]]
  BY DEF Shape
<1>t. \A what \in {None, "ok", "error"} : Truthful(committed, doomed, Told(what))
  BY NoneAssumption DEF Truthful, Told
<1>b. ASSUME NEW i \in Ids
      PROVE  batch[r][i] # None /\ (i \notin doomed => <<i, batch[r][i]>> \in committed)
  BY <1>h, <1>l, Numbers DEF Real
<1>e. ASSUME NEW what \in {"ok", "error"}, End(r, Told(what)), loader' = loader
      PROVE  Vouched(committed, doomed, loader'[r], batch'[r], answer'[r])
  BY <1>e, <1>h, <1>t, EndVouched
<1>s. ASSUME UNCHANGED <<loader, answer>>, \A j \in Ids : batch'[r][j] \in {0, batch[r][j]}
      PROVE  Vouched(committed, doomed, loader'[r], batch'[r], answer'[r])
  <2>1. Real(committed, doomed, batch'[r])
    BY <1>s, <1>h DEF Real, NoRows
  <2> QED
    BY <1>s, <1>h, <2>1 DEF Vouched
<1>1. ASSUME NEW k \in Kinds, NEW S \in (SUBSET Ids) \ {{}}, StartWrite(r, k, S) PROVE Kept(r)
  <2>1. batch'[r] = NoRows /\ answer'[r] = Told(None)
    BY <1>1, BeginLocal DEF StartWrite
  <2>2. Vouched(committed, doomed, loader'[r], batch'[r], answer'[r])
    BY <1>1, <1>h, <1>t, <2>1 DEF StartWrite, Vouched
  <2> QED
    BY <1>1, <1>h, <2>2, KeptInMemory DEF StartWrite
<1>2. CASE ReadFails(r) \/ WriteFails(r) \/ HooksFail(r) \/ EndRows(r)
  <2>1. Vouched(committed, doomed, loader'[r], batch'[r], answer'[r])
    BY <1>2, <1>e DEF ReadFails, WriteFails, HooksFail, EndRows
  <2> QED
    BY <1>2, <1>h, <2>1, KeptInMemory DEF ReadFails, WriteFails, HooksFail, EndRows
<1>3. CASE WriteDoomed(r)
  <2>1. batch'[r] = Result(r) /\ UNCHANGED <<loader, answer>>
    BY <1>3 DEF WriteDoomed, Shape
  <2>2. \A i \in Ids \ doomed' : Result(r)[i] = 0
    BY <1>3, ResultFacts DEF WriteDoomed
  <2>3. Real(committed', doomed', batch'[r])
    BY <1>3, <2>1, <2>2, <1>h, RealGrows DEF Real, NoRows, Grown, WriteDoomed
  <2>4. /\ Real(committed', doomed', cache) /\ Real(committed', doomed', event)
        /\ Real(committed', doomed', loader[r])
    BY <1>h, RealGrows DEF Grown
  <2>5. Truthful(committed', doomed', answer[r])
    BY <1>h DEF Truthful, Grown
  <2> QED
    BY <1>3, <2>1, <2>3, <2>4, <2>5 DEF WriteDoomed, Kept, Vouched, Held
<1>4. CASE NextRow(r)
  <2>1. PICK i \in Ids : Store(i, batch[r][i]) /\ batch' = [batch EXCEPT ![r][i] = 0]
    BY <1>4 DEF NextRow, Scanned
  <2>2. Real(committed, doomed, cache')
    BY <2>1, <1>b, StoreReal
  <2>3. \A j \in Ids : batch'[r][j] \in {0, batch[r][j]}
    BY <2>1, <1>l
  <2>4. Vouched(committed, doomed, loader'[r], batch'[r], answer'[r])
    BY <1>4, <1>s, <2>3 DEF NextRow
  <2> QED
    BY <1>4, <1>h, <2>2, <2>4, KeptInMemory DEF NextRow
<1>5. CASE FillWrite(r)
  <2>1. PICK i \in op[r].ids : Store(i, batch[r][i])
    BY <1>5 DEF FillWrite, Scanned
  <2>2. Real(committed, doomed, cache')
    BY <2>1, <1>b, StoreReal DEF Shape
  <2>3. Vouched(committed, doomed, loader'[r], batch'[r], answer'[r])
    BY <1>5, <1>s DEF FillWrite
  <2> QED
    BY <1>5, <1>h, <2>2, <2>3, KeptInMemory DEF FillWrite
<1>6. CASE Drop(r)
  <2>1. PICK i \in op[r].ids : Store(i, None) /\ (UNCHANGED <<batch, answer>> \/ End(r, Told("ok")))
    BY <1>6 DEF Drop
  <2>2. Real(committed, doomed, cache')
    BY <2>1, StoreReal DEF Shape
  <2>3. Vouched(committed, doomed, loader'[r], batch'[r], answer'[r])
    <3>1. loader' = loader
      BY <1>6 DEF Drop
    <3> QED
      BY <2>1, <3>1, <1>s, <1>e
  <2> QED
    BY <1>6, <1>h, <2>2, <2>3, KeptInMemory DEF Drop
<1>7. CASE Publish(r)
  <2>1. PICK i \in op[r].ids :
           /\ event' = [event EXCEPT ![i] = batch[r][i]]
           /\ IF op[r].kind = "delete"
              THEN End(r, Told("ok")) /\ loader' = loader
              ELSE /\ Return(r, i, batch[r][i])
                   /\ loader' = [loader EXCEPT ![r][i] = batch[r][i]]
    BY <1>7 DEF Publish, Scanned
  <2>2. i \in Ids
    BY DEF Shape
  <2>3. Real(committed, doomed, event')
    <3>1. \A j \in Ids : event'[j] = IF j = i THEN batch[r][i] ELSE event[j]
      BY <2>1, <2>2 DEF Shape
    <3> QED
      BY <1>h, <1>b, <2>2, <3>1, RealPut
  <2>4. Vouched(committed, doomed, loader'[r], batch'[r], answer'[r])
    <3>1. CASE op[r].kind = "delete"
      BY <1>e, <2>1, <3>1
    <3>2. CASE op[r].kind # "delete"
      <4>1. End(r, [is |-> "record", id |-> i, v |-> batch[r][i]])
        BY <2>1, <3>2 DEF Return
      <4>2. Truthful(committed, doomed, [is |-> "record", id |-> i, v |-> batch[r][i]])
        BY <1>b, <2>2 DEF Truthful
      <4>3. \A j \in Ids : loader'[r][j] = IF j = i THEN batch[r][i] ELSE loader[r][j]
        BY <1>l, <2>1, <2>2, <3>2
      <4>4. Real(committed, doomed, loader'[r])
        BY <1>h, <1>b, <2>2, <4>3, RealPut
      <4> QED
        BY <4>1, <4>2, <4>4, EndVouched
    <3> QED
      BY <3>1, <3>2
  <2> QED
    BY <1>7, <1>h, <2>3, <2>4, KeptInMemory DEF Publish
<1> QED
  BY <1>1, <1>2, <1>3, <1>4, <1>5, <1>6, <1>7, HeldReads, HeldCommit DEF Step

LEMMA HeldStep ==
    ASSUME Shape, Underway, Held, [Next]_vars PROVE Held'
<1> USE DEF dbVars, memVars, reqVars, own
<1>g. Grown
  BY Growth
<1>1. ASSUME NEW r \in Requests, Step(r) PROVE Held'
  <2>1. Kept(r)
    BY <1>1, <1>g, StepKeeps
  <2>2. ASSUME NEW q \in Requests \ {r}
        PROVE  Vouched(committed', doomed', loader'[q], batch'[q], answer'[q])
    <3>1. Same(q)
      BY <1>1, Locality
    <3>2. Vouched(committed, doomed, loader[q], batch[q], answer[q])
      BY DEF Held
    <3>3. Real(committed', doomed', loader[q]) /\ Real(committed', doomed', batch[q])
      BY <1>g, <3>2, RealGrows DEF Vouched, Grown
    <3>4. Truthful(committed', doomed', answer[q])
      BY <1>g, <3>2 DEF Vouched, Grown, Truthful
    <3> QED
      BY <3>1, <3>3, <3>4 DEF Vouched, Same
  <2>3. Real(committed', {}, NoRows) /\ Real(committed', {}, replica)
    BY <1>g, RealGrows DEF Held, Grown
  <2>4. replica' = replica
    BY <1>1 DEF Step, StartLoad, StartWrite, List, Hit, Read, ReadFails, FillRead, WriteFails,
                Write, Commit, WriteDoomed, NextRow, EndRows, FillWrite, Drop, HooksFail, Publish
  <2> QED
    BY <2>1, <2>2, <2>3, <2>4 DEF Kept, Held, NoRows
<1>2. ASSUME NEW i \in Ids, Replicate(i) PROVE Held'
  <2>1. replica' = [replica EXCEPT ![i] = row[i]] /\ UNCHANGED <<row, committed, doomed, memVars, reqVars>>
    BY <1>2 DEF Replicate
  <2>2. Real(committed, {}, replica')
    <3>1. \A j \in Ids : replica'[j] = IF j = i THEN row[i] ELSE replica[j]
      BY <2>1 DEF Shape
    <3>2. Real(committed, {}, row) /\ Real(committed, {}, replica)
      BY DEF Held
    <3> QED
      BY <3>1, <3>2 DEF Real
  <2> QED
    BY <2>1, <2>2 DEF Held, NoRows
<1>3. CASE UNCHANGED vars
  BY <1>3 DEF vars, Held, NoRows
<1> QED
  BY <1>1, <1>2, <1>3 DEF Next, Quiet

\* Whatever races, lags, fails or is lost, and however many requests there are,
\* the cache, the loaders, the events and the answers hold only rows that were
\* committed, except those of rolled back bulk statements.
THEOREM OnlyCommittedRows == Spec => []CommittedOnly
<1>1. Init => Types /\ Held
  BY ShapeInit, UnderwayInit, HeldInit DEF Types
<1>2. Types /\ Held /\ [Next]_vars => (Types /\ Held)'
  BY ShapeStep, UnderwayStep, HeldStep DEF Types
<1>3. Held => CommittedOnly
  <2> SUFFICES ASSUME Held, NEW i \in Ids \ doomed, NEW v,
                      \/ v = cache[i] \/ v = event[i] \/ \E r \in Requests : v = loader[r][i]
                      \/ \E r \in Requests : /\ answer[r].is = "record" /\ answer[r].id = i
                                             /\ v = answer[r].v,
                      v # None
               PROVE  <<i, v>> \in committed
    BY DEF CommittedOnly
  <2>1. CASE v = cache[i] \/ v = event[i]
    BY <2>1 DEF Held, Real
  <2>2. ASSUME NEW r \in Requests, v = loader[r][i] PROVE <<i, v>> \in committed
    BY <2>2 DEF Held, Vouched, Real
  <2>3. ASSUME NEW r \in Requests, answer[r].is = "record", answer[r].id = i, v = answer[r].v
        PROVE  <<i, v>> \in committed
    BY <2>3 DEF Held, Vouched, Truthful
  <2> QED
    BY <2>1, <2>2, <2>3
<1> QED
  BY <1>1, <1>2, <1>3, PTL DEF Spec

-----------------------------------------------------------------------------
(* Reading one's own writes.  A row of the past is no newer than the last  *)
(* version given out, nor than the row itself where there is one; the      *)
(* loader holds what the request wrote, or something later.                *)

Past(v, newest, current) == v <= newest /\ (current # 0 => v <= current)

Recalls(r) ==
    /\ \A i \in Ids : /\ Past(wrote[r][i], version, row[i])
                      /\ wrote[r][i] # 0 => loader[r][i] # None /\ wrote[r][i] <= loader[r][i]
    /\ pc[r] \in {"fill", "publish"} /\ op[r].kind \in {"create", "update"} =>
          \A i \in op[r].ids : Past(batch[r][i], version, row[i])
    /\ pc[r] = "fill" /\ op[r].kind = "load" => \A i \in op[r].ids : loader[r][i] = None
    /\ answer[r].is = "record" =>
          answer[r].id \in Ids /\ answer[r].v >= wrote[r][answer[r].id]

Recalled == \A r \in Requests : Recalls(r)

LEMMA RecalledInit == Init => Recalled
<1> SUFFICES ASSUME Init, NEW r \in Requests PROVE Recalls(r)
  BY DEF Recalled
<1>1. wrote[r] = NoRows /\ pc[r] = "idle" /\ answer[r].is # "record" /\ version = 1
  BY NoneAssumption DEF Init, Told
<1>2. \A i \in Ids : row[i] \in 0..1 /\ wrote[r][i] = 0
  BY <1>1 DEF Init, NoRows
<1>3. \A i \in Ids : Past(wrote[r][i], version, row[i])
  BY <1>1, <1>2 DEF Past
<1> QED
  BY <1>1, <1>2, <1>3 DEF Recalls

\* Rows only grow, are deleted, or come back newer than any before.
LEMMA PastStays ==
    ASSUME Shape, [Next]_vars, NEW i \in Ids, NEW v \in Versions, Past(v, version, row[i])
    PROVE  Past(v, version', row'[i])
<1> USE DEF dbVars, memVars, reqVars, own
<1>1. ASSUME NEW r \in Requests, Write(r) PROVE Past(v, version', row'[i])
  <2>1. /\ row'[i] = IF i \in Matching(r) THEN Result(r)[i] ELSE row[i]
        /\ version' = IF Takes(r) THEN version + 1 ELSE version
    BY <1>1 DEF Write, Commit
  <2>2. i \in Matching(r) => \/ Result(r)[i] = 0
                             \/ Result(r)[i] = version + 1 /\ Takes(r)
    BY <1>1, ResultFacts DEF Write, Takes
  <2>3. version \in Int /\ v \in Int /\ row[i] \in Int
    BY DEF Shape, Versions, Rows
  <2> QED
    BY <2>1, <2>2, <2>3 DEF Past
<1>2. ASSUME NEW r \in Requests, WriteDoomed(r) PROVE Past(v, version', row'[i])
  <2>1. version' = version + 1 /\ row' = row /\ version \in Int /\ v \in Int
    BY <1>2 DEF WriteDoomed, Shape, Versions, Rows
  <2> QED
    BY <2>1 DEF Past
<1>3. CASE UNCHANGED <<row, version>>
  BY <1>3 DEF Past
<1>4. ASSUME NEW r \in Requests, Step(r), ~Write(r), ~WriteDoomed(r)
      PROVE  UNCHANGED <<row, version>>
  BY <1>4 DEF Step, StartLoad, StartWrite, List, Hit, Read, ReadFails, FillRead, WriteFails,
              NextRow, EndRows, FillWrite, Drop, HooksFail, Publish
<1> QED
  BY <1>1, <1>2, <1>3, <1>4 DEF Next, Replicate, Quiet, vars

\* Versions are numbers.
LEMMA VersionsAreNumbers ==
    ASSUME Shape
    PROVE  /\ version \in Nat /\ \A i \in Ids : row[i] \in Nat /\ row[i] # None
           /\ \A r \in Requests, i \in Ids :
                 /\ wrote[r][i] \in Nat /\ batch[r][i] \in Nat /\ batch[r][i] # None
                 /\ loader[r][i] # None => loader[r][i] \in Nat
<1>1. \A v : (v \in Versions => v \in Nat /\ v # None) /\ (v \in Rows => v \in Nat)
  BY NoneAssumption DEF Versions, Rows
<1>2. version \in Rows /\ row \in [Ids -> Versions]
  BY DEF Shape
<1>3. /\ wrote \in [Requests -> [Ids -> Versions]] /\ batch \in [Requests -> [Ids -> Versions]]
      /\ loader \in [Requests -> [Ids -> Rows \cup {None}]]
  BY DEF Shape
<1> QED
  BY <1>1, <1>2, <1>3

\* A step of another request.
LEMMA RecallsStay ==
    ASSUME Shape, [Next]_vars, NEW q \in Requests, Recalls(q), Same(q)
    PROVE  Recalls(q)'
<1>1. \A i \in Ids : wrote[q][i] \in Versions /\ batch[q][i] \in Versions
  BY DEF Shape
<1>2. \A i \in Ids, v \in Versions : Past(v, version, row[i]) => Past(v, version', row'[i])
  BY PastStays
<1>4. op[q].ids \subseteq Ids
  BY DEF Shape
<1> QED
  BY <1>1, <1>2, <1>4 DEF Recalls, Same

\* A request that is not about to publish, and did not just write.
LEMMA RecallsAgain ==
    ASSUME Shape, [Next]_vars, NEW r \in Requests, Recalls(r), wrote'[r] = wrote[r],
           pc'[r] \in {"fill", "publish"} => op'[r].kind \notin {"load", "create", "update"},
           \A i \in Ids : wrote[r][i] # 0 =>
               loader'[r][i] # None /\ wrote[r][i] <= loader'[r][i],
           answer'[r].is = "record" =>
               answer'[r].id \in Ids /\ answer'[r].v >= wrote[r][answer'[r].id]
    PROVE  Recalls(r)'
<1>1. \A i \in Ids : wrote[r][i] \in Versions
  BY DEF Shape
<1>2. \A i \in Ids : Past(wrote[r][i], version', row'[i])
  BY <1>1, PastStays DEF Recalls
<1> QED
  BY <1>2 DEF Recalls

LEMMA RecallsStep ==
    ASSUME Shape, Underway, [Next]_vars, NEW r \in Requests, Step(r), Recalls(r),
           "oldList" \notin Faults
    PROVE  Recalls(r)'
<1> USE DEF dbVars, memVars, reqVars, own
<1>w. /\ version \in Nat /\ \A i \in Ids : row[i] \in Nat /\ row[i] # None
      /\ \A i \in Ids : wrote[r][i] \in Nat /\ batch[r][i] \in Nat /\ batch[r][i] # None
  BY VersionsAreNumbers
<1>v. \A i \in Ids : wrote[r][i] \in Versions /\ batch[r][i] \in Versions
  BY DEF Shape
<1>l. \A i \in Ids : /\ wrote[r][i] # 0 => loader[r][i] # None /\ wrote[r][i] <= loader[r][i]
                     /\ loader[r][i] # None => loader[r][i] >= wrote[r][i]
  BY VersionsAreNumbers DEF Recalls
<1>a. answer[r].is = "record" => answer[r].id \in Ids /\ answer[r].v >= wrote[r][answer[r].id]
  BY DEF Recalls
<1>i. op[r].ids \subseteq Ids
  BY DEF Shape
<1>e. ASSUME NEW a, End(r, a), wrote' = wrote,
             a.is = "record" => a.id \in Ids /\ a.v >= wrote[r][a.id],
             \A i \in Ids : wrote[r][i] # 0 =>
                 loader'[r][i] # None /\ wrote[r][i] <= loader'[r][i]
      PROVE  Recalls(r)'
  <2>1. pc'[r] = "idle" /\ answer'[r] = a
    BY <1>e, EndLocal
  <2> QED
    BY <1>e, <2>1, RecallsAgain
<1>f. ASSUME NEW what \in {None, "ok", "error"} PROVE Told(what).is # "record"
  BY NoneAssumption DEF Told
<1>p. ASSUME NEW i \in Ids, Past(batch[r][i], version, row[i]), UNCHANGED <<version, row>>,
             loader' = [loader EXCEPT ![r][i] = batch[r][i]],
             wrote' = [wrote EXCEPT ![r][i] = batch[r][i]],
             End(r, [is |-> "record", id |-> i, v |-> batch[r][i]])
      PROVE  Recalls(r)'
  <2>1. \A j \in Ids : /\ wrote'[r][j] = IF j = i THEN batch[r][i] ELSE wrote[r][j]
                       /\ loader'[r][j] = IF j = i THEN batch[r][i] ELSE loader[r][j]
    BY <1>p DEF Shape
  <2>2. pc'[r] = "idle" /\ answer'[r] = [is |-> "record", id |-> i, v |-> batch[r][i]]
    BY <1>p, EndLocal
  <2>3. \A j \in Ids : Past(wrote'[r][j], version', row'[j])
    BY <1>p, <2>1 DEF Recalls
  <2>4. \A j \in Ids : wrote'[r][j] # 0 => loader'[r][j] # None /\ wrote'[r][j] <= loader'[r][j]
    BY <1>l, <1>w, <2>1
  <2>5. answer'[r].id = i /\ answer'[r].v = batch[r][i]
    BY <2>2
  <2>6. answer'[r].v >= wrote'[r][i]
    BY <1>w, <2>1, <2>5
  <2> QED
    BY <2>2, <2>3, <2>4, <2>5, <2>6 DEF Recalls
<1>1. ASSUME NEW i \in Ids, StartLoad(r, i) PROVE Recalls(r)'
  <2>0. Begin(r, "load", {i}, "read") /\ wrote' = wrote
    BY <1>1 DEF StartLoad
  <2>1. pc'[r] = "read" /\ answer'[r] = Told(None)
    BY <2>0 DEF Begin, Shape
  <2>2. \A j \in Ids : loader[r][j] # None => loader'[r][j] = loader[r][j]
    BY <1>1 DEF StartLoad, Shape
  <2>3. \A j \in Ids : wrote[r][j] # 0 => loader'[r][j] # None /\ wrote[r][j] <= loader'[r][j]
    BY <1>l, <2>2
  <2> QED
    BY <1>f, <2>0, <2>1, <2>3, RecallsAgain
<1>2. ASSUME NEW k \in Kinds, NEW S \in (SUBSET Ids) \ {{}}, StartWrite(r, k, S)
      PROVE  Recalls(r)'
  <2>0. Begin(r, k, S, "write") /\ UNCHANGED <<wrote, loader>>
    BY <1>2 DEF StartWrite
  <2>1. pc'[r] = "write" /\ answer'[r] = Told(None)
    BY <2>0 DEF Begin, Shape
  <2> QED
    BY <1>f, <1>l, <2>0, <2>1, RecallsAgain
<1>3. CASE List(r)
  <2>s. PICK seen \in {row} \cup (IF "oldList" \in Faults THEN {replica} ELSE {}) :
           \E primed \in SUBSET {i \in Ids : seen[i] # 0} :
            loader' = [loader EXCEPT ![r] = [i \in Ids |-> IF i \in primed THEN seen[i] ELSE @[i]]]
    BY <1>3 DEF List
  <2>t. PICK primed \in SUBSET {i \in Ids : seen[i] # 0} :
            loader' = [loader EXCEPT ![r] = [i \in Ids |-> IF i \in primed THEN seen[i] ELSE @[i]]]
    BY <2>s
  <2>u. seen = row
    OBVIOUS
  <2>1. primed \in SUBSET {i \in Ids : row[i] # 0} /\
            loader' = [loader EXCEPT ![r] = [i \in Ids |-> IF i \in primed THEN row[i] ELSE @[i]]]
    BY <2>t, <2>u
  <2>2. loader'[r] = [i \in Ids |-> IF i \in primed THEN row[i] ELSE loader[r][i]]
    BY <2>1 DEF Shape
  <2>3. \A i \in primed : row[i] # 0 /\ row[i] # None /\ wrote[r][i] <= row[i]
    BY <1>w DEF Recalls, Past
  <2>4. \A j \in Ids : wrote[r][j] # 0 => loader'[r][j] # None /\ wrote[r][j] <= loader'[r][j]
    BY <1>l, <2>2, <2>3
  <2>5. pc'[r] = "idle" /\ answer'[r] = Told(None) /\ wrote' = wrote
    BY <1>3 DEF List, Shape
  <2> QED
    BY <1>f, <2>4, <2>5, RecallsAgain
<1>4. CASE Hit(r)
  <2>1. PICK i \in op[r].ids : loader[r][i] # None /\ ReturnOrNot(r, i, loader[r][i])
    BY <1>4 DEF Hit
  <2>2. UNCHANGED <<wrote, loader>>
    BY <1>4 DEF Hit
  <2> QED
    BY <1>e, <1>f, <1>i, <1>l, <2>1, <2>2 DEF ReturnOrNot, Return
<1>5. CASE Read(r)
  <2>1. PICK i \in op[r].ids, v \in 0..MaxVersion :
           /\ loader[r][i] = None
           /\ IF v = 0 THEN Return(r, i, 0)
              ELSE /\ pc' = [pc EXCEPT ![r] = "fill"]
                   /\ UNCHANGED <<op, answer>>
    BY <1>5 DEF Read
  <2>2. UNCHANGED <<wrote, loader>>
    BY <1>5 DEF Read
  <2>3. wrote[r][i] = 0 /\ i \in Ids
    BY <1>i, <1>l, <2>1
  <2>4. CASE v = 0
    <3> DEFINE a == [is |-> "record", id |-> i, v |-> 0]
    <3>1. End(r, a)
      BY <2>1, <2>4 DEF Return
    <3>2. a.id = i /\ a.v = 0
      OBVIOUS
    <3>3. a.id \in Ids /\ a.v >= wrote[r][a.id]
      BY <2>3, <3>2
    <3> HIDE DEF a
    <3> QED
      BY <1>e, <1>l, <2>2, <3>1, <3>3
  <2>5. CASE v # 0
    <3>1. op[r].kind = "load" /\ op[r].ids = {i}
      <4>1. Stage(pc[r], op[r], batch[r]) /\ pc[r] = "read"
        BY <1>5 DEF Read, Underway
      <4> QED
        BY <4>1 DEF Stage, Bulk
    <3>2. pc'[r] = "fill" /\ op'[r] = op[r] /\ answer'[r] = answer[r]
      BY <2>1, <2>5 DEF Shape
    <3>3. \A j \in Ids : Past(wrote[r][j], version', row'[j])
      BY <1>5 DEF Read, Recalls
    <3> QED
      BY <1>a, <1>l, <2>1, <2>2, <3>1, <3>2, <3>3 DEF Recalls
  <2> QED
    BY <2>4, <2>5
<1>6. CASE ReadFails(r) \/ WriteFails(r) \/ HooksFail(r) \/ EndRows(r)
  <2>1. UNCHANGED <<wrote, loader>> /\ \E what \in {None, "ok", "error"} : End(r, Told(what))
    BY <1>6 DEF ReadFails, WriteFails, HooksFail, EndRows, Minds
  <2> QED
    BY <1>e, <1>f, <1>l, <2>1
<1>7. CASE FillRead(r)
  <2>1. PICK i \in op[r].ids : /\ loader' = [loader EXCEPT ![r][i] = batch[r][i]]
                               /\ ReturnOrNot(r, i, batch[r][i])
    BY <1>7 DEF FillRead, Scanned
  <2>2. loader[r][i] = None
    BY <1>7 DEF FillRead, Recalls
  <2>3. wrote[r][i] = 0 /\ i \in Ids /\ batch[r][i] >= 0
    BY <1>i, <1>l, <1>w, <2>2
  <2>4. wrote' = wrote
    BY <1>7 DEF FillRead
  <2>5. \A j \in Ids : wrote[r][j] # 0 => loader'[r][j] # None /\ wrote[r][j] <= loader'[r][j]
    <3>1. \A j \in Ids \ {i} : loader'[r][j] = loader[r][j]
      BY <2>1 DEF Shape
    <3> QED
      BY <1>l, <2>3, <3>1
  <2> QED
    BY <1>e, <1>f, <2>1, <2>3, <2>4, <2>5 DEF ReturnOrNot, Return
<1>8. CASE Write(r)
  <2>1. UNCHANGED <<wrote, loader>>
    BY <1>8 DEF Write
  <2>2. CASE End(r, Told("error"))
    BY <1>e, <1>f, <1>l, <2>1, <2>2
  <2>3. CASE ~End(r, Told("error"))
    <3>1. /\ batch'[r] = Result(r) /\ answer'[r] = answer[r] /\ op'[r] = op[r]
          /\ op[r].kind \in {"create", "update"} <=> pc'[r] = "fill"
          /\ pc'[r] # "publish"
      BY <1>8, <2>3 DEF Write, Shape, Deletes
    <3>2. CASE op[r].kind \notin {"create", "update"}
      BY <1>a, <1>l, <2>1, <3>1, <3>2, RecallsAgain
    <3>3. CASE op[r].kind \in {"create", "update"}
      <4>1. \A i \in Ids : /\ i \notin Matching(r) => Result(r)[i] = 0
                           /\ i \in Matching(r) => Result(r)[i] = version + 1
        BY <1>8, <3>3, ResultFacts DEF Write, Deletes
      <4>2. \A i \in Ids : i \in Matching(r) => row'[i] = version + 1 /\ version' = version + 1
        BY <1>8, <3>3, <4>1 DEF Write, Commit, Takes, Deletes
      <4>3. \A i \in Ids : row'[i] = IF i \in Matching(r) THEN Result(r)[i] ELSE row[i]
        BY <1>8 DEF Write, Commit
      <4>4. version' \in {version, version + 1}
        BY <1>8 DEF Write, Commit
      <4>5. version' >= 0
        BY <1>w, <4>4
      <4>6. ASSUME NEW i \in Ids PROVE Past(Result(r)[i], version', row'[i])
        <5>1. CASE i \in Matching(r)
          BY <1>w, <4>1, <4>2, <5>1 DEF Past
        <5>2. CASE i \notin Matching(r)
          <6>1. Result(r)[i] = 0 /\ row'[i] = row[i] /\ row[i] >= 0
            BY <1>w, <4>1, <4>3, <5>2
          <6> QED
            BY <4>5, <6>1 DEF Past
        <5> QED
          BY <5>1, <5>2
      <4>7. \A i \in Ids : Past(wrote[r][i], version', row'[i])
        BY <1>v, PastStays DEF Recalls
      <4> QED
        BY <1>a, <1>i, <1>l, <2>1, <3>1, <3>3, <4>6, <4>7 DEF Recalls
    <3> QED
      BY <3>2, <3>3
  <2> QED
    BY <2>2, <2>3
<1>9. CASE WriteDoomed(r) \/ NextRow(r)
  <2>1. UNCHANGED <<wrote, loader, answer, op>> /\ pc'[r] \in {"rows", "doomed"}
    BY <1>9 DEF WriteDoomed, NextRow, Shape
  <2> QED
    BY <1>a, <1>l, <2>1, RecallsAgain
<1>10. CASE FillWrite(r)
  <2>1. UNCHANGED <<wrote, loader, answer, op, batch>> /\ pc[r] = "fill" /\ pc'[r] = "publish"
    BY <1>10 DEF FillWrite, Shape
  <2>2. \A i \in Ids, v \in Versions : Past(v, version, row[i]) => Past(v, version', row'[i])
    BY PastStays
  <2> QED
    BY <1>i, <1>v, <2>1, <2>2 DEF Recalls
<1>11. CASE Drop(r)
  <2>1. UNCHANGED <<wrote, loader>>
    BY <1>11 DEF Drop, Minds
  <2>2. CASE End(r, Told("ok"))
    BY <1>e, <1>f, <1>l, <2>1, <2>2
  <2>3. CASE ~End(r, Told("ok"))
    <3>1. op[r].kind \in Deletes
      BY <1>11 DEF Drop, Underway, Stage
    <3>2. answer' = answer /\ op'[r].kind = op[r].kind
      BY <1>11, <2>3 DEF Drop, Shape
    <3> QED
      BY <1>a, <1>l, <2>1, <3>1, <3>2, RecallsAgain DEF Deletes
  <2> QED
    BY <2>2, <2>3
<1>12. CASE Publish(r)
  <2>1. PICK i \in op[r].ids :
           IF op[r].kind = "delete"
           THEN End(r, Told("ok")) /\ UNCHANGED <<loader, wrote>>
           ELSE /\ Return(r, i, batch[r][i])
                /\ loader' = [loader EXCEPT ![r][i] = batch[r][i]]
                /\ wrote' = [wrote EXCEPT ![r][i] = batch[r][i]]
    BY <1>12 DEF Publish, Scanned, Minds
  <2>2. CASE op[r].kind = "delete"
    BY <1>e, <1>f, <1>l, <2>1, <2>2
  <2>3. CASE op[r].kind # "delete"
    <3>1. op[r].kind \in {"create", "update"} /\ pc[r] = "publish"
      <4>1. Stage(pc[r], op[r], batch[r]) /\ pc[r] = "publish"
        BY <1>12 DEF Publish, Underway
      <4> QED
        BY <2>3, <4>1 DEF Stage
    <3>2. i \in Ids
      BY <1>i
    <3>3. loader' = [loader EXCEPT ![r][i] = batch[r][i]] /\ wrote' = [wrote EXCEPT ![r][i] = batch[r][i]]
      BY <2>1, <2>3
    <3>4. End(r, [is |-> "record", id |-> i, v |-> batch[r][i]]) /\ UNCHANGED <<version, row>>
      BY <1>12, <2>1, <2>3 DEF Return, Publish
    <3>5. Past(batch[r][i], version, row[i])
      BY <3>1 DEF Recalls
    <3> QED
      BY <3>2, <3>3, <3>4, <3>5, <1>p
  <2> QED
    BY <2>2, <2>3
<1> QED
  BY <1>1, <1>2, <1>3, <1>4, <1>5, <1>6, <1>7, <1>8, <1>9, <1>10, <1>11, <1>12 DEF Step

LEMMA RecalledStep ==
    ASSUME Shape, Underway, Recalled, [Next]_vars, "oldList" \notin Faults PROVE Recalled'
<1> SUFFICES ASSUME NEW q \in Requests PROVE Recalls(q)'
  BY DEF Recalled
<1>q. Recalls(q)
  BY DEF Recalled
<1>1. ASSUME NEW r \in Requests, Step(r) PROVE Recalls(q)'
  <2>1. CASE q = r
    BY <1>1, <1>q, <2>1, RecallsStep
  <2>2. CASE q # r
    BY <1>1, <1>q, <2>2, Locality, RecallsStay
  <2> QED
    BY <2>1, <2>2
<1>2. CASE UNCHANGED <<memVars, reqVars>>
  BY <1>q, <1>2, RecallsStay DEF Same, memVars, reqVars, own
<1> QED
  BY <1>1, <1>2 DEF Next, Replicate, Quiet, vars

-----------------------------------------------------------------------------
(* The cache after undisturbed operations.  Of an id that was not          *)
(* disturbed at most one operation works at a time, if it is a write; the  *)
(* cache has the row of the table or none, except between the statement of *)
(* that write and the call to the store that follows it.                   *)

Current(c, w) == c = None \/ c = w

\* What an operation at p that holds b can say of the row w and of the cache c.
AtHand(p, b, w, c) ==
    /\ p # "doomed"
    /\ p \in {"fill", "publish"} => b = w
    /\ p \in {"write", "publish"} => Current(c, w)
    /\ p = "rows" => b \in {0, w} /\ (b = 0 => Current(c, w))
    /\ p = "drop" => w = 0

Settled(i) ==
    /\ \A q1, q2 \in Requests :
          q1 # q2 /\ i \in op[q1].ids /\ i \in op[q2].ids => op[q1].kind \notin Writes
    /\ \A q \in Requests : i \in op[q].ids => AtHand(pc[q], batch[q][i], row[i], cache[i])
    /\ (\A q \in Requests : i \in op[q].ids => op[q].kind \notin Writes) =>
          Current(cache[i], row[i])

Fresh == \A i \in Ids \ disturbed : Settled(i)

LEMMA FreshInit == Init => Fresh
<1> SUFFICES ASSUME Init, NEW i \in Ids PROVE Settled(i)
  BY DEF Fresh
<1>1. \A q \in Requests : op[q].ids = {}
  BY DEF Init, Nothing
<1>2. cache[i] = None
  BY DEF Init
<1> QED
  BY <1>1, <1>2 DEF Settled, Current

LEMMA Stored ==
    ASSUME Shape, NEW j \in Ids, NEW v, Store(j, v), NEW i \in Ids \ disturbed'
    PROVE  cache'[i] = IF i = j THEN v ELSE cache[i]
  BY DEF Shape, Store

\* A request changes no row and no key but those it works on.
LEMMA Untouched ==
    ASSUME Shape, Underway, NEW r \in Requests, Step(r), NEW i \in Ids \ op[r].ids
    PROVE  row'[i] = row[i] /\ cache'[i] = cache[i]
<1> USE DEF dbVars, memVars, reqVars, own
<1>0. ASSUME NEW j \in Ids \ {i}, NEW v, Store(j, v) PROVE cache'[i] = cache[i]
  BY <1>0 DEF Store, Shape
<1>i. op[r].ids \subseteq Ids
  BY DEF Shape
<1>1. ASSUME NEW j \in Ids, StartLoad(r, j) PROVE UNCHANGED <<row, cache>>
  BY <1>1 DEF StartLoad
<1>2. ASSUME NEW k \in Kinds, NEW S \in (SUBSET Ids) \ {{}}, StartWrite(r, k, S)
      PROVE  UNCHANGED <<row, cache>>
  BY <1>2 DEF StartWrite
<1>3. CASE List(r) \/ Hit(r) \/ Read(r) \/ ReadFails(r) \/ WriteFails(r) \/ WriteDoomed(r)
           \/ EndRows(r) \/ HooksFail(r) \/ Publish(r)
  BY <1>3 DEF List, Hit, Read, ReadFails, WriteFails, WriteDoomed, EndRows, HooksFail, Publish
<1>4. CASE FillRead(r) \/ FillWrite(r) \/ Drop(r)
  <2>1. row' = row /\ \E j \in op[r].ids : Store(j, None) \/ Store(j, Scanned(r, j))
    BY <1>4 DEF FillRead, FillWrite, Drop
  <2> QED
    BY <1>0, <1>i, <2>1
<1>5. CASE Write(r)
  <2>1. Matching(r) \subseteq op[r].ids
    BY DEF Matching
  <2>2. row'[i] = row[i] /\ cache' = cache
    BY <1>5, <2>1 DEF Write, Commit
  <2> QED
    BY <2>2
<1>6. CASE NextRow(r)
  <2>1. PICK j \in Ids : batch[r][j] # 0 /\ Store(j, Scanned(r, j))
    BY <1>6 DEF NextRow
  <2>2. j # i
    BY <2>1 DEF Underway, Stage
  <2> QED
    BY <1>0, <1>6, <2>1, <2>2 DEF NextRow
<1> QED
  BY <1>1, <1>2, <1>3, <1>4, <1>5, <1>6 DEF Step

\* An operation that begins undisturbed is alone on its ids, or reads with
\* others that read.
LEMMA Beginning ==
    ASSUME Shape, Underway, NEW r \in Requests, Step(r), NEW i \in Ids,
           i \notin op[r].ids, i \in op'[r].ids, i \notin disturbed'
    PROVE  /\ pc'[r] \in {"read", "write"}
           /\ \A q \in Requests : i \in op[q].ids =>
                 op'[r].kind \notin Writes /\ op[q].kind \notin Writes
<1> USE DEF dbVars, memVars, reqVars, own
<1>0. ASSUME NEW k, NEW S, NEW at \in {"read", "write"}, Begin(r, k, S, at)
      PROVE  /\ pc'[r] \in {"read", "write"}
             /\ \A q \in Requests : i \in op[q].ids =>
                   op'[r].kind \notin Writes /\ op[q].kind \notin Writes
  <2>1. pc'[r] = at /\ op'[r].kind = k /\ op'[r].ids = S
    BY <1>0 DEF Begin, Shape
  <2>2. ~ \E q \in Busy(i) : k \in Writes \/ op[q].kind \in Writes
    BY <1>0, <2>1 DEF Begin
  <2> QED
    BY <2>1, <2>2 DEF Busy
<1>1. ASSUME NEW j \in Ids, StartLoad(r, j) PROVE Begin(r, "load", {j}, "read")
  BY <1>1 DEF StartLoad
<1>2. ASSUME NEW k \in Kinds, NEW S \in (SUBSET Ids) \ {{}}, StartWrite(r, k, S)
      PROVE  Begin(r, k, S, "write")
  BY <1>2 DEF StartWrite
<1>e. ASSUME NEW a, End(r, a) PROVE op'[r].ids = {}
  BY <1>e, EndLocal DEF Nothing
<1>3. CASE List(r) \/ WriteDoomed(r) \/ NextRow(r) \/ FillWrite(r)
  BY <1>3 DEF List, WriteDoomed, NextRow, FillWrite
<1>4. CASE Hit(r) \/ ReadFails(r) \/ WriteFails(r) \/ HooksFail(r) \/ EndRows(r) \/ FillRead(r) \/ Publish(r)
  BY <1>4, <1>e DEF Hit, ReadFails, WriteFails, HooksFail, EndRows, FillRead, Publish, ReturnOrNot, Return
<1>5. CASE Read(r)
  BY <1>5, <1>e DEF Read, Return
<1>6. CASE Write(r)
  BY <1>6, <1>e DEF Write
<1>7. CASE Drop(r)
  <2>1. op'[r].ids \subseteq op[r].ids
    BY <1>7, <1>e DEF Drop, Shape
  <2> QED
    BY <2>1
<1> QED
  BY <1>0, <1>1, <1>2, <1>3, <1>4, <1>5, <1>6, <1>7 DEF Step

\* What an undisturbed operation does to an id it works on.
Handled(r, i) ==
    /\ op[r].kind \notin Writes => row'[i] = row[i] /\ Current(cache'[i], row'[i])
    /\ i \in op'[r].ids => /\ op'[r].kind = op[r].kind
                           /\ AtHand(pc'[r], batch'[r][i], row'[i], cache'[i])
    /\ i \notin op'[r].ids => Current(cache'[i], row'[i])

LEMMA HandledWrite ==
    ASSUME Shape, Underway, NEW r \in Requests, Write(r), NEW i \in op[r].ids, i \notin disturbed',
           AtHand(pc[r], batch[r][i], row[i], cache[i])
    PROVE  Handled(r, i)
<1> USE DEF dbVars, memVars, reqVars, own
<1>i. i \in Ids
  BY DEF Shape
<1>s. Stage(pc[r], op[r], batch[r]) /\ pc[r] = "write" /\ op[r].kind \in Writes
  BY DEF Underway, Write, Stage
<1>1. /\ batch' = [batch EXCEPT ![r] = Result(r)]
      /\ pc' = [pc EXCEPT ![r] =
            CASE op[r].kind \in Deletes -> "drop"
              [] op[r].kind \in {"create", "update"} -> "fill"
              [] OTHER -> "rows"]
      /\ op' = op
  BY DEF Write
<1>2. /\ batch'[r] = Result(r) /\ op'[r] = op[r]
      /\ pc'[r] = CASE op[r].kind \in Deletes -> "drop"
                    [] op[r].kind \in {"create", "update"} -> "fill"
                    [] OTHER -> "rows"
  BY <1>1 DEF Shape
<1>3. cache' = cache /\ row'[i] = IF i \in Matching(r) THEN Result(r)[i] ELSE row[i]
  BY <1>i DEF Write, Commit
<1>4. i \notin Matching(r) => Result(r)[i] = 0
  BY <1>i DEF Result
<1>5. Current(cache[i], row[i])
  BY <1>s DEF AtHand
<1>6. CASE op[r].kind \in Deletes
  <2>1. pc'[r] = "drop"
    BY <1>2, <1>6 DEF Deletes
  <2>2. row'[i] = 0
    <3>1. Result(r)[i] = 0
      BY <1>6, <1>i DEF Result
    <3>2. i \notin Matching(r) => row[i] = 0
      BY <1>6 DEF Matching, Deletes, Inserts
    <3> QED
      BY <1>3, <3>1, <3>2
  <2> QED
    BY <1>2, <1>s, <2>1, <2>2 DEF Handled, AtHand
<1>7. CASE op[r].kind \in {"create", "update"}
  <2>1. pc'[r] = "fill"
    BY <1>2, <1>7 DEF Deletes
  <2>2. op[r].ids = {i}
    BY <1>7, <1>s DEF Stage, Bulk
  <2>3. i \in Matching(r)
    BY <1>7, <2>2 DEF Write, Inserts, Matching
  <2> QED
    BY <1>2, <1>3, <1>s, <2>1, <2>3 DEF Handled, AtHand
<1>8. CASE op[r].kind \in {"bulkCreate", "bulkUpdate"}
  <2>1. pc'[r] = "rows"
    BY <1>2, <1>8 DEF Deletes
  <2>2. i \in Matching(r) => Result(r)[i] # 0
    BY <1>8, <1>i DEF Result, Deletes, Shape, Rows
  <2> QED
    BY <1>2, <1>3, <1>4, <1>5, <1>s, <2>1, <2>2 DEF Handled, AtHand
<1> QED
  BY <1>s, <1>6, <1>7, <1>8 DEF Writes, Inserts, Updates

LEMMA Handling ==
    ASSUME Shape, Underway, NEW r \in Requests, Step(r), NEW i \in op[r].ids, i \notin disturbed',
           AtHand(pc[r], batch[r][i], row[i], cache[i]),
           op[r].kind \notin Writes => Current(cache[i], row[i])
    PROVE  Handled(r, i)
<1> USE DEF dbVars, memVars, reqVars, own
<1>i. i \in Ids
  BY DEF Shape
<1>s. Stage(pc[r], op[r], batch[r]) /\ pc[r] # "idle"
  BY DEF Underway, Stage
<1>u. \A j \in op[r].ids : op[r].kind \notin Bulk => j = i
  BY <1>s DEF Stage
<1>e. ASSUME NEW a, End(r, a) PROVE op'[r].ids = {}
  BY <1>e, EndLocal DEF Nothing
<1>x. ASSUME row' = row, Current(cache'[i], row[i]), NEW a, End(r, a) PROVE Handled(r, i)
  BY <1>x, <1>e DEF Handled
<1>1. CASE (\E j \in Ids : StartLoad(r, j)) \/ List(r)
           \/ \E k \in Kinds, S \in (SUBSET Ids) \ {{}} : StartWrite(r, k, S)
  BY <1>1, <1>s DEF StartLoad, StartWrite, Begin, List
<1>2. CASE Hit(r) \/ ReadFails(r)
  <2>1. op[r].kind = "load"
    BY <1>2, <1>s DEF Hit, ReadFails, Stage
  <2>2. UNCHANGED <<row, cache>> /\ \E a : End(r, a)
    BY <1>2 DEF Hit, ReadFails, ReturnOrNot, Return
  <2> QED
    BY <1>x, <2>1, <2>2 DEF Writes, Inserts, Updates, Deletes
<1>3. CASE Read(r)
  <2>1. op[r].kind = "load" /\ Current(cache[i], row[i]) /\ UNCHANGED <<row, cache>>
    BY <1>3, <1>s DEF Read, Stage, Writes, Inserts, Updates, Deletes
  <2>2. PICK j \in op[r].ids, v \in 0..MaxVersion :
           /\ disturbed' = IF v # row[j] THEN disturbed \cup {j} ELSE disturbed
           /\ IF v = 0 THEN Return(r, j, 0)
              ELSE /\ batch' = [batch EXCEPT ![r][j] = v]
                   /\ pc' = [pc EXCEPT ![r] = "fill"]
                   /\ UNCHANGED <<op, answer>>
    BY <1>3 DEF Read
  <2>3. j = i /\ v = row[i]
    BY <1>u, <2>1, <2>2 DEF Bulk
  <2>4. CASE v = 0
    BY <1>x, <2>1, <2>2, <2>4 DEF Return
  <2>5. CASE v # 0
    <3>1. pc'[r] = "fill" /\ op'[r] = op[r] /\ batch'[r][i] = row[i]
      BY <1>i, <2>2, <2>3, <2>5 DEF Shape
    <3> QED
      BY <2>1, <3>1 DEF Handled, AtHand
  <2> QED
    BY <2>4, <2>5
<1>4. CASE FillRead(r)
  <2>1. op[r].kind = "load" /\ pc[r] = "fill" /\ row' = row
    BY <1>4 DEF FillRead
  <2>2. PICK j \in op[r].ids : Store(j, batch[r][j]) /\ \E a : End(r, a)
    BY <1>4 DEF FillRead, Scanned, ReturnOrNot, Return
  <2>3. j = i
    BY <1>u, <2>1 DEF Bulk
  <2>4. cache'[i] = row[i]
    <3>1. cache'[i] = batch[r][i]
      BY <1>i, <2>2, <2>3, Stored
    <3> QED
      BY <2>1, <3>1 DEF AtHand
  <2> QED
    BY <1>x, <2>1, <2>2, <2>4 DEF Current
<1>5. CASE WriteFails(r) \/ HooksFail(r) \/ Publish(r)
  <2>1. pc[r] \in {"write", "publish"} /\ UNCHANGED <<row, cache>> /\ \E a : End(r, a)
    BY <1>5 DEF WriteFails, HooksFail, Publish, Return
  <2> QED
    BY <1>x, <2>1 DEF AtHand
<1>6. CASE Write(r)
  BY <1>6, HandledWrite
<1>7. CASE WriteDoomed(r)
  BY <1>7 DEF WriteDoomed
<1>8. CASE NextRow(r)
  <2>1. PICK j \in Ids : batch[r][j] # 0 /\ Store(j, batch[r][j]) /\ batch' = [batch EXCEPT ![r][j] = 0]
    BY <1>8 DEF NextRow, Scanned
  <2>2. pc[r] = "rows" /\ UNCHANGED <<row, pc, op>>
    BY <1>8 DEF NextRow, AtHand
  <2>3. op[r].kind \in Writes
    BY <1>s, <2>2 DEF Stage, Writes, Inserts, Updates
  <2>4. cache'[i] = IF i = j THEN batch[r][j] ELSE cache[i]
    BY <1>i, <2>1, Stored
  <2>5. batch'[r][i] = IF i = j THEN 0 ELSE batch[r][i]
    BY <1>i, <2>1 DEF Shape
  <2>6. batch[r][i] \in {0, row[i]} /\ (batch[r][i] = 0 => Current(cache[i], row[i]))
    BY <2>2 DEF AtHand
  <2>7. Current(cache'[i], row[i]) \/ i # j
    BY <2>1, <2>4, <2>6 DEF Current
  <2>8. AtHand("rows", batch'[r][i], row[i], cache'[i])
    BY <2>4, <2>5, <2>6, <2>7 DEF AtHand
  <2> QED
    BY <2>2, <2>3, <2>8 DEF Handled
<1>9. CASE EndRows(r)
  <2>1. pc[r] = "rows" /\ batch[r] = NoRows /\ UNCHANGED <<row, cache>> /\ End(r, Told("ok"))
    BY <1>9 DEF EndRows
  <2>2. Current(cache[i], row[i])
    BY <1>i, <2>1 DEF AtHand, NoRows
  <2> QED
    BY <1>x, <2>1, <2>2
<1>10. CASE FillWrite(r)
  <2>1. op[r].kind \in {"create", "update"} /\ pc[r] = "fill" /\ row' = row /\ op' = op /\ pc'[r] = "publish"
    BY <1>10 DEF FillWrite, Shape
  <2>2. PICK j \in op[r].ids : Store(j, batch[r][j])
    BY <1>10 DEF FillWrite, Scanned
  <2>3. j = i
    BY <1>u, <2>1 DEF Bulk
  <2>4. cache'[i] = row[i]
    <3>1. cache'[i] = batch[r][i]
      BY <1>i, <2>2, <2>3, Stored
    <3> QED
      BY <2>1, <3>1 DEF AtHand
  <2>5. op[r].kind \in Writes
    BY <2>1 DEF Writes, Inserts, Updates
  <2>6. batch'[r][i] = row[i]
    BY <1>10, <2>1 DEF FillWrite, AtHand
  <2> QED
    BY <2>1, <2>4, <2>5, <2>6 DEF Handled, AtHand, Current
<1>11. CASE Drop(r)
  <2>1. row' = row /\ pc[r] = "drop" /\ row[i] = 0
    BY <1>11 DEF Drop, AtHand
  <2>2. op[r].kind \in Deletes /\ op[r].kind \in Writes
    BY <1>s, <2>1 DEF Stage, Writes
  <2>3. PICK j \in op[r].ids :
           /\ Store(j, None)
           /\ \/ /\ op[r].kind = "delete"
                 /\ pc' = [pc EXCEPT ![r] = "publish"] /\ op' = op /\ batch' = batch
              \/ /\ op[r].kind = "bulkDelete"
                 /\ op' = [op EXCEPT ![r].ids = @ \ {j}] /\ pc' = pc
              \/ op[r].ids = {j} /\ End(r, Told("ok"))
    BY <1>11 DEF Drop
  <2>4. cache'[i] = IF i = j THEN None ELSE cache[i]
    <3>1. j \in Ids
      BY DEF Shape
    <3> QED
      BY <1>i, <2>3, <3>1, Stored
  <2>5. CASE op[r].kind = "delete" /\ pc' = [pc EXCEPT ![r] = "publish"] /\ op' = op /\ batch' = batch
    <3>1. j = i /\ pc'[r] = "publish"
      BY <1>u, <2>5 DEF Bulk, Shape
    <3>2. batch'[r][i] = 0
      BY <1>i, <1>s, <2>1, <2>5 DEF Stage
    <3> QED
      BY <2>1, <2>2, <2>4, <2>5, <3>1, <3>2 DEF Handled, AtHand, Current
  <2>6. CASE op[r].kind = "bulkDelete" /\ op' = [op EXCEPT ![r].ids = @ \ {j}] /\ pc' = pc
    <3>1. op'[r].kind = op[r].kind /\ op'[r].ids = op[r].ids \ {j}
      BY <2>6 DEF Shape
    <3> QED
      BY <2>1, <2>2, <2>4, <2>6, <3>1 DEF Handled, AtHand, Current
  <2>7. CASE op[r].ids = {j} /\ End(r, Told("ok"))
    BY <1>x, <2>1, <2>4, <2>7 DEF Current
  <2> QED
    BY <2>3, <2>5, <2>6, <2>7
<1> QED
  BY <1>1, <1>2, <1>3, <1>4, <1>5, <1>6, <1>7, <1>8, <1>9, <1>10, <1>11 DEF Step

LEMMA SettledStep ==
    ASSUME Shape, Underway, NEW i \in Ids, i \notin disturbed', Settled(i),
           NEW r \in Requests, Step(r)
    PROVE  Settled(i)'
<1>o. \A q \in Requests \ {r} : pc'[q] = pc[q] /\ op'[q] = op[q] /\ batch'[q] = batch[q]
  BY Locality DEF Same
<1>1. CASE i \in op[r].ids
  <2>1. AtHand(pc[r], batch[r][i], row[i], cache[i])
    BY <1>1 DEF Settled
  <2>2. \A q \in Requests \ {r} : i \in op[q].ids =>
            op[q].kind \notin Writes /\ op[r].kind \notin Writes
    BY <1>1 DEF Settled
  <2>3. op[r].kind \notin Writes => Current(cache[i], row[i])
    BY <2>2 DEF Settled
  <2>4. Handled(r, i)
    BY <1>1, <2>1, <2>3, Handling
  <2>5. ASSUME NEW q \in Requests \ {r}, i \in op[q].ids
        PROVE  AtHand(pc'[q], batch'[q][i], row'[i], cache'[i])
    <3>1. /\ AtHand(pc[q], batch[q][i], row[i], cache[i])
          /\ row'[i] = row[i] /\ Current(cache'[i], row'[i])
      BY <2>2, <2>4, <2>5 DEF Settled, Handled
    <3> QED
      BY <1>o, <3>1 DEF AtHand
  <2>6. \A q \in Requests : i \in op'[q].ids => AtHand(pc'[q], batch'[q][i], row'[i], cache'[i])
    BY <1>o, <2>4, <2>5 DEF Handled
  <2>7. \A q1, q2 \in Requests :
           q1 # q2 /\ i \in op'[q1].ids /\ i \in op'[q2].ids => op'[q1].kind \notin Writes
    BY <1>o, <2>2, <2>4 DEF Handled, Settled
  <2>8. (\A q \in Requests : i \in op'[q].ids => op'[q].kind \notin Writes) =>
            Current(cache'[i], row'[i])
    BY <2>4 DEF Handled
  <2> QED
    BY <2>6, <2>7, <2>8 DEF Settled
<1>2. CASE i \notin op[r].ids
  <2>1. row'[i] = row[i] /\ cache'[i] = cache[i]
    BY <1>2, Untouched
  <2>2. ASSUME i \in op'[r].ids
        PROVE  /\ pc'[r] \in {"read", "write"}
               /\ \A q \in Requests : i \in op[q].ids =>
                     op'[r].kind \notin Writes /\ op[q].kind \notin Writes
    BY <1>2, <2>2, Beginning
  <2>3. i \in op'[r].ids => Current(cache[i], row[i])
    BY <2>2 DEF Settled
  <2>4. \A q \in Requests : i \in op'[q].ids => AtHand(pc'[q], batch'[q][i], row'[i], cache'[i])
    BY <1>o, <2>1, <2>2, <2>3 DEF Settled, AtHand
  <2>5. \A q1, q2 \in Requests :
           q1 # q2 /\ i \in op'[q1].ids /\ i \in op'[q2].ids => op'[q1].kind \notin Writes
    BY <1>o, <2>2 DEF Settled
  <2>6. (\A q \in Requests : i \in op'[q].ids => op'[q].kind \notin Writes) =>
            Current(cache'[i], row'[i])
    <3>1. CASE i \in op'[r].ids
      BY <2>1, <2>3, <3>1
    <3>2. CASE i \notin op'[r].ids
      BY <1>2, <1>o, <2>1, <3>2 DEF Settled
    <3> QED
      BY <3>1, <3>2
  <2> QED
    BY <2>4, <2>5, <2>6 DEF Settled
<1> QED
  BY <1>1, <1>2

LEMMA FreshStep ==
    ASSUME Shape, Underway, Fresh, [Next]_vars PROVE Fresh'
<1> SUFFICES ASSUME NEW i \in Ids, i \notin disturbed' PROVE Settled(i)'
  BY DEF Fresh
<1>1. Settled(i)
  BY Growth DEF Grown, Fresh
<1>2. ASSUME NEW r \in Requests, Step(r) PROVE Settled(i)'
  BY <1>1, <1>2, SettledStep
<1>3. CASE UNCHANGED <<row, cache, pc, op, batch>>
  BY <1>1, <1>3 DEF Settled
<1> QED
  BY <1>2, <1>3 DEF Next, Replicate, Quiet, vars, dbVars, memVars, reqVars

\* An id whose operations overlapped no write to it and met no fault is cached
\* as it is in the table as soon as nobody works on it.
THEOREM UndisturbedStaysFresh == Spec => []UndisturbedIsFresh
<1>1. Init => Types /\ Fresh
  BY ShapeInit, UnderwayInit, FreshInit DEF Types
<1>2. Types /\ Fresh /\ [Next]_vars => (Types /\ Fresh)'
  BY ShapeStep, UnderwayStep, FreshStep DEF Types
<1>3. Fresh => UndisturbedIsFresh
  BY DEF Fresh, Settled, Current, UndisturbedIsFresh, Busy
<1> QED
  BY <1>1, <1>2, <1>3, PTL DEF Spec

-----------------------------------------------------------------------------
(* Reading after one's own deletions and bulk forms.  What a request minds *)
(* of an id that was not disturbed is no newer than the version to come,   *)
(* and neither the table nor its loader have an older row.                 *)

Minded(r, i) ==
    /\ row[i] <= version /\ since[r][i] <= version + 1
    /\ row[i] = 0 \/ row[i] >= since[r][i]
    /\ loader[r][i] # None => loader[r][i] >= since[r][i]
    /\ pc[r] # "idle" => answer[r].is # "record"
    /\ answer[r].is = "record" /\ answer[r].id = i =>
          answer[r].v = 0 \/ answer[r].v >= since[r][i]

AllMinded == \A r \in Requests, i \in Ids \ disturbed : Minded(r, i)

LEMMA AllMindedInit == Init => AllMinded
<1> SUFFICES ASSUME Init, NEW r \in Requests, NEW i \in Ids PROVE Minded(r, i)
  BY DEF AllMinded
<1>1. pc[r] = "idle" /\ answer[r].is # "record" /\ loader[r][i] = None /\ version = 1
  BY NoneAssumption DEF Init, Told
<1>2. row[i] \in 0..1 /\ since[r][i] = 0
  BY DEF Init, NoRows
<1> QED
  BY <1>1, <1>2 DEF Minded

\* A row stays, goes, or takes the next version.
LEMMA RowMoves ==
    ASSUME Shape, [Next]_vars, NEW i \in Ids
    PROVE  /\ version' \in {version, version + 1}
           /\ row'[i] \in {row[i], 0} \/ (row'[i] = version + 1 /\ version' = version + 1)
<1> USE DEF dbVars, memVars, reqVars, own
<1>1. ASSUME NEW r \in Requests, Write(r)
      PROVE  /\ version' \in {version, version + 1}
             /\ row'[i] \in {row[i], 0} \/ (row'[i] = version + 1 /\ version' = version + 1)
  <2>1. /\ row'[i] = IF i \in Matching(r) THEN Result(r)[i] ELSE row[i]
        /\ version' = IF Takes(r) THEN version + 1 ELSE version
    BY <1>1 DEF Write, Commit
  <2>2. i \in Matching(r) => \/ Result(r)[i] = 0
                             \/ Result(r)[i] = version + 1 /\ Takes(r)
    BY <1>1, ResultFacts DEF Write, Takes
  <2> QED
    BY <2>1, <2>2
<1>2. ASSUME NEW r \in Requests, WriteDoomed(r) PROVE version' = version + 1 /\ row' = row
  BY <1>2 DEF WriteDoomed
<1>3. ASSUME NEW r \in Requests, Step(r), ~Write(r), ~WriteDoomed(r)
      PROVE  UNCHANGED <<row, version>>
  BY <1>3 DEF Step, StartLoad, StartWrite, List, Hit, Read, ReadFails, FillRead, WriteFails,
              NextRow, EndRows, FillWrite, Drop, HooksFail, Publish
<1> QED
  BY <1>1, <1>2, <1>3 DEF Next, Replicate, Quiet, vars

LEMMA MindedNumbers ==
    ASSUME Shape, NEW r \in Requests, NEW i \in Ids
    PROVE  /\ version \in Nat /\ row[i] \in Nat /\ since[r][i] \in Nat /\ batch[r][i] \in Nat
           /\ row[i] # None /\ batch[r][i] # None
           /\ loader[r][i] # None => loader[r][i] \in Nat
<1>1. since[r][i] \in Least
  BY DEF Shape
<1>2. since[r][i] \in Nat
  BY <1>1, BoundsAssumption DEF Least
<1> QED
  BY <1>2, VersionsAreNumbers

\* A step that changes nothing of what r minds of i.
LEMMA MindedAgain ==
    ASSUME Shape, [Next]_vars, NEW r \in Requests, NEW i \in Ids, Minded(r, i),
           since'[r][i] = since[r][i],
           loader'[r][i] # None => loader'[r][i] >= since[r][i],
           pc'[r] # "idle" => answer'[r].is # "record",
           answer'[r].is = "record" /\ answer'[r].id = i =>
               answer'[r].v = 0 \/ answer'[r].v >= since[r][i]
    PROVE  Minded(r, i)'
<1>1. version \in Nat /\ row[i] \in Nat /\ since[r][i] \in Nat
  BY MindedNumbers
<1>2. /\ row[i] <= version /\ since[r][i] <= version + 1
      /\ row[i] = 0 \/ row[i] >= since[r][i]
  BY DEF Minded
<1>3. row'[i] <= version' /\ since[r][i] <= version' + 1 /\ (row'[i] = 0 \/ row'[i] >= since[r][i])
  BY <1>1, <1>2, RowMoves
<1> QED
  BY <1>3 DEF Minded

\* A step that is told of a deletion or a bulk form.
LEMMA MindedAnew ==
    ASSUME Shape, [Next]_vars, NEW r \in Requests, NEW i \in Ids, Minded(r, i),
           UNCHANGED <<row, version, loader>>, NEW S, NEW v, Minds(r, S, v),
           \A j \in Ids : v[j] \in Least, i \notin disturbed,
           i \in S => v[i] <= version + 1 /\ (row[i] = 0 \/ row[i] >= v[i]),
           answer'[r].is # "record"
    PROVE  Minded(r, i)'
<1>1. since'[r][i] = IF i \in S /\ loader[r][i] = None THEN v[i] ELSE since[r][i]
  BY Minding
<1>2. CASE i \in S /\ loader[r][i] = None
  BY <1>1, <1>2 DEF Minded
<1>3. CASE ~(i \in S /\ loader[r][i] = None)
  BY <1>1, <1>3 DEF Minded
<1> QED
  BY <1>2, <1>3

LEMMA MindedStep ==
    ASSUME Shape, Underway, Fresh, [Next]_vars, NEW r \in Requests, Step(r), "oldList" \notin Faults,
           NEW i \in Ids, i \notin disturbed', Minded(r, i)
    PROVE  Minded(r, i)'
<1> USE DEF dbVars, memVars, reqVars, own
<1>d. i \notin disturbed
  BY Growth DEF Grown
<1>s. Settled(i)
  BY <1>d DEF Fresh
<1>n. /\ version \in Nat /\ row[i] \in Nat /\ since[r][i] \in Nat /\ batch[r][i] \in Nat
      /\ row[i] # None /\ batch[r][i] # None
      /\ loader[r][i] # None => loader[r][i] \in Nat
  BY MindedNumbers
<1>m. /\ row[i] <= version /\ since[r][i] <= version + 1
      /\ row[i] = 0 \/ row[i] >= since[r][i]
      /\ loader[r][i] # None => loader[r][i] >= since[r][i]
      /\ pc[r] # "idle" => answer[r].is # "record"
      /\ answer[r].is = "record" /\ answer[r].id = i =>
            answer[r].v = 0 \/ answer[r].v >= since[r][i]
  BY DEF Minded
<1>g. Stage(pc[r], op[r], batch[r]) /\ op[r].ids \subseteq Ids
  BY DEF Underway, Shape
<1>h. i \in op[r].ids => AtHand(pc[r], batch[r][i], row[i], cache[i])
  BY <1>s DEF Settled
<1>f. ASSUME NEW what \in {None, "ok", "error"} PROVE Told(what).is # "record"
  BY NoneAssumption DEF Told
<1>e. ASSUME NEW a, End(r, a), since' = since,
             a.is = "record" /\ a.id = i => a.v = 0 \/ a.v >= since[r][i],
             loader'[r][i] # None => loader'[r][i] >= since[r][i]
      PROVE  Minded(r, i)'
  <2>1. pc'[r] = "idle" /\ answer'[r] = a
    BY <1>e, EndLocal
  <2> QED
    BY <1>e, <2>1, MindedAgain
<1>1. ASSUME NEW j \in Ids, StartLoad(r, j) PROVE Minded(r, i)'
  <2>1. Begin(r, "load", {j}, "read") /\ since' = since
    BY <1>1 DEF StartLoad
  <2>2. /\ answer'[r] = Told(None) /\ op'[r].ids = {j}
        /\ pc[r] = "idle"
    BY <2>1, BeginLocal DEF Begin, Shape
  <2>3. loader'[r][i] = IF i = j /\ loader[r][i] = None THEN cache[i] ELSE loader[r][i]
    BY <1>1 DEF StartLoad, Shape
  <2>4. ASSUME i = j, cache[i] # None PROVE cache[i] >= since[r][i]
    <3>1. i \notin op[r].ids /\ i \in op'[r].ids
      BY <1>g, <2>2, <2>4 DEF Stage
    <3>2. \A q \in Requests : i \in op[q].ids => op[q].kind \notin Writes
      BY <3>1, Beginning
    <3>3. cache[i] = row[i]
      BY <1>s, <2>4, <3>2 DEF Settled, Current
    <3>4. row[i] # 0
      BY <2>4, <3>3, Numbers DEF Shape
    <3> QED
      BY <1>m, <3>3, <3>4
  <2>5. loader'[r][i] # None => loader'[r][i] >= since[r][i]
    BY <1>m, <2>3, <2>4
  <2> QED
    BY <1>f, <2>1, <2>2, <2>5, MindedAgain
<1>2. ASSUME NEW k \in Kinds, NEW S \in (SUBSET Ids) \ {{}}, StartWrite(r, k, S)
      PROVE  Minded(r, i)'
  <2>1. Begin(r, k, S, "write") /\ UNCHANGED <<since, loader>>
    BY <1>2 DEF StartWrite
  <2>2. answer'[r] = Told(None)
    BY <2>1, BeginLocal
  <2> QED
    BY <1>f, <1>m, <2>1, <2>2, MindedAgain
<1>3. CASE List(r)
  <2>s. PICK seen \in {row} \cup (IF "oldList" \in Faults THEN {replica} ELSE {}) :
           \E primed \in SUBSET {j \in Ids : seen[j] # 0} :
            loader' = [loader EXCEPT ![r] = [j \in Ids |-> IF j \in primed THEN seen[j] ELSE @[j]]]
    BY <1>3 DEF List
  <2>u. seen = row
    OBVIOUS
  <2>t. PICK primed \in SUBSET {j \in Ids : seen[j] # 0} :
            loader' = [loader EXCEPT ![r] = [j \in Ids |-> IF j \in primed THEN seen[j] ELSE @[j]]]
    BY <2>s
  <2>0. i \in primed => row[i] # 0
    BY <2>t, <2>u
  <2>1. loader'[r][i] = IF i \in primed THEN row[i] ELSE loader[r][i]
    BY <2>t, <2>u DEF Shape
  <2>2. loader'[r][i] # None => loader'[r][i] >= since[r][i]
    BY <1>m, <2>0, <2>1
  <2>3. answer'[r] = Told(None) /\ since' = since
    BY <1>3 DEF List, Shape
  <2> QED
    BY <1>f, <2>2, <2>3, MindedAgain
<1>4. CASE Hit(r)
  <2>1. PICK j \in op[r].ids : loader[r][j] # None /\ ReturnOrNot(r, j, loader[r][j])
    BY <1>4 DEF Hit
  <2>2. UNCHANGED <<since, loader>>
    BY <1>4 DEF Hit
  <2> QED
    BY <1>e, <1>f, <1>m, <2>1, <2>2 DEF ReturnOrNot, Return
<1>5. CASE Read(r)
  <2>1. PICK j \in op[r].ids, v \in 0..MaxVersion :
           IF v = 0 THEN Return(r, j, 0) ELSE answer' = answer
    BY <1>5 DEF Read
  <2>2. UNCHANGED <<since, loader>> /\ pc[r] = "read"
    BY <1>5 DEF Read
  <2>3. CASE v = 0
    <3> DEFINE a == [is |-> "record", id |-> j, v |-> 0]
    <3>1. End(r, a) /\ a.v = 0
      BY <2>1, <2>3 DEF Return
    <3> HIDE DEF a
    <3> QED
      BY <1>e, <1>m, <2>2, <3>1
  <2>4. CASE v # 0
    BY <1>m, <2>1, <2>2, <2>4, MindedAgain
  <2> QED
    BY <2>3, <2>4
<1>6. CASE ReadFails(r) \/ WriteFails(r) \/ HooksFail(r)
  <2>1. UNCHANGED <<since, loader>> /\ \E what \in {None, "ok", "error"} : End(r, Told(what))
    BY <1>6 DEF ReadFails, WriteFails, HooksFail
  <2> QED
    BY <1>e, <1>f, <1>m, <2>1
<1>7. CASE FillRead(r)
  <2>1. PICK j \in op[r].ids : /\ loader' = [loader EXCEPT ![r][j] = batch[r][j]]
                               /\ ReturnOrNot(r, j, batch[r][j])
    BY <1>7 DEF FillRead, Scanned
  <2>2. since' = since /\ pc[r] = "fill"
    BY <1>7 DEF FillRead
  <2>3. j = i => batch[r][j] >= since[r][i]
    BY <1>g, <1>h, <1>m, <2>2 DEF AtHand, Stage
  <2>4. loader'[r][i] = IF i = j THEN batch[r][j] ELSE loader[r][i]
    BY <2>1 DEF Shape
  <2>5. loader'[r][i] # None => loader'[r][i] >= since[r][i]
    BY <1>m, <2>3, <2>4
  <2> QED
    BY <1>e, <1>f, <2>1, <2>2, <2>3, <2>5 DEF ReturnOrNot, Return
<1>8. CASE Write(r)
  <2>1. UNCHANGED <<since, loader>> /\ pc[r] = "write"
    BY <1>8 DEF Write
  <2>2. CASE End(r, Told("error"))
    BY <1>e, <1>f, <1>m, <2>1, <2>2
  <2>3. CASE ~End(r, Told("error"))
    <3>1. answer' = answer
      BY <1>8, <2>3 DEF Write
    <3> QED
      BY <1>m, <2>1, <3>1, MindedAgain
  <2> QED
    BY <2>2, <2>3
<1>9. CASE WriteDoomed(r) \/ NextRow(r) \/ FillWrite(r)
  <2>1. UNCHANGED <<since, loader, answer>> /\ pc[r] # "idle"
    BY <1>9 DEF WriteDoomed, NextRow, FillWrite
  <2> QED
    BY <1>m, <2>1, MindedAgain
<1>10. CASE EndRows(r)
  <2>1. UNCHANGED <<row, version, loader>> /\ \E what \in {"ok", "error"} : End(r, Told(what))
    BY <1>10 DEF EndRows
  <2>2. CASE UNCHANGED since
    BY <1>e, <1>f, <1>m, <2>1, <2>2
  <2>3. CASE Minds(r, {j \in op[r].ids : row[j] # 0}, row)
    <3>1. answer'[r].is # "record"
      BY <1>f, <2>1, EndLocal
    <3>2. row[i] <= version + 1 /\ row[i] >= row[i]
      BY <1>m, <1>n
    <3> QED
      BY <1>d, <2>1, <2>3, <3>1, <3>2, LeastRows, MindedAnew
  <2> QED
    BY <1>10, <2>2, <2>3 DEF EndRows
<1>11. CASE Drop(r)
  <2>1. PICK j \in op[r].ids :
           /\ UNCHANGED since \/ Minds(r, {j}, Later)
           /\ answer' = answer \/ End(r, Told("ok"))
    BY <1>11 DEF Drop
  <2>2. UNCHANGED <<row, version, loader>> /\ pc[r] = "drop"
    BY <1>11 DEF Drop
  <2>3. answer'[r].is # "record"
    <3>1. CASE answer' = answer
      BY <1>m, <2>2, <3>1
    <3>2. CASE End(r, Told("ok"))
      BY <1>f, <3>2, EndLocal
    <3> QED
      BY <2>1, <3>1, <3>2
  <2>4. CASE UNCHANGED since
    BY <1>m, <2>2, <2>3, <2>4, MindedAgain
  <2>5. CASE Minds(r, {j}, Later)
    <3>1. i = j => row[i] = 0
      BY <1>h, <2>2 DEF AtHand
    <3>2. Later[i] <= version + 1
      BY <1>n, LeastRows
    <3> QED
      BY <1>d, <2>2, <2>3, <2>5, <3>1, <3>2, LeastRows, MindedAnew
  <2> QED
    BY <2>1, <2>4, <2>5
<1>12. CASE Publish(r)
  <2>1. PICK j \in op[r].ids :
           IF op[r].kind = "delete"
           THEN End(r, Told("ok")) /\ Minds(r, {j}, Later) /\ UNCHANGED loader
           ELSE /\ Return(r, j, batch[r][j])
                /\ loader' = [loader EXCEPT ![r][j] = batch[r][j]]
                /\ since' = [since EXCEPT ![r][j] = 0]
    BY <1>12 DEF Publish, Scanned
  <2>2. UNCHANGED <<row, version>> /\ pc[r] = "publish"
    BY <1>12 DEF Publish
  <2>3. CASE op[r].kind = "delete"
    <3>1. answer'[r].is # "record"
      BY <1>f, <2>1, <2>3, EndLocal
    <3>2. i = j => row[i] = 0
      BY <1>g, <1>h, <2>2, <2>3 DEF AtHand, Stage
    <3>3. Later[i] <= version + 1
      BY <1>n, LeastRows
    <3> QED
      BY <1>d, <2>1, <2>2, <2>3, <3>1, <3>2, <3>3, LeastRows, MindedAnew
  <2>4. CASE op[r].kind # "delete"
    <3> DEFINE a == [is |-> "record", id |-> j, v |-> batch[r][j]]
    <3>1. End(r, a) /\ a.id = j
      BY <2>1, <2>4 DEF Return
    <3>2. j \in Ids /\ loader'[r][i] = IF i = j THEN batch[r][j] ELSE loader[r][i]
      BY <1>g, <2>1, <2>4 DEF Shape
    <3>3. since'[r][i] = IF i = j THEN 0 ELSE since[r][i]
      BY <1>g, <2>1, <2>4 DEF Shape
    <3>4. CASE i # j
      <4>1. pc'[r] = "idle" /\ answer'[r] = a
        BY <3>1, EndLocal
      <4> HIDE DEF a
      <4> QED
        BY <1>m, <3>1, <3>2, <3>3, <3>4, <4>1, MindedAgain
    <3>5. CASE i = j
      <4>1. pc'[r] = "idle" /\ answer'[r] = a /\ a.v = batch[r][i]
        BY <3>1, <3>5, EndLocal
      <4>2. a.v >= 0 /\ batch[r][i] >= 0
        BY <1>n, <4>1
      <4>3. row'[i] >= 0 /\ row'[i] <= version' /\ 0 <= version' + 1
        BY <1>m, <1>n, <2>2
      <4> HIDE DEF a
      <4> QED
        BY <3>2, <3>3, <3>5, <4>1, <4>2, <4>3 DEF Minded
    <3> QED
      BY <3>4, <3>5
  <2> QED
    BY <2>3, <2>4
<1> QED
  BY <1>1, <1>2, <1>3, <1>4, <1>5, <1>6, <1>7, <1>8, <1>9, <1>10, <1>11, <1>12 DEF Step

LEMMA AllMindedStep ==
    ASSUME Shape, Underway, Fresh, AllMinded, [Next]_vars, "oldList" \notin Faults
    PROVE  AllMinded'
<1> SUFFICES ASSUME NEW q \in Requests, NEW i \in Ids, i \notin disturbed' PROVE Minded(q, i)'
  BY DEF AllMinded
<1>q. Minded(q, i)
  BY Growth DEF Grown, AllMinded
<1>s. ASSUME Same(q) PROVE Minded(q, i)'
  BY <1>q, <1>s, MindedAgain DEF Same, Minded
<1>1. ASSUME NEW r \in Requests, Step(r) PROVE Minded(q, i)'
  <2>1. CASE q = r
    BY <1>1, <1>q, <2>1, MindedStep
  <2>2. CASE q # r
    BY <1>1, <1>s, <2>2, Locality
  <2> QED
    BY <2>1, <2>2
<1>2. CASE UNCHANGED <<memVars, reqVars>>
  BY <1>s, <1>2 DEF Same, memVars, reqVars, own
<1> QED
  BY <1>1, <1>2 DEF Next, Replicate, Quiet, vars

\* As long as no list comes from a replica that lags, a request never reads an
\* older row than it created or updated itself, nor, of an id that was not
\* disturbed, than the one it deleted or wrote in bulk while its loader held none.
THEOREM OwnWritesAreRead ==
    ASSUME "oldList" \notin Faults PROVE Spec => []ReadYourWrites
<1>1. Init => Types /\ Recalled /\ Fresh /\ AllMinded
  BY ShapeInit, UnderwayInit, RecalledInit, FreshInit, AllMindedInit DEF Types
<1>2. Types /\ Recalled /\ Fresh /\ AllMinded /\ [Next]_vars => (Types /\ Recalled /\ Fresh /\ AllMinded)'
  BY ShapeStep, UnderwayStep, RecalledStep, FreshStep, AllMindedStep DEF Types
<1>3. Recalled /\ AllMinded => ReadYourWrites
  BY DEF Recalled, Recalls, AllMinded, Minded, ReadYourWrites
<1> QED
  BY <1>1, <1>2, <1>3, PTL DEF Spec

=============================================================================
