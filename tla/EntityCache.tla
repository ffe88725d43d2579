---------------------------- MODULE EntityCache -----------------------------
(***************************************************************************)
(* Entity reads and writes: the resolvers with their hooks, the loader of  *)
(* each request, the entity client, the cache store and the table behind   *)
(* them (graphql/resolvers/entities_gen.go, graphql/dataloaders,           *)
(* orm/gen/client_gen.go, orm/runtime/cache).                              *)
(*                                                                         *)
(* A row is its version: every write takes the next one, so an id and a    *)
(* version name one state of one row, and the cache, the loaders and the   *)
(* events keep versions.  Hooks pass or fail.  The operations of one       *)
(* request follow each other.                                              *)
(***************************************************************************)
EXTENDS Integers

CONSTANTS
    Requests,       \* GraphQL requests, each with a loader of its own
    Ids,
    Calls,          \* bound: operations of one request
    MaxVersion,     \* bound: statements that write rows
    Kinds,          \* operations in use
    Faults,         \* subset of {"store", "answer", "lag", "oldList", "rollback"}
    None

Inserts == {"create", "bulkCreate"}
Updates == {"update", "bulkUpdate"}
Deletes == {"delete", "bulkDelete"}
Writes == Inserts \cup Updates \cup Deletes
Bulk == {"bulkCreate", "bulkUpdate", "bulkDelete"}

ASSUME EntityCacheAssumption ==
    /\ Kinds \subseteq Writes \cup {"load", "list"}
    /\ Faults \subseteq {"store", "answer", "lag", "oldList", "rollback"}
ASSUME BoundsAssumption == MaxVersion \in Nat \ {0} /\ Calls \in Nat
ASSUME NoneAssumption == None \notin Nat \cup {"record"}

VARIABLES
    \* The database.
    row,        \* row[i]: version of the row, 0 when there is none
    replica,    \* replica[i]: what a replica has of it
    version,    \* the last version given out
    committed,  \* <<i, v>> for every version that was ever committed
    doomed,     \* ids of the statements that were rolled back
    \* The process.
    cache,      \* cache[i]: the row under the key of i, None when there is none
    loader,     \* loader[r][i]
    event,      \* event[i]: the version published last
    \* The requests.
    pc, op,     \* op[r]: kind and ids of the operation under way
    batch,      \* batch[r][i]: the row state its statement returned
    calls, answer,
    wrote,      \* wrote[r][i]: version of the record r created or updated last
    since,      \* since[r][i]: least version r may read after it deleted i or wrote
                \* it in bulk, its loader holding no row of it; or 0
    disturbed   \* ids whose cache entry was raced or met a fault

dbVars == <<row, replica, version, committed, doomed>>
memVars == <<cache, loader, event>>
own == <<wrote, since>>
reqVars == <<pc, op, batch, calls, answer, own, disturbed>>
vars == <<dbVars, memVars, reqVars>>

TypeOK ==
    /\ row \in [Ids -> 0..MaxVersion] /\ replica \in [Ids -> 0..MaxVersion]
    /\ version \in 0..MaxVersion
    /\ committed \subseteq Ids \X (0..MaxVersion) /\ doomed \subseteq disturbed
    /\ \A i \in Ids : cache[i] \in {None} \cup 1..MaxVersion /\ event[i] \in {None} \cup 0..MaxVersion
    /\ \A r \in Requests :
          /\ pc[r] \in {"idle", "write", "rows", "doomed", "fill", "publish", "read", "drop"}
          /\ (pc[r] = "idle") = (op[r].ids = {})
          /\ calls[r] \in 0..Calls
          /\ \A i \in Ids : /\ loader[r][i] \in {None} \cup 1..MaxVersion
                            /\ since[r][i] \in 0..(MaxVersion + 1)

Nothing == [kind |-> None, ids |-> {}]
NoRows == [i \in Ids |-> 0]
Told(what) == [is |-> what]

Init ==
    /\ row \in [Ids -> 0..1] /\ replica = row /\ version = 1
    /\ committed = (Ids \X {0}) \cup {<<i, row[i]>> : i \in Ids}
    /\ cache = [i \in Ids |-> None]
    /\ loader = [r \in Requests |-> [i \in Ids |-> None]]
    /\ event = [i \in Ids |-> None]
    /\ pc = [r \in Requests |-> "idle"]
    /\ op = [r \in Requests |-> Nothing]
    /\ batch = [r \in Requests |-> NoRows]
    /\ calls = [r \in Requests |-> 0]
    /\ answer = [r \in Requests |-> Told(None)]
    /\ wrote = [r \in Requests |-> NoRows] /\ since = [r \in Requests |-> NoRows]
    /\ disturbed = {} /\ doomed = {}

-----------------------------------------------------------------------------
(* Pieces.  Definitions named *Faulty* are not the code: each is a         *)
(* plausible bug in the definition after it.                               *)

StoreFaulty(i, v) ==
    /\ cache' = [cache EXCEPT ![i] = IF @ = None THEN v ELSE @]
    /\ UNCHANGED disturbed
\* cache.Set, or Delete with None; their errors are dropped.
Store(i, v) ==
    \/ cache' = [cache EXCEPT ![i] = v] /\ UNCHANGED disturbed
    \/ "store" \in Faults /\ UNCHANGED cache /\ disturbed' = disturbed \cup {i}

ScannedFaulty(r, i) == row[i]
\* The row a statement returned, not the one there is by now.
Scanned(r, i) == batch[r][i]

Busy(i) == {q \in Requests : i \in op[q].ids}

\* An operation begins.  It races those on its ids that are under way, if
\* one of the two writes.
Begin(r, k, S, at) ==
    /\ pc[r] = "idle" /\ calls[r] < Calls /\ k \in Kinds
    /\ calls' = [calls EXCEPT ![r] = @ + 1]
    /\ op' = [op EXCEPT ![r] = [kind |-> k, ids |-> S]]
    /\ pc' = [pc EXCEPT ![r] = at]
    /\ batch' = [batch EXCEPT ![r] = NoRows]
    /\ answer' = [answer EXCEPT ![r] = Told(None)]
    /\ disturbed' = disturbed \cup
         {i \in S : \E q \in Busy(i) : k \in Writes \/ op[q].kind \in Writes}

\* It ends, with what the caller is told.
End(r, a) ==
    /\ pc' = [pc EXCEPT ![r] = "idle"]
    /\ op' = [op EXCEPT ![r] = Nothing]
    /\ batch' = [batch EXCEPT ![r] = NoRows]
    /\ answer' = [answer EXCEPT ![r] = a]

\* The hooks pass and toGraphQLUser copies the record for the caller ...
Return(r, i, v) == End(r, [is |-> "record", id |-> i, v |-> v])

\* r is told of a deletion or a bulk form, which leaves of the rows S those of
\* version v or later: it minds the ones its loader does not hold.
Minds(r, S, v) ==
    /\ since' = [since EXCEPT ![r] =
          [i \in Ids |-> IF i \in S \ disturbed /\ loader[r][i] = None THEN v[i] ELSE @[i]]]
    /\ UNCHANGED wrote
Later == [i \in Ids |-> version + 1]

\* ... or BeforeReturn fails.
ReturnOrNot(r, i, v) == Return(r, i, v) \/ End(r, Told("error"))

-----------------------------------------------------------------------------
(* Reads. *)

\* loadUser: the loader's map, then the cache, then the database.
StartLoad(r, i) ==
    LET known == IF loader[r][i] # None THEN loader[r][i] ELSE cache[i] IN
    /\ Begin(r, "load", {i}, "read")
    /\ loader' = [loader EXCEPT ![r][i] = known]
    /\ UNCHANGED <<dbVars, cache, event, own>>

\* Found in memory: BeforeReturn, and the answer.
Hit(r) ==
    /\ pc[r] = "read"
    /\ \E i \in op[r].ids : loader[r][i] # None /\ ReturnOrNot(r, i, loader[r][i])
    /\ UNCHANGED <<dbVars, cache, loader, event, calls, own, disturbed>>

\* ByID asks the database, where a replica answers with what it has; without
\* a row there is nothing to store.
Read(r) ==
    /\ pc[r] = "read"
    /\ \E i \in op[r].ids, v \in 0..MaxVersion :
          /\ loader[r][i] = None
          /\ v \in {row[i]} \cup (IF "lag" \in Faults THEN {replica[i]} ELSE {})
          /\ disturbed' = IF v # row[i] THEN disturbed \cup {i} ELSE disturbed
          /\ IF v = 0
             THEN Return(r, i, 0)
             ELSE /\ batch' = [batch EXCEPT ![r][i] = v]
                  /\ pc' = [pc EXCEPT ![r] = "fill"]
                  /\ UNCHANGED <<op, answer>>
    /\ UNCHANGED <<dbVars, memVars, calls, own>>

\* ByID stores what it read and the loader what it fetched.
FillRead(r) ==
    /\ pc[r] = "fill" /\ op[r].kind = "load"
    /\ \E i \in op[r].ids :
          /\ Store(i, Scanned(r, i))
          /\ loader' = [loader EXCEPT ![r][i] = Scanned(r, i)]
          /\ ReturnOrNot(r, i, Scanned(r, i))
    /\ UNCHANGED <<dbVars, event, calls, own>>

ReadFails(r) ==
    /\ pc[r] = "read"
    /\ \E i \in op[r].ids : loader[r][i] = None
    /\ End(r, Told("error"))
    /\ UNCHANGED <<dbVars, memVars, calls, own, disturbed>>

\* Users goes past the cache and primes the loader with each record, up to one
\* for which BeforeReturn fails.
List(r) ==
    /\ pc[r] = "idle" /\ calls[r] < Calls /\ "list" \in Kinds
    /\ calls' = [calls EXCEPT ![r] = @ + 1]
    /\ \E seen \in {row} \cup (IF "oldList" \in Faults THEN {replica} ELSE {}) :
           \E primed \in SUBSET {i \in Ids : seen[i] # 0} :
               loader' = [loader EXCEPT ![r] =
                             [i \in Ids |-> IF i \in primed THEN seen[i] ELSE @[i]]]
    /\ answer' = [answer EXCEPT ![r] = Told(None)]
    /\ UNCHANGED <<dbVars, cache, event, pc, op, batch, own, disturbed>>

-----------------------------------------------------------------------------
(* Writes. *)

\* Rules, hooks and the decoding of ids refuse before the statement is sent:
\* nothing happens then.
StartWrite(r, k, S) ==
    /\ k \in Writes
    /\ k \in Bulk \/ \E i \in S : S = {i}
    /\ Begin(r, k, S, "write")
    /\ UNCHANGED <<dbVars, memVars, own>>

\* The rows the statement changes: INSERT takes all or none.
Matching(r) ==
    LET absent == {i \in op[r].ids : row[i] = 0} IN
    IF op[r].kind \notin Inserts THEN op[r].ids \ absent
    ELSE IF absent = op[r].ids THEN absent ELSE {}

\* Changing the rows takes a version; deleting them, or none, does not.
Takes(r) == op[r].kind \notin Deletes /\ Matching(r) # {}
CanTake(r) == Takes(r) => version < MaxVersion

Result(r) ==
    LET v == IF op[r].kind \in Deletes THEN 0 ELSE version + 1 IN
    [i \in Ids |-> IF i \in Matching(r) THEN v ELSE 0]

Commit(r) ==
    /\ row' = [i \in Ids |-> IF i \in Matching(r) THEN Result(r)[i] ELSE row[i]]
    /\ version' = IF Takes(r) THEN version + 1 ELSE version
    /\ committed' = committed \cup {<<i, Result(r)[i]>> : i \in Matching(r)}
    /\ UNCHANGED <<replica, doomed>>

WriteFailsFaulty(r) ==
    /\ pc[r] = "write"
    /\ End(r, Told("error"))
    /\ \E i \in op[r].ids : cache' = [cache EXCEPT ![i] = MaxVersion]
    /\ UNCHANGED <<dbVars, loader, event, calls, own, disturbed>>
\* The statement fails: the database refuses it, an insert meets its row, or
\* Create and Update get no row back.
WriteFails(r) ==
    /\ pc[r] = "write"
    /\ End(r, Told("error"))
    /\ UNCHANGED <<dbVars, memVars, calls, own, disturbed>>

\* It is committed and its answer comes, or is lost.
Write(r) ==
    /\ pc[r] = "write" /\ CanTake(r)
    /\ op[r].kind \in Inserts \cup {"update"} => Matching(r) # {}
    /\ Commit(r)
    /\ \/ /\ batch' = [batch EXCEPT ![r] = Result(r)]
          /\ pc' = [pc EXCEPT ![r] =
                CASE op[r].kind \in Deletes -> "drop"
                  [] op[r].kind \in {"create", "update"} -> "fill"
                  [] OTHER -> "rows"]
          /\ UNCHANGED <<op, answer, disturbed>>
       \/ /\ "answer" \in Faults
          /\ End(r, Told("error"))
          /\ disturbed' = disturbed \cup op[r].ids
    /\ UNCHANGED <<memVars, calls, own>>

\* A bulk statement returns rows and is rolled back after all.
WriteDoomed(r) ==
    /\ "rollback" \in Faults
    /\ pc[r] = "write" /\ op[r].kind \in Bulk \ Deletes /\ Takes(r) /\ CanTake(r)
    /\ version' = version + 1
    /\ batch' = [batch EXCEPT ![r] = Result(r)]
    /\ pc' = [pc EXCEPT ![r] = "doomed"]
    /\ doomed' = doomed \cup op[r].ids
    /\ disturbed' = disturbed \cup op[r].ids
    /\ UNCHANGED <<row, replica, committed, memVars, op, calls, answer, own>>

\* One turn of the loop over the rows: scan, then store.
NextRow(r) ==
    /\ pc[r] \in {"rows", "doomed"}
    /\ \E i \in Ids :
          /\ batch[r][i] # 0
          /\ Store(i, Scanned(r, i))
          /\ batch' = [batch EXCEPT ![r][i] = 0]
    /\ UNCHANGED <<dbVars, loader, event, pc, op, calls, answer, own>>

\* The loop ends, or rows.Err reports that the connection or the statement
\* broke.  What is stored stays.
EndRows(r) ==
    /\ \/ /\ pc[r] = "rows" /\ batch[r] = NoRows
          /\ End(r, Told("ok"))
          /\ Minds(r, {i \in op[r].ids : row[i] # 0}, row)
          /\ UNCHANGED disturbed
       \/ /\ pc[r] \in {"doomed"} \cup (IF "answer" \in Faults THEN {"rows"} ELSE {})
          /\ End(r, Told("error"))
          /\ disturbed' = disturbed \cup op[r].ids
          /\ UNCHANGED own
    /\ UNCHANGED <<dbVars, memVars, calls>>

\* Create and Update store the row.
FillWrite(r) ==
    /\ pc[r] = "fill" /\ op[r].kind \in {"create", "update"}
    /\ \E i \in op[r].ids : Store(i, Scanned(r, i))
    /\ pc' = [pc EXCEPT ![r] = "publish"]
    /\ UNCHANGED <<dbVars, loader, event, op, batch, calls, answer, own>>

\* Delete and BulkDelete drop the keys one after the other.
Drop(r) ==
    /\ pc[r] = "drop"
    /\ \E i \in op[r].ids :
          /\ Store(i, None)
          /\ \/ /\ op[r].kind = "delete"
                /\ pc' = [pc EXCEPT ![r] = "publish"]
                /\ UNCHANGED <<op, batch, answer, own>>
             \/ /\ op[r].kind = "bulkDelete" /\ op[r].ids # {i}
                /\ op' = [op EXCEPT ![r].ids = @ \ {i}]
                /\ Minds(r, {i}, Later)
                /\ UNCHANGED <<pc, batch, answer>>
             \/ /\ op[r].kind = "bulkDelete" /\ op[r].ids = {i}
                /\ End(r, Told("ok"))
                /\ Minds(r, {i}, Later)
    /\ UNCHANGED <<dbVars, loader, event, calls>>

HooksFail(r) ==
    /\ pc[r] = "publish"
    /\ End(r, Told("error"))
    /\ UNCHANGED <<dbVars, memVars, calls, own, disturbed>>

PublishFaulty(r) ==
    /\ pc[r] = "publish"
    /\ \E i \in op[r].ids :
          /\ event' = [event EXCEPT ![i] = batch[r][i]]
          /\ IF op[r].kind = "delete"
             THEN End(r, Told("ok")) /\ Minds(r, {i}, Later)
             ELSE /\ Return(r, i, Scanned(r, i))
                  /\ wrote' = [wrote EXCEPT ![r][i] = batch[r][i]]
                  /\ since' = [since EXCEPT ![r][i] = 0]
    /\ UNCHANGED <<dbVars, cache, loader, calls, disturbed>>
\* The hooks have passed: prime the loader, publish the event, answer.
\* Delete has no record and leaves the loader alone.
Publish(r) ==
    /\ pc[r] = "publish"
    /\ \E i \in op[r].ids :
          /\ event' = [event EXCEPT ![i] = batch[r][i]]
          /\ IF op[r].kind = "delete"
             THEN End(r, Told("ok")) /\ Minds(r, {i}, Later) /\ UNCHANGED loader
             ELSE /\ Return(r, i, Scanned(r, i))
                  /\ loader' = [loader EXCEPT ![r][i] = Scanned(r, i)]
                  /\ wrote' = [wrote EXCEPT ![r][i] = batch[r][i]]
                  /\ since' = [since EXCEPT ![r][i] = 0]
    /\ UNCHANGED <<dbVars, cache, calls, disturbed>>

-----------------------------------------------------------------------------

Replicate(i) ==
    /\ replica[i] # row[i] /\ "lag" \in Faults
    /\ replica' = [replica EXCEPT ![i] = row[i]]
    /\ UNCHANGED <<row, version, committed, doomed, memVars, reqVars>>

Step(r) ==
    \/ \E i \in Ids : StartLoad(r, i)
    \/ \E k \in Kinds, S \in (SUBSET Ids) \ {{}} : StartWrite(r, k, S)
    \/ List(r) \/ Hit(r) \/ Read(r) \/ ReadFails(r) \/ FillRead(r)
    \/ WriteFails(r) \/ Write(r) \/ WriteDoomed(r) \/ NextRow(r) \/ EndRows(r)
    \/ FillWrite(r) \/ Drop(r) \/ HooksFail(r) \/ Publish(r)

\* The server waits for requests.
Quiet ==
    /\ \A r \in Requests : pc[r] = "idle"
    /\ UNCHANGED vars

Next == (\E r \in Requests : Step(r)) \/ (\E i \in Ids : Replicate(i)) \/ Quiet

Spec == Init /\ [][Next]_vars

-----------------------------------------------------------------------------
(* Properties. *)

\* The cache and the loaders hold, callers are answered and subscribers are
\* told only rows that were committed at some time, whatever races, lags, fails
\* or is lost, except those of a bulk statement that was rolled back.
CommittedOnly ==
    \A i \in Ids \ doomed :
        \A v \in {cache[i], event[i]} \cup {loader[r][i] : r \in Requests}
                  \cup {answer[r].v : r \in {q \in Requests :
                            answer[q].is = "record" /\ answer[q].id = i}} :
            v # None => <<i, v>> \in committed

\* An id whose operations never overlapped a write to it, and met no fault,
\* is cached as it is in the table as soon as nobody works on it: no
\* operation, single or bulk, leaves behind a row it changed or deleted.
UndisturbedIsFresh ==
    \A i \in Ids : i \notin disturbed /\ Busy(i) = {} /\ cache[i] # None =>
        cache[i] = row[i]

\* A request never reads an older row than it wrote itself.  After Create and
\* Update, whose record its loader keeps, whatever others do and the cache holds.
\* After Delete and the bulk forms, which leave the loader alone, only if that
\* held no row of the id by then, and as long as the id is not disturbed; what
\* the loader held it goes on answering.
ReadYourWrites ==
    \A r \in Requests : answer[r].is = "record" =>
        LET i == answer[r].id IN
        /\ answer[r].v >= wrote[r][i]
        /\ i \notin disturbed => answer[r].v = 0 \/ answer[r].v >= since[r][i]

=============================================================================
