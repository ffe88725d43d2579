---------------------------- MODULE MigrateProofs ----------------------------
(***************************************************************************)
(* Proofs about Migrate, for every set of sessions, every finite set of    *)
(* versions and every batch size: the type invariant, that the advisory    *)
(* lock serialises the transactions, that the tracking table matches the   *)
(* schema, what a committed Apply and a committed Rollback do, and that    *)
(* Migrate implements MigrateAbs.                                          *)
(*                                                                         *)
(* Only the holder of the lock commits, so what a session has read of the  *)
(* database since it took the lock still holds when it commits.  The       *)
(* inductive invariant says so for each program point.                     *)
(***************************************************************************)
EXTENDS Migrate, FiniteSetTheorems, WellFoundedInduction, TLAPS

\* The transaction has written no row and run no script.
Clean(s) ==
    tx[s].ins = {} /\ tx[s].del = {} /\ tx[s].up = {} /\ tx[s].down = {}

\* What has been recorded and what is left to apply make up the next batch.
BatchInProgress(s) ==
    /\ call[s].op = "apply"
    /\ tx[s].down = {} /\ tx[s].del = {}
    /\ tx[s].ins \cap call[s].todo = {}
    /\ (tx[s].ins \cup call[s].todo) \cap rec = {}
    /\ tx[s].ins \cup call[s].todo = FirstN(call[s].seen \ rec, call[s].batch)

\* The version to revert is recorded, has both scripts, and is a latest one.
RevertInProgress(s) ==
    /\ call[s].op = "rollback"
    /\ tx[s].ins = {} /\ tx[s].up = {}
    /\ call[s].latest \in rec \cap Downs \cap call[s].seen
    /\ \A w \in rec : at[w] <= at[call[s].latest]

SessionInv(s) ==
    /\ pc[s] \in {"idle", "discover", "begin", "lock", "abort", "ensure", "list",
                  "endplan", "latest", "down"} => Clean(s)
    /\ pc[s] = "ensure" => call[s].op \in {"apply", "rollback"}
    /\ pc[s] = "list" => /\ call[s].op \in {"plan", "apply"}
                         /\ call[s].op = "apply" => tx[s].table
    /\ pc[s] \in {"exec", "record"} => tx[s].table
    /\ pc[s] = "latest" => call[s].op = "rollback"
    /\ pc[s] = "endplan" => /\ rec \subseteq call[s].seen
                            /\ call[s].pending = FirstN(call[s].seen \ rec, call[s].batch)
    /\ pc[s] = "exec" => BatchInProgress(s) /\ tx[s].up = tx[s].ins
    /\ pc[s] = "record" => /\ BatchInProgress(s)
                           /\ call[s].todo # {}
                           /\ tx[s].up = tx[s].ins \cup {Lowest(call[s].todo)}
    /\ pc[s] = "down" => RevertInProgress(s)
    /\ pc[s] = "unrecord" => /\ RevertInProgress(s)
                             /\ tx[s].del = {} /\ tx[s].down = {call[s].latest}
    /\ pc[s] = "commit" => /\ RevertInProgress(s)
                           /\ tx[s].del = {call[s].latest}
                           /\ tx[s].down = {call[s].latest}

IndInv ==
    /\ TypeOK
    /\ LockHeldByRunning
    /\ RecordedMatchesSchema
    /\ rec # {} => table
    /\ \A s \in Sessions : SessionInv(s)

-----------------------------------------------------------------------------
(* What the helpers return. *)

\* A nonempty set of versions has a lowest member, and Lowest is one.
LEMMA LowestIsMember ==
    ASSUME NEW S \in SUBSET Versions, S # {}
    PROVE  /\ Lowest(S) \in S
           /\ \A w \in S : Lowest(S) <= w
  <1>1. S \in SUBSET Nat
    BY VersionsAssumption
  <1>2. PICK v \in S : \A w \in S : ~ (<<w, v>> \in OpToRel(<, Nat))
    BY <1>1, NatLessThanWellFounded, WFMin, Zenon
  <1>3. \A w \in S : ~ (w < v)
    BY <1>1, <1>2 DEF OpToRel
  <1>4. \A w \in S : v <= w
    BY <1>1, <1>3
  <1>5. QED
    BY <1>4 DEF Lowest

\* FirstN skips no version below one it returns.
LEMMA FirstNIsInitialSegment ==
    ASSUME NEW S \in SUBSET Versions, NEW n \in Nat
    PROVE  Abs!InitialSegment(FirstN(S, n), S)
  <1>1. CASE n = 0
    BY <1>1 DEF Abs!InitialSegment, FirstN
  <1>2. CASE n # 0
    <2> DEFINE Below(v) == {w \in S : w < v}
    <2>1. ASSUME NEW v \in S, NEW w \in S, w < v, Cardinality(Below(v)) < n
          PROVE  Cardinality(Below(w)) < n
      <3>1. IsFiniteSet(Below(v)) /\ IsFiniteSet(Below(w))
        BY VersionsAssumption, FS_Subset
      <3>2. Below(w) \in SUBSET Below(v)
        <4>1. \A x \in S : x \in Nat
          BY VersionsAssumption
        <4>2. \A x \in S : x < w => x < v
          BY <4>1, <2>1
        <4>3. QED
          BY <4>2
      <3>3. Cardinality(Below(w)) <= Cardinality(Below(v))
        BY <3>1, <3>2, FS_Subset
      <3>4. Cardinality(Below(w)) \in Nat /\ Cardinality(Below(v)) \in Nat
        BY <3>1, FS_CardinalityType
      <3>5. QED
        BY <2>1, <3>3, <3>4
    <2>2. FirstN(S, n) = {v \in S : Cardinality(Below(v)) < n}
      BY <1>2 DEF FirstN
    <2>3. QED
      BY <2>1, <2>2 DEF Abs!InitialSegment
  <1>3. QED
    BY <1>1, <1>2

\* What FirstN returns is among what it was given.
LEMMA FirstNIsSubset ==
    ASSUME NEW S, NEW n
    PROVE  FirstN(S, n) \subseteq S
  BY DEF FirstN

-----------------------------------------------------------------------------
(* Every variable keeps its type. *)

\* An idle session and an empty transaction have the types of TypeOK.
LEMMA NoCallType == NoCall \in Calls /\ EmptyTx \in Writes
  BY BatchAssumption DEF NoCall, Calls, Modes, Ops, EmptyTx, Writes

\* Assigning a field of a record keeps the record's type.
LEMMA CallFields ==
    ASSUME NEW c \in Calls
    PROVE  /\ \A S \in SUBSET Versions : /\ [c EXCEPT !.seen = S] \in Calls
                                        /\ [c EXCEPT !.pending = S] \in Calls
                                        /\ [c EXCEPT !.todo = S] \in Calls
           /\ \A n \in Nat : [c EXCEPT !.stamp = n] \in Calls
           /\ \A v \in Versions : [c EXCEPT !.latest = v] \in Calls
  BY DEF Calls

\* The same for what a transaction has written.
LEMMA WriteFields ==
    ASSUME NEW w \in Writes
    PROVE  \A S \in SUBSET Versions : /\ [w EXCEPT !.ins = S] \in Writes
                                     /\ [w EXCEPT !.del = S] \in Writes
                                     /\ [w EXCEPT !.up = S] \in Writes
                                     /\ [w EXCEPT !.down = S] \in Writes
  BY DEF Writes

\* The initial state is well typed.
LEMMA InitType == Init => TypeOK
  <1> SUFFICES ASSUME Init
               PROVE  TypeOK
    OBVIOUS
  <1>1. edits \in 0..MaxEdits /\ calls \in 0..MaxCalls
    BY BoundsAssumption DEF Init
  <1>2. call \in [Sessions -> Calls] /\ tx \in [Sessions -> Writes]
    BY NoCallType DEF Init
  <1>3. pc \in [Sessions -> Points]
    BY DEF Init, Points
  <1>4. at \in [Versions -> Nat] /\ fx \in [Versions -> Int]
    BY DEF Init
  <1>5. QED
    BY <1>1, <1>2, <1>3, <1>4 DEF Init, TypeOK

\* Every step keeps the variables well typed.
LEMMA NextType ==
    ASSUME TypeOK, \A s \in Sessions : SessionInv(s), [Next]_vars
    PROVE  TypeOK'
  <1> USE DEF TypeOK, Points, Held, dbVars, dirVars, Goto
  <1>1. ASSUME NEW s \in Sessions, NEW m \in Modes, StartCLI(s, m)
        PROVE  TypeOK'
    <2>1. [NoCall EXCEPT !.mode = m, !.op = "plan", !.batch = 0] \in Calls
      BY BatchAssumption DEF NoCall, Calls, Modes, Ops
    <2>2. QED
      BY <1>1, <2>1, BoundsAssumption DEF StartCLI, Start
  <1>2. ASSUME NEW s \in Sessions, NEW o \in Ops, NEW b \in BatchSizes, StartAPI(s, o, b)
        PROVE  TypeOK'
    <2>1. [NoCall EXCEPT !.mode = "api", !.op = o, !.batch = b] \in Calls
      BY DEF NoCall, Calls, Modes, Ops
    <2>2. QED
      BY <1>2, <2>1, BoundsAssumption DEF StartAPI, Start
  <1>3. ASSUME NEW s \in Sessions, Discover(s)
        PROVE  TypeOK'
    <2>1. [call[s] EXCEPT !.seen = ups] \in Calls
      BY CallFields
    <2>2. QED
      BY <1>3, <2>1 DEF Discover
  <1>4. ASSUME NEW s \in Sessions, Begin(s)
        PROVE  TypeOK'
    <2> DEFINE now == IF call[s].op = "apply" THEN clock + 1 ELSE 0
    <2>1. clock' \in Nat /\ now \in Nat
      BY <1>4 DEF Begin
    <2>2. [call[s] EXCEPT !.stamp = now] \in Calls
      BY <2>1, CallFields
    <2> HIDE DEF now
    <2>3. call' \in [Sessions -> Calls]
      BY <1>4, <2>2 DEF Begin, now
    <2>4. QED
      BY <1>4, <2>1, <2>3 DEF Begin
  <1>5. ASSUME NEW s \in Sessions, AcquireLock(s)
        PROVE  TypeOK'
    BY <1>5 DEF AcquireLock
  <1>6. ASSUME NEW s \in Sessions, EnsureTable(s)
        PROVE  TypeOK'
    BY <1>6 DEF EnsureTable, Writes
  <1>7. ASSUME NEW s \in Sessions, ListForPlan(s)
        PROVE  TypeOK'
    <2> DEFINE next == FirstN(IF table THEN call[s].seen \ Visible(s) ELSE call[s].seen,
                             call[s].batch)
    <2>1. next \in SUBSET Versions
      BY FirstNIsSubset DEF Calls
    <2>2. [call[s] EXCEPT !.pending = next] \in Calls
      BY <2>1, CallFields
    <2> HIDE DEF next
    <2>3. call' \in [Sessions -> Calls] /\ tx' \in [Sessions -> Writes]
      BY <1>7, <2>2, NoCallType DEF ListForPlan, GiveUp, next
    <2>4. pc' \in [Sessions -> Points]
      BY <1>7 DEF ListForPlan, GiveUp
    <2>5. QED
      BY <1>7, <2>3, <2>4 DEF ListForPlan
  <1>8. ASSUME NEW s \in Sessions, EndPlan(s)
        PROVE  TypeOK'
    <2>1. NextOp(s) => [NoCall EXCEPT !.mode = call[s].mode, !.op = call[s].mode] \in Calls
      BY BatchAssumption DEF NextOp, NoCall, Calls, Modes, Ops
    <2>2. QED
      BY <1>8, <2>1, NoCallType DEF EndPlan, Return
  <1>9. ASSUME NEW s \in Sessions, ListForApply(s)
        PROVE  TypeOK'
    <2> DEFINE next == FirstN(call[s].seen \ Visible(s), call[s].batch)
    <2>1. next \in SUBSET Versions
      BY FirstNIsSubset DEF Calls
    <2>2. [call[s] EXCEPT !.todo = next] \in Calls
      BY <2>1, CallFields
    <2> HIDE DEF next
    <2>3. call' \in [Sessions -> Calls]
      BY <1>9, <2>2 DEF ListForApply, next
    <2>4. QED
      BY <1>9, <2>3 DEF ListForApply
  <1>10. ASSUME NEW s \in Sessions, ExecMigration(s)
         PROVE  TypeOK'
    <2>1. call[s].todo \in SUBSET Versions /\ tx[s].up \in SUBSET Versions
      BY DEF Calls, Writes
    <2>2. Lowest(call[s].todo) \in Versions
      BY <1>10, <2>1, LowestIsMember DEF ExecMigration
    <2>3. [tx[s] EXCEPT !.up = @ \cup {Lowest(call[s].todo)}] \in Writes
      BY <2>1, <2>2, WriteFields
    <2>4. tx' \in [Sessions -> Writes] /\ call' \in [Sessions -> Calls]
      BY <1>10, <2>3, NoCallType DEF ExecMigration, GiveUp
    <2>5. pc' \in [Sessions -> Points]
      BY <1>10 DEF ExecMigration, GiveUp
    <2>6. QED
      BY <1>10, <2>4, <2>5 DEF ExecMigration
  <1>11. ASSUME NEW s \in Sessions, RecordMigration(s)
         PROVE  TypeOK'
    <2>1. call[s].todo \in SUBSET Versions /\ tx[s].ins \in SUBSET Versions
      BY DEF Calls, Writes
    <2>2. call[s].todo # {}
      BY <1>11 DEF RecordMigration, SessionInv
    <2>3. Lowest(call[s].todo) \in Versions
      BY <2>1, <2>2, LowestIsMember
    <2>4. [tx[s] EXCEPT !.ins = @ \cup ({Lowest(call[s].todo)} \ rec)] \in Writes
      BY <2>1, <2>3, WriteFields
    <2>5. [call[s] EXCEPT !.todo = @ \ {Lowest(call[s].todo)}] \in Calls
      BY <2>1, CallFields
    <2>6. tx' \in [Sessions -> Writes] /\ call' \in [Sessions -> Calls]
      BY <1>11, <2>4, <2>5 DEF RecordMigration
    <2>7. QED
      BY <1>11, <2>6 DEF RecordMigration
  <1>12. ASSUME NEW s \in Sessions, SelectLatest(s)
         PROVE  TypeOK'
    <2>1. \A v \in Downs : [call[s] EXCEPT !.latest = v] \in Calls
      BY DownsAssumption, CallFields
    <2>2. call' \in [Sessions -> Calls] /\ tx' \in [Sessions -> Writes]
      BY <1>12, <2>1, NoCallType DEF SelectLatest, GiveUp
    <2>3. pc' \in [Sessions -> Points]
      BY <1>12 DEF SelectLatest, GiveUp
    <2>4. QED
      BY <1>12, <2>2, <2>3 DEF SelectLatest
  <1>13. ASSUME NEW s \in Sessions, RunDown(s)
         PROVE  TypeOK'
    <2>1. {call[s].latest} \in SUBSET Versions
      BY <1>13 DEF RunDown, SessionInv, RevertInProgress
    <2>2. [tx[s] EXCEPT !.down = {call[s].latest}] \in Writes
      BY <2>1, WriteFields
    <2>3. tx' \in [Sessions -> Writes]
      BY <1>13, <2>2 DEF RunDown
    <2>4. QED
      BY <1>13, <2>3 DEF RunDown
  <1>14. ASSUME NEW s \in Sessions, Unrecord(s)
         PROVE  TypeOK'
    <2>1. tx' \in [Sessions -> Writes]
      BY <1>14, WriteFields DEF Unrecord
    <2>2. QED
      BY <1>14, <2>1 DEF Unrecord
  <1>15. ASSUME NEW s \in Sessions, CommitTx(s)
         PROVE  TypeOK'
    BY <1>15, NoCallType DEF CommitTx, Return, Visible, Calls, Writes
  <1>16. ASSUME NEW s \in Sessions, Abort(s)
         PROVE  TypeOK'
    BY <1>16, NoCallType DEF Abort, Return
  <1>17. ASSUME NEW s \in Sessions, Fail(s)
         PROVE  TypeOK'
    BY <1>17, NoCallType DEF Fail, Return, GiveUp
  <1>18. ASSUME NEW v \in Versions, AddMigration(v) \/ RemoveMigration(v)
         PROVE  TypeOK'
    BY <1>18, BoundsAssumption DEF AddMigration, RemoveMigration
  <1>19. CASE Finished \/ UNCHANGED vars
    BY <1>19 DEF Finished, vars
  <1>20. QED
    BY <1>1, <1>2, <1>3, <1>4, <1>5, <1>6, <1>7, <1>8, <1>9, <1>10, <1>11, <1>12,
       <1>13, <1>14, <1>15, <1>16, <1>17, <1>18, <1>19 DEF Next, Step

-----------------------------------------------------------------------------
(* The inductive invariant is kept. *)

\* Session s has moved, and neither the database nor another session has.
Local(s) ==
    /\ UNCHANGED dbVars
    /\ \A t \in Sessions \ {s} :
          pc'[t] = pc[t] /\ call'[t] = call[t] /\ tx'[t] = tx[t]

\* A session's part of the invariant speaks of its own variables and of rec
\* and at, so nothing else disturbs it.
LEMMA SessionFrame ==
    ASSUME NEW t \in Sessions, SessionInv(t), rec' = rec, at' = at,
           pc'[t] = pc[t], call'[t] = call[t], tx'[t] = tx[t]
    PROVE  SessionInv(t)'
  BY Zenon DEF SessionInv, Clean, BatchInProgress, RevertInProgress

\* For a step that is local to s, the invariant is a matter of s and the lock.
LEMMA LocalStep ==
    ASSUME IndInv, TypeOK', NEW s \in Sessions, Local(s),
           SessionInv(s)', LockHeldByRunning'
    PROVE  IndInv'
  <1>1. ASSUME NEW t \in Sessions
        PROVE  SessionInv(t)'
    <2>1. CASE t = s
      BY <2>1
    <2>2. CASE t # s
      BY <2>2, SessionFrame DEF IndInv, Local, dbVars
    <2>3. QED
      BY <2>1, <2>2
  <1>2. RecordedMatchesSchema' /\ (rec' # {} => table')
    BY DEF IndInv, RecordedMatchesSchema, Local, dbVars
  <1>3. QED
    BY <1>1, <1>2 DEF IndInv

\* A step that leaves the lock alone keeps LockHeldByRunning if its session
\* does not slip in among the holders, nor leaves them still holding.
LEMMA LockFrame ==
    ASSUME LockHeldByRunning, NEW s \in Sessions, Local(s), lock' = lock,
           pc'[s] \in Held => pc[s] \in Held,
           pc[s] \in Held \cup {"abort"} => pc'[s] \in Held \cup {"abort"}
    PROVE  LockHeldByRunning'
  BY DEF LockHeldByRunning, Local

\* The initial state satisfies the inductive invariant.
LEMMA InitIndInv == Init => IndInv
  <1> SUFFICES ASSUME Init
               PROVE  IndInv
    OBVIOUS
  <1>1. TypeOK
    BY InitType
  <1>2. LockHeldByRunning /\ RecordedMatchesSchema /\ (rec # {} => table)
    BY SessionsAssumption DEF Init, LockHeldByRunning, RecordedMatchesSchema, Held
  <1>3. \A s \in Sessions : SessionInv(s)
    BY DEF Init, SessionInv, Clean, EmptyTx
  <1>4. QED
    BY <1>1, <1>2, <1>3 DEF IndInv

\* GiveUp, which ends a call with an error, is local and keeps the invariant.
LEMMA GiveUpStep ==
    ASSUME IndInv, TypeOK', NEW s \in Sessions, GiveUp(s),
           UNCHANGED <<dbVars, lock>>, pc[s] # "abort"
    PROVE  IndInv'
  <1>1. pc'[s] = "abort" /\ tx'[s] = EmptyTx /\ Local(s)
    BY DEF GiveUp, Goto, Local, IndInv, TypeOK
  <1>2. LockHeldByRunning'
    BY <1>1, LockFrame DEF IndInv, Held
  <1>3. SessionInv(s)'
    BY <1>1 DEF SessionInv, Clean, EmptyTx
  <1>4. QED
    BY <1>1, <1>2, <1>3, LocalStep

\* Before the lock: starting a call, Discover and BeginTx.
LEMMA PreludeStep ==
    ASSUME IndInv, TypeOK', NEW s \in Sessions,
           \/ \E m \in Modes : StartCLI(s, m)
           \/ \E o \in Ops, b \in BatchSizes : StartAPI(s, o, b)
           \/ Discover(s)
           \/ Begin(s)
    PROVE  IndInv'
  <1>1. /\ pc'[s] \in {"discover", "begin", "lock"} /\ tx'[s] = tx[s] /\ lock' = lock
        /\ pc[s] \in {"idle", "discover", "begin"} /\ Local(s)
    BY DEF StartCLI, StartAPI, Start, Discover, Begin, Goto, Local, IndInv, TypeOK
  <1>2. LockHeldByRunning'
    BY <1>1, LockFrame DEF IndInv, Held
  <1>3. Clean(s)
    BY <1>1 DEF IndInv, SessionInv
  <1>4. SessionInv(s)'
    BY <1>1, <1>3 DEF SessionInv, Clean
  <1>5. QED
    BY <1>1, <1>2, <1>4, LocalStep

\* Taking the advisory lock, which nobody else then holds.
LEMMA AcquireLockStep ==
    ASSUME IndInv, TypeOK', NEW s \in Sessions, AcquireLock(s)
    PROVE  IndInv'
  <1>1. /\ pc[s] = "lock" /\ tx'[s] = tx[s] /\ call'[s] = call[s] /\ Local(s)
        /\ pc'[s] = IF call[s].op = "plan" THEN "list" ELSE "ensure"
    BY DEF AcquireLock, Goto, Local, IndInv, TypeOK
  <1>2. LockHeldByRunning'
    <2>1. \A t \in Sessions \ {s} : pc'[t] \notin Held
      BY <1>1, SessionsAssumption DEF AcquireLock, Local, IndInv, LockHeldByRunning
    <2>2. QED
      BY <1>1, <2>1 DEF AcquireLock, LockHeldByRunning, Held
  <1>3. Clean(s) /\ call[s].op \in Ops
    BY <1>1 DEF IndInv, SessionInv, TypeOK, Calls
  <1>4. SessionInv(s)'
    BY <1>1, <1>3 DEF SessionInv, Clean, Ops
  <1>5. QED
    BY <1>1, <1>2, <1>4, LocalStep

\* Creating the tracking table, seen by nobody else before the commit.
LEMMA EnsureTableStep ==
    ASSUME IndInv, TypeOK', NEW s \in Sessions, EnsureTable(s)
    PROVE  IndInv'
  <1>1. /\ pc[s] = "ensure" /\ call'[s] = call[s] /\ Local(s) /\ lock' = lock
        /\ pc'[s] = IF call[s].op = "apply" THEN "list" ELSE "latest"
        /\ tx'[s] = [tx[s] EXCEPT !.table = TRUE]
    BY DEF EnsureTable, Goto, Local, IndInv, TypeOK
  <1>2. LockHeldByRunning'
    BY <1>1, LockFrame DEF IndInv, Held
  <1>3. Clean(s) /\ call[s].op \in {"apply", "rollback"} /\ tx[s] \in Writes
    BY <1>1 DEF IndInv, SessionInv, TypeOK
  <1>4. tx'[s].table /\ Clean(s)'
    BY <1>1, <1>3 DEF Clean, Writes
  <1>5. SessionInv(s)'
    BY <1>1, <1>3, <1>4 DEF SessionInv
  <1>6. QED
    BY <1>1, <1>2, <1>5, LocalStep

\* A transaction that has written nothing sees what is committed.
LEMMA CleanSeesRecorded ==
    ASSUME NEW s \in Sessions, Clean(s)
    PROVE  Visible(s) = rec
  BY DEF Clean, Visible

\* Plan's list of what is recorded, taken under the lock.
LEMMA ListForPlanStep ==
    ASSUME IndInv, TypeOK', NEW s \in Sessions, ListForPlan(s)
    PROVE  IndInv'
  <1> DEFINE next == FirstN(call[s].seen \ rec, call[s].batch)
  <1>1. pc[s] = "list" /\ Clean(s) /\ Visible(s) = rec /\ call[s] \in Calls
    BY CleanSeesRecorded DEF ListForPlan, IndInv, SessionInv, TypeOK
  <1>2. CASE GiveUp(s)
    BY <1>1, <1>2, GiveUpStep DEF ListForPlan
  <1>3. CASE ~GiveUp(s)
    <2>1. rec \subseteq call[s].seen
      BY <1>1, <1>3 DEF ListForPlan, IndInv
    <2>2. (IF table THEN call[s].seen \ Visible(s) ELSE call[s].seen) = call[s].seen \ rec
      BY <1>1 DEF IndInv
    <2> HIDE DEF next
    <2>3. /\ call' = [call EXCEPT ![s].pending = next] /\ UNCHANGED <<tx, lock>>
          /\ Goto(s, "endplan") /\ UNCHANGED dbVars
      BY <1>3, <2>2 DEF ListForPlan, next
    <2>4. /\ call'[s] = [call[s] EXCEPT !.pending = next] /\ tx'[s] = tx[s]
          /\ pc'[s] = "endplan" /\ Local(s)
      BY <2>3 DEF Goto, Local, IndInv, TypeOK
    <2>5. LockHeldByRunning'
      BY <1>1, <2>3, <2>4, LockFrame DEF IndInv, Held
    <2>6. call'[s].pending = next /\ call'[s].seen = call[s].seen /\ call'[s].batch = call[s].batch
      BY <1>1, <2>4 DEF Calls
    <2>7. SessionInv(s)'
      BY <1>1, <2>1, <2>3, <2>4, <2>6 DEF SessionInv, Clean, next, dbVars
    <2>8. QED
      BY <2>4, <2>5, <2>7, LocalStep
  <1>4. QED
    BY <1>2, <1>3

\* A session that lets go of the lock: no other was among the holders.
LEMMA ReleaseFrame ==
    ASSUME LockHeldByRunning, NEW s \in Sessions, lock = s, lock' = None,
           \A t \in Sessions \ {s} : pc'[t] = pc[t],
           pc'[s] \notin Held
    PROVE  LockHeldByRunning'
  BY SessionsAssumption DEF LockHeldByRunning

\* The end of Plan's transaction, with or without a call after it.
LEMMA EndPlanStep ==
    ASSUME IndInv, TypeOK', NEW s \in Sessions, EndPlan(s)
    PROVE  IndInv'
  <1>1. /\ pc[s] = "endplan" /\ pc'[s] \in {"idle", "discover"} /\ tx'[s] = tx[s]
        /\ Local(s) /\ lock' = None
    BY DEF EndPlan, Return, Goto, Local, IndInv, TypeOK
  <1>2. Clean(s) /\ lock = s
    BY <1>1 DEF IndInv, SessionInv, LockHeldByRunning, Held
  <1>3. LockHeldByRunning'
    BY <1>1, <1>2, ReleaseFrame DEF IndInv, Local, Held
  <1>4. SessionInv(s)'
    BY <1>1, <1>2 DEF SessionInv, Clean
  <1>5. QED
    BY <1>1, <1>3, <1>4, LocalStep

\* Apply's choice of its batch, under the lock.
LEMMA ListForApplyStep ==
    ASSUME IndInv, TypeOK', NEW s \in Sessions, ListForApply(s)
    PROVE  IndInv'
  <1> DEFINE next == FirstN(call[s].seen \ rec, call[s].batch)
  <1>1. /\ pc[s] = "list" /\ Clean(s) /\ Visible(s) = rec /\ call[s] \in Calls
        /\ call[s].op = "apply" /\ tx[s].table
    BY CleanSeesRecorded DEF ListForApply, IndInv, SessionInv, TypeOK
  <1>2. next \subseteq call[s].seen \ rec
    BY FirstNIsSubset
  <1> HIDE DEF next
  <1>3. /\ call'[s] = [call[s] EXCEPT !.todo = next] /\ tx'[s] = tx[s]
        /\ pc'[s] = "exec" /\ Local(s) /\ lock' = lock /\ rec' = rec
    BY <1>1 DEF ListForApply, Goto, Local, IndInv, TypeOK, next, dbVars
  <1>4. LockHeldByRunning'
    BY <1>1, <1>3, LockFrame DEF IndInv, Held
  <1>5. /\ call'[s].todo = next /\ call'[s].seen = call[s].seen
        /\ call'[s].batch = call[s].batch /\ call'[s].op = "apply"
    BY <1>1, <1>3 DEF Calls
  <1>6. BatchInProgress(s)'
    BY <1>1, <1>2, <1>3, <1>5 DEF BatchInProgress, Clean, next
  <1>7. SessionInv(s)'
    BY <1>1, <1>3, <1>6 DEF SessionInv, Clean
  <1>8. QED
    BY <1>3, <1>4, <1>7, LocalStep

\* Running the next script of the batch, or finding it gone.
LEMMA ExecMigrationStep ==
    ASSUME IndInv, TypeOK', NEW s \in Sessions, ExecMigration(s)
    PROVE  IndInv'
  <1>1. /\ pc[s] = "exec" /\ BatchInProgress(s) /\ tx[s].up = tx[s].ins /\ tx[s].table
        /\ tx[s] \in Writes /\ call[s].todo # {}
    BY DEF ExecMigration, IndInv, SessionInv, TypeOK
  <1>2. CASE GiveUp(s)
    BY <1>1, <1>2, GiveUpStep DEF ExecMigration
  <1>3. CASE ~GiveUp(s)
    <2> DEFINE next == Lowest(call[s].todo)
    <2> HIDE DEF next
    <2>1. /\ tx'[s] = [tx[s] EXCEPT !.up = @ \cup {next}] /\ call'[s] = call[s]
          /\ pc'[s] = "record" /\ Local(s) /\ lock' = lock /\ rec' = rec
      BY <1>3 DEF ExecMigration, Goto, Local, IndInv, TypeOK, next, dbVars
    <2>2. LockHeldByRunning'
      BY <1>1, <2>1, LockFrame DEF IndInv, Held
    <2>3. /\ tx'[s].ins = tx[s].ins /\ tx'[s].del = tx[s].del /\ tx'[s].down = tx[s].down
          /\ tx'[s].up = tx[s].ins \cup {next} /\ tx'[s].table
      BY <1>1, <2>1 DEF Writes
    <2>4. BatchInProgress(s)'
      BY <1>1, <2>1, <2>3 DEF BatchInProgress
    <2>5. SessionInv(s)'
      BY <1>1, <2>1, <2>3, <2>4 DEF SessionInv, next
    <2>6. QED
      BY <2>1, <2>2, <2>5, LocalStep
  <1>4. QED
    BY <1>2, <1>3

\* Recording the script that has just run.
LEMMA RecordMigrationStep ==
    ASSUME IndInv, TypeOK', NEW s \in Sessions, RecordMigration(s)
    PROVE  IndInv'
  <1> DEFINE next == Lowest(call[s].todo)
  <1>1. /\ pc[s] = "record" /\ BatchInProgress(s) /\ tx[s].table /\ tx[s] \in Writes
        /\ call[s] \in Calls /\ call[s].todo # {} /\ tx[s].up = tx[s].ins \cup {next}
    BY DEF RecordMigration, IndInv, SessionInv, TypeOK
  <1>2. next \in call[s].todo
    <2>1. call[s].todo \in SUBSET Versions
      BY <1>1 DEF Calls
    <2>2. QED
      BY <1>1, <2>1, LowestIsMember
  <1>3. next \notin rec
    BY <1>1, <1>2 DEF BatchInProgress
  <1> HIDE DEF next
  <1>4. /\ tx'[s] = [tx[s] EXCEPT !.ins = @ \cup ({next} \ rec)]
        /\ call'[s] = [call[s] EXCEPT !.todo = @ \ {next}]
        /\ pc'[s] = "exec" /\ Local(s) /\ lock' = lock /\ rec' = rec
    BY DEF RecordMigration, Goto, Local, IndInv, TypeOK, next, dbVars
  <1>5. LockHeldByRunning'
    BY <1>1, <1>4, LockFrame DEF IndInv, Held
  <1>6. /\ tx'[s].ins = tx[s].ins \cup {next} /\ tx'[s].up = tx[s].up
        /\ tx'[s].del = tx[s].del /\ tx'[s].down = tx[s].down /\ tx'[s].table
    BY <1>1, <1>3, <1>4 DEF Writes
  <1>7. /\ call'[s].todo = call[s].todo \ {next} /\ call'[s].seen = call[s].seen
        /\ call'[s].batch = call[s].batch /\ call'[s].op = call[s].op
    BY <1>1, <1>4 DEF Calls
  <1>8. tx'[s].ins \cup call'[s].todo = tx[s].ins \cup call[s].todo
    BY <1>2, <1>6, <1>7
  <1>9. BatchInProgress(s)'
    BY <1>1, <1>2, <1>4, <1>6, <1>7, <1>8 DEF BatchInProgress
  <1>10. SessionInv(s)'
    BY <1>1, <1>4, <1>6, <1>9 DEF SessionInv
  <1>11. QED
    BY <1>4, <1>5, <1>10, LocalStep

\* Rollback's choice of a row with the latest applied_at.
LEMMA SelectLatestStep ==
    ASSUME IndInv, TypeOK', NEW s \in Sessions, SelectLatest(s)
    PROVE  IndInv'
  <1>1. /\ pc[s] = "latest" /\ Clean(s) /\ Visible(s) = rec /\ call[s] \in Calls
        /\ call[s].op = "rollback"
    BY CleanSeesRecorded DEF SelectLatest, IndInv, SessionInv, TypeOK
  <1>2. CASE GiveUp(s)
    BY <1>1, <1>2, GiveUpStep DEF SelectLatest
  <1>3. CASE ~GiveUp(s)
    <2>1. PICK v \in rec : /\ \A w \in rec : at[w] <= at[v]
                           /\ v \in call[s].seen \cap Downs
                           /\ call' = [call EXCEPT ![s].latest = v]
                           /\ Goto(s, "down") /\ UNCHANGED tx
      BY <1>1, <1>3 DEF SelectLatest
    <2>2. /\ tx'[s] = tx[s] /\ call'[s] = [call[s] EXCEPT !.latest = v]
          /\ pc'[s] = "down" /\ Local(s) /\ lock' = lock /\ rec' = rec /\ at' = at
      BY <2>1 DEF SelectLatest, Goto, Local, IndInv, TypeOK, dbVars
    <2>3. LockHeldByRunning'
      BY <1>1, <2>2, LockFrame DEF IndInv, Held
    <2>4. /\ call'[s].latest = v /\ call'[s].seen = call[s].seen
          /\ call'[s].op = "rollback"
      BY <1>1, <2>2 DEF Calls
    <2>5. RevertInProgress(s)'
      BY <1>1, <2>1, <2>2, <2>4 DEF RevertInProgress, Clean
    <2>6. SessionInv(s)'
      BY <1>1, <2>2, <2>5 DEF SessionInv, Clean
    <2>7. QED
      BY <2>2, <2>3, <2>6, LocalStep
  <1>4. QED
    BY <1>2, <1>3

\* Running the rollback script.
LEMMA RunDownStep ==
    ASSUME IndInv, TypeOK', NEW s \in Sessions, RunDown(s)
    PROVE  IndInv'
  <1>1. /\ pc[s] = "down" /\ Clean(s) /\ RevertInProgress(s) /\ tx[s] \in Writes
    BY DEF RunDown, IndInv, SessionInv, TypeOK
  <1>2. /\ tx'[s] = [tx[s] EXCEPT !.down = {call[s].latest}] /\ call'[s] = call[s]
        /\ pc'[s] = "unrecord" /\ Local(s) /\ lock' = lock /\ rec' = rec /\ at' = at
    BY DEF RunDown, Goto, Local, IndInv, TypeOK, dbVars
  <1>3. LockHeldByRunning'
    BY <1>1, <1>2, LockFrame DEF IndInv, Held
  <1>4. /\ tx'[s].ins = {} /\ tx'[s].del = {} /\ tx'[s].up = {}
        /\ tx'[s].down = {call[s].latest}
    BY <1>1, <1>2 DEF Writes, Clean
  <1>5. RevertInProgress(s)'
    BY <1>1, <1>2, <1>4 DEF RevertInProgress
  <1>6. SessionInv(s)'
    BY <1>2, <1>4, <1>5 DEF SessionInv
  <1>7. QED
    BY <1>2, <1>3, <1>6, LocalStep

\* Deleting the row of the reverted version.
LEMMA UnrecordStep ==
    ASSUME IndInv, TypeOK', NEW s \in Sessions, Unrecord(s)
    PROVE  IndInv'
  <1>1. /\ pc[s] = "unrecord" /\ RevertInProgress(s) /\ tx[s] \in Writes
        /\ tx[s].down = {call[s].latest}
    BY DEF Unrecord, IndInv, SessionInv, TypeOK
  <1>2. {call[s].latest} \cap rec = {call[s].latest}
    BY <1>1 DEF RevertInProgress
  <1>3. /\ tx'[s] = [tx[s] EXCEPT !.del = {call[s].latest}] /\ call'[s] = call[s]
        /\ pc'[s] = "commit" /\ Local(s) /\ lock' = lock /\ rec' = rec /\ at' = at
    BY <1>2 DEF Unrecord, Goto, Local, IndInv, TypeOK, dbVars
  <1>4. LockHeldByRunning'
    BY <1>1, <1>3, LockFrame DEF IndInv, Held
  <1>5. /\ tx'[s].ins = tx[s].ins /\ tx'[s].del = {call[s].latest}
        /\ tx'[s].up = tx[s].up /\ tx'[s].down = {call[s].latest}
    BY <1>1, <1>3 DEF Writes
  <1>6. RevertInProgress(s)'
    BY <1>1, <1>3, <1>5 DEF RevertInProgress
  <1>7. SessionInv(s)'
    BY <1>3, <1>5, <1>6 DEF SessionInv
  <1>8. QED
    BY <1>3, <1>4, <1>7, LocalStep

\* What is about to be committed: the rest of a batch, or one reverted version.
LEMMA CommitCases ==
    ASSUME IndInv, NEW s \in Sessions, ReadyToCommit(s)
    PROVE  /\ lock = s
           /\ \/ /\ call[s].op = "apply" /\ tx[s].table
                 /\ tx[s].del = {} /\ tx[s].down = {} /\ tx[s].up = tx[s].ins
                 /\ tx[s].ins \cap rec = {}
                 /\ tx[s].ins = FirstN(call[s].seen \ rec, call[s].batch)
              \/ /\ RevertInProgress(s)
                 /\ tx[s].del = {call[s].latest} /\ tx[s].down = {call[s].latest}
  <1>1. lock = s
    BY DEF ReadyToCommit, IndInv, LockHeldByRunning, Held
  <1>2. CASE pc[s] = "commit"
    BY <1>1, <1>2 DEF IndInv, SessionInv
  <1>3. CASE pc[s] = "exec" /\ call[s].todo = {}
    BY <1>1, <1>3 DEF IndInv, SessionInv, BatchInProgress
  <1>4. QED
    BY <1>2, <1>3 DEF ReadyToCommit

\* The commit: the scripts that ran and the rows written match.
LEMMA CommitTxStep ==
    ASSUME IndInv, TypeOK', NEW s \in Sessions, CommitTx(s)
    PROVE  IndInv'
  <1>1. /\ pc'[s] = "idle" /\ tx'[s] = EmptyTx /\ lock' = None
        /\ \A t \in Sessions \ {s} : pc'[t] = pc[t] /\ call'[t] = call[t] /\ tx'[t] = tx[t]
    BY DEF CommitTx, Return, Goto, IndInv, TypeOK
  <1>2. lock = s
    BY CommitCases DEF CommitTx
  <1>3. LockHeldByRunning'
    BY <1>1, <1>2, ReleaseFrame DEF IndInv, Held
  <1>4. ASSUME NEW t \in Sessions
        PROVE  SessionInv(t)'
    <2>1. CASE t = s
      BY <1>1, <2>1 DEF SessionInv, Clean, EmptyTx
    <2>2. CASE t # s
      <3>1. pc[t] \notin Held /\ pc[t] \in Points
        BY <1>2, <2>2 DEF IndInv, LockHeldByRunning, TypeOK
      <3>2. Clean(t)
        BY <3>1 DEF Held, Points, IndInv, SessionInv
      <3>3. QED
        BY <1>1, <2>2, <3>1, <3>2 DEF Held, SessionInv, Clean
    <2>3. QED
      BY <2>1, <2>2
  <1>5. \A v \in Versions : fx[v] = IF v \in rec THEN 1 ELSE 0
    BY DEF IndInv, RecordedMatchesSchema
  <1>6. RecordedMatchesSchema'
    <2>1. ASSUME NEW v \in Versions
          PROVE  fx'[v] = IF v \in rec' THEN 1 ELSE 0
      <3>1. fx'[v] = fx[v] + (IF v \in tx[s].up THEN 1 ELSE 0)
                           - (IF v \in tx[s].down THEN 1 ELSE 0)
        BY DEF CommitTx
      <3>2. rec' = (rec \cup tx[s].ins) \ tx[s].del
        BY DEF CommitTx, Visible
      <3>3. fx[v] = IF v \in rec THEN 1 ELSE 0
        BY <1>5
      <3>4. CASE /\ tx[s].del = {} /\ tx[s].down = {} /\ tx[s].up = tx[s].ins
                 /\ tx[s].ins \cap rec = {}
        BY <3>1, <3>2, <3>3, <3>4
      <3>5. CASE /\ RevertInProgress(s)
                 /\ tx[s].del = {call[s].latest} /\ tx[s].down = {call[s].latest}
        BY <3>1, <3>2, <3>3, <3>5 DEF RevertInProgress
      <3>6. QED
        BY <3>4, <3>5, CommitCases DEF CommitTx
    <2>2. QED
      BY <2>1 DEF RecordedMatchesSchema
  <1>7. rec' # {} => table'
    <2>1. rec' = (rec \cup tx[s].ins) \ tx[s].del /\ table' = (table \/ tx[s].table)
      BY DEF CommitTx, Visible
    <2>2. QED
      BY <2>1, CommitCases DEF CommitTx, RevertInProgress, IndInv
  <1>8. QED
    BY <1>3, <1>4, <1>6, <1>7 DEF IndInv

\* The server's rollback, which frees the lock of a session that failed.
LEMMA AbortStep ==
    ASSUME IndInv, TypeOK', NEW s \in Sessions, Abort(s)
    PROVE  IndInv'
  <1>1. /\ pc[s] = "abort" /\ pc'[s] = "idle" /\ tx'[s] = tx[s] /\ Local(s)
        /\ lock' = IF lock = s THEN None ELSE lock
    BY DEF Abort, Return, Goto, Local, IndInv, TypeOK
  <1>2. Clean(s)
    BY <1>1 DEF IndInv, SessionInv
  <1>3. LockHeldByRunning'
    <2>1. CASE lock = s
      BY <1>1, <2>1, ReleaseFrame DEF IndInv, Local, Held
    <2>2. CASE lock # s
      BY <1>1, <2>2 DEF IndInv, LockHeldByRunning, Local, Held
    <2>3. QED
      BY <2>1, <2>2
  <1>4. SessionInv(s)'
    BY <1>1, <1>2 DEF SessionInv, Clean
  <1>5. QED
    BY <1>1, <1>3, <1>4, LocalStep

\* A failing statement, a cancelled context, a dying process.
LEMMA FailStep ==
    ASSUME IndInv, TypeOK', NEW s \in Sessions, Fail(s)
    PROVE  IndInv'
  <1>1. CASE pc[s] \in {"lock"} \cup Held /\ GiveUp(s)
    BY <1>1, GiveUpStep DEF Fail, Held
  <1>2. CASE pc[s] \in {"discover", "begin"} /\ Return(s) /\ UNCHANGED tx
    <2>1. pc'[s] = "idle" /\ tx'[s] = tx[s] /\ Local(s) /\ lock' = lock
      BY <1>2 DEF Fail, Return, Goto, Local, IndInv, TypeOK
    <2>2. LockHeldByRunning'
      BY <1>2, <2>1, LockFrame DEF IndInv, Held
    <2>3. SessionInv(s)'
      BY <1>2, <2>1 DEF SessionInv, Clean, IndInv
    <2>4. QED
      BY <2>1, <2>2, <2>3, LocalStep
  <1>3. QED
    BY <1>1, <1>2 DEF Fail

\* Steps that touch neither the database nor a session.
LEMMA OutsideStep ==
    ASSUME IndInv, TypeOK', UNCHANGED <<dbVars, lock, pc, call, tx>>
    PROVE  IndInv'
  <1>1. \A t \in Sessions : SessionInv(t)'
    BY SessionFrame DEF IndInv, dbVars
  <1>2. QED
    BY <1>1 DEF IndInv, LockHeldByRunning, RecordedMatchesSchema, dbVars

\* Every step keeps the inductive invariant.
LEMMA NextIndInv == IndInv /\ [Next]_vars => IndInv'
  <1> SUFFICES ASSUME IndInv, [Next]_vars
               PROVE  IndInv'
    OBVIOUS
  <1>1. TypeOK'
    BY NextType DEF IndInv
  <1>2. ASSUME NEW s \in Sessions, Step(s)
        PROVE  IndInv'
    BY <1>1, <1>2, PreludeStep, AcquireLockStep, EnsureTableStep, ListForPlanStep,
       EndPlanStep, ListForApplyStep, ExecMigrationStep, RecordMigrationStep,
       SelectLatestStep, RunDownStep, UnrecordStep, CommitTxStep, AbortStep
       DEF Step
  <1>3. ASSUME NEW s \in Sessions,
               \/ \E m \in Modes : StartCLI(s, m)
               \/ \E o \in Ops, b \in BatchSizes : StartAPI(s, o, b)
        PROVE  IndInv'
    BY <1>1, <1>3, PreludeStep
  <1>4. ASSUME NEW s \in Sessions, Fail(s)
        PROVE  IndInv'
    BY <1>1, <1>4, FailStep
  <1>5. ASSUME NEW v \in Versions, AddMigration(v) \/ RemoveMigration(v)
        PROVE  IndInv'
    BY <1>1, <1>5, OutsideStep DEF AddMigration, RemoveMigration
  <1>6. CASE Finished \/ UNCHANGED vars
    BY <1>1, <1>6, OutsideStep DEF Finished, vars
  <1>7. QED
    BY <1>2, <1>3, <1>4, <1>5, <1>6 DEF Next

\* The inductive invariant holds in every reachable state.
THEOREM InductiveInvariant == Spec => []IndInv
  BY InitIndInv, NextIndInv, PTL DEF Spec

-----------------------------------------------------------------------------
(* The theorems. *)

\* Every variable keeps its type, however calls interleave and fail.
THEOREM TypeCorrect == Spec => []TypeOK
  <1>1. IndInv => TypeOK
    BY DEF IndInv
  <1>2. QED
    BY <1>1, InductiveInvariant, PTL

\* The advisory lock serialises Plan, Apply and Rollback.
THEOREM LockSerialises == Spec => []LockHeldByRunning
  <1>1. IndInv => LockHeldByRunning
    BY DEF IndInv
  <1>2. QED
    BY <1>1, InductiveInvariant, PTL

\* erm_schema_migrations records exactly the migrations in effect.
THEOREM TableMatchesSchema == Spec => []RecordedMatchesSchema
  <1>1. IndInv => RecordedMatchesSchema
    BY DEF IndInv
  <1>2. QED
    BY <1>1, InductiveInvariant, PTL

\* What Plan returns was true when it let go of the lock.
THEOREM PlanCorrect == Spec => []PlanIsCurrent
  <1>1. IndInv => PlanIsCurrent
    BY DEF IndInv, SessionInv, PlanIsCurrent
  <1>2. QED
    BY <1>1, InductiveInvariant, PTL

\* From the invariant, what a committing Apply adds.
LEMMA ApplyStep ==
    ASSUME IndInv, NEW s \in Sessions, CommitTx(s), call[s].op = "apply"
    PROVE  rec' = rec \cup FirstN(call[s].seen \ rec, call[s].batch)
  BY CommitCases DEF CommitTx, Visible, RevertInProgress

\* A committed Apply adds exactly the next batch.
THEOREM ApplyCorrect == Spec => AppliesNextBatch
  <1>1. IndInv /\ [Next]_vars =>
          [\A s \in Sessions : CommitTx(s) /\ call[s].op = "apply" =>
              rec' = rec \cup FirstN(call[s].seen \ rec, call[s].batch)]_vars
    BY ApplyStep
  <1>2. QED
    BY <1>1, InductiveInvariant, PTL DEF Spec, AppliesNextBatch

\* From the invariant, what a committing Rollback removes.
LEMMA RollbackStep ==
    ASSUME IndInv, NEW s \in Sessions, CommitTx(s), call[s].op = "rollback"
    PROVE  \E v \in rec \cap Downs \cap call[s].seen :
              /\ rec' = rec \ {v}
              /\ \A w \in rec : at[w] <= at[v]
  <1>1. RevertInProgress(s) /\ tx[s].del = {call[s].latest}
    BY CommitCases DEF CommitTx
  <1>2. rec' = rec \ {call[s].latest}
    BY <1>1 DEF CommitTx, Visible, RevertInProgress
  <1>3. QED
    BY <1>1, <1>2 DEF RevertInProgress

\* A committed Rollback removes one version with the latest applied_at.
THEOREM RollbackCorrect == Spec => RevertsLatestStamp
  <1>1. IndInv /\ [Next]_vars =>
          [\A s \in Sessions : CommitTx(s) /\ call[s].op = "rollback" =>
              \E v \in rec \cap Downs \cap call[s].seen :
                 /\ rec' = rec \ {v}
                 /\ \A w \in rec : at[w] <= at[v]]_vars
    BY RollbackStep
  <1>2. QED
    BY <1>1, InductiveInvariant, PTL DEF Spec, RevertsLatestStamp

\* What the sessions have seen of the directory, for MigrateAbs.
views == [s \in Sessions |-> call[s].seen]

\* A call that ends forgets the directory.
LEMMA ForgetStep ==
    ASSUME TypeOK, NEW s \in Sessions, call' = [call EXCEPT ![s] = NoCall]
    PROVE  views' = [views EXCEPT ![s] = {}]
  BY DEF views, TypeOK, NoCall

\* A step that keeps what its session has seen keeps the views.
LEMMA KeepStep ==
    ASSUME TypeOK, NEW s \in Sessions, NEW c, c.seen = call[s].seen,
           call' = [call EXCEPT ![s] = c]
    PROVE  views' = views
  BY DEF views, TypeOK

\* A commit is one ApplyBatch or one Revert.
LEMMA CommitImplementsAbs ==
    ASSUME IndInv, NEW s \in Sessions, CommitTx(s)
    PROVE  Abs!AbsNext
  <1>1. /\ rec' = (rec \cup tx[s].ins) \ tx[s].del
        /\ fx' = [v \in Versions |-> fx[v] + (IF v \in tx[s].up THEN 1 ELSE 0)
                                           - (IF v \in tx[s].down THEN 1 ELSE 0)]
        /\ ups' = ups
    BY DEF CommitTx, Visible, dirVars
  <1>2. fx \in [Versions -> Int] /\ call[s] \in Calls /\ rec \in SUBSET Versions /\ TypeOK
    BY DEF IndInv, TypeOK
  <1>3. views' = [views EXCEPT ![s] = {}] /\ views[s] = call[s].seen
    BY <1>2, ForgetStep DEF CommitTx, Return, views
  <1>4. CASE /\ tx[s].del = {} /\ tx[s].down = {} /\ tx[s].up = tx[s].ins
             /\ tx[s].ins = FirstN(call[s].seen \ rec, call[s].batch)
    <2>1. call[s].seen \in SUBSET Versions /\ call[s].batch \in Nat
      BY <1>2, BatchAssumption DEF Calls
    <2>2. Abs!InitialSegment(tx[s].ins, views[s] \ rec)
      BY <1>3, <1>4, <2>1, FirstNIsInitialSegment
    <2>3. tx[s].ins \in SUBSET Versions
      BY <1>4, <2>1, FirstNIsSubset
    <2>4. rec' = rec \cup tx[s].ins
      BY <1>1, <1>4
    <2>5. fx' = [v \in Versions |-> fx[v] + (IF v \in tx[s].ins THEN 1 ELSE 0)]
      BY <1>1, <1>2, <1>4
    <2>6. \E batch \in SUBSET Versions : Abs!ApplyBatch(s, batch)
      BY <1>1, <1>3, <2>2, <2>3, <2>4, <2>5 DEF Abs!ApplyBatch, Abs!InitialSegment, views
    <2>7. QED
      BY <2>6, Zenon DEF Abs!AbsNext
  <1>5. CASE /\ RevertInProgress(s)
             /\ tx[s].del = {call[s].latest} /\ tx[s].down = {call[s].latest}
    <2>1. call[s].latest \in rec \cap Downs \cap views[s] /\ call[s].latest \in Versions
      BY <1>2, <1>3, <1>5 DEF RevertInProgress
    <2>2. rec' = rec \ {call[s].latest}
      BY <1>1, <1>5 DEF RevertInProgress
    <2>3. fx' = [fx EXCEPT ![call[s].latest] = @ - 1]
      <3>1. tx[s].up = {} /\ tx[s].down = {call[s].latest}
        BY <1>5 DEF RevertInProgress
      <3>2. fx' = [v \in Versions |-> IF v = call[s].latest THEN fx[v] - 1 ELSE fx[v]]
        BY <1>1, <1>2, <3>1
      <3>3. QED
        BY <1>2, <2>1, <3>2
    <2>4. \E v \in Versions : Abs!Revert(s, v)
      BY <1>1, <1>3, <2>1, <2>2, <2>3 DEF Abs!Revert, views
    <2>5. QED
      BY <2>4, Zenon DEF Abs!AbsNext
  <1>6. QED
    BY <1>4, <1>5, CommitCases DEF CommitTx

\* Every other step of a session leaves MigrateAbs alone or is a Look.
LEMMA OtherStepsImplementAbs ==
    ASSUME IndInv, NEW s \in Sessions,
           \/ \E m \in Modes : StartCLI(s, m)
           \/ \E o \in Ops, b \in BatchSizes : StartAPI(s, o, b)
           \/ Step(s) /\ ~CommitTx(s)
           \/ Fail(s)
    PROVE  Abs!Look(s) \/ UNCHANGED <<rec, fx, ups, views>>
  <1>1. TypeOK /\ call[s] \in Calls /\ call \in [Sessions -> Calls]
    BY DEF IndInv, TypeOK
  <1>2. UNCHANGED <<rec, fx, ups>>
    BY DEF StartCLI, StartAPI, Start, Step, Discover, Begin, AcquireLock, EnsureTable,
       ListForPlan, EndPlan, ListForApply, ExecMigration, RecordMigration,
       SelectLatest, RunDown, Unrecord, Abort, Fail, dbVars, dirVars
  <1>3. CASE views' = [views EXCEPT ![s] = ups] \/ views' = [views EXCEPT ![s] = {}]
    BY <1>2, <1>3 DEF Abs!Look, views
  <1>4. CASE Discover(s)
    <2>1. views' = [views EXCEPT ![s] = ups]
      BY <1>1, <1>4 DEF Discover, views, Calls
    <2>2. QED
      BY <1>3, <2>1
  <1>5. CASE GiveUp(s) \/ Return(s)
    BY <1>1, <1>3, <1>5, ForgetStep DEF GiveUp, Return
  <1>6. CASE \E c \in Calls : c.seen = {} /\ call' = [call EXCEPT ![s] = c]
    <2>1. views' = [views EXCEPT ![s] = {}]
      BY <1>1, <1>6 DEF views
    <2>2. QED
      BY <1>3, <2>1
  <1>7. CASE \E c \in Calls : c.seen = call[s].seen /\ call' = [call EXCEPT ![s] = c]
    BY <1>1, <1>2, <1>7, KeepStep
  <1>8. CASE UNCHANGED call
    BY <1>2, <1>8 DEF views
  <1>9. CASE \/ \E m \in Modes : StartCLI(s, m)
             \/ \E o \in Ops, b \in BatchSizes : StartAPI(s, o, b)
    <2>1. PICK m \in Modes \cup {"api"}, o \in Ops, b \in BatchSizes : Start(s, m, o, b)
      BY <1>9, BatchAssumption DEF StartCLI, StartAPI, Modes, Ops
    <2>2. /\ [NoCall EXCEPT !.mode = m, !.op = o, !.batch = b] \in Calls
          /\ [NoCall EXCEPT !.mode = m, !.op = o, !.batch = b].seen = {}
      BY DEF NoCall, Calls
    <2>3. QED
      BY <1>6, <2>1, <2>2 DEF Start
  <1>10. CASE EndPlan(s)
    <2>1. CASE Return(s)
      BY <1>5, <2>1
    <2>2. CASE ~Return(s)
      <3>1. /\ NextOp(s)
            /\ call' = [call EXCEPT ![s] = [NoCall EXCEPT !.mode = call[s].mode,
                                                         !.op = call[s].mode]]
        BY <1>10, <2>2 DEF EndPlan
      <3>2. /\ [NoCall EXCEPT !.mode = call[s].mode, !.op = call[s].mode] \in Calls
            /\ [NoCall EXCEPT !.mode = call[s].mode, !.op = call[s].mode].seen = {}
        BY <3>1, BatchAssumption DEF NextOp, NoCall, Calls, Modes, Ops
      <3>3. QED
        BY <1>6, <3>1, <3>2
    <2>3. QED
      BY <2>1, <2>2
  <1>11. CASE Begin(s)
    <2>1. call' = [call EXCEPT ![s] =
                     [call[s] EXCEPT !.stamp = IF call[s].op = "apply" THEN clock + 1 ELSE 0]]
      BY <1>1, <1>11 DEF Begin
    <2>2. [call[s] EXCEPT !.stamp = IF call[s].op = "apply" THEN clock + 1 ELSE 0].seen
            = call[s].seen
      BY <1>1 DEF Calls
    <2>3. QED
      BY <1>1, <1>2, <2>1, <2>2, KeepStep
  <1>12. CASE ListForPlan(s) /\ ~GiveUp(s)
    <2> DEFINE next == FirstN(IF table THEN call[s].seen \ Visible(s) ELSE call[s].seen,
                             call[s].batch)
    <2> HIDE DEF next
    <2>1. call' = [call EXCEPT ![s] = [call[s] EXCEPT !.pending = next]]
      BY <1>1, <1>12 DEF ListForPlan, next
    <2>2. [call[s] EXCEPT !.pending = next].seen = call[s].seen
      BY <1>1 DEF Calls
    <2>3. QED
      BY <1>1, <1>2, <2>1, <2>2, KeepStep
  <1>13. CASE ListForApply(s) \/ RecordMigration(s)
    <2>1. PICK next : call' = [call EXCEPT ![s] = [call[s] EXCEPT !.todo = next]]
      BY <1>1, <1>13 DEF ListForApply, RecordMigration
    <2>2. [call[s] EXCEPT !.todo = next].seen = call[s].seen
      BY <1>1 DEF Calls
    <2>3. QED
      BY <1>1, <1>2, <2>1, <2>2, KeepStep
  <1>14. CASE SelectLatest(s) /\ ~GiveUp(s)
    <2>1. PICK v : call' = [call EXCEPT ![s] = [call[s] EXCEPT !.latest = v]]
      BY <1>1, <1>14 DEF SelectLatest
    <2>2. [call[s] EXCEPT !.latest = v].seen = call[s].seen
      BY <1>1 DEF Calls
    <2>3. QED
      BY <1>1, <1>2, <2>1, <2>2, KeepStep
  <1>15. CASE \/ AcquireLock(s) \/ EnsureTable(s) \/ RunDown(s) \/ Unrecord(s)
              \/ ExecMigration(s) /\ ~GiveUp(s)
    BY <1>8, <1>15 DEF AcquireLock, EnsureTable, RunDown, Unrecord, ExecMigration
  <1>16. CASE Abort(s) \/ Fail(s)
    BY <1>5, <1>16 DEF Abort, Fail
  <1>17. QED
    BY <1>4, <1>5, <1>9, <1>10, <1>11, <1>12, <1>13, <1>14, <1>15, <1>16 DEF Step

\* Every step is a step of MigrateAbs or leaves its variables alone.
LEMMA NextImplementsAbs == IndInv /\ [Next]_vars => [Abs!AbsNext]_(Abs!absVars)
  <1> SUFFICES ASSUME IndInv, [Next]_vars
               PROVE  Abs!AbsNext \/ UNCHANGED <<rec, fx, ups, views>>
    BY DEF Abs!absVars, views
  <1>1. ASSUME NEW s \in Sessions, CommitTx(s)
        PROVE  Abs!AbsNext
    BY <1>1, CommitImplementsAbs
  <1>2. ASSUME NEW s \in Sessions,
               \/ \E m \in Modes : StartCLI(s, m)
               \/ \E o \in Ops, b \in BatchSizes : StartAPI(s, o, b)
               \/ Step(s) /\ ~CommitTx(s)
               \/ Fail(s)
        PROVE  Abs!AbsNext \/ UNCHANGED <<rec, fx, ups, views>>
    BY <1>2, OtherStepsImplementAbs DEF Abs!AbsNext
  <1>3. ASSUME NEW v \in Versions, AddMigration(v) \/ RemoveMigration(v)
        PROVE  Abs!AbsNext
    <2>1. ups \in SUBSET Versions
      BY DEF IndInv, TypeOK
    <2>2. UNCHANGED <<rec, fx, call>> /\ ups' \in SUBSET Versions
      BY <1>3, <2>1 DEF AddMigration, RemoveMigration, dbVars
    <2>3. QED
      BY <2>2 DEF Abs!AbsNext, Abs!Deploy
  <1>4. CASE Finished \/ UNCHANGED vars
    BY <1>4 DEF Finished, vars, dbVars, dirVars, views
  <1>5. QED
    BY <1>1, <1>2, <1>3, <1>4 DEF Next

\* Every behaviour of the sessions is one of looks, whole batches and single
\* reverts.
THEOREM Implementation == Spec => ImplementsAbs
  <1>1. Init => Abs!AbsInit
    BY DEF Init, Abs!AbsInit, NoCall
  <1>2. QED
    BY <1>1, InductiveInvariant, NextImplementsAbs, PTL DEF Spec, ImplementsAbs, Abs!AbsSpec

=============================================================================
