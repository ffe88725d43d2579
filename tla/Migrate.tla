------------------------------ MODULE Migrate ------------------------------
(***************************************************************************)
(* Concurrent runs of `erm migrate` (orm/migrate/migrate.go, driven by     *)
(* cli/migrate.go) against one PostgreSQL database.                        *)
(*                                                                         *)
(* A session is one database connection: a run of the CLI, or a program    *)
(* that calls migrate.Plan, Apply or Rollback itself.  Every call is a     *)
(* transaction that takes pg_advisory_xact_lock, reads                     *)
(* erm_schema_migrations, runs scripts and commits; the CLI always plans   *)
(* in a transaction of its own first.  Any statement may fail, the context *)
(* may be cancelled and the process may die: the server then rolls the     *)
(* transaction back, some time later, and frees the lock.                  *)
(*                                                                         *)
(* A version is a number: Discover sorts by the version string, and only   *)
(* the order matters.  Each version has one up script, and Downs are those *)
(* that have a rollback script too.                                        *)
(***************************************************************************)
EXTENDS Integers, FiniteSets

CONSTANTS
    Sessions,   \* database connections
    None,       \* no session holds the advisory lock
    Versions,   \* versions a migration file can have
    Downs,      \* versions that ship a rollback script
    BatchSizes, \* the WithBatchSize values callers use, 0 for all
    MaxCalls,   \* bound: calls started, over all sessions
    MaxEdits    \* bound: changes to the migrations directory

ASSUME SessionsAssumption == None \notin Sessions
ASSUME VersionsAssumption == Versions \subseteq Nat /\ IsFiniteSet(Versions)
ASSUME DownsAssumption == Downs \subseteq Versions
ASSUME BatchAssumption == BatchSizes \subseteq Nat /\ 0 \in BatchSizes
ASSUME BoundsAssumption == MaxCalls \in Nat /\ MaxEdits \in Nat

VARIABLES
    \* The database, as committed.
    table,      \* erm_schema_migrations exists
    rec,        \* the versions it holds
    at,         \* at[v]: applied_at of v's row, 0 when there is none
    fx,         \* fx[v]: v's up script has run this many times more than its down
    lock,       \* the session holding the advisory lock, or None
    clock,      \* the time now() gave the latest transaction
    \* The migrations directory.
    ups,        \* versions whose up script is there
    edits,      \* changes made to it so far
    \* The sessions.
    pc,         \* what the session does next
    call,       \* the local variables of its call, NoCall when it is idle
    tx,         \* what its transaction has written and not committed
    calls       \* calls started so far

dbVars == <<table, rec, at, fx>>
dirVars == <<ups, edits>>
vars == <<dbVars, lock, clock, dirVars, pc, call, tx, calls>>

Modes == {"apply", "rollback"}          \* of the CLI, when it does more than Plan
Ops == {"plan", "apply", "rollback"}    \* migrate.Plan, Apply, Rollback

\* Program points of a session that holds the lock ...
Held == {"ensure", "list", "endplan", "exec", "record",
         "latest", "down", "unrecord", "commit"}
\* ... and all of them.  At "abort" the call has failed and the server has not
\* yet rolled its transaction back and freed its lock.
Points == Held \cup {"idle", "discover", "begin", "lock", "abort"}

Calls == [mode: Modes \cup {"api"},
          op: Ops,
          batch: BatchSizes,            \* Options.BatchSize
          seen: SUBSET Versions,        \* the up versions Discover found
          stamp: Nat,                   \* now() of the transaction
          pending: SUBSET Versions,     \* PlanResult.Pending
          todo: SUBSET Versions,        \* toApply, less what has been recorded
          latest: Versions \cup {0}]    \* the version Rollback selected

NoCall == [mode |-> "api", op |-> "plan", batch |-> 0, seen |-> {}, stamp |-> 0,
           pending |-> {}, todo |-> {}, latest |-> 0]

\* Rows inserted and deleted, up and down scripts run, the table created.
Writes == [table: BOOLEAN, ins: SUBSET Versions, del: SUBSET Versions,
           up: SUBSET Versions, down: SUBSET Versions]

EmptyTx == [table |-> FALSE, ins |-> {}, del |-> {}, up |-> {}, down |-> {}]

TypeOK ==
    /\ table \in BOOLEAN
    /\ rec \in SUBSET Versions
    /\ at \in [Versions -> Nat]
    /\ fx \in [Versions -> Int]
    /\ lock \in Sessions \cup {None}
    /\ clock \in Nat
    /\ ups \in SUBSET Versions
    /\ edits \in 0..MaxEdits
    /\ pc \in [Sessions -> Points]
    /\ call \in [Sessions -> Calls]
    /\ tx \in [Sessions -> Writes]
    /\ calls \in 0..MaxCalls

Init ==
    /\ table = FALSE
    /\ rec = {}
    /\ at = [v \in Versions |-> 0]
    /\ fx = [v \in Versions |-> 0]
    /\ lock = None
    /\ clock = 0
    /\ ups \in SUBSET Versions
    /\ edits = 0
    /\ pc = [s \in Sessions |-> "idle"]
    /\ call = [s \in Sessions |-> NoCall]
    /\ tx = [s \in Sessions |-> EmptyTx]
    /\ calls = 0

-----------------------------------------------------------------------------
(* Parts the calls share.  Definitions named *Faulty* are not the code:    *)
(* each is a plausible bug in the definition after it, which some property *)
(* below must tell from the code.                                          *)

\* The migration the loop over toApply takes next: Discover sorted the files.
Lowest(S) == CHOOSE v \in S : \A w \in S : v <= w

FirstNFaultyOrder(S, n) ==
    IF n = 0 THEN S ELSE {v \in S : Cardinality({w \in S : w > v}) < n}
\* The first n of S in version order, all of it when n is 0 (BatchSize).
FirstN(S, n) ==
    IF n = 0 THEN S ELSE {v \in S : Cardinality({w \in S : w < v}) < n}

\* What a SELECT of session s sees at READ COMMITTED: rows committed by now,
\* and its own writes.
Visible(s) == (rec \cup tx[s].ins) \ tx[s].del

Goto(s, point) == pc' = [pc EXCEPT ![s] = point]

\* The call returns; its local variables are gone.
Return(s) ==
    /\ Goto(s, "idle")
    /\ call' = [call EXCEPT ![s] = NoCall]

\* The call ends with an error: what its transaction wrote is lost.
GiveUp(s) ==
    /\ Goto(s, "abort")
    /\ call' = [call EXCEPT ![s] = NoCall]
    /\ tx' = [tx EXCEPT ![s] = EmptyTx]

-----------------------------------------------------------------------------
(* Starting a call. *)

Start(s, m, o, b) ==
    /\ pc[s] = "idle"
    /\ calls < MaxCalls
    /\ calls' = calls + 1
    /\ call' = [call EXCEPT ![s] = [NoCall EXCEPT !.mode = m, !.op = o, !.batch = b]]
    /\ Goto(s, "discover")
    /\ UNCHANGED <<dbVars, lock, clock, dirVars, tx>>

\* `erm migrate --mode m`: plan first, with no batch size.
StartCLI(s, m) == Start(s, m, "plan", 0)

\* A program calling migrate.Plan, Apply or Rollback (which has no batches)
\* itself; `erm migrate --mode plan` is a Plan without a batch size.
StartAPI(s, o, b) ==
    /\ o = "rollback" => b = 0
    /\ Start(s, "api", o, b)

\* Discover reads the directory before the transaction begins.
Discover(s) ==
    /\ pc[s] = "discover"
    /\ call' = [call EXCEPT ![s].seen = ups]
    /\ Goto(s, "begin")
    /\ UNCHANGED <<dbVars, lock, clock, dirVars, tx, calls>>

\* BeginTx.  now() is the time the transaction began, and only Apply's INSERT
\* uses it, so only its transactions advance the clock.
Begin(s) ==
    /\ pc[s] = "begin"
    /\ clock' = IF call[s].op = "apply" THEN clock + 1 ELSE clock
    /\ call' = [call EXCEPT ![s].stamp = IF call[s].op = "apply" THEN clock + 1 ELSE 0]
    /\ Goto(s, "lock")
    /\ UNCHANGED <<dbVars, lock, dirVars, tx, calls>>

\* SELECT pg_advisory_xact_lock returns.
AcquireLock(s) ==
    /\ pc[s] = "lock"
    /\ lock = None
    /\ lock' = s
    /\ Goto(s, IF call[s].op = "plan" THEN "list" ELSE "ensure")
    /\ UNCHANGED <<dbVars, clock, dirVars, call, tx, calls>>

\* CREATE TABLE IF NOT EXISTS erm_schema_migrations.
EnsureTable(s) ==
    /\ pc[s] = "ensure"
    /\ tx' = [tx EXCEPT ![s].table = TRUE]
    /\ Goto(s, IF call[s].op = "apply" THEN "list" ELSE "latest")
    /\ UNCHANGED <<dbVars, lock, clock, dirVars, call, calls>>

-----------------------------------------------------------------------------
(* Plan. *)

ListForPlanFaulty(s) ==
    /\ pc[s] = "list"
    /\ call[s].op = "plan"
    /\ call' = [call EXCEPT ![s].pending =
           FirstN(call[s].seen \ Visible(s), call[s].batch)]
    /\ Goto(s, "endplan")
    /\ UNCHANGED <<dbVars, lock, clock, dirVars, tx, calls>>
\* Plan reads the recorded versions.  Without a tracking table everything is
\* pending; a recorded version that has no up script is schema drift.
ListForPlan(s) ==
    /\ pc[s] = "list"
    /\ call[s].op = "plan"
    /\ \/ /\ table => Visible(s) \subseteq call[s].seen
          /\ call' = [call EXCEPT ![s].pending =
                 FirstN(IF table THEN call[s].seen \ Visible(s) ELSE call[s].seen,
                        call[s].batch)]
          /\ Goto(s, "endplan")
          /\ UNCHANGED tx
       \/ /\ table
          /\ ~(Visible(s) \subseteq call[s].seen)
          /\ GiveUp(s)
    /\ UNCHANGED <<dbVars, lock, clock, dirVars, calls>>

NextOpFaulty(s) == call[s].pending # {}
\* The CLI goes on after its plan, in a new transaction, or stops there.
NextOp(s) ==
    \/ call[s].mode = "apply" /\ call[s].pending # {}
    \/ call[s].mode = "rollback"

\* Plan's deferred tx.Rollback, and what the CLI does with the plan.
EndPlan(s) ==
    /\ pc[s] = "endplan"
    /\ lock' = None
    /\ \/ /\ NextOp(s)
          /\ call' = [call EXCEPT ![s] = [NoCall EXCEPT !.mode = call[s].mode,
                                                        !.op = call[s].mode]]
          /\ Goto(s, "discover")
       \/ ~NextOp(s) /\ Return(s)
    /\ UNCHANGED <<dbVars, clock, dirVars, tx, calls>>

-----------------------------------------------------------------------------
(* Apply. *)

ListForApplyFaulty(s) ==
    /\ pc[s] = "list"
    /\ call[s].op = "apply"
    /\ call' = [call EXCEPT ![s].todo = FirstN(call[s].seen, call[s].batch)]
    /\ Goto(s, "exec")
    /\ UNCHANGED <<dbVars, lock, clock, dirVars, tx, calls>>
\* Apply reads the recorded versions and forms toApply.  It does not look for
\* drift.
ListForApply(s) ==
    /\ pc[s] = "list"
    /\ call[s].op = "apply"
    /\ call' = [call EXCEPT ![s].todo =
           FirstN(call[s].seen \ Visible(s), call[s].batch)]
    /\ Goto(s, "exec")
    /\ UNCHANGED <<dbVars, lock, clock, dirVars, tx, calls>>

\* ReadFile and Exec of the next script; a file that has gone ends the call.
ExecMigration(s) ==
    /\ pc[s] = "exec"
    /\ call[s].todo # {}
    /\ \/ /\ Lowest(call[s].todo) \in ups
          /\ tx' = [tx EXCEPT ![s].up = @ \cup {Lowest(call[s].todo)}]
          /\ Goto(s, "record")
          /\ UNCHANGED call
       \/ Lowest(call[s].todo) \notin ups /\ GiveUp(s)
    /\ UNCHANGED <<dbVars, lock, clock, dirVars, calls>>

\* INSERT ... ON CONFLICT DO NOTHING.
RecordMigration(s) ==
    /\ pc[s] = "record"
    /\ tx' = [tx EXCEPT ![s].ins = @ \cup ({Lowest(call[s].todo)} \ rec)]
    /\ call' = [call EXCEPT ![s].todo = @ \ {Lowest(call[s].todo)}]
    /\ Goto(s, "exec")
    /\ UNCHANGED <<dbVars, lock, clock, dirVars, calls>>

-----------------------------------------------------------------------------
(* Rollback. *)

SelectLatestFaulty(s) ==
    /\ pc[s] = "latest"
    /\ \/ \E v \in Visible(s) :
             /\ \A w \in Visible(s) : at[v] <= at[w]
             /\ \/ /\ v \in call[s].seen \cap Downs
                   /\ call' = [call EXCEPT ![s].latest = v]
                   /\ Goto(s, "down")
                   /\ UNCHANGED tx
                \/ v \notin call[s].seen \cap Downs /\ GiveUp(s)
       \/ Visible(s) = {} /\ GiveUp(s)
    /\ UNCHANGED <<dbVars, lock, clock, dirVars, calls>>
\* SELECT version ... ORDER BY applied_at DESC LIMIT 1: any of the rows that
\* share the highest applied_at.  No row, a version without an up script
\* (drift) and one without a rollback script end the call.
SelectLatest(s) ==
    /\ pc[s] = "latest"
    /\ \/ \E v \in Visible(s) :
             /\ \A w \in Visible(s) : at[w] <= at[v]
             /\ \/ /\ v \in call[s].seen \cap Downs
                   /\ call' = [call EXCEPT ![s].latest = v]
                   /\ Goto(s, "down")
                   /\ UNCHANGED tx
                \/ v \notin call[s].seen \cap Downs /\ GiveUp(s)
       \/ Visible(s) = {} /\ GiveUp(s)
    /\ UNCHANGED <<dbVars, lock, clock, dirVars, calls>>

\* ReadFile and Exec of the rollback script.
RunDown(s) ==
    /\ pc[s] = "down"
    /\ tx' = [tx EXCEPT ![s].down = {call[s].latest}]
    /\ Goto(s, "unrecord")
    /\ UNCHANGED <<dbVars, lock, clock, dirVars, call, calls>>

UnrecordFaulty(s) ==
    /\ pc[s] = "unrecord"
    /\ Goto(s, "commit")
    /\ UNCHANGED <<dbVars, lock, clock, dirVars, call, tx, calls>>
\* DELETE FROM erm_schema_migrations WHERE version = latest.
Unrecord(s) ==
    /\ pc[s] = "unrecord"
    /\ tx' = [tx EXCEPT ![s].del = {call[s].latest} \cap rec]
    /\ Goto(s, "commit")
    /\ UNCHANGED <<dbVars, lock, clock, dirVars, call, calls>>

-----------------------------------------------------------------------------
(* The end of a transaction. *)

ReadyToCommit(s) ==
    \/ pc[s] = "commit"
    \/ pc[s] = "exec" /\ call[s].todo = {}

\* tx.Commit takes effect at the server, which releases the lock with it.  The
\* call then returns nil, or an error when the server's answer was lost.
CommitTx(s) ==
    /\ ReadyToCommit(s)
    /\ table' = (table \/ tx[s].table)
    /\ rec' = Visible(s)
    /\ at' = [v \in Versions |-> IF v \in tx[s].ins THEN call[s].stamp
                                 ELSE IF v \in tx[s].del THEN 0 ELSE at[v]]
    /\ fx' = [v \in Versions |-> fx[v] + (IF v \in tx[s].up THEN 1 ELSE 0)
                                       - (IF v \in tx[s].down THEN 1 ELSE 0)]
    /\ lock' = None
    /\ tx' = [tx EXCEPT ![s] = EmptyTx]
    /\ Return(s)
    /\ UNCHANGED <<clock, dirVars, calls>>

\* A statement fails, the context is cancelled or the process dies.  Before
\* BeginTx there is nothing to roll back.
Fail(s) ==
    /\ \/ pc[s] \in {"discover", "begin"} /\ Return(s) /\ UNCHANGED tx
       \/ pc[s] \in {"lock"} \cup Held /\ GiveUp(s)
    /\ UNCHANGED <<dbVars, lock, clock, dirVars, calls>>

AbortFaulty(s) ==
    /\ pc[s] = "abort"
    /\ Return(s)
    /\ UNCHANGED <<dbVars, lock, clock, dirVars, tx, calls>>
\* The deferred tx.Rollback, or the server noticing that the client is gone:
\* the lock goes with the transaction.
Abort(s) ==
    /\ pc[s] = "abort"
    /\ lock' = IF lock = s THEN None ELSE lock
    /\ Return(s)
    /\ UNCHANGED <<dbVars, clock, dirVars, tx, calls>>

-----------------------------------------------------------------------------
(* The directory changes under the sessions: a checkout, a deploy. *)

AddMigration(v) ==
    /\ edits < MaxEdits
    /\ v \notin ups
    /\ ups' = ups \cup {v}
    /\ edits' = edits + 1
    /\ UNCHANGED <<dbVars, lock, clock, pc, call, tx, calls>>

RemoveMigration(v) ==
    /\ edits < MaxEdits
    /\ v \in ups
    /\ ups' = ups \ {v}
    /\ edits' = edits + 1
    /\ UNCHANGED <<dbVars, lock, clock, pc, call, tx, calls>>

-----------------------------------------------------------------------------

\* Every call has been made and has ended.
Finished ==
    /\ calls = MaxCalls
    /\ \A s \in Sessions : pc[s] = "idle"
    /\ UNCHANGED vars

\* What a session does by itself once a call has started.
Step(s) ==
    \/ Discover(s) \/ Begin(s) \/ AcquireLock(s) \/ EnsureTable(s)
    \/ ListForPlan(s) \/ EndPlan(s)
    \/ ListForApply(s) \/ ExecMigration(s) \/ RecordMigration(s)
    \/ SelectLatest(s) \/ RunDown(s) \/ Unrecord(s)
    \/ CommitTx(s) \/ Abort(s)

Next ==
    \/ \E s \in Sessions :
          \/ \E m \in Modes : StartCLI(s, m)
          \/ \E o \in Ops, b \in BatchSizes : StartAPI(s, o, b)
          \/ Step(s)
          \/ Fail(s)
    \/ \E v \in Versions : AddMigration(v) \/ RemoveMigration(v)
    \/ Finished

Spec == Init /\ [][Next]_vars

\* A running process goes on, and the server ends a transaction whose client
\* failed.  PostgreSQL serves waiters for an advisory lock in turn, so one that
\* waits is not overtaken for ever.
Fairness ==
    \A s \in Sessions : WF_vars(Step(s)) /\ SF_vars(AcquireLock(s))

FairSpec == Spec /\ Fairness

-----------------------------------------------------------------------------
(* Properties. *)

\* The advisory lock serialises the transactions: a session is between taking
\* the lock and the end of its transaction only while it holds it, and a holder
\* is there or has failed and waits for the server to roll back.
LockHeldByRunning ==
    \A s \in Sessions :
        /\ pc[s] \in Held => lock = s
        /\ lock = s => pc[s] \in Held \cup {"abort"}

\* erm_schema_migrations tells the truth about the schema at every moment any
\* other client can look: a version is recorded exactly when its up script is
\* in effect, once.  Failures between running a script and recording it, lost
\* commit answers with a retry, and racing sessions must not break this.
RecordedMatchesSchema ==
    \A v \in Versions : fx[v] = IF v \in rec THEN 1 ELSE 0

\* What Plan is about to return is true while it holds the lock: nothing is
\* recorded that the directory it read lacks, and Pending is the next batch.
PlanIsCurrent ==
    \A s \in Sessions : pc[s] = "endplan" =>
        /\ rec \subseteq call[s].seen
        /\ call[s].pending = FirstN(call[s].seen \ rec, call[s].batch)

\* An Apply that commits adds exactly the next batch of the directory it read,
\* counted from what is recorded at the moment of the commit: nobody's
\* migration is skipped, repeated or applied over another session's.
AppliesNextBatch ==
    [][\A s \in Sessions : CommitTx(s) /\ call[s].op = "apply" =>
          rec' = rec \cup FirstN(call[s].seen \ rec, call[s].batch)]_vars

\* A Rollback that commits removes exactly one version, one with both scripts,
\* and none recorded at that moment carries a later applied_at.
RevertsLatestStamp ==
    [][\A s \in Sessions : CommitTx(s) /\ call[s].op = "rollback" =>
          \E v \in rec \cap Downs \cap call[s].seen :
              /\ rec' = rec \ {v}
              /\ \A w \in rec : at[w] <= at[v]]_vars

\* Every call ends, however the others fail: a session that died with the lock
\* does not stop the rest.
EveryCallEnds ==
    \A s \in Sessions : pc[s] # "idle" ~> pc[s] = "idle"

\* The abstract specification this one implements.
Abs == INSTANCE MigrateAbs WITH applied <- rec, effect <- fx, files <- ups,
                                view <- [s \in Sessions |-> call[s].seen]
ImplementsAbs == Abs!AbsSpec

=============================================================================
