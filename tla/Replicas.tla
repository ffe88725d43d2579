------------------------------ MODULE Replicas ------------------------------
(***************************************************************************)
(* Read routing over a primary and its replicas (orm/pg/driver.go).        *)
(*                                                                         *)
(* A read resolves its options (from its context, a named policy or the    *)
(* default one), goes through the replicas in the order of the             *)
(* configuration, probes those whose status is stale while it holds the    *)
(* mutex of the replica, asks the first that is suitable, and falls back   *)
(* to the primary.  Other reads, policy changes, time and Close interleave *)
(* at every lock and every query.  Time is a counter, lags are compared    *)
(* with the bounds and nothing else, and an answer is its kind.            *)
(***************************************************************************)
EXTENDS Integers, FiniteSets

CONSTANTS
    Reads,          \* read operations, each made once
    NReplicas,      \* replicas are 1..NReplicas, in configuration order
    Config,         \* Config[r]: the replica's own readOnly and maxLag
    Contexts,       \* what a caller may put in its context
    Routings,       \* default name and policies that may be set
    Reports,        \* what a probe may find: readOnly and lag
    Interval,       \* healthInterval
    MaxClock,       \* bound: time
    MaxChanges,     \* bound: calls of UseReplicaPolicies
    None

Replica == 1..NReplicas
Primary == 0
Kinds == {"row", "rows"}    \* QueryRow and Scan, or Query and Next

ASSUME ReplicasAssumption == NReplicas \in Nat
ASSUME IntervalAssumption == Interval \in Int /\ MaxClock \in Nat /\ MaxChanges \in Nat

VARIABLES
    \* The handle.
    phase,      \* "opening", "open", "failed" or "closed"
    pools,      \* the pools that are open
    routing,    \* default name and policies
    changes,
    status,     \* status[r]: what the last probe of r left
    mutex,      \* mutex[r]: the read that probes r
    clock,
    \* The reads.
    pc, kind, opts,
    name,       \* the name of a policy that is to be looked up
    ix,         \* the replica under consideration
    basis,      \* what the replica was chosen by, and when
    spans,      \* observations begun and not ended
    answer      \* where the result came from and its kind

handleVars == <<phase, pools, routing, changes, clock>>
healthVars == <<status, mutex>>
readVars == <<pc, kind, opts, name, ix, basis, spans, answer>>
vars == <<handleVars, healthVars, readVars>>

Status == [checked: {None} \cup 0..MaxClock, healthy: BOOLEAN,
           readOnly: BOOLEAN, lag: Nat]
Options == [maxLag: Int, readOnly: BOOLEAN, noFallback: BOOLEAN]
Results == {"ok", "norows", "error", "broken"}

ASSUME ConfigAssumption == Config \in [Replica -> [readOnly: BOOLEAN, maxLag: Int]]
ASSUME InputsAssumption ==
    /\ \A c \in Contexts : c.primary \in BOOLEAN /\ c.opts \in Options \cup {None}
    /\ \A g \in Routings : \A n \in DOMAIN g.policies : g.policies[n] \in Options
    /\ Reports \subseteq [readOnly: BOOLEAN, lag: Nat]

TypeOK ==
    /\ phase \in {"opening", "open", "failed", "closed"}
    /\ pools \subseteq {Primary} \cup Replica
    /\ changes \in 0..MaxChanges
    /\ clock \in 0..MaxClock
    /\ \A r \in Replica : status[r] \in Status /\ mutex[r] \in Reads \cup {None}
    /\ \A p \in Reads :
          /\ pc[p] \in {"idle", "named", "default", "lookup", "snapshot", "lock",
                        "probe", "ask", "answer", "retry", "primary", "end", "done"}
          /\ kind[p] \in Kinds
          /\ opts[p] \in Options \cup {None}
          /\ ix[p] \in 1..(NReplicas + 1)
          /\ spans[p] \in 0..1
          /\ answer[p] = None \/ answer[p] \in [from: 0..NReplicas, is: Results]

Unchecked == [checked |-> None, healthy |-> FALSE, readOnly |-> FALSE, lag |-> 0]

Init ==
    /\ phase = "opening"
    /\ pools = {}
    /\ routing = [default |-> None, policies |-> <<>>]
    /\ changes = 0
    /\ status = [r \in Replica |-> Unchecked]
    /\ mutex = [r \in Replica |-> None]
    /\ clock = 0
    /\ pc = [p \in Reads |-> "idle"]
    /\ kind \in [Reads -> Kinds]
    /\ opts = [p \in Reads |-> None]
    /\ name = [p \in Reads |-> None]
    /\ ix = [p \in Reads |-> 1]
    /\ basis = [p \in Reads |-> None]
    /\ spans = [p \in Reads |-> 0]
    /\ answer = [p \in Reads |-> None]

-----------------------------------------------------------------------------
(* The handle.  Definitions named *Faulty* are not the code: each is a     *)
(* plausible bug in the definition after it.                               *)

\* ConnectCluster opens the primary, then the replicas in order.
Opened == CHOOSE n \in 0..(NReplicas + 1) : pools = {k \in 0..NReplicas : k < n}

OpenPool ==
    /\ phase = "opening"
    /\ pools' = pools \cup {Opened}
    /\ phase' = IF Opened = NReplicas THEN "open" ELSE "opening"
    /\ UNCHANGED <<routing, changes, clock, healthVars, readVars>>

\* A pool cannot be made: those made before it are closed.
OpenFails ==
    /\ phase = "opening"
    /\ pools' = {}
    /\ phase' = "failed"
    /\ UNCHANGED <<routing, changes, clock, healthVars, readVars>>

\* Close, under the reads that are going on.
Close ==
    /\ phase = "open"
    /\ phase' = "closed"
    /\ pools' = {}
    /\ UNCHANGED <<routing, changes, clock, healthVars, readVars>>

\* UseReplicaPolicies, in one critical section.
SetPolicies(r) ==
    /\ phase = "open"
    /\ changes < MaxChanges
    /\ changes' = changes + 1
    /\ routing' = r
    /\ UNCHANGED <<phase, pools, clock, healthVars, readVars>>

Tick ==
    /\ phase = "open"
    /\ clock < MaxClock
    /\ clock' = clock + 1
    /\ UNCHANGED <<phase, pools, routing, changes, healthVars, readVars>>

-----------------------------------------------------------------------------
(* readerPool: the options of a read. *)

\* A negative bound is none.
Normalised(o) == [o EXCEPT !.maxLag = IF @ < 0 THEN 0 ELSE @]

\* Options are known: look at the replicas, or at the primary without any.
Route(p, o) ==
    /\ opts' = [opts EXCEPT ![p] = Normalised(o)]
    /\ pc' = [pc EXCEPT ![p] = IF NReplicas = 0 THEN "primary" ELSE "snapshot"]

\* WithPrimary wins over WithReplicaRead, which wins over any policy.
Start(p, c) ==
    /\ phase = "open"
    /\ pc[p] = "idle"
    /\ name' = [name EXCEPT ![p] = c.policy]
    /\ \/ /\ c.primary
          /\ pc' = [pc EXCEPT ![p] = "primary"]
          /\ UNCHANGED opts
       \/ ~c.primary /\ c.opts # None /\ Route(p, c.opts)
       \/ /\ ~c.primary /\ c.opts = None
          /\ pc' = [pc EXCEPT ![p] = IF c.policy # None THEN "named" ELSE "default"]
          /\ UNCHANGED opts
    /\ UNCHANGED <<handleVars, healthVars, kind, ix, basis, spans, answer>>

Lookup(p, n, otherwise) ==
    IF n \in DOMAIN routing.policies
    THEN Route(p, routing.policies[n])
    ELSE pc' = [pc EXCEPT ![p] = otherwise] /\ UNCHANGED opts

\* A policy nobody has set is passed over for the default.
NamedPolicy(p) ==
    /\ pc[p] = "named"
    /\ Lookup(p, name[p], "default")
    /\ UNCHANGED <<handleVars, healthVars, kind, name, ix, basis, spans, answer>>

\* defaultPolicy reads the name under one lock ...
DefaultName(p) ==
    /\ pc[p] = "default"
    /\ name' = [name EXCEPT ![p] = routing.default]
    /\ pc' = [pc EXCEPT ![p] = IF routing.default = None THEN "primary" ELSE "lookup"]
    /\ UNCHANGED <<handleVars, healthVars, kind, opts, ix, basis, spans, answer>>

\* ... and looks it up under another.
DefaultPolicy(p) ==
    /\ pc[p] = "lookup"
    /\ Lookup(p, name[p], "primary")
    /\ UNCHANGED <<handleVars, healthVars, kind, name, ix, basis, spans, answer>>

-----------------------------------------------------------------------------
(* selectReplica and the health check. *)

Suitable(s, o) ==
    /\ s.healthy
    /\ o.readOnly => s.readOnly
    /\ o.maxLag > 0 => s.lag <= o.maxLag

\* The verdict on the replica under consideration, given its status.
Judge(p, s) ==
    IF Suitable(s, opts[p])
    THEN /\ pc' = [pc EXCEPT ![p] = "ask"]
         /\ basis' = [basis EXCEPT ![p] = [status |-> s, at |-> clock]]
         /\ UNCHANGED ix
    ELSE /\ pc' = [pc EXCEPT ![p] = IF ix[p] < NReplicas THEN "snapshot" ELSE "primary"]
         /\ ix' = [ix EXCEPT ![p] = @ + 1]
         /\ UNCHANGED basis

\* A status nobody has checked is older than any interval.
Age(s) == IF s.checked = None THEN Interval + 1 ELSE clock - s.checked

Stale(s) == Interval <= 0 \/ Age(s) > Interval

\* The read lock on the status waits while another read probes.
Snapshot(p) ==
    /\ pc[p] = "snapshot"
    /\ mutex[ix[p]] = None
    /\ IF Stale(status[ix[p]])
       THEN pc' = [pc EXCEPT ![p] = "lock"] /\ UNCHANGED <<ix, basis>>
       ELSE Judge(p, status[ix[p]])
    /\ UNCHANGED <<handleVars, healthVars, kind, opts, name, spans, answer>>

\* Nobody has probed while this read waited for the lock.
NeedsProbe(s) == Interval <= 0 \/ Age(s) >= Interval

LockFaulty(p) ==
    /\ pc[p] = "lock"
    /\ mutex[ix[p]] = None
    /\ mutex' = [mutex EXCEPT ![ix[p]] = p]
    /\ pc' = [pc EXCEPT ![p] = "probe"]
    /\ spans' = [spans EXCEPT ![p] = @ + 1]
    /\ UNCHANGED <<handleVars, status, kind, opts, name, ix, basis, answer>>
\* Got the lock: probe, or take the status another read has left.
Lock(p) ==
    /\ pc[p] = "lock"
    /\ mutex[ix[p]] = None
    /\ \/ /\ NeedsProbe(status[ix[p]])
          /\ mutex' = [mutex EXCEPT ![ix[p]] = p]
          /\ pc' = [pc EXCEPT ![p] = "probe"]
          /\ spans' = [spans EXCEPT ![p] = @ + 1]
          /\ UNCHANGED <<ix, basis>>
       \/ /\ ~NeedsProbe(status[ix[p]])
          /\ Judge(p, status[ix[p]])
          /\ UNCHANGED <<mutex, spans>>
    /\ UNCHANGED <<handleVars, status, kind, opts, name, answer>>

CheckedFaulty(r, found) ==
    [checked |-> clock, readOnly |-> found.readOnly, lag |-> found.lag,
     healthy |-> \/ status[r].healthy
                 \/ /\ Config[r].readOnly => found.readOnly
                    /\ Config[r].maxLag > 0 => found.lag <= Config[r].maxLag]
\* The status after an answer, by the replica's own requirements.
Checked(r, found) ==
    [checked |-> clock, readOnly |-> found.readOnly, lag |-> found.lag,
     healthy |-> /\ Config[r].readOnly => found.readOnly
                 /\ Config[r].maxLag > 0 => found.lag <= Config[r].maxLag]

\* The probe ends: with a report, or with an error, which the caller's
\* own context may be the cause of.
ProbeEnds(p) ==
    LET r == ix[p]
        End(s) == /\ status' = [status EXCEPT ![r] = s]
                  /\ Judge(p, s)
    IN  /\ pc[p] = "probe"
        /\ \/ r \in pools /\ \E found \in Reports : End(Checked(r, found))
           \/ End([status[r] EXCEPT !.checked = clock, !.healthy = FALSE])
        /\ mutex' = [mutex EXCEPT ![r] = None]
        /\ spans' = [spans EXCEPT ![p] = @ - 1]
        /\ UNCHANGED <<handleVars, kind, opts, name, answer>>

-----------------------------------------------------------------------------
(* The query. *)

Target(p) == IF basis[p] = None THEN Primary ELSE ix[p]

\* Begin an observation and send the statement.
Ask(p) ==
    /\ pc[p] \in {"ask", "primary"}
    /\ spans' = [spans EXCEPT ![p] = @ + 1]
    /\ pc' = [pc EXCEPT ![p] = "answer"]
    /\ UNCHANGED <<handleVars, healthVars, kind, opts, name, ix, basis, answer>>

\* What the caller may see at Query, or at Scan, from an open or closed pool.
FirstAnswers(p) ==
    IF Target(p) \in pools THEN {"ok", "error"} \cup (IF kind[p] = "row" THEN {"norows"} ELSE {})
    ELSE {"error"}

FallsBackFaulty(p, a) ==
    /\ a = "error"
    /\ Target(p) # Primary
    /\ ~opts[p].noFallback
\* Query retries on its error, Scan on any, no rows included.
FallsBack(p, a) ==
    /\ a # "ok"
    /\ Target(p) # Primary
    /\ ~opts[p].noFallback

AnswerFaulty(p) ==
    /\ pc[p] = "answer"
    /\ \E a \in FirstAnswers(p) :
          IF FallsBack(p, a)
          THEN /\ pc' = [pc EXCEPT ![p] = "retry"]
               /\ UNCHANGED <<spans, answer>>
          ELSE /\ answer' = [answer EXCEPT ![p] = [from |-> Target(p), is |-> a]]
               /\ pc' = [pc EXCEPT ![p] = "end"]
               /\ spans' = [spans EXCEPT ![p] = @ - 1]
    /\ UNCHANGED <<handleVars, healthVars, kind, opts, name, ix, basis>>
\* Query ends its observation at once.  Scan of a row that falls back begins
\* the second observation before it ends the first, in "retry".
Answer(p) ==
    /\ pc[p] = "answer"
    /\ \E a \in FirstAnswers(p) :
          IF FallsBack(p, a)
          THEN /\ pc' = [pc EXCEPT ![p] = "retry"]
               /\ spans' = [spans EXCEPT ![p] = IF kind[p] = "rows" THEN @ - 1 ELSE @]
               /\ UNCHANGED answer
          ELSE /\ answer' = [answer EXCEPT ![p] = [from |-> Target(p), is |-> a]]
               /\ pc' = [pc EXCEPT ![p] = "end"]
               /\ spans' = [spans EXCEPT ![p] = @ - 1]
    /\ UNCHANGED <<handleVars, healthVars, kind, opts, name, ix, basis>>

RetryFaulty(p) ==
    /\ pc[p] = "retry"
    /\ spans' = [spans EXCEPT ![p] = @ + 1]
    /\ basis' = [basis EXCEPT ![p] = None]
    /\ pc' = [pc EXCEPT ![p] = "answer"]
    /\ UNCHANGED <<handleVars, healthVars, kind, opts, name, ix, answer>>
\* retrySelectOnPrimary and queryRowOnPrimary: one more observation, and for
\* a row the end of the first.
Retry(p) ==
    /\ pc[p] = "retry"
    /\ spans' = [spans EXCEPT ![p] = IF kind[p] = "rows" THEN @ + 1 ELSE @]
    /\ basis' = [basis EXCEPT ![p] = None]
    /\ pc' = [pc EXCEPT ![p] = "answer"]
    /\ UNCHANGED <<handleVars, healthVars, kind, opts, name, ix, answer>>

\* The caller reads its rows to the end, or the connection breaks under it:
\* that is reported by rows.Err, after which nothing is retried.
Finish(p) ==
    /\ pc[p] = "end"
    /\ \/ UNCHANGED answer
       \/ /\ kind[p] = "rows" /\ answer[p].is = "ok"
          /\ answer' = [answer EXCEPT ![p].is = "broken"]
    /\ pc' = [pc EXCEPT ![p] = "done"]
    /\ name' = [name EXCEPT ![p] = None]
    /\ ix' = [ix EXCEPT ![p] = 1]
    /\ basis' = [basis EXCEPT ![p] = None]
    /\ UNCHANGED <<handleVars, healthVars, kind, opts, spans>>

-----------------------------------------------------------------------------

ReadStep(p) ==
    \/ NamedPolicy(p) \/ DefaultName(p) \/ DefaultPolicy(p)
    \/ Snapshot(p) \/ Lock(p) \/ ProbeEnds(p)
    \/ Ask(p) \/ Answer(p) \/ Retry(p) \/ Finish(p)

\* Nothing is left to do.
Quiet ==
    /\ phase \in {"failed", "closed"}
    /\ \A p \in Reads : pc[p] \in {"idle", "done"}
    /\ UNCHANGED vars

Next ==
    \/ OpenPool \/ OpenFails \/ Close \/ Tick
    \/ \E r \in Routings : SetPolicies(r)
    \/ \E p \in Reads : ReadStep(p) \/ \E c \in Contexts : Start(p, c)
    \/ Quiet

Spec == Init /\ [][Next]_vars

-----------------------------------------------------------------------------
(* Properties. *)

\* A read is sent to a replica only by a status that was no older than the
\* interval when the replica was chosen, however long the read waited for
\* other reads' probes, and that meets the read's options and the replica's
\* own requirements.
RoutedByFreshStatus ==
    \A p \in Reads : pc[p] = "ask" =>
        LET s == basis[p].status IN
        /\ Interval > 0 => basis[p].at - s.checked <= Interval
        /\ Suitable(s, opts[p])
        /\ Config[ix[p]].readOnly => s.readOnly
        /\ Config[ix[p]].maxLag > 0 => s.lag <= Config[ix[p]].maxLag

\* Reads that find a status stale together make one probe, not one each: a
\* probe begins only an interval after the last one ended.
ProbesAreSpaced ==
    [][\A r \in Replica : mutex[r] = None /\ mutex'[r] # None =>
          Interval <= 0 \/ status[r].checked = None
          \/ clock - status[r].checked >= Interval]_vars

\* With fallback allowed, a caller is told that there is no such row, or of
\* an error before any row, only by the primary: a replica that lags behind
\* an insertion or that is down does not decide.
PrimaryHasTheLastWord ==
    \A p \in Reads :
        answer[p] # None /\ answer[p].is \in {"norows", "error"} =>
            answer[p].from = Primary \/ opts[p].noFallback

\* Whatever fails and whoever closes, each observation a read begins is ended
\* once, on every path of the read; a cluster that cannot be opened, or was
\* closed, leaves no pool open; and the mutex of a replica is held only by a
\* read that probes that replica, which waits for nobody, so reads that wait for
\* each other's probes all go on.
ResourcesAreReturned ==
    /\ \A p \in Reads : pc[p] \in {"idle", "snapshot", "done"} => spans[p] = 0
    /\ phase \in {"failed", "closed"} => pools = {}
    /\ \A r \in Replica : mutex[r] # None => pc[mutex[r]] = "probe" /\ ix[mutex[r]] = r
=============================================================================
