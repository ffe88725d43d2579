--------------------------- MODULE ReplicasProofs ---------------------------
(***************************************************************************)
(* Proofs about Replicas, for any reads, replicas, options, reports and    *)
(* bounds: the types, by which status a read goes to a replica, how often  *)
(* replicas are probed, who has the last word, and that observations,      *)
(* pools and mutexes are given back.                                       *)
(*                                                                         *)
(* One invariant carries all of it (Inv): what each program point says of  *)
(* the read that is there (Placed), that a healthy status was found to     *)
(* meet the replica's requirements (Health), and that a mutex is held by   *)
(* the read that probes (Mutexes).                                         *)
(***************************************************************************)
EXTENDS Replicas, TLAPS

-----------------------------------------------------------------------------
(* Types. *)

PCs == {"idle", "named", "default", "lookup", "snapshot", "lock",
        "probe", "ask", "answer", "retry", "primary", "end", "done"}
Bases == [status: Status, at: 0..MaxClock]
Answers == [from: 0..NReplicas, is: Results]

HandleShape ==
    /\ phase \in {"opening", "open", "failed", "closed"}
    /\ changes \in 0..MaxChanges
    /\ clock \in 0..MaxClock
    /\ \A n \in DOMAIN routing.policies : routing.policies[n] \in Options
    /\ status \in [Replica -> Status]
    /\ mutex \in [Replica -> Reads \cup {None}]

ReadShape ==
    /\ pc \in [Reads -> PCs]
    /\ kind \in [Reads -> Kinds]
    /\ opts \in [Reads -> Options \cup {None}]
    /\ ix \in [Reads -> 1..(NReplicas + 1)]
    /\ basis \in [Reads -> Bases \cup {None}]
    /\ spans \in [Reads -> 0..1]
    /\ answer \in [Reads -> Answers \cup {None}]

\* The pools that are open are those of the primary and the first replicas,
\* some of them or all, or none any more.
PoolsOpen ==
    \/ phase = "opening" /\ \E n \in 0..NReplicas : pools = {k \in 0..NReplicas : k < n}
    \/ phase = "open" /\ pools = 0..NReplicas
    \/ phase \in {"failed", "closed"} /\ pools = {}

LEMMA OpenedPools ==
    ASSUME NEW n \in 0..NReplicas, pools = {k \in 0..NReplicas : k < n}
    PROVE  Opened = n
<1>1. ASSUME NEW m \in 0..(NReplicas + 1), pools = {k \in 0..NReplicas : k < m} PROVE m = n
  <2>1. NReplicas \in Nat
    BY ReplicasAssumption
  <2>2. CASE m < n
    <3>1. m \in 0..NReplicas /\ m < n /\ ~(m < m)
      BY <2>1, <2>2
    <3> QED
      BY <1>1, <3>1
  <2>3. CASE n < m
    <3>1. n \in 0..NReplicas /\ n < m /\ ~(n < n)
      BY <2>1, <2>3
    <3> QED
      BY <1>1, <3>1
  <2> QED
    BY <2>1, <2>2, <2>3
<1>2. n \in 0..(NReplicas + 1)
  BY ReplicasAssumption
<1> QED
  BY <1>1, <1>2 DEF Opened

LEMMA PoolsStep == PoolsOpen /\ [Next]_vars => PoolsOpen'
<1> SUFFICES ASSUME PoolsOpen, [Next]_vars PROVE PoolsOpen'
  OBVIOUS
<1>1. CASE OpenPool
  <2>1. PICK n \in 0..NReplicas : pools = {k \in 0..NReplicas : k < n}
    BY <1>1 DEF OpenPool, PoolsOpen
  <2>2. Opened = n
    BY <2>1, OpenedPools
  <2>3. pools' = {k \in 0..NReplicas : k < n + 1}
    BY <1>1, <2>1, <2>2, ReplicasAssumption DEF OpenPool
  <2>4. CASE n = NReplicas
    <3>1. pools' = 0..NReplicas
      BY <2>3, <2>4, ReplicasAssumption
    <3> QED
      BY <1>1, <2>2, <2>4, <3>1 DEF OpenPool, PoolsOpen
  <2>5. CASE n # NReplicas
    <3>1. n + 1 \in 0..NReplicas
      BY <2>5, ReplicasAssumption
    <3> QED
      BY <1>1, <2>2, <2>3, <2>5, <3>1 DEF OpenPool, PoolsOpen
  <2> QED
    BY <2>4, <2>5
<1>2. CASE OpenFails \/ Close
  BY <1>2 DEF OpenFails, Close, PoolsOpen
<1>3. CASE UNCHANGED <<phase, pools>>
  BY <1>3 DEF PoolsOpen
<1>4. ASSUME NEW p \in Reads, ReadStep(p) \/ \E c \in Contexts : Start(p, c)
      PROVE  UNCHANGED <<phase, pools>>
  BY <1>4 DEF ReadStep, Start, NamedPolicy, DefaultName, DefaultPolicy, Snapshot, Lock, ProbeEnds,
              Ask, Answer, Retry, Finish, handleVars
<1>5. CASE Tick \/ (\E r \in Routings : SetPolicies(r)) \/ Quiet
  BY <1>3, <1>5 DEF Tick, SetPolicies, Quiet, vars, handleVars
<1> QED
  BY <1>1, <1>2, <1>3, <1>4, <1>5 DEF Next, vars, handleVars
-----------------------------------------------------------------------------
(* What holds of a read, and of a replica's status and mutex. *)

\* The requirements the configuration makes of a replica.
Meets(r, s) ==
    /\ Config[r].readOnly => s.readOnly
    /\ Config[r].maxLag > 0 => s.lag <= Config[r].maxLag

\* A status that says healthy was found to meet the requirements.
Health == \A r \in Replica : status[r].healthy => Meets(r, status[r])

\* The basis b on which replica i was chosen for options o.
Chosen(i, o, b) ==
    /\ b \in Bases
    /\ Interval > 0 => b.at - b.status.checked <= Interval
    /\ Suitable(b.status, o)
    /\ Meets(i, b.status)

\* Where a read stands: program counter c, kind k, options o, replica i,
\* basis b, observations n, answer a.
Placed(c, k, o, i, b, n, a) ==
    /\ c \in {"idle", "named", "default", "lookup"} => i = 1
    /\ c \in {"snapshot", "lock", "probe", "ask"} => i \in Replica /\ o \in Options
    /\ c \notin {"ask", "answer", "retry", "end"} => b = None
    /\ b # None => i \in Replica /\ o \in Options
    /\ c = "ask" => Chosen(i, o, b)
    /\ n = IF c \in {"probe", "answer"} \/ (c = "retry" /\ k = "row") THEN 1 ELSE 0
    /\ c \notin {"end", "done"} => a = None
    /\ c = "end" => a \in Answers
    /\ a # None /\ a.is \in {"norows", "error"} => a.from = Primary \/ o.noFallback

Reading(p) == Placed(pc[p], kind[p], opts[p], ix[p], basis[p], spans[p], answer[p])

\* A replica's mutex is held by a read that probes it.
Mutexes == \A r \in Replica : mutex[r] # None => pc[mutex[r]] = "probe" /\ ix[mutex[r]] = r

Inv ==
    /\ HandleShape
    /\ ReadShape
    /\ PoolsOpen
    /\ Health
    /\ \A p \in Reads : Reading(p)
    /\ Mutexes

LEMMA InitInv == Init => Inv
<1> SUFFICES ASSUME Init PROVE Inv
  OBVIOUS
<1> USE ReplicasAssumption, IntervalAssumption
<1>1. Unchecked \in Status /\ ~Unchecked.healthy
  BY DEF Unchecked, Status
<1>2. HandleShape /\ Health
  BY <1>1 DEF Init, HandleShape, Health
<1>3. ReadShape /\ \A p \in Reads : Reading(p)
  BY DEF Init, ReadShape, PCs, Kinds, Reading, Placed
<1>4. PoolsOpen
  <2>1. {k \in 0..NReplicas : k < 0} = {} /\ 0 \in 0..NReplicas
    OBVIOUS
  <2> QED
    BY <2>1 DEF Init, PoolsOpen
<1>5. Mutexes
  BY DEF Init, Mutexes
<1> QED
  BY <1>2, <1>3, <1>4, <1>5 DEF Inv

\* A status that read p may be judged by: its verdict is one about replica
\* ix[p] and no older than the interval.
Judged(p, s) ==
    /\ s \in Status
    /\ s.healthy => Meets(ix[p], s)
    /\ s.healthy /\ Interval > 0 => clock - s.checked <= Interval

\* What the verdict leaves of the read.
LEMMA JudgeStep ==
    ASSUME HandleShape, ReadShape, NEW p \in Reads, NEW s, Judged(p, s), Judge(p, s),
           ix[p] \in Replica, opts[p] \in Options, basis[p] = None
    PROVE  /\ pc' \in [Reads -> PCs] /\ ix' \in [Reads -> 1..(NReplicas + 1)]
           /\ basis' \in [Reads -> Bases \cup {None}]
           /\ \A q \in Reads : q # p => pc'[q] = pc[q] /\ ix'[q] = ix[q] /\ basis'[q] = basis[q]
           /\ \/ pc'[p] = "ask" /\ ix'[p] = ix[p] /\ Chosen(ix[p], opts[p], basis'[p])
              \/ pc'[p] = "snapshot" /\ ix'[p] \in Replica /\ basis'[p] = None
              \/ pc'[p] = "primary" /\ basis'[p] = None
<1> USE ReplicasAssumption
<1>1. CASE Suitable(s, opts[p])
  <2> DEFINE b == [status |-> s, at |-> clock]
  <2>1. b \in Bases /\ b.status = s /\ b.at = clock
    BY DEF Bases, HandleShape, Judged
  <2>2. pc' = [pc EXCEPT ![p] = "ask"] /\ basis' = [basis EXCEPT ![p] = b] /\ ix' = ix
    BY <1>1 DEF Judge
  <2>3. Chosen(ix[p], opts[p], b)
    BY <1>1, <2>1 DEF Chosen, Judged, Suitable
  <2> HIDE DEF b
  <2> QED
    BY <2>1, <2>2, <2>3 DEF ReadShape, PCs
<1>2. CASE ~Suitable(s, opts[p])
  <2>1. /\ pc' = [pc EXCEPT ![p] = IF ix[p] < NReplicas THEN "snapshot" ELSE "primary"]
        /\ ix' = [ix EXCEPT ![p] = ix[p] + 1]
        /\ basis' = basis
    BY <1>2 DEF Judge
  <2>2. ix[p] + 1 \in 1..(NReplicas + 1) /\ (ix[p] < NReplicas => ix[p] + 1 \in Replica)
    BY DEF Replica
  <2> QED
    BY <2>1, <2>2 DEF ReadShape, PCs
<1> QED
  BY <1>1, <1>2

-----------------------------------------------------------------------------
(* Each step of a read, for that read; the others are where they were. *)

\* What read p alone changes of the reads.
Others(p) ==
    \A q \in Reads \ {p} :
        /\ pc'[q] = pc[q] /\ kind'[q] = kind[q] /\ opts'[q] = opts[q] /\ ix'[q] = ix[q]
        /\ basis'[q] = basis[q] /\ spans'[q] = spans[q] /\ answer'[q] = answer[q]

\* Options are known.
LEMMA RouteStep ==
    ASSUME ReadShape, NEW p \in Reads, NEW o \in Options, Route(p, o), Reading(p),
           pc[p] \in {"idle", "named", "default", "lookup"},
           UNCHANGED <<kind, ix, basis, spans, answer>>
    PROVE  ReadShape' /\ Others(p) /\ Reading(p)' /\ pc'[p] # "probe"
<1>1. Normalised(o) \in Options
  BY DEF Normalised, Options
<1>2. /\ opts' = [opts EXCEPT ![p] = Normalised(o)]
      /\ pc' = [pc EXCEPT ![p] = IF NReplicas = 0 THEN "primary" ELSE "snapshot"]
  BY DEF Route
<1>3. ReadShape' /\ Others(p)
  BY <1>1, <1>2 DEF ReadShape, Others, PCs
<1>4. pc'[p] = (IF NReplicas = 0 THEN "primary" ELSE "snapshot") /\ opts'[p] \in Options
  BY <1>1, <1>2 DEF ReadShape
<1>5. NReplicas # 0 => 1 \in Replica
  BY ReplicasAssumption DEF Replica
<1> QED
  BY <1>3, <1>4, <1>5 DEF Reading, Placed

\* The program counter alone moves, before any replica is considered.
LEMMA PassOn ==
    ASSUME ReadShape, NEW p \in Reads, NEW c, pc' = [pc EXCEPT ![p] = c], Reading(p),
           pc[p] \in {"idle", "named", "default", "lookup"},
           c \in {"named", "default", "lookup", "primary"},
           UNCHANGED <<kind, opts, ix, basis, spans, answer>>
    PROVE  ReadShape' /\ Others(p) /\ Reading(p)' /\ pc'[p] # "probe"
<1>1. ReadShape' /\ Others(p)
  BY DEF ReadShape, Others, PCs
<1>2. pc'[p] = c
  BY DEF ReadShape
<1> QED
  BY <1>1, <1>2 DEF Reading, Placed

LEMMA StartStep ==
    ASSUME Inv, NEW p \in Reads, NEW c \in Contexts, Start(p, c)
    PROVE  ReadShape' /\ Others(p) /\ Reading(p)' /\ pc'[p] # "probe"
<1>1. ReadShape /\ Reading(p) /\ pc[p] = "idle" /\ UNCHANGED <<kind, ix, basis, spans, answer>>
  BY DEF Inv, Start
<1>2. CASE c.opts \in Options /\ Route(p, c.opts)
  BY <1>1, <1>2, RouteStep
<1>3. ASSUME NEW d \in {"primary", "named", "default"}, UNCHANGED opts, pc' = [pc EXCEPT ![p] = d]
      PROVE  ReadShape' /\ Others(p) /\ Reading(p)' /\ pc'[p] # "probe"
  BY <1>1, <1>3, PassOn
<1>4. CASE ~c.primary /\ c.opts # None /\ Route(p, c.opts)
  BY <1>2, <1>4, InputsAssumption
<1>5. CASE c.primary /\ pc' = [pc EXCEPT ![p] = "primary"] /\ UNCHANGED opts
  BY <1>3, <1>5
<1>6. CASE pc' = [pc EXCEPT ![p] = IF c.policy # None THEN "named" ELSE "default"] /\ UNCHANGED opts
  BY <1>3, <1>6
<1> QED
  BY <1>4, <1>5, <1>6 DEF Start

LEMMA PolicySteps ==
    ASSUME Inv, NEW p \in Reads, NamedPolicy(p) \/ DefaultName(p) \/ DefaultPolicy(p)
    PROVE  ReadShape' /\ Others(p) /\ Reading(p)' /\ pc'[p] # "probe"
<1>1. /\ ReadShape /\ Reading(p) /\ pc[p] \in {"named", "default", "lookup"}
      /\ UNCHANGED <<kind, ix, basis, spans, answer>>
  BY DEF Inv, NamedPolicy, DefaultName, DefaultPolicy
<1>2. ASSUME NEW n, NEW c \in {"default", "primary"}, Lookup(p, n, c)
      PROVE  ReadShape' /\ Others(p) /\ Reading(p)' /\ pc'[p] # "probe"
  <2>1. CASE n \in DOMAIN routing.policies
    <3>1. routing.policies[n] \in Options
      BY <2>1 DEF Inv, HandleShape
    <3>2. Route(p, routing.policies[n])
      BY <1>2, <2>1 DEF Lookup
    <3> QED
      BY <1>1, <3>1, <3>2, RouteStep
  <2>2. CASE n \notin DOMAIN routing.policies
    <3>1. pc' = [pc EXCEPT ![p] = c] /\ UNCHANGED opts
      BY <1>2, <2>2 DEF Lookup
    <3> QED
      BY <1>1, <3>1, PassOn
  <2> QED
    BY <2>1, <2>2
<1>3. CASE DefaultName(p)
  <2>1. PICK c \in {"lookup", "primary"} : pc' = [pc EXCEPT ![p] = c]
    BY <1>3 DEF DefaultName
  <2>2. UNCHANGED opts
    BY <1>3 DEF DefaultName
  <2> QED
    BY <1>1, <2>1, <2>2, PassOn
<1> QED
  BY <1>2, <1>3 DEF NamedPolicy, DefaultPolicy

\* What a verdict makes of the read, when no observation is left open.
LEMMA AfterJudge ==
    ASSUME Inv, NEW p \in Reads, NEW s, Judged(p, s), Judge(p, s), Reading(p),
           pc[p] \in {"snapshot", "lock", "probe"}, UNCHANGED <<kind, opts, answer>>,
           spans' \in [Reads -> 0..1], spans'[p] = 0, \A q \in Reads \ {p} : spans'[q] = spans[q]
    PROVE  ReadShape' /\ Others(p) /\ Reading(p)' /\ pc'[p] # "probe"
<1>1. ix[p] \in Replica /\ opts[p] \in Options /\ basis[p] = None /\ answer[p] = None
  BY DEF Reading, Placed
<1>2. /\ pc' \in [Reads -> PCs] /\ ix' \in [Reads -> 1..(NReplicas + 1)]
      /\ basis' \in [Reads -> Bases \cup {None}]
      /\ \A q \in Reads : q # p => pc'[q] = pc[q] /\ ix'[q] = ix[q] /\ basis'[q] = basis[q]
      /\ \/ pc'[p] = "ask" /\ ix'[p] = ix[p] /\ Chosen(ix[p], opts[p], basis'[p])
         \/ pc'[p] = "snapshot" /\ ix'[p] \in Replica /\ basis'[p] = None
         \/ pc'[p] = "primary" /\ basis'[p] = None
  BY <1>1, JudgeStep DEF Inv
<1>3. ReadShape'
  BY <1>2 DEF Inv, ReadShape
<1>4. Others(p)
  BY <1>2 DEF Others
<1>5. opts'[p] = opts[p] /\ answer'[p] = None
  BY <1>1
<1>6. Reading(p)'
  BY <1>1, <1>2, <1>5 DEF Reading, Placed
<1> QED
  BY <1>2, <1>3, <1>4, <1>6

LEMMA SnapshotStep ==
    ASSUME Inv, NEW p \in Reads, Snapshot(p)
    PROVE  ReadShape' /\ Others(p) /\ Reading(p)' /\ pc'[p] # "probe"
<1>1. /\ ReadShape /\ HandleShape /\ Health /\ Reading(p) /\ pc[p] = "snapshot"
      /\ UNCHANGED <<kind, opts, spans, answer>>
  BY DEF Inv, Snapshot
<1>2. ix[p] \in Replica /\ basis[p] = None /\ spans[p] = 0
  BY <1>1 DEF Reading, Placed
<1>3. CASE Stale(status[ix[p]])
  <2>1. pc' = [pc EXCEPT ![p] = "lock"] /\ UNCHANGED <<ix, basis>>
    BY <1>3 DEF Snapshot
  <2>2. ReadShape' /\ Others(p) /\ pc'[p] = "lock"
    BY <1>1, <2>1 DEF ReadShape, Others, PCs
  <2> QED
    BY <1>1, <2>1, <2>2 DEF Reading, Placed
<1>4. CASE ~Stale(status[ix[p]])
  <2>1. Judge(p, status[ix[p]])
    BY <1>4 DEF Snapshot
  <2>2. status[ix[p]] \in Status
    BY <1>1, <1>2 DEF HandleShape
  <2>3. clock - status[ix[p]].checked <= Interval
    BY <1>1, <1>4, <2>2, IntervalAssumption DEF Stale, Age, Status, HandleShape
  <2>4. Judged(p, status[ix[p]])
    BY <1>1, <1>2, <2>2, <2>3 DEF Judged, Health
  <2>5. spans' \in [Reads -> 0..1] /\ spans'[p] = 0 /\ \A q \in Reads \ {p} : spans'[q] = spans[q]
    BY <1>1, <1>2 DEF ReadShape
  <2> QED
    BY <1>1, <2>1, <2>4, <2>5, AfterJudge
<1> QED
  BY <1>3, <1>4

LEMMA LockStep ==
    ASSUME Inv, NEW p \in Reads, Lock(p)
    PROVE  ReadShape' /\ Others(p) /\ Reading(p)' /\ HandleShape' /\ Mutexes'
<1>1. /\ ReadShape /\ HandleShape /\ Health /\ Mutexes /\ Reading(p) /\ pc[p] = "lock"
      /\ UNCHANGED <<phase, changes, clock, routing, status, kind, opts, answer>>
  BY DEF Inv, Lock, handleVars
<1>2. ix[p] \in Replica /\ basis[p] = None /\ spans[p] = 0
  BY <1>1 DEF Reading, Placed
<1>3. CASE /\ mutex' = [mutex EXCEPT ![ix[p]] = p]
           /\ pc' = [pc EXCEPT ![p] = "probe"]
           /\ spans' = [spans EXCEPT ![p] = spans[p] + 1]
           /\ UNCHANGED <<ix, basis>>
  <2>1. ReadShape' /\ Others(p) /\ pc'[p] = "probe" /\ spans'[p] = 1
    BY <1>1, <1>2, <1>3 DEF ReadShape, Others, PCs
  <2>2. Reading(p)'
    BY <1>1, <1>3, <2>1 DEF Reading, Placed
  <2>3. HandleShape'
    BY <1>1, <1>3 DEF HandleShape
  <2>4. ASSUME NEW r \in Replica, mutex'[r] # None
        PROVE  pc'[mutex'[r]] = "probe" /\ ix'[mutex'[r]] = r
    <3>1. CASE r = ix[p]
      BY <1>1, <1>3, <2>1, <3>1 DEF HandleShape
    <3>2. CASE r # ix[p]
      <4>1. mutex'[r] = mutex[r] /\ mutex[r] \in Reads
        BY <1>1, <1>3, <2>4, <3>2 DEF HandleShape
      <4> QED
        BY <1>1, <2>1, <2>4, <4>1, <3>2 DEF Mutexes, Others
    <3> QED
      BY <3>1, <3>2
  <2> QED
    BY <2>1, <2>2, <2>3, <2>4 DEF Mutexes
<1>4. CASE ~NeedsProbe(status[ix[p]]) /\ Judge(p, status[ix[p]]) /\ UNCHANGED <<mutex, spans>>
  <2>1. status[ix[p]] \in Status
    BY <1>1, <1>2 DEF HandleShape
  <2>2. clock - status[ix[p]].checked <= Interval
    BY <1>1, <1>4, <2>1, IntervalAssumption DEF NeedsProbe, Age, Status, HandleShape
  <2>3. Judged(p, status[ix[p]])
    BY <1>1, <1>2, <2>1, <2>2 DEF Judged, Health
  <2>4. spans' \in [Reads -> 0..1] /\ spans'[p] = 0 /\ \A q \in Reads \ {p} : spans'[q] = spans[q]
    BY <1>1, <1>2, <1>4 DEF ReadShape
  <2>5. ReadShape' /\ Others(p) /\ Reading(p)' /\ pc'[p] # "probe"
    BY <1>1, <1>4, <2>3, <2>4, AfterJudge
  <2>6. HandleShape'
    BY <1>1, <1>4 DEF HandleShape
  <2>7. Mutexes'
    BY <1>1, <1>4, <2>5 DEF Mutexes, Others, HandleShape
  <2> QED
    BY <2>5, <2>6, <2>7
<1> QED
  BY <1>3, <1>4 DEF Lock

\* What a probe may leave as the status.
LEMMA CheckedShape ==
    ASSUME HandleShape, NEW r \in Replica
    PROVE  /\ \A found \in Reports : /\ Checked(r, found) \in Status
                                     /\ Checked(r, found).checked = clock
                                     /\ Checked(r, found).healthy => Meets(r, Checked(r, found))
           /\ LET s == [status[r] EXCEPT !.checked = clock, !.healthy = FALSE]
              IN  s \in Status /\ ~s.healthy
<1>1. ASSUME NEW found \in Reports
      PROVE  /\ Checked(r, found) \in Status
             /\ Checked(r, found).checked = clock
             /\ Checked(r, found).healthy => Meets(r, Checked(r, found))
  <2>1. found \in [readOnly: BOOLEAN, lag: Nat]
    BY InputsAssumption
  <2> QED
    BY <2>1 DEF Checked, Status, Meets, HandleShape
<1> QED
  BY <1>1 DEF HandleShape, Status

LEMMA ProbeStep ==
    ASSUME Inv, NEW p \in Reads, ProbeEnds(p)
    PROVE  ReadShape' /\ Others(p) /\ Reading(p)' /\ HandleShape' /\ Health' /\ Mutexes'
<1> DEFINE r == ix[p]
<1>1. /\ ReadShape /\ HandleShape /\ Health /\ Mutexes /\ Reading(p) /\ pc[p] = "probe"
      /\ UNCHANGED <<phase, changes, clock, routing, kind, opts, answer>>
      /\ mutex' = [mutex EXCEPT ![r] = None]
      /\ spans' = [spans EXCEPT ![p] = spans[p] - 1]
  BY DEF Inv, ProbeEnds, handleVars
<1>2. r \in Replica /\ spans[p] = 1
  BY <1>1 DEF Reading, Placed
<1>3. PICK s \in Status : /\ status' = [status EXCEPT ![r] = s]
                          /\ Judge(p, s)
                          /\ s.healthy => Meets(r, s)
                          /\ s.healthy => s.checked = clock
  BY <1>1, <1>2, CheckedShape DEF ProbeEnds
<1>4. Judged(p, s)
  BY <1>1, <1>3, IntervalAssumption DEF Judged, HandleShape
<1>5. spans' \in [Reads -> 0..1] /\ spans'[p] = 0 /\ \A q \in Reads \ {p} : spans'[q] = spans[q]
  BY <1>1, <1>2 DEF ReadShape
<1>6. ReadShape' /\ Others(p) /\ Reading(p)' /\ pc'[p] # "probe"
  BY <1>1, <1>3, <1>4, <1>5, AfterJudge
<1>7. HandleShape'
  BY <1>1, <1>2, <1>3 DEF HandleShape
<1>8. Health'
  BY <1>1, <1>2, <1>3 DEF Health, HandleShape
<1>9. ASSUME NEW i \in Replica, mutex'[i] # None
      PROVE  pc'[mutex'[i]] = "probe" /\ ix'[mutex'[i]] = i
  <2>1. i # r /\ mutex'[i] = mutex[i] /\ mutex[i] \in Reads
    BY <1>1, <1>2, <1>9 DEF HandleShape
  <2>2. pc[mutex[i]] = "probe" /\ ix[mutex[i]] = i
    BY <1>1, <1>9, <2>1 DEF Mutexes
  <2>3. mutex[i] # p
    BY <2>1, <2>2
  <2> QED
    BY <1>6, <2>1, <2>2, <2>3 DEF Others
<1> QED
  BY <1>6, <1>7, <1>8, <1>9 DEF Mutexes

LEMMA AskStep ==
    ASSUME Inv, NEW p \in Reads, Ask(p)
    PROVE  ReadShape' /\ Others(p) /\ Reading(p)' /\ pc[p] # "probe"
<1>1. /\ ReadShape /\ Reading(p) /\ pc[p] \in {"ask", "primary"}
      /\ spans' = [spans EXCEPT ![p] = spans[p] + 1]
      /\ pc' = [pc EXCEPT ![p] = "answer"]
      /\ UNCHANGED <<kind, opts, ix, basis, answer>>
  BY DEF Inv, Ask
<1>2. spans[p] = 0
  BY <1>1 DEF Reading, Placed
<1>3. ReadShape' /\ Others(p) /\ pc'[p] = "answer" /\ spans'[p] = 1
  BY <1>1, <1>2 DEF ReadShape, Others, PCs
<1> QED
  BY <1>1, <1>3 DEF Reading, Placed

LEMMA AnswerStep ==
    ASSUME Inv, NEW p \in Reads, Answer(p)
    PROVE  ReadShape' /\ Others(p) /\ Reading(p)' /\ pc[p] # "probe"
<1>1. /\ ReadShape /\ Reading(p) /\ pc[p] = "answer"
      /\ UNCHANGED <<kind, opts, ix, basis>>
  BY DEF Inv, Answer
<1>2. spans[p] = 1 /\ answer[p] = None
  BY <1>1 DEF Reading, Placed
<1>3. PICK a \in FirstAnswers(p) :
          IF FallsBack(p, a)
          THEN /\ pc' = [pc EXCEPT ![p] = "retry"]
               /\ spans' = [spans EXCEPT ![p] = IF kind[p] = "rows" THEN spans[p] - 1 ELSE spans[p]]
               /\ UNCHANGED answer
          ELSE /\ answer' = [answer EXCEPT ![p] = [from |-> Target(p), is |-> a]]
               /\ pc' = [pc EXCEPT ![p] = "end"]
               /\ spans' = [spans EXCEPT ![p] = spans[p] - 1]
  BY DEF Answer
<1>4. CASE FallsBack(p, a)
  <2>1. kind[p] \in {"row", "rows"} /\ kind'[p] = kind[p]
    BY <1>1 DEF ReadShape, Kinds
  <2>2. /\ ReadShape' /\ Others(p) /\ pc'[p] = "retry" /\ UNCHANGED answer
        /\ spans'[p] = IF kind[p] = "row" THEN 1 ELSE 0
    BY <1>1, <1>2, <1>3, <1>4, <2>1 DEF ReadShape, Others, PCs
  <2> QED
    BY <1>1, <1>2, <2>1, <2>2 DEF Reading, Placed
<1>5. CASE ~FallsBack(p, a)
  <2> DEFINE b == [from |-> Target(p), is |-> a]
  <2>1. Target(p) \in 0..NReplicas
    BY <1>1, ReplicasAssumption DEF Target, Primary, Reading, Placed, Replica
  <2>2. b \in Answers /\ b.from = Target(p) /\ b.is = a
    BY <2>1 DEF FirstAnswers, Answers, Results
  <2>3. a = "ok" \/ Target(p) = Primary \/ opts[p].noFallback
    BY <1>5 DEF FallsBack
  <2>4. /\ answer' = [answer EXCEPT ![p] = b]
        /\ pc' = [pc EXCEPT ![p] = "end"]
        /\ spans' = [spans EXCEPT ![p] = spans[p] - 1]
    BY <1>3, <1>5
  <2> HIDE DEF b
  <2>5. ReadShape' /\ Others(p) /\ pc'[p] = "end" /\ spans'[p] = 0 /\ answer'[p] = b
    BY <1>1, <1>2, <2>2, <2>4 DEF ReadShape, Others, PCs
  <2> QED
    BY <1>1, <2>2, <2>3, <2>5 DEF Reading, Placed
<1> QED
  BY <1>4, <1>5

LEMMA RetryStep ==
    ASSUME Inv, NEW p \in Reads, Retry(p)
    PROVE  ReadShape' /\ Others(p) /\ Reading(p)' /\ pc[p] # "probe"
<1>1. /\ ReadShape /\ Reading(p) /\ pc[p] = "retry"
      /\ spans' = [spans EXCEPT ![p] = IF kind[p] = "rows" THEN spans[p] + 1 ELSE spans[p]]
      /\ basis' = [basis EXCEPT ![p] = None]
      /\ pc' = [pc EXCEPT ![p] = "answer"]
      /\ UNCHANGED <<kind, opts, ix, answer>>
  BY DEF Inv, Retry
<1>2. kind[p] \in {"row", "rows"} /\ spans[p] = (IF kind[p] = "row" THEN 1 ELSE 0)
  BY <1>1 DEF Reading, Placed, ReadShape, Kinds
<1>3. ReadShape' /\ Others(p) /\ pc'[p] = "answer" /\ spans'[p] = 1 /\ basis'[p] = None
  BY <1>1, <1>2 DEF ReadShape, Others, PCs
<1> QED
  BY <1>1, <1>3 DEF Reading, Placed

LEMMA FinishStep ==
    ASSUME Inv, NEW p \in Reads, Finish(p)
    PROVE  ReadShape' /\ Others(p) /\ Reading(p)' /\ pc[p] # "probe"
<1>1. /\ ReadShape /\ Reading(p) /\ pc[p] = "end"
      /\ pc' = [pc EXCEPT ![p] = "done"]
      /\ ix' = [ix EXCEPT ![p] = 1]
      /\ basis' = [basis EXCEPT ![p] = None]
      /\ UNCHANGED <<kind, opts, spans>>
  BY DEF Inv, Finish
<1>2. spans[p] = 0 /\ answer[p] \in Answers
  BY <1>1 DEF Reading, Placed
<1>3. PICK a \in Answers : /\ answer' = [answer EXCEPT ![p] = a]
                           /\ a = answer[p] \/ a.is = "broken"
  <2>1. CASE UNCHANGED answer
    BY <1>1, <1>2, <2>1 DEF ReadShape
  <2>2. CASE answer' = [answer EXCEPT ![p].is = "broken"]
    <3>1. [answer[p] EXCEPT !.is = "broken"] \in Answers
      BY <1>2 DEF Answers, Results
    <3>2. [answer[p] EXCEPT !.is = "broken"].is = "broken"
      BY <1>2 DEF Answers
    <3> QED
      BY <2>2, <3>1, <3>2
  <2> QED
    BY <2>1, <2>2 DEF Finish
<1>4. /\ ReadShape' /\ Others(p) /\ pc'[p] = "done" /\ ix'[p] = 1 /\ basis'[p] = None
      /\ answer'[p] = a
  BY <1>1, <1>3, ReplicasAssumption DEF ReadShape, Others, PCs
<1> QED
  BY <1>1, <1>2, <1>3, <1>4 DEF Reading, Placed

-----------------------------------------------------------------------------
(* The invariant. *)

\* A step of a read that leaves the mutexes alone leaves them with the reads
\* that hold them.
LEMMA MutexesStay ==
    ASSUME Mutexes, HandleShape, NEW p \in Reads, pc[p] # "probe", Others(p), UNCHANGED mutex
    PROVE  Mutexes'
BY DEF Mutexes, Others, HandleShape

\* Other reads are where they were.
LEMMA ReadingStays ==
    ASSUME NEW p \in Reads, \A q \in Reads : Reading(q), Reading(p)', Others(p)
    PROVE  \A q \in Reads : Reading(q)'
<1> SUFFICES ASSUME NEW q \in Reads PROVE Reading(q)'
  OBVIOUS
<1>1. CASE q = p
  BY <1>1
<1>2. CASE q # p
  BY <1>2 DEF Others, Reading
<1> QED
  BY <1>1, <1>2

\* Steps of the handle alone.
LEMMA HandleSteps ==
    ASSUME Inv, OpenPool \/ OpenFails \/ Close \/ Tick \/ (\E r \in Routings : SetPolicies(r))
                \/ UNCHANGED vars
    PROVE  Inv'
<1>1. PoolsOpen'
  BY PoolsStep DEF Inv, Next
<1>2. UNCHANGED <<healthVars, readVars>>
  BY DEF OpenPool, OpenFails, Close, Tick, SetPolicies, vars
<1>3. /\ phase' \in {"opening", "open", "failed", "closed"}
      /\ changes' \in 0..MaxChanges
      /\ clock' \in 0..MaxClock
      /\ \A n \in DOMAIN routing'.policies : routing'.policies[n] \in Options
  BY InputsAssumption, IntervalAssumption
  DEF Inv, HandleShape, OpenPool, OpenFails, Close, Tick, SetPolicies, vars, handleVars
<1>4. HandleShape' /\ Health' /\ Mutexes'
  BY <1>2, <1>3 DEF Inv, HandleShape, Health, Mutexes, healthVars, readVars
<1>5. ReadShape' /\ \A p \in Reads : Reading(p)'
  BY <1>2 DEF Inv, ReadShape, Reading, readVars
<1> QED
  BY <1>1, <1>4, <1>5 DEF Inv

\* Steps of a read that leave the handle, the status and the mutexes alone.
LEMMA PlainSteps ==
    ASSUME Inv, NEW p \in Reads, UNCHANGED <<handleVars, healthVars>>,
           ReadShape', Others(p), Reading(p)', pc[p] # "probe"
    PROVE  Inv'
<1>1. HandleShape' /\ Health' /\ PoolsOpen'
  BY DEF Inv, HandleShape, Health, PoolsOpen, handleVars, healthVars
<1>2. Mutexes'
  BY MutexesStay DEF Inv, healthVars
<1>3. \A q \in Reads : Reading(q)'
  BY ReadingStays DEF Inv
<1> QED
  BY <1>1, <1>2, <1>3 DEF Inv

LEMMA NextInv == Inv /\ [Next]_vars => Inv'
<1> SUFFICES ASSUME Inv, [Next]_vars PROVE Inv'
  OBVIOUS
<1>1. CASE OpenPool \/ OpenFails \/ Close \/ Tick \/ (\E r \in Routings : SetPolicies(r))
           \/ UNCHANGED vars
  BY <1>1, HandleSteps
<1>2. ASSUME NEW p \in Reads, NEW c \in Contexts, Start(p, c) PROVE Inv'
  <2>1. UNCHANGED <<handleVars, healthVars>> /\ pc[p] # "probe"
    BY <1>2 DEF Start
  <2> QED
    BY <1>2, <2>1, StartStep, PlainSteps
<1>3. ASSUME NEW p \in Reads, NamedPolicy(p) \/ DefaultName(p) \/ DefaultPolicy(p) PROVE Inv'
  <2>1. UNCHANGED <<handleVars, healthVars>> /\ pc[p] # "probe"
    BY <1>3 DEF NamedPolicy, DefaultName, DefaultPolicy
  <2> QED
    BY <1>3, <2>1, PolicySteps, PlainSteps
<1>4. ASSUME NEW p \in Reads, Snapshot(p) PROVE Inv'
  <2>1. UNCHANGED <<handleVars, healthVars>> /\ pc[p] # "probe"
    BY <1>4 DEF Snapshot
  <2> QED
    BY <1>4, <2>1, SnapshotStep, PlainSteps
<1>5. ASSUME NEW p \in Reads, Ask(p) \/ Answer(p) \/ Retry(p) \/ Finish(p) PROVE Inv'
  <2>1. UNCHANGED <<handleVars, healthVars>>
    BY <1>5 DEF Ask, Answer, Retry, Finish
  <2>2. ReadShape' /\ Others(p) /\ Reading(p)' /\ pc[p] # "probe"
    BY <1>5, AskStep, AnswerStep, RetryStep, FinishStep
  <2> QED
    BY <2>1, <2>2, PlainSteps
<1>6. ASSUME NEW p \in Reads, Lock(p) PROVE Inv'
  <2>1. ReadShape' /\ Others(p) /\ Reading(p)' /\ HandleShape' /\ Mutexes'
    BY <1>6, LockStep
  <2>2. Health' /\ PoolsOpen'
    BY <1>6 DEF Lock, Inv, Health, PoolsOpen, handleVars
  <2> QED
    BY <2>1, <2>2, ReadingStays DEF Inv
<1>7. ASSUME NEW p \in Reads, ProbeEnds(p) PROVE Inv'
  <2>1. ReadShape' /\ Others(p) /\ Reading(p)' /\ HandleShape' /\ Health' /\ Mutexes'
    BY <1>7, ProbeStep
  <2>2. PoolsOpen'
    BY <1>7 DEF ProbeEnds, Inv, PoolsOpen, handleVars
  <2> QED
    BY <2>1, <2>2, ReadingStays DEF Inv
<1> QED
  BY <1>1, <1>2, <1>3, <1>4, <1>5, <1>6, <1>7 DEF Next, ReadStep, Quiet

LEMMA Invariance == Spec => []Inv
<1>1. Init => Inv
  BY InitInv
<1>2. Inv /\ [Next]_vars => Inv'
  BY NextInv
<1> QED
  BY <1>1, <1>2, PTL DEF Spec

-----------------------------------------------------------------------------
(* The theorems. *)

\* Every state of the driver and its reads has the types that TypeOK states.
THEOREM TypeCorrect == Spec => []TypeOK
<1>1. Inv => TypeOK
  <2> SUFFICES ASSUME Inv PROVE TypeOK
    OBVIOUS
  <2>1. \A r \in Replica : status[r] \in Status /\ mutex[r] \in Reads \cup {None}
    BY DEF Inv, HandleShape
  <2>2. pools \subseteq {Primary} \cup Replica
    <3>1. 0..NReplicas \subseteq {Primary} \cup Replica
      BY ReplicasAssumption DEF Primary, Replica
    <3> QED
      BY <3>1 DEF Inv, PoolsOpen
  <2>3. \A p \in Reads : /\ pc[p] \in PCs /\ kind[p] \in Kinds /\ opts[p] \in Options \cup {None}
                         /\ ix[p] \in 1..(NReplicas + 1) /\ spans[p] \in 0..1
                         /\ answer[p] \in Answers \cup {None}
    BY DEF Inv, ReadShape
  <2> QED
    BY <2>1, <2>2, <2>3 DEF Inv, HandleShape, TypeOK, PCs, Answers
<1> QED
  BY <1>1, Invariance, PTL

\* A read goes to a replica only by a status that is no older than the
\* interval and meets what the read and the replica ask (selectReplica and
\* the health check of driver.go), however many reads wait for each other's
\* probes.
THEOREM FreshRouting == Spec => []RoutedByFreshStatus
<1>1. Inv => RoutedByFreshStatus
  BY DEF Inv, Reading, Placed, Chosen, Meets, RoutedByFreshStatus
<1> QED
  BY <1>1, Invariance, PTL

\* A probe begins only an interval after the last one of that replica ended:
\* reads that found the status stale together make one.
THEOREM SpacedProbes == Spec => ProbesAreSpaced
<1> DEFINE Spaced == \A r \in Replica : mutex[r] = None /\ mutex'[r] # None =>
          Interval <= 0 \/ status[r].checked = None
          \/ clock - status[r].checked >= Interval
<1>1. Inv /\ [Next]_vars => [Spaced]_vars
  <2> SUFFICES ASSUME Inv, Next, NEW r \in Replica, mutex[r] = None, mutex'[r] # None
               PROVE  Interval <= 0 \/ status[r].checked = None
                      \/ clock - status[r].checked >= Interval
    BY DEF vars
  <2>1. PICK p \in Reads : Lock(p) \/ ProbeEnds(p)
    BY DEF Next, ReadStep, OpenPool, OpenFails, Close, Tick, SetPolicies, Start, NamedPolicy,
           DefaultName, DefaultPolicy, Snapshot, Ask, Answer, Retry, Finish, Quiet, vars, healthVars
  <2>2. mutex \in [Replica -> Reads \cup {None}]
    BY DEF Inv, HandleShape
  <2>3. ~ProbeEnds(p)
    BY <2>2 DEF ProbeEnds
  <2>4. NeedsProbe(status[ix[p]]) /\ mutex' = [mutex EXCEPT ![ix[p]] = p]
    BY <2>1, <2>3 DEF Lock
  <2>5. r = ix[p]
    BY <2>2, <2>4
  <2> QED
    BY <2>4, <2>5 DEF NeedsProbe, Age
<1> QED
  BY <1>1, Invariance, PTL DEF Spec, ProbesAreSpaced

\* With fallback allowed, only the primary says that there is no row, or
\* fails the read before any row (the retries of Query and of Scan).
THEOREM PrimaryDecides == Spec => []PrimaryHasTheLastWord
<1>1. Inv => PrimaryHasTheLastWord
  BY DEF Inv, Reading, Placed, PrimaryHasTheLastWord
<1> QED
  BY <1>1, Invariance, PTL

\* Observations end on every path, pools are closed when opening fails and by
\* Close, and only a read that probes a replica holds its mutex.
THEOREM ResourcesReturned == Spec => []ResourcesAreReturned
<1>1. Inv => ResourcesAreReturned
  <2> SUFFICES ASSUME Inv PROVE ResourcesAreReturned
    OBVIOUS
  <2>1. \A p \in Reads : pc[p] \in {"idle", "snapshot", "done"} => spans[p] = 0
    BY DEF Inv, Reading, Placed
  <2>2. phase \in {"failed", "closed"} => pools = {}
    BY DEF Inv, PoolsOpen
  <2>3. \A r \in Replica : mutex[r] # None => pc[mutex[r]] = "probe" /\ ix[mutex[r]] = r
    BY DEF Inv, Mutexes
  <2> QED
    BY <2>1, <2>2, <2>3 DEF ResourcesAreReturned
<1> QED
  BY <1>1, Invariance, PTL

=============================================================================
