------------------------------ MODULE DiffProofs ------------------------------
(***************************************************************************)
(* What the schema diff promises (SchemaDiff), for any schemas its         *)
(* assumption admits and any number of runs of erm gen and erm migrate.    *)
(*                                                                         *)
(* A list of operations leads from a database to another (Leads) when      *)
(* PostgreSQL accepts each where those before it have left the database,   *)
(* and none loses a column that is to stay.  The diff is a nest of loops   *)
(* over sorted names; for each there is a formula for the database in the  *)
(* middle of it (Mid, Built, Mixed, Left), by the set of names that are    *)
(* done, and a lemma that the next name leads on.  The operations are      *)
(* taken in two halves, those that add foreign keys last, so each loop is  *)
(* followed twice.  Cutting a list into files changes nothing (ChunkLeads),*)
(* and the files that wait always lead from the database to the snapshot   *)
(* (DiffInv), which differs from the entities in nothing.                  *)
(***************************************************************************)
EXTENDS SchemaDiff, FiniteSetTheorems, SequenceTheorems, WellFoundedInduction, TLAPS

-----------------------------------------------------------------------------
(* Lists, and the loops over sorted names that make them. *)

\* A set of numbers that is not empty has a least member.
LEMMA LeastNumber ==
    ASSUME NEW S \in SUBSET Nat, S # {}
    PROVE  \E n \in S : \A m \in S : n <= m
<1>1. PICK n \in S : \A m \in S : ~ (<<m, n>> \in OpToRel(<, Nat))
  BY NatLessThanWellFounded, WFMin, Zenon
<1>2. \A m \in S : ~ (m < n)
  BY <1>1 DEF OpToRel
<1> QED
  BY <1>2

\* A sequence, of whatever elements.
IsList(s) == s \in Seq(Range(s))

LEMMA ListIs ==
    ASSUME NEW s, IsList(s)
    PROVE  Len(s) \in Nat /\ DOMAIN s = 1..Len(s)
BY DEF IsList

LEMMA ListOf == ASSUME NEW S, NEW s \in Seq(S) PROVE IsList(s)
<1>1. \A i \in 1..Len(s) : s[i] \in Range(s)
  BY DEF Range
<1> QED
  BY <1>1, IsASeq DEF IsList

\* The elements of two lists, one after the other.
LEMMA ConcatIs ==
    ASSUME NEW s, NEW t, IsList(s), IsList(t)
    PROVE  /\ IsList(s \o t) /\ Len(s \o t) = Len(s) + Len(t)
           /\ \A i \in 1..(Len(s) + Len(t)) :
                  (s \o t)[i] = IF i <= Len(s) THEN s[i] ELSE t[i - Len(s)]
           /\ <<>> \o t = t /\ s \o <<>> = s
<1> DEFINE S == Range(s) \cup Range(t)
<1>1. s \in Seq(S) /\ t \in Seq(S)
  BY DEF IsList
<1> HIDE DEF S
<1>2. s \o t \in Seq(S) /\ Len(s \o t) = Len(s) + Len(t)
  BY <1>1
<1>3. IsList(s \o t)
  BY <1>2, ListOf
<1> QED
  BY <1>1, <1>2, <1>3

LEMMA AppendIs ==
    ASSUME NEW s, NEW x, IsList(s)
    PROVE  /\ IsList(Append(s, x)) /\ Len(Append(s, x)) = Len(s) + 1
           /\ \A i \in 1..(Len(s) + 1) : Append(s, x)[i] = IF i <= Len(s) THEN s[i] ELSE x
<1> DEFINE S == Range(s) \cup {x}
<1>1. s \in Seq(S) /\ x \in S
  BY DEF IsList
<1> HIDE DEF S
<1>2. Append(s, x) \in Seq(S) /\ Len(Append(s, x)) = Len(s) + 1
  BY <1>1
<1>3. IsList(Append(s, x))
  BY <1>2, ListOf
<1> QED
  BY <1>1, <1>2, <1>3

\* Flattening a list of lists adds one after the other.
LEMMA FlattenSteps ==
    ASSUME NEW ss, IsList(ss), \A i \in 1..Len(ss) : IsList(ss[i])
    PROVE  \E f : /\ f[0] = <<>>
                  /\ \A k \in 1..Len(ss) : f[k] = f[k - 1] \o ss[k]
                  /\ FlattenSeq(ss) = f[Len(ss)]
<1> DEFINE n == Len(ss)
           After(a, k) == a \o ss[k]
           Loop(f, m) == f = [k \in 1..m |-> IF k = 1 THEN ss[k] ELSE After(f[k - 1], k)]
           Short == {m \in Nat : ~\E f : Loop(f, m)}
           g == CHOOSE f : Loop(f, n)
<1>0. n \in Nat
  BY ListIs
<1>1. n # 0 => FlattenSeq(ss) = g[n]
  BY DEF FlattenSeq
<1>2. n = 0 => FlattenSeq(ss) = <<>>
  BY DEF FlattenSeq, IsList
<1> HIDE DEF After
<1>3. Short = {}
  <2> SUFFICES ASSUME Short # {} PROVE FALSE
    OBVIOUS
  <2>1. PICK m \in Short : \A l \in Short : m <= l
    BY LeastNumber
  <2>2. m \in Nat /\ ~\E f : Loop(f, m)
    OBVIOUS
  <2>3. CASE m = 0
    <3> DEFINE h == [k \in 1..0 |-> ss]
    <3>1. Loop(h, 0)
      OBVIOUS
    <3> QED
      BY <2>2, <2>3, <3>1
  <2>4. CASE m # 0
    <3>1. m - 1 \in Nat /\ ~ (m <= m - 1)
      BY <2>2, <2>4
    <3>2. PICK f : Loop(f, m - 1)
      BY <2>1, <3>1
    <3> DEFINE h == [k \in 1..m |-> IF k < m THEN f[k] ELSE IF m = 1 THEN ss[1] ELSE After(f[m - 1], m)]
    <3>3. \A k \in 1..(m - 1) : f[k] = IF k = 1 THEN ss[k] ELSE After(f[k - 1], k)
      BY <3>2
    <3>4. ASSUME NEW k \in 1..m
          PROVE  h[k] = IF k = 1 THEN ss[k] ELSE After(h[k - 1], k)
      <4>1. CASE k < m
        <5>1. k \in 1..(m - 1) /\ h[k] = f[k] /\ (k # 1 => h[k - 1] = f[k - 1])
          BY <2>2, <4>1
        <5> QED
          BY <3>3, <5>1
      <4>2. CASE ~ (k < m) /\ m # 1
        <5>1. k = m /\ h[m] = After(f[m - 1], m) /\ h[m - 1] = f[m - 1]
          BY <2>2, <2>4, <3>1, <4>2
        <5> QED
          BY <4>2, <5>1
      <4>3. CASE ~ (k < m) /\ m = 1
        BY <4>3
      <4> QED
        BY <4>1, <4>2, <4>3
    <3>5. Loop(h, m)
      BY <3>4
    <3> QED
      BY <2>2, <3>5
  <2> QED
    BY <2>3, <2>4
<1>4. Loop(g, n)
  BY <1>0, <1>3
<1> HIDE DEF g
<1>5. \A k \in 1..n : g[k] = IF k = 1 THEN ss[k] ELSE After(g[k - 1], k)
  BY <1>4
<1> DEFINE f == [k \in 0..n |-> IF k = 0 THEN <<>> ELSE g[k]]
<1>6. f[0] = <<>> /\ \A k \in 1..n : f[k] = g[k] /\ f[k - 1] = IF k = 1 THEN <<>> ELSE g[k - 1]
  BY <1>0
<1>7. \A k \in 1..n : k = 1 => <<>> \o ss[k] = ss[k]
  BY ConcatIs
<1> HIDE DEF f
<1>8. ASSUME NEW k \in 1..n PROVE f[k] = f[k - 1] \o ss[k]
  <2>1. CASE k = 1
    <3>1. f[k] = ss[k] /\ f[k - 1] = <<>>
      BY <1>5, <1>6, <2>1
    <3> QED
      BY <1>7, <2>1, <3>1
  <2>2. CASE k # 1
    <3>1. f[k] = After(g[k - 1], k) /\ f[k - 1] = g[k - 1]
      BY <1>5, <1>6, <2>2
    <3> QED
      BY <3>1 DEF After
  <2> QED
    BY <2>1, <2>2
<1>9. FlattenSeq(ss) = f[n]
  BY <1>0, <1>1, <1>2, <1>6
<1> HIDE DEF n
<1>10. f[n] = f[Len(ss)]
  BY DEF n
<1> QED
  BY <1>6, <1>8, <1>9 DEF n

\* Names in order: each has its place, after the names below it.
LEMMA Places ==
    ASSUME NEW S \in SUBSET Nat, IsFiniteSet(S)
    PROVE  /\ Cardinality(S) \in Nat
           /\ \A x \in S : Cardinality({y \in S : y < x}) \in 0..(Cardinality(S) - 1)
           /\ \A x, y \in S : x < y => Cardinality({z \in S : z < x}) < Cardinality({z \in S : z < y})
           /\ \A i \in 1..Cardinality(S) : \E x \in S : Cardinality({y \in S : y < x}) = i - 1
<1> DEFINE Below(x) == {y \in S : y < x}
           n == Cardinality(S)
<1>1. n \in Nat
  BY FS_CardinalityType
<1>2. ASSUME NEW x \in S
      PROVE  /\ IsFiniteSet(Below(x)) /\ Cardinality(Below(x)) \in Nat
             /\ Cardinality(Below(x) \cup {x}) = Cardinality(Below(x)) + 1
             /\ Below(x) \cup {x} \subseteq S
  <2>1. Below(x) \in SUBSET S /\ x \notin Below(x)
    OBVIOUS
  <2>2. IsFiniteSet(Below(x))
    BY <2>1, FS_Subset
  <2>3. Cardinality(Below(x)) \in Nat
    BY <2>2, FS_CardinalityType
  <2>4. Cardinality(Below(x) \cup {x}) = Cardinality(Below(x)) + 1
    BY <2>1, <2>2, FS_AddElement
  <2> QED
    BY <2>1, <2>2, <2>3, <2>4
<1>3. ASSUME NEW x \in S PROVE Cardinality(Below(x)) \in 0..(n - 1)
  <2>1. Below(x) \cup {x} \in SUBSET S
    BY <1>2
  <2>2. Cardinality(Below(x) \cup {x}) <= n
    BY <2>1, FS_Subset
  <2> QED
    BY <1>1, <1>2, <2>2
<1>4. ASSUME NEW x \in S, NEW y \in S, x < y
      PROVE  Cardinality(Below(x)) < Cardinality(Below(y))
  <2>1. ASSUME NEW z \in S, z < x PROVE z < y
    BY <1>4, <2>1
  <2>2. Below(x) \cup {x} \in SUBSET Below(y)
    BY <1>4, <2>1
  <2>3. /\ IsFiniteSet(Below(y)) /\ Cardinality(Below(y)) \in Nat /\ Cardinality(Below(x)) \in Nat
        /\ Cardinality(Below(x) \cup {x}) = Cardinality(Below(x)) + 1
    BY <1>2
  <2> HIDE DEF Below
  <2>4. Cardinality(Below(x) \cup {x}) <= Cardinality(Below(y))
    BY <2>2, <2>3, FS_Subset
  <2> QED
    BY <2>3, <2>4
<1> DEFINE f == [x \in S |-> Cardinality(Below(x))]
<1>5. f \in Injection(S, 0..(n - 1))
  <2>1. f \in [S -> 0..(n - 1)]
    BY <1>3
  <2>2. ASSUME NEW x \in S, NEW y \in S, f[x] = f[y] PROVE x = y
    <3>1. x \in Nat /\ y \in Nat
      OBVIOUS
    <3>2. Cardinality(Below(x)) = Cardinality(Below(y))
      BY <2>2
    <3>3. Cardinality(Below(x)) \in Nat
      BY <1>2
    <3> HIDE DEF f, Below
    <3>4. x < y => Cardinality(Below(x)) < Cardinality(Below(y))
      BY <1>4
    <3>5. y < x => Cardinality(Below(y)) < Cardinality(Below(x))
      BY <1>4
    <3>6. ~ (x < y) /\ ~ (y < x)
      BY <3>2, <3>3, <3>4, <3>5
    <3> QED
      BY <3>1, <3>6
  <2> QED
    BY <2>1, <2>2 DEF Injection, IsInjective
<1>6. IsFiniteSet(0..(n - 1)) /\ Cardinality(0..(n - 1)) = n
  <2>1. 0 \in Int /\ n - 1 \in Int /\ (n - 1) - 0 + 1 = n /\ (0 > n - 1 => n = 0)
    BY <1>1
  <2> HIDE DEF n
  <2> QED
    BY <2>1, FS_Interval
<1>7. f \in Surjection(S, 0..(n - 1))
  BY <1>5, <1>6, FS_Injection
<1>8. ASSUME NEW i \in 1..n PROVE \E x \in S : Cardinality(Below(x)) = i - 1
  <2>1. i - 1 \in 0..(n - 1)
    BY <1>1
  <2>2. PICK x \in S : f[x] = i - 1
    BY <1>7, <2>1 DEF Surjection
  <2> QED
    BY <2>2
<1> QED
  BY <1>1, <1>3, <1>4, <1>8

\* Sorted lists each name once, and the names below it are the places before it.
LEMMA SortedIs ==
    ASSUME NEW S \in SUBSET Nat, IsFiniteSet(S), NEW s, s = Sorted(S)
    PROVE  /\ IsList(s) /\ Len(s) = Cardinality(S)
           /\ \A i \in 1..Len(s) : s[i] \in S /\ {y \in S : y < s[i]} = {s[j] : j \in 1..(i - 1)}
           /\ \A x \in S : \E i \in 1..Len(s) : s[i] = x
           /\ \A i, j \in 1..Len(s) : i < j => s[i] < s[j]
<1> DEFINE n == Cardinality(S)
           r(x) == Cardinality({y \in S : y < x})
<1>1. n \in Nat /\ \A x \in S : r(x) \in 0..(n - 1)
  BY Places
<1>2. \A x, y \in S : x < y => r(x) < r(y)
  BY Places
<1>3. \A i \in 1..n : \E x \in S : r(x) = i - 1
  BY Places
<1>4. s = [i \in 1..n |-> CHOOSE x \in S : r(x) = i - 1]
  BY DEF Sorted
<1> HIDE DEF n, r
<1>5. \A i \in 1..n : s[i] \in S /\ r(s[i]) = i - 1
  BY <1>3, <1>4
<1>6. s \in Seq(S)
  BY <1>1, <1>4, <1>5, IsASeq
<1>7. IsList(s)
  BY <1>6, ListOf
<1>8. Len(s) = n
  BY <1>1, <1>4
<1>9. \A x, y \in S : x \in Nat /\ y \in Nat /\ r(x) \in Int /\ r(y) \in Int
  BY <1>1
<1>10. \A x, y \in S : (r(x) = r(y) => x = y) /\ (r(x) < r(y) => x < y)
  BY <1>2, <1>9
<1>11. ASSUME NEW x \in S PROVE \E i \in 1..n : s[i] = x
  <2>1. r(x) + 1 \in 1..n
    BY <1>1
  <2>2. r(s[r(x) + 1]) = r(x) /\ s[r(x) + 1] \in S
    BY <1>1, <1>5, <2>1
  <2> QED
    BY <1>10, <2>1, <2>2
<1>12. ASSUME NEW i \in 1..n, NEW j \in 1..n, i < j PROVE s[i] < s[j]
  <2>1. i \in Int /\ j \in Int /\ i - 1 < j - 1
    BY <1>1, <1>12
  <2>2. r(s[i]) < r(s[j]) /\ s[i] \in S /\ s[j] \in S
    BY <1>5, <2>1
  <2> QED
    BY <1>10, <2>2
<1>13. ASSUME NEW i \in 1..n PROVE {y \in S : y < s[i]} = {s[j] : j \in 1..(i - 1)}
  <2>1. ASSUME NEW y \in S, y < s[i] PROVE \E j \in 1..(i - 1) : y = s[j]
    <3>1. PICK j \in 1..n : s[j] = y
      BY <1>11
    <3>2. r(y) < r(s[i])
      BY <1>2, <1>5, <2>1
    <3>3. j - 1 < i - 1
      BY <1>5, <3>1, <3>2
    <3> QED
      BY <3>1, <3>3
  <2>2. ASSUME NEW j \in 1..(i - 1) PROVE s[j] \in S /\ s[j] < s[i]
    <3>1. j \in 1..n /\ j < i
      BY <1>1
    <3> QED
      BY <1>5, <1>12, <3>1
  <2> QED
    BY <2>1, <2>2
<1> QED
  BY <1>5, <1>7, <1>8, <1>11, <1>12, <1>13 DEF n

-----------------------------------------------------------------------------
(* Snapshots that hang together, and the operations that keep them so. *)

\* An operation PostgreSQL accepts, which drops none of the columns K.
Drops(op, k) ==
    op.kind \in {"drop_column", "drop_table"} /\ op.table = k[1] /\ op.name \in {0, k[2]}
\* No ordinary column of K is lost, nor dropped to come back.
Keeps(K, a, op, b) ==
    \A k \in K : k \in Ordinary(a) => k \in Ordinary(b) /\ ~Drops(op, k)
Moves(K, a, op, b) ==
    Accepts(a, op) /\ b = Effect(a, op) /\ Shape(b) /\ Keeps(K, a, op, b)

\* A list of operations, or the ones of a part of it, lead from d to e.
Taken(part, op) ==
    \/ part = "all"
    \/ part = "keys" /\ op.kind = "add_foreign_key"
    \/ part = "tables" /\ op.kind # "add_foreign_key"
Follows(K, part, a, op, b) == IF Taken(part, op) THEN Moves(K, a, op, b) ELSE b = a
Path(K, part, s, f) == \A i \in 1..Len(s) : Follows(K, part, f[i - 1], s[i], f[i])
Leads(K, part, d, s, e) ==
    IsList(s) /\ \E f : f[0] = d /\ f[Len(s)] = e /\ Path(K, part, s, f)

LEMMA LeadsNothing == ASSUME NEW K, NEW part, NEW d PROVE Leads(K, part, d, <<>>, d)
<1> DEFINE f == [i \in 0..0 |-> d]
<1>1. IsList(<<>>) /\ Len(<<>>) = 0
  BY DEF IsList
<1>2. f[0] = d /\ f[Len(<<>>)] = d /\ Path(K, part, <<>>, f)
  BY <1>1 DEF Path
<1> HIDE DEF f
<1> QED
  BY <1>1, <1>2 DEF Leads

LEMMA LeadsOne ==
    ASSUME NEW K, NEW part, NEW d, NEW op, NEW e, Follows(K, part, d, op, e)
    PROVE  Leads(K, part, d, <<op>>, e)
<1> DEFINE f == [i \in 0..1 |-> IF i = 0 THEN d ELSE e]
           s == <<op>>
<1>1. IsList(s) /\ Len(s) = 1 /\ s[1] = op
  <2>1. <<op>> \in Seq({op})
    OBVIOUS
  <2> QED
    BY <2>1, ListOf
<1> HIDE DEF s
<1>2. f[0] = d /\ f[Len(s)] = e
  BY <1>1
<1>3. Path(K, part, s, f)
  BY <1>1 DEF Path
<1>4. Leads(K, part, d, s, e)
  BY <1>1, <1>2, <1>3 DEF Leads
<1> QED
  BY <1>4 DEF s

\* Two lists, one after the other, lead along both ways.
LEMMA LeadsOn ==
    ASSUME NEW K, NEW part, NEW d, NEW s, NEW e, NEW t, NEW g,
           Leads(K, part, d, s, e), Leads(K, part, e, t, g)
    PROVE  Leads(K, part, d, s \o t, g)
<1>1. PICK f : f[0] = d /\ f[Len(s)] = e /\ Path(K, part, s, f)
  BY DEF Leads
<1>2. PICK h : h[0] = e /\ h[Len(t)] = g /\ Path(K, part, t, h)
  BY DEF Leads
<1>3. IsList(s) /\ IsList(t) /\ Len(s) \in Nat /\ Len(t) \in Nat
  BY ListIs DEF Leads
<1> DEFINE m == Len(s)
           n == Len(t)
           p == [i \in 0..(m + n) |-> IF i <= m THEN f[i] ELSE h[i - m]]
<1>4. /\ IsList(s \o t) /\ Len(s \o t) = m + n
      /\ \A i \in 1..(m + n) : (s \o t)[i] = IF i <= m THEN s[i] ELSE t[i - m]
  BY <1>3, ConcatIs
<1>5. m \in Nat /\ n \in Nat /\ f[m] = h[0]
  BY <1>1, <1>2, <1>3
<1>6. p[0] = d /\ p[m + n] = g
  <2>1. n = 0 => f[m] = g
    BY <1>2, <1>5
  <2>2. n # 0 => ~ (m + n <= m) /\ (m + n) - m = n
    BY <1>5
  <2>3. 0 \in 0..(m + n) /\ m + n \in 0..(m + n) /\ 0 <= m
    BY <1>5
  <2> QED
    BY <1>1, <1>2, <1>5, <2>1, <2>2, <2>3
<1>7. ASSUME NEW i \in 1..(m + n)
      PROVE  Follows(K, part, p[i - 1], (s \o t)[i], p[i])
  <2>1. CASE i <= m
    <3>1. i \in 1..m /\ p[i] = f[i] /\ p[i - 1] = f[i - 1] /\ (s \o t)[i] = s[i]
      BY <1>4, <1>5, <2>1
    <3> QED
      BY <1>1, <3>1 DEF Path
  <2>2. CASE ~ (i <= m)
    <3>1. i - m \in 1..n /\ p[i] = h[i - m] /\ (s \o t)[i] = t[i - m]
      BY <1>4, <1>5, <2>2
    <3>2. p[i - 1] = h[(i - m) - 1]
      <4>1. CASE i - 1 <= m
        <5>1. i - 1 = m /\ (i - m) - 1 = 0 /\ p[i - 1] = f[i - 1]
          BY <1>5, <2>2, <4>1
        <5> QED
          BY <1>5, <5>1
      <4>2. CASE ~ (i - 1 <= m)
        <5>1. p[i - 1] = h[(i - 1) - m] /\ (i - 1) - m = (i - m) - 1
          BY <1>5, <2>2, <4>2
        <5> QED
          BY <5>1
      <4> QED
        BY <4>1, <4>2
    <3> QED
      BY <1>2, <3>1, <3>2 DEF Path
  <2> QED
    BY <2>1, <2>2
<1>8. Path(K, part, s \o t, p)
  BY <1>4, <1>7 DEF Path
<1> HIDE DEF p
<1> QED
  BY <1>4, <1>6, <1>8 DEF Leads

LEMMA LeadsWhen ==
    ASSUME NEW K, NEW part, NEW d, NEW op, NEW e, NEW P \in BOOLEAN,
           P => Follows(K, part, d, op, e), ~P => e = d
    PROVE  Leads(K, part, d, When(P, op), e)
<1>1. CASE P
  BY <1>1, LeadsOne DEF When
<1>2. CASE ~P
  BY <1>2, LeadsNothing DEF When
<1> QED
  BY <1>1, <1>2

\* Lists one after the other.
LEMMA LeadsAlong ==
    ASSUME NEW K, NEW part, NEW ss, IsList(ss), NEW st,
           \A i \in 1..Len(ss) : Leads(K, part, st[i - 1], ss[i], st[i])
    PROVE  Leads(K, part, st[0], FlattenSeq(ss), st[Len(ss)])
<1> DEFINE n == Len(ss)
<1>0. n \in Nat
  BY ListIs
<1>1. \A i \in 1..n : IsList(ss[i])
  BY DEF Leads
<1>2. PICK f : /\ f[0] = <<>>
               /\ \A k \in 1..n : f[k] = f[k - 1] \o ss[k]
               /\ FlattenSeq(ss) = f[n]
  BY <1>1, FlattenSteps
<1> DEFINE Bad == {k \in 0..n : ~Leads(K, part, st[0], f[k], st[k])}
<1> HIDE DEF n
<1>3. Bad = {}
  <2> SUFFICES ASSUME Bad # {} PROVE FALSE
    OBVIOUS
  <2>1. Bad \in SUBSET Nat
    BY <1>0
  <2>2. PICK k \in Bad : \A l \in Bad : k <= l
    BY <2>1, LeastNumber
  <2>3. CASE k = 0
    BY <1>2, <2>3, LeadsNothing
  <2>4. CASE k # 0
    <3>1. k \in 1..n /\ k - 1 \in 0..n /\ ~ (k <= k - 1)
      BY <1>0, <2>4
    <3>2. Leads(K, part, st[0], f[k - 1], st[k - 1])
      BY <2>2, <3>1
    <3>3. Leads(K, part, st[k - 1], ss[k], st[k])
      BY <3>1 DEF n
    <3>4. Leads(K, part, st[0], f[k - 1] \o ss[k], st[k])
      BY <3>2, <3>3, LeadsOn
    <3> QED
      BY <1>2, <3>1, <3>4
  <2> QED
    BY <2>3, <2>4
<1>4. n \in 0..n
  BY <1>0
<1> QED
  BY <1>2, <1>3, <1>4 DEF n

\* A loop over the names of S in order, at x when the ones below are done.
Loop(S, f) == FlattenSeq([i \in DOMAIN Sorted(S) |-> f[Sorted(S)[i]]])

\* A loop leads from m[{}] to m[S] when each turn does, whatever came before it.
LEMMA LeadsEach ==
    ASSUME NEW K, NEW part, NEW S \in SUBSET Nat, IsFiniteSet(S), NEW f, NEW m,
           \A x \in S : Leads(K, part, m[{y \in S : y < x}], f[x], m[{y \in S : y < x} \cup {x}])
    PROVE  Leads(K, part, m[{}], Loop(S, f), m[S])
<1> DEFINE s == Sorted(S)
           ss == [i \in DOMAIN s |-> f[s[i]]]
           n == Len(s)
           st == [i \in 0..n |-> m[{s[j] : j \in 1..i}]]
<1>1. /\ IsList(s) /\ \A i \in 1..n : s[i] \in S /\ {y \in S : y < s[i]} = {s[j] : j \in 1..(i - 1)}
      /\ \A x \in S : \E i \in 1..n : s[i] = x
  BY SortedIs
<1>2. n \in Nat /\ DOMAIN s = 1..n
  BY <1>1, ListIs
<1> HIDE DEF s
<1>3. IsList(ss) /\ Len(ss) = n
  <2>1. ss \in Seq({ss[i] : i \in 1..n})
    BY <1>2, IsASeq
  <2>2. DOMAIN ss = 1..n
    BY <1>2
  <2> HIDE DEF ss
  <2>3. Len(ss) = n
    BY <1>2, <2>1, <2>2
  <2> QED
    BY <2>1, <2>3, ListOf
<1>4. ASSUME NEW i \in 1..n PROVE Leads(K, part, st[i - 1], ss[i], st[i])
  <2>1. st[i - 1] = m[{s[j] : j \in 1..(i - 1)}] /\ st[i] = m[{s[j] : j \in 1..i}] /\ ss[i] = f[s[i]]
    BY <1>2
  <2>2. {s[j] : j \in 1..i} = {s[j] : j \in 1..(i - 1)} \cup {s[i]}
    <3>1. 1..i = (1..(i - 1)) \cup {i}
      BY <1>2
    <3> QED
      BY <3>1
  <2>3. {y \in S : y < s[i]} = {s[j] : j \in 1..(i - 1)} /\ s[i] \in S
    BY <1>1
  <2>4. Leads(K, part, m[{y \in S : y < s[i]}], f[s[i]], m[{y \in S : y < s[i]} \cup {s[i]}])
    BY <2>3
  <2> QED
    BY <2>1, <2>2, <2>3, <2>4
<1>5. st[0] = m[{}] /\ st[n] = m[S]
  <2>1. {s[j] : j \in 1..0} = {}
    OBVIOUS
  <2>2. \A i \in 1..n : s[i] \in S
    BY <1>1
  <2>3. \A x \in S : \E i \in 1..n : s[i] = x
    BY <1>1
  <2>4. {s[j] : j \in 1..n} = S
    BY <2>2, <2>3, Zenon
  <2>5. st[0] = m[{s[j] : j \in 1..0}] /\ st[n] = m[{s[j] : j \in 1..n}]
    BY <1>2
  <2> QED
    BY <2>1, <2>4, <2>5
<1>6. Leads(K, part, st[0], FlattenSeq(ss), st[n])
  <2> HIDE DEF st, ss
  <2> QED
    BY <1>3, <1>4, LeadsAlong
<1> QED
  BY <1>5, <1>6 DEF Loop, s

-----------------------------------------------------------------------------
(* The two halves of the order, the files, and what applying them does. *)

\* Leaving out what a part does not take changes nothing on its way.
LEMMA ChosenLeads ==
    ASSUME NEW K, NEW part, NEW d, NEW ops, NEW e, Leads(K, part, d, ops, e), NEW chosen,
           \A i \in 1..Len(ops) : i \in chosen <=> Taken(part, ops[i])
    PROVE  Leads(K, "all", d, Chosen(ops, chosen), e)
<1>1. PICK f : f[0] = d /\ f[Len(ops)] = e /\ Path(K, part, ops, f)
  BY DEF Leads
<1>2. IsList(ops) /\ Len(ops) \in Nat /\ DOMAIN ops = 1..Len(ops)
  BY ListIs DEF Leads
<1> DEFINE n == Len(ops)
           ss == [i \in DOMAIN ops |-> When(i \in chosen, ops[i])]
<1>3. IsList(ss) /\ Len(ss) = n
  <2>1. ss \in Seq({ss[i] : i \in 1..n})
    BY <1>2, IsASeq
  <2>2. DOMAIN ss = 1..n
    BY <1>2
  <2> HIDE DEF ss
  <2>3. Len(ss) = n
    BY <1>2, <2>1, <2>2
  <2> QED
    BY <2>1, <2>3, ListOf
<1>4. ASSUME NEW i \in 1..n PROVE Leads(K, "all", f[i - 1], ss[i], f[i])
  <2>1. ss[i] = When(i \in chosen, ops[i])
    BY <1>2
  <2>2. Follows(K, part, f[i - 1], ops[i], f[i])
    BY <1>1 DEF Path
  <2>3. i \in chosen <=> Taken(part, ops[i])
    OBVIOUS
  <2>4. CASE i \in chosen
    <3>1. Follows(K, "all", f[i - 1], ops[i], f[i])
      BY <2>2, <2>3, <2>4 DEF Follows, Taken
    <3>2. ss[i] = <<ops[i]>>
      BY <2>1, <2>4 DEF When
    <3> QED
      BY <3>1, <3>2, LeadsOne
  <2>5. CASE i \notin chosen
    <3>1. f[i] = f[i - 1] /\ ss[i] = <<>>
      BY <2>1, <2>2, <2>3, <2>5 DEF Follows, When
    <3> QED
      BY <3>1, LeadsNothing
  <2> QED
    BY <2>4, <2>5
<1>5. Chosen(ops, chosen) = FlattenSeq(ss)
  BY DEF Chosen
<1> HIDE DEF ss
<1>6. Leads(K, "all", f[0], FlattenSeq(ss), f[n])
  BY <1>3, <1>4, LeadsAlong
<1> QED
  BY <1>1, <1>5, <1>6

\* The order takes the operations that add no foreign key first, and those that do last.
LEMMA OrderLeads ==
    ASSUME NEW K, NEW d, NEW ops, NEW e, NEW g,
           Leads(K, "tables", d, ops, e), Leads(K, "keys", e, ops, g)
    PROVE  Leads(K, "all", d, orderMigrationOperations(ops), g)
<1>1. DOMAIN ops = 1..Len(ops)
  BY ListIs DEF Leads
<1>2. Leads(K, "all", d, WithoutForeignKeys(ops), e)
  <2>1. \A i \in 1..Len(ops) :
            i \in {j \in DOMAIN ops : ops[j].kind # "add_foreign_key"} <=> Taken("tables", ops[i])
    BY <1>1 DEF Taken
  <2> QED
    BY <2>1, ChosenLeads DEF WithoutForeignKeys
<1>3. Leads(K, "all", e, OnlyForeignKeys(ops), g)
  <2>1. \A i \in 1..Len(ops) :
            i \in {j \in DOMAIN ops : ops[j].kind = "add_foreign_key"} <=> Taken("keys", ops[i])
    BY <1>1 DEF Taken
  <2> QED
    BY <2>1, ChosenLeads DEF OnlyForeignKeys
<1> QED
  BY <1>2, <1>3, LeadsOn DEF orderMigrationOperations

\* A file whose operations lead from d to e is accepted and makes d into e.
LEMMA AppliedIs ==
    ASSUME NEW K, NEW d, NEW s, NEW e, Leads(K, "all", d, s, e), Shape(d)
    PROVE  /\ Applied(d, s) = [ok |-> TRUE, db |-> e] /\ Shape(e)
           /\ \A k \in K : k \in Ordinary(d) =>
                  k \in Ordinary(e) /\ \A op \in ToSet(s) : ~Drops(op, k)
<1>1. PICK f : f[0] = d /\ f[Len(s)] = e /\ Path(K, "all", s, f)
  BY DEF Leads
<1>2. IsList(s) /\ Len(s) \in Nat /\ DOMAIN s = 1..Len(s)
  BY ListIs DEF Leads
<1> DEFINE n == Len(s)
           Run(a) == a = [i \in 0..n |-> IF i = 0 THEN [ok |-> TRUE, db |-> d] ELSE Step(a[i - 1], s[i])]
           h == [i \in 0..n |-> [ok |-> TRUE, db |-> f[i]]]
           a == CHOOSE a : Run(a)
<1>3. ASSUME NEW i \in 1..n
      PROVE  Moves(K, f[i - 1], s[i], f[i])
  BY <1>1 DEF Path, Follows, Taken
<1>4. ASSUME NEW i \in 1..n
      PROVE  Step([ok |-> TRUE, db |-> f[i - 1]], s[i]) = [ok |-> TRUE, db |-> f[i]]
  BY <1>3 DEF Step, Moves
<1>5. Run(h)
  <2>0. 0 \in 0..n
    BY <1>2
  <2>1. h[0] = [ok |-> TRUE, db |-> d]
    BY <1>1, <2>0
  <2>2. ASSUME NEW i \in 0..n, i # 0 PROVE h[i] = Step(h[i - 1], s[i])
    <3>1. i \in 1..n /\ i - 1 \in 0..n
      BY <2>2, <1>2
    <3>2. h[i] = [ok |-> TRUE, db |-> f[i]] /\ h[i - 1] = [ok |-> TRUE, db |-> f[i - 1]]
      BY <3>1
    <3> HIDE DEF h
    <3> QED
      BY <3>1, <3>2, <1>4
  <2> QED
    BY <2>1, <2>2
<1>6. Run(a)
  BY <1>5
<1>7. Applied(d, s) = a[n]
  BY DEF Applied
<1> HIDE DEF a
<1>8. a[0] = [ok |-> TRUE, db |-> d] /\ \A i \in 1..n : a[i] = Step(a[i - 1], s[i])
  <2>1. 0 \in 0..n /\ \A i \in 1..n : i \in 0..n /\ i # 0
    BY <1>2
  <2> QED
    BY <1>6, <2>1
<1> DEFINE Bad == {i \in 0..n : ~ (/\ a[i] = [ok |-> TRUE, db |-> f[i]] /\ Shape(f[i])
                                  /\ \A k \in K : k \in Ordinary(d) =>
                                        k \in Ordinary(f[i]) /\ \A j \in 1..i : ~Drops(s[j], k))}
<1> HIDE DEF n
<1>9. Bad = {}
  <2> SUFFICES ASSUME Bad # {} PROVE FALSE
    OBVIOUS
  <2>1. Bad \in SUBSET Nat
    BY <1>2 DEF n
  <2>2. PICK i \in Bad : \A l \in Bad : i <= l
    BY <2>1, LeastNumber
  <2>3. CASE i = 0
    <3>1. 1..0 = {}
      OBVIOUS
    <3> QED
      BY <1>1, <1>8, <2>3, <3>1
  <2>4. CASE i # 0
    <3>1. i \in 1..n /\ i - 1 \in 0..n /\ ~ (i <= i - 1) /\ 1..i = (1..(i - 1)) \cup {i}
      BY <1>2, <2>4 DEF n
    <3>2. i - 1 \notin Bad
      BY <2>2, <3>1
    <3>3. /\ a[i - 1] = [ok |-> TRUE, db |-> f[i - 1]]
          /\ \A k \in K : k \in Ordinary(d) =>
                 k \in Ordinary(f[i - 1]) /\ \A j \in 1..(i - 1) : ~Drops(s[j], k)
      BY <3>1, <3>2
    <3>4. a[i] = [ok |-> TRUE, db |-> f[i]]
      BY <1>4, <1>8, <3>1, <3>3
    <3>5. Shape(f[i]) /\ \A k \in K : k \in Ordinary(f[i - 1]) => k \in Ordinary(f[i]) /\ ~Drops(s[i], k)
      BY <1>3, <3>1 DEF Moves, Keeps
    <3>6. \A k \in K : k \in Ordinary(d) =>
              k \in Ordinary(f[i]) /\ \A j \in 1..i : ~Drops(s[j], k)
      BY <3>1, <3>3, <3>5
    <3> QED
      BY <3>4, <3>5, <3>6
  <2> QED
    BY <2>3, <2>4
<1>10. n \in 0..n
  BY <1>2 DEF n
<1>11. ToSet(s) = {s[j] : j \in 1..n}
  BY <1>2 DEF ToSet, n
<1>12. /\ a[n] = [ok |-> TRUE, db |-> f[n]] /\ Shape(f[n])
       /\ \A k \in K : k \in Ordinary(d) =>
             k \in Ordinary(f[n]) /\ \A j \in 1..n : ~Drops(s[j], k)
  BY <1>9, <1>10
<1>13. f[n] = e
  BY <1>1 DEF n
<1> QED
  BY <1>7, <1>11, <1>12, <1>13

\* Files that lead from d to e, one after the other.
Chain(K, d, files, e) ==
    /\ IsList(files)
    /\ \E q : /\ q[0] = d /\ q[Len(files)] = e
              /\ \A j \in 1..Len(files) : files[j] # <<>> /\ Leads(K, "all", q[j - 1], files[j], q[j])

LEMMA ChainNothing == ASSUME NEW K, NEW d PROVE Chain(K, d, <<>>, d)
<1> DEFINE q == [i \in 0..0 |-> d]
<1>1. IsList(<<>>) /\ Len(<<>>) = 0
  BY DEF IsList
<1>2. q[0] = d /\ q[Len(<<>>)] = d
  BY <1>1
<1> HIDE DEF q
<1> QED
  BY <1>1, <1>2 DEF Chain

\* One more file.
LEMMA ChainAdd ==
    ASSUME NEW K, NEW d, NEW files, NEW e, NEW file, NEW g,
           Chain(K, d, files, e), file # <<>>, Leads(K, "all", e, file, g)
    PROVE  Chain(K, d, Append(files, file), g)
<1>1. PICK q : /\ q[0] = d /\ q[Len(files)] = e
               /\ \A j \in 1..Len(files) : files[j] # <<>> /\ Leads(K, "all", q[j - 1], files[j], q[j])
  BY DEF Chain
<1>2. IsList(files) /\ Len(files) \in Nat
  BY ListIs DEF Chain
<1> DEFINE n == Len(files)
           p == [i \in 0..(n + 1) |-> IF i <= n THEN q[i] ELSE g]
<1>3. /\ IsList(Append(files, file)) /\ Len(Append(files, file)) = n + 1
      /\ \A i \in 1..(n + 1) : Append(files, file)[i] = IF i <= n THEN files[i] ELSE file
  BY <1>2, AppendIs
<1>4. p[0] = d /\ p[n + 1] = g /\ p[n] = e
  BY <1>1, <1>2
<1>5. ASSUME NEW j \in 1..(n + 1)
      PROVE  /\ Append(files, file)[j] # <<>>
             /\ Leads(K, "all", p[j - 1], Append(files, file)[j], p[j])
  <2>1. CASE j <= n
    <3>1. j \in 1..n /\ p[j] = q[j] /\ p[j - 1] = q[j - 1] /\ Append(files, file)[j] = files[j]
      BY <1>2, <1>3, <2>1
    <3> HIDE DEF p
    <3> QED
      BY <1>1, <3>1
  <2>2. CASE ~ (j <= n)
    <3>1. j = n + 1 /\ j - 1 = n /\ Append(files, file)[j] = file
      BY <1>2, <1>3, <2>2
    <3> HIDE DEF p
    <3> QED
      BY <1>4, <3>1
  <2> QED
    BY <2>1, <2>2
<1> HIDE DEF p
<1> QED
  BY <1>3, <1>4, <1>5 DEF Chain

\* Files, and the files after them.
LEMMA ChainOn ==
    ASSUME NEW K, NEW d, NEW s, NEW e, NEW t, NEW g, Chain(K, d, s, e), Chain(K, e, t, g)
    PROVE  Chain(K, d, s \o t, g)
<1>1. PICK f : /\ f[0] = d /\ f[Len(s)] = e
               /\ \A j \in 1..Len(s) : s[j] # <<>> /\ Leads(K, "all", f[j - 1], s[j], f[j])
  BY DEF Chain
<1>2. PICK h : /\ h[0] = e /\ h[Len(t)] = g
               /\ \A j \in 1..Len(t) : t[j] # <<>> /\ Leads(K, "all", h[j - 1], t[j], h[j])
  BY DEF Chain
<1>3. IsList(s) /\ IsList(t) /\ Len(s) \in Nat /\ Len(t) \in Nat
  BY ListIs DEF Chain
<1> DEFINE m == Len(s)
           n == Len(t)
           p == [i \in 0..(m + n) |-> IF i <= m THEN f[i] ELSE h[i - m]]
<1>4. /\ IsList(s \o t) /\ Len(s \o t) = m + n
      /\ \A i \in 1..(m + n) : (s \o t)[i] = IF i <= m THEN s[i] ELSE t[i - m]
  BY <1>3, ConcatIs
<1>5. m \in Nat /\ n \in Nat /\ f[m] = h[0]
  BY <1>1, <1>2, <1>3
<1>6. p[0] = d /\ p[m + n] = g
  <2>1. n = 0 => f[m] = g
    BY <1>2, <1>5
  <2>2. n # 0 => ~ (m + n <= m) /\ (m + n) - m = n
    BY <1>5
  <2>3. 0 \in 0..(m + n) /\ m + n \in 0..(m + n) /\ 0 <= m
    BY <1>5
  <2> QED
    BY <1>1, <1>2, <1>5, <2>1, <2>2, <2>3
<1>7. ASSUME NEW i \in 1..(m + n)
      PROVE  (s \o t)[i] # <<>> /\ Leads(K, "all", p[i - 1], (s \o t)[i], p[i])
  <2>1. CASE i <= m
    <3>1. i \in 1..m /\ p[i] = f[i] /\ p[i - 1] = f[i - 1] /\ (s \o t)[i] = s[i]
      BY <1>4, <1>5, <2>1
    <3> HIDE DEF p
    <3> QED
      BY <1>1, <3>1
  <2>2. CASE ~ (i <= m)
    <3>1. i - m \in 1..n /\ p[i] = h[i - m] /\ (s \o t)[i] = t[i - m]
      BY <1>4, <1>5, <2>2
    <3>2. p[i - 1] = h[(i - m) - 1]
      <4>1. CASE i - 1 <= m
        <5>1. i - 1 = m /\ (i - m) - 1 = 0 /\ p[i - 1] = f[i - 1]
          BY <1>5, <2>2, <4>1
        <5> QED
          BY <1>5, <5>1
      <4>2. CASE ~ (i - 1 <= m)
        <5>1. p[i - 1] = h[(i - 1) - m] /\ (i - 1) - m = (i - m) - 1
          BY <1>5, <2>2, <4>2
        <5> QED
          BY <5>1
      <4> QED
        BY <4>1, <4>2
    <3> HIDE DEF p
    <3> QED
      BY <1>2, <3>1, <3>2
  <2> QED
    BY <2>1, <2>2
<1> HIDE DEF p
<1> QED
  BY <1>4, <1>6, <1>7 DEF Chain

\* The first of them, and the rest.
LEMMA ChainFirst ==
    ASSUME NEW K, NEW d, NEW files, NEW e, Chain(K, d, files, e), files # <<>>
    PROVE  /\ Head(files) # <<>>
           /\ \E a : Leads(K, "all", d, Head(files), a) /\ Chain(K, a, Tail(files), e)
<1>1. PICK q : /\ q[0] = d /\ q[Len(files)] = e
               /\ \A j \in 1..Len(files) : files[j] # <<>> /\ Leads(K, "all", q[j - 1], files[j], q[j])
  BY DEF Chain
<1>2. files \in Seq(Range(files))
  BY DEF Chain, IsList
<1>3. /\ Len(files) \in Nat /\ Len(files) > 0 /\ Head(files) = files[1]
      /\ Tail(files) \in Seq(Range(files)) /\ Len(Tail(files)) = Len(files) - 1
      /\ \A j \in 1..(Len(files) - 1) : Tail(files)[j] = files[j + 1]
  BY <1>2
<1> DEFINE n == Len(files)
           p == [i \in 0..(n - 1) |-> q[i + 1]]
<1>4. 1 \in 1..n /\ 1 - 1 = 0 /\ n - 1 \in Nat
  BY <1>3
<1>5. Leads(K, "all", d, Head(files), q[1]) /\ Head(files) # <<>>
  BY <1>1, <1>3, <1>4
<1>6. p[0] = q[1] /\ p[n - 1] = e
  BY <1>1, <1>4
<1>7. ASSUME NEW j \in 1..(n - 1)
      PROVE  Tail(files)[j] # <<>> /\ Leads(K, "all", p[j - 1], Tail(files)[j], p[j])
  <2>1. j + 1 \in 1..n /\ p[j] = q[j + 1] /\ p[j - 1] = q[j] /\ (j + 1) - 1 = j
    BY <1>3, <1>4
  <2> HIDE DEF p
  <2> QED
    BY <1>1, <1>3, <2>1
<1> HIDE DEF p
<1>8. IsList(Tail(files))
  BY <1>3, ListOf
<1>9. Chain(K, q[1], Tail(files), e)
  BY <1>3, <1>6, <1>7, <1>8 DEF Chain
<1> QED
  BY <1>5, <1>9

\* The loop of chunkMigrationOperations.
LEMMA ChunkSteps ==
    ASSUME NEW ops, Len(ops) \in Nat
    PROVE  \E f : /\ f[0] = <<>>
                  /\ \A k \in 1..Len(ops) : f[k] = Chunked(f[k - 1], ops[k])
                  /\ chunkMigrationOperations(ops) = f[Len(ops)]
<1> DEFINE n == Len(ops)
           After(a, k) == Chunked(a, ops[k])
           Run(f, m) == f = [k \in 0..m |-> IF k = 0 THEN <<>> ELSE After(f[k - 1], k)]
           Short == {m \in Nat : ~\E f : Run(f, m)}
           g == CHOOSE f : Run(f, n)
<1>1. chunkMigrationOperations(ops) = g[n]
  BY DEF chunkMigrationOperations
<1> HIDE DEF After
<1>2. Short = {}
  <2> SUFFICES ASSUME Short # {} PROVE FALSE
    OBVIOUS
  <2>1. PICK m \in Short : \A l \in Short : m <= l
    BY LeastNumber
  <2>2. m \in Nat /\ ~\E f : Run(f, m)
    OBVIOUS
  <2>3. CASE m = 0
    <3> DEFINE h == [k \in 0..0 |-> <<>>]
    <3>1. Run(h, 0)
      OBVIOUS
    <3> QED
      BY <2>2, <2>3, <3>1
  <2>4. CASE m # 0
    <3>1. m - 1 \in Nat /\ ~ (m <= m - 1)
      BY <2>2, <2>4
    <3>2. PICK f : Run(f, m - 1)
      BY <2>1, <3>1
    <3> DEFINE h == [k \in 0..m |-> IF k < m THEN f[k] ELSE After(f[m - 1], m)]
    <3>3. \A k \in 0..(m - 1) : f[k] = IF k = 0 THEN <<>> ELSE After(f[k - 1], k)
      BY <3>2
    <3>4. ASSUME NEW k \in 0..m
          PROVE  h[k] = IF k = 0 THEN <<>> ELSE After(h[k - 1], k)
      <4>1. CASE k < m
        <5>1. k \in 0..(m - 1) /\ h[k] = f[k] /\ (k # 0 => h[k - 1] = f[k - 1])
          BY <2>2, <4>1
        <5> QED
          BY <3>3, <5>1
      <4>2. CASE ~ (k < m)
        <5>1. k = m /\ k # 0 /\ h[m] = After(f[m - 1], m) /\ h[m - 1] = f[m - 1]
          BY <2>2, <2>4, <3>1, <4>2
        <5> QED
          BY <5>1
      <4> QED
        BY <4>1, <4>2
    <3>5. Run(h, m)
      BY <3>4
    <3> QED
      BY <2>2, <3>5
  <2> QED
    BY <2>3, <2>4
<1>3. Run(g, n)
  BY <1>2
<1> HIDE DEF g
<1>4. \A k \in 0..n : g[k] = IF k = 0 THEN <<>> ELSE After(g[k - 1], k)
  BY <1>3
<1>5. g[0] = <<>> /\ \A k \in 1..n : g[k] = After(g[k - 1], k)
  BY <1>4
<1> QED
  BY <1>1, <1>5 DEF After

\* An operation goes to the last file or to one of its own.
LEMMA ChunkedChain ==
    ASSUME NEW K, NEW d, NEW files, NEW a, NEW op, NEW b,
           Chain(K, d, files, a), Moves(K, a, op, b)
    PROVE  Chain(K, d, Chunked(files, op), b)
<1>0. Leads(K, "all", a, <<op>>, b)
  BY LeadsOne DEF Follows, Taken
<1>1. CASE ~ (files # <<>> /\ Target(Head(Last(files))) = Target(op))
  <2>1. Chunked(files, op) = Append(files, <<op>>) /\ <<op>> # <<>>
    BY <1>1 DEF Chunked
  <2> QED
    BY <1>0, <2>1, ChainAdd
<1>2. CASE files # <<>> /\ Target(Head(Last(files))) = Target(op)
  <2>1. Chunked(files, op) = Append(Front(files), Append(Last(files), op))
    BY <1>2 DEF Chunked
  <2>2. PICK q : /\ q[0] = d /\ q[Len(files)] = a
                 /\ \A j \in 1..Len(files) : files[j] # <<>> /\ Leads(K, "all", q[j - 1], files[j], q[j])
    BY DEF Chain
  <2>3. files \in Seq(Range(files))
    BY DEF Chain, IsList
  <2> DEFINE n == Len(files)
  <2>4. /\ n \in Nat /\ n > 0 /\ Last(files) = files[n]
        /\ Front(files) \in Seq(Range(files)) /\ Len(Front(files)) = n - 1
        /\ \A j \in 1..(n - 1) : Front(files)[j] = files[j]
    <3>1. n \in Nat /\ n > 0
      BY <1>2, <2>3
    <3>2. Front(files) = SubSeq(files, 1, n - 1) /\ Last(files) = files[n]
      BY DEF Front, Last
    <3>3. SubSeq(files, 1, n - 1) = [j \in 1..(n - 1) |-> files[j]]
      BY <2>3, <3>1
    <3> DEFINE s == [j \in 1..(n - 1) |-> files[j]]
    <3>4. s \in Seq(Range(files)) /\ DOMAIN s = 1..(n - 1) /\ \A j \in 1..(n - 1) : s[j] = files[j]
      <4>1. \A j \in 1..(n - 1) : files[j] \in Range(files)
        BY <2>3, <3>1
      <4> QED
        BY <3>1, <4>1, IsASeq
    <3> HIDE DEF s
    <3>5. Len(s) = n - 1
      BY <3>1, <3>4
    <3> QED
      BY <3>1, <3>2, <3>3, <3>4, <3>5 DEF s
  <2>5. Chain(K, d, Front(files), q[n - 1])
    <3>1. IsList(Front(files))
      BY <2>4, ListOf
    <3>2. \A j \in 1..(n - 1) : Front(files)[j] # <<>> /\ Leads(K, "all", q[j - 1], Front(files)[j], q[j])
      BY <2>2, <2>4
    <3> QED
      BY <2>2, <2>4, <3>1, <3>2 DEF Chain
  <2>6. Leads(K, "all", q[n - 1], files[n], a)
    BY <2>2, <2>4
  <2>7. Leads(K, "all", q[n - 1], files[n] \o <<op>>, b)
    BY <1>0, <2>6, LeadsOn
  <2>8. Append(files[n], op) = files[n] \o <<op>> /\ Append(files[n], op) # <<>>
    <3> DEFINE s == files[n]
               S == Range(s) \cup {op}
    <3>1. s \in Seq(S) /\ op \in S
      BY <2>6 DEF Leads, IsList
    <3> HIDE DEF s, S
    <3>2. Append(s, op) = s \o <<op>> /\ Append(s, op) # <<>>
      BY <3>1
    <3> QED
      BY <3>2 DEF s
  <2>9. Chain(K, d, Append(Front(files), Append(files[n], op)), b)
    BY <2>5, <2>7, <2>8, ChainAdd
  <2> QED
    BY <2>1, <2>4, <2>9
<1> QED
  BY <1>1, <1>2

\* The files of the chunks lead where the operations do.
LEMMA ChunkLeads ==
    ASSUME NEW K, NEW d, NEW ops, NEW e, Leads(K, "all", d, ops, e)
    PROVE  Chain(K, d, chunkMigrationOperations(ops), e)
<1>1. PICK f : f[0] = d /\ f[Len(ops)] = e /\ Path(K, "all", ops, f)
  BY DEF Leads
<1>2. Len(ops) \in Nat
  BY ListIs DEF Leads
<1> DEFINE n == Len(ops)
<1>3. PICK files : /\ files[0] = <<>> /\ chunkMigrationOperations(ops) = files[n]
                   /\ \A k \in 1..n : files[k] = Chunked(files[k - 1], ops[k])
  BY <1>2, ChunkSteps
<1> DEFINE Bad == {i \in 0..n : ~Chain(K, d, files[i], f[i])}
<1> HIDE DEF n
<1>4. Bad = {}
  <2> SUFFICES ASSUME Bad # {} PROVE FALSE
    OBVIOUS
  <2>1. Bad \in SUBSET Nat
    BY <1>2 DEF n
  <2>2. PICK i \in Bad : \A l \in Bad : i <= l
    BY <2>1, LeastNumber
  <2>3. CASE i = 0
    BY <1>1, <1>3, <2>3, ChainNothing
  <2>4. CASE i # 0
    <3>1. i \in 1..n /\ i - 1 \in 0..n /\ ~ (i <= i - 1)
      BY <1>2, <2>4 DEF n
    <3>2. Chain(K, d, files[i - 1], f[i - 1])
      BY <2>2, <3>1
    <3>3. Moves(K, f[i - 1], ops[i], f[i])
      BY <1>1, <3>1 DEF Path, Follows, Taken, n
    <3>4. Chain(K, d, Chunked(files[i - 1], ops[i]), f[i])
      BY <3>2, <3>3, ChunkedChain
    <3> QED
      BY <1>3, <3>1, <3>4
  <2> QED
    BY <2>3, <2>4
<1>5. n \in 0..n
  BY <1>2 DEF n
<1> QED
  BY <1>1, <1>3, <1>4, <1>5 DEF n

-----------------------------------------------------------------------------
(* A table of a database in another state. *)

WithCols(x, C) ==
    [cols |-> C, pk |-> x.pk, idx |-> x.idx, fks |-> x.fks, hyper |-> x.hyper, join |-> x.join]
WithIdx(x, I) ==
    [cols |-> x.cols, pk |-> x.pk, idx |-> I, fks |-> x.fks, hyper |-> x.hyper, join |-> x.join]
WithFks(x, F) ==
    [cols |-> x.cols, pk |-> x.pk, idx |-> x.idx, fks |-> F, hyper |-> x.hyper, join |-> x.join]
WithHyper(x, h) ==
    [cols |-> x.cols, pk |-> x.pk, idx |-> x.idx, fks |-> x.fks, hyper |-> h, join |-> x.join]
Set(f, c, v) == [y \in DOMAIN f |-> IF y = c THEN v ELSE f[y]]
Off(f, S) == [y \in DOMAIN f \ S |-> f[y]]

LEMMA TableIs ==
    ASSUME NEW x, IsTable(x), NEW v
    PROVE  /\ [x EXCEPT !.cols = v] = WithCols(x, v) /\ [x EXCEPT !.idx = v] = WithIdx(x, v)
           /\ [x EXCEPT !.fks = v] = WithFks(x, v) /\ [x EXCEPT !.hyper = v] = WithHyper(x, v)
           /\ \A c \in DOMAIN x.cols : [x.cols EXCEPT ![c] = v] = Set(x.cols, c, v)
<1> DEFINE r == [cols |-> x.cols, pk |-> x.pk, idx |-> x.idx, fks |-> x.fks,
                 hyper |-> x.hyper, join |-> x.join]
<1>1. x = r
  BY DEF IsTable
<1>2. /\ [r EXCEPT !.cols = v] = WithCols(x, v) /\ [r EXCEPT !.idx = v] = WithIdx(x, v)
      /\ [r EXCEPT !.fks = v] = WithFks(x, v) /\ [r EXCEPT !.hyper = v] = WithHyper(x, v)
  BY DEF WithCols, WithIdx, WithFks, WithHyper
<1>3. \A c \in DOMAIN x.cols : [x.cols EXCEPT ![c] = v] = Set(x.cols, c, v)
  BY DEF IsTable, IsMap, Set
<1> QED
  BY <1>1, <1>2, <1>3

LEMMA WithoutIs == ASSUME NEW f, NEW S PROVE Without(f, S) = Off(f, S)
BY DEF Without, Restrict, Off

LEMMA OrdinaryIs ==
    ASSUME NEW d, NEW k
    PROVE  k \in Ordinary(d) <=>
               /\ k = <<k[1], k[2]>> /\ k[1] \in DOMAIN d.tables
               /\ k[2] \in DOMAIN d.tables[k[1]].cols /\ d.tables[k[1]].cols[k[2]].reads = None
<1> DEFINE C == UNION {DOMAIN d.tables[t].cols : t \in DOMAIN d.tables}
           O(j) == j[2] \in DOMAIN d.tables[j[1]].cols /\ d.tables[j[1]].cols[j[2]].reads = None
<1>1. Ordinary(d) = {j \in (DOMAIN d.tables) \X C : O(j)}
  BY DEF Ordinary
<1>2. \A t \in DOMAIN d.tables : \A c \in DOMAIN d.tables[t].cols : c \in C
  OBVIOUS
<1> HIDE DEF C
<1>3. k \in Ordinary(d) <=> k \in (DOMAIN d.tables) \X C /\ O(k)
  BY <1>1
<1>4. k \in (DOMAIN d.tables) \X C <=> k = <<k[1], k[2]>> /\ k[1] \in DOMAIN d.tables /\ k[2] \in C
  OBVIOUS
<1> QED
  BY <1>2, <1>3, <1>4

\* The database d with the table t as x.
Alter(d, t, x) ==
    [ext |-> d.ext, tables |-> [u \in DOMAIN d.tables |-> IF u = t THEN x ELSE d.tables[u]]]

\* The table x may stand for t: its keys refer to keys, no other table has its indexes.
Fits(d, t, x) ==
    /\ Shape(d) /\ t \in DOMAIN d.tables
    /\ IsTable(x) /\ x.pk = d.tables[t].pk
    /\ \A c \in DOMAIN x.fks : Refers(d, x.fks[c])
    /\ \A u \in DOMAIN d.tables \ {t} : DOMAIN x.idx \cap DOMAIN d.tables[u].idx = {}

\* Such a database keeps the shape of one, its other tables and its foreign keys.
LEMMA AlterIs ==
    ASSUME NEW d, NEW t, NEW x, Fits(d, t, x)
    PROVE  /\ Shape(Alter(d, t, x)) /\ Alter(d, t, x).ext = d.ext
           /\ DOMAIN Alter(d, t, x).tables = DOMAIN d.tables /\ t \in DOMAIN d.tables
           /\ Alter(d, t, x).tables[t] = x
           /\ \A u \in DOMAIN d.tables \ {t} : Alter(d, t, x).tables[u] = d.tables[u]
           /\ \A y : /\ [Alter(d, t, x) EXCEPT !.tables[t] = y] = Alter(d, t, y)
                     /\ Alter(Alter(d, t, x), t, y) = Alter(d, t, y)
<1> DEFINE e == Alter(d, t, x)
<1>1. /\ e.ext = d.ext /\ DOMAIN e.tables = DOMAIN d.tables /\ t \in DOMAIN d.tables
      /\ e.tables[t] = x /\ \A u \in DOMAIN d.tables \ {t} : e.tables[u] = d.tables[u]
      /\ e = [ext |-> e.ext, tables |-> e.tables] /\ IsMap(e.tables)
  BY DEF Alter, Fits, IsMap
<1>2. ASSUME NEW y
      PROVE  /\ [e EXCEPT !.tables[t] = y] = Alter(d, t, y)
             /\ Alter(e, t, y) = Alter(d, t, y)
  <2> DEFINE T == e.tables
             E == e.ext
  <2>1. e = [ext |-> E, tables |-> T]
    BY <1>1
  <2>2. DOMAIN T = DOMAIN d.tables /\ E = d.ext /\ IsMap(T) /\ T[t] = x
        /\ \A u \in DOMAIN d.tables \ {t} : T[u] = d.tables[u]
    BY <1>1
  <2> HIDE DEF T, E, e
  <2>3. [T EXCEPT ![t] = y] = [u \in DOMAIN d.tables |-> IF u = t THEN y ELSE d.tables[u]]
    BY <2>2 DEF IsMap
  <2>4. [e EXCEPT !.tables[t] = y] = [ext |-> E, tables |-> [T EXCEPT ![t] = y]]
    BY <2>1
  <2>5. Alter(e, t, y) = [ext |-> E, tables |-> [u \in DOMAIN T |-> IF u = t THEN y ELSE T[u]]]
    BY <2>1 DEF Alter
  <2>6. [u \in DOMAIN T |-> IF u = t THEN y ELSE T[u]]
            = [u \in DOMAIN d.tables |-> IF u = t THEN y ELSE d.tables[u]]
    BY <2>2
  <2> QED
    BY <2>2, <2>3, <2>4, <2>5, <2>6 DEF Alter
<1> HIDE DEF e
<1>3. \A f : Refers(d, f) => Refers(e, f)
  BY <1>1 DEF Refers, Fits
<1>4. Shape(e)
  <2>1. ASSUME NEW u \in DOMAIN e.tables
        PROVE  /\ IsTable(e.tables[u])
               /\ \A c \in DOMAIN e.tables[u].fks : Refers(e, e.tables[u].fks[c])
    BY <1>1, <1>3 DEF Fits, Shape
  <2>2. ASSUME NEW u \in DOMAIN e.tables, NEW v \in DOMAIN e.tables \ {u}
        PROVE  DOMAIN e.tables[u].idx \cap DOMAIN e.tables[v].idx = {}
    BY <1>1 DEF Fits, Shape
  <2> QED
    BY <1>1, <2>1, <2>2 DEF Shape
<1> QED
  BY <1>1, <1>2, <1>4 DEF e

\* What keeps the columns K of the table.
KeepsIn(K, t, x, y) ==
    \A c \in DOMAIN x.cols : <<t, c>> \in K /\ x.cols[c].reads = None =>
        c \in DOMAIN y.cols /\ y.cols[c].reads = None

\* An operation on one table that PostgreSQL accepts.
LEMMA AlterMoves ==
    ASSUME NEW K, NEW d, NEW t, NEW x, NEW y, Fits(d, t, x), Fits(d, t, y), KeepsIn(K, t, x, y),
           NEW op, op.kind # "drop_table",
           op.kind = "drop_column" => op.table = t /\ op.name # 0 /\ op.name \notin DOMAIN y.cols,
           Accepts(Alter(d, t, x), op), Effect(Alter(d, t, x), op) = Alter(d, t, y)
    PROVE  Moves(K, Alter(d, t, x), op, Alter(d, t, y))
<1> DEFINE a == Alter(d, t, x)
           b == Alter(d, t, y)
<1>1. /\ DOMAIN a.tables = DOMAIN d.tables /\ a.tables[t] = x
      /\ \A u \in DOMAIN d.tables \ {t} : a.tables[u] = d.tables[u]
  BY AlterIs
<1>2. /\ Shape(b) /\ DOMAIN b.tables = DOMAIN d.tables /\ b.tables[t] = y
      /\ \A u \in DOMAIN d.tables \ {t} : b.tables[u] = d.tables[u]
  BY AlterIs
<1>3. Accepts(a, op) /\ b = Effect(a, op)
  OBVIOUS
<1> HIDE DEF a, b
<1>4. ASSUME NEW k \in K, k \in Ordinary(a) PROVE k \in Ordinary(b) /\ ~Drops(op, k)
  <2>1. /\ k = <<k[1], k[2]>> /\ k[1] \in DOMAIN a.tables
        /\ k[2] \in DOMAIN a.tables[k[1]].cols /\ a.tables[k[1]].cols[k[2]].reads = None
    BY <1>4, OrdinaryIs
  <2>2. k[1] = t => k[2] \in DOMAIN y.cols /\ y.cols[k[2]].reads = None
    BY <1>1, <1>4, <2>1 DEF KeepsIn
  <2>3. k \in Ordinary(b)
    BY <1>1, <1>2, <2>1, <2>2, OrdinaryIs
  <2>4. ~Drops(op, k)
    BY <2>2 DEF Drops
  <2> QED
    BY <2>3, <2>4
<1>5. Moves(K, a, op, b)
  BY <1>2, <1>3, <1>4 DEF Moves, Keeps
<1> QED
  BY <1>5 DEF a, b
-----------------------------------------------------------------------------
(* What each operation does to a table. *)

\* Two clauses of ALTER COLUMN, and the constraints: a column becomes another.
Clause(op, x) ==
    LET c == op.name  v == x.cols[c] IN
    CASE op.kind = "alter_type" -> [v EXCEPT !.type = op.def]
      [] op.kind = "alter_nullable" -> [v EXCEPT !.nullable = op.def]
      [] op.kind = "alter_default" -> [v EXCEPT !.default = op.def]
      [] op.kind = "add_check_constraint" -> [v EXCEPT !.enum = op.def]
      [] op.kind = "drop_check_constraint" -> [v EXCEPT !.enum = {}]
Clauses == {"alter_type", "alter_nullable", "alter_default", "add_check_constraint", "drop_check_constraint"}
\* What each clause needs.
ClauseAccepted(d, op, x) ==
    /\ op.kind = "alter_nullable" => (op.def => op.name \notin x.pk)
    /\ op.kind = "alter_type" =>
           /\ Readers(x, op.name) = {} /\ <<x.cols[op.name].type, op.def>> \in Casts
           /\ Usable(d, op.def)
           /\ op.name \notin DOMAIN x.fks
           /\ \A u \in DOMAIN d.tables \ {op.table} : \A g \in DOMAIN d.tables[u].fks :
                  ~ (d.tables[u].fks[g].table = op.table /\ d.tables[u].fks[g].column = op.name)
           /\ \A g \in DOMAIN x.fks : ~ (x.fks[g].table = op.table /\ x.fks[g].column = op.name)

\* The foreign keys of a database, by table and column.
LEMMA KeysAre ==
    ASSUME NEW d, NEW k
    PROVE  k \in Keys(d) <=> k = <<k[1], k[2]>> /\ k[1] \in DOMAIN d.tables
                             /\ k[2] \in DOMAIN d.tables[k[1]].fks
<1>1. \A t : t \in DOMAIN d.tables =>
          (k \in {<<t, c>> : c \in DOMAIN d.tables[t].fks} <=>
              k = <<k[1], k[2]>> /\ k[1] = t /\ k[2] \in DOMAIN d.tables[t].fks)
  OBVIOUS
<1> QED
  BY <1>1 DEF Keys

LEMMA ClauseMoves ==
    ASSUME NEW K, NEW d, NEW t, NEW x, NEW y, Fits(d, t, x), Fits(d, t, y),
           NEW c \in DOMAIN x.cols, NEW kind \in Clauses, NEW def, NEW op, op = Op(kind, t, c, def),
           ClauseAccepted(d, op, x), y = WithCols(x, Set(x.cols, c, Clause(op, x)))
    PROVE  Moves(K, Alter(d, t, x), op, Alter(d, t, y))
<1> DEFINE a == Alter(d, t, x)
<1>1. /\ Shape(a) /\ a.ext = d.ext /\ DOMAIN a.tables = DOMAIN d.tables /\ t \in DOMAIN d.tables
      /\ a.tables[t] = x /\ \A u \in DOMAIN d.tables \ {t} : a.tables[u] = d.tables[u]
      /\ [a EXCEPT !.tables[t] = y] = Alter(d, t, y)
  BY AlterIs
<1>2. op.kind = kind /\ op.table = t /\ op.name = c /\ op.def = def
  BY DEF Op
<1>3. IsTable(x) /\ IsColumn(x.cols[c])
  BY DEF Fits, IsTable
<1> HIDE DEF a
<1>4. Changed(x, op) = y
  <2> DEFINE v == x.cols[c]
  <2> DEFINE With(w) == [x EXCEPT !.cols = [x.cols EXCEPT ![c] = w]]
  <2>1. ASSUME NEW w PROVE With(w) = WithCols(x, Set(x.cols, c, w))
    BY <1>3, TableIs
  <2>2. [x EXCEPT !.cols[c].type = def] = WithCols(x, Set(x.cols, c, [v EXCEPT !.type = def]))
    <3>1. [x EXCEPT !.cols[c].type = def] = With([v EXCEPT !.type = def])
      OBVIOUS
    <3> QED
      BY <3>1, <2>1
  <2>3. [x EXCEPT !.cols[c].nullable = def] = WithCols(x, Set(x.cols, c, [v EXCEPT !.nullable = def]))
    <3>1. [x EXCEPT !.cols[c].nullable = def] = With([v EXCEPT !.nullable = def])
      OBVIOUS
    <3> QED
      BY <3>1, <2>1
  <2>4. [x EXCEPT !.cols[c].default = def] = WithCols(x, Set(x.cols, c, [v EXCEPT !.default = def]))
    <3>1. [x EXCEPT !.cols[c].default = def] = With([v EXCEPT !.default = def])
      OBVIOUS
    <3> QED
      BY <3>1, <2>1
  <2>5. [x EXCEPT !.cols[c].enum = def] = WithCols(x, Set(x.cols, c, [v EXCEPT !.enum = def]))
    <3>1. [x EXCEPT !.cols[c].enum = def] = With([v EXCEPT !.enum = def])
      OBVIOUS
    <3> QED
      BY <3>1, <2>1
  <2>6. [x EXCEPT !.cols[c].enum = {}] = WithCols(x, Set(x.cols, c, [v EXCEPT !.enum = {}]))
    <3>1. [x EXCEPT !.cols[c].enum = {}] = With([v EXCEPT !.enum = {}])
      OBVIOUS
    <3> QED
      BY <3>1, <2>1
  <2> QED
    BY <1>2, <2>2, <2>3, <2>4, <2>5, <2>6 DEF Changed, Clause, Clauses
<1>5. Effect(a, op) = [a EXCEPT !.tables[t] = Changed(a.tables[t], op)]
  BY <1>2 DEF Effect, Clauses
<1>6. Effect(a, op) = Alter(d, t, y)
  BY <1>1, <1>4, <1>5
<1>7. SameType(a, t, c, def) \/ kind # "alter_type"
  <2> SUFFICES ASSUME kind = "alter_type", NEW k \in Keys(a)
               PROVE  ~ (k = <<t, c>>) /\ ~ (Key(a, k).table = t /\ Key(a, k).column = c)
    BY DEF SameType
  <2>1. k[1] \in DOMAIN d.tables /\ k[2] \in DOMAIN a.tables[k[1]].fks /\ Key(a, k) = a.tables[k[1]].fks[k[2]]
    BY <1>1, KeysAre DEF Key
  <2>2. CASE k[1] = t
    BY <1>1, <1>2, <2>1, <2>2 DEF ClauseAccepted
  <2>3. CASE k[1] # t
    BY <1>1, <1>2, <2>1, <2>3 DEF ClauseAccepted
  <2> QED
    BY <2>2, <2>3
<1>8. Accepts(a, op)
  <2>1. CASE kind = "alter_type"
    <3>1. /\ Readers(x, c) = {} /\ <<x.cols[c].type, def>> \in Casts /\ Usable(a, def)
          /\ SameType(a, t, c, def)
      BY <1>1, <1>2, <1>7, <2>1 DEF ClauseAccepted, Usable
    <3> QED
      BY <1>1, <1>2, <2>1, <3>1 DEF Accepts, AcceptsChange
  <2>2. CASE kind = "alter_nullable"
    BY <1>1, <1>2, <2>2 DEF Accepts, AcceptsChange, ClauseAccepted
  <2>3. CASE kind \in {"alter_default", "add_check_constraint", "drop_check_constraint"}
    BY <1>1, <1>2, <2>3 DEF Accepts, AcceptsChange
  <2> QED
    BY <2>1, <2>2, <2>3 DEF Clauses
<1>9. KeepsIn(K, t, x, y)
  <2>1. DOMAIN y.cols = DOMAIN x.cols /\ \A e \in DOMAIN x.cols : e # c => y.cols[e] = x.cols[e]
    BY DEF WithCols, Set
  <2>2. y.cols[c] = Clause(op, x)
    BY DEF WithCols, Set
  <2>3. Clause(op, x).reads = x.cols[c].reads
    BY <1>2, <1>3 DEF Clause, Clauses, IsColumn
  <2> QED
    BY <2>1, <2>2, <2>3 DEF KeepsIn
<1> QED
  BY <1>2, <1>6, <1>8, <1>9, AlterMoves DEF a, Clauses

LEMMA AddColumnMoves ==
    ASSUME NEW K, NEW d, NEW t, NEW x, NEW y, Fits(d, t, x), Fits(d, t, y),
           NEW c, NEW col, c \notin DOMAIN x.cols, Usable(d, col.type),
           col.reads # None => col.reads \subseteq DOMAIN x.cols,
           y = WithCols(x, Put(x.cols, c, col))
    PROVE  Moves(K, Alter(d, t, x), Op("add_column", t, c, col), Alter(d, t, y))
<1> DEFINE a == Alter(d, t, x)
           op == Op("add_column", t, c, col)
<1>1. /\ a.ext = d.ext /\ DOMAIN a.tables = DOMAIN d.tables /\ t \in DOMAIN d.tables
      /\ a.tables[t] = x /\ [a EXCEPT !.tables[t] = y] = Alter(d, t, y)
  BY AlterIs
<1>2. op.kind = "add_column" /\ op.table = t /\ op.name = c /\ op.def = col
  BY DEF Op
<1> HIDE DEF a, op
<1>3. Changed(x, op) = y
  <2>1. [x EXCEPT !.cols = Put(x.cols, c, col)] = WithCols(x, Put(x.cols, c, col))
    BY TableIs DEF Fits
  <2>2. Changed(x, op) = [x EXCEPT !.cols = Put(x.cols, c, col)]
    BY <1>2 DEF Changed
  <2> QED
    BY <2>1, <2>2
<1>4. Effect(a, op) = [a EXCEPT !.tables[t] = Changed(a.tables[t], op)]
  BY <1>2 DEF Effect
<1>5. Accepts(a, op)
  BY <1>1, <1>2 DEF Accepts, AcceptsChange, Usable
<1>6. KeepsIn(K, t, x, y)
  BY DEF KeepsIn, WithCols, Put
<1> QED
  BY <1>1, <1>2, <1>3, <1>4, <1>5, <1>6, AlterMoves DEF a, op

LEMMA AddKeyMoves ==
    ASSUME NEW K, NEW d, NEW t, NEW x, NEW y, Fits(d, t, x), Fits(d, t, y),
           NEW c, NEW key, c \in DOMAIN x.cols, c \notin DOMAIN x.fks,
           NEW z, z = IF key.table = t THEN x ELSE d.tables[key.table],
           Refers(d, key), key.column \in DOMAIN z.cols, x.cols[c].type = z.cols[key.column].type,
           y = WithFks(x, Put(x.fks, c, key))
    PROVE  Moves(K, Alter(d, t, x), Op("add_foreign_key", t, c, key), Alter(d, t, y))
<1> DEFINE a == Alter(d, t, x)
           op == Op("add_foreign_key", t, c, key)
<1>1. /\ Shape(a) /\ DOMAIN a.tables = DOMAIN d.tables /\ t \in DOMAIN d.tables
      /\ a.tables[t] = x /\ [a EXCEPT !.tables[t] = y] = Alter(d, t, y)
      /\ \A u \in DOMAIN d.tables \ {t} : a.tables[u] = d.tables[u]
  BY AlterIs
<1>2. op.kind = "add_foreign_key" /\ op.table = t /\ op.name = c /\ op.def = key
  BY DEF Op
<1> HIDE DEF a, op
<1>3. Changed(x, op) = y
  <2>1. [x EXCEPT !.fks = Put(x.fks, c, key)] = WithFks(x, Put(x.fks, c, key))
    BY TableIs DEF Fits
  <2>2. Changed(x, op) = [x EXCEPT !.fks = Put(x.fks, c, key)]
    BY <1>2 DEF Changed
  <2> QED
    BY <2>1, <2>2
<1>4. Effect(a, op) = [a EXCEPT !.tables[t] = Changed(a.tables[t], op)]
  BY <1>2 DEF Effect
<1>5. key.table \in DOMAIN a.tables /\ a.tables[key.table] = z /\ z.pk = {key.column}
  BY <1>1 DEF Refers, Fits
<1>6. IsUnique(a, key.table, key.column)
  BY <1>5 DEF IsUnique
<1>7. Accepts(a, op)
  BY <1>1, <1>2, <1>5, <1>6 DEF Accepts, AcceptsChange
<1>8. KeepsIn(K, t, x, y)
  BY DEF KeepsIn, WithFks
<1> QED
  BY <1>1, <1>2, <1>3, <1>4, <1>7, <1>8, AlterMoves DEF a, op

LEMMA DropKeyMoves ==
    ASSUME NEW K, NEW d, NEW t, NEW x, NEW y, Fits(d, t, x), Fits(d, t, y),
           NEW c, y = WithFks(x, Off(x.fks, {c}))
    PROVE  Moves(K, Alter(d, t, x), Op("drop_foreign_key", t, c, None), Alter(d, t, y))
<1> DEFINE a == Alter(d, t, x)
           op == Op("drop_foreign_key", t, c, None)
<1>1. /\ DOMAIN a.tables = DOMAIN d.tables /\ t \in DOMAIN d.tables
      /\ a.tables[t] = x /\ [a EXCEPT !.tables[t] = y] = Alter(d, t, y)
  BY AlterIs
<1>2. op.kind = "drop_foreign_key" /\ op.table = t /\ op.name = c
  BY DEF Op
<1> HIDE DEF a, op
<1>3. Changed(x, op) = y
  <2>1. [x EXCEPT !.fks = Without(x.fks, {c})] = WithFks(x, Without(x.fks, {c}))
    BY TableIs DEF Fits
  <2>2. Changed(x, op) = [x EXCEPT !.fks = Without(x.fks, {c})]
    BY <1>2 DEF Changed
  <2> QED
    BY <2>1, <2>2, WithoutIs
<1>4. Effect(a, op) = [a EXCEPT !.tables[t] = Changed(a.tables[t], op)]
  BY <1>2 DEF Effect
<1>5. Accepts(a, op)
  BY <1>1, <1>2 DEF Accepts, AcceptsChange
<1>6. KeepsIn(K, t, x, y)
  BY DEF KeepsIn, WithFks
<1> QED
  BY <1>1, <1>2, <1>3, <1>4, <1>5, <1>6, AlterMoves DEF a, op

LEMMA HypertableMoves ==
    ASSUME NEW K, NEW d, NEW t, NEW x, NEW y, Fits(d, t, x), Fits(d, t, y), NEW kind, NEW h,
           \/ kind = "drop_hypertable" /\ h = None
           \/ /\ kind = "create_hypertable" /\ Timescale \in d.ext
              /\ h \in x.pk \/ x.pk = {}
              /\ \A c \in DOMAIN x.cols : x.cols[c].unique => c = h,
           y = WithHyper(x, h)
    PROVE  Moves(K, Alter(d, t, x), Op(kind, t, 0, h), Alter(d, t, y))
<1> DEFINE a == Alter(d, t, x)
           op == Op(kind, t, 0, h)
<1>1. /\ a.ext = d.ext /\ DOMAIN a.tables = DOMAIN d.tables /\ t \in DOMAIN d.tables
      /\ a.tables[t] = x /\ [a EXCEPT !.tables[t] = y] = Alter(d, t, y)
  BY AlterIs
<1>2. op.kind = kind /\ op.table = t /\ op.name = 0 /\ op.def = h
  BY DEF Op
<1> HIDE DEF a, op
<1>3. Changed(x, op) = y
  <2>1. [x EXCEPT !.hyper = h] = WithHyper(x, h)
    BY TableIs DEF Fits
  <2>2. Changed(x, op) = [x EXCEPT !.hyper = h]
    BY <1>2 DEF Changed
  <2> QED
    BY <2>1, <2>2
<1>4. Effect(a, op) = [a EXCEPT !.tables[t] = Changed(a.tables[t], op)]
  BY <1>2 DEF Effect
<1>5. Accepts(a, op)
  BY <1>1, <1>2 DEF Accepts, AcceptsChange
<1>6. KeepsIn(K, t, x, y)
  BY DEF KeepsIn, WithHyper
<1> QED
  BY <1>1, <1>2, <1>3, <1>4, <1>5, <1>6, AlterMoves DEF a, op

\* Nothing else has an index of the name of one of the table's.
Unused(d, t, i) == \A u \in DOMAIN d.tables \ {t} : i \notin DOMAIN d.tables[u].idx

LEMMA WithoutIndexIs ==
    ASSUME NEW d, NEW t, NEW x, Fits(d, t, x), NEW i, Unused(d, t, i),
           NEW y, y = WithIdx(x, Off(x.idx, {i}))
    PROVE  WithoutIndex(Alter(d, t, x), i) = Alter(d, t, y)
<1> DEFINE a == Alter(d, t, x)
           b == Alter(d, t, y)
<1>1. /\ a.ext = d.ext /\ DOMAIN a.tables = DOMAIN d.tables /\ t \in DOMAIN d.tables
      /\ a.tables[t] = x /\ \A u \in DOMAIN d.tables \ {t} : a.tables[u] = d.tables[u]
      /\ Shape(a)
  BY AlterIs
<1> HIDE DEF a
<1>3. WithoutIndex(a, i)
          = [ext |-> a.ext,
             tables |-> [u \in DOMAIN a.tables |-> [a.tables[u] EXCEPT !.idx = Without(a.tables[u].idx, {i})]]]
  <2> DEFINE M == [u \in DOMAIN a.tables |-> [a.tables[u] EXCEPT !.idx = Without(a.tables[u].idx, {i})]]
  <2>1. a = [ext |-> a.ext, tables |-> a.tables]
    BY <1>1 DEF Shape
  <2>2. WithoutIndex(a, i) = [a EXCEPT !.tables = M]
    BY DEF WithoutIndex
  <2> HIDE DEF M
  <2>3. [a EXCEPT !.tables = M] = [ext |-> a.ext, tables |-> M]
    BY <2>1
  <2> QED
    BY <2>2, <2>3 DEF M
<1>4. ASSUME NEW u \in DOMAIN d.tables
      PROVE  [a.tables[u] EXCEPT !.idx = Without(a.tables[u].idx, {i})]
                 = IF u = t THEN y ELSE d.tables[u]
  <2> DEFINE z == a.tables[u]
  <2>1. IsTable(z)
    BY <1>1 DEF Shape
  <2> HIDE DEF z
  <2>2. [z EXCEPT !.idx = Without(z.idx, {i})] = WithIdx(z, Off(z.idx, {i}))
    BY <2>1, TableIs, WithoutIs
  <2>3. CASE u = t
    BY <1>1, <2>2, <2>3 DEF z
  <2>4. CASE u # t
    <3>1. z = d.tables[u] /\ i \notin DOMAIN z.idx
      BY <1>1, <2>4 DEF z, Unused
    <3>2. Off(z.idx, {i}) = z.idx
      BY <2>1, <3>1 DEF Off, IsTable, IsMap
    <3>3. WithIdx(z, z.idx) = z
      BY <2>1 DEF IsTable, WithIdx
    <3> QED
      BY <2>2, <2>4, <3>1, <3>2, <3>3 DEF z
  <2> QED
    BY <2>3, <2>4
<1>5. WithoutIndex(a, i) = b
  <2> DEFINE G(u) == [a.tables[u] EXCEPT !.idx = Without(a.tables[u].idx, {i})]
             H(u) == IF u = t THEN y ELSE d.tables[u]
  <2>1. \A u \in DOMAIN d.tables : G(u) = H(u)
    BY <1>4
  <2>2. WithoutIndex(a, i) = [ext |-> a.ext, tables |-> [u \in DOMAIN a.tables |-> G(u)]]
    BY <1>3
  <2>3. b = [ext |-> d.ext, tables |-> [u \in DOMAIN d.tables |-> H(u)]]
    BY DEF Alter
  <2> HIDE DEF G, H, b
  <2> QED
    BY <1>1, <2>1, <2>2, <2>3
<1> QED
  BY <1>5 DEF a, b

LEMMA DropIndexMoves ==
    ASSUME NEW K, NEW d, NEW t, NEW x, NEW y, Fits(d, t, x), Fits(d, t, y),
           NEW i, Unused(d, t, i), y = WithIdx(x, Off(x.idx, {i}))
    PROVE  Moves(K, Alter(d, t, x), Op("drop_index", t, i, None), Alter(d, t, y))
<1> DEFINE a == Alter(d, t, x)
           b == Alter(d, t, y)
           op == Op("drop_index", t, i, None)
<1>1. WithoutIndex(a, i) = b
  BY WithoutIndexIs
<1>2. op.kind = "drop_index" /\ op.table = t /\ op.name = i
  BY DEF Op
<1>3. /\ Shape(a) /\ DOMAIN a.tables = DOMAIN d.tables /\ a.tables[t] = x
      /\ \A u \in DOMAIN d.tables \ {t} : a.tables[u] = d.tables[u]
  BY AlterIs
<1>4. /\ Shape(b) /\ DOMAIN b.tables = DOMAIN d.tables /\ b.tables[t] = y
      /\ \A u \in DOMAIN d.tables \ {t} : b.tables[u] = d.tables[u]
  BY AlterIs
<1> HIDE DEF a, b, op
<1>5. ASSUME NEW k \in Keys(a) PROVE IsUnique(b, Key(a, k).table, Key(a, k).column)
  <2>1. k[1] \in DOMAIN a.tables /\ k[2] \in DOMAIN a.tables[k[1]].fks /\ Key(a, k) = a.tables[k[1]].fks[k[2]]
    BY KeysAre DEF Key
  <2>2. Refers(a, Key(a, k))
    BY <1>3, <2>1 DEF Shape
  <2>3. b.tables[Key(a, k).table].pk = {Key(a, k).column}
    BY <1>3, <1>4, <2>2 DEF Refers, WithIdx
  <2> QED
    BY <2>3 DEF IsUnique
<1>6. Accepts(a, op)
  BY <1>1, <1>2, <1>5 DEF Accepts
<1>7. Effect(a, op) = b
  BY <1>1, <1>2 DEF Effect
<1>8. KeepsIn(K, t, x, y)
  BY DEF KeepsIn, WithIdx
<1> QED
  BY <1>2, <1>6, <1>7, <1>8, AlterMoves DEF a, b, op

LEMMA AddIndexMoves ==
    ASSUME NEW K, NEW d, NEW t, NEW x, NEW y, Fits(d, t, x), Fits(d, t, y),
           NEW i, NEW ix, i \notin DOMAIN x.idx, Unused(d, t, i),
           ToSet(ix.cols) \subseteq DOMAIN x.cols, y = WithIdx(x, Put(x.idx, i, ix))
    PROVE  Moves(K, Alter(d, t, x), Op("add_index", t, i, ix), Alter(d, t, y))
<1> DEFINE a == Alter(d, t, x)
           op == Op("add_index", t, i, ix)
<1>1. /\ Shape(a) /\ DOMAIN a.tables = DOMAIN d.tables /\ t \in DOMAIN d.tables
      /\ a.tables[t] = x /\ [a EXCEPT !.tables[t] = y] = Alter(d, t, y)
  BY AlterIs
<1>2. op.kind = "add_index" /\ op.table = t /\ op.name = i /\ op.def = ix
  BY DEF Op
<1>3. i \notin IndexNames(a)
  <2>1. \A u \in DOMAIN d.tables \ {t} : a.tables[u] = d.tables[u]
    BY AlterIs
  <2> HIDE DEF a
  <2> QED
    BY <1>1, <2>1 DEF Unused, IndexNames
<1>4. IsTable(x)
  BY DEF Fits
<1> HIDE DEF a, op
<1>5. Effect(a, op) = Alter(d, t, y)
  <2>1. Effect(a, op) = [a EXCEPT !.tables[t].idx = Put(a.tables[t].idx, i, ix)]
    BY <1>2, <1>3 DEF Effect
  <2>2. \A v : [a EXCEPT !.tables[t].idx = v] = [a EXCEPT !.tables[t] = [x EXCEPT !.idx = v]]
    BY <1>1 DEF Shape, IsMap
  <2>3. [x EXCEPT !.idx = Put(x.idx, i, ix)] = y
    BY <1>4, TableIs
  <2> QED
    BY <1>1, <2>1, <2>2, <2>3
<1>6. Accepts(a, op)
  BY <1>1, <1>2 DEF Accepts, AcceptsChange
<1>7. KeepsIn(K, t, x, y)
  BY DEF KeepsIn, WithIdx
<1> QED
  BY <1>2, <1>5, <1>6, <1>7, AlterMoves DEF a, op

\* A column that no key, index or reference is on.
LEMMA WithoutColumnsIs ==
    ASSUME NEW d, NEW t, NEW x, Fits(d, t, x), NEW C, C \cap x.pk = {}, C \cap DOMAIN x.fks = {},
           \A i \in DOMAIN x.idx : C \cap ToSet(x.idx[i].cols) = {},
           NEW y, y = WithCols(x, Off(x.cols, C))
    PROVE  /\ KeysTo(Alter(d, t, x), t, C) = {}
           /\ WithoutColumns(Alter(d, t, x), t, C) = Alter(d, t, y)
<1> DEFINE a == Alter(d, t, x)
           b == Alter(d, t, y)
<1>1. /\ a.ext = d.ext /\ DOMAIN a.tables = DOMAIN d.tables /\ t \in DOMAIN d.tables
      /\ a.tables[t] = x /\ \A u \in DOMAIN d.tables \ {t} : a.tables[u] = d.tables[u]
      /\ Shape(a) /\ [a EXCEPT !.tables[t] = y] = Alter(d, t, y)
  BY AlterIs
<1> HIDE DEF a
<1>2. KeysTo(a, t, C) = {}
  <2> SUFFICES ASSUME NEW k \in Keys(a), Key(a, k).table = t, Key(a, k).column \in C PROVE FALSE
    BY DEF KeysTo
  <2>1. k[1] \in DOMAIN a.tables /\ k[2] \in DOMAIN a.tables[k[1]].fks /\ Key(a, k) = a.tables[k[1]].fks[k[2]]
    BY KeysAre DEF Key
  <2>2. Refers(a, Key(a, k))
    BY <1>1, <2>1 DEF Shape
  <2>3. x.pk = {Key(a, k).column}
    BY <1>1, <2>2 DEF Refers
  <2> QED
    BY <2>3
<1> DEFINE gone == KeysTo(a, t, C) \cup ({t} \X C)
           T == WithoutKeys(a.tables, gone)
<1>3. T = a.tables
  <2>1. ASSUME NEW u \in DOMAIN a.tables
        PROVE  [a.tables[u] EXCEPT !.fks = Without(a.tables[u].fks, {c \in DOMAIN a.tables[u].fks : <<u, c>> \in gone})]
                   = a.tables[u]
    <3> DEFINE z == a.tables[u]
               G == {c \in DOMAIN z.fks : <<u, c>> \in gone}
    <3>1. IsTable(z)
      BY <1>1 DEF Shape
    <3>2. G = {}
      <4> SUFFICES ASSUME NEW c \in DOMAIN z.fks, <<u, c>> \in gone PROVE FALSE
        OBVIOUS
      <4>1. u = t /\ c \in C
        BY <1>2
      <4> QED
        BY <1>1, <4>1
    <3> HIDE DEF z, G
    <3>3. [z EXCEPT !.fks = Without(z.fks, G)] = WithFks(z, Off(z.fks, G))
      BY <3>1, TableIs, WithoutIs
    <3>4. Off(z.fks, {}) = z.fks
      BY <3>1 DEF Off, IsTable, IsMap
    <3>5. WithFks(z, z.fks) = z
      BY <3>1 DEF IsTable, WithFks
    <3>6. [z EXCEPT !.fks = Without(z.fks, G)] = z
      BY <3>2, <3>3, <3>4, <3>5
    <3> QED
      BY <3>6 DEF z, G
  <2> DEFINE N(u) == [a.tables[u] EXCEPT !.fks = Without(a.tables[u].fks, {c \in DOMAIN a.tables[u].fks : <<u, c>> \in gone})]
  <2>2. T = [u \in DOMAIN a.tables |-> N(u)]
    BY DEF WithoutKeys
  <2>3. \A u \in DOMAIN a.tables : N(u) = a.tables[u]
    BY <2>1
  <2>4. IsMap(a.tables)
    BY <1>1 DEF Shape
  <2> HIDE DEF N, T
  <2> QED
    BY <2>2, <2>3, <2>4 DEF IsMap
<1> DEFINE W(z) == [cols |-> Without(z.cols, C), pk |-> IF z.pk \cap C = {} THEN z.pk ELSE {},
                    idx |-> Without(z.idx, {i \in DOMAIN z.idx : ToSet(z.idx[i].cols) \cap C # {}}),
                    fks |-> z.fks, hyper |-> z.hyper, join |-> z.join]
<1>4. W(x) = y
  <2>1. x.pk \cap C = {}
    OBVIOUS
  <2>2. {i \in DOMAIN x.idx : ToSet(x.idx[i].cols) \cap C # {}} = {}
    OBVIOUS
  <2>3. Off(x.idx, {}) = x.idx
    BY DEF Off, Fits, IsTable, IsMap
  <2>4. Without(x.idx, {i \in DOMAIN x.idx : ToSet(x.idx[i].cols) \cap C # {}}) = x.idx
    BY <2>2, <2>3, WithoutIs
  <2>5. Without(x.cols, C) = Off(x.cols, C)
    BY WithoutIs
  <2> QED
    BY <2>1, <2>4, <2>5 DEF WithCols
<1> DEFINE R(z) == [z EXCEPT !.cols = Without(@, C),
                             !.pk   = IF @ \cap C = {} THEN @ ELSE {},
                             !.idx  = Without(@, {i \in DOMAIN @ : ToSet(@[i].cols) \cap C # {}})]
<1>5. WithoutColumns(a, t, C) = [a EXCEPT !.tables = [T EXCEPT ![t] = R(T[t])]]
  BY DEF WithoutColumns
<1>6. R(x) = W(x)
  <2>1. x = [cols |-> x.cols, pk |-> x.pk, idx |-> x.idx, fks |-> x.fks, hyper |-> x.hyper, join |-> x.join]
    BY DEF Fits, IsTable
  <2> DEFINE u == Without(x.cols, C)
             v == IF x.pk \cap C = {} THEN x.pk ELSE {}
             w == Without(x.idx, {i \in DOMAIN x.idx : ToSet(x.idx[i].cols) \cap C # {}})
  <2>2. R(x) = [x EXCEPT !.cols = u, !.pk = v, !.idx = w]
    OBVIOUS
  <2>3. W(x) = [cols |-> u, pk |-> v, idx |-> w, fks |-> x.fks, hyper |-> x.hyper, join |-> x.join]
    OBVIOUS
  <2> HIDE DEF u, v, w, R, W
  <2> QED
    BY <2>1, <2>2, <2>3
<1> HIDE DEF T, R, W
<1>7. WithoutColumns(a, t, C) = [a EXCEPT !.tables[t] = y]
  BY <1>1, <1>3, <1>4, <1>5, <1>6
<1> QED
  BY <1>1, <1>2, <1>7 DEF a
LEMMA DropColumnMoves ==
    ASSUME NEW K, NEW d, NEW t, NEW x, NEW y, Fits(d, t, x), Fits(d, t, y),
           NEW c, c \in DOMAIN x.cols, c # 0, NEW C, C = {c} \cup Readers(x, c),
           C \cap x.pk = {}, C \cap DOMAIN x.fks = {},
           \A i \in DOMAIN x.idx : C \cap ToSet(x.idx[i].cols) = {},
           x.cols[c].reads = None => <<t, c>> \notin K,
           NEW def, def = "cascade" \/ Readers(x, c) = {},
           y = WithCols(x, Off(x.cols, C))
    PROVE  Moves(K, Alter(d, t, x), Op("drop_column", t, c, def), Alter(d, t, y))
<1> DEFINE a == Alter(d, t, x)
           op == Op("drop_column", t, c, def)
<1>1. /\ DOMAIN a.tables = DOMAIN d.tables /\ t \in DOMAIN d.tables /\ a.tables[t] = x
  BY AlterIs
<1>2. op.kind = "drop_column" /\ op.table = t /\ op.name = c /\ op.def = def
  BY DEF Op
<1>3. WithoutColumns(a, t, C) = Alter(d, t, y)
  BY WithoutColumnsIs
<1>4. KeysTo(a, t, C) = {}
  BY WithoutColumnsIs
<1> HIDE DEF a, op
<1>5. KeysTo(a, t, {c}) = {}
  BY <1>4 DEF KeysTo
<1>6. Effect(a, op) = Alter(d, t, y)
  BY <1>1, <1>2, <1>3 DEF Effect
<1>7. Accepts(a, op)
  BY <1>1, <1>2, <1>5 DEF Accepts, AcceptsChange
<1>8. KeepsIn(K, t, x, y)
  <2> SUFFICES ASSUME NEW e \in DOMAIN x.cols, <<t, e>> \in K, x.cols[e].reads = None
               PROVE  e \in DOMAIN y.cols /\ y.cols[e].reads = None
    BY DEF KeepsIn
  <2>1. e \notin C
    BY DEF Readers
  <2> QED
    BY <2>1 DEF WithCols, Off
<1>9. c \notin DOMAIN y.cols
  BY DEF WithCols, Off
<1> QED
  BY <1>2, <1>6, <1>7, <1>8, <1>9, AlterMoves DEF a, op

\* A column that has gone with another, dropped IF EXISTS.
LEMMA DropNothingMoves ==
    ASSUME NEW K, NEW d, NEW t, NEW x, Fits(d, t, x), NEW c, c \notin DOMAIN x.cols, c # 0
    PROVE  Moves(K, Alter(d, t, x), Op("drop_column", t, c, "cascade"), Alter(d, t, x))
<1> DEFINE a == Alter(d, t, x)
           op == Op("drop_column", t, c, "cascade")
<1>1. /\ DOMAIN a.tables = DOMAIN d.tables /\ t \in DOMAIN d.tables /\ a.tables[t] = x
  BY AlterIs
<1>2. op.kind = "drop_column" /\ op.table = t /\ op.name = c /\ op.def = "cascade"
  BY DEF Op
<1> HIDE DEF a, op
<1>3. Effect(a, op) = a
  BY <1>1, <1>2 DEF Effect
<1>4. Accepts(a, op)
  BY <1>1, <1>2 DEF Accepts, AcceptsChange
<1>5. KeepsIn(K, t, x, x)
  BY DEF KeepsIn
<1> QED
  BY <1>2, <1>3, <1>4, <1>5, AlterMoves DEF a, op

-----------------------------------------------------------------------------
(* The loops of the diff. *)

\* Some of the names are names.
LEMMA FewerNames == ASSUME NEW S, AreNames(S), NEW T, T \subseteq S PROVE AreNames(T)
BY FS_Subset DEF AreNames

LEMMA SortedIn ==
    ASSUME NEW S, AreNames(S) PROVE \A i \in DOMAIN Sorted(S) : Sorted(S)[i] \in S
<1>1. IsList(Sorted(S)) /\ \A i \in 1..Len(Sorted(S)) : Sorted(S)[i] \in S
  BY SortedIs DEF AreNames
<1> QED
  BY <1>1, ListIs

\* The loops of the diff, as loops over names.
LEMMA IndexDropsAre ==
    ASSUME NEW t, NEW p, NEW n, NEW S, S = Differ(p, n), AreNames(S)
    PROVE  IndexDrops(t, p, n) = Loop(S, [x \in S |-> <<Op("drop_index", t, x, None)>>])
BY SortedIn DEF IndexDrops, Each, Loop

LEMMA IndexAddsAre ==
    ASSUME NEW t, NEW p, NEW n, NEW S, S = Differ(n, p), AreNames(S)
    PROVE  IndexAdds(t, p, n) = Loop(S, [x \in S |-> <<Op("add_index", t, x, n[x])>>])
BY SortedIn DEF IndexAdds, Each, Loop

LEMMA KeyDropsAre ==
    ASSUME NEW t, NEW p, NEW n, NEW S, S = Differ(p, n), AreNames(S)
    PROVE  ForeignKeyDrops(t, p, n) = Loop(S, [c \in S |-> <<Op("drop_foreign_key", t, c, None)>>])
BY SortedIn DEF ForeignKeyDrops, Each, Loop

LEMMA KeyAddsAre ==
    ASSUME NEW t, NEW p, NEW n, NEW S, S = Differ(n, p), AreNames(S)
    PROVE  ForeignKeyAdds(t, p, n) = Loop(S, [c \in S |-> <<Op("add_foreign_key", t, c, n[c])>>])
BY SortedIn DEF ForeignKeyAdds, Each, Loop

LEMMA ColumnsAre ==
    ASSUME NEW t, NEW p, NEW n, AreNames(DOMAIN p), AreNames(DOMAIN n)
    PROVE  diffColumns(t, p, n)
               = Loop(Both(p, n), [c \in Both(p, n) |-> diffColumn(t, c, p[c], n[c])])
                   \o Loop(Gone(n, p), [c \in Gone(n, p) |-> <<Op("add_column", t, c, n[c])>>])
                   \o Loop(Gone(p, n), [c \in Gone(p, n) |-> <<Op("drop_column", t, c, "cascade")>>])
<1> DEFINE A == Both(p, n)
           B == Gone(n, p)
           C == Gone(p, n)
<1>1. AreNames(A) /\ AreNames(B) /\ AreNames(C)
  BY FewerNames DEF Both, Gone
<1> HIDE DEF A, B, C
<1>2. Each(A, LAMBDA c : diffColumn(t, c, p[c], n[c])) = Loop(A, [c \in A |-> diffColumn(t, c, p[c], n[c])])
  BY <1>1, SortedIn DEF Each, Loop
<1>3. Each(B, LAMBDA c : <<Op("add_column", t, c, n[c])>>) = Loop(B, [c \in B |-> <<Op("add_column", t, c, n[c])>>])
  BY <1>1, SortedIn DEF Each, Loop
<1>4. Each(C, LAMBDA c : <<Op("drop_column", t, c, "cascade")>>)
          = Loop(C, [c \in C |-> <<Op("drop_column", t, c, "cascade")>>])
  BY <1>1, SortedIn DEF Each, Loop
<1> QED
  BY <1>2, <1>3, <1>4 DEF diffColumns, A, B, C

LEMMA ExtensionsAre ==
    ASSUME NEW p, NEW n, AreNames(p), AreNames(n)
    PROVE  diffExtensions(p, n)
               = Loop(p \ n, [x \in p \ n |-> <<Op("drop_extension", 0, x, None)>>])
                   \o Loop(n \ p, [x \in n \ p |-> <<Op("create_extension", 0, x, None)>>])
<1> DEFINE A == p \ n
           B == n \ p
<1>1. AreNames(A) /\ AreNames(B)
  BY FewerNames
<1> HIDE DEF A, B
<1>2. Each(A, LAMBDA x : <<Op("drop_extension", 0, x, None)>>)
          = Loop(A, [x \in A |-> <<Op("drop_extension", 0, x, None)>>])
  BY <1>1, SortedIn DEF Each, Loop
<1>3. Each(B, LAMBDA x : <<Op("create_extension", 0, x, None)>>)
          = Loop(B, [x \in B |-> <<Op("create_extension", 0, x, None)>>])
  BY <1>1, SortedIn DEF Each, Loop
<1> QED
  BY <1>2, <1>3 DEF diffExtensions, A, B

\* A loop that leaves a part of the operations out.
LEMMA LoopSkips ==
    ASSUME NEW K, NEW part, NEW S, AreNames(S), NEW f, NEW d, \A x \in S : Leads(K, part, d, f[x], d)
    PROVE  Leads(K, part, d, Loop(S, f), d)
<1> DEFINE m == [D \in SUBSET S |-> d]
<1>1. \A x \in S : {y \in S : y < x} \in SUBSET S /\ {y \in S : y < x} \cup {x} \in SUBSET S
  OBVIOUS
<1>2. m[{}] = d /\ m[S] = d
  OBVIOUS
<1>3. \A x \in S : Leads(K, part, m[{y \in S : y < x}], f[x], m[{y \in S : y < x} \cup {x}])
  BY <1>1
<1> HIDE DEF m
<1>4. Leads(K, part, m[{}], Loop(S, f), m[S])
  BY <1>3, LeadsEach DEF AreNames
<1> QED
  BY <1>2, <1>4

\* A loop of one operation for each name, from m[{}] to m[S].
LEMMA LoopMoves ==
    ASSUME NEW K, NEW part, NEW S, AreNames(S), NEW op, NEW m,
           \A D \in SUBSET S : \A x \in S \ D : Follows(K, part, m[D], op[x], m[D \cup {x}]),
           NEW f, \A x \in S : f[x] = <<op[x]>>
    PROVE  Leads(K, part, m[{}], Loop(S, f), m[S])
<1>1. ASSUME NEW x \in S
      PROVE  Leads(K, part, m[{y \in S : y < x}], f[x], m[{y \in S : y < x} \cup {x}])
  <2> DEFINE D == {y \in S : y < x}
  <2>1. D \in SUBSET S /\ x \in S \ D
    <3>1. x \in Nat
      BY DEF AreNames
    <3> QED
      BY <3>1
  <2> HIDE DEF D
  <2>2. Follows(K, part, m[D], op[x], m[D \cup {x}])
    BY <2>1
  <2>3. Leads(K, part, m[D], f[x], m[D \cup {x}])
    BY <2>2, LeadsOne
  <2> QED
    BY <2>3 DEF D
<1> QED
  BY <1>1, LeadsEach DEF AreNames

-----------------------------------------------------------------------------
(* One table of both snapshots, in a database whose other tables stand still. *)

Tab(p, C, I, F, h) == [cols |-> C, pk |-> p.pk, idx |-> I, fks |-> F, hyper |-> h, join |-> p.join]

\* The table t of the database d turns from p to n while the others stand still.
Turning(prev, next, t, d, p, n) ==
    /\ WellFormed(prev) /\ WellFormed(next) /\ t \in Both(prev.tables, next.tables)
    /\ p = prev.tables[t] /\ n = next.tables[t] /\ Alterable(prev, next, t)
    /\ Shape(d) /\ t \in DOMAIN d.tables /\ d.ext = next.ext /\ d.tables[t].pk = p.pk
    /\ \A c \in DOMAIN p.fks : p.fks[c].table \in DOMAIN next.tables => Refers(d, p.fks[c])
    /\ \A i \in DOMAIN p.idx \cup DOMAIN n.idx : Unused(d, t, i)
    /\ \A u \in DOMAIN d.tables \ {t} : \A g \in DOMAIN d.tables[u].fks :
           /\ u \in DOMAIN prev.tables /\ g \in DOMAIN prev.tables[u].fks
           /\ d.tables[u].fks[g] = prev.tables[u].fks[g]

\* A table between the two may stand there when its keys and indexes are theirs.
LEMMA TabFits ==
    ASSUME NEW prev, NEW next, NEW t, NEW d, NEW p, NEW n, Turning(prev, next, t, d, p, n),
           NEW C, NEW I, NEW F, NEW h, IsMap(C), IsMap(I), IsMap(F),
           \A c \in DOMAIN C : IsColumn(C[c]), p.pk \subseteq DOMAIN C, DOMAIN F \subseteq DOMAIN C,
           \A i \in DOMAIN I : i \in DOMAIN p.idx \cup DOMAIN n.idx /\ ToSet(I[i].cols) \subseteq DOMAIN C,
           \A c \in DOMAIN F : c \in DOMAIN p.fks /\ F[c] = p.fks[c] /\ p.fks[c].table \in DOMAIN next.tables
    PROVE  Fits(d, t, Tab(p, C, I, F, h))
<1> DEFINE x == Tab(p, C, I, F, h)
<1>1. /\ x = [cols |-> x.cols, pk |-> x.pk, idx |-> x.idx, fks |-> x.fks, hyper |-> x.hyper, join |-> x.join]
      /\ x.cols = C /\ x.pk = p.pk /\ x.idx = I /\ x.fks = F
  BY DEF Tab
<1> HIDE DEF x
<1>2. IsTable(x)
  BY <1>1 DEF IsTable
<1>3. \A c \in DOMAIN x.fks : Refers(d, x.fks[c])
  BY <1>1 DEF Turning
<1>4. \A u \in DOMAIN d.tables \ {t} : DOMAIN x.idx \cap DOMAIN d.tables[u].idx = {}
  BY <1>1 DEF Turning, Unused
<1>5. Shape(d) /\ t \in DOMAIN d.tables /\ x.pk = d.tables[t].pk
  BY <1>1 DEF Turning
<1>6. Fits(d, t, x)
  BY <1>2, <1>3, <1>4, <1>5 DEF Fits
<1> QED
  BY <1>6 DEF x

\* The tables before and after, as well formed as their snapshots.
LEMMA TurningIs ==
    ASSUME NEW prev, NEW next, NEW t, NEW d, NEW p, NEW n, Turning(prev, next, t, d, p, n)
    PROVE  /\ IsTable(p) /\ IsTable(n) /\ n.pk = p.pk /\ n.join = p.join
           /\ AreNames(DOMAIN p.cols) /\ AreNames(DOMAIN n.cols) /\ 0 \notin DOMAIN p.cols /\ 0 \notin DOMAIN n.cols
           /\ AreNames(DOMAIN p.idx) /\ AreNames(DOMAIN n.idx) /\ AreNames(DOMAIN p.fks) /\ AreNames(DOMAIN n.fks)
           /\ \A c \in DOMAIN n.fks : Refers(next, n.fks[c])
<1>1. /\ IsTable(p) /\ AreNames(DOMAIN p.cols) /\ 0 \notin DOMAIN p.cols /\ AreNames(DOMAIN p.idx)
  BY DEF Turning, Both, WellFormed, Shape
<1>2. /\ IsTable(n) /\ AreNames(DOMAIN n.cols) /\ 0 \notin DOMAIN n.cols /\ AreNames(DOMAIN n.idx)
      /\ \A c \in DOMAIN n.fks : Refers(next, n.fks[c])
  BY DEF Turning, Both, WellFormed, Shape
<1>3. n.pk = p.pk /\ n.join = p.join
  BY DEF Turning, Alterable
<1>4. AreNames(DOMAIN p.fks) /\ AreNames(DOMAIN n.fks)
  BY <1>1, <1>2, FewerNames DEF IsTable
<1> QED
  BY <1>1, <1>2, <1>3, <1>4

\* The foreign keys that are left when the tables that go have gone, the keys and
\* the indexes that stay.
StartKeys(p, next) == [c \in {e \in DOMAIN p.fks : p.fks[e].table \in DOMAIN next.tables} |-> p.fks[c]]
KeptKeys(p, n) == [c \in Kept(p.fks, n.fks) |-> p.fks[c]]
KeptIndexes(p, n) == [i \in Kept(p.idx, n.idx) |-> p.idx[i]]

\* The loops over one table: its indexes and keys that go or change are dropped.
LEMMA IndexesDropped ==
    ASSUME NEW K, NEW prev, NEW next, NEW t, NEW d, NEW p, NEW n, Turning(prev, next, t, d, p, n)
    PROVE  Leads(K, "tables", Alter(d, t, Tab(p, p.cols, p.idx, StartKeys(p, next), p.hyper)),
                 IndexDrops(t, p.idx, n.idx),
                 Alter(d, t, Tab(p, p.cols, KeptIndexes(p, n), StartKeys(p, next), p.hyper)))
<1> DEFINE S == Differ(p.idx, n.idx)
           F == StartKeys(p, next)
           x(D) == Tab(p, p.cols, Off(p.idx, D), F, p.hyper)
           m == [D \in SUBSET S |-> Alter(d, t, x(D))]
           op == [i \in S |-> Op("drop_index", t, i, None)]
<1>1. /\ IsTable(p) /\ AreNames(DOMAIN p.idx)
  BY TurningIs
<1>2. AreNames(S) /\ S \subseteq DOMAIN p.idx
  BY <1>1, FewerNames DEF Differ, Gone, Both
<1>3. ASSUME NEW D \in SUBSET S PROVE Fits(d, t, x(D))
  <2>1. IsMap(Off(p.idx, D)) /\ IsMap(F) /\ DOMAIN F \subseteq DOMAIN p.fks
    BY DEF IsMap, Off, StartKeys
  <2>2. \A i \in DOMAIN Off(p.idx, D) : i \in DOMAIN p.idx /\ Off(p.idx, D)[i] = p.idx[i]
    BY DEF Off
  <2>3. \A c \in DOMAIN F : c \in DOMAIN p.fks /\ F[c] = p.fks[c] /\ p.fks[c].table \in DOMAIN next.tables
    BY DEF StartKeys
  <2> HIDE DEF F
  <2> QED
    BY <1>1, <2>1, <2>2, <2>3, TabFits DEF IsTable
<1>4. ASSUME NEW D \in SUBSET S, NEW i \in S \ D
      PROVE  Follows(K, "tables", m[D], op[i], m[D \cup {i}])
  <2>1. Fits(d, t, x(D)) /\ Fits(d, t, x(D \cup {i}))
    BY <1>3
  <2>2. x(D \cup {i}) = WithIdx(x(D), Off(x(D).idx, {i}))
    <3>1. Off(Off(p.idx, D), {i}) = Off(p.idx, D \cup {i})
      BY DEF Off
    <3> QED
      BY <3>1 DEF Tab, WithIdx
  <2>3. Unused(d, t, i)
    BY <1>2 DEF Turning
  <2>4. Moves(K, Alter(d, t, x(D)), Op("drop_index", t, i, None), Alter(d, t, x(D \cup {i})))
    <3> HIDE DEF x
    <3> QED
      BY <2>1, <2>2, <2>3, DropIndexMoves
  <2>5. m[D] = Alter(d, t, x(D)) /\ m[D \cup {i}] = Alter(d, t, x(D \cup {i})) /\ op[i] = Op("drop_index", t, i, None)
    OBVIOUS
  <2>6. Taken("tables", op[i])
    BY DEF Taken, Op
  <2> HIDE DEF m, op, x
  <2> QED
    BY <2>4, <2>5, <2>6 DEF Follows
<1>5. m[{}] = Alter(d, t, Tab(p, p.cols, p.idx, F, p.hyper))
  <2>1. Off(p.idx, {}) = p.idx
    BY <1>1 DEF Off, IsTable, IsMap
  <2> QED
    BY <2>1
<1>6. m[S] = Alter(d, t, Tab(p, p.cols, KeptIndexes(p, n), F, p.hyper))
  <2>1. DOMAIN p.idx \ S = Kept(p.idx, n.idx)
    BY DEF Differ, Kept, Gone, Both
  <2>2. Off(p.idx, S) = KeptIndexes(p, n)
    BY <2>1 DEF Off, KeptIndexes
  <2> QED
    BY <2>2
<1> DEFINE f == [i \in S |-> <<Op("drop_index", t, i, None)>>]
<1>7. \A i \in S : f[i] = <<op[i]>>
  OBVIOUS
<1>8. IndexDrops(t, p.idx, n.idx) = Loop(S, f)
  BY <1>2, IndexDropsAre
<1> HIDE DEF m, op, f, S, x
<1>9. Leads(K, "tables", m[{}], Loop(S, f), m[S])
  BY <1>2, <1>4, <1>7, LoopMoves
<1> QED
  BY <1>5, <1>6, <1>8, <1>9

LEMMA KeysDropped ==
    ASSUME NEW K, NEW prev, NEW next, NEW t, NEW d, NEW p, NEW n, Turning(prev, next, t, d, p, n)
    PROVE  Leads(K, "tables", Alter(d, t, Tab(p, p.cols, KeptIndexes(p, n), StartKeys(p, next), p.hyper)),
                 ForeignKeyDrops(t, p.fks, n.fks),
                 Alter(d, t, Tab(p, p.cols, KeptIndexes(p, n), KeptKeys(p, n), p.hyper)))
<1> DEFINE S == Differ(p.fks, n.fks)
           I == KeptIndexes(p, n)
           F == StartKeys(p, next)
           x(D) == Tab(p, p.cols, I, Off(F, D), p.hyper)
           m == [D \in SUBSET S |-> Alter(d, t, x(D))]
           op == [c \in S |-> Op("drop_foreign_key", t, c, None)]
<1>1. /\ IsTable(p) /\ AreNames(DOMAIN p.fks)
      /\ \A c \in DOMAIN n.fks : Refers(next, n.fks[c])
  BY TurningIs
<1>2. AreNames(S) /\ S \subseteq DOMAIN p.fks
  BY <1>1, FewerNames DEF Differ, Gone, Both
<1>3. ASSUME NEW D \in SUBSET S PROVE Fits(d, t, x(D))
  <2>1. IsMap(I) /\ IsMap(Off(F, D)) /\ DOMAIN Off(F, D) \subseteq DOMAIN p.fks
    BY DEF IsMap, Off, StartKeys, KeptIndexes
  <2>2. \A i \in DOMAIN I : i \in DOMAIN p.idx /\ I[i] = p.idx[i]
    BY DEF KeptIndexes, Kept, Both
  <2>3. \A c \in DOMAIN Off(F, D) : /\ c \in DOMAIN p.fks /\ Off(F, D)[c] = p.fks[c]
                                    /\ p.fks[c].table \in DOMAIN next.tables
    BY DEF StartKeys, Off
  <2> DEFINE G == Off(F, D)
  <2> HIDE DEF F, I, G
  <2> QED
    BY <1>1, <2>1, <2>2, <2>3, TabFits DEF IsTable
<1>4. ASSUME NEW D \in SUBSET S, NEW c \in S \ D
      PROVE  Follows(K, "tables", m[D], op[c], m[D \cup {c}])
  <2>1. Fits(d, t, x(D)) /\ Fits(d, t, x(D \cup {c}))
    BY <1>3
  <2>2. x(D \cup {c}) = WithFks(x(D), Off(x(D).fks, {c}))
    <3>1. Off(Off(F, D), {c}) = Off(F, D \cup {c})
      BY DEF Off
    <3> QED
      BY <3>1 DEF Tab, WithFks
  <2>4. Moves(K, Alter(d, t, x(D)), Op("drop_foreign_key", t, c, None), Alter(d, t, x(D \cup {c})))
    <3> HIDE DEF x
    <3> QED
      BY <2>1, <2>2, DropKeyMoves
  <2>5. m[D] = Alter(d, t, x(D)) /\ m[D \cup {c}] = Alter(d, t, x(D \cup {c})) /\ op[c] = Op("drop_foreign_key", t, c, None)
    OBVIOUS
  <2>6. Taken("tables", op[c])
    BY DEF Taken, Op
  <2> HIDE DEF m, op, x
  <2> QED
    BY <2>4, <2>5, <2>6 DEF Follows
<1>5. m[{}] = Alter(d, t, Tab(p, p.cols, I, F, p.hyper))
  <2>1. Off(F, {}) = F
    BY DEF Off, StartKeys
  <2> QED
    BY <2>1
<1>6. m[S] = Alter(d, t, Tab(p, p.cols, I, KeptKeys(p, n), p.hyper))
  <2>1. DOMAIN F \ S = Kept(p.fks, n.fks)
    <3>1. \A c \in Kept(p.fks, n.fks) : c \in DOMAIN F
      BY <1>1 DEF Kept, Both, StartKeys, Refers
    <3> QED
      BY <3>1 DEF StartKeys, Differ, Kept, Gone, Both
  <2>2. \A c \in DOMAIN F : F[c] = p.fks[c]
    BY DEF StartKeys
  <2> HIDE DEF F
  <2>3. Off(F, S) = KeptKeys(p, n)
    BY <2>1, <2>2 DEF Off, KeptKeys
  <2> QED
    BY <2>3
<1> DEFINE f == [c \in S |-> <<Op("drop_foreign_key", t, c, None)>>]
<1>7. \A c \in S : f[c] = <<op[c]>>
  OBVIOUS
<1>8. ForeignKeyDrops(t, p.fks, n.fks) = Loop(S, f)
  BY <1>2, KeyDropsAre
<1> HIDE DEF m, op, f, S, x
<1>9. Leads(K, "tables", m[{}], Loop(S, f), m[S])
  BY <1>2, <1>4, <1>7, LoopMoves
<1> QED
  BY <1>5, <1>6, <1>8, <1>9

\* Its indexes that come or change are added.
LEMMA IndexesAdded ==
    ASSUME NEW K, NEW prev, NEW next, NEW t, NEW d, NEW p, NEW n, Turning(prev, next, t, d, p, n)
    PROVE  Leads(K, "tables", Alter(d, t, Tab(p, n.cols, KeptIndexes(p, n), KeptKeys(p, n), p.hyper)),
                 IndexAdds(t, p.idx, n.idx),
                 Alter(d, t, Tab(p, n.cols, n.idx, KeptKeys(p, n), p.hyper)))
<1> DEFINE S == Differ(n.idx, p.idx)
           F == KeptKeys(p, n)
           I(D) == [i \in Kept(p.idx, n.idx) \cup D |-> n.idx[i]]
           x(D) == Tab(p, n.cols, I(D), F, p.hyper)
           m == [D \in SUBSET S |-> Alter(d, t, x(D))]
           op == [i \in S |-> Op("add_index", t, i, n.idx[i])]
<1>1. /\ IsTable(p) /\ IsTable(n) /\ n.pk = p.pk /\ AreNames(DOMAIN n.idx)
      /\ \A c \in DOMAIN n.fks : Refers(next, n.fks[c])
  BY TurningIs
<1>2. AreNames(S) /\ S \subseteq DOMAIN n.idx /\ S \cap Kept(p.idx, n.idx) = {}
  <2>1. S \subseteq DOMAIN n.idx /\ S \cap Kept(p.idx, n.idx) = {}
    BY DEF Differ, Gone, Both, Kept
  <2> QED
    BY <1>1, <2>1, FewerNames
<1>3. ASSUME NEW D \in SUBSET S PROVE Fits(d, t, x(D))
  <2>1. IsMap(I(D)) /\ IsMap(F)
    BY DEF IsMap, KeptKeys
  <2>2. \A i \in DOMAIN I(D) : i \in DOMAIN n.idx /\ I(D)[i] = n.idx[i]
    BY <1>2 DEF Kept, Both
  <2>3. \A c \in DOMAIN F : /\ c \in DOMAIN p.fks /\ c \in DOMAIN n.fks /\ F[c] = p.fks[c]
                            /\ p.fks[c].table \in DOMAIN next.tables
    BY <1>1 DEF KeptKeys, Kept, Both, Refers
  <2> HIDE DEF F, I
  <2> QED
    BY <1>1, <2>1, <2>2, <2>3, TabFits DEF IsTable
<1>4. ASSUME NEW D \in SUBSET S, NEW i \in S \ D
      PROVE  Follows(K, "tables", m[D], op[i], m[D \cup {i}])
  <2>1. Fits(d, t, x(D)) /\ Fits(d, t, x(D \cup {i}))
    BY <1>3
  <2>2. x(D \cup {i}) = WithIdx(x(D), Put(x(D).idx, i, n.idx[i]))
    <3>1. Put(I(D), i, n.idx[i]) = I(D \cup {i})
      BY DEF Put
    <3> HIDE DEF I
    <3> QED
      BY <3>1 DEF Tab, WithIdx
  <2>3. Unused(d, t, i) /\ i \notin DOMAIN x(D).idx /\ ToSet(n.idx[i].cols) \subseteq DOMAIN x(D).cols
    BY <1>1, <1>2 DEF Turning, Tab, IsTable
  <2>4. Moves(K, Alter(d, t, x(D)), Op("add_index", t, i, n.idx[i]), Alter(d, t, x(D \cup {i})))
    <3> HIDE DEF x
    <3> QED
      BY <2>1, <2>2, <2>3, AddIndexMoves
  <2>5. m[D] = Alter(d, t, x(D)) /\ m[D \cup {i}] = Alter(d, t, x(D \cup {i})) /\ op[i] = Op("add_index", t, i, n.idx[i])
    OBVIOUS
  <2>6. Taken("tables", op[i])
    BY DEF Taken, Op
  <2> HIDE DEF m, op, x
  <2> QED
    BY <2>4, <2>5, <2>6 DEF Follows
<1>5. m[{}] = Alter(d, t, Tab(p, n.cols, KeptIndexes(p, n), F, p.hyper))
  <2>1. I({}) = KeptIndexes(p, n)
    BY DEF KeptIndexes, Kept
  <2> QED
    BY <2>1
<1>6. m[S] = Alter(d, t, Tab(p, n.cols, n.idx, F, p.hyper))
  <2>1. Kept(p.idx, n.idx) \cup S = DOMAIN n.idx
    BY DEF Differ, Kept, Gone, Both
  <2>2. I(S) = n.idx
    BY <1>1, <2>1 DEF IsTable, IsMap
  <2> QED
    BY <2>2
<1> DEFINE f == [i \in S |-> <<Op("add_index", t, i, n.idx[i])>>]
<1>7. \A i \in S : f[i] = <<op[i]>>
  OBVIOUS
<1>8. IndexAdds(t, p.idx, n.idx) = Loop(S, f)
  BY <1>2, IndexAddsAre
<1> HIDE DEF m, op, f, S, x
<1>9. Leads(K, "tables", m[{}], Loop(S, f), m[S])
  BY <1>2, <1>4, <1>7, LoopMoves
<1> QED
  BY <1>5, <1>6, <1>8, <1>9

\* It becomes a hypertable, or stops being one.
LEMMA HypertableTurned ==
    ASSUME NEW K, NEW prev, NEW next, NEW t, NEW d, NEW p, NEW n, Turning(prev, next, t, d, p, n)
    PROVE  Leads(K, "tables", Alter(d, t, Tab(p, n.cols, n.idx, KeptKeys(p, n), p.hyper)),
                 diffHypertable(t, p, n),
                 Alter(d, t, Tab(p, n.cols, n.idx, KeptKeys(p, n), n.hyper)))
<1> DEFINE F == KeptKeys(p, n)
           x(h) == Tab(p, n.cols, n.idx, F, h)
           m(h) == Alter(d, t, x(h))
<1>1. /\ IsTable(n) /\ n.pk = p.pk /\ \A c \in DOMAIN n.fks : Refers(next, n.fks[c])
  BY TurningIs
<1>2. ASSUME NEW h PROVE Fits(d, t, x(h))
  <2>1. IsMap(F)
    BY DEF IsMap, KeptKeys
  <2>2. \A c \in DOMAIN F : /\ c \in DOMAIN p.fks /\ c \in DOMAIN n.fks /\ F[c] = p.fks[c]
                            /\ p.fks[c].table \in DOMAIN next.tables
    BY <1>1 DEF KeptKeys, Kept, Both, Refers
  <2> HIDE DEF F
  <2> QED
    BY <1>1, <2>1, <2>2, TabFits DEF IsTable
<1>3. \A h, g : x(g) = WithHyper(x(h), g) /\ x(h).pk = n.pk /\ x(h).cols = n.cols
  BY <1>1 DEF WithHyper, Tab
<1>4. n.hyper # None => /\ Timescale \in d.ext /\ (n.hyper \in n.pk \/ n.pk = {})
                        /\ \A c \in DOMAIN n.cols : n.cols[c].unique => c = n.hyper
  BY DEF Turning, WellFormed, Both
<1> HIDE DEF x
<1>5. CASE p.hyper = n.hyper
  BY <1>5, LeadsNothing DEF diffHypertable
<1>6. CASE p.hyper # n.hyper
  <2>1. diffHypertable(t, p, n) = When(p.hyper # None, Op("drop_hypertable", t, 0, None))
                                    \o When(n.hyper # None, Op("create_hypertable", t, 0, n.hyper))
    BY <1>6 DEF diffHypertable
  <2>2. Leads(K, "tables", m(p.hyper), When(p.hyper # None, Op("drop_hypertable", t, 0, None)), m(None))
    <3>1. Moves(K, m(p.hyper), Op("drop_hypertable", t, 0, None), m(None))
      BY <1>2, <1>3, HypertableMoves
    <3>2. Follows(K, "tables", m(p.hyper), Op("drop_hypertable", t, 0, None), m(None))
      BY <3>1 DEF Follows, Taken, Op
    <3>3. ~ (p.hyper # None) => m(None) = m(p.hyper)
      OBVIOUS
    <3> HIDE DEF m
    <3> QED
      BY <3>2, <3>3, LeadsWhen
  <2>3. Leads(K, "tables", m(None), When(n.hyper # None, Op("create_hypertable", t, 0, n.hyper)), m(n.hyper))
    <3>1. n.hyper # None => Moves(K, m(None), Op("create_hypertable", t, 0, n.hyper), m(n.hyper))
      BY <1>2, <1>3, <1>4, HypertableMoves
    <3>2. n.hyper # None => Follows(K, "tables", m(None), Op("create_hypertable", t, 0, n.hyper), m(n.hyper))
      BY <3>1 DEF Follows, Taken, Op
    <3>3. ~ (n.hyper # None) => m(n.hyper) = m(None)
      OBVIOUS
    <3> HIDE DEF m
    <3> QED
      BY <3>2, <3>3, LeadsWhen
  <2> HIDE DEF m
  <2>4. Leads(K, "tables", m(p.hyper), diffHypertable(t, p, n), m(n.hyper))
    BY <2>1, <2>2, <2>3, LeadsOn
  <2> QED
    BY <2>4 DEF m, x
<1> QED
  BY <1>5, <1>6

LEMMA Two == ASSUME NEW v, NEW w PROVE <<v>> \o <<w>> = <<v, w>>
<1>1. <<v>> \in Seq({v, w}) /\ <<w>> \in Seq({v, w}) /\ <<v, w>> \in Seq({v, w})
  OBVIOUS
<1>2. <<v>> \o <<w>> \in Seq({v, w}) /\ Len(<<v>> \o <<w>>) = 2 /\ Len(<<v, w>>) = 2
  BY <1>1
<1>3. \A i \in 1..2 : (<<v>> \o <<w>>)[i] = <<v, w>>[i]
  BY <1>1
<1>4. <<v>> \o <<w>> = [i \in 1..2 |-> (<<v>> \o <<w>>)[i]] /\ <<v, w>> = [i \in 1..2 |-> <<v, w>>[i]]
  BY <1>2
<1> DEFINE s == <<v>> \o <<w>>
           r == <<v, w>>
<1> HIDE DEF s, r
<1>5. s = r
  BY <1>3, <1>4 DEF s, r
<1> QED
  BY <1>5 DEF s, r

\* The table while its columns change: its kept indexes and keys stand.
Mid(p, n, C) == Tab(p, C, KeptIndexes(p, n), KeptKeys(p, n), p.hyper)
Columns(p, n, C) ==
    /\ IsMap(C) /\ \A g \in DOMAIN C : IsColumn(C[g])
    /\ p.pk \subseteq DOMAIN C /\ Kept(p.fks, n.fks) \subseteq DOMAIN C
    /\ \A i \in Kept(p.idx, n.idx) : ToSet(p.idx[i].cols) \subseteq DOMAIN C

LEMMA MidFits ==
    ASSUME NEW prev, NEW next, NEW t, NEW d, NEW p, NEW n, Turning(prev, next, t, d, p, n),
           NEW C, Columns(p, n, C)
    PROVE  Fits(d, t, Mid(p, n, C))
<1> DEFINE I == KeptIndexes(p, n)
           F == KeptKeys(p, n)
<1>1. IsMap(I) /\ IsMap(F) /\ DOMAIN F \subseteq DOMAIN C
  BY DEF IsMap, KeptKeys, KeptIndexes, Columns
<1>2. \A i \in DOMAIN I : i \in DOMAIN p.idx \cup DOMAIN n.idx /\ ToSet(I[i].cols) \subseteq DOMAIN C
  BY DEF KeptIndexes, Columns, Kept, Both
<1>3. \A c \in DOMAIN n.fks : Refers(next, n.fks[c])
  BY TurningIs
<1>4. \A c \in DOMAIN F : /\ c \in DOMAIN p.fks /\ F[c] = p.fks[c]
                          /\ p.fks[c].table \in DOMAIN next.tables
  BY <1>3 DEF KeptKeys, Kept, Both, Refers
<1> HIDE DEF I, F
<1>5. Fits(d, t, Tab(p, C, I, F, p.hyper))
  BY <1>1, <1>2, <1>4, TabFits DEF Columns
<1> QED
  BY <1>5 DEF I, F, Mid

LEMMA ColumnsAt ==
    ASSUME NEW prev, NEW next, NEW t, NEW d, NEW p, NEW n, Turning(prev, next, t, d, p, n)
    PROVE  Columns(p, n, p.cols) /\ Columns(p, n, n.cols)
<1>1. IsTable(p) /\ IsTable(n) /\ n.pk = p.pk
  BY TurningIs
<1>2. Columns(p, n, p.cols)
  BY <1>1 DEF Columns, IsTable, Kept, Both
<1>3. Columns(p, n, n.cols)
  BY <1>1 DEF Columns, IsTable, Kept, Both
<1> QED
  BY <1>2, <1>3

\* One clause, when the column differs in it.
LEMMA ClauseTurned ==
    ASSUME NEW K, NEW prev, NEW next, NEW t, NEW d, NEW p, NEW n, Turning(prev, next, t, d, p, n),
           NEW C, Columns(p, n, C), NEW c \in DOMAIN C, NEW v, NEW u, IsColumn(v), IsColumn(u),
           NEW kind \in Clauses, NEW def, NEW P \in BOOLEAN,
           ~P => u = v,
           P => ClauseAccepted(d, Op(kind, t, c, def), Mid(p, n, Set(C, c, v))),
           P => u = Clause(Op(kind, t, c, def), Mid(p, n, Set(C, c, v)))
    PROVE  Leads(K, "tables", Alter(d, t, Mid(p, n, Set(C, c, v))), When(P, Op(kind, t, c, def)),
                 Alter(d, t, Mid(p, n, Set(C, c, u))))
<1> DEFINE x == Mid(p, n, Set(C, c, v))
           y == Mid(p, n, Set(C, c, u))
           op == Op(kind, t, c, def)
<1>1. Columns(p, n, Set(C, c, v)) /\ Columns(p, n, Set(C, c, u))
  BY DEF Columns, Set, IsMap
<1>2. Fits(d, t, x) /\ Fits(d, t, y)
  BY <1>1, MidFits
<1>3. c \in DOMAIN x.cols /\ WithCols(x, Set(x.cols, c, u)) = y
  <2>1. Set(Set(C, c, v), c, u) = Set(C, c, u) /\ c \in DOMAIN Set(C, c, v)
    BY DEF Set
  <2> QED
    BY <2>1 DEF Mid, Tab, WithCols
<1> HIDE DEF x, y
<1>4. ASSUME P PROVE Moves(K, Alter(d, t, x), op, Alter(d, t, y))
  <2>1. ClauseAccepted(d, op, x) /\ u = Clause(op, x)
    BY <1>4 DEF x
  <2>2. y = WithCols(x, Set(x.cols, c, Clause(op, x)))
    BY <1>3, <2>1
  <2> QED
    BY <1>2, <1>3, <2>1, <2>2, ClauseMoves
<1>5. Taken("tables", op)
  BY DEF Taken, Op, Clauses
<1> HIDE DEF op
<1>6. P => Follows(K, "tables", Alter(d, t, x), op, Alter(d, t, y))
  BY <1>4, <1>5 DEF Follows
<1>7. ~P => Alter(d, t, y) = Alter(d, t, x)
  BY DEF x, y
<1>8. Leads(K, "tables", Alter(d, t, x), When(P, op), Alter(d, t, y))
  BY <1>6, <1>7, LeadsWhen
<1> QED
  BY <1>8 DEF x, y, op

\* Some columns are already what they will be.
Between(p, n, C) ==
    /\ IsMap(C) /\ DOMAIN C = DOMAIN p.cols
    /\ \A g \in DOMAIN C : C[g] = p.cols[g] \/ (g \in DOMAIN n.cols /\ C[g] = n.cols[g])

LEMMA BetweenIs ==
    ASSUME NEW prev, NEW next, NEW t, NEW d, NEW p, NEW n, Turning(prev, next, t, d, p, n),
           NEW C, Between(p, n, C)
    PROVE  Columns(p, n, C)
<1>1. IsTable(p) /\ IsTable(n)
  BY TurningIs
<1> QED
  BY <1>1 DEF Columns, Between, IsTable, Kept, Both

\* An ordinary column, clause by clause.
LEMMA OrdinaryColumnTurned ==
    ASSUME NEW K, NEW prev, NEW next, NEW t, NEW d, NEW p, NEW n, Turning(prev, next, t, d, p, n),
           NEW C, Between(p, n, C), NEW c \in Both(p.cols, n.cols), C[c] = p.cols[c],
           p.cols[c].reads = None, n.cols[c].reads = None
    PROVE  Leads(K, "tables", Alter(d, t, Mid(p, n, C)), diffColumn(t, c, p.cols[c], n.cols[c]),
                 Alter(d, t, Mid(p, n, Set(C, c, n.cols[c]))))
<1> DEFINE a == p.cols[c]
           b == n.cols[c]
           half == IF a.enum # b.enum /\ a.enum # {} THEN {} ELSE a.enum
           Col(type, nullable, default, enum) ==
               [type |-> type, nullable |-> nullable, unique |-> a.unique,
                default |-> default, reads |-> None, enum |-> enum]
           v1 == Col(b.type, a.nullable, a.default, a.enum)
           v2 == Col(b.type, b.nullable, a.default, a.enum)
           v3 == Col(b.type, b.nullable, b.default, a.enum)
           v4 == Col(b.type, b.nullable, b.default, half)
           M(v) == Alter(d, t, Mid(p, n, Set(C, c, v)))
<1>1. IsTable(p) /\ IsTable(n) /\ n.pk = p.pk
  BY TurningIs
<1>2. Columns(p, n, C) /\ c \in DOMAIN C
  BY BetweenIs DEF Between, Both
<1>3. IsColumn(a) /\ IsColumn(b)
  BY <1>1 DEF IsTable, Both
<1>4. IsColumn(v1) /\ IsColumn(v2) /\ IsColumn(v3) /\ IsColumn(v4)
  BY <1>3 DEF IsColumn
<1>5. /\ a.unique = b.unique
      /\ a.type # b.type =>
             /\ <<a.type, b.type>> \in Casts /\ c \notin Kept(p.fks, n.fks)
             /\ Readers(p, c) = {} /\ Readers(n, c) \cap DOMAIN p.cols = {}
             /\ \A u \in DOMAIN prev.tables : \A g \in DOMAIN prev.tables[u].fks :
                    ~ (prev.tables[u].fks[g].table = t /\ prev.tables[u].fks[g].column = c)
  BY DEF Turning, Alterable
<1>6. Usable(d, b.type) /\ (b.nullable => c \notin p.pk)
  <2>1. Usable(next, b.type) /\ (b.nullable => c \notin n.pk)
    BY DEF Turning, WellFormed, Both
  <2> QED
    BY <1>1, <2>1 DEF Turning, Usable
<1>7. b = Col(b.type, b.nullable, b.default, b.enum) /\ a = Col(a.type, a.nullable, a.default, a.enum)
  BY <1>3, <1>5 DEF IsColumn
<1>8. \A v : /\ Mid(p, n, Set(C, c, v)).pk = p.pk /\ DOMAIN Mid(p, n, Set(C, c, v)).cols = DOMAIN C
             /\ Mid(p, n, Set(C, c, v)).cols[c] = v
             /\ Mid(p, n, Set(C, c, v)).fks = KeptKeys(p, n)
             /\ \A g \in DOMAIN C \ {c} : Mid(p, n, Set(C, c, v)).cols[g] = C[g]
  BY <1>2 DEF Mid, Tab, Set
<1>9. \A kind, def : LET op == Op(kind, t, c, def)
                     IN  op.kind = kind /\ op.table = t /\ op.name = c /\ op.def = def
  BY DEF Op
<1> HIDE DEF a, b
<1>10. Leads(K, "tables", M(a), When(a.type # b.type, Op("alter_type", t, c, b.type)), M(v1))
  <2> DEFINE x == Mid(p, n, Set(C, c, a))
             op == Op("alter_type", t, c, b.type)
  <2>1. a.type = b.type => v1 = a
    BY <1>7
  <2>2. v1 = Clause(op, x)
    <3>1. [a EXCEPT !.type = b.type] = v1
      BY <1>7
    <3> HIDE DEF v1
    <3> QED
      BY <1>8, <1>9, <3>1 DEF Clause
  <2>3. ASSUME a.type # b.type PROVE ClauseAccepted(d, op, x)
    <3>1. Readers(x, c) = {}
      <4> SUFFICES ASSUME NEW g \in DOMAIN x.cols, x.cols[g].reads # None, c \in x.cols[g].reads
                   PROVE  FALSE
        BY DEF Readers
      <4>1. g # c /\ x.cols[g] = C[g] /\ g \in DOMAIN p.cols
        BY <1>7, <1>8 DEF Between
      <4> HIDE DEF x
      <4>2. C[g] = p.cols[g] \/ (g \in DOMAIN n.cols /\ C[g] = n.cols[g])
        BY <4>1 DEF Between
      <4>3. Readers(p, c) = {} /\ Readers(n, c) \cap DOMAIN p.cols = {}
        BY <1>5, <2>3
      <4> QED
        BY <4>1, <4>2, <4>3 DEF Readers
    <3>2. \A g \in DOMAIN x.fks : /\ g # c
                                  /\ ~ (x.fks[g].table = t /\ x.fks[g].column = c)
      <4>1. DOMAIN x.fks = Kept(p.fks, n.fks) /\ \A g \in DOMAIN x.fks : x.fks[g] = p.fks[g] /\ g \in DOMAIN p.fks
        <5>1. x.fks = KeptKeys(p, n)
          BY <1>8
        <5> HIDE DEF x
        <5> QED
          BY <5>1 DEF KeptKeys, Kept, Both
      <4>2. t \in DOMAIN prev.tables /\ p = prev.tables[t]
        BY DEF Turning, Both
      <4> HIDE DEF x
      <4> QED
        BY <1>5, <2>3, <4>1, <4>2
    <3>3. \A u \in DOMAIN d.tables \ {t} : \A g \in DOMAIN d.tables[u].fks :
              ~ (d.tables[u].fks[g].table = t /\ d.tables[u].fks[g].column = c)
      BY <1>5, <2>3 DEF Turning
    <3>4. x.cols[c].type = a.type
      BY <1>8
    <3> HIDE DEF x
    <3>5. <<x.cols[c].type, b.type>> \in Casts
      BY <1>5, <2>3, <3>4
    <3> QED
      BY <1>6, <1>9, <3>1, <3>2, <3>3, <3>5 DEF ClauseAccepted
  <2> HIDE DEF v1
  <2> QED
    BY <1>2, <1>3, <1>4, <2>1, <2>2, <2>3, ClauseTurned, ZenonT(40) DEF Clauses
<1>11. Leads(K, "tables", M(v1), When(a.nullable # b.nullable, Op("alter_nullable", t, c, b.nullable)), M(v2))
  <2> DEFINE x == Mid(p, n, Set(C, c, v1))
             op == Op("alter_nullable", t, c, b.nullable)
  <2>1. a.nullable = b.nullable => v2 = v1
    OBVIOUS
  <2>2. v2 = Clause(op, x)
    <3>1. [v1 EXCEPT !.nullable = b.nullable] = v2
      OBVIOUS
    <3> HIDE DEF v1, v2
    <3> QED
      BY <1>8, <1>9, <3>1 DEF Clause
  <2>3. ClauseAccepted(d, op, x)
    <3> HIDE DEF v1
    <3> QED
      BY <1>6, <1>8, <1>9 DEF ClauseAccepted
  <2> HIDE DEF v1, v2
  <2> QED
    BY <1>2, <1>4, <2>1, <2>2, <2>3, ClauseTurned, ZenonT(40) DEF Clauses
<1>12. Leads(K, "tables", M(v2), When(a.default # b.default, Op("alter_default", t, c, b.default)), M(v3))
  <2> DEFINE x == Mid(p, n, Set(C, c, v2))
             op == Op("alter_default", t, c, b.default)
  <2>1. a.default = b.default => v3 = v2
    OBVIOUS
  <2>2. v3 = Clause(op, x)
    <3>1. [v2 EXCEPT !.default = b.default] = v3
      OBVIOUS
    <3> HIDE DEF v2, v3
    <3> QED
      BY <1>8, <1>9, <3>1 DEF Clause
  <2>3. ClauseAccepted(d, op, x)
    BY <1>9 DEF ClauseAccepted
  <2> HIDE DEF v2, v3
  <2> QED
    BY <1>2, <1>4, <2>1, <2>2, <2>3, ClauseTurned, ZenonT(40) DEF Clauses
<1>13. Leads(K, "tables", M(v3), When(a.enum # b.enum /\ a.enum # {}, Op("drop_check_constraint", t, c, None)), M(v4))
  <2> DEFINE x == Mid(p, n, Set(C, c, v3))
             op == Op("drop_check_constraint", t, c, None)
             P == a.enum # b.enum /\ a.enum # {}
  <2>1. ~P => v4 = v3
    OBVIOUS
  <2>2. P => v4 = Clause(op, x)
    <3>1. P => [v3 EXCEPT !.enum = {}] = v4
      OBVIOUS
    <3> HIDE DEF v3, v4, P
    <3> QED
      BY <1>8, <1>9, <3>1 DEF Clause
  <2>3. ClauseAccepted(d, op, x)
    BY <1>9 DEF ClauseAccepted
  <2>4. P \in BOOLEAN
    OBVIOUS
  <2> HIDE DEF v3, v4, P
  <2>5. Leads(K, "tables", M(v3), When(P, op), M(v4))
    BY <1>2, <1>4, <2>1, <2>2, <2>3, <2>4, ClauseTurned, ZenonT(40) DEF Clauses
  <2> QED
    BY <2>5 DEF P
<1>14. Leads(K, "tables", M(v4), When(a.enum # b.enum /\ b.enum # {}, Op("add_check_constraint", t, c, b.enum)), M(b))
  <2> DEFINE x == Mid(p, n, Set(C, c, v4))
             op == Op("add_check_constraint", t, c, b.enum)
             P == a.enum # b.enum /\ b.enum # {}
  <2>1. ~P => b = v4
    <3>1. ~P => half = b.enum
      OBVIOUS
    <3> HIDE DEF half, P
    <3> QED
      BY <1>7, <3>1
  <2>2. P => b = Clause(op, x)
    <3>1. [v4 EXCEPT !.enum = b.enum] = b
      <4> HIDE DEF half
      <4> QED
        BY <1>7
    <3> HIDE DEF v4, P
    <3> QED
      BY <1>8, <1>9, <3>1 DEF Clause
  <2>3. ClauseAccepted(d, op, x)
    BY <1>9 DEF ClauseAccepted
  <2>4. P \in BOOLEAN
    OBVIOUS
  <2> HIDE DEF v4, P
  <2>5. Leads(K, "tables", M(v4), When(P, op), M(b))
    BY <1>2, <1>3, <1>4, <2>1, <2>2, <2>3, <2>4, ClauseTurned, ZenonT(40) DEF Clauses
  <2> QED
    BY <2>5 DEF P
<1>15. M(a) = Alter(d, t, Mid(p, n, C))
  <2>1. Set(C, c, a) = C
    BY DEF Set, Between, IsMap, a
  <2> QED
    BY <2>1
<1>16. diffColumn(t, c, a, b)
           = When(a.type # b.type, Op("alter_type", t, c, b.type))
               \o When(a.nullable # b.nullable, Op("alter_nullable", t, c, b.nullable))
               \o When(a.default # b.default, Op("alter_default", t, c, b.default))
               \o When(a.enum # b.enum /\ a.enum # {}, Op("drop_check_constraint", t, c, None))
               \o When(a.enum # b.enum /\ b.enum # {}, Op("add_check_constraint", t, c, b.enum))
  BY DEF diffColumn, a, b
<1> HIDE DEF M, v1, v2, v3, v4
<1>17. Leads(K, "tables", M(a), diffColumn(t, c, a, b), M(b))
  <2> DEFINE s1 == When(a.type # b.type, Op("alter_type", t, c, b.type))
             s2 == When(a.nullable # b.nullable, Op("alter_nullable", t, c, b.nullable))
             s3 == When(a.default # b.default, Op("alter_default", t, c, b.default))
             s4 == When(a.enum # b.enum /\ a.enum # {}, Op("drop_check_constraint", t, c, None))
             s5 == When(a.enum # b.enum /\ b.enum # {}, Op("add_check_constraint", t, c, b.enum))
  <2>1. /\ Leads(K, "tables", M(a), s1, M(v1)) /\ Leads(K, "tables", M(v1), s2, M(v2))
        /\ Leads(K, "tables", M(v2), s3, M(v3)) /\ Leads(K, "tables", M(v3), s4, M(v4))
        /\ Leads(K, "tables", M(v4), s5, M(b))
    BY <1>10, <1>11, <1>12, <1>13, <1>14
  <2>2. diffColumn(t, c, a, b) = s1 \o s2 \o s3 \o s4 \o s5
    BY <1>16
  <2> HIDE DEF s1, s2, s3, s4, s5
  <2>3. Leads(K, "tables", M(a), s1 \o s2, M(v2))
    BY <2>1, LeadsOn
  <2>4. Leads(K, "tables", M(a), s1 \o s2 \o s3, M(v3))
    BY <2>1, <2>3, LeadsOn
  <2>5. Leads(K, "tables", M(a), s1 \o s2 \o s3 \o s4, M(v4))
    BY <2>1, <2>4, LeadsOn
  <2>6. Leads(K, "tables", M(a), s1 \o s2 \o s3 \o s4 \o s5, M(b))
    BY <2>1, <2>5, LeadsOn
  <2> QED
    BY <2>2, <2>6
<1> QED
  BY <1>15, <1>17 DEF M, a, b
\* A generated column is what it will be, or is dropped and added again.
LEMMA GeneratedColumnTurned ==
    ASSUME NEW K, NEW prev, NEW next, NEW t, NEW d, NEW p, NEW n, Turning(prev, next, t, d, p, n),
           NEW C, Between(p, n, C), NEW c \in Both(p.cols, n.cols), C[c] = p.cols[c],
           ~ (p.cols[c].reads = None /\ n.cols[c].reads = None), K \subseteq Ordinary(next)
    PROVE  Leads(K, "tables", Alter(d, t, Mid(p, n, C)), diffColumn(t, c, p.cols[c], n.cols[c]),
                 Alter(d, t, Mid(p, n, Set(C, c, n.cols[c]))))
<1> DEFINE a == p.cols[c]
           b == n.cols[c]
           x == Mid(p, n, C)
           y == Mid(p, n, Off(C, {c}))
           z == Mid(p, n, Set(C, c, b))
<1>1. IsTable(p) /\ IsTable(n) /\ n.pk = p.pk /\ 0 \notin DOMAIN n.cols
  BY TurningIs
<1>2. Columns(p, n, C) /\ c \in DOMAIN C /\ c \in DOMAIN p.cols /\ c \in DOMAIN n.cols
  BY BetweenIs DEF Between, Both
<1>3. IsColumn(a) /\ IsColumn(b)
  BY <1>1, <1>2 DEF IsTable
<1>4. a # b =>
          /\ Readers(p, c) = {} /\ Readers(n, c) \cap DOMAIN p.cols = {}
          /\ c \notin p.pk /\ c \notin Kept(p.fks, n.fks)
          /\ \A i \in Kept(p.idx, n.idx) : c \notin ToSet(p.idx[i].cols)
          /\ b.reads # None => b.reads \subseteq DOMAIN p.cols
  BY DEF Turning, Alterable
<1>5. a.reads # None => a.default = None /\ a.enum = {}
  BY <1>2, ZenonT(40) DEF Turning, WellFormed, Both
<1>6. /\ b.reads # None => b.default = None /\ b.enum = {}
      /\ b.reads # None => \A r \in b.reads : n.cols[r].reads = None
      /\ Usable(d, b.type)
  <2>1. WellFormed(next) /\ n = next.tables[t] /\ t \in DOMAIN next.tables /\ d.ext = next.ext
    BY DEF Turning, Both
  <2>2. /\ Usable(next, n.cols[c].type)
        /\ n.cols[c].reads # None =>
               /\ n.cols[c].default = None /\ n.cols[c].enum = {}
               /\ \A r \in n.cols[c].reads : r \in DOMAIN n.cols /\ n.cols[r].reads = None
    BY <1>2, <2>1, ZenonT(40) DEF WellFormed
  <2> QED
    BY <2>1, <2>2 DEF Usable
<1>7. CASE a = b
  <2>1. diffColumn(t, c, a, b) = <<>>
    BY <1>7 DEF diffColumn
  <2>2. Set(C, c, b) = C
    BY <1>7 DEF Set, Between, IsMap
  <2> QED
    BY <2>1, <2>2, LeadsNothing
<1>8. CASE a # b
  <2>1. \E e \in {"reads", "type", "nullable", "unique"} : a[e] # b[e]
    <3>1. ASSUME a.reads = b.reads, a.type = b.type, a.nullable = b.nullable, a.unique = b.unique
          PROVE  FALSE
      <4>1. a.default = b.default /\ a.enum = b.enum
        BY <1>5, <1>6, <3>1
      <4> HIDE DEF a, b
      <4> QED
        BY <1>3, <1>8, <3>1, <4>1 DEF IsColumn
    <3> HIDE DEF a, b
    <3> QED
      BY <3>1
  <2>2. diffColumn(t, c, a, b) = <<Op("drop_column", t, c, "restrict"), Op("add_column", t, c, b)>>
    BY <2>1 DEF diffColumn, Rebuild
  <2>3. Columns(p, n, Off(C, {c}))
    <3>1. IsMap(Off(C, {c})) /\ \A g \in DOMAIN Off(C, {c}) : IsColumn(Off(C, {c})[g])
      BY <1>2 DEF Off, IsMap, Columns
    <3>2. DOMAIN Off(C, {c}) = DOMAIN C \ {c}
      BY DEF Off
    <3> QED
      BY <1>2, <1>4, <1>8, <3>1, <3>2 DEF Columns
  <2>4. Columns(p, n, Set(C, c, b))
    BY <1>2, <1>3 DEF Columns, Set, IsMap
  <2>5. Fits(d, t, x) /\ Fits(d, t, y) /\ Fits(d, t, z)
    BY <1>2, <2>3, <2>4, MidFits
  <2>6. Moves(K, Alter(d, t, x), Op("drop_column", t, c, "restrict"), Alter(d, t, y))
    <3>1. x.pk = p.pk /\ DOMAIN x.fks = Kept(p.fks, n.fks) /\ x.cols = C
          /\ DOMAIN x.idx = Kept(p.idx, n.idx) /\ \A i \in DOMAIN x.idx : x.idx[i] = p.idx[i]
      BY DEF Mid, Tab, KeptKeys, KeptIndexes
    <3>2. y = WithCols(x, Off(x.cols, {c}))
      BY DEF Mid, Tab, WithCols
    <3>3. Readers(x, c) = {}
      <4> SUFFICES ASSUME NEW g \in DOMAIN C, C[g].reads # None, c \in C[g].reads PROVE FALSE
        BY <3>1 DEF Readers
      <4>1. C[g] = p.cols[g] \/ (g \in DOMAIN n.cols /\ C[g] = n.cols[g])
        BY DEF Between
      <4>2. g \in DOMAIN p.cols
        BY DEF Between
      <4> QED
        BY <1>4, <1>8, <4>1, <4>2 DEF Readers
    <3>4. x.cols[c].reads = None => <<t, c>> \notin K
      <4> SUFFICES ASSUME a.reads = None, <<t, c>> \in Ordinary(next) PROVE FALSE
        BY <3>1
      <4>1. b.reads = None
        <5> DEFINE k == <<t, c>>
        <5>1. k[1] = t /\ k[2] = c /\ k \in Ordinary(next)
          OBVIOUS
        <5> HIDE DEF k
        <5>2. next.tables[k[1]].cols[k[2]].reads = None
          BY <5>1, OrdinaryIs
        <5> QED
          BY <5>1, <5>2 DEF Turning
      <4> QED
        BY <4>1
    <3> HIDE DEF x, y, a, b
    <3>5. /\ {c} \cap x.pk = {} /\ {c} \cap DOMAIN x.fks = {}
          /\ \A i \in DOMAIN x.idx : {c} \cap ToSet(x.idx[i].cols) = {}
      BY <1>4, <1>8, <3>1
    <3>6. c # 0 /\ c \in DOMAIN x.cols
      BY <1>1, <1>2, <3>1
    <3>7. {c} = {c} \cup Readers(x, c)
      BY <3>3
    <3> QED
      BY <2>5, <3>2, <3>3, <3>4, <3>5, <3>6, <3>7, DropColumnMoves
  <2>7. Moves(K, Alter(d, t, y), Op("add_column", t, c, b), Alter(d, t, z))
    <3>1. y.cols = Off(C, {c}) /\ z = WithCols(y, Set(C, c, b))
      BY DEF Mid, Tab, WithCols
    <3>2. Put(Off(C, {c}), c, b) = Set(C, c, b)
      <4>1. (DOMAIN C \ {c}) \cup {c} = DOMAIN C
        BY <1>2
      <4> HIDE DEF b
      <4> QED
        BY <4>1 DEF Put, Off, Set
    <3>3. c \notin DOMAIN y.cols
      BY <3>1 DEF Off
    <3>4. b.reads # None => b.reads \subseteq DOMAIN y.cols
      <4> SUFFICES ASSUME b.reads # None, NEW r \in b.reads PROVE r \in DOMAIN C /\ r # c
        BY <3>1 DEF Off
      <4>1. r \in DOMAIN C
        BY <1>4, <1>8 DEF Between
      <4>2. n.cols[r].reads = None
        BY <1>6
      <4> QED
        BY <4>1, <4>2
    <3> HIDE DEF y, z, b
    <3> QED
      BY <1>6, <2>5, <3>1, <3>2, <3>3, <3>4, AddColumnMoves
  <2> HIDE DEF x, y, z, a, b
  <2>8. /\ Leads(K, "tables", Alter(d, t, x), <<Op("drop_column", t, c, "restrict")>>, Alter(d, t, y))
        /\ Leads(K, "tables", Alter(d, t, y), <<Op("add_column", t, c, b)>>, Alter(d, t, z))
    BY <2>6, <2>7, LeadsOne DEF Follows, Taken, Op
  <2>9. <<Op("drop_column", t, c, "restrict")>> \o <<Op("add_column", t, c, b)>>
            = <<Op("drop_column", t, c, "restrict"), Op("add_column", t, c, b)>>
    BY Two
  <2>10. Leads(K, "tables", Alter(d, t, x), diffColumn(t, c, a, b), Alter(d, t, z))
    BY <2>2, <2>8, <2>9, LeadsOn
  <2> QED
    BY <2>10 DEF x, z, a, b
<1> QED
  BY <1>7, <1>8

\* The columns that both have, some of them changed; those of the next
\* snapshot, some of the new ones added; and those, some of the old ones gone
\* with the generated columns that read them.
Changing(p, n, D) == [c \in DOMAIN p.cols |-> IF c \in D THEN n.cols[c] ELSE p.cols[c]]
Adding(p, n, D) == [c \in DOMAIN p.cols \cup D |-> IF c \in DOMAIN n.cols THEN n.cols[c] ELSE p.cols[c]]
Reach(C, D) == D \cup {g \in DOMAIN C : C[g].reads # None /\ \E c \in D : c \in C[g].reads}

\* The columns of both.
LEMMA BothTurned ==
    ASSUME NEW K, NEW prev, NEW next, NEW t, NEW d, NEW p, NEW n, Turning(prev, next, t, d, p, n),
           K \subseteq Ordinary(next), NEW S, S = Both(p.cols, n.cols)
    PROVE  Leads(K, "tables", Alter(d, t, Mid(p, n, p.cols)),
                 Loop(S, [c \in S |-> diffColumn(t, c, p.cols[c], n.cols[c])]),
                 Alter(d, t, Mid(p, n, Adding(p, n, {}))))
<1> DEFINE m == [D \in SUBSET S |-> Alter(d, t, Mid(p, n, Changing(p, n, D)))]
           f == [c \in S |-> diffColumn(t, c, p.cols[c], n.cols[c])]
<1>1. IsTable(p) /\ IsTable(n) /\ AreNames(DOMAIN p.cols)
  BY TurningIs
<1>2. AreNames(S) /\ S \subseteq DOMAIN p.cols /\ S \subseteq DOMAIN n.cols
  BY <1>1, FewerNames DEF Both
<1>3. ASSUME NEW D \in SUBSET S, NEW x \in S, x \notin D
      PROVE  Leads(K, "tables", m[D], f[x], m[D \cup {x}])
  <2> DEFINE C == Changing(p, n, D)
  <2>1. Between(p, n, C) /\ C[x] = p.cols[x]
    BY <1>2, <1>3 DEF Between, Changing, IsMap
  <2>2. Set(C, x, n.cols[x]) = Changing(p, n, D \cup {x})
    BY <1>2, <1>3 DEF Set, Changing
  <2>3. m[D] = Alter(d, t, Mid(p, n, C)) /\ f[x] = diffColumn(t, x, p.cols[x], n.cols[x])
        /\ m[D \cup {x}] = Alter(d, t, Mid(p, n, Set(C, x, n.cols[x])))
    <3>1. D \cup {x} \in SUBSET S
      BY <1>3
    <3> QED
      BY <2>2, <3>1
  <2> HIDE DEF m, f, C
  <2>4. Leads(K, "tables", Alter(d, t, Mid(p, n, C)), diffColumn(t, x, p.cols[x], n.cols[x]),
              Alter(d, t, Mid(p, n, Set(C, x, n.cols[x]))))
    BY <2>1, OrdinaryColumnTurned, GeneratedColumnTurned
  <2> QED
    BY <2>3, <2>4
<1>4. Leads(K, "tables", m[{}], Loop(S, f), m[S])
  <2>1. ASSUME NEW x \in S
        PROVE  Leads(K, "tables", m[{y \in S : y < x}], f[x], m[{y \in S : y < x} \cup {x}])
    <3>1. x \in Nat /\ x \notin {y \in S : y < x} /\ {y \in S : y < x} \in SUBSET S
      BY <1>2 DEF AreNames
    <3> HIDE DEF m, f
    <3> QED
      BY <1>3, <3>1
  <2> HIDE DEF m, f
  <2> QED
    BY <1>2, <2>1, LeadsEach DEF AreNames
<1>5. Changing(p, n, {}) = p.cols /\ Changing(p, n, S) = Adding(p, n, {})
  BY <1>1 DEF Changing, Adding, IsTable, IsMap, Both
<1>6. m[{}] = Alter(d, t, Mid(p, n, p.cols)) /\ m[S] = Alter(d, t, Mid(p, n, Adding(p, n, {})))
  BY <1>5
<1> QED
  BY <1>4, <1>6

LEMMA AddingIs ==
    ASSUME NEW prev, NEW next, NEW t, NEW d, NEW p, NEW n, Turning(prev, next, t, d, p, n),
           NEW D \in SUBSET Gone(n.cols, p.cols)
    PROVE  Columns(p, n, Adding(p, n, D)) /\ DOMAIN Adding(p, n, D) = DOMAIN p.cols \cup D
<1>1. IsTable(p) /\ IsTable(n)
  BY TurningIs
<1> QED
  BY <1>1 DEF Columns, Adding, IsTable, IsMap, Kept, Both, Gone

\* The columns that come, each generated one after those it reads.
LEMMA ColumnsAdded ==
    ASSUME NEW K, NEW prev, NEW next, NEW t, NEW d, NEW p, NEW n, Turning(prev, next, t, d, p, n),
           NEW S, S = Gone(n.cols, p.cols)
    PROVE  Leads(K, "tables", Alter(d, t, Mid(p, n, Adding(p, n, {}))),
                 Loop(S, [c \in S |-> <<Op("add_column", t, c, n.cols[c])>>]),
                 Alter(d, t, Mid(p, n, Adding(p, n, S))))
<1> DEFINE m == [D \in SUBSET S |-> Alter(d, t, Mid(p, n, Adding(p, n, D)))]
           f == [c \in S |-> <<Op("add_column", t, c, n.cols[c])>>]
<1>1. AreNames(S) /\ S \subseteq DOMAIN n.cols /\ S \cap DOMAIN p.cols = {}
  BY TurningIs, FewerNames DEF Gone
<1>2. ASSUME NEW c \in S, NEW D, D = {y \in S : y < c}
      PROVE  Leads(K, "tables", m[D], f[c], m[D \cup {c}])
  <2> DEFINE b == n.cols[c]
             x == Mid(p, n, Adding(p, n, D))
             y == Mid(p, n, Adding(p, n, D \cup {c}))
  <2>1. c \in Nat /\ c \notin D /\ D \in SUBSET S /\ D \cup {c} \in SUBSET S
    BY <1>1, <1>2 DEF AreNames
  <2>2. Fits(d, t, x) /\ Fits(d, t, y)
    BY <2>1, AddingIs, MidFits
  <2>3. x.cols = Adding(p, n, D) /\ DOMAIN x.cols = DOMAIN p.cols \cup D
        /\ y = WithCols(x, Adding(p, n, D \cup {c}))
    BY <2>1, AddingIs DEF Mid, Tab, WithCols
  <2>4. Put(Adding(p, n, D), c, b) = Adding(p, n, D \cup {c})
    BY <1>1 DEF Put, Adding
  <2>5. Usable(d, b.type) /\ (b.reads # None => b.reads \subseteq DOMAIN n.cols)
    <3>1. WellFormed(next) /\ n = next.tables[t] /\ t \in DOMAIN next.tables /\ d.ext = next.ext
      BY DEF Turning, Both
    <3>2. c \in DOMAIN n.cols
      BY <1>1
    <3>3. Usable(next, b.type) /\ (b.reads # None => \A r \in b.reads : r \in DOMAIN n.cols)
      BY <3>1, <3>2 DEF WellFormed
    <3> HIDE DEF b
    <3> QED
      BY <3>1, <3>3 DEF Usable
  <2>6. b.reads # None => b.reads \subseteq DOMAIN x.cols
    <3>1. b.reads # None => b.reads \subseteq DOMAIN p.cols \cup {r \in DOMAIN n.cols : r < c}
      BY DEF Turning, Alterable
    <3>2. {r \in DOMAIN n.cols : r < c} \subseteq DOMAIN p.cols \cup D
      BY <1>2 DEF Gone
    <3> HIDE DEF x, b
    <3> QED
      BY <2>3, <3>1, <3>2
  <2>7. c \notin DOMAIN x.cols
    BY <1>1, <2>1, <2>3
  <2>8. Moves(K, Alter(d, t, x), Op("add_column", t, c, b), Alter(d, t, y))
    <3> HIDE DEF x, y, b
    <3> QED
      BY <2>2, <2>3, <2>4, <2>5, <2>6, <2>7, AddColumnMoves
  <2>9. m[D] = Alter(d, t, x) /\ f[c] = <<Op("add_column", t, c, b)>> /\ m[D \cup {c}] = Alter(d, t, y)
    BY <2>1
  <2> HIDE DEF x, y, b, m, f
  <2>10. Leads(K, "tables", Alter(d, t, x), <<Op("add_column", t, c, b)>>, Alter(d, t, y))
    BY <2>8, LeadsOne DEF Follows, Taken, Op
  <2> QED
    BY <2>9, <2>10
<1>3. Leads(K, "tables", m[{}], Loop(S, f), m[S])
  <2> HIDE DEF m, f
  <2> QED
    BY <1>1, <1>2, LeadsEach DEF AreNames
<1> QED
  BY <1>3

LEMMA ReachIs ==
    ASSUME NEW prev, NEW next, NEW t, NEW d, NEW p, NEW n, Turning(prev, next, t, d, p, n),
           NEW C, C = Adding(p, n, Gone(n.cols, p.cols)), NEW D \in SUBSET Gone(p.cols, n.cols)
    PROVE  /\ DOMAIN C = DOMAIN p.cols \cup DOMAIN n.cols
           /\ \A c \in DOMAIN n.cols : C[c] = n.cols[c]
           /\ Reach(C, D) \subseteq Gone(p.cols, n.cols) /\ Columns(p, n, Off(C, Reach(C, D)))
<1> DEFINE G == Gone(p.cols, n.cols)
<1>1. DOMAIN C = DOMAIN p.cols \cup DOMAIN n.cols /\ G \subseteq DOMAIN p.cols
  BY DEF Adding, Gone
<1>2. /\ \A c \in DOMAIN n.cols : C[c] = n.cols[c]
      /\ \A c \in G : C[c] = p.cols[c] /\ c \in DOMAIN p.cols /\ c \notin DOMAIN n.cols
  BY <1>1 DEF Adding, Gone
<1>3. \A g \in DOMAIN n.cols : n.cols[g].reads # None => \A r \in n.cols[g].reads : r \in DOMAIN n.cols
  <2>1. WellFormed(next) /\ n = next.tables[t] /\ t \in DOMAIN next.tables
    BY DEF Turning, Both
  <2> QED
    BY <2>1 DEF WellFormed
<1>5. DOMAIN C \ G = DOMAIN n.cols
  BY <1>1 DEF Gone
<1>6. Reach(C, D) \subseteq G
  <2> HIDE DEF G
  <2> SUFFICES ASSUME NEW g \in DOMAIN C, C[g].reads # None, NEW c \in D, c \in C[g].reads, g \notin G
               PROVE  FALSE
    BY DEF Reach, G
  <2>1. c \in G
    BY DEF G
  <2>2. g \in DOMAIN n.cols
    BY <1>5
  <2> QED
    BY <1>2, <1>3, <2>1, <2>2
<1>8. Columns(p, n, Off(C, Reach(C, D)))
  <2>1. Columns(p, n, C) /\ Columns(p, n, n.cols)
    BY AddingIs, ColumnsAt
  <2>2. DOMAIN n.cols \subseteq DOMAIN Off(C, Reach(C, D))
    BY <1>5, <1>6 DEF Off
  <2>3. IsMap(Off(C, Reach(C, D))) /\ \A g \in DOMAIN Off(C, Reach(C, D)) : IsColumn(Off(C, Reach(C, D))[g])
    BY <2>1 DEF Columns, Off, IsMap
  <2>4. /\ p.pk \subseteq DOMAIN n.cols /\ Kept(p.fks, n.fks) \subseteq DOMAIN n.cols
        /\ \A i \in Kept(p.idx, n.idx) : ToSet(p.idx[i].cols) \subseteq DOMAIN n.cols
    BY <2>1 DEF Columns
  <2> QED
    BY <2>2, <2>3, <2>4 DEF Columns
<1> QED
  BY <1>1, <1>2, <1>6, <1>8

\* A generated column that goes is read by none that go.
LEMMA ReadersStay ==
    ASSUME NEW prev, NEW next, NEW t, NEW d, NEW p, NEW n, Turning(prev, next, t, d, p, n),
           NEW C, C = Adding(p, n, Gone(n.cols, p.cols)), NEW g \in Gone(p.cols, n.cols),
           NEW c \in Gone(p.cols, n.cols), C[g].reads # None, c \in C[g].reads
    PROVE  C[c].reads = None
<1>1. C[g] = p.cols[g] /\ C[c] = p.cols[c] /\ g \in DOMAIN p.cols
  BY DEF Adding, Gone
<1>2. WellFormed(prev) /\ p = prev.tables[t] /\ t \in DOMAIN prev.tables
  BY DEF Turning, Both
<1>3. p.cols[g].reads # None => \A r \in p.cols[g].reads : r \in DOMAIN p.cols /\ p.cols[r].reads = None
  BY <1>1, <1>2, ZenonT(40) DEF WellFormed
<1> QED
  BY <1>1, <1>3

\* One column that goes takes the generated ones that read it along.
LEMMA ColumnDropped ==
    ASSUME NEW K, NEW prev, NEW next, NEW t, NEW d, NEW p, NEW n, Turning(prev, next, t, d, p, n),
           K \subseteq Ordinary(next), NEW C, C = Adding(p, n, Gone(n.cols, p.cols)),
           NEW D \in SUBSET Gone(p.cols, n.cols), NEW c \in Gone(p.cols, n.cols), c \notin D
    PROVE  Moves(K, Alter(d, t, Mid(p, n, Off(C, Reach(C, D)))), Op("drop_column", t, c, "cascade"),
                 Alter(d, t, Mid(p, n, Off(C, Reach(C, D \cup {c})))))
<1> DEFINE x == Mid(p, n, Off(C, Reach(C, D)))
           y == Mid(p, n, Off(C, Reach(C, D \cup {c})))
           G == Gone(p.cols, n.cols)
<1>1. IsTable(p) /\ IsTable(n) /\ n.pk = p.pk /\ 0 \notin DOMAIN p.cols
  BY TurningIs
<1>2. c \in DOMAIN p.cols /\ c # 0 /\ c \notin DOMAIN n.cols /\ D \cup {c} \in SUBSET G
  BY <1>1 DEF Gone
<1>3. /\ DOMAIN C = DOMAIN p.cols \cup DOMAIN n.cols
      /\ Reach(C, D) \subseteq G /\ Reach(C, D \cup {c}) \subseteq G
      /\ Columns(p, n, Off(C, Reach(C, D))) /\ Columns(p, n, Off(C, Reach(C, D \cup {c})))
  <2> DEFINE E == D \cup {c}
  <2>1. E \in SUBSET Gone(p.cols, n.cols)
    BY <1>2
  <2> HIDE DEF E
  <2>2. Reach(C, E) \subseteq Gone(p.cols, n.cols) /\ Columns(p, n, Off(C, Reach(C, E)))
    BY <2>1, ReachIs
  <2>3. Reach(C, D) \subseteq Gone(p.cols, n.cols) /\ Columns(p, n, Off(C, Reach(C, D)))
    BY ReachIs
  <2>4. DOMAIN C = DOMAIN p.cols \cup DOMAIN n.cols
    BY DEF Adding, Gone
  <2> QED
    BY <2>2, <2>3, <2>4 DEF E
<1>4. Fits(d, t, x) /\ Fits(d, t, y)
  BY <1>3, MidFits
<1>5. /\ x.cols = Off(C, Reach(C, D)) /\ DOMAIN x.cols = DOMAIN C \ Reach(C, D)
      /\ y = WithCols(x, Off(C, Reach(C, D \cup {c})))
      /\ x.pk = p.pk /\ DOMAIN x.fks = Kept(p.fks, n.fks)
      /\ DOMAIN x.idx = Kept(p.idx, n.idx) /\ \A i \in DOMAIN x.idx : x.idx[i] = p.idx[i]
  BY DEF Mid, Tab, WithCols, KeptKeys, KeptIndexes, Off
<1>6. \A g \in DOMAIN x.cols : x.cols[g] = C[g] /\ g \in DOMAIN C
  BY <1>5 DEF Off
<1>7. Readers(x, c) = {g \in DOMAIN x.cols : C[g].reads # None /\ c \in C[g].reads}
  <2> HIDE DEF x
  <2> QED
    BY <1>6 DEF Readers
<1> HIDE DEF x, y
<1>8. Readers(x, c) \subseteq Reach(C, D \cup {c}) \cap DOMAIN C
  BY <1>5, <1>7 DEF Reach
<1>9. Reach(C, D \cup {c}) = Reach(C, D) \cup {c} \cup Readers(x, c)
  <2>1. Reach(C, D \cup {c}) \subseteq Reach(C, D) \cup {c} \cup Readers(x, c)
    BY <1>5, <1>7 DEF Reach
  <2>2. Reach(C, D) \cup {c} \subseteq Reach(C, D \cup {c})
    BY DEF Reach
  <2> QED
    BY <1>8, <2>1, <2>2
<1>10. CASE c \in DOMAIN x.cols
  <2> DEFINE B == {c} \cup Readers(x, c)
  <2>1. Off(x.cols, B) = Off(C, Reach(C, D \cup {c}))
    <3>1. DOMAIN x.cols \ B = DOMAIN C \ Reach(C, D \cup {c})
      BY <1>5, <1>9
    <3> HIDE DEF B
    <3>2. \A g \in DOMAIN x.cols \ B : x.cols[g] = C[g]
      BY <1>6
    <3> QED
      BY <3>1, <3>2 DEF Off
  <2>2. B \subseteq G
    BY <1>3, <1>8, <1>9
  <2>3. G \cap DOMAIN n.cols = {}
    BY DEF Gone
  <2>4. /\ B \cap x.pk = {} /\ B \cap DOMAIN x.fks = {}
        /\ \A i \in DOMAIN x.idx : B \cap ToSet(x.idx[i].cols) = {}
    <3> HIDE DEF B, G
    <3>1. Columns(p, n, n.cols)
      BY ColumnsAt
    <3> QED
      BY <1>5, <2>2, <2>3, <3>1 DEF Columns
  <2>5. <<t, c>> \notin K
    <3> SUFFICES ASSUME <<t, c>> \in Ordinary(next) PROVE FALSE
      OBVIOUS
    <3> DEFINE k == <<t, c>>
    <3>1. k[1] = t /\ k[2] = c /\ k \in Ordinary(next)
      OBVIOUS
    <3> HIDE DEF k
    <3>2. c \in DOMAIN next.tables[t].cols
      BY <3>1, OrdinaryIs
    <3> QED
      BY <1>2, <3>2 DEF Turning
  <2>6. y = WithCols(x, Off(x.cols, B))
    BY <1>5, <2>1
  <2>7. B = {c} \cup Readers(x, c)
    OBVIOUS
  <2> HIDE DEF B
  <2>8. Moves(K, Alter(d, t, x), Op("drop_column", t, c, "cascade"), Alter(d, t, y))
    BY <1>2, <1>4, <1>10, <2>4, <2>5, <2>6, <2>7, DropColumnMoves
  <2> QED
    BY <2>8 DEF x, y
<1>11. CASE c \notin DOMAIN x.cols
  <2>1. c \in Reach(C, D)
    BY <1>2, <1>3, <1>5, <1>11
  <2>2. C[c].reads # None
    BY <2>1 DEF Reach
  <2>3. Readers(x, c) = {}
    <3> SUFFICES ASSUME NEW g \in Readers(x, c) PROVE FALSE
      OBVIOUS
    <3>1. g \in G /\ C[g].reads # None /\ c \in C[g].reads
      BY <1>3, <1>7, <1>8
    <3> HIDE DEF G
    <3> QED
      BY <2>2, <3>1, ReadersStay DEF G
  <2>4. Reach(C, D \cup {c}) = Reach(C, D)
    BY <1>9, <2>1, <2>3
  <2>5. y = x
    BY <2>4 DEF x, y
  <2>6. Moves(K, Alter(d, t, x), Op("drop_column", t, c, "cascade"), Alter(d, t, x))
    BY <1>2, <1>4, <1>11, DropNothingMoves
  <2> QED
    BY <2>5, <2>6 DEF x, y
<1> QED
  BY <1>10, <1>11

\* The columns that go, of which none is one that stays.
LEMMA ColumnsDropped ==
    ASSUME NEW K, NEW prev, NEW next, NEW t, NEW d, NEW p, NEW n, Turning(prev, next, t, d, p, n),
           K \subseteq Ordinary(next), NEW S, S = Gone(p.cols, n.cols)
    PROVE  Leads(K, "tables", Alter(d, t, Mid(p, n, Adding(p, n, Gone(n.cols, p.cols)))),
                 Loop(S, [c \in S |-> <<Op("drop_column", t, c, "cascade")>>]),
                 Alter(d, t, Mid(p, n, n.cols)))
<1> DEFINE C == Adding(p, n, Gone(n.cols, p.cols))
           m == [D \in SUBSET S |-> Alter(d, t, Mid(p, n, Off(C, Reach(C, D))))]
           op == [c \in S |-> Op("drop_column", t, c, "cascade")]
           f == [c \in S |-> <<Op("drop_column", t, c, "cascade")>>]
<1>1. AreNames(S) /\ IsTable(n) /\ IsTable(p)
  BY TurningIs, FewerNames DEF Gone
<1>2. ASSUME NEW D \in SUBSET S, NEW c \in S \ D
      PROVE  Follows(K, "tables", m[D], op[c], m[D \cup {c}])
  <2>1. D \cup {c} \in SUBSET S
    OBVIOUS
  <2>2. Moves(K, Alter(d, t, Mid(p, n, Off(C, Reach(C, D)))), Op("drop_column", t, c, "cascade"),
              Alter(d, t, Mid(p, n, Off(C, Reach(C, D \cup {c})))))
    <3>1. C = Adding(p, n, Gone(n.cols, p.cols))
      OBVIOUS
    <3> HIDE DEF C
    <3> QED
      BY <3>1, ColumnDropped
  <2>3. Taken("tables", op[c])
    BY DEF Taken, Op
  <2> HIDE DEF C
  <2> QED
    BY <2>1, <2>2, <2>3 DEF Follows
<1>3. Leads(K, "tables", m[{}], Loop(S, f), m[S])
  <2>1. \A c \in S : f[c] = <<op[c]>>
    OBVIOUS
  <2> HIDE DEF m, op, f
  <2> QED
    BY <1>1, <1>2, <2>1, LoopMoves
<1>4. C = Adding(p, n, Gone(n.cols, p.cols))
  OBVIOUS
<1>5. Off(C, Reach(C, {})) = C /\ Off(C, Reach(C, S)) = n.cols
  <2>1. /\ DOMAIN C = DOMAIN p.cols \cup DOMAIN n.cols
        /\ \A c \in DOMAIN n.cols : C[c] = n.cols[c]
    BY DEF Adding, Gone
  <2>2. IsMap(C) /\ IsMap(n.cols)
    BY <1>1 DEF IsMap, Adding, IsTable
  <2> HIDE DEF C
  <2>7. Reach(C, S) \subseteq S
    <3>1. S \in SUBSET Gone(p.cols, n.cols)
      OBVIOUS
    <3>2. Reach(C, S) \subseteq Gone(p.cols, n.cols)
      BY <1>4, <3>1, ReachIs
    <3> QED
      BY <3>2
  <2>3. Reach(C, {}) = {} /\ Reach(C, S) = S
    BY <2>7 DEF Reach
  <2>4. Off(C, {}) = C
    BY <2>2 DEF Off, IsMap
  <2>5. DOMAIN C \ S = DOMAIN n.cols
    BY <2>1 DEF Gone
  <2>6. Off(C, S) = n.cols
    BY <2>1, <2>2, <2>5 DEF Off, IsMap
  <2> QED
    BY <2>3, <2>4, <2>6
<1>6. m[{}] = Alter(d, t, Mid(p, n, C)) /\ m[S] = Alter(d, t, Mid(p, n, n.cols))
  <2> HIDE DEF C
  <2> QED
    BY <1>5
<1> QED
  BY <1>3, <1>6

\* All columns.
LEMMA ColumnsTurned ==
    ASSUME NEW K, NEW prev, NEW next, NEW t, NEW d, NEW p, NEW n, Turning(prev, next, t, d, p, n),
           K \subseteq Ordinary(next)
    PROVE  Leads(K, "tables", Alter(d, t, Mid(p, n, p.cols)), diffColumns(t, p.cols, n.cols),
                 Alter(d, t, Mid(p, n, n.cols)))
<1> DEFINE B == Both(p.cols, n.cols)
           A == Gone(n.cols, p.cols)
           G == Gone(p.cols, n.cols)
           o1 == Loop(B, [c \in B |-> diffColumn(t, c, p.cols[c], n.cols[c])])
           o2 == Loop(A, [c \in A |-> <<Op("add_column", t, c, n.cols[c])>>])
           o3 == Loop(G, [c \in G |-> <<Op("drop_column", t, c, "cascade")>>])
           d1 == Alter(d, t, Mid(p, n, p.cols))
           d2 == Alter(d, t, Mid(p, n, Adding(p, n, {})))
           d3 == Alter(d, t, Mid(p, n, Adding(p, n, A)))
           d4 == Alter(d, t, Mid(p, n, n.cols))
<1>1. diffColumns(t, p.cols, n.cols) = o1 \o o2 \o o3
  BY TurningIs, ColumnsAre
<1>2. Leads(K, "tables", d1, o1, d2) /\ Leads(K, "tables", d2, o2, d3) /\ Leads(K, "tables", d3, o3, d4)
  BY BothTurned, ColumnsAdded, ColumnsDropped
<1> HIDE DEF o1, o2, o3, d1, d2, d3, d4
<1>3. Leads(K, "tables", d1, o1 \o o2 \o o3, d4)
  BY <1>2, LeadsOn
<1> QED
  BY <1>1, <1>3 DEF d1, d4

\* What a part does not take leads nowhere.
LEMMA OneSkips ==
    ASSUME NEW K, NEW part, NEW d, NEW op, ~Taken(part, op)
    PROVE  Leads(K, part, d, <<op>>, d)
BY LeadsOne DEF Follows

LEMMA WhenSkips ==
    ASSUME NEW K, NEW part, NEW d, NEW op, ~Taken(part, op), NEW P \in BOOLEAN
    PROVE  Leads(K, part, d, When(P, op), d)
BY LeadsWhen DEF Follows

LEMMA SinglesSkip ==
    ASSUME NEW K, NEW part, NEW d, NEW S, AreNames(S), NEW op, \A x \in S : ~Taken(part, op[x]),
           NEW f, \A x \in S : f[x] = <<op[x]>>
    PROVE  Leads(K, part, d, Loop(S, f), d)
<1>1. \A x \in S : Leads(K, part, d, f[x], d)
  BY OneSkips
<1> QED
  BY <1>1, LoopSkips

LEMMA KeyAddsSkip ==
    ASSUME NEW K, NEW d, NEW t, NEW p, NEW n, AreNames(DOMAIN n)
    PROVE  Leads(K, "tables", d, ForeignKeyAdds(t, p, n), d)
<1> DEFINE S == Differ(n, p)
           op == [c \in S |-> Op("add_foreign_key", t, c, n[c])]
           f == [c \in S |-> <<Op("add_foreign_key", t, c, n[c])>>]
<1>1. AreNames(S)
  BY FewerNames DEF Differ, Gone, Both
<1>2. \A c \in S : ~Taken("tables", op[c]) /\ f[c] = <<op[c]>>
  BY DEF Taken, Op
<1>3. ForeignKeyAdds(t, p, n) = Loop(S, f)
  <2>1. S = Differ(n, p)
    OBVIOUS
  <2> HIDE DEF S
  <2> QED
    BY <1>1, <2>1, KeyAddsAre
<1> HIDE DEF S, op, f
<1> QED
  BY <1>1, <1>2, <1>3, SinglesSkip

LEMMA IndexesSkip ==
    ASSUME NEW K, NEW d, NEW t, NEW p, NEW n, AreNames(DOMAIN p), AreNames(DOMAIN n)
    PROVE  Leads(K, "keys", d, IndexDrops(t, p, n), d) /\ Leads(K, "keys", d, IndexAdds(t, p, n), d)
<1> DEFINE S == Differ(p, n)
           T == Differ(n, p)
           op == [c \in S |-> Op("drop_index", t, c, None)]
           f == [c \in S |-> <<Op("drop_index", t, c, None)>>]
           aop == [c \in T |-> Op("add_index", t, c, n[c])]
           g == [c \in T |-> <<Op("add_index", t, c, n[c])>>]
<1>1. AreNames(S) /\ AreNames(T)
  BY FewerNames DEF Differ, Gone, Both
<1>2. /\ \A c \in S : ~Taken("keys", op[c]) /\ f[c] = <<op[c]>>
      /\ \A c \in T : ~Taken("keys", aop[c]) /\ g[c] = <<aop[c]>>
  BY DEF Taken, Op
<1>3. IndexDrops(t, p, n) = Loop(S, f) /\ IndexAdds(t, p, n) = Loop(T, g)
  <2>1. S = Differ(p, n) /\ T = Differ(n, p)
    OBVIOUS
  <2> HIDE DEF S, T
  <2> QED
    BY <1>1, <2>1, IndexDropsAre, IndexAddsAre
<1> HIDE DEF S, T, op, f, aop, g
<1>4. Leads(K, "keys", d, Loop(S, f), d)
  BY <1>1, <1>2, SinglesSkip
<1>5. Leads(K, "keys", d, Loop(T, g), d)
  BY <1>1, <1>2, SinglesSkip
<1> QED
  BY <1>3, <1>4, <1>5

LEMMA KeyDropsSkip ==
    ASSUME NEW K, NEW d, NEW t, NEW p, NEW n, AreNames(DOMAIN p), AreNames(DOMAIN n)
    PROVE  Leads(K, "keys", d, ForeignKeyDrops(t, p, n), d)
<1> DEFINE S == Differ(p, n)
           op == [c \in S |-> Op("drop_foreign_key", t, c, None)]
           f == [c \in S |-> <<Op("drop_foreign_key", t, c, None)>>]
<1>1. AreNames(S)
  BY FewerNames DEF Differ, Gone, Both
<1>2. \A c \in S : ~Taken("keys", op[c]) /\ f[c] = <<op[c]>>
  BY DEF Taken, Op
<1>3. ForeignKeyDrops(t, p, n) = Loop(S, f)
  <2>1. S = Differ(p, n)
    OBVIOUS
  <2> HIDE DEF S
  <2> QED
    BY <1>1, <2>1, KeyDropsAre
<1> HIDE DEF S, op, f
<1> QED
  BY <1>1, <1>2, <1>3, SinglesSkip

LEMMA ColumnSkips ==
    ASSUME NEW K, NEW d, NEW t, NEW c, NEW a, NEW b
    PROVE  Leads(K, "keys", d, diffColumn(t, c, a, b), d)
<1>1. \A kind, def : kind # "add_foreign_key" => ~Taken("keys", Op(kind, t, c, def))
  BY DEF Taken, Op
<1>2. CASE a.reads # None \/ b.reads # None
  <2>1. /\ Leads(K, "keys", d, <<Op("drop_column", t, c, "restrict")>>, d)
        /\ Leads(K, "keys", d, <<Op("add_column", t, c, b)>>, d)
    BY <1>1, OneSkips
  <2>2. Leads(K, "keys", d, Rebuild(t, c, b), d)
    <3>1. Leads(K, "keys", d, <<Op("drop_column", t, c, "restrict")>> \o <<Op("add_column", t, c, b)>>, d)
      BY <2>1, LeadsOn
    <3> QED
      BY <3>1, Two DEF Rebuild
  <2>3. Leads(K, "keys", d, <<>>, d)
    BY LeadsNothing
  <2> QED
    BY <1>2, <2>2, <2>3 DEF diffColumn
<1>3. CASE ~ (a.reads # None \/ b.reads # None)
  <2> DEFINE s1 == When(a.type # b.type, Op("alter_type", t, c, b.type))
             s2 == When(a.nullable # b.nullable, Op("alter_nullable", t, c, b.nullable))
             s3 == When(a.default # b.default, Op("alter_default", t, c, b.default))
             s4 == When(a.enum # b.enum /\ a.enum # {}, Op("drop_check_constraint", t, c, None))
             s5 == When(a.enum # b.enum /\ b.enum # {}, Op("add_check_constraint", t, c, b.enum))
  <2>1. diffColumn(t, c, a, b) = s1 \o s2 \o s3 \o s4 \o s5
    BY <1>3 DEF diffColumn
  <2>2. /\ Leads(K, "keys", d, s1, d) /\ Leads(K, "keys", d, s2, d) /\ Leads(K, "keys", d, s3, d)
        /\ Leads(K, "keys", d, s4, d) /\ Leads(K, "keys", d, s5, d)
    BY <1>1, WhenSkips
  <2> HIDE DEF s1, s2, s3, s4, s5
  <2>3. Leads(K, "keys", d, s1 \o s2 \o s3, d)
    BY <2>2, LeadsOn
  <2>4. Leads(K, "keys", d, s1 \o s2 \o s3 \o s4 \o s5, d)
    BY <2>2, <2>3, LeadsOn
  <2> QED
    BY <2>1, <2>4
<1> QED
  BY <1>2, <1>3

LEMMA ColumnsSkip ==
    ASSUME NEW K, NEW d, NEW t, NEW p, NEW n, AreNames(DOMAIN p), AreNames(DOMAIN n)
    PROVE  Leads(K, "keys", d, diffColumns(t, p, n), d)
<1> DEFINE B == Both(p, n)
           A == Gone(n, p)
           G == Gone(p, n)
           f1 == [c \in B |-> diffColumn(t, c, p[c], n[c])]
           f2 == [c \in A |-> <<Op("add_column", t, c, n[c])>>]
           f3 == [c \in G |-> <<Op("drop_column", t, c, "cascade")>>]
           p2 == [c \in A |-> Op("add_column", t, c, n[c])]
           p3 == [c \in G |-> Op("drop_column", t, c, "cascade")]
<1>1. diffColumns(t, p, n) = Loop(B, f1) \o Loop(A, f2) \o Loop(G, f3)
  BY ColumnsAre
<1>2. AreNames(B) /\ AreNames(A) /\ AreNames(G)
  BY FewerNames DEF Both, Gone
<1>3. /\ \A c \in A : ~Taken("keys", p2[c]) /\ f2[c] = <<p2[c]>>
      /\ \A c \in G : ~Taken("keys", p3[c]) /\ f3[c] = <<p3[c]>>
  BY DEF Taken, Op
<1>4. \A c \in B : Leads(K, "keys", d, f1[c], d)
  BY ColumnSkips
<1> HIDE DEF A, B, G, f1, f2, f3, p2, p3
<1>5. Leads(K, "keys", d, Loop(B, f1), d)
  BY <1>2, <1>4, LoopSkips
<1>6. Leads(K, "keys", d, Loop(A, f2), d)
  BY <1>2, <1>3, SinglesSkip
<1>7. Leads(K, "keys", d, Loop(G, f3), d)
  BY <1>2, <1>3, SinglesSkip
<1> DEFINE s1 == Loop(B, f1)
           s2 == Loop(A, f2)
           s3 == Loop(G, f3)
<1> HIDE DEF s1, s2, s3
<1>8. Leads(K, "keys", d, s1 \o s2 \o s3, d)
  BY <1>5, <1>6, <1>7, LeadsOn DEF s1, s2, s3
<1> QED
  BY <1>1, <1>8 DEF s1, s2, s3

LEMMA HypertableSkips ==
    ASSUME NEW K, NEW d, NEW t, NEW p, NEW n
    PROVE  Leads(K, "keys", d, diffHypertable(t, p, n), d)
<1>1. \A kind, def : kind # "add_foreign_key" => ~Taken("keys", Op(kind, t, 0, def))
  BY DEF Taken, Op
<1> DEFINE s1 == When(p.hyper # None, Op("drop_hypertable", t, 0, None))
           s2 == When(n.hyper # None, Op("create_hypertable", t, 0, n.hyper))
<1>2. Leads(K, "keys", d, s1, d) /\ Leads(K, "keys", d, s2, d) /\ Leads(K, "keys", d, <<>>, d)
  BY <1>1, WhenSkips, LeadsNothing
<1>3. diffHypertable(t, p, n) = <<>> \/ diffHypertable(t, p, n) = s1 \o s2
  BY DEF diffHypertable
<1> HIDE DEF s1, s2
<1> QED
  BY <1>2, <1>3, LeadsOn

-----------------------------------------------------------------------------
(* One table: all but its keys, and its keys. *)

\* The first half of diffTable.
LEMMA TableTurned ==
    ASSUME NEW K, NEW prev, NEW next, NEW t, NEW d, NEW p, NEW n, Turning(prev, next, t, d, p, n),
           K \subseteq Ordinary(next)
    PROVE  Leads(K, "tables", Alter(d, t, Tab(p, p.cols, p.idx, StartKeys(p, next), p.hyper)),
                 diffTable(t, p, n),
                 Alter(d, t, Tab(p, n.cols, n.idx, KeptKeys(p, n), n.hyper)))
<1> DEFINE o1 == IndexDrops(t, p.idx, n.idx)
           o2 == ForeignKeyDrops(t, p.fks, n.fks)
           o3 == diffColumns(t, p.cols, n.cols)
           o4 == IndexAdds(t, p.idx, n.idx)
           o5 == ForeignKeyAdds(t, p.fks, n.fks)
           o6 == diffHypertable(t, p, n)
           d0 == Alter(d, t, Tab(p, p.cols, p.idx, StartKeys(p, next), p.hyper))
           d1 == Alter(d, t, Tab(p, p.cols, KeptIndexes(p, n), StartKeys(p, next), p.hyper))
           d2 == Alter(d, t, Tab(p, p.cols, KeptIndexes(p, n), KeptKeys(p, n), p.hyper))
           d3 == Alter(d, t, Tab(p, n.cols, KeptIndexes(p, n), KeptKeys(p, n), p.hyper))
           d4 == Alter(d, t, Tab(p, n.cols, n.idx, KeptKeys(p, n), p.hyper))
           d6 == Alter(d, t, Tab(p, n.cols, n.idx, KeptKeys(p, n), n.hyper))
<1>1. diffTable(t, p, n) = o1 \o o2 \o o3 \o o4 \o o5 \o o6
  BY DEF diffTable
<1>2. Leads(K, "tables", d0, o1, d1)
  BY IndexesDropped
<1>3. Leads(K, "tables", d1, o2, d2)
  BY KeysDropped
<1>4. Leads(K, "tables", d2, o3, d3)
  <2>1. Leads(K, "tables", Alter(d, t, Mid(p, n, p.cols)), o3, Alter(d, t, Mid(p, n, n.cols)))
    BY ColumnsTurned
  <2> QED
    BY <2>1 DEF Mid
<1>5. Leads(K, "tables", d3, o4, d4)
  BY IndexesAdded
<1>6. Leads(K, "tables", d4, o5, d4)
  BY TurningIs, KeyAddsSkip
<1>7. Leads(K, "tables", d4, o6, d6)
  BY HypertableTurned
<1> HIDE DEF o1, o2, o3, o4, o5, o6, d0, d1, d2, d3, d4, d6
<1>8. Leads(K, "tables", d0, o1 \o o2 \o o3, d3)
  BY <1>2, <1>3, <1>4, LeadsOn
<1>9. Leads(K, "tables", d0, o1 \o o2 \o o3 \o o4 \o o5, d4)
  BY <1>8, <1>5, <1>6, LeadsOn
<1>10. Leads(K, "tables", d0, o1 \o o2 \o o3 \o o4 \o o5 \o o6, d6)
  BY <1>9, <1>7, LeadsOn
<1> QED
  BY <1>1, <1>10 DEF d0, d6

\* Its second half.
LEMMA TableKeys ==
    ASSUME NEW K, NEW d, NEW e, NEW t, NEW p, NEW n,
           AreNames(DOMAIN p.cols), AreNames(DOMAIN n.cols), AreNames(DOMAIN p.idx), AreNames(DOMAIN n.idx),
           AreNames(DOMAIN p.fks), AreNames(DOMAIN n.fks),
           Leads(K, "keys", d, ForeignKeyAdds(t, p.fks, n.fks), e)
    PROVE  Leads(K, "keys", d, diffTable(t, p, n), e)
<1> DEFINE o1 == IndexDrops(t, p.idx, n.idx)
           o2 == ForeignKeyDrops(t, p.fks, n.fks)
           o3 == diffColumns(t, p.cols, n.cols)
           o4 == IndexAdds(t, p.idx, n.idx)
           o5 == ForeignKeyAdds(t, p.fks, n.fks)
           o6 == diffHypertable(t, p, n)
<1>1. diffTable(t, p, n) = o1 \o o2 \o o3 \o o4 \o o5 \o o6
  BY DEF diffTable
<1>2. Leads(K, "keys", d, o1, d) /\ Leads(K, "keys", d, o4, d)
  BY IndexesSkip
<1>3. Leads(K, "keys", d, o2, d) /\ Leads(K, "keys", d, o3, d)
  BY KeyDropsSkip, ColumnsSkip
<1>4. Leads(K, "keys", e, o6, e)
  BY HypertableSkips
<1> HIDE DEF o1, o2, o3, o4, o6
<1>5. Leads(K, "keys", d, o1 \o o2 \o o3 \o o4, d)
  <2>1. Leads(K, "keys", d, o1 \o o2 \o o3, d)
    BY <1>2, <1>3, LeadsOn
  <2> QED
    BY <1>2, <2>1, LeadsOn
<1> HIDE DEF o5
<1>6. Leads(K, "keys", d, o1 \o o2 \o o3 \o o4 \o o5, e)
  BY <1>5, LeadsOn DEF o5
<1>7. Leads(K, "keys", d, o1 \o o2 \o o3 \o o4 \o o5 \o o6, e)
  BY <1>4, <1>6, LeadsOn
<1> QED
  BY <1>1, <1>7

\* A table with some of its keys, and the tables A of a snapshot with the keys k.
Bare(n, C) == WithFks(n, [c \in C |-> n.fks[c]])
Built(s, A, k) == [ext |-> s.ext, tables |-> [t \in A |-> Bare(s.tables[t], k[t])]]
\* Every key has the table it refers to.
Buildable(s, A, k) ==
    /\ A \subseteq DOMAIN s.tables
    /\ \A t \in A : /\ k[t] \subseteq DOMAIN s.tables[t].fks
                    /\ \A c \in k[t] : s.tables[t].fks[c].table \in A

LEMMA BareFields ==
    ASSUME NEW n, NEW C, NEW x, x = Bare(n, C)
    PROVE  /\ x.cols = n.cols /\ x.pk = n.pk /\ x.idx = n.idx /\ x.hyper = n.hyper /\ x.join = n.join
           /\ DOMAIN x.fks = C
BY DEF Bare, WithFks

LEMMA BuiltTable ==
    ASSUME NEW s, NEW A, NEW k, NEW t \in A
    PROVE  /\ Built(s, A, k).tables[t].cols = s.tables[t].cols
           /\ Built(s, A, k).tables[t].pk = s.tables[t].pk
           /\ Built(s, A, k).tables[t].idx = s.tables[t].idx
           /\ Built(s, A, k).tables[t] = Bare(s.tables[t], k[t])
<1>1. Built(s, A, k).tables[t] = Bare(s.tables[t], k[t])
  BY DEF Built
<1> QED
  BY <1>1, BareFields

\* The column of a foreign key, and the column it refers to.
Ends(s, t, c) ==
    LET f == s.tables[t].fks[c] IN
    /\ Refers(s, f) /\ f.table \in DOMAIN s.tables /\ f.column \in DOMAIN s.tables[f.table].cols
    /\ s.tables[t].cols[c].type = s.tables[f.table].cols[f.column].type
    /\ c \in DOMAIN s.tables[t].cols

\* In a schema the differ reads, both ends of a key are there and have one type.
LEMMA KeyFits ==
    ASSUME NEW s, WellFormed(s), NEW t \in DOMAIN s.tables, NEW c \in DOMAIN s.tables[t].fks
    PROVE  Ends(s, t, c)
<1>1. Shape(s)
  BY DEF WellFormed
<1>2. Refers(s, s.tables[t].fks[c]) /\ IsTable(s.tables[t])
  BY <1>1 DEF Shape
<1>3. PICK f : f = s.tables[t].fks[c]
  OBVIOUS
<1>4. Refers(s, f)
  BY <1>2, <1>3
<1>5. f.table \in DOMAIN s.tables /\ s.tables[f.table].pk = {f.column}
  BY <1>4 DEF Refers
<1>6. IsTable(s.tables[f.table])
  BY <1>1, <1>5 DEF Shape
<1>7. f.column \in DOMAIN s.tables[f.table].cols
  BY <1>5, <1>6 DEF IsTable
<1>8. s.tables[t].cols[c].type = s.tables[f.table].cols[f.column].type
  BY <1>3 DEF WellFormed
<1>9. c \in DOMAIN s.tables[t].cols
  BY <1>2 DEF IsTable
<1> QED
  BY <1>3, <1>4, <1>5, <1>7, <1>8, <1>9 DEF Ends

LEMMA KeyIs ==
    ASSUME NEW s, WellFormed(s), NEW t \in DOMAIN s.tables, NEW c \in DOMAIN s.tables[t].fks,
           NEW f, f = s.tables[t].fks[c]
    PROVE  /\ Refers(s, f) /\ f.table \in DOMAIN s.tables /\ f.column \in DOMAIN s.tables[f.table].cols
           /\ s.tables[t].cols[c].type = s.tables[f.table].cols[f.column].type
           /\ f = [table |-> f.table, column |-> f.column, onDelete |-> f.onDelete]
           /\ c \in DOMAIN s.tables[t].cols
<1>1. f = [table |-> f.table, column |-> f.column, onDelete |-> f.onDelete]
  BY DEF WellFormed
<1>2. Ends(s, t, c)
  BY KeyFits
<1> QED
  BY <1>1, <1>2 DEF Ends

LEMMA ShapeOf == ASSUME NEW s, WellFormed(s) PROVE Shape(s)
BY DEF WellFormed

LEMMA BareIs ==
    ASSUME NEW s, Shape(s), NEW t \in DOMAIN s.tables, NEW C, C \subseteq DOMAIN s.tables[t].fks
    PROVE  /\ IsTable(s.tables[t]) /\ IsTable(Bare(s.tables[t], C))
           /\ Bare(s.tables[t], DOMAIN s.tables[t].fks) = s.tables[t]
<1> DEFINE n == s.tables[t]
<1>1. IsTable(n)
  BY DEF Shape
<1> HIDE DEF n
<1>2. IsTable(Bare(n, C)) /\ Bare(n, DOMAIN n.fks) = n
  BY <1>1 DEF IsTable, Bare, WithFks, IsMap, n
<1> QED
  BY <1>1, <1>2 DEF n

LEMMA TableNames ==
    ASSUME NEW s, WellFormed(s), NEW t \in DOMAIN s.tables
    PROVE  AreNames(DOMAIN s.tables[t].fks) /\ AreNames(DOMAIN s.tables[t].cols) /\ AreNames(DOMAIN s.tables[t].idx)
<1>1. IsTable(s.tables[t])
  BY DEF WellFormed, Shape
<1>2. AreNames(DOMAIN s.tables[t].cols) /\ AreNames(DOMAIN s.tables[t].idx)
  BY DEF WellFormed
<1> QED
  BY <1>1, <1>2, FewerNames DEF IsTable

\* Such a database hangs together.
LEMMA BuiltIs ==
    ASSUME NEW s, Shape(s), NEW A, NEW k, Buildable(s, A, k)
    PROVE  /\ Shape(Built(s, A, k)) /\ Built(s, A, k).ext = s.ext /\ DOMAIN Built(s, A, k).tables = A
           /\ \A t \in A : Built(s, A, k).tables[t] = Bare(s.tables[t], k[t])
<1> DEFINE d == Built(s, A, k)
<1>1. /\ d.ext = s.ext /\ DOMAIN d.tables = A /\ d = [ext |-> d.ext, tables |-> d.tables]
      /\ IsMap(d.tables)
      /\ \A t \in A : d.tables[t] = Bare(s.tables[t], k[t])
  BY DEF Built, IsMap
<1>5. ASSUME NEW t \in A
      PROVE  /\ d.tables[t].pk = s.tables[t].pk /\ d.tables[t].idx = s.tables[t].idx
             /\ d.tables[t].fks = [c \in k[t] |-> s.tables[t].fks[c]]
  <2>1. d.tables[t] = Bare(s.tables[t], k[t])
    BY <1>1
  <2> HIDE DEF d
  <2> QED
    BY <2>1 DEF Bare, WithFks
<1> HIDE DEF d
<1>2. \A t \in A : t \in DOMAIN s.tables /\ k[t] \subseteq DOMAIN s.tables[t].fks
  BY DEF Buildable
<1>3. ASSUME NEW t \in A
      PROVE  /\ IsTable(d.tables[t])
             /\ \A c \in DOMAIN d.tables[t].fks : Refers(d, d.tables[t].fks[c])
             /\ \A u \in DOMAIN d.tables \ {t} : DOMAIN d.tables[t].idx \cap DOMAIN d.tables[u].idx = {}
  <2>1. IsTable(d.tables[t])
    BY <1>1, <1>2, BareIs
  <2>2. ASSUME NEW c \in DOMAIN d.tables[t].fks PROVE Refers(d, d.tables[t].fks[c])
    <3> DEFINE f == s.tables[t].fks[c]
    <3>1. c \in k[t] /\ d.tables[t].fks[c] = f
      BY <1>5
    <3>2. f.table \in A
      BY <3>1 DEF Buildable
    <3>3. Refers(s, f)
      <4>1. c \in DOMAIN s.tables[t].fks
        BY <1>2, <3>1
      <4> QED
        BY <1>2, <4>1 DEF Shape
    <3> HIDE DEF f
    <3>4. d.tables[f.table].pk = s.tables[f.table].pk
      BY <1>5, <3>2
    <3> QED
      BY <1>1, <3>1, <3>2, <3>3, <3>4 DEF Refers
  <2>3. ASSUME NEW u \in A \ {t} PROVE DOMAIN d.tables[t].idx \cap DOMAIN d.tables[u].idx = {}
    <3>1. d.tables[t].idx = s.tables[t].idx /\ d.tables[u].idx = s.tables[u].idx
      BY <1>5
    <3>2. u \in DOMAIN s.tables \ {t} /\ t \in DOMAIN s.tables
      BY <1>2
    <3>3. DOMAIN s.tables[t].idx \cap DOMAIN s.tables[u].idx = {}
      BY <3>2 DEF Shape
    <3> QED
      BY <3>1, <3>3
  <2> QED
    BY <1>1, <2>1, <2>2, <2>3
<1>4. Shape(d)
  BY <1>1, <1>3 DEF Shape
<1> QED
  BY <1>1, <1>4 DEF d

\* A key more, to a table that is there.
LEMMA KeyBuilt ==
    ASSUME NEW K, NEW s, WellFormed(s), NEW A, NEW k, Buildable(s, A, k), NEW t \in A,
           NEW c \in DOMAIN s.tables[t].fks, c \notin k[t], s.tables[t].fks[c].table \in A,
           NEW l, l = [u \in A |-> IF u = t THEN k[t] \cup {c} ELSE k[u]]
    PROVE  /\ Buildable(s, A, l)
           /\ Moves(K, Built(s, A, k), Op("add_foreign_key", t, c, s.tables[t].fks[c]), Built(s, A, l))
<1> DEFINE n == s.tables[t]
           key == n.fks[c]
           d == Built(s, A, k)
           C == k[t]
           x == Bare(n, C)
           y == Bare(n, C \cup {c})
           z == IF key.table = t THEN x ELSE d.tables[key.table]
<1>1. /\ Shape(d) /\ DOMAIN d.tables = A
      /\ \A u \in A : d.tables[u] = Bare(s.tables[u], k[u])
  BY BuiltIs, ShapeOf
<1>2. Buildable(s, A, l)
  BY DEF Buildable
<1>3. t \in DOMAIN s.tables /\ C \subseteq DOMAIN n.fks /\ C \cup {c} \subseteq DOMAIN n.fks
      /\ \A g \in C \cup {c} : n.fks[g].table \in A
  BY DEF Buildable
<1>4. /\ IsTable(n) /\ IsTable(x) /\ IsTable(y)
      /\ key.column \in DOMAIN s.tables[key.table].cols /\ c \in DOMAIN n.cols
      /\ n.cols[c].type = s.tables[key.table].cols[key.column].type
  <2>1. IsTable(n)
    BY <1>3, BareIs, ShapeOf
  <2>2. IsTable(x)
    BY <1>3, BareIs, ShapeOf
  <2>3. IsTable(y)
    <3> DEFINE D == C \cup {c}
    <3>1. D \subseteq DOMAIN s.tables[t].fks
      BY <1>3
    <3> HIDE DEF D
    <3>2. IsTable(Bare(s.tables[t], D))
      BY <1>3, <3>1, BareIs, ShapeOf
    <3> QED
      BY <3>2 DEF D
  <2>4. /\ key.column \in DOMAIN s.tables[key.table].cols /\ c \in DOMAIN n.cols
        /\ n.cols[c].type = s.tables[key.table].cols[key.column].type
    <3>1. t \in DOMAIN s.tables
      BY <1>3
    <3>2. Ends(s, t, c)
      BY <3>1, KeyFits
    <3> QED
      BY <3>2 DEF Ends
  <2> HIDE DEF x, y, n, key
  <2> QED
    BY <2>1, <2>2, <2>3, <2>4
<1>5. \A g \in DOMAIN n.fks : n.fks[g].table \in A => Refers(d, n.fks[g])
  <2>1. ASSUME NEW u \in A PROVE d.tables[u].pk = s.tables[u].pk
    <3> HIDE DEF x, y, z, n, key, C
    <3> QED
      BY BuiltTable
  <2>2. \A g \in DOMAIN n.fks : Refers(s, n.fks[g])
    BY <1>3, KeyIs
  <2> HIDE DEF n, d
  <2> QED
    BY <1>1, <2>1, <2>2 DEF Refers
<1>6. /\ x.pk = n.pk /\ y.pk = n.pk /\ x.idx = n.idx /\ y.idx = n.idx /\ x.cols = n.cols
      /\ DOMAIN x.fks = C /\ DOMAIN y.fks = C \cup {c}
      /\ \A g \in C : x.fks[g] = n.fks[g]
      /\ \A g \in C \cup {c} : y.fks[g] = n.fks[g]
      /\ y = WithFks(x, y.fks) /\ y.fks = Put(x.fks, c, key)
  BY DEF Bare, WithFks, Put
<1>7. Fits(d, t, x) /\ Fits(d, t, y)
  <2>1. d.tables[t] = x
    BY <1>1
  <2>2. \A u \in DOMAIN d.tables \ {t} : DOMAIN d.tables[t].idx \cap DOMAIN d.tables[u].idx = {}
    BY <1>1 DEF Shape
  <2> HIDE DEF d, x, y, n, C, key
  <2> QED
    BY <1>1, <1>3, <1>4, <1>5, <1>6, <2>1, <2>2 DEF Fits
<1>8. key.column \in DOMAIN z.cols /\ x.cols[c].type = z.cols[key.column].type
  <2>1. z.cols = s.tables[key.table].cols
    <3>1. d.tables[key.table].cols = s.tables[key.table].cols
      <4>1. key.table \in A
        OBVIOUS
      <4> HIDE DEF key, x, y, z, n, C
      <4> QED
        BY <4>1, BuiltTable
    <3> QED
      BY <1>6, <3>1
  <2> HIDE DEF z, x, n, key
  <2> QED
    BY <1>4, <1>6, <2>1
<1>9. c \in DOMAIN x.cols /\ c \notin DOMAIN x.fks /\ Refers(d, key)
  <2>1. Refers(d, key)
    BY <1>5
  <2> QED
    BY <1>4, <1>6, <2>1
<1>10. z = IF key.table = t THEN x ELSE d.tables[key.table]
  OBVIOUS
<1>11. d = Alter(d, t, x)
  <2>1. d.tables = [u \in A |-> d.tables[u]] /\ d.tables[t] = x /\ d = [ext |-> d.ext, tables |-> d.tables]
    BY <1>1 DEF Shape, IsMap
  <2> HIDE DEF d, x
  <2> QED
    BY <1>1, <2>1 DEF Alter
<1>12. Built(s, A, l) = Alter(d, t, y)
  <2>1. Alter(d, t, y) = [ext |-> s.ext, tables |-> [u \in A |-> IF u = t THEN y ELSE Bare(s.tables[u], k[u])]]
    <3>1. d.ext = s.ext /\ DOMAIN d.tables = A /\ \A u \in A : d.tables[u] = Bare(s.tables[u], k[u])
      BY DEF Built
    <3> HIDE DEF d, y
    <3> QED
      BY <3>1 DEF Alter
  <2>2. \A u \in A : Bare(s.tables[u], l[u]) = IF u = t THEN y ELSE Bare(s.tables[u], k[u])
    OBVIOUS
  <2> HIDE DEF y
  <2> QED
    BY <2>1, <2>2 DEF Built
<1>13. y = WithFks(x, Put(x.fks, c, key))
  BY <1>6
<1> HIDE DEF d, x, y, z, C
<1>14. Moves(K, Alter(d, t, x), Op("add_foreign_key", t, c, key), Alter(d, t, y))
  <2> HIDE DEF key, n
  <2> QED
    BY <1>7, <1>8, <1>9, <1>10, <1>13, AddKeyMoves
<1> QED
  BY <1>2, <1>11, <1>12, <1>14 DEF d

\* All the keys of a table that it has not yet.
LEMMA KeysBuilt ==
    ASSUME NEW K, NEW part \in {"keys", "all"}, NEW s, WellFormed(s), NEW A, NEW k, Buildable(s, A, k), NEW t \in A,
           \A c \in DOMAIN s.tables[t].fks : s.tables[t].fks[c].table \in A,
           NEW p, k[t] = DOMAIN s.tables[t].fks \ Differ(s.tables[t].fks, p),
           NEW l, l = [u \in A |-> IF u = t THEN DOMAIN s.tables[t].fks ELSE k[u]]
    PROVE  /\ Buildable(s, A, l)
           /\ Leads(K, part, Built(s, A, k), ForeignKeyAdds(t, p, s.tables[t].fks), Built(s, A, l))
<1> DEFINE n == s.tables[t]
           S == Differ(n.fks, p)
           At(D) == [u \in A |-> IF u = t THEN k[t] \cup D ELSE k[u]]
           m == [D \in SUBSET S |-> Built(s, A, At(D))]
           op == [c \in S |-> Op("add_foreign_key", t, c, n.fks[c])]
           f == [c \in S |-> <<Op("add_foreign_key", t, c, n.fks[c])>>]
<1>1. t \in DOMAIN s.tables /\ k[t] \subseteq DOMAIN n.fks /\ \A c \in DOMAIN n.fks : n.fks[c].table \in A
  BY DEF Buildable
<1>2. S \subseteq DOMAIN n.fks /\ AreNames(DOMAIN n.fks)
  BY <1>1, TableNames DEF Differ, Gone, Both
<1>3. AreNames(S)
  BY <1>2, FewerNames
<1>4. ASSUME NEW D \in SUBSET S PROVE Buildable(s, A, At(D))
  <2>1. k[t] \cup D \subseteq DOMAIN n.fks
    BY <1>1, <1>2
  <2> HIDE DEF n, S
  <2> QED
    BY <1>1, <2>1 DEF Buildable, n
<1>5. ASSUME NEW D \in SUBSET S, NEW c \in S \ D
      PROVE  Follows(K, part, m[D], op[c], m[D \cup {c}])
  <2> DEFINE i == At(D)
             j == At(D \cup {c})
  <2>1. i[t] = k[t] \cup D /\ j = [u \in A |-> IF u = t THEN i[t] \cup {c} ELSE i[u]]
    OBVIOUS
  <2>2. c \notin i[t]
    BY <2>1
  <2>3. Buildable(s, A, i)
    BY <1>4
  <2>4. D \cup {c} \in SUBSET S
    OBVIOUS
  <2>5. m[D] = Built(s, A, i) /\ m[D \cup {c}] = Built(s, A, j)
    BY <2>4
  <2>6. c \in DOMAIN s.tables[t].fks /\ s.tables[t].fks[c].table \in A
    BY <1>1, <1>2
  <2> HIDE DEF i, j
  <2>7. Moves(K, Built(s, A, i), Op("add_foreign_key", t, c, s.tables[t].fks[c]), Built(s, A, j))
    BY <2>1, <2>2, <2>3, <2>6, KeyBuilt
  <2>8. op[c] = Op("add_foreign_key", t, c, s.tables[t].fks[c]) /\ Taken(part, op[c])
    BY DEF Taken, Op
  <2> HIDE DEF m, op
  <2> QED
    BY <2>5, <2>7, <2>8 DEF Follows
<1>6. Leads(K, part, m[{}], Loop(S, f), m[S])
  <2>1. \A c \in S : f[c] = <<op[c]>>
    OBVIOUS
  <2> HIDE DEF m, op, f, S
  <2> QED
    BY <1>3, <1>5, <2>1, LoopMoves
<1>7. At(S) = l /\ Buildable(s, A, l)
  <2>1. k[t] \cup S = DOMAIN n.fks
    BY <1>2
  <2>2. At(S) = l
    BY <2>1
  <2> QED
    BY <1>4, <2>2
<1>8. Built(s, A, At({})) = Built(s, A, k)
  BY DEF Built
<1>9. m[{}] = Built(s, A, k) /\ m[S] = Built(s, A, l)
  <2>1. m[{}] = Built(s, A, At({})) /\ m[S] = Built(s, A, At(S))
    OBVIOUS
  <2> HIDE DEF m, At
  <2> QED
    BY <1>7, <1>8, <2>1
<1>10. ForeignKeyAdds(t, p, n.fks) = Loop(S, f)
  <2>1. S = Differ(n.fks, p)
    OBVIOUS
  <2> HIDE DEF S
  <2> QED
    BY <1>3, <2>1, KeyAddsAre
<1> HIDE DEF m, f, S
<1> QED
  BY <1>6, <1>7, <1>9, <1>10

\* A table that is being created: its indexes I, no keys, a hypertable or not.
Grown(n, I, h) == Tab(n, n.cols, I, Nothing, h)

LEMMA CreateIs ==
    ASSUME NEW t, NEW n, AreNames(DOMAIN n.idx), AreNames(DOMAIN n.fks)
    PROVE  createTableOps(t, n)
               = <<Op("create_table", t, 0, n)>> \o IndexAdds(t, Nothing, n.idx)
                   \o Loop(DOMAIN n.fks, [c \in DOMAIN n.fks |->
                              <<Op("add_foreign_key", t, c, [n.fks[c] EXCEPT !.onDelete = None])>>])
                   \o When(n.hyper # None, Op("create_hypertable", t, 0, n.hyper))
<1> DEFINE I == DOMAIN n.idx
           F == DOMAIN n.fks
<1>1. Differ(n.idx, Nothing) = I
  BY DEF Differ, Gone, Both, Nothing
<1>2. Each(I, LAMBDA x : <<Op("add_index", t, x, n.idx[x])>>) = IndexAdds(t, Nothing, n.idx)
  BY <1>1 DEF IndexAdds
<1>3. Each(F, LAMBDA c : <<Op("add_foreign_key", t, c, [n.fks[c] EXCEPT !.onDelete = None])>>)
          = Loop(F, [c \in F |-> <<Op("add_foreign_key", t, c, [n.fks[c] EXCEPT !.onDelete = None])>>])
  <2> HIDE DEF F
  <2> QED
    BY SortedIn DEF Each, Loop, F
<1> QED
  BY <1>2, <1>3 DEF createTableOps

LEMMA GrownFits ==
    ASSUME NEW s, WellFormed(s), NEW e, Shape(e), NEW t \in DOMAIN s.tables, t \in DOMAIN e.tables,
           NEW n, n = s.tables[t], e.tables[t].pk = n.pk,
           \A u \in DOMAIN e.tables \ {t} : DOMAIN n.idx \cap DOMAIN e.tables[u].idx = {},
           NEW I, IsMap(I), DOMAIN I \subseteq DOMAIN n.idx, \A i \in DOMAIN I : I[i] = n.idx[i], NEW h
    PROVE  Fits(e, t, Grown(n, I, h))
<1>1. IsTable(n)
  BY DEF WellFormed, Shape
<1>2. IsTable(Grown(n, I, h))
  BY <1>1 DEF IsTable, Grown, Tab, IsMap, Nothing
<1>3. /\ Grown(n, I, h).pk = n.pk /\ DOMAIN Grown(n, I, h).fks = {} /\ Grown(n, I, h).idx = I
  BY DEF Grown, Tab, Nothing
<1> QED
  BY <1>2, <1>3 DEF Fits

LEMMA EmptiedIs ==
    ASSUME NEW n, IsTable(n)
    PROVE  [n EXCEPT !.idx = Nothing, !.fks = Nothing, !.hyper = None] = Grown(n, Nothing, None)
<1> DEFINE Rec(I, F, h) == [cols |-> n.cols, pk |-> n.pk, idx |-> I, fks |-> F, hyper |-> h, join |-> n.join]
           a == [n EXCEPT !.idx = Nothing]
           b == [a EXCEPT !.fks = Nothing]
           c == [b EXCEPT !.hyper = None]
<1>1. n = Rec(n.idx, n.fks, n.hyper)
  BY DEF IsTable
<1>2. a = Rec(Nothing, n.fks, n.hyper)
  BY <1>1
<1> HIDE DEF a
<1>3. b = Rec(Nothing, Nothing, n.hyper)
  BY <1>2
<1> HIDE DEF b
<1>4. c = Rec(Nothing, Nothing, None)
  BY <1>3
<1>5. [n EXCEPT !.idx = Nothing, !.fks = Nothing, !.hyper = None] = c
  BY DEF a, b
<1> QED
  BY <1>4, <1>5 DEF Grown, Tab

\* The first half of createTableOps.
LEMMA TableCreated ==
    ASSUME NEW K, NEW s, WellFormed(s), NEW A, NEW k, Buildable(s, A, k),
           NEW t \in DOMAIN s.tables, t \notin A,
           NEW B, B = A \cup {t}, NEW l, l = [u \in B |-> IF u = t THEN {} ELSE k[u]]
    PROVE  /\ Buildable(s, B, l)
           /\ Leads(K, "tables", Built(s, A, k), createTableOps(t, s.tables[t]), Built(s, B, l))
<1> DEFINE n == s.tables[t]
           d == Built(s, A, k)
           e == Built(s, B, l)
           S == DOMAIN n.idx
           g0 == Grown(n, Nothing, None)
           g1 == Grown(n, n.idx, None)
           g2 == Grown(n, n.idx, n.hyper)
<1>1. Buildable(s, B, l)
  BY DEF Buildable
<1>2. /\ Shape(d) /\ d.ext = s.ext /\ DOMAIN d.tables = A
      /\ \A u \in A : d.tables[u] = Bare(s.tables[u], k[u])
  BY BuiltIs, ShapeOf
<1>3. /\ Shape(e) /\ e.ext = s.ext /\ DOMAIN e.tables = B
      /\ \A u \in B : e.tables[u] = Bare(s.tables[u], l[u])
  <2>1. Shape(e)
    BY <1>1, BuiltIs, ShapeOf
  <2>2. e.ext = s.ext /\ DOMAIN e.tables = B /\ \A u \in B : e.tables[u] = Bare(s.tables[u], l[u])
    BY DEF Built
  <2> QED
    BY <2>1, <2>2
<1>4. IsTable(n) /\ AreNames(S) /\ AreNames(DOMAIN n.fks)
  BY TableNames DEF WellFormed, Shape
<1>5. \A u \in DOMAIN e.tables \ {t} : DOMAIN n.idx \cap DOMAIN e.tables[u].idx = {}
  <2>1. e.tables[t].idx = n.idx
    BY BuiltTable
  <2>2. t \in DOMAIN e.tables
    BY <1>3
  <2> HIDE DEF e, n
  <2> QED
    BY <1>3, <2>1, <2>2 DEF Shape
<1>6. e.tables[t].pk = n.pk /\ t \in B
  BY BuiltTable
<1>7. ASSUME NEW I, IsMap(I), DOMAIN I \subseteq DOMAIN n.idx, \A i \in DOMAIN I : I[i] = n.idx[i], NEW h
      PROVE  Fits(e, t, Grown(n, I, h))
  <2>1. n = s.tables[t]
    OBVIOUS
  <2> HIDE DEF e, n
  <2> QED
    BY <1>3, <1>5, <1>6, <1>7, <2>1, GrownFits
<1>8. Fits(e, t, g0) /\ Fits(e, t, g1) /\ Fits(e, t, g2)
  <2>1. IsMap(Nothing) /\ DOMAIN Nothing = {} /\ IsMap(n.idx)
    BY <1>4 DEF IsMap, Nothing, IsTable
  <2>2. Fits(e, t, g0)
    BY <1>7, <2>1
  <2>3. Fits(e, t, g1) /\ Fits(e, t, g2)
    BY <1>7, <2>1
  <2> QED
    BY <2>2, <2>3
<1>9. e = Alter(e, t, g2)
  <2>1. e.tables[t] = g2
    <3>1. e.tables[t] = Bare(n, {})
      BY <1>3
    <3>2. Bare(n, {}) = g2
      BY DEF Bare, WithFks, Grown, Tab, Nothing
    <3> QED
      BY <3>1, <3>2
  <2>2. e = [ext |-> e.ext, tables |-> e.tables] /\ e.tables = [u \in B |-> e.tables[u]]
    BY <1>3 DEF Shape, IsMap
  <2> HIDE DEF e, g2
  <2> QED
    BY <1>3, <2>1, <2>2 DEF Alter
<1>10. Moves(K, d, Op("create_table", t, 0, n), Alter(e, t, g0))
  <2> DEFINE op == Op("create_table", t, 0, n)
  <2>0. op.kind = "create_table" /\ op.table = t /\ op.def = n
    BY DEF Op
  <2>1. \A c \in DOMAIN n.cols : Usable(s, n.cols[c].type)
    BY DEF WellFormed
  <2>2. Accepts(d, op)
    <3> HIDE DEF op, n, d
    <3> QED
      BY <1>2, <2>0, <2>1 DEF Accepts, Usable
  <2>3. [n EXCEPT !.idx = Nothing, !.fks = Nothing, !.hyper = None] = g0
    BY <1>4, EmptiedIs
  <2>4. Effect(d, op) = [d EXCEPT !.tables = Put(d.tables, t, g0)]
    <3> HIDE DEF op, n, d, g0
    <3> QED
      BY <2>0, <2>3 DEF Effect
  <2>5. [d EXCEPT !.tables = Put(d.tables, t, g0)] = [ext |-> d.ext, tables |-> Put(d.tables, t, g0)]
    <3> HIDE DEF d, g0
    <3> QED
      BY <1>2 DEF Shape
  <2>6. Alter(e, t, g0) = [ext |-> s.ext, tables |-> [u \in B |-> IF u = t THEN g0 ELSE e.tables[u]]]
    <3> HIDE DEF e, g0
    <3> QED
      BY <1>3 DEF Alter
  <2>7. Put(d.tables, t, g0) = [u \in B |-> IF u = t THEN g0 ELSE d.tables[u]]
    <3> HIDE DEF d, g0
    <3> QED
      BY <1>2 DEF Put
  <2>8. \A u \in B : u # t => e.tables[u] = d.tables[u]
    <3>1. \A u \in B : u # t => u \in A /\ l[u] = k[u]
      OBVIOUS
    <3> HIDE DEF e, d
    <3> QED
      BY <1>2, <1>3, <3>1
  <2>9. Put(d.tables, t, g0) = [u \in B |-> IF u = t THEN g0 ELSE e.tables[u]]
    <3> HIDE DEF e, d, g0
    <3> QED
      BY <2>7, <2>8
  <2>10. Effect(d, op) = Alter(e, t, g0)
    BY <1>2, <2>4, <2>5, <2>6, <2>9
  <2>11. Shape(Alter(e, t, g0)) /\ DOMAIN Alter(e, t, g0).tables = B
         /\ \A u \in B \ {t} : Alter(e, t, g0).tables[u] = e.tables[u]
    <3>1. Shape(Alter(e, t, g0))
      <4> HIDE DEF e, g0
      <4> QED
        BY <1>8, AlterIs
    <3>2. DOMAIN Alter(e, t, g0).tables = B /\ \A u \in B \ {t} : Alter(e, t, g0).tables[u] = e.tables[u]
      <4> HIDE DEF e, g0
      <4> QED
        BY <1>3 DEF Alter
    <3> QED
      BY <3>1, <3>2
  <2>12. Keeps(K, d, op, Alter(e, t, g0))
    <3> DEFINE b == Alter(e, t, g0)
    <3>1. \A u \in A : u \in DOMAIN b.tables /\ b.tables[u] = d.tables[u]
      <4> HIDE DEF b, e, d
      <4> QED
        BY <2>8, <2>11 DEF b
    <3> HIDE DEF b, d, op
    <3>2. ASSUME NEW j, j \in Ordinary(d) PROVE j \in Ordinary(b)
      BY <1>2, <3>1, <3>2, OrdinaryIs
    <3>3. \A j : ~Drops(op, j)
      BY <2>0 DEF Drops
    <3>4. Keeps(K, d, op, b)
      BY <3>2, <3>3 DEF Keeps
    <3> QED
      BY <3>4 DEF b
  <2> HIDE DEF d, e, op, g0
  <2>13. Moves(K, d, op, Alter(e, t, g0))
    BY <2>2, <2>10, <2>11, <2>12 DEF Moves
  <2> QED
    BY <2>13 DEF op
<1>11. Leads(K, "tables", Alter(e, t, g0), IndexAdds(t, Nothing, n.idx), Alter(e, t, g1))
  <2> DEFINE Some(D) == [i \in D |-> n.idx[i]]
             m == [D \in SUBSET S |-> Alter(e, t, Grown(n, Some(D), None))]
             op == [i \in S |-> Op("add_index", t, i, n.idx[i])]
             f == [i \in S |-> <<Op("add_index", t, i, n.idx[i])>>]
  <2>1. IndexAdds(t, Nothing, n.idx) = Loop(S, f)
    <3>1. S = Differ(n.idx, Nothing)
      BY DEF Differ, Gone, Both, Nothing
    <3> HIDE DEF S
    <3> QED
      BY <1>4, <3>1, IndexAddsAre
  <2>2. ASSUME NEW D \in SUBSET S, NEW i \in S \ D
        PROVE  Follows(K, "tables", m[D], op[i], m[D \cup {i}])
    <3> DEFINE x == Grown(n, Some(D), None)
               y == Grown(n, Some(D \cup {i}), None)
    <3>1. Fits(e, t, x) /\ Fits(e, t, y)
      <4>1. \A H \in SUBSET S : IsMap(Some(H)) /\ DOMAIN Some(H) = H /\ \A j \in H : Some(H)[j] = n.idx[j]
        BY DEF IsMap
      <4>2. ASSUME NEW H \in SUBSET S PROVE Fits(e, t, Grown(n, Some(H), None))
        <5> DEFINE J == Some(H)
        <5>1. IsMap(J) /\ DOMAIN J \subseteq DOMAIN n.idx /\ \A j \in DOMAIN J : J[j] = n.idx[j]
          BY <4>1
        <5> HIDE DEF J, e, n
        <5>2. Fits(e, t, Grown(n, J, None))
          BY <1>7, <5>1
        <5> QED
          BY <5>2 DEF J
      <4>3. D \in SUBSET S /\ D \cup {i} \in SUBSET S
        OBVIOUS
      <4> HIDE DEF e, S, Some
      <4> QED
        BY <4>2, <4>3
    <3>2. i \notin DOMAIN x.idx /\ y = WithIdx(x, Put(x.idx, i, n.idx[i])) /\ x.cols = n.cols
      <4>1. x.idx = Some(D) /\ x.cols = n.cols
        BY DEF Grown, Tab
      <4>2. Put(Some(D), i, n.idx[i]) = Some(D \cup {i})
        BY DEF Put
      <4>3. y = WithIdx(x, Some(D \cup {i}))
        BY DEF Grown, Tab, WithIdx
      <4> QED
        BY <4>1, <4>2, <4>3
    <3>3. Unused(e, t, i)
      <4> HIDE DEF e, n
      <4> QED
        BY <1>5 DEF Unused
    <3>4. ToSet(n.idx[i].cols) \subseteq DOMAIN n.cols
      BY <1>4 DEF IsTable
    <3> HIDE DEF x, y, e, n
    <3>5. Moves(K, Alter(e, t, x), Op("add_index", t, i, n.idx[i]), Alter(e, t, y))
      BY <3>1, <3>2, <3>3, <3>4, AddIndexMoves
    <3>6. m[D] = Alter(e, t, x) /\ m[D \cup {i}] = Alter(e, t, y)
          /\ op[i] = Op("add_index", t, i, n.idx[i])
      <4>1. D \cup {i} \in SUBSET S
        OBVIOUS
      <4> HIDE DEF S
      <4> QED
        BY <4>1 DEF x, y
    <3>7. Taken("tables", Op("add_index", t, i, n.idx[i]))
      BY DEF Taken, Op
    <3> HIDE DEF m, op
    <3> QED
      BY <3>5, <3>6, <3>7 DEF Follows
  <2>3. Leads(K, "tables", m[{}], Loop(S, f), m[S])
    <3>1. \A i \in S : f[i] = <<op[i]>>
      OBVIOUS
    <3> HIDE DEF m, op, f, S
    <3> QED
      BY <1>4, <2>2, <3>1, LoopMoves
  <2>4. m[{}] = Alter(e, t, g0) /\ m[S] = Alter(e, t, g1)
    <3>1. Some({}) = Nothing /\ Some(S) = n.idx
      BY <1>4 DEF Nothing, IsTable, IsMap
    <3>2. m[{}] = Alter(e, t, Grown(n, Some({}), None)) /\ m[S] = Alter(e, t, Grown(n, Some(S), None))
      OBVIOUS
    <3> HIDE DEF m, Some
    <3> QED
      BY <3>1, <3>2
  <2> HIDE DEF m, f, e, g0, g1, S
  <2> QED
    BY <2>1, <2>3, <2>4
<1>12. Leads(K, "tables", Alter(e, t, g1), When(n.hyper # None, Op("create_hypertable", t, 0, n.hyper)),
             Alter(e, t, g2))
  <2>1. ASSUME n.hyper # None
        PROVE  Moves(K, Alter(e, t, g1), Op("create_hypertable", t, 0, n.hyper), Alter(e, t, g2))
    <3>1. /\ Timescale \in s.ext /\ (n.hyper \in n.pk \/ n.pk = {})
          /\ \A c \in DOMAIN n.cols : n.cols[c].unique => c = n.hyper
      BY <2>1 DEF WellFormed
    <3>2. g1.pk = n.pk /\ g1.cols = n.cols /\ g2 = WithHyper(g1, n.hyper)
      BY DEF Grown, Tab, WithHyper
    <3> DEFINE h == n.hyper
               kind == "create_hypertable"
    <3>3. /\ kind = "create_hypertable" /\ Timescale \in e.ext /\ (h \in g1.pk \/ g1.pk = {})
          /\ \A c \in DOMAIN g1.cols : g1.cols[c].unique => c = h
          /\ g2 = WithHyper(g1, h)
      <4> HIDE DEF e, g1, g2, n
      <4> QED
        BY <1>3, <3>1, <3>2
    <3> HIDE DEF e, g1, g2, n, h, kind
    <3>4. Moves(K, Alter(e, t, g1), Op(kind, t, 0, h), Alter(e, t, g2))
      BY <1>8, <3>3, HypertableMoves
    <3> QED
      BY <3>4 DEF h, kind
  <2>2. Taken("tables", Op("create_hypertable", t, 0, n.hyper))
    BY DEF Taken, Op
  <2>3. n.hyper = None => g2 = g1
    OBVIOUS
  <2> HIDE DEF e, g1, g2, n
  <2>4. n.hyper # None =>
            Follows(K, "tables", Alter(e, t, g1), Op("create_hypertable", t, 0, n.hyper), Alter(e, t, g2))
    BY <2>1, <2>2 DEF Follows
  <2> QED
    BY <2>3, <2>4, LeadsWhen
<1>13. Leads(K, "tables", d, <<Op("create_table", t, 0, n)>>, Alter(e, t, g0))
  <2>1. Taken("tables", Op("create_table", t, 0, n))
    BY DEF Taken, Op
  <2> HIDE DEF d, e, g0, n
  <2> QED
    BY <1>10, <2>1, LeadsOne DEF Follows
<1> DEFINE F == DOMAIN n.fks
           kop == [c \in F |-> Op("add_foreign_key", t, c, [n.fks[c] EXCEPT !.onDelete = None])]
           kf == [c \in F |-> <<Op("add_foreign_key", t, c, [n.fks[c] EXCEPT !.onDelete = None])>>]
<1>14. Leads(K, "tables", Alter(e, t, g1), Loop(F, kf), Alter(e, t, g1))
  <2>1. \A c \in F : ~Taken("tables", kop[c]) /\ kf[c] = <<kop[c]>>
    BY DEF Taken, Op
  <2> HIDE DEF e, g1, F, kop, kf
  <2> QED
    BY <1>4, <2>1, SinglesSkip DEF F
<1> DEFINE o1 == <<Op("create_table", t, 0, n)>>
           o2 == IndexAdds(t, Nothing, n.idx)
           o3 == Loop(F, kf)
           o4 == When(n.hyper # None, Op("create_hypertable", t, 0, n.hyper))
           d0 == Alter(e, t, g0)
           d1 == Alter(e, t, g1)
<1>15. createTableOps(t, n) = o1 \o o2 \o o3 \o o4
  <2> HIDE DEF n
  <2> QED
    BY <1>4, CreateIs
<1>16. /\ Leads(K, "tables", d, o1, d0) /\ Leads(K, "tables", d0, o2, d1) /\ Leads(K, "tables", d1, o3, d1)
       /\ Leads(K, "tables", d1, o4, e)
  BY <1>9, <1>11, <1>12, <1>13, <1>14
<1> HIDE DEF o1, o2, o3, o4, d0, d1, d, e
<1>17. Leads(K, "tables", d, o1 \o o2 \o o3, d1)
  BY <1>16, LeadsOn
<1>18. Leads(K, "tables", d, createTableOps(t, n), e)
  BY <1>15, <1>16, <1>17, LeadsOn
<1> QED
  BY <1>1, <1>18 DEF d, e

\* The keys of a new table, which the diff writes without actions.
LEMMA CreatedKeys ==
    ASSUME NEW K, NEW d, NEW e, NEW t, NEW n, AreNames(DOMAIN n.idx), AreNames(DOMAIN n.fks),
           \A c \in DOMAIN n.fks : n.fks[c] = [table |-> n.fks[c].table, column |-> n.fks[c].column, onDelete |-> None],
           Leads(K, "keys", d, ForeignKeyAdds(t, Nothing, n.fks), e)
    PROVE  Leads(K, "keys", d, createTableOps(t, n), e)
<1> DEFINE F == DOMAIN n.fks
           kf == [c \in F |-> <<Op("add_foreign_key", t, c, [n.fks[c] EXCEPT !.onDelete = None])>>]
           of == [c \in F |-> <<Op("add_foreign_key", t, c, n.fks[c])>>]
           o1 == <<Op("create_table", t, 0, n)>>
           o2 == IndexAdds(t, Nothing, n.idx)
           o3 == Loop(F, kf)
           o4 == When(n.hyper # None, Op("create_hypertable", t, 0, n.hyper))
<1>1. createTableOps(t, n) = o1 \o o2 \o o3 \o o4
  BY CreateIs
<1>2. AreNames(DOMAIN Nothing)
  <2>1. DOMAIN Nothing = {}
    BY DEF Nothing
  <2> QED
    BY <2>1, FewerNames
<1>3. Leads(K, "keys", d, o1, d) /\ Leads(K, "keys", d, o2, d)
  <2>1. Leads(K, "keys", d, o2, d)
    BY <1>2, IndexesSkip
  <2>2. ~Taken("keys", Op("create_table", t, 0, n))
    BY DEF Taken, Op
  <2> HIDE DEF o2
  <2> QED
    BY <2>1, <2>2, OneSkips
<1>4. Leads(K, "keys", e, o4, e)
  <2>1. ~Taken("keys", Op("create_hypertable", t, 0, n.hyper))
    BY DEF Taken, Op
  <2> QED
    BY <2>1, WhenSkips
<1>5. Leads(K, "keys", d, o3, e)
  <2>1. \A c \in F : [n.fks[c] EXCEPT !.onDelete = None] = n.fks[c]
    <3> SUFFICES ASSUME NEW c \in F PROVE [n.fks[c] EXCEPT !.onDelete = None] = n.fks[c]
      OBVIOUS
    <3> DEFINE v == n.fks[c]
    <3>1. v = [table |-> v.table, column |-> v.column, onDelete |-> None]
      OBVIOUS
    <3> HIDE DEF v
    <3>2. [v EXCEPT !.onDelete = None] = v
      BY <3>1
    <3> QED
      BY <3>2 DEF v
  <2>2. kf = of
    BY <2>1
  <2>3. Differ(n.fks, Nothing) = F
    BY DEF Differ, Gone, Both, Nothing
  <2>4. ForeignKeyAdds(t, Nothing, n.fks) = Loop(F, of)
    <3>1. F = Differ(n.fks, Nothing)
      BY <2>3
    <3> HIDE DEF F
    <3> QED
      BY <3>1, KeyAddsAre DEF F
  <2> HIDE DEF kf, of, F
  <2> QED
    BY <2>2, <2>4
<1> HIDE DEF o1, o2, o3, o4
<1>6. Leads(K, "keys", d, o1 \o o2 \o o3, e)
  BY <1>3, <1>5, LeadsOn
<1>7. Leads(K, "keys", d, o1 \o o2 \o o3 \o o4, e)
  BY <1>4, <1>6, LeadsOn
<1> QED
  BY <1>1, <1>7

\* A table goes, and with it the keys that refer to it.
LEMMA WithoutTableIs ==
    ASSUME NEW s, Shape(s), NEW A, NEW k, Buildable(s, A, k), NEW t \in A,
           NEW l, l = [u \in A \ {t} |-> {c \in k[u] : s.tables[u].fks[c].table # t}]
    PROVE  WithoutTable(Built(s, A, k), t) = Built(s, A \ {t}, l)
<1> DEFINE d == Built(s, A, k)
           gone == {j \in Keys(d) : Key(d, j).table = t}
           T == WithoutKeys(d.tables, gone)
<1>1. /\ Shape(d) /\ d.ext = s.ext /\ DOMAIN d.tables = A
      /\ \A u \in A : d.tables[u] = Bare(s.tables[u], k[u])
  BY BuiltIs
<1> DEFINE N(u) == [d.tables[u] EXCEPT !.fks = Without(d.tables[u].fks, {c \in DOMAIN d.tables[u].fks : <<u, c>> \in gone})]
<1>2. T = [u \in A |-> N(u)]
  <2>1. T = [u \in DOMAIN d.tables |-> N(u)]
    BY DEF WithoutKeys
  <2> HIDE DEF T, N, d
  <2> QED
    BY <1>1, <2>1
<1>3. ASSUME NEW u \in A PROVE N(u) = Bare(s.tables[u], {c \in k[u] : s.tables[u].fks[c].table # t})
  <2> DEFINE z == d.tables[u]
             n == s.tables[u]
             G == {c \in DOMAIN z.fks : <<u, c>> \in gone}
             L == {c \in k[u] : n.fks[c].table # t}
  <2>1. z = Bare(n, k[u]) /\ IsTable(z)
    <3>1. z = Bare(n, k[u])
      BY <1>1
    <3> HIDE DEF d, n
    <3> QED
      BY <1>1, <3>1 DEF Shape
  <2>2. z.fks = [c \in k[u] |-> n.fks[c]] /\ z = WithFks(n, z.fks)
    <3> HIDE DEF z, n
    <3> QED
      BY <2>1 DEF Bare, WithFks
  <2>3. G = {c \in k[u] : n.fks[c].table = t}
    <3>1. ASSUME NEW c \in DOMAIN z.fks PROVE <<u, c>> \in gone <=> z.fks[c].table = t
      <4> DEFINE j == <<u, c>>
      <4>1. j[1] = u /\ j[2] = c
        OBVIOUS
      <4>2. u \in DOMAIN d.tables
        BY <1>1
      <4> HIDE DEF d
      <4>3. j \in Keys(d)
        BY <4>1, <4>2, KeysAre
      <4>4. Key(d, j) = z.fks[c]
        BY <4>1 DEF Key
      <4> QED
        BY <4>3, <4>4
    <3>2. DOMAIN z.fks = k[u] /\ \A c \in k[u] : z.fks[c] = n.fks[c]
      BY <2>2
    <3> HIDE DEF z, gone, n
    <3> QED
      BY <3>1, <3>2
  <2>4. N(u) = WithFks(z, Off(z.fks, G))
    <3>1. N(u) = [z EXCEPT !.fks = Without(z.fks, G)]
      OBVIOUS
    <3> HIDE DEF z, G, N
    <3> QED
      BY <2>1, <3>1, TableIs, WithoutIs
  <2>5. Off(z.fks, G) = [c \in L |-> n.fks[c]]
    <3>1. DOMAIN z.fks \ G = L
      <4>1. DOMAIN z.fks = k[u]
        BY <2>2
      <4> HIDE DEF z, G, n
      <4> QED
        BY <2>3, <4>1 DEF L
    <3>2. \A c \in L : z.fks[c] = n.fks[c]
      BY <2>2
    <3> HIDE DEF z, G, L, n
    <3> QED
      BY <3>1, <3>2 DEF Off
  <2>6. WithFks(z, Off(z.fks, G)) = Bare(n, L)
    <3> HIDE DEF z, G, L, n
    <3> QED
      BY <2>1, <2>5 DEF Bare, WithFks
  <2> HIDE DEF N, z, G
  <2> QED
    BY <2>4, <2>6
<1>4. Without(T, {t}) = [u \in A \ {t} |-> Bare(s.tables[u], l[u])]
  <2>1. Without(T, {t}) = [u \in A \ {t} |-> N(u)]
    <3> HIDE DEF N, T
    <3> QED
      BY <1>2, WithoutIs DEF Off
  <2>2. \A u \in A \ {t} : N(u) = Bare(s.tables[u], l[u])
    <3> HIDE DEF N
    <3> QED
      BY <1>3
  <2> HIDE DEF N, T
  <2> QED
    BY <2>1, <2>2
<1>5. WithoutTable(d, t) = [d EXCEPT !.tables = Without(T, {t})]
  BY DEF WithoutTable
<1> HIDE DEF T
<1>6. [d EXCEPT !.tables = Without(T, {t})] = [ext |-> d.ext, tables |-> Without(T, {t})]
  <2>1. d = [ext |-> d.ext, tables |-> d.tables]
    BY <1>1 DEF Shape
  <2> HIDE DEF d
  <2> QED
    BY <2>1
<1>7. WithoutTable(d, t) = [ext |-> s.ext, tables |-> [u \in A \ {t} |-> Bare(s.tables[u], l[u])]]
  BY <1>1, <1>4, <1>5, <1>6
<1> QED
  BY <1>7 DEF Built

\* A table that holds none of the columns K is dropped.
LEMMA DropTableMoves ==
    ASSUME NEW K, NEW s, Shape(s), NEW A, NEW k, Buildable(s, A, k), NEW t \in A,
           \A c : <<t, c>> \notin K,
           NEW l, l = [u \in A \ {t} |-> {c \in k[u] : s.tables[u].fks[c].table # t}]
    PROVE  /\ Buildable(s, A \ {t}, l)
           /\ Moves(K, Built(s, A, k), Op("drop_table", t, 0, None), Built(s, A \ {t}, l))
<1> DEFINE B == A \ {t}
           d == Built(s, A, k)
           e == Built(s, B, l)
           op == Op("drop_table", t, 0, None)
<1>0. op.kind = "drop_table" /\ op.table = t
  BY DEF Op
<1>1. Buildable(s, B, l)
  BY DEF Buildable
<1>2. Shape(d) /\ DOMAIN d.tables = A
  BY BuiltIs
<1>3. Shape(e) /\ DOMAIN e.tables = B
  <2> HIDE DEF B
  <2> QED
    BY <1>1, BuiltIs
<1>4. e = Effect(d, op)
  <2>1. WithoutTable(d, t) = e
    BY WithoutTableIs
  <2> HIDE DEF d, e, op
  <2> QED
    BY <1>0, <1>2, <2>1 DEF Effect
<1>5. Accepts(d, op)
  BY <1>0 DEF Accepts
<1>6. Keeps(K, d, op, e)
  <2>1. ASSUME NEW u \in B PROVE e.tables[u].cols = d.tables[u].cols
    <3>1. d.tables[u].cols = s.tables[u].cols
      BY BuiltTable
    <3>2. e.tables[u].cols = s.tables[u].cols
      <4> HIDE DEF B
      <4> QED
        BY BuiltTable
    <3> QED
      BY <3>1, <3>2
  <2> HIDE DEF d, e, op
  <2>2. ASSUME NEW j \in K, j \in Ordinary(d) PROVE j \in Ordinary(e) /\ ~Drops(op, j)
    <3>1. j = <<j[1], j[2]>> /\ j[1] \in A
          /\ j[2] \in DOMAIN d.tables[j[1]].cols /\ d.tables[j[1]].cols[j[2]].reads = None
      BY <1>2, <2>2, OrdinaryIs
    <3>2. j[1] # t
      BY <3>1
    <3>3. j[1] \in DOMAIN e.tables /\ e.tables[j[1]].cols = d.tables[j[1]].cols
      BY <1>3, <2>1, <3>1, <3>2
    <3>4. j \in Ordinary(e)
      BY <3>1, <3>3, OrdinaryIs
    <3> QED
      BY <1>0, <3>2, <3>4 DEF Drops
  <2> QED
    BY <2>2 DEF Keeps
<1> HIDE DEF d, e, op
<1>7. Moves(K, d, op, e)
  BY <1>3, <1>4, <1>5, <1>6 DEF Moves
<1> QED
  BY <1>1, <1>7 DEF d, e, op

\* The extensions change before the tables do.
WithExt(d, E) == [ext |-> E, tables |-> d.tables]

LEMMA ExtensionMoves ==
    ASSUME NEW K, NEW d, Shape(d), NEW E, NEW G, NEW op, op.kind \in {"create_extension", "drop_extension"},
           op.kind = "create_extension" => G = E \cup {op.name},
           op.kind = "drop_extension" =>
               /\ G = E \ {op.name}
               /\ \A u \in DOMAIN d.tables : \A c \in DOMAIN d.tables[u].cols :
                      ExtensionOf[d.tables[u].cols[c].type] # op.name
    PROVE  Moves(K, WithExt(d, E), op, WithExt(d, G))
<1> DEFINE a == WithExt(d, E)
           b == WithExt(d, G)
<1>1. a.tables = d.tables /\ b.tables = d.tables /\ a = [ext |-> E, tables |-> d.tables]
      /\ b = [ext |-> G, tables |-> d.tables] /\ a.ext = E
  BY DEF WithExt
<1>2. Shape(b)
  <2>1. b = [ext |-> b.ext, tables |-> b.tables]
    BY DEF WithExt
  <2> HIDE DEF b
  <2> QED
    BY <1>1, <2>1 DEF Shape, Refers
<1>3. [a EXCEPT !.ext = G] = b
  <2> HIDE DEF a, b
  <2> QED
    BY <1>1
<1> HIDE DEF a, b
<1>4. Effect(a, op) = b
  BY <1>1, <1>3 DEF Effect
<1>5. Accepts(a, op)
  BY <1>1 DEF Accepts
<1>6. Keeps(K, a, op, b)
  <2>1. ASSUME NEW j, j \in Ordinary(a) PROVE j \in Ordinary(b)
    BY <1>1, <2>1, OrdinaryIs
  <2>2. \A j : ~Drops(op, j)
    BY DEF Drops
  <2> QED
    BY <2>1, <2>2 DEF Keeps
<1>7. Moves(K, a, op, b)
  BY <1>2, <1>4, <1>5, <1>6 DEF Moves
<1> QED
  BY <1>7 DEF a, b

\* All extensions: those that go are used by no table any more.
LEMMA ExtensionsTurned ==
    ASSUME NEW K, NEW d, Shape(d), NEW E, NEW G, AreNames(E), AreNames(G), d.ext = E,
           \A x \in E \ G : \A u \in DOMAIN d.tables : \A c \in DOMAIN d.tables[u].cols :
               ExtensionOf[d.tables[u].cols[c].type] # x
    PROVE  Leads(K, "tables", d, diffExtensions(E, G), WithExt(d, G))
<1> DEFINE S == E \ G
           T == G \ E
           op1 == [x \in S |-> Op("drop_extension", 0, x, None)]
           op2 == [x \in T |-> Op("create_extension", 0, x, None)]
           f1 == [x \in S |-> <<Op("drop_extension", 0, x, None)>>]
           f2 == [x \in T |-> <<Op("create_extension", 0, x, None)>>]
           m1 == [D \in SUBSET S |-> WithExt(d, E \ D)]
           m2 == [D \in SUBSET T |-> WithExt(d, (E \ S) \cup D)]
<1>1. AreNames(S) /\ AreNames(T)
  BY FewerNames
<1>2. diffExtensions(E, G) = Loop(S, f1) \o Loop(T, f2)
  BY ExtensionsAre
<1>3. ASSUME NEW D \in SUBSET S, NEW x \in S \ D
      PROVE  Follows(K, "tables", m1[D], op1[x], m1[D \cup {x}])
  <2> DEFINE op == Op("drop_extension", 0, x, None)
             H == E \ D
             I == E \ (D \cup {x})
  <2>1. I = H \ {x}
    OBVIOUS
  <2>2. op.kind = "drop_extension" /\ op.name = x /\ Taken("tables", op)
    BY DEF Op, Taken
  <2>3. m1[D] = WithExt(d, H) /\ m1[D \cup {x}] = WithExt(d, I) /\ op1[x] = op
    <3>1. D \cup {x} \in SUBSET S
      OBVIOUS
    <3> QED
      BY <3>1
  <2>4. \A u \in DOMAIN d.tables : \A c \in DOMAIN d.tables[u].cols :
               ExtensionOf[d.tables[u].cols[c].type] # x
    OBVIOUS
  <2> HIDE DEF op, H, I, m1, op1
  <2>5. Moves(K, WithExt(d, H), op, WithExt(d, I))
    BY <2>1, <2>2, <2>4, ExtensionMoves
  <2> QED
    BY <2>2, <2>3, <2>5 DEF Follows
<1>4. ASSUME NEW D \in SUBSET T, NEW x \in T \ D
      PROVE  Follows(K, "tables", m2[D], op2[x], m2[D \cup {x}])
  <2> DEFINE op == Op("create_extension", 0, x, None)
             H == (E \ S) \cup D
             I == (E \ S) \cup (D \cup {x})
  <2>1. I = H \cup {x}
    OBVIOUS
  <2>2. op.kind = "create_extension" /\ op.name = x /\ Taken("tables", op)
    BY DEF Op, Taken
  <2>3. m2[D] = WithExt(d, H) /\ m2[D \cup {x}] = WithExt(d, I) /\ op2[x] = op
    <3>1. D \cup {x} \in SUBSET T
      OBVIOUS
    <3> QED
      BY <3>1
  <2> HIDE DEF op, H, I, m2, op2
  <2>5. Moves(K, WithExt(d, H), op, WithExt(d, I))
    BY <2>1, <2>2, ExtensionMoves
  <2> QED
    BY <2>2, <2>3, <2>5 DEF Follows
<1>5. Leads(K, "tables", m1[{}], Loop(S, f1), m1[S])
  <2>1. \A x \in S : f1[x] = <<op1[x]>>
    OBVIOUS
  <2> HIDE DEF S, f1, op1, m1
  <2> QED
    BY <1>1, <1>3, <2>1, LoopMoves
<1>6. Leads(K, "tables", m2[{}], Loop(T, f2), m2[T])
  <2>1. \A x \in T : f2[x] = <<op2[x]>>
    OBVIOUS
  <2> HIDE DEF T, f2, op2, m2
  <2> QED
    BY <1>1, <1>4, <2>1, LoopMoves
<1>7. m1[{}] = d /\ m1[S] = m2[{}] /\ m2[T] = WithExt(d, G)
  <2>1. WithExt(d, E \ {}) = d
    BY DEF WithExt, Shape
  <2>2. (E \ S) \cup {} = E \ S /\ (E \ S) \cup T = G
    OBVIOUS
  <2>3. m1[{}] = WithExt(d, E \ {}) /\ m1[S] = WithExt(d, E \ S)
    OBVIOUS
  <2>4. m2[{}] = WithExt(d, (E \ S) \cup {}) /\ m2[T] = WithExt(d, (E \ S) \cup T)
    OBVIOUS
  <2> HIDE DEF m1, m2, S, T
  <2> QED
    BY <2>1, <2>2, <2>3, <2>4
<1> HIDE DEF m1, m2, f1, f2, S, T
<1>8. Leads(K, "tables", d, Loop(S, f1), m1[S]) /\ Leads(K, "tables", m1[S], Loop(T, f2), WithExt(d, G))
  BY <1>5, <1>6, <1>7
<1> QED
  BY <1>2, <1>8, LeadsOn

\* Two snapshots that one turn of the diff leads between.
Turns(prev, next) == WellFormed(prev) /\ WellFormed(next) /\ Expressible(prev, next)

\* The tables that stay, some of them what they will be but for their new keys.
Mixed(prev, next, D) ==
    [ext |-> next.ext,
     tables |-> [t \in Both(prev.tables, next.tables) |->
                    LET p == prev.tables[t]  n == next.tables[t] IN
                    IF t \in D THEN Tab(p, n.cols, n.idx, KeptKeys(p, n), n.hyper)
                    ELSE Tab(p, p.cols, p.idx, StartKeys(p, next), p.hyper)]]

LEMMA MixedFits ==
    ASSUME NEW prev, NEW next, Turns(prev, next), NEW D, NEW t \in Both(prev.tables, next.tables)
    PROVE  /\ IsTable(Mixed(prev, next, D).tables[t])
           /\ Mixed(prev, next, D).tables[t].pk = prev.tables[t].pk
           /\ prev.tables[t].pk = next.tables[t].pk /\ prev.tables[t].join = next.tables[t].join
           /\ Mixed(prev, next, D).tables[t].idx = IF t \in D THEN next.tables[t].idx ELSE prev.tables[t].idx
           /\ \A c \in DOMAIN Mixed(prev, next, D).tables[t].fks :
                  LET f == Mixed(prev, next, D).tables[t].fks[c] IN
                  /\ c \in DOMAIN prev.tables[t].fks /\ f = prev.tables[t].fks[c]
                  /\ f.table \in DOMAIN next.tables
<1> DEFINE p == prev.tables[t]
           n == next.tables[t]
           F == KeptKeys(p, n)
           G == StartKeys(p, next)
           x == Mixed(prev, next, D).tables[t]
<1>1. IsTable(p) /\ IsTable(n) /\ Shape(next)
  BY DEF Turns, WellFormed, Shape, Both
<1>2. n.pk = p.pk /\ n.join = p.join
  BY DEF Turns, Expressible, Alterable
<1>3. x = IF t \in D THEN Tab(p, n.cols, n.idx, F, n.hyper) ELSE Tab(p, p.cols, p.idx, G, p.hyper)
  BY DEF Mixed
<1>4. DOMAIN F \subseteq DOMAIN n.fks /\ DOMAIN F \subseteq DOMAIN p.fks
      /\ \A c \in DOMAIN F : F[c] = p.fks[c] /\ F[c] = n.fks[c]
  BY DEF KeptKeys, Kept, Both
<1>10. IsMap(F)
  BY DEF KeptKeys, IsMap
<1>5. DOMAIN G \subseteq DOMAIN p.fks /\ IsMap(G)
      /\ \A c \in DOMAIN G : G[c] = p.fks[c] /\ p.fks[c].table \in DOMAIN next.tables
  BY DEF StartKeys, IsMap
<1>6. \A c \in DOMAIN n.fks : n.fks[c].table \in DOMAIN next.tables
  BY <1>1 DEF Shape, Refers, Both
<1> HIDE DEF F, G, p, n, x
<1>7. IsTable(Tab(p, n.cols, n.idx, F, n.hyper)) /\ IsTable(Tab(p, p.cols, p.idx, G, p.hyper))
  <2>1. IsTable(Tab(p, n.cols, n.idx, F, n.hyper))
    <3> DEFINE z == Tab(p, n.cols, n.idx, F, n.hyper)
    <3>1. z = [cols |-> n.cols, pk |-> n.pk, idx |-> n.idx, fks |-> F, hyper |-> n.hyper, join |-> n.join]
      BY <1>2 DEF Tab
    <3>2. /\ IsMap(n.cols) /\ IsMap(n.idx) /\ \A c \in DOMAIN n.cols : IsColumn(n.cols[c])
          /\ n.pk \subseteq DOMAIN n.cols /\ DOMAIN n.fks \subseteq DOMAIN n.cols
          /\ \A i \in DOMAIN n.idx : ToSet(n.idx[i].cols) \subseteq DOMAIN n.cols
      BY <1>1 DEF IsTable
    <3> HIDE DEF z
    <3>4. /\ z.cols = n.cols /\ z.pk = n.pk /\ z.idx = n.idx /\ z.fks = F
          /\ z = [cols |-> z.cols, pk |-> z.pk, idx |-> z.idx, fks |-> z.fks, hyper |-> z.hyper, join |-> z.join]
      BY <3>1
    <3>5. DOMAIN z.fks \subseteq DOMAIN z.cols /\ IsMap(z.fks)
      <4>1. DOMAIN F \subseteq DOMAIN n.fks
        BY <1>4
      <4>2. DOMAIN F \subseteq DOMAIN n.cols
        BY <3>2, <4>1
      <4>3. IsMap(F)
        BY <1>10
      <4>4. z.fks = F /\ z.cols = n.cols
        BY <3>4
      <4> QED
        BY <4>2, <4>3, <4>4
    <3>3. IsTable(z)
      BY <3>2, <3>4, <3>5 DEF IsTable
    <3> QED
      BY <3>3 DEF z
  <2>2. IsTable(Tab(p, p.cols, p.idx, G, p.hyper))
    BY <1>1, <1>5 DEF IsTable, Tab
  <2> QED
    BY <2>1, <2>2
<1>8. IsTable(x) /\ x.pk = p.pk /\ x.idx = (IF t \in D THEN n.idx ELSE p.idx)
      /\ x.fks = IF t \in D THEN F ELSE G
  <2>1. CASE t \in D
    BY <1>3, <1>7, <2>1 DEF Tab
  <2>2. CASE t \notin D
    BY <1>3, <1>7, <2>2 DEF Tab
  <2> QED
    BY <2>1, <2>2
<1>9. \A c \in DOMAIN x.fks : c \in DOMAIN p.fks /\ x.fks[c] = p.fks[c] /\ x.fks[c].table \in DOMAIN next.tables
  BY <1>4, <1>5, <1>6, <1>8
<1> QED
  BY <1>2, <1>8, <1>9 DEF x, p, n

\* They hang together whichever of them have turned.
LEMMA MixedShape ==
    ASSUME NEW prev, NEW next, Turns(prev, next), NEW D
    PROVE  Shape(Mixed(prev, next, D))
<1> DEFINE d == Mixed(prev, next, D)
           B == Both(prev.tables, next.tables)
<1>1. d = [ext |-> d.ext, tables |-> d.tables] /\ IsMap(d.tables) /\ DOMAIN d.tables = B
  BY DEF Mixed, IsMap
<1>2. ASSUME NEW t \in B
      PROVE  /\ IsTable(d.tables[t]) /\ d.tables[t].pk = prev.tables[t].pk
             /\ d.tables[t].idx = IF t \in D THEN next.tables[t].idx ELSE prev.tables[t].idx
             /\ \A c \in DOMAIN d.tables[t].fks :
                  LET f == d.tables[t].fks[c] IN
                  /\ c \in DOMAIN prev.tables[t].fks /\ f = prev.tables[t].fks[c]
                  /\ f.table \in DOMAIN next.tables
  BY MixedFits
<1>3. Shape(prev) /\ Shape(next) /\ B \subseteq DOMAIN prev.tables /\ B \subseteq DOMAIN next.tables
      /\ \A u : u \in DOMAIN prev.tables /\ u \in DOMAIN next.tables => u \in B
  BY DEF Turns, WellFormed, Both
<1>4. \A t \in B : \A u \in B \ {t} : DOMAIN prev.tables[t].idx \cap DOMAIN next.tables[u].idx = {}
  BY DEF Turns, Expressible
<1> HIDE DEF d, B
<1>5. ASSUME NEW t \in B, NEW c \in DOMAIN d.tables[t].fks PROVE Refers(d, d.tables[t].fks[c])
  <2> DEFINE f == d.tables[t].fks[c]
  <2>1. c \in DOMAIN prev.tables[t].fks /\ f = prev.tables[t].fks[c] /\ f.table \in DOMAIN next.tables
    BY <1>2
  <2>2. Refers(prev, f)
    BY <1>3, <2>1 DEF Shape
  <2> HIDE DEF f
  <2>3. f.table \in B /\ prev.tables[f.table].pk = {f.column}
    BY <1>3, <2>1, <2>2 DEF Refers
  <2>4. d.tables[f.table].pk = prev.tables[f.table].pk
    BY <1>2, <2>3
  <2>5. Refers(d, f)
    BY <1>1, <2>3, <2>4 DEF Refers
  <2> QED
    BY <2>5 DEF f
<1>6. ASSUME NEW t \in B, NEW u \in B \ {t} PROVE DOMAIN d.tables[t].idx \cap DOMAIN d.tables[u].idx = {}
  <2>1. /\ d.tables[t].idx = IF t \in D THEN next.tables[t].idx ELSE prev.tables[t].idx
        /\ d.tables[u].idx = IF u \in D THEN next.tables[u].idx ELSE prev.tables[u].idx
    BY <1>2
  <2>2. /\ DOMAIN prev.tables[t].idx \cap DOMAIN prev.tables[u].idx = {}
        /\ DOMAIN next.tables[t].idx \cap DOMAIN next.tables[u].idx = {}
    BY <1>3 DEF Shape
  <2>3. /\ DOMAIN prev.tables[t].idx \cap DOMAIN next.tables[u].idx = {}
        /\ DOMAIN prev.tables[u].idx \cap DOMAIN next.tables[t].idx = {}
    BY <1>4
  <2> QED
    BY <2>1, <2>2, <2>3
<1>7. Shape(d)
  BY <1>1, <1>2, <1>5, <1>6 DEF Shape
<1> QED
  BY <1>7 DEF d

\* One table of both turns, while the others stand still.
LEMMA OneTurned ==
    ASSUME NEW K, NEW prev, NEW next, Turns(prev, next), K \subseteq Ordinary(next),
           NEW t \in Both(prev.tables, next.tables), NEW D, t \notin D
    PROVE  Leads(K, "tables", Mixed(prev, next, D), diffTable(t, prev.tables[t], next.tables[t]),
                 Mixed(prev, next, D \cup {t}))
<1> DEFINE p == prev.tables[t]
           n == next.tables[t]
           d == Mixed(prev, next, D)
           e == Mixed(prev, next, D \cup {t})
           B == Both(prev.tables, next.tables)
           x == Tab(p, p.cols, p.idx, StartKeys(p, next), p.hyper)
           y == Tab(p, n.cols, n.idx, KeptKeys(p, n), n.hyper)
<1>1. d.ext = next.ext /\ DOMAIN d.tables = B /\ d.tables[t] = x /\ d = [ext |-> d.ext, tables |-> d.tables]
      /\ IsMap(d.tables)
  BY DEF Mixed, IsMap
<1>2. e.ext = next.ext /\ DOMAIN e.tables = B /\ e.tables[t] = y /\ e = [ext |-> e.ext, tables |-> e.tables]
      /\ IsMap(e.tables)
  BY DEF Mixed, IsMap
<1>3. \A u \in B : u # t => e.tables[u] = d.tables[u]
  BY DEF Mixed
<1>4. Shape(d)
  BY MixedShape
<1>5. ASSUME NEW u \in B
      PROVE  /\ d.tables[u].pk = prev.tables[u].pk
             /\ d.tables[u].idx = IF u \in D THEN next.tables[u].idx ELSE prev.tables[u].idx
             /\ \A c \in DOMAIN d.tables[u].fks :
                  LET f == d.tables[u].fks[c] IN
                  /\ c \in DOMAIN prev.tables[u].fks /\ f = prev.tables[u].fks[c]
                  /\ f.table \in DOMAIN next.tables
  BY MixedFits
<1>6. Shape(prev) /\ Shape(next) /\ B \subseteq DOMAIN prev.tables /\ B \subseteq DOMAIN next.tables
      /\ \A u : u \in DOMAIN prev.tables /\ u \in DOMAIN next.tables => u \in B
      /\ WellFormed(prev) /\ WellFormed(next)
  BY DEF Turns, WellFormed, Both
<1>7. d = Alter(d, t, x) /\ e = Alter(d, t, y)
  <2>1. Alter(d, t, x) = [ext |-> next.ext, tables |-> [u \in B |-> IF u = t THEN x ELSE d.tables[u]]]
    <3> HIDE DEF d, x
    <3> QED
      BY <1>1 DEF Alter
  <2>2. Alter(d, t, y) = [ext |-> next.ext, tables |-> [u \in B |-> IF u = t THEN y ELSE d.tables[u]]]
    <3> HIDE DEF d, y
    <3> QED
      BY <1>1 DEF Alter
  <2> HIDE DEF d, e, x, y
  <2>3. d.tables = [u \in B |-> IF u = t THEN x ELSE d.tables[u]]
    BY <1>1 DEF IsMap
  <2>4. e.tables = [u \in B |-> IF u = t THEN y ELSE d.tables[u]]
    BY <1>2, <1>3 DEF IsMap
  <2> QED
    BY <1>1, <1>2, <2>1, <2>2, <2>3, <2>4
<1>8. ASSUME NEW c \in DOMAIN p.fks, p.fks[c].table \in DOMAIN next.tables PROVE Refers(d, p.fks[c])
  <2> DEFINE f == p.fks[c]
  <2>1. Refers(prev, f)
    BY <1>6 DEF Shape
  <2> HIDE DEF d, B
  <2>2. f.table \in B /\ prev.tables[f.table].pk = {f.column}
    BY <1>6, <1>8, <2>1 DEF Refers
  <2> HIDE DEF f
  <2>3. Refers(d, f)
    BY <1>1, <1>5, <2>2 DEF Refers
  <2> QED
    BY <2>3 DEF f
<1>9. ASSUME NEW i \in DOMAIN p.idx \cup DOMAIN n.idx, NEW u \in B \ {t} PROVE i \notin DOMAIN d.tables[u].idx
  <2>1. d.tables[u].idx = IF u \in D THEN next.tables[u].idx ELSE prev.tables[u].idx
    BY <1>5
  <2>2. /\ DOMAIN p.idx \cap DOMAIN prev.tables[u].idx = {}
        /\ DOMAIN n.idx \cap DOMAIN next.tables[u].idx = {}
    BY <1>6 DEF Shape
  <2>3. /\ DOMAIN p.idx \cap DOMAIN next.tables[u].idx = {}
        /\ DOMAIN prev.tables[u].idx \cap DOMAIN n.idx = {}
    BY DEF Turns, Expressible
  <2> HIDE DEF d, p, n
  <2> QED
    BY <2>1, <2>2, <2>3
<1>10. Alterable(prev, next, t)
  BY DEF Turns, Expressible
<1>11. Turning(prev, next, t, d, p, n)
  <2>1. \A i \in DOMAIN p.idx \cup DOMAIN n.idx : Unused(d, t, i)
    <3> HIDE DEF d, B
    <3> QED
      BY <1>1, <1>9 DEF Unused
  <2>2. \A u \in DOMAIN d.tables \ {t} : \A g \in DOMAIN d.tables[u].fks :
           /\ u \in DOMAIN prev.tables /\ g \in DOMAIN prev.tables[u].fks
           /\ d.tables[u].fks[g] = prev.tables[u].fks[g]
    <3> HIDE DEF d, B
    <3> QED
      BY <1>1, <1>5, <1>6
  <2>3. d.tables[t].pk = p.pk
    BY <1>5
  <2>4. p = prev.tables[t] /\ n = next.tables[t] /\ t \in DOMAIN d.tables
    BY <1>1
  <2> HIDE DEF d, B, p, n
  <2> QED
    BY <1>1, <1>4, <1>6, <1>8, <1>10, <2>1, <2>2, <2>3, <2>4 DEF Turning
<1>12. Leads(K, "tables", Alter(d, t, x), diffTable(t, p, n), Alter(d, t, y))
  <2> HIDE DEF d, p, n
  <2> QED
    BY <1>11, TableTurned
<1> HIDE DEF d, e, x, y
<1>13. Leads(K, "tables", d, diffTable(t, p, n), e)
  BY <1>7, <1>12
<1> QED
  BY <1>13 DEF d, e

\* All tables that stay.
LEMMA TablesTurned ==
    ASSUME NEW K, NEW prev, NEW next, Turns(prev, next), K \subseteq Ordinary(next),
           NEW S, S = Both(prev.tables, next.tables),
           NEW f, \A t \in S : f[t] = diffTable(t, prev.tables[t], next.tables[t])
    PROVE  Leads(K, "tables", Mixed(prev, next, {}), Loop(S, f), Mixed(prev, next, S))
<1> DEFINE m == [D \in SUBSET S |-> Mixed(prev, next, D)]
<1>1. AreNames(S)
  BY FewerNames DEF Turns, WellFormed, Both
<1>2. ASSUME NEW t \in S, NEW D, D = {y \in S : y < t}
      PROVE  Leads(K, "tables", m[D], f[t], m[D \cup {t}])
  <2>1. t \in Nat /\ t \notin D /\ D \in SUBSET S /\ D \cup {t} \in SUBSET S
    BY <1>1, <1>2 DEF AreNames
  <2>2. Leads(K, "tables", Mixed(prev, next, D), diffTable(t, prev.tables[t], next.tables[t]),
              Mixed(prev, next, D \cup {t}))
    BY <2>1, OneTurned
  <2>3. m[D] = Mixed(prev, next, D) /\ m[D \cup {t}] = Mixed(prev, next, D \cup {t})
    BY <2>1
  <2> HIDE DEF m
  <2> QED
    BY <2>2, <2>3
<1>3. Leads(K, "tables", m[{}], Loop(S, f), m[S])
  <2> HIDE DEF m
  <2> QED
    BY <1>1, <1>2, LeadsEach DEF AreNames
<1> QED
  BY <1>3

\* The tables that are not joins, then those that are.
TableDrops(S, tables) == TablesFirst(S, tables, LAMBDA t : <<Op("drop_table", t, 0, None)>>)
TableTurns(S, p, n) == Each(S, LAMBDA t : diffTable(t, p[t], n[t]))
TableCreations(S, tables) == TablesFirst(S, tables, LAMBDA t : createTableOps(t, tables[t]))

Plain(S, tables) == {t \in S : ~tables[t].join}
Joins(S, tables) == {t \in S : tables[t].join}

\* The loops over tables, join tables apart.
LEMMA DropsAre ==
    ASSUME NEW S, AreNames(S), NEW tables, NEW f, \A t \in S : f[t] = <<Op("drop_table", t, 0, None)>>
    PROVE  TableDrops(S, tables) = Loop(Plain(S, tables), f) \o Loop(Joins(S, tables), f)
<1> DEFINE A == Plain(S, tables)
           B == Joins(S, tables)
<1>1. AreNames(A) /\ AreNames(B) /\ A \subseteq S /\ B \subseteq S
  BY FewerNames DEF Plain, Joins
<1> HIDE DEF A, B
<1>2. Each(A, LAMBDA t : <<Op("drop_table", t, 0, None)>>) = Loop(A, f)
  BY <1>1, SortedIn DEF Each, Loop
<1>3. Each(B, LAMBDA t : <<Op("drop_table", t, 0, None)>>) = Loop(B, f)
  BY <1>1, SortedIn DEF Each, Loop
<1> QED
  BY <1>2, <1>3 DEF TableDrops, TablesFirst, Plain, Joins, A, B

LEMMA CreationsAre ==
    ASSUME NEW S, AreNames(S), NEW tables, NEW f, \A t \in S : f[t] = createTableOps(t, tables[t])
    PROVE  TableCreations(S, tables) = Loop(Plain(S, tables), f) \o Loop(Joins(S, tables), f)
<1> DEFINE A == Plain(S, tables)
           B == Joins(S, tables)
<1>1. AreNames(A) /\ AreNames(B) /\ A \subseteq S /\ B \subseteq S
  BY FewerNames DEF Plain, Joins
<1> HIDE DEF A, B
<1>2. Each(A, LAMBDA t : createTableOps(t, tables[t])) = Loop(A, f)
  BY <1>1, SortedIn DEF Each, Loop
<1>3. Each(B, LAMBDA t : createTableOps(t, tables[t])) = Loop(B, f)
  BY <1>1, SortedIn DEF Each, Loop
<1> QED
  BY <1>2, <1>3 DEF TableCreations, TablesFirst, Plain, Joins, A, B

LEMMA TurnsAre ==
    ASSUME NEW p, NEW n, NEW S, S = Both(p, n), AreNames(S), NEW f, \A t \in S : f[t] = diffTable(t, p[t], n[t])
    PROVE  TableTurns(S, p, n) = Loop(S, f)
BY SortedIn DEF TableTurns, Each, Loop

LEMMA LoopTurns ==
    ASSUME NEW K, NEW part, NEW S, AreNames(S), NEW f, NEW m,
           \A D \in SUBSET S : \A x \in S \ D : Leads(K, part, m[D], f[x], m[D \cup {x}])
    PROVE  Leads(K, part, m[{}], Loop(S, f), m[S])
<1>1. ASSUME NEW x \in S
      PROVE  Leads(K, part, m[{y \in S : y < x}], f[x], m[{y \in S : y < x} \cup {x}])
  <2> DEFINE D == {y \in S : y < x}
  <2>1. D \in SUBSET S /\ x \in S \ D
    <3>1. x \in Nat
      BY DEF AreNames
    <3> QED
      BY <3>1
  <2> HIDE DEF D
  <2>2. Leads(K, part, m[D], f[x], m[D \cup {x}])
    BY <2>1
  <2> QED
    BY <2>2 DEF D
<1> QED
  BY <1>1, LeadsEach DEF AreNames

\* Two loops, one after the other.
LEMMA LoopsLead ==
    ASSUME NEW K, NEW part, NEW S, AreNames(S), NEW A, NEW B, A \cup B = S, A \cap B = {}, NEW f, NEW m,
           \A D \in SUBSET S : \A x \in S \ D : Leads(K, part, m[D], f[x], m[D \cup {x}])
    PROVE  Leads(K, part, m[{}], Loop(A, f) \o Loop(B, f), m[S])
<1>1. AreNames(A) /\ AreNames(B)
  BY FewerNames
<1>2. Leads(K, part, m[{}], Loop(A, f), m[A])
  BY <1>1, LoopTurns
<1> DEFINE w == [D \in SUBSET B |-> m[A \cup D]]
<1>3. w[{}] = m[A] /\ w[B] = m[S]
  <2>1. {} \in SUBSET B /\ B \in SUBSET B /\ A \cup {} = A
    OBVIOUS
  <2>2. w[{}] = m[A \cup {}] /\ w[B] = m[A \cup B]
    BY <2>1
  <2> QED
    BY <2>1, <2>2
<1>4. ASSUME NEW D \in SUBSET B, NEW x \in B \ D PROVE Leads(K, part, w[D], f[x], w[D \cup {x}])
  <2> DEFINE G == A \cup D
             H == D \cup {x}
  <2>1. G \in SUBSET S /\ x \in S \ G /\ H \in SUBSET B /\ G \cup {x} = A \cup H
    OBVIOUS
  <2>2. w[D] = m[G] /\ w[H] = m[A \cup H]
    BY <2>1
  <2> HIDE DEF G, H, w
  <2>3. Leads(K, part, m[G], f[x], m[G \cup {x}])
    BY <2>1
  <2>4. Leads(K, part, w[D], f[x], w[H])
    BY <2>1, <2>2, <2>3
  <2> QED
    BY <2>4 DEF H
<1>5. Leads(K, part, w[{}], Loop(B, f), w[B])
  <2> HIDE DEF w
  <2> QED
    BY <1>1, <1>4, LoopTurns
<1> QED
  BY <1>2, <1>3, <1>5, LeadsOn

-----------------------------------------------------------------------------
(* The tables that go, and the tables that come. *)

LEMMA WithExtIs == ASSUME NEW d, Shape(d), NEW E PROVE Shape(WithExt(d, E))
BY DEF Shape, WithExt, Refers

\* What is left of a database when the tables D have gone.
Left(s, D) ==
    Built(s, DOMAIN s.tables \ D,
          [u \in DOMAIN s.tables \ D |-> {c \in DOMAIN s.tables[u].fks : s.tables[u].fks[c].table \notin D}])

LEMMA LeftIs ==
    ASSUME NEW s, Shape(s) PROVE Left(s, {}) = s
<1> DEFINE k == [u \in DOMAIN s.tables \ {} |-> {c \in DOMAIN s.tables[u].fks : s.tables[u].fks[c].table \notin {}}]
<1>1. Left(s, {}) = [ext |-> s.ext, tables |-> [t \in DOMAIN s.tables |-> Bare(s.tables[t], k[t])]]
  BY DEF Left, Built
<1>2. ASSUME NEW t \in DOMAIN s.tables PROVE Bare(s.tables[t], k[t]) = s.tables[t]
  <2>1. k[t] = DOMAIN s.tables[t].fks
    OBVIOUS
  <2> HIDE DEF k
  <2> QED
    BY <2>1, BareIs
<1> HIDE DEF k
<1>3. [t \in DOMAIN s.tables |-> Bare(s.tables[t], k[t])] = [t \in DOMAIN s.tables |-> s.tables[t]]
  BY <1>2
<1>4. s = [ext |-> s.ext, tables |-> s.tables] /\ s.tables = [t \in DOMAIN s.tables |-> s.tables[t]]
  BY DEF Shape, IsMap
<1> QED
  BY <1>1, <1>3, <1>4

\* One of them goes.
LEMMA TableLeaves ==
    ASSUME NEW K, NEW s, Shape(s), NEW D, D \subseteq DOMAIN s.tables, NEW t \in DOMAIN s.tables \ D,
           \A c : <<t, c>> \notin K
    PROVE  Leads(K, "tables", Left(s, D), <<Op("drop_table", t, 0, None)>>, Left(s, D \cup {t}))
<1> DEFINE A == DOMAIN s.tables \ D
           k == [u \in A |-> {c \in DOMAIN s.tables[u].fks : s.tables[u].fks[c].table \notin D}]
           E == D \cup {t}
           l == [u \in A \ {t} |-> {c \in k[u] : s.tables[u].fks[c].table # t}]
<1>1. Buildable(s, A, k)
  <2>1. ASSUME NEW u \in A, NEW c \in k[u] PROVE s.tables[u].fks[c].table \in A
    BY DEF Shape, Refers
  <2> QED
    BY <2>1 DEF Buildable
<1>2. A \ {t} = DOMAIN s.tables \ E
  OBVIOUS
<1>3. l = [u \in DOMAIN s.tables \ E |-> {c \in DOMAIN s.tables[u].fks : s.tables[u].fks[c].table \notin E}]
  <2>1. ASSUME NEW u \in A \ {t}
        PROVE  {c \in k[u] : s.tables[u].fks[c].table # t}
                   = {c \in DOMAIN s.tables[u].fks : s.tables[u].fks[c].table \notin E}
    OBVIOUS
  <2> QED
    BY <1>2, <2>1
<1>4. Left(s, D) = Built(s, A, k) /\ Left(s, E) = Built(s, A \ {t}, l)
  <2>1. Left(s, E) = Built(s, DOMAIN s.tables \ E,
              [u \in DOMAIN s.tables \ E |-> {c \in DOMAIN s.tables[u].fks : s.tables[u].fks[c].table \notin E}])
    BY DEF Left
  <2>2. Left(s, D) = Built(s, A, k)
    BY DEF Left
  <2> QED
    BY <1>2, <1>3, <2>1, <2>2
<1>5. Moves(K, Built(s, A, k), Op("drop_table", t, 0, None), Built(s, A \ {t}, l))
  <2>1. t \in A
    OBVIOUS
  <2>2. l = [u \in A \ {t} |-> {c \in k[u] : s.tables[u].fks[c].table # t}]
    OBVIOUS
  <2> HIDE DEF A, k, l
  <2> QED
    BY <1>1, <2>1, <2>2, DropTableMoves
<1> HIDE DEF A, k, l, E
<1>6. Follows(K, "tables", Left(s, D), Op("drop_table", t, 0, None), Left(s, E))
  BY <1>4, <1>5 DEF Follows, Taken, Op
<1>7. Leads(K, "tables", Left(s, D), <<Op("drop_table", t, 0, None)>>, Left(s, E))
  BY <1>6, LeadsOne
<1> QED
  BY <1>7 DEF E

\* When all are gone, the tables that stay are left, none of them turned yet.
LEMMA TablesLeft ==
    ASSUME NEW prev, NEW next, Turns(prev, next),
           NEW s, s = WithExt(prev, next.ext), NEW G, G = Gone(prev.tables, next.tables)
    PROVE  Left(s, G) = Mixed(prev, next, {})
<1> DEFINE B == Both(prev.tables, next.tables)
           k == [u \in B |-> {c \in DOMAIN prev.tables[u].fks : prev.tables[u].fks[c].table \notin G}]
<1>1. Shape(prev) /\ B = DOMAIN prev.tables \ G /\ s.tables = prev.tables /\ s.ext = next.ext
  BY DEF Turns, WellFormed, Both, Gone, WithExt
<1>2. Left(s, G) = [ext |-> next.ext, tables |-> [t \in B |-> Bare(prev.tables[t], k[t])]]
  BY <1>1 DEF Left, Built
<1>3. ASSUME NEW t \in B
      PROVE  Bare(prev.tables[t], k[t])
                 = LET p == prev.tables[t] IN Tab(p, p.cols, p.idx, StartKeys(p, next), p.hyper)
  <2> DEFINE p == prev.tables[t]
  <2>1. \A c \in DOMAIN p.fks : p.fks[c].table \in DOMAIN prev.tables
    BY <1>1 DEF Shape, Refers
  <2>2. k[t] = {e \in DOMAIN p.fks : p.fks[e].table \in DOMAIN next.tables}
    BY <2>1 DEF Gone
  <2> HIDE DEF k
  <2>3. [c \in k[t] |-> p.fks[c]] = StartKeys(p, next)
    BY <2>2 DEF StartKeys
  <2> HIDE DEF p
  <2>4. Bare(p, k[t]) = Tab(p, p.cols, p.idx, StartKeys(p, next), p.hyper)
    BY <2>3 DEF Bare, WithFks, Tab
  <2> QED
    BY <2>4 DEF p
<1>4. Mixed(prev, next, {}) = [ext |-> next.ext, tables |-> [t \in B |->
             LET p == prev.tables[t] IN Tab(p, p.cols, p.idx, StartKeys(p, next), p.hyper)]]
  BY DEF Mixed
<1> HIDE DEF k, B
<1> QED
  BY <1>2, <1>3, <1>4

\* All tables that go.
LEMMA TablesGone ==
    ASSUME NEW K, NEW prev, NEW next, Turns(prev, next), K \subseteq Ordinary(next),
           NEW G, G = Gone(prev.tables, next.tables)
    PROVE  Leads(K, "tables", WithExt(prev, next.ext),
                 TableDrops(G, prev.tables), Mixed(prev, next, {}))
<1> DEFINE s == WithExt(prev, next.ext)
           A == Plain(G, prev.tables)
           B == Joins(G, prev.tables)
           f == [t \in G |-> <<Op("drop_table", t, 0, None)>>]
           m == [D \in SUBSET G |-> Left(s, D)]
<1>1. AreNames(G) /\ Shape(prev) /\ G \subseteq DOMAIN prev.tables
  BY FewerNames DEF Turns, WellFormed, Gone
<1>2. Shape(s) /\ s.tables = prev.tables
  BY <1>1, WithExtIs DEF WithExt
<1>3. \A t \in G : \A c : <<t, c>> \notin K
  <2>1. ASSUME NEW t \in G, NEW c, <<t, c>> \in K PROVE FALSE
    <3>1. <<t, c>> \in Ordinary(next)
      BY <2>1
    <3>2. t \in DOMAIN next.tables
      BY <3>1, OrdinaryIs
    <3> QED
      BY <3>2 DEF Gone
  <2> QED
    BY <2>1
<1>4. A \cup B = G /\ A \cap B = {}
  BY DEF Plain, Joins
<1>5. TableDrops(G, prev.tables) = Loop(A, f) \o Loop(B, f)
  <2>1. \A t \in G : f[t] = <<Op("drop_table", t, 0, None)>>
    OBVIOUS
  <2>2. AreNames(G)
    BY <1>1
  <2> DEFINE T == prev.tables
  <2> HIDE DEF f, T, s, m
  <2>3. TableDrops(G, T) = Loop(Plain(G, T), f) \o Loop(Joins(G, T), f)
    BY <2>2, <2>1, DropsAre
  <2> QED
    BY <2>3 DEF T
<1>6. ASSUME NEW D \in SUBSET G, NEW t \in G \ D PROVE Leads(K, "tables", m[D], f[t], m[D \cup {t}])
  <2> DEFINE E == D \cup {t}
  <2>1. E \in SUBSET G
    OBVIOUS
  <2>2. m[D] = Left(s, D) /\ m[E] = Left(s, E) /\ f[t] = <<Op("drop_table", t, 0, None)>>
    BY <2>1
  <2>3. D \subseteq DOMAIN s.tables /\ t \in DOMAIN s.tables \ D /\ \A c : <<t, c>> \notin K
    BY <1>1, <1>2, <1>3
  <2> HIDE DEF s, m, f
  <2>4. Leads(K, "tables", Left(s, D), <<Op("drop_table", t, 0, None)>>, Left(s, D \cup {t}))
    BY <1>2, <2>3, TableLeaves
  <2> QED
    BY <2>2, <2>4
<1>7. Leads(K, "tables", m[{}], Loop(A, f) \o Loop(B, f), m[G])
  <2> HIDE DEF m, f, A, B
  <2> QED
    BY <1>1, <1>4, <1>6, LoopsLead
<1>8. m[{}] = s /\ m[G] = Mixed(prev, next, {})
  <2>1. {} \in SUBSET G /\ G \in SUBSET G
    OBVIOUS
  <2>2. m[{}] = Left(s, {}) /\ m[G] = Left(s, G)
    BY <2>1
  <2> HIDE DEF m
  <2>3. Left(s, G) = Mixed(prev, next, {})
    BY TablesLeft
  <2> HIDE DEF s
  <2>4. Left(s, {}) = s
    BY <1>2, LeftIs
  <2> QED
    BY <2>2, <2>3, <2>4
<1> QED
  BY <1>5, <1>7, <1>8

\* What the tables that stay keep of their keys, and D have all of theirs.
StillKeys(prev, next) ==
    [t \in DOMAIN next.tables |->
        IF t \in DOMAIN prev.tables THEN Kept(prev.tables[t].fks, next.tables[t].fks) ELSE {}]
KeysSoFar(prev, next, D) ==
    [t \in DOMAIN next.tables |->
        IF t \in D THEN DOMAIN next.tables[t].fks ELSE StillKeys(prev, next)[t]]

LEMMA StillIs ==
    ASSUME NEW prev, NEW next, Turns(prev, next), NEW t \in DOMAIN next.tables, NEW k, k = StillKeys(prev, next)
    PROVE  /\ k[t] \subseteq DOMAIN next.tables[t].fks
           /\ \A c \in k[t] : /\ next.tables[t].fks[c].table \in DOMAIN next.tables
                              /\ next.tables[t].fks[c].table \in DOMAIN prev.tables
<1>1. Shape(prev) /\ Shape(next)
  BY DEF Turns, WellFormed
<1>2. CASE t \in DOMAIN prev.tables
  <2> DEFINE p == prev.tables[t].fks
             n == next.tables[t].fks
  <2>1. k[t] = Kept(p, n)
    BY <1>2 DEF StillKeys
  <2>2. ASSUME NEW c \in Kept(p, n)
        PROVE  c \in DOMAIN n /\ n[c].table \in DOMAIN next.tables /\ n[c].table \in DOMAIN prev.tables
    <3>1. c \in DOMAIN p /\ c \in DOMAIN n /\ p[c] = n[c]
      BY DEF Kept, Both
    <3>2. Refers(prev, p[c]) /\ Refers(next, n[c])
      BY <1>1, <1>2, <3>1 DEF Shape
    <3> QED
      BY <3>1, <3>2 DEF Refers
  <2> HIDE DEF p, n
  <2>3. k[t] \subseteq DOMAIN n /\ \A c \in k[t] : n[c].table \in DOMAIN next.tables /\ n[c].table \in DOMAIN prev.tables
    BY <2>1, <2>2
  <2> QED
    BY <2>3 DEF n
<1>3. CASE t \notin DOMAIN prev.tables
  <2>1. k[t] = {}
    BY <1>3 DEF StillKeys
  <2> QED
    BY <2>1
<1> QED
  BY <1>2, <1>3

\* The tables that stay, and those of D.
Creating(prev, next, D) ==
    LET A == Both(prev.tables, next.tables) \cup D IN
    Built(next, A, [t \in A |-> StillKeys(prev, next)[t]])

\* One new table.
LEMMA TableComes ==
    ASSUME NEW K, NEW prev, NEW next, Turns(prev, next), NEW D, D \subseteq Gone(next.tables, prev.tables),
           NEW t \in Gone(next.tables, prev.tables) \ D
    PROVE  Leads(K, "tables", Creating(prev, next, D), createTableOps(t, next.tables[t]),
                 Creating(prev, next, D \cup {t}))
<1> DEFINE A == Both(prev.tables, next.tables) \cup D
           B == A \cup {t}
           k == [u \in A |-> StillKeys(prev, next)[u]]
           l == [u \in B |-> IF u = t THEN {} ELSE k[u]]
           E == D \cup {t}
<1>1. A \subseteq DOMAIN next.tables /\ t \in DOMAIN next.tables /\ t \notin A /\ t \notin DOMAIN prev.tables
  BY DEF Both, Gone
<1>2. \A u \in A : u \in DOMAIN next.tables /\ (u \in DOMAIN prev.tables => u \in A)
  BY DEF Both, Gone
<1>3. ASSUME NEW u \in A
      PROVE  k[u] \subseteq DOMAIN next.tables[u].fks
             /\ \A c \in k[u] : next.tables[u].fks[c].table \in A
  <2>1. k[u] = StillKeys(prev, next)[u] /\ u \in DOMAIN next.tables
    BY <1>1
  <2>2. k[u] \subseteq DOMAIN next.tables[u].fks
    BY <2>1, StillIs
  <2>3. ASSUME NEW c \in k[u] PROVE next.tables[u].fks[c].table \in A
    <3>1. next.tables[u].fks[c].table \in DOMAIN next.tables /\ next.tables[u].fks[c].table \in DOMAIN prev.tables
      BY <2>1, StillIs
    <3> QED
      BY <3>1 DEF Both
  <2> QED
    BY <2>2, <2>3
<1>4. Buildable(next, A, k)
  <2> HIDE DEF A, k
  <2> QED
    BY <1>1, <1>3 DEF Buildable
<1>5. Creating(prev, next, D) = Built(next, A, k)
  BY DEF Creating
<1>6. Creating(prev, next, E) = Built(next, B, l)
  <2>1. Both(prev.tables, next.tables) \cup E = B
    OBVIOUS
  <2>2. StillKeys(prev, next)[t] = {}
    BY <1>1 DEF StillKeys
  <2>3. \A u \in B : l[u] = StillKeys(prev, next)[u]
    BY <2>2
  <2>4. l = [u \in B |-> StillKeys(prev, next)[u]]
    BY <2>3
  <2> QED
    BY <2>1, <2>4 DEF Creating
<1>7. Leads(K, "tables", Built(next, A, k), createTableOps(t, next.tables[t]), Built(next, B, l))
  <2>1. WellFormed(next)
    BY DEF Turns
  <2>2. B = A \cup {t} /\ l = [u \in B |-> IF u = t THEN {} ELSE k[u]]
    OBVIOUS
  <2> HIDE DEF A, B, k, l
  <2> QED
    BY <1>1, <1>4, <2>1, <2>2, TableCreated
<1> HIDE DEF A, B, k, l, E
<1>8. Leads(K, "tables", Creating(prev, next, D), createTableOps(t, next.tables[t]), Creating(prev, next, E))
  BY <1>5, <1>6, <1>7
<1> QED
  BY <1>8 DEF E

\* All new tables.
LEMMA TablesCome ==
    ASSUME NEW K, NEW prev, NEW next, Turns(prev, next), NEW G, G = Gone(next.tables, prev.tables)
    PROVE  Leads(K, "tables", Creating(prev, next, {}), TableCreations(G, next.tables), Creating(prev, next, G))
<1> DEFINE T == next.tables
           A == Plain(G, T)
           B == Joins(G, T)
           f == [t \in G |-> createTableOps(t, T[t])]
           m == [D \in SUBSET G |-> Creating(prev, next, D)]
<1>1. AreNames(G)
  BY FewerNames DEF Turns, WellFormed, Gone
<1>2. A \cup B = G /\ A \cap B = {}
  BY DEF Plain, Joins
<1>3. TableCreations(G, T) = Loop(A, f) \o Loop(B, f)
  <2>1. \A t \in G : f[t] = createTableOps(t, T[t])
    OBVIOUS
  <2> HIDE DEF f, T, m
  <2> QED
    BY <1>1, <2>1, CreationsAre
<1>4. ASSUME NEW D \in SUBSET G, NEW t \in G \ D PROVE Leads(K, "tables", m[D], f[t], m[D \cup {t}])
  <2> DEFINE E == D \cup {t}
  <2>1. E \in SUBSET G
    OBVIOUS
  <2>2. m[D] = Creating(prev, next, D) /\ m[E] = Creating(prev, next, E) /\ f[t] = createTableOps(t, next.tables[t])
    BY <2>1
  <2> HIDE DEF m, f
  <2>4. Leads(K, "tables", Creating(prev, next, D), createTableOps(t, next.tables[t]), Creating(prev, next, D \cup {t}))
    BY TableComes
  <2> QED
    BY <2>2, <2>4
<1>5. Leads(K, "tables", m[{}], Loop(A, f) \o Loop(B, f), m[G])
  <2> HIDE DEF m, f, A, B
  <2> QED
    BY <1>1, <1>2, <1>4, LoopsLead
<1>6. m[{}] = Creating(prev, next, {}) /\ m[G] = Creating(prev, next, G)
  OBVIOUS
<1> HIDE DEF m
<1> QED
  BY <1>3, <1>5, <1>6

\* When all that stay have turned, the new ones are next.
LEMMA TablesStay ==
    ASSUME NEW prev, NEW next, Turns(prev, next), NEW B, B = Both(prev.tables, next.tables)
    PROVE  Mixed(prev, next, B) = Creating(prev, next, {})
<1> DEFINE k == [t \in B |-> StillKeys(prev, next)[t]]
<1>1. Creating(prev, next, {}) = [ext |-> next.ext, tables |-> [t \in B |-> Bare(next.tables[t], k[t])]]
  <2>1. Both(prev.tables, next.tables) \cup {} = B
    OBVIOUS
  <2> QED
    BY <2>1 DEF Creating, Built
<1>2. ASSUME NEW t \in B
      PROVE  Bare(next.tables[t], k[t])
                 = LET p == prev.tables[t]  n == next.tables[t] IN Tab(p, n.cols, n.idx, KeptKeys(p, n), n.hyper)
  <2> DEFINE p == prev.tables[t]
             n == next.tables[t]
  <2>1. n.pk = p.pk /\ n.join = p.join
    BY DEF Turns, Expressible, Alterable
  <2>2. k[t] = Kept(p.fks, n.fks)
    BY DEF StillKeys, Both
  <2> HIDE DEF k, p, n
  <2>3. [c \in k[t] |-> n.fks[c]] = KeptKeys(p, n)
    BY <2>2 DEF KeptKeys, Kept
  <2>4. Bare(n, k[t]) = Tab(p, n.cols, n.idx, KeptKeys(p, n), n.hyper)
    BY <2>1, <2>3 DEF Bare, WithFks, Tab
  <2> QED
    BY <2>4 DEF p, n
<1>3. Mixed(prev, next, B) = [ext |-> next.ext, tables |-> [t \in B |->
             LET p == prev.tables[t]  n == next.tables[t] IN Tab(p, n.cols, n.idx, KeptKeys(p, n), n.hyper)]]
  BY DEF Mixed
<1> HIDE DEF k
<1> QED
  BY <1>1, <1>2, <1>3

\* When all have come, the tables are those of the next snapshot, some without keys.
LEMMA TablesCame ==
    ASSUME NEW prev, NEW next, NEW G, G = Gone(next.tables, prev.tables)
    PROVE  Creating(prev, next, G) = Built(next, DOMAIN next.tables, StillKeys(prev, next))
<1>1. Both(prev.tables, next.tables) \cup G = DOMAIN next.tables
  BY DEF Both, Gone
<1>2. [t \in DOMAIN next.tables |-> StillKeys(prev, next)[t]] = StillKeys(prev, next)
  BY DEF StillKeys
<1> QED
  BY <1>1, <1>2 DEF Creating

\* The parts of the diff.
LEMMA DiffIs ==
    ASSUME NEW prev, NEW next
    PROVE  diffSchema(prev, next)
               = diffExtensions(prev.ext, next.ext)
                   \o (TableDrops(Gone(prev.tables, next.tables), prev.tables)
                         \o TableTurns(Both(prev.tables, next.tables), prev.tables, next.tables)
                         \o TableCreations(Gone(next.tables, prev.tables), next.tables))
BY DEF diffSchema, diffTables, TableDrops, TableTurns, TableCreations

\* The diff but for the foreign keys it adds.
LEMMA TablesLead ==
    ASSUME NEW K, NEW prev, NEW next, Turns(prev, next), K \subseteq Ordinary(next)
    PROVE  Leads(K, "tables", prev, diffSchema(prev, next),
                 Built(next, DOMAIN next.tables, StillKeys(prev, next)))
<1> DEFINE G == Gone(prev.tables, next.tables)
           B == Both(prev.tables, next.tables)
           C == Gone(next.tables, prev.tables)
           P == prev.tables
           N == next.tables
           X == prev.ext
           Y == next.ext
           f == [t \in B |-> diffTable(t, P[t], N[t])]
           drops == TableDrops(G, P)
           turns == TableTurns(B, P, N)
           comes == TableCreations(C, N)
           d0 == WithExt(prev, Y)
           d1 == Mixed(prev, next, {})
           d2 == Mixed(prev, next, B)
           d3 == Creating(prev, next, C)
<1>1. Leads(K, "tables", prev, diffExtensions(X, Y), d0)
  <2>1. Shape(prev) /\ AreNames(X) /\ AreNames(Y)
    BY DEF Turns, WellFormed
  <2>2. \A x \in X \ Y : \A u \in DOMAIN prev.tables : \A c \in DOMAIN prev.tables[u].cols :
            ExtensionOf[prev.tables[u].cols[c].type] # x
    BY DEF Turns, Expressible
  <2>3. X = prev.ext
    OBVIOUS
  <2> HIDE DEF X, Y, P, N
  <2> QED
    BY <2>1, <2>2, <2>3, ExtensionsTurned
<1>2. Leads(K, "tables", d0, drops, d1)
  BY TablesGone
<1>3. AreNames(B)
  BY FewerNames DEF Turns, WellFormed, Both
<1>4. turns = Loop(B, f)
  <2>1. B = Both(P, N) /\ \A t \in B : f[t] = diffTable(t, P[t], N[t])
    OBVIOUS
  <2> HIDE DEF B, P, N, f
  <2> QED
    BY <1>3, <2>1, TurnsAre
<1>5. Leads(K, "tables", d1, Loop(B, f), d2)
  <2>1. B = Both(prev.tables, next.tables) /\ \A t \in B : f[t] = diffTable(t, prev.tables[t], next.tables[t])
    OBVIOUS
  <2> HIDE DEF B, P, N, f
  <2> QED
    BY <2>1, TablesTurned
<1>6. d2 = Creating(prev, next, {})
  BY TablesStay
<1>7. Leads(K, "tables", d2, comes, d3)
  <2>1. C = Gone(next.tables, prev.tables)
    OBVIOUS
  <2> HIDE DEF C
  <2>2. Leads(K, "tables", Creating(prev, next, {}), TableCreations(C, next.tables), Creating(prev, next, C))
    BY <2>1, TablesCome
  <2> QED
    BY <1>6, <2>2
<1>8. d3 = Built(next, DOMAIN next.tables, StillKeys(prev, next))
  BY TablesCame
<1>9. diffSchema(prev, next) = diffExtensions(X, Y) \o (drops \o turns \o comes)
  BY DiffIs
<1> HIDE DEF G, B, C, P, N, X, Y, f, drops, turns, comes, d0, d1, d2, d3
<1>10. Leads(K, "tables", d0, drops \o turns, d2)
  BY <1>2, <1>4, <1>5, LeadsOn
<1>11. Leads(K, "tables", d0, drops \o turns \o comes, d3)
  BY <1>7, <1>10, LeadsOn
<1>12. Leads(K, "tables", prev, diffExtensions(X, Y) \o (drops \o turns \o comes), d3)
  BY <1>1, <1>11, LeadsOn
<1> QED
  BY <1>8, <1>9, <1>12

\* All tables there will be, with the keys that stay and those of the tables D.
Keying(prev, next, D) == Built(next, DOMAIN next.tables, KeysSoFar(prev, next, D))

LEMMA KeyingIs ==
    ASSUME NEW prev, NEW next, Turns(prev, next), NEW D
    PROVE  Buildable(next, DOMAIN next.tables, KeysSoFar(prev, next, D))
<1> DEFINE N == DOMAIN next.tables
           k == KeysSoFar(prev, next, D)
<1>1. Shape(next)
  BY DEF Turns, WellFormed
<1>2. ASSUME NEW t \in N PROVE k[t] \subseteq DOMAIN next.tables[t].fks
  <2>1. StillKeys(prev, next)[t] \subseteq DOMAIN next.tables[t].fks
    BY StillIs
  <2> QED
    BY <2>1 DEF KeysSoFar
<1>3. ASSUME NEW t \in N, NEW c \in k[t] PROVE next.tables[t].fks[c].table \in N
  <2>1. c \in DOMAIN next.tables[t].fks
    BY <1>2
  <2> HIDE DEF k
  <2> QED
    BY <1>1, <2>1 DEF Shape, Refers
<1> HIDE DEF N, k
<1>4. Buildable(next, N, k)
  BY <1>2, <1>3 DEF Buildable, N
<1> QED
  BY <1>4 DEF N, k

\* The keys of one table.
LEMMA KeysCome ==
    ASSUME NEW K, NEW prev, NEW next, Turns(prev, next), NEW t \in DOMAIN next.tables, NEW D, t \notin D,
           NEW p, t \in DOMAIN prev.tables => p = prev.tables[t].fks,
           t \notin DOMAIN prev.tables => p = Nothing
    PROVE  Leads(K, "keys", Keying(prev, next, D), ForeignKeyAdds(t, p, next.tables[t].fks),
                 Keying(prev, next, D \cup {t}))
<1> DEFINE N == DOMAIN next.tables
           n == next.tables[t].fks
           k == KeysSoFar(prev, next, D)
           E == D \cup {t}
           l == KeysSoFar(prev, next, E)
<1>1. Buildable(next, N, k)
  BY KeyingIs
<1>2. k[t] = DOMAIN n \ Differ(n, p)
  <2>1. k[t] = StillKeys(prev, next)[t]
    BY DEF KeysSoFar
  <2>2. CASE t \in DOMAIN prev.tables
    <3>1. k[t] = Kept(p, n)
      BY <2>1, <2>2 DEF StillKeys
    <3> HIDE DEF n, k
    <3> QED
      BY <3>1 DEF Kept, Both, Gone, Differ
  <2>3. CASE t \notin DOMAIN prev.tables
    <3>1. k[t] = {} /\ DOMAIN p = {}
      BY <2>1, <2>3 DEF StillKeys, Nothing
    <3> HIDE DEF n, k
    <3> QED
      BY <3>1 DEF Both, Gone, Differ
  <2> QED
    BY <2>2, <2>3
<1>3. l = [u \in N |-> IF u = t THEN DOMAIN n ELSE k[u]]
  <2>1. ASSUME NEW u \in N PROVE l[u] = IF u = t THEN DOMAIN n ELSE k[u]
    BY DEF KeysSoFar
  <2>2. l = [u \in N |-> l[u]]
    BY DEF KeysSoFar
  <2> HIDE DEF l
  <2> QED
    BY <2>1, <2>2
<1>4. WellFormed(next) /\ \A c \in DOMAIN n : n[c].table \in N
  BY DEF Turns, WellFormed, Shape, Refers
<1>5. Leads(K, "keys", Built(next, N, k), ForeignKeyAdds(t, p, n), Built(next, N, l))
  <2>1. t \in N /\ "keys" \in {"keys", "all"} /\ n = next.tables[t].fks
    OBVIOUS
  <2> HIDE DEF N, n, k, l
  <2> QED
    BY <1>1, <1>2, <1>3, <1>4, <2>1, KeysBuilt
<1> HIDE DEF E
<1>6. Leads(K, "keys", Keying(prev, next, D), ForeignKeyAdds(t, p, next.tables[t].fks), Keying(prev, next, E))
  BY <1>5 DEF Keying
<1> QED
  BY <1>6 DEF E

\* The keys of the tables that stay.
LEMMA KeyTurns ==
    ASSUME NEW K, NEW prev, NEW next, Turns(prev, next),
           NEW B, B = Both(prev.tables, next.tables)
    PROVE  Leads(K, "keys", Keying(prev, next, {}), TableTurns(B, prev.tables, next.tables), Keying(prev, next, B))
<1> DEFINE P == prev.tables
           N == next.tables
           f == [t \in B |-> diffTable(t, P[t], N[t])]
           m == [D \in SUBSET B |-> Keying(prev, next, D)]
<1>1. AreNames(B)
  BY FewerNames DEF Turns, WellFormed, Both
<1>2. TableTurns(B, P, N) = Loop(B, f)
  <2>1. B = Both(P, N) /\ \A t \in B : f[t] = diffTable(t, P[t], N[t])
    OBVIOUS
  <2> HIDE DEF P, N, f, m
  <2> QED
    BY <1>1, <2>1, TurnsAre
<1>3. ASSUME NEW D \in SUBSET B, NEW t \in B \ D PROVE Leads(K, "keys", m[D], f[t], m[D \cup {t}])
  <2> DEFINE E == D \cup {t}
             p == prev.tables[t]
             n == next.tables[t]
             q == p.fks
  <2>1. E \in SUBSET B /\ t \in DOMAIN next.tables /\ t \in DOMAIN prev.tables /\ t \notin D
    BY DEF Both
  <2>2. m[D] = Keying(prev, next, D) /\ m[E] = Keying(prev, next, E) /\ f[t] = diffTable(t, p, n)
    BY <2>1
  <2>3. /\ AreNames(DOMAIN p.cols) /\ AreNames(DOMAIN p.idx) /\ AreNames(DOMAIN p.fks)
        /\ AreNames(DOMAIN n.cols) /\ AreNames(DOMAIN n.idx) /\ AreNames(DOMAIN n.fks)
    BY <2>1, TableNames DEF Turns
  <2>4. Leads(K, "keys", Keying(prev, next, D), ForeignKeyAdds(t, q, next.tables[t].fks), Keying(prev, next, D \cup {t}))
    <3>1. q = prev.tables[t].fks
      OBVIOUS
    <3> HIDE DEF q, n, p, E, m, f, P, N
    <3> QED
      BY <2>1, <3>1, KeysCome
  <2> HIDE DEF m, f, P, N
  <2>5. Leads(K, "keys", Keying(prev, next, D), ForeignKeyAdds(t, p.fks, n.fks), Keying(prev, next, E))
    BY <2>4
  <2> HIDE DEF E, p, n, q
  <2>6. Leads(K, "keys", Keying(prev, next, D), diffTable(t, p, n), Keying(prev, next, E))
    BY <2>3, <2>5, TableKeys
  <2>7. Leads(K, "keys", m[D], f[t], m[E])
    BY <2>2, <2>6
  <2> QED
    BY <2>7 DEF E
<1>4. Leads(K, "keys", m[{}], Loop(B, f), m[B])
  <2> HIDE DEF m, f, P, N
  <2> QED
    BY <1>1, <1>3, LoopTurns
<1>5. m[{}] = Keying(prev, next, {}) /\ m[B] = Keying(prev, next, B)
  OBVIOUS
<1> HIDE DEF m
<1> QED
  BY <1>2, <1>4, <1>5

\* The keys of the tables that are new.
LEMMA KeyCreations ==
    ASSUME NEW K, NEW prev, NEW next, Turns(prev, next),
           NEW G, G = Gone(next.tables, prev.tables), NEW B, B = Both(prev.tables, next.tables)
    PROVE  Leads(K, "keys", Keying(prev, next, B), TableCreations(G, next.tables), Keying(prev, next, B \cup G))
<1> DEFINE T == next.tables
           A == Plain(G, T)
           C == Joins(G, T)
           f == [t \in G |-> createTableOps(t, T[t])]
           m == [D \in SUBSET G |-> Keying(prev, next, B \cup D)]
<1>1. AreNames(G)
  BY FewerNames DEF Turns, WellFormed, Gone
<1>2. A \cup C = G /\ A \cap C = {}
  BY DEF Plain, Joins
<1>3. TableCreations(G, T) = Loop(A, f) \o Loop(C, f)
  <2>1. \A t \in G : f[t] = createTableOps(t, T[t])
    OBVIOUS
  <2> HIDE DEF f, T, m
  <2> QED
    BY <1>1, <2>1, CreationsAre
<1>4. ASSUME NEW D \in SUBSET G, NEW t \in G \ D PROVE Leads(K, "keys", m[D], f[t], m[D \cup {t}])
  <2> DEFINE E == D \cup {t}
             H == B \cup D
             n == next.tables[t]
  <2>1. E \in SUBSET G /\ t \in DOMAIN next.tables /\ t \notin DOMAIN prev.tables /\ t \notin H
        /\ H \cup {t} = B \cup E
    BY DEF Both, Gone
  <2>2. m[D] = Keying(prev, next, H) /\ m[E] = Keying(prev, next, H \cup {t}) /\ f[t] = createTableOps(t, n)
    BY <2>1
  <2>3. AreNames(DOMAIN n.idx) /\ AreNames(DOMAIN n.fks)
    BY <2>1, TableNames DEF Turns
  <2>4. Leads(K, "keys", Keying(prev, next, H), ForeignKeyAdds(t, Nothing, next.tables[t].fks),
              Keying(prev, next, H \cup {t}))
    <3> HIDE DEF H, n, E, m, f, T
    <3> QED
      BY <2>1, KeysCome
  <2>5. ASSUME NEW c \in DOMAIN n.fks
        PROVE  n.fks[c] = [table |-> n.fks[c].table, column |-> n.fks[c].column, onDelete |-> None]
    <3>1. n.fks[c] = [table |-> n.fks[c].table, column |-> n.fks[c].column, onDelete |-> n.fks[c].onDelete]
      <4> DEFINE g == next.tables[t].fks[c]
      <4>1. WellFormed(next)
        BY DEF Turns
      <4>2. c \in DOMAIN next.tables[t].fks /\ t \in DOMAIN next.tables /\ g = next.tables[t].fks[c]
        BY <2>1
      <4> HIDE DEF g
      <4>3. g = [table |-> g.table, column |-> g.column, onDelete |-> g.onDelete]
        BY <4>1, <4>2, KeyIs
      <4> QED
        BY <4>3 DEF g
    <3>2. n.fks[c].onDelete = None
      BY DEF Turns, Expressible
    <3> HIDE DEF n
    <3> QED
      BY <3>1, <3>2
  <2> HIDE DEF m, f, T, H
  <2>6. Leads(K, "keys", Keying(prev, next, H), createTableOps(t, n), Keying(prev, next, H \cup {t}))
    <3>1. Leads(K, "keys", Keying(prev, next, H), ForeignKeyAdds(t, Nothing, n.fks), Keying(prev, next, H \cup {t}))
      BY <2>4
    <3> HIDE DEF n
    <3> QED
      BY <2>3, <2>5, <3>1, CreatedKeys
  <2> HIDE DEF E, n
  <2>7. Leads(K, "keys", m[D], f[t], m[E])
    BY <2>2, <2>6
  <2> QED
    BY <2>7 DEF E
<1>5. Leads(K, "keys", m[{}], Loop(A, f) \o Loop(C, f), m[G])
  <2> HIDE DEF m, f, A, C
  <2> QED
    BY <1>1, <1>2, <1>4, LoopsLead
<1>6. m[{}] = Keying(prev, next, B) /\ m[G] = Keying(prev, next, B \cup G)
  <2>1. {} \in SUBSET G /\ G \in SUBSET G /\ B \cup {} = B
    OBVIOUS
  <2>2. m[{}] = Keying(prev, next, B \cup {}) /\ m[G] = Keying(prev, next, B \cup G)
    BY <2>1
  <2> QED
    BY <2>1, <2>2
<1> HIDE DEF m
<1> QED
  BY <1>3, <1>5, <1>6

\* What the extensions and the dropped tables leave to the foreign keys.
LEMMA DropsSkip ==
    ASSUME NEW K, NEW d, NEW S, AreNames(S), NEW tables
    PROVE  Leads(K, "keys", d, TableDrops(S, tables), d)
<1> DEFINE f == [t \in S |-> <<Op("drop_table", t, 0, None)>>]
           op == [t \in S |-> Op("drop_table", t, 0, None)]
           A == Plain(S, tables)
           B == Joins(S, tables)
<1>1. AreNames(A) /\ AreNames(B) /\ A \subseteq S /\ B \subseteq S
  BY FewerNames DEF Plain, Joins
<1>2. \A t \in S : f[t] = <<Op("drop_table", t, 0, None)>> /\ f[t] = <<op[t]>> /\ ~Taken("keys", op[t])
  BY DEF Taken, Op
<1>3. TableDrops(S, tables) = Loop(A, f) \o Loop(B, f)
  <2>1. \A t \in S : f[t] = <<Op("drop_table", t, 0, None)>>
    OBVIOUS
  <2> HIDE DEF f
  <2> QED
    BY <2>1, DropsAre
<1> HIDE DEF f, op, A, B
<1>4. Leads(K, "keys", d, Loop(A, f), d) /\ Leads(K, "keys", d, Loop(B, f), d)
  BY <1>1, <1>2, SinglesSkip
<1> QED
  BY <1>3, <1>4, LeadsOn

LEMMA ExtensionsSkip ==
    ASSUME NEW K, NEW d, NEW p, NEW n, AreNames(p), AreNames(n)
    PROVE  Leads(K, "keys", d, diffExtensions(p, n), d)
<1> DEFINE A == p \ n
           B == n \ p
           f == [x \in A |-> <<Op("drop_extension", 0, x, None)>>]
           g == [x \in B |-> <<Op("create_extension", 0, x, None)>>]
           op == [x \in A |-> Op("drop_extension", 0, x, None)]
           oq == [x \in B |-> Op("create_extension", 0, x, None)]
<1>1. AreNames(A) /\ AreNames(B)
  BY FewerNames
<1>2. \A x \in A : f[x] = <<op[x]>> /\ ~Taken("keys", op[x])
  BY DEF Taken, Op
<1>3. \A x \in B : g[x] = <<oq[x]>> /\ ~Taken("keys", oq[x])
  BY DEF Taken, Op
<1>4. diffExtensions(p, n) = Loop(A, f) \o Loop(B, g)
  BY ExtensionsAre
<1> HIDE DEF f, g, op, oq, A, B
<1>5. Leads(K, "keys", d, Loop(A, f), d)
  BY <1>1, <1>2, SinglesSkip
<1>6. Leads(K, "keys", d, Loop(B, g), d)
  BY <1>1, <1>3, SinglesSkip
<1> QED
  BY <1>4, <1>5, <1>6, LeadsOn

\* With all keys, the database is the snapshot.
LEMMA KeyedIs ==
    ASSUME NEW prev, NEW next, Turns(prev, next),
           NEW G, G = Gone(next.tables, prev.tables), NEW B, B = Both(prev.tables, next.tables)
    PROVE  Keying(prev, next, B \cup G) = next
<1> DEFINE k == KeysSoFar(prev, next, B \cup G)
<1>1. B \cup G = DOMAIN next.tables /\ Shape(next)
  BY DEF Both, Gone, Turns, WellFormed
<1>2. ASSUME NEW t \in DOMAIN next.tables PROVE Bare(next.tables[t], k[t]) = next.tables[t]
  <2>1. k[t] = DOMAIN next.tables[t].fks
    BY <1>1 DEF KeysSoFar
  <2> HIDE DEF k
  <2> QED
    BY <1>1, <2>1, BareIs
<1>3. next = [ext |-> next.ext, tables |-> next.tables]
      /\ next.tables = [t \in DOMAIN next.tables |-> next.tables[t]]
  BY <1>1 DEF Shape, IsMap
<1> HIDE DEF k
<1>4. Keying(prev, next, B \cup G) = [ext |-> next.ext, tables |-> [t \in DOMAIN next.tables |-> Bare(next.tables[t], k[t])]]
  BY DEF Keying, Built, k
<1> QED
  BY <1>2, <1>3, <1>4

\* The foreign keys the diff adds.
LEMMA KeysLead ==
    ASSUME NEW K, NEW prev, NEW next, Turns(prev, next)
    PROVE  Leads(K, "keys", Built(next, DOMAIN next.tables, StillKeys(prev, next)), diffSchema(prev, next), next)
<1> DEFINE G == Gone(prev.tables, next.tables)
           B == Both(prev.tables, next.tables)
           C == Gone(next.tables, prev.tables)
           P == prev.tables
           N == next.tables
           X == prev.ext
           Y == next.ext
           drops == TableDrops(G, P)
           turns == TableTurns(B, P, N)
           comes == TableCreations(C, N)
           d0 == Keying(prev, next, {})
           d1 == Keying(prev, next, B)
           d2 == Keying(prev, next, B \cup C)
<1>1. Leads(K, "keys", d0, diffExtensions(X, Y), d0)
  <2>1. AreNames(X) /\ AreNames(Y)
    BY DEF Turns, WellFormed
  <2> HIDE DEF X, Y, d0
  <2> QED
    BY <2>1, ExtensionsSkip
<1>2. Leads(K, "keys", d0, drops, d0)
  <2>1. AreNames(G)
    BY FewerNames DEF Turns, WellFormed, Gone
  <2> HIDE DEF d0, G, P
  <2> QED
    BY <2>1, DropsSkip
<1>3. Leads(K, "keys", d0, turns, d1)
  BY KeyTurns
<1>4. Leads(K, "keys", d1, comes, d2)
  BY KeyCreations
<1>5. d2 = next
  BY KeyedIs
<1>6. d0 = Built(next, DOMAIN next.tables, StillKeys(prev, next))
  <2>1. KeysSoFar(prev, next, {}) = StillKeys(prev, next)
    BY DEF KeysSoFar, StillKeys
  <2> QED
    BY <2>1 DEF Keying
<1>7. diffSchema(prev, next) = diffExtensions(X, Y) \o (drops \o turns \o comes)
  BY DiffIs
<1> HIDE DEF G, B, C, P, N, X, Y, drops, turns, comes, d0, d1, d2
<1>8. Leads(K, "keys", d0, drops \o turns, d1)
  BY <1>2, <1>3, LeadsOn
<1>9. Leads(K, "keys", d0, drops \o turns \o comes, d2)
  BY <1>4, <1>8, LeadsOn
<1>10. Leads(K, "keys", d0, diffExtensions(X, Y) \o (drops \o turns \o comes), d2)
  BY <1>1, <1>9, LeadsOn
<1> QED
  BY <1>5, <1>6, <1>7, <1>10

\* The files of a diff take the database from the one snapshot to the other,
\* and no ordinary column of K there is on the way.
LEMMA DiffLeads ==
    ASSUME NEW K, NEW prev, NEW next, Turns(prev, next), K \subseteq Ordinary(next),
           NEW ops, ops = orderMigrationOperations(diffSchema(prev, next))
    PROVE  Chain(K, prev, chunkMigrationOperations(ops), next) /\ (ops = <<>> => prev = next)
<1>1. Leads(K, "all", prev, ops, next)
  BY TablesLead, KeysLead, OrderLeads
<1>2. Chain(K, prev, chunkMigrationOperations(ops), next)
  BY <1>1, ChunkLeads
<1>3. ops = <<>> => prev = next
  <2> HAVE ops = <<>>
  <2>1. Len(ops) = 0
    OBVIOUS
  <2> QED
    BY <1>1, <2>1 DEF Leads
<1> QED
  BY <1>2, <1>3

-----------------------------------------------------------------------------
(* Kahn's algorithm. *)

Ready(tables, done) == {t \in DOMAIN tables \ ToSet(done) : Parents(tables, t) \subseteq ToSet(done)}
\* What Kahn's algorithm has placed so far, and the steps of it.
Placed(tables, done) ==
    IF Ready(tables, done) = {} THEN done ELSE Append(done, Min(Ready(tables, done)))

LEMMA KahnSteps ==
    ASSUME NEW tables, Cardinality(DOMAIN tables) \in Nat
    PROVE  \E f : /\ f[0] = <<>>
                  /\ \A k \in 1..Cardinality(DOMAIN tables) : f[k] = Placed(tables, f[k - 1])
                  /\ sortEntityMigrations(tables)
                         = f[Cardinality(DOMAIN tables)]
                             \o Sorted(DOMAIN tables \ ToSet(f[Cardinality(DOMAIN tables)]))
<1> DEFINE n == Cardinality(DOMAIN tables)
           After(a) == Placed(tables, a)
           Run(f, m) == f = [k \in 0..m |-> IF k = 0 THEN <<>> ELSE After(f[k - 1])]
           Short == {m \in Nat : ~\E f : Run(f, m)}
           g == CHOOSE f : Run(f, n)
<1>1. sortEntityMigrations(tables) = g[n] \o Sorted(DOMAIN tables \ ToSet(g[n]))
  BY DEF sortEntityMigrations, Placed, Ready
<1> HIDE DEF After
<1>2. Short = {}
  <2> SUFFICES ASSUME Short # {} PROVE FALSE
    OBVIOUS
  <2>1. PICK m \in Short : \A l \in Short : m <= l
    BY LeastNumber
  <2>2. m \in Nat /\ ~\E f : Run(f, m)
    OBVIOUS
  <2>3. CASE m = 0
    <3> DEFINE h == [k \in 0..0 |-> <<>>]
    <3>1. Run(h, 0)
      OBVIOUS
    <3> QED
      BY <2>2, <2>3, <3>1
  <2>4. CASE m # 0
    <3>1. m - 1 \in Nat /\ ~ (m <= m - 1)
      BY <2>2, <2>4
    <3>2. PICK f : Run(f, m - 1)
      BY <2>1, <3>1
    <3> DEFINE h == [k \in 0..m |-> IF k < m THEN f[k] ELSE After(f[m - 1])]
    <3>3. \A k \in 0..(m - 1) : f[k] = IF k = 0 THEN <<>> ELSE After(f[k - 1])
      BY <3>2
    <3>4. ASSUME NEW k \in 0..m
          PROVE  h[k] = IF k = 0 THEN <<>> ELSE After(h[k - 1])
      <4>1. CASE k < m
        <5>1. k \in 0..(m - 1) /\ h[k] = f[k] /\ (k # 0 => h[k - 1] = f[k - 1])
          BY <2>2, <4>1
        <5> QED
          BY <3>3, <5>1
      <4>2. CASE ~ (k < m)
        <5>1. k = m /\ k # 0 /\ h[m] = After(f[m - 1]) /\ h[m - 1] = f[m - 1]
          BY <2>2, <2>4, <3>1, <4>2
        <5> QED
          BY <5>1
      <4> QED
        BY <4>1, <4>2
    <3>5. Run(h, m)
      BY <3>4
    <3> QED
      BY <2>2, <3>5
  <2> QED
    BY <2>3, <2>4
<1>3. Run(g, n)
  BY <1>2
<1> HIDE DEF g
<1>4. \A k \in 0..n : g[k] = IF k = 0 THEN <<>> ELSE After(g[k - 1])
  BY <1>3
<1>5. g[0] = <<>> /\ \A k \in 1..n : g[k] = After(g[k - 1])
  BY <1>4
<1> QED
  BY <1>1, <1>5 DEF After

\* A list in which nothing comes twice.
Once(s) == IsList(s) /\ \A i, j \in 1..Len(s) : s[i] = s[j] => i = j

LEMMA OnceCounts ==
    ASSUME NEW s, Once(s)
    PROVE  IsFiniteSet(ToSet(s)) /\ Cardinality(ToSet(s)) = Len(s)
<1> DEFINE n == Len(s)
           S == ToSet(s)
<1>1. n \in Nat /\ DOMAIN s = 1..n /\ IsList(s)
  BY ListIs DEF Once
<1>2. s \in [1..n -> S]
  <2>1. s = [i \in DOMAIN s |-> s[i]]
    BY <1>1 DEF IsList
  <2> QED
    BY <1>1, <2>1 DEF ToSet
<1>3. s \in Injection(1..n, S) /\ s \in Surjection(1..n, S)
  BY <1>1, <1>2 DEF Injection, Surjection, IsInjective, ToSet, Once
<1>4. ExistsBijection(1..n, S)
  BY <1>3 DEF ExistsBijection, Bijection
<1>5. IsFiniteSet(1..n) /\ Cardinality(1..n) = n
  <2>1. 1 \in Int /\ n \in Int /\ n - 1 + 1 = n /\ (1 > n => n = 0)
    BY <1>1
  <2> HIDE DEF n
  <2> QED
    BY <2>1, FS_Interval
<1> QED
  BY <1>4, <1>5, FS_Bijection

\* Each of its tables comes once, after the tables it refers to.
Ordered(tables, s) ==
    /\ Once(s)
    /\ \A i \in 1..Len(s) :
           s[i] \in DOMAIN tables /\ \A u \in Parents(tables, s[i]) : \E j \in 1..(i - 1) : s[j] = u

LEMMA PlacedIs ==
    ASSUME NEW tables, AreNames(DOMAIN tables), NEW s, Ordered(tables, s), NEW r, r = Placed(tables, s)
    PROVE  Ordered(tables, r) /\ (Ready(tables, s) = {} => r = s)
           /\ (Ready(tables, s) # {} => Len(r) = Len(s) + 1)
<1>1. IsList(s) /\ Len(s) \in Nat /\ DOMAIN s = 1..Len(s)
  BY ListIs DEF Ordered, Once
<1>2. CASE Ready(tables, s) = {}
  BY <1>2 DEF Placed
<1>3. CASE Ready(tables, s) # {}
  <2> DEFINE R == Ready(tables, s)
             t == Min(R)
  <2>1. R \in SUBSET Nat
    BY DEF Ready, AreNames
  <2>2. \E n \in R : \A m \in R : n <= m
    BY <1>3, <2>1, LeastNumber
  <2>3. t \in R
    BY <2>2 DEF Min
  <2>4. t \in DOMAIN tables /\ t \notin ToSet(s) /\ Parents(tables, t) \subseteq ToSet(s)
    BY <2>3 DEF Ready
  <2>5. r = Append(s, t)
    BY <1>3 DEF Placed
  <2> HIDE DEF R, t
  <2>6. /\ IsList(r) /\ Len(r) = Len(s) + 1
        /\ \A i \in 1..(Len(s) + 1) : r[i] = IF i <= Len(s) THEN s[i] ELSE t
    BY <1>1, <2>5, AppendIs
  <2>7. \A i \in 1..Len(s) : r[i] = s[i] /\ s[i] # t
    BY <1>1, <2>4, <2>6 DEF ToSet
  <2>8. r[Len(s) + 1] = t
    BY <1>1, <2>6
  <2>9. \A i \in 1..Len(r) : i \in 1..Len(s) \/ i = Len(s) + 1
    BY <1>1, <2>6
  <2>10. Once(r)
    <3>1. ASSUME NEW i \in 1..Len(r), NEW j \in 1..Len(r), r[i] = r[j] PROVE i = j
      BY <2>7, <2>8, <2>9, <3>1 DEF Ordered, Once
    <3> QED
      BY <2>6, <3>1 DEF Once
  <2>11. ASSUME NEW i \in 1..Len(r)
         PROVE  r[i] \in DOMAIN tables /\ \A u \in Parents(tables, r[i]) : \E j \in 1..(i - 1) : r[j] = u
    <3>1. CASE i \in 1..Len(s)
      <4>1. r[i] = s[i] /\ s[i] \in DOMAIN tables
        BY <2>7, <3>1 DEF Ordered
      <4>2. ASSUME NEW u \in Parents(tables, s[i]) PROVE \E j \in 1..(i - 1) : r[j] = u
        <5>1. PICK j \in 1..(i - 1) : s[j] = u
          BY <3>1 DEF Ordered
        <5>2. j \in 1..Len(s)
          BY <1>1, <3>1
        <5> QED
          BY <2>7, <5>1, <5>2
      <4> QED
        BY <4>1, <4>2
    <3>2. CASE i = Len(s) + 1
      <4>1. r[i] = t /\ i - 1 = Len(s)
        BY <1>1, <2>8, <3>2
      <4>2. ASSUME NEW u \in Parents(tables, t) PROVE \E j \in 1..(i - 1) : r[j] = u
        <5>1. PICK j \in 1..Len(s) : s[j] = u
          BY <1>1, <2>4 DEF ToSet
        <5> QED
          BY <2>7, <4>1, <5>1
      <4> QED
        BY <2>4, <4>1, <4>2
    <3> QED
      BY <2>9, <3>1, <3>2
  <2> QED
    BY <1>3, <2>6, <2>10, <2>11 DEF Ordered
<1> QED
  BY <1>2, <1>3

\* It ends with nothing ready: what is left over leads to a cycle.
LEMMA KahnIs ==
    ASSUME NEW tables, AreNames(DOMAIN tables)
    PROVE  \E free : /\ Ordered(tables, free) /\ Ready(tables, free) = {}
                     /\ sortEntityMigrations(tables) = free \o Sorted(DOMAIN tables \ ToSet(free))
<1> DEFINE n == Cardinality(DOMAIN tables)
<1>1. n \in Nat /\ IsFiniteSet(DOMAIN tables)
  BY FS_CardinalityType DEF AreNames
<1>2. PICK f : /\ f[0] = <<>>
               /\ \A k \in 1..n : f[k] = Placed(tables, f[k - 1])
               /\ sortEntityMigrations(tables) = f[n] \o Sorted(DOMAIN tables \ ToSet(f[n]))
  BY <1>1, KahnSteps
<1> DEFINE Good(k) == Ordered(tables, f[k]) /\ (Ready(tables, f[k]) = {} \/ Len(f[k]) = k)
           Bad == {k \in 0..n : ~Good(k)}
<1>3. Bad = {}
  <2> SUFFICES ASSUME Bad # {} PROVE FALSE
    OBVIOUS
  <2>1. Bad \in SUBSET Nat
    BY <1>1
  <2>2. PICK k \in Bad : \A l \in Bad : k <= l
    BY <2>1, LeastNumber
  <2>3. k \in 0..n /\ ~Good(k)
    OBVIOUS
  <2>4. CASE k = 0
    <3>1. f[0] = <<>> /\ Len(f[0]) = 0
      BY <1>2
    <3>2. IsList(<<>>) /\ Len(<<>>) = 0
      BY DEF IsList, Range
    <3>3. Ordered(tables, f[0])
      BY <3>1, <3>2 DEF Ordered, Once
    <3> QED
      BY <2>3, <2>4, <3>1, <3>3
  <2>5. CASE k # 0
    <3> DEFINE l == k - 1
    <3>1. l \in 0..n /\ ~ (k <= l) /\ k \in 1..n /\ l \in Nat
      BY <1>1, <2>3, <2>5
    <3>2. Good(l)
      BY <2>2, <3>1
    <3>3. f[k] = Placed(tables, f[l])
      BY <1>2, <3>1
    <3>4. /\ Ordered(tables, f[k]) /\ (Ready(tables, f[l]) = {} => f[k] = f[l])
          /\ (Ready(tables, f[l]) # {} => Len(f[k]) = Len(f[l]) + 1)
      BY <3>2, <3>3, PlacedIs
    <3>5. Len(f[l]) = l => Len(f[l]) + 1 = k
      BY <2>3
    <3> HIDE DEF l
    <3>6. Good(k)
      BY <3>2, <3>4, <3>5
    <3> QED
      BY <2>3, <3>6
  <2> QED
    BY <2>4, <2>5
<1>4. Good(n)
  BY <1>1, <1>3
<1>5. Ready(tables, f[n]) = {}
  <2> SUFFICES ASSUME Ready(tables, f[n]) # {} PROVE FALSE
    OBVIOUS
  <2>1. Len(f[n]) = n /\ Once(f[n])
    BY <1>4 DEF Ordered
  <2>2. Cardinality(ToSet(f[n])) = n
    BY <2>1, OnceCounts
  <2>3. ToSet(f[n]) \subseteq DOMAIN tables
    <3>1. DOMAIN f[n] = 1..Len(f[n])
      BY <2>1, ListIs DEF Once
    <3> QED
      BY <1>4, <3>1 DEF ToSet, Ordered
  <2>4. ToSet(f[n]) = DOMAIN tables
    BY <1>1, <2>2, <2>3, FS_Subset
  <2> QED
    BY <2>4 DEF Ready
<1> HIDE DEF n
<1> QED
  BY <1>2, <1>4, <1>5

\* A table that leads to no cycle comes after the tables it refers to.
ParentsBefore(tables, s) ==
    \A i \in 1..Len(s) : ~LeadsToCycle(tables, s[i]) =>
        \A u \in Parents(tables, s[i]) : \E j \in 1..(i - 1) : s[j] = u

\* Every table is there, once.
LEMMA SortIs ==
    ASSUME NEW tables, AreNames(DOMAIN tables), NEW s, s = sortEntityMigrations(tables)
    PROVE  /\ Once(s) /\ ToSet(s) = DOMAIN tables /\ Len(s) = Cardinality(DOMAIN tables)
           /\ ParentsBefore(tables, s)
<1>1. PICK free : /\ Ordered(tables, free) /\ Ready(tables, free) = {}
                  /\ sortEntityMigrations(tables) = free \o Sorted(DOMAIN tables \ ToSet(free))
  BY KahnIs
<1> DEFINE R == DOMAIN tables \ ToSet(free)
           r == Sorted(R)
<1>2. IsList(free) /\ Len(free) \in Nat /\ DOMAIN free = 1..Len(free)
  BY <1>1, ListIs DEF Ordered, Once
<1>3. R \in SUBSET Nat /\ IsFiniteSet(R)
  <2>1. AreNames(R)
    BY FewerNames
  <2> QED
    BY <2>1 DEF AreNames
<1>4. /\ IsList(r) /\ \A i \in 1..Len(r) : r[i] \in R
      /\ \A x \in R : \E i \in 1..Len(r) : r[i] = x
      /\ \A i, j \in 1..Len(r) : i < j => r[i] < r[j]
  BY <1>3, SortedIs
<1>5. Len(r) \in Nat
  BY <1>4, ListIs
<1>6. s = free \o r
  BY <1>1
<1>7. \A u \in R : Parents(tables, u) \cap R # {}
  <2>1. \A u \in R : ~ (Parents(tables, u) \subseteq ToSet(free))
    BY <1>1 DEF Ready
  <2>2. \A u : Parents(tables, u) \subseteq DOMAIN tables
    BY DEF Parents
  <2> QED
    BY <2>1, <2>2
<1>8. \A u \in R : LeadsToCycle(tables, u)
  <2>1. R \in SUBSET DOMAIN tables
    OBVIOUS
  <2> QED
    BY <1>7, <2>1 DEF LeadsToCycle
<1>9. \A x : x \in R <=> x \in DOMAIN tables /\ \A i \in 1..Len(free) : free[i] # x
  BY <1>2 DEF ToSet
<1> HIDE DEF R, r
<1>10. /\ IsList(s) /\ Len(s) = Len(free) + Len(r)
       /\ \A i \in 1..(Len(free) + Len(r)) : s[i] = IF i <= Len(free) THEN free[i] ELSE r[i - Len(free)]
  BY <1>2, <1>4, <1>6, ConcatIs
<1>11. /\ \A i \in 1..Len(free) : i \in 1..Len(s) /\ s[i] = free[i]
       /\ \A i \in 1..Len(r) : Len(free) + i \in 1..Len(s) /\ s[Len(free) + i] = r[i]
       /\ \A i \in 1..Len(s) : i \notin 1..Len(free) => i - Len(free) \in 1..Len(r) /\ s[i] = r[i - Len(free)]
  <2>1. ASSUME NEW i \in 1..Len(free) PROVE i \in 1..Len(s) /\ s[i] = free[i]
    BY <1>2, <1>5, <1>10
  <2>2. ASSUME NEW i \in 1..Len(r) PROVE Len(free) + i \in 1..Len(s) /\ s[Len(free) + i] = r[i]
    <3> DEFINE j == Len(free) + i
    <3>1. j \in 1..(Len(free) + Len(r)) /\ ~ (j <= Len(free)) /\ j - Len(free) = i
      BY <1>2, <1>5
    <3> HIDE DEF j
    <3>2. s[j] = r[i]
      BY <1>10, <3>1
    <3> QED
      BY <1>10, <3>1, <3>2 DEF j
  <2>3. ASSUME NEW i \in 1..Len(s), i \notin 1..Len(free)
        PROVE  i - Len(free) \in 1..Len(r) /\ s[i] = r[i - Len(free)]
    BY <1>2, <1>5, <1>10, <2>3
  <2> QED
    BY <2>1, <2>2, <2>3
<1>12. \A i \in 1..Len(s) : s[i] \in DOMAIN tables
  <2> TAKE i \in 1..Len(s)
  <2>1. CASE i \in 1..Len(free)
    BY <1>1, <1>11, <2>1 DEF Ordered
  <2>2. CASE i \notin 1..Len(free)
    <3>1. s[i] \in R
      BY <1>4, <1>11, <2>2
    <3> QED
      BY <1>9, <3>1
  <2> QED
    BY <2>1, <2>2
<1>13. \A x \in DOMAIN tables : \E i \in 1..Len(s) : s[i] = x
  <2> TAKE x \in DOMAIN tables
  <2>1. CASE x \in R
    <3>1. PICK i \in 1..Len(r) : r[i] = x
      BY <1>4, <2>1
    <3> QED
      BY <1>11, <3>1
  <2>2. CASE x \notin R
    <3>1. PICK i \in 1..Len(free) : free[i] = x
      BY <1>9, <2>2
    <3> QED
      BY <1>11, <3>1
  <2> QED
    BY <2>1, <2>2
<1>14. Once(s)
  <2>1. ASSUME NEW i \in 1..Len(s), NEW j \in 1..Len(s), s[i] = s[j], i \in 1..Len(free) PROVE i = j
    <3>1. s[i] = free[i] /\ s[i] \notin R
      BY <1>9, <1>11, <2>1
    <3>2. j \in 1..Len(free)
      BY <1>4, <1>11, <2>1, <3>1, ZenonT(40)
    <3>3. free[i] = free[j]
      BY <1>11, <2>1, <3>1, <3>2
    <3> QED
      BY <1>1, <2>1, <3>2, <3>3 DEF Ordered, Once
  <2>2. ASSUME NEW i \in 1..Len(s), NEW j \in 1..Len(s), s[i] = s[j], i \notin 1..Len(free) PROVE i = j
    <3>1. j \notin 1..Len(free)
      BY <2>1, <2>2
    <3> DEFINE a == i - Len(free)
               b == j - Len(free)
    <3>2. a \in 1..Len(r) /\ b \in 1..Len(r) /\ r[a] = r[b]
      BY <1>11, <2>2, <3>1
    <3>3. r[a] \in Nat
      BY <1>3, <1>4, <3>2
    <3>4. ~ (a < b) /\ ~ (b < a)
      <4>1. a < b => r[a] < r[b]
        BY <1>4, <3>2
      <4>2. b < a => r[b] < r[a]
        BY <1>4, <3>2
      <4> HIDE DEF a, b
      <4> QED
        BY <3>2, <3>3, <4>1, <4>2
    <3>5. i \in Nat /\ j \in Nat
      OBVIOUS
    <3> QED
      BY <1>2, <3>4, <3>5
  <2> QED
    BY <1>10, <2>1, <2>2 DEF Once
<1>15. DOMAIN s = 1..Len(s)
  BY <1>10, ListIs
<1>16. ToSet(s) = DOMAIN tables
  BY <1>12, <1>13, <1>15 DEF ToSet
<1>17. Len(s) = Cardinality(DOMAIN tables)
  BY <1>14, <1>16, OnceCounts
<1>18. ASSUME NEW i \in 1..Len(s), ~LeadsToCycle(tables, s[i]), NEW u \in Parents(tables, s[i])
       PROVE  \E j \in 1..(i - 1) : s[j] = u
  <2>1. i \in 1..Len(free)
    BY <1>4, <1>8, <1>11, <1>18
  <2>2. s[i] = free[i]
    BY <1>11, <2>1
  <2>3. PICK j \in 1..(i - 1) : free[j] = u
    BY <1>1, <1>18, <2>1, <2>2 DEF Ordered
  <2>4. j \in 1..Len(free)
    BY <1>2, <2>1
  <2> QED
    BY <1>11, <2>3, <2>4
<1> QED
  BY <1>14, <1>16, <1>17, <1>18 DEF ParentsBefore

\* The order of the initial migration.
LEMMA ParentsComeFirst ==
    ASSUME AreNames(DOMAIN schema.tables) PROVE ParentsFirst
<1> DEFINE tables == schema.tables
           s == sortEntityMigrations(tables)
           At(t) == CHOOSE i \in DOMAIN s : s[i] = t
<1>1. /\ Once(s) /\ ToSet(s) = DOMAIN tables /\ Len(s) = Cardinality(DOMAIN tables)
      /\ ParentsBefore(tables, s)
  <2>1. AreNames(DOMAIN tables) /\ s = sortEntityMigrations(tables)
    OBVIOUS
  <2> HIDE DEF tables, s
  <2> QED
    BY <2>1, SortIs
<1> HIDE DEF s
<1>2. DOMAIN s = 1..Len(s) /\ Len(s) \in Nat
  BY <1>1, ListIs DEF Once
<1>3. \A i \in 1..Len(s) : At(s[i]) = i
  <2> TAKE i \in 1..Len(s)
  <2> DEFINE a == At(s[i])
  <2>1. a \in DOMAIN s /\ s[a] = s[i]
    BY <1>2
  <2> HIDE DEF a
  <2>2. a = i
    BY <1>1, <1>2, <2>1 DEF Once
  <2> QED
    BY <2>2 DEF a
<1>4. ASSUME NEW t \in DOMAIN tables, NEW u \in Parents(tables, t), ~LeadsToCycle(tables, t)
      PROVE  At(u) < At(t)
  <2>1. PICK i \in 1..Len(s) : s[i] = t
    BY <1>1, <1>2 DEF ToSet
  <2>2. PICK j \in 1..(i - 1) : s[j] = u
    BY <1>1, <1>4, <2>1 DEF ParentsBefore
  <2>3. j \in 1..Len(s) /\ j < i
    BY <1>2
  <2>4. At(t) = i /\ At(u) = j
    BY <1>3, <2>1, <2>2, <2>3
  <2> QED
    BY <2>3, <2>4
<1> QED
  BY <1>1, <1>4 DEF ParentsFirst, s

-----------------------------------------------------------------------------
(* The initial migration. *)

Filed(order, f) == FlattenSeq([i \in DOMAIN order |-> f[order[i]]])

\* A loop over tables in the order they were placed.
LEMMA FilesLead ==
    ASSUME NEW K, NEW part, NEW s, Once(s), NEW S, S = ToSet(s), NEW f, NEW m,
           \A D \in SUBSET S : \A x \in S \ D : Leads(K, part, m[D], f[x], m[D \cup {x}])
    PROVE  Leads(K, part, m[{}], Filed(s, f), m[S])
<1> DEFINE ss == [i \in DOMAIN s |-> f[s[i]]]
           n == Len(s)
           st == [i \in 0..n |-> m[{s[j] : j \in 1..i}]]
<1>2. n \in Nat /\ DOMAIN s = 1..n
  BY ListIs DEF Once
<1>1. \A i \in 1..n : s[i] \in S
  BY <1>2 DEF ToSet
<1>3. IsList(ss) /\ Len(ss) = n
  <2>1. ss \in Seq({ss[i] : i \in 1..n})
    BY <1>2, IsASeq
  <2>2. DOMAIN ss = 1..n
    BY <1>2
  <2> HIDE DEF ss
  <2>3. Len(ss) = n
    BY <1>2, <2>1, <2>2
  <2> QED
    BY <2>1, <2>3, ListOf
<1>4. ASSUME NEW i \in 1..n PROVE Leads(K, part, st[i - 1], ss[i], st[i])
  <2> DEFINE D == {s[j] : j \in 1..(i - 1)}
  <2>1. st[i - 1] = m[D] /\ st[i] = m[{s[j] : j \in 1..i}] /\ ss[i] = f[s[i]]
    BY <1>2
  <2>2. {s[j] : j \in 1..i} = D \cup {s[i]}
    <3>1. 1..i = (1..(i - 1)) \cup {i}
      BY <1>2
    <3> QED
      BY <3>1
  <2>3. D \in SUBSET S /\ s[i] \in S \ D
    <3>1. \A j \in 1..(i - 1) : j \in 1..n /\ j # i
      BY <1>2
    <3>2. \A j \in 1..(i - 1) : s[j] \in S /\ s[j] # s[i]
      BY <1>1, <3>1 DEF Once
    <3> QED
      BY <1>1, <3>2
  <2> HIDE DEF D, st, ss
  <2>4. Leads(K, part, m[D], f[s[i]], m[D \cup {s[i]}])
    BY <2>3
  <2> QED
    BY <2>1, <2>2, <2>4
<1>5. st[0] = m[{}] /\ st[n] = m[S]
  <2>1. {s[j] : j \in 1..0} = {}
    OBVIOUS
  <2>2. {s[j] : j \in 1..n} = S
    BY <1>2 DEF ToSet
  <2>3. st[0] = m[{s[j] : j \in 1..0}] /\ st[n] = m[{s[j] : j \in 1..n}]
    BY <1>2
  <2> QED
    BY <2>1, <2>2, <2>3
<1> HIDE DEF ss, st
<1>6. \A i \in 1..Len(ss) : Leads(K, part, st[i - 1], ss[i], st[i])
  BY <1>3, <1>4
<1>7. Leads(K, part, st[0], FlattenSeq(ss), st[Len(ss)])
  BY <1>3, <1>6, LeadsAlong
<1> QED
  BY <1>3, <1>5, <1>7 DEF Filed, ss

BodyOf(s, t) == WithoutForeignKeys(createTableOps(t, s.tables[t]))
KeysOf(s, t) == ForeignKeyAdds(t, Nothing, s.tables[t].fks)
EntitiesOf(s) == Restrict(s.tables, {t \in DOMAIN s.tables : ~s.tables[t].join})
ExtensionsOf(E) == Each(E, LAMBDA x : <<Op("create_extension", 0, x, None)>>)
JoinsOf(s, J) == Each(J, LAMBDA t : BodyOf(s, t) \o KeysOf(s, t))

\* The parts of the initial migration.
LEMMA RenderIs ==
    ASSUME NEW s, NEW E, E = EntitiesOf(s), NEW order, order = sortEntityMigrations(E),
           NEW J, J = DOMAIN s.tables \ DOMAIN E
    PROVE  renderInitialMigration(s)
               = ExtensionsOf(s.ext)
                   \o FlattenSeq([i \in DOMAIN order |-> BodyOf(s, order[i])])
                   \o FlattenSeq([i \in DOMAIN order |-> KeysOf(s, order[i])])
                   \o JoinsOf(s, J)
BY DEF renderInitialMigration, BodyOf, KeysOf, EntitiesOf, ExtensionsOf, JoinsOf

LEMMA FiledIs ==
    ASSUME NEW s, NEW order, NEW f, NEW g,
           \A i \in DOMAIN order : f[order[i]] = BodyOf(s, order[i]) /\ g[order[i]] = KeysOf(s, order[i])
    PROVE  /\ FlattenSeq([i \in DOMAIN order |-> BodyOf(s, order[i])]) = Filed(order, f)
           /\ FlattenSeq([i \in DOMAIN order |-> KeysOf(s, order[i])]) = Filed(order, g)
<1>1. [i \in DOMAIN order |-> BodyOf(s, order[i])] = [i \in DOMAIN order |-> f[order[i]]]
  OBVIOUS
<1>2. [i \in DOMAIN order |-> KeysOf(s, order[i])] = [i \in DOMAIN order |-> g[order[i]]]
  OBVIOUS
<1> QED
  BY <1>1, <1>2 DEF Filed

LEMMA ExtensionsLoop ==
    ASSUME NEW E, AreNames(E), NEW f, \A x \in E : f[x] = <<Op("create_extension", 0, x, None)>>
    PROVE  ExtensionsOf(E) = Loop(E, f)
BY SortedIn DEF ExtensionsOf, Each, Loop

LEMMA JoinsLoop ==
    ASSUME NEW s, NEW J, AreNames(J), NEW f, \A t \in J : f[t] = BodyOf(s, t) \o KeysOf(s, t)
    PROVE  JoinsOf(s, J) = Loop(J, f)
BY SortedIn DEF JoinsOf, Each, Loop

\* A table without its keys.
LEMMA BodyLeads ==
    ASSUME NEW K, NEW s, WellFormed(s), NEW A, NEW k, Buildable(s, A, k),
           NEW t \in DOMAIN s.tables, t \notin A,
           NEW B, B = A \cup {t}, NEW l, l = [u \in B |-> IF u = t THEN {} ELSE k[u]]
    PROVE  /\ Buildable(s, B, l)
           /\ Leads(K, "all", Built(s, A, k), BodyOf(s, t), Built(s, B, l))
<1> DEFINE ops == createTableOps(t, s.tables[t])
           chosen == {i \in DOMAIN ops : ops[i].kind # "add_foreign_key"}
           d == Built(s, A, k)
           e == Built(s, B, l)
<1>1. Buildable(s, B, l) /\ Leads(K, "tables", d, ops, e)
  BY TableCreated
<1> HIDE DEF ops, d, e
<1>2. DOMAIN ops = 1..Len(ops)
  BY <1>1, ListIs DEF Leads
<1>3. \A i \in 1..Len(ops) : i \in chosen <=> Taken("tables", ops[i])
  BY <1>2 DEF Taken
<1>4. BodyOf(s, t) = Chosen(ops, chosen)
  BY DEF BodyOf, WithoutForeignKeys, ops
<1> HIDE DEF chosen
<1>5. Leads(K, "all", d, Chosen(ops, chosen), e)
  BY <1>1, <1>3, ChosenLeads
<1> QED
  BY <1>1, <1>4, <1>5 DEF d, e

\* The tables A, those of D with their keys.
Raised(s, A, D) == Built(s, A, [t \in A |-> IF t \in D THEN DOMAIN s.tables[t].fks ELSE {}])

LEMMA RaisedIs ==
    ASSUME NEW s, WellFormed(s), NEW A, A \subseteq DOMAIN s.tables, NEW D,
           \A t \in D : \A c \in DOMAIN s.tables[t].fks : s.tables[t].fks[c].table \in A,
           NEW k, k = [t \in A |-> IF t \in D THEN DOMAIN s.tables[t].fks ELSE {}]
    PROVE  Buildable(s, A, k)
BY DEF Buildable

LEMMA BodyRaises ==
    ASSUME NEW K, NEW s, WellFormed(s), NEW A, A \subseteq DOMAIN s.tables, NEW D, D \subseteq A,
           \A t \in D : \A c \in DOMAIN s.tables[t].fks : s.tables[t].fks[c].table \in A,
           NEW t \in DOMAIN s.tables, t \notin A, NEW B, B = A \cup {t}
    PROVE  Leads(K, "all", Raised(s, A, D), BodyOf(s, t), Raised(s, B, D))
<1> DEFINE k == [u \in A |-> IF u \in D THEN DOMAIN s.tables[u].fks ELSE {}]
           l == [u \in B |-> IF u = t THEN {} ELSE k[u]]
<1>1. Buildable(s, A, k)
  BY RaisedIs
<1>2. Raised(s, A, D) = Built(s, A, k)
  BY DEF Raised
<1>3. Raised(s, B, D) = Built(s, B, l)
  <2>1. \A u \in B : l[u] = IF u \in D THEN DOMAIN s.tables[u].fks ELSE {}
    OBVIOUS
  <2>2. l = [u \in B |-> IF u \in D THEN DOMAIN s.tables[u].fks ELSE {}]
    BY <2>1
  <2> QED
    BY <2>2 DEF Raised
<1>4. Leads(K, "all", Built(s, A, k), BodyOf(s, t), Built(s, B, l))
  <2>1. l = [u \in B |-> IF u = t THEN {} ELSE k[u]]
    OBVIOUS
  <2> HIDE DEF k, l
  <2> QED
    BY <1>1, <2>1, BodyLeads
<1> QED
  BY <1>2, <1>3, <1>4

LEMMA KeysRaise ==
    ASSUME NEW K, NEW s, WellFormed(s), NEW A, A \subseteq DOMAIN s.tables, NEW D, D \subseteq A,
           NEW t \in A, t \notin D, NEW E, E = D \cup {t},
           \A u \in E : \A c \in DOMAIN s.tables[u].fks : s.tables[u].fks[c].table \in A
    PROVE  Leads(K, "all", Raised(s, A, D), KeysOf(s, t), Raised(s, A, E))
<1> DEFINE n == s.tables[t].fks
           k == [u \in A |-> IF u \in D THEN DOMAIN s.tables[u].fks ELSE {}]
           l == [u \in A |-> IF u = t THEN DOMAIN n ELSE k[u]]
<1>1. Buildable(s, A, k)
  <2>1. \A u \in D : \A c \in DOMAIN s.tables[u].fks : s.tables[u].fks[c].table \in A
    OBVIOUS
  <2> QED
    BY <2>1, RaisedIs
<1>2. Raised(s, A, D) = Built(s, A, k)
  BY DEF Raised
<1>3. Raised(s, A, E) = Built(s, A, l)
  <2>1. \A u \in A : l[u] = IF u \in E THEN DOMAIN s.tables[u].fks ELSE {}
    OBVIOUS
  <2>2. l = [u \in A |-> IF u \in E THEN DOMAIN s.tables[u].fks ELSE {}]
    BY <2>1
  <2> QED
    BY <2>2 DEF Raised
<1>4. \A c \in DOMAIN n : n[c].table \in A
  OBVIOUS
<1>5. k[t] = DOMAIN n \ Differ(n, Nothing)
  <2>1. k[t] = {} /\ DOMAIN Nothing = {}
    BY DEF Nothing
  <2> HIDE DEF k, n
  <2> QED
    BY <2>1 DEF Differ, Gone, Both
<1>6. Leads(K, "all", Built(s, A, k), ForeignKeyAdds(t, Nothing, n), Built(s, A, l))
  <2>1. l = [u \in A |-> IF u = t THEN DOMAIN n ELSE k[u]] /\ n = s.tables[t].fks /\ "all" \in {"keys", "all"}
    OBVIOUS
  <2> HIDE DEF k, l, n
  <2> QED
    BY <1>1, <1>4, <1>5, <2>1, KeysBuilt
<1> QED
  BY <1>2, <1>3, <1>6 DEF KeysOf

LEMMA EmptyShape == Shape(Empty)
BY DEF Shape, Empty, Nothing, IsMap

\* The extensions come first.
LEMMA ExtensionsRaise ==
    ASSUME NEW K, NEW s, WellFormed(s)
    PROVE  Leads(K, "all", Empty, ExtensionsOf(s.ext), Raised(s, {}, {}))
<1> DEFINE S == s.ext
           m == [D \in SUBSET S |-> WithExt(Empty, D)]
           op == [x \in S |-> Op("create_extension", 0, x, None)]
           f == [x \in S |-> <<Op("create_extension", 0, x, None)>>]
<1>1. AreNames(S)
  BY DEF WellFormed
<1>2. ASSUME NEW D \in SUBSET S, NEW x \in S \ D PROVE Follows(K, "all", m[D], op[x], m[D \cup {x}])
  <2> DEFINE G == D \cup {x}
             o == Op("create_extension", 0, x, None)
  <2>1. m[D] = WithExt(Empty, D) /\ m[G] = WithExt(Empty, G) /\ op[x] = o
    OBVIOUS
  <2>2. o.kind = "create_extension" /\ o.name = x /\ G = D \cup {o.name}
    BY DEF Op
  <2> HIDE DEF o, G, m, op
  <2>3. Moves(K, WithExt(Empty, D), o, WithExt(Empty, G))
    BY <2>2, EmptyShape, ExtensionMoves
  <2>4. Follows(K, "all", m[D], op[x], m[G])
    BY <2>1, <2>3 DEF Follows, Taken
  <2> QED
    BY <2>4 DEF G
<1>3. \A x \in S : f[x] = <<op[x]>> /\ f[x] = <<Op("create_extension", 0, x, None)>>
  OBVIOUS
<1>4. m[{}] = WithExt(Empty, {}) /\ m[S] = WithExt(Empty, S)
  OBVIOUS
<1>5. WithExt(Empty, {}) = Empty
  BY DEF WithExt, Empty
<1>6. WithExt(Empty, S) = Raised(s, {}, {})
  BY DEF WithExt, Raised, Empty, Nothing, Built
<1> HIDE DEF S, m, op, f
<1>7. ExtensionsOf(S) = Loop(S, f)
  BY <1>1, <1>3, ExtensionsLoop
<1>8. Leads(K, "all", m[{}], Loop(S, f), m[S])
  BY <1>1, <1>2, <1>3, LoopMoves
<1>9. Leads(K, "all", Empty, ExtensionsOf(S), Raised(s, {}, {}))
  BY <1>4, <1>5, <1>6, <1>7, <1>8
<1> QED
  BY <1>9 DEF S

\* Then the tables of entities, without keys.
LEMMA BodiesRaise ==
    ASSUME NEW K, NEW s, WellFormed(s), NEW A, A \subseteq DOMAIN s.tables,
           NEW order, Once(order), ToSet(order) = A, NEW f, \A t \in A : f[t] = BodyOf(s, t)
    PROVE  Leads(K, "all", Raised(s, {}, {}), Filed(order, f), Raised(s, A, {}))
<1> DEFINE m == [D \in SUBSET A |-> Raised(s, D, {})]
<1>1. ASSUME NEW D \in SUBSET A, NEW t \in A \ D PROVE Leads(K, "all", m[D], f[t], m[D \cup {t}])
  <2> DEFINE B == D \cup {t}
  <2>1. m[D] = Raised(s, D, {}) /\ m[B] = Raised(s, B, {}) /\ f[t] = BodyOf(s, t)
    OBVIOUS
  <2>2. D \subseteq DOMAIN s.tables /\ t \in DOMAIN s.tables /\ t \notin D /\ {} \subseteq D
        /\ \A u \in {} : \A c \in DOMAIN s.tables[u].fks : s.tables[u].fks[c].table \in D
    OBVIOUS
  <2>3. B = D \cup {t}
    OBVIOUS
  <2> DEFINE Z == {}
  <2>4. \A u \in Z : \A c \in DOMAIN s.tables[u].fks : s.tables[u].fks[c].table \in D
    OBVIOUS
  <2>5. Z \subseteq D
    OBVIOUS
  <2> HIDE DEF m, B, Z
  <2>6. Leads(K, "all", Raised(s, D, Z), BodyOf(s, t), Raised(s, B, Z))
    BY <2>2, <2>3, <2>4, <2>5, BodyRaises
  <2>7. Leads(K, "all", m[D], f[t], m[B])
    BY <2>1, <2>6 DEF Z
  <2> QED
    BY <2>7 DEF B
<1>2. m[{}] = Raised(s, {}, {}) /\ m[A] = Raised(s, A, {})
  OBVIOUS
<1> HIDE DEF m
<1>3. Leads(K, "all", m[{}], Filed(order, f), m[A])
  BY <1>1, FilesLead
<1> QED
  BY <1>2, <1>3

\* Then their keys.
LEMMA AllKeysRaise ==
    ASSUME NEW K, NEW s, WellFormed(s), NEW A, A \subseteq DOMAIN s.tables,
           \A u \in A : \A c \in DOMAIN s.tables[u].fks : s.tables[u].fks[c].table \in A,
           NEW order, Once(order), ToSet(order) = A, NEW g, \A t \in A : g[t] = KeysOf(s, t)
    PROVE  Leads(K, "all", Raised(s, A, {}), Filed(order, g), Raised(s, A, A))
<1> DEFINE m == [D \in SUBSET A |-> Raised(s, A, D)]
<1>1. ASSUME NEW D \in SUBSET A, NEW t \in A \ D PROVE Leads(K, "all", m[D], g[t], m[D \cup {t}])
  <2> DEFINE B == D \cup {t}
  <2>1. m[D] = Raised(s, A, D) /\ m[B] = Raised(s, A, B) /\ g[t] = KeysOf(s, t)
    OBVIOUS
  <2>2. \A u \in B : \A c \in DOMAIN s.tables[u].fks : s.tables[u].fks[c].table \in A
    OBVIOUS
  <2>3. B = D \cup {t} /\ D \subseteq A /\ t \in A /\ t \notin D
    OBVIOUS
  <2> HIDE DEF m, B
  <2>6. Leads(K, "all", Raised(s, A, D), KeysOf(s, t), Raised(s, A, B))
    BY <2>2, <2>3, KeysRaise
  <2>7. Leads(K, "all", m[D], g[t], m[B])
    BY <2>1, <2>6
  <2> QED
    BY <2>7 DEF B
<1>2. m[{}] = Raised(s, A, {}) /\ m[A] = Raised(s, A, A)
  OBVIOUS
<1> HIDE DEF m
<1>3. Leads(K, "all", m[{}], Filed(order, g), m[A])
  BY <1>1, FilesLead
<1> QED
  BY <1>2, <1>3

\* Then the join tables, each with its keys.
LEMMA JoinsRaise ==
    ASSUME NEW K, NEW s, WellFormed(s), NEW A, A \subseteq DOMAIN s.tables,
           \A u \in DOMAIN s.tables : \A c \in DOMAIN s.tables[u].fks : s.tables[u].fks[c].table \in A,
           NEW J, J = DOMAIN s.tables \ A
    PROVE  Leads(K, "all", Raised(s, A, A), JoinsOf(s, J), Raised(s, DOMAIN s.tables, DOMAIN s.tables))
<1> DEFINE m == [D \in SUBSET J |-> Raised(s, A \cup D, A \cup D)]
           f == [t \in J |-> BodyOf(s, t) \o KeysOf(s, t)]
<1>1. AreNames(J)
  BY FewerNames DEF WellFormed
<1>2. ASSUME NEW D \in SUBSET J, NEW t \in J \ D PROVE Leads(K, "all", m[D], f[t], m[D \cup {t}])
  <2> DEFINE C == A \cup D
             E == C \cup {t}
             G == D \cup {t}
  <2>1. G \in SUBSET J /\ A \cup G = E
    OBVIOUS
  <2>2. m[D] = Raised(s, C, C) /\ m[G] = Raised(s, A \cup G, A \cup G) /\ f[t] = BodyOf(s, t) \o KeysOf(s, t)
    BY <2>1
  <2>3. /\ C \subseteq DOMAIN s.tables /\ E \subseteq DOMAIN s.tables /\ C \subseteq E
        /\ t \in DOMAIN s.tables /\ t \notin C /\ t \in E /\ E = C \cup {t}
    OBVIOUS
  <2>4. \A u \in C : \A c \in DOMAIN s.tables[u].fks : s.tables[u].fks[c].table \in C
    OBVIOUS
  <2>5. \A u \in E : \A c \in DOMAIN s.tables[u].fks : s.tables[u].fks[c].table \in E
    OBVIOUS
  <2> HIDE DEF m, f, C, E, G
  <2>6. Leads(K, "all", Raised(s, C, C), BodyOf(s, t), Raised(s, E, C))
    <3>1. C \subseteq C
      OBVIOUS
    <3> QED
      BY <2>3, <2>4, <3>1, BodyRaises
  <2>7. Leads(K, "all", Raised(s, E, C), KeysOf(s, t), Raised(s, E, E))
    BY <2>3, <2>5, KeysRaise
  <2>8. Leads(K, "all", Raised(s, C, C), BodyOf(s, t) \o KeysOf(s, t), Raised(s, E, E))
    BY <2>6, <2>7, LeadsOn
  <2>9. Leads(K, "all", m[D], f[t], m[G])
    BY <2>1, <2>2, <2>8
  <2> QED
    BY <2>9 DEF G
<1>3. m[{}] = Raised(s, A, A) /\ m[J] = Raised(s, DOMAIN s.tables, DOMAIN s.tables)
  <2>1. {} \in SUBSET J /\ J \in SUBSET J /\ A \cup {} = A /\ A \cup J = DOMAIN s.tables
    OBVIOUS
  <2>2. m[{}] = Raised(s, A \cup {}, A \cup {}) /\ m[J] = Raised(s, A \cup J, A \cup J)
    BY <2>1
  <2> QED
    BY <2>1, <2>2
<1>4. \A t \in J : f[t] = BodyOf(s, t) \o KeysOf(s, t)
  OBVIOUS
<1> HIDE DEF m, f
<1>5. JoinsOf(s, J) = Loop(J, f)
  BY <1>1, <1>4, JoinsLoop
<1>6. Leads(K, "all", m[{}], Loop(J, f), m[J])
  BY <1>1, <1>2, LoopTurns
<1> QED
  BY <1>3, <1>5, <1>6

LEMMA RaisedAll ==
    ASSUME NEW s, WellFormed(s) PROVE Raised(s, DOMAIN s.tables, DOMAIN s.tables) = s
<1> DEFINE N == DOMAIN s.tables
           k == [t \in N |-> IF t \in N THEN DOMAIN s.tables[t].fks ELSE {}]
<1>1. Shape(s)
  BY ShapeOf
<1>2. ASSUME NEW t \in N PROVE Bare(s.tables[t], k[t]) = s.tables[t]
  <2>1. k[t] = DOMAIN s.tables[t].fks
    OBVIOUS
  <2> HIDE DEF k
  <2> QED
    BY <1>1, <2>1, BareIs
<1>3. s = [ext |-> s.ext, tables |-> s.tables] /\ s.tables = [t \in N |-> s.tables[t]]
  BY <1>1 DEF Shape, IsMap
<1>4. Raised(s, N, N) = [ext |-> s.ext, tables |-> [t \in N |-> Bare(s.tables[t], k[t])]]
  BY DEF Raised, Built
<1> HIDE DEF k, N
<1>5. Raised(s, N, N) = s
  BY <1>2, <1>3, <1>4
<1> QED
  BY <1>5 DEF N

\* The initial migration builds what the entities say.
LEMMA InitialLeads ==
    ASSUME NEW K, NEW s, WellFormed(s), Startable(s)
    PROVE  Leads(K, "all", Empty, renderInitialMigration(s), s)
<1> DEFINE E == EntitiesOf(s)
           A == DOMAIN E
           order == sortEntityMigrations(E)
           J == DOMAIN s.tables \ DOMAIN E
           f == [t \in A |-> BodyOf(s, t)]
           g == [t \in A |-> KeysOf(s, t)]
<1>1. A = {t \in DOMAIN s.tables : ~s.tables[t].join}
  BY DEF EntitiesOf, Restrict
<1>2. A \subseteq DOMAIN s.tables /\ \A t \in DOMAIN s.tables : t \notin A => s.tables[t].join
  BY <1>1
<1>3. \A u \in DOMAIN s.tables : \A c \in DOMAIN s.tables[u].fks : s.tables[u].fks[c].table \in A
  <2> TAKE u \in DOMAIN s.tables
  <2> TAKE c \in DOMAIN s.tables[u].fks
  <2> DEFINE v == s.tables[u].fks[c].table
  <2>1. v \in DOMAIN s.tables
    <3>1. Shape(s)
      BY ShapeOf
    <3> QED
      BY <3>1 DEF Shape, Refers
  <2>2. ~s.tables[v].join
    BY DEF Startable
  <2> HIDE DEF v
  <2>3. v \in A
    BY <1>2, <2>1, <2>2
  <2> QED
    BY <2>3 DEF v
<1>4. AreNames(DOMAIN s.tables)
  BY DEF WellFormed
<1>5. AreNames(A)
  BY <1>2, <1>4, FewerNames
<1>6. Once(order) /\ ToSet(order) = A
  <2>1. order = sortEntityMigrations(E) /\ AreNames(DOMAIN E)
    BY <1>5
  <2> HIDE DEF order, E
  <2> QED
    BY <2>1, SortIs
<1>7. renderInitialMigration(s)
          = ExtensionsOf(s.ext)
              \o FlattenSeq([i \in DOMAIN order |-> BodyOf(s, order[i])])
              \o FlattenSeq([i \in DOMAIN order |-> KeysOf(s, order[i])])
              \o JoinsOf(s, J)
  BY RenderIs
<1>8. J = DOMAIN s.tables \ A
  OBVIOUS
<1> HIDE DEF A, E, order, J
<1>9. \A t \in A : f[t] = BodyOf(s, t) /\ g[t] = KeysOf(s, t)
  OBVIOUS
<1>10. \A i \in DOMAIN order : f[order[i]] = BodyOf(s, order[i]) /\ g[order[i]] = KeysOf(s, order[i])
  BY <1>6, <1>9 DEF ToSet
<1> HIDE DEF f, g
<1>11. renderInitialMigration(s)
          = ExtensionsOf(s.ext) \o Filed(order, f) \o Filed(order, g) \o JoinsOf(s, J)
  <2>1. /\ FlattenSeq([i \in DOMAIN order |-> BodyOf(s, order[i])]) = Filed(order, f)
        /\ FlattenSeq([i \in DOMAIN order |-> KeysOf(s, order[i])]) = Filed(order, g)
    BY <1>10, FiledIs
  <2> QED
    BY <1>7, <2>1
<1>12. Leads(K, "all", Empty, ExtensionsOf(s.ext), Raised(s, {}, {}))
  BY ExtensionsRaise
<1>13. Leads(K, "all", Raised(s, {}, {}), Filed(order, f), Raised(s, A, {}))
  BY <1>2, <1>6, <1>9, BodiesRaise
<1>14. Leads(K, "all", Raised(s, A, {}), Filed(order, g), Raised(s, A, A))
  <2>1. \A u \in A : \A c \in DOMAIN s.tables[u].fks : s.tables[u].fks[c].table \in A
    BY <1>2, <1>3
  <2> QED
    BY <1>2, <1>6, <1>9, <2>1, AllKeysRaise
<1>15. Leads(K, "all", Raised(s, A, A), JoinsOf(s, J), s)
  <2>1. Leads(K, "all", Raised(s, A, A), JoinsOf(s, J), Raised(s, DOMAIN s.tables, DOMAIN s.tables))
    BY <1>2, <1>3, <1>8, JoinsRaise
  <2> QED
    BY <2>1, RaisedAll
<1>16. Leads(K, "all", Empty, ExtensionsOf(s.ext) \o Filed(order, f), Raised(s, A, {}))
  BY <1>12, <1>13, LeadsOn
<1>17. Leads(K, "all", Empty, ExtensionsOf(s.ext) \o Filed(order, f) \o Filed(order, g), Raised(s, A, A))
  BY <1>14, <1>16, LeadsOn
<1>18. Leads(K, "all", Empty, ExtensionsOf(s.ext) \o Filed(order, f) \o Filed(order, g) \o JoinsOf(s, J), s)
  BY <1>15, <1>17, LeadsOn
<1> QED
  BY <1>11, <1>18

-----------------------------------------------------------------------------
(* The specification. *)

\* What no file that waits may drop: all the entities keep, where a file is
\* applied before they change again.
Saved(s) == IF MaxPending[project] = 0 THEN Ordinary(s) ELSE {}

\* The files that wait lead the database to the recorded snapshot, which is
\* what the entities say; an initial migration has a new database to itself.
DiffInv ==
    /\ project \in DOMAIN Schemas /\ schema \in Schemas[project] \cup {Empty}
    /\ recorded = schema /\ refused = FALSE
    /\ Shape(db) /\ Chain(Saved(schema), db, pending, schema)
    /\ project \in Initial /\ schema = Empty => db = Empty /\ pending = <<>> /\ lost = {}
    /\ MaxPending[project] = 0 => lost \cap Ordinary(schema) = {}

LEMMA EmptyWellFormed == WellFormed(Empty)
<1>1. Empty.ext = {} /\ Empty.tables = Nothing /\ DOMAIN Nothing = {}
  BY DEF Empty, Nothing
<1>2. AreNames({})
  BY FS_EmptySet DEF AreNames
<1> QED
  BY <1>1, <1>2, EmptyShape DEF WellFormed

LEMMA SchemasTurn ==
    ASSUME NEW p \in DOMAIN Schemas, NEW prev \in Schemas[p] \cup {Empty}, NEW next \in Schemas[p]
    PROVE  WellFormed(prev) /\ Turns(prev, next)
BY SchemasAreExpressible, EmptyWellFormed DEF Turns

\* A new project.
LEMMA DiffInvInit == DiffInit => DiffInv
<1> SUFFICES ASSUME DiffInit PROVE DiffInv
  OBVIOUS
<1>1. Chain(Saved(schema), Empty, <<>>, Empty)
  BY ChainNothing
<1>2. Shape(Empty)
  BY EmptyShape
<1> QED
  BY <1>1, <1>2 DEF DiffInit, DiffInv

\* Without files that wait, the database is what they led to.
LEMMA ChainDone ==
    ASSUME NEW K, NEW d, NEW files, NEW e, Chain(K, d, files, e)
    PROVE  IsList(files) /\ Len(files) \in Nat /\ (Len(files) = 0 => d = e /\ files = <<>>)
<1>1. IsList(files) /\ Len(files) \in Nat
  BY ListIs DEF Chain
<1>2. Len(files) = 0 => d = e
  BY DEF Chain
<1>3. Len(files) = 0 => files = <<>>
  BY <1>1 DEF IsList
<1> QED
  BY <1>1, <1>2, <1>3

\* erm gen adds files that lead from the snapshot to the entities, so what waits
\* leads on from the database.
LEMMA GenerateKeeps == DiffInv /\ Generate => DiffInv'
<1> SUFFICES ASSUME DiffInv, Generate PROVE DiffInv'
  OBVIOUS
<1>1. PICK next \in Schemas[project], force \in BOOLEAN :
          LET ops == orderMigrationOperations(diffSchema(recorded, next)) IN
          /\ schema' = next
          /\ recorded' = IF ops # <<>> \/ force THEN next ELSE recorded
          /\ pending' = pending \o chunkMigrationOperations(ops)
  BY DEF Generate
<1> DEFINE prev == schema
           ops == orderMigrationOperations(diffSchema(prev, next))
           new == chunkMigrationOperations(ops)
<1>2. /\ project' = project /\ db' = db /\ refused' = refused /\ lost' = {}
      /\ Len(pending) <= MaxPending[project]
  BY DEF Generate
<1>3. /\ project \in DOMAIN Schemas /\ prev \in Schemas[project] \cup {Empty}
      /\ recorded = prev /\ Chain(Saved(prev), db, pending, prev) /\ Shape(db) /\ refused = FALSE
  BY DEF DiffInv
<1>4. Turns(prev, next)
  BY <1>3, SchemasTurn
<1>5. ASSUME NEW K, K \subseteq Ordinary(next)
      PROVE  Chain(K, prev, new, next) /\ (ops = <<>> => prev = next)
  <2>1. ops = orderMigrationOperations(diffSchema(prev, next))
    OBVIOUS
  <2> HIDE DEF ops
  <2> QED
    BY <1>4, <1>5, <2>1, DiffLeads
<1>6. schema' = next /\ recorded' = (IF ops # <<>> \/ force THEN next ELSE prev) /\ pending' = pending \o new
  BY <1>1, <1>3
<1> HIDE DEF ops, new, prev
<1>7. recorded' = next
  <2>1. ops = <<>> => prev = next
    BY <1>5
  <2> QED
    BY <1>6, <2>1
<1>8. Chain(Saved(schema)', db, pending', next)
  <2>1. CASE MaxPending[project] = 0
    <3>1. Saved(schema)' = Ordinary(next)
      BY <1>2, <1>6, <2>1 DEF Saved
    <3>2. IsList(pending) /\ Len(pending) \in Nat /\ (Len(pending) = 0 => db = prev /\ pending = <<>>)
      BY <1>3, ChainDone
    <3>3. db = prev /\ pending = <<>>
      BY <1>2, <2>1, <3>2
    <3>4. Chain(Ordinary(next), prev, new, next)
      BY <1>5
    <3>5. <<>> \o new = new
      <4>1. IsList(new)
        BY <3>4 DEF Chain
      <4>2. IsList(<<>>)
        BY <3>2, <3>3
      <4> QED
        BY <4>1, <4>2, ConcatIs
    <3> QED
      BY <1>6, <3>1, <3>3, <3>4, <3>5
  <2>2. CASE MaxPending[project] # 0
    <3>1. Saved(schema)' = {} /\ Saved(prev) = {}
      BY <1>2, <2>2 DEF Saved
    <3>2. Chain({}, prev, new, next)
      BY <1>5
    <3>3. Chain({}, db, pending \o new, next)
      BY <1>3, <3>1, <3>2, ChainOn
    <3> QED
      BY <1>6, <3>1, <3>3
  <2> QED
    BY <2>1, <2>2
<1>9. project \in Initial => next # Empty
  BY <1>3, SchemasAreExpressible
<1> QED
  BY <1>2, <1>3, <1>6, <1>7, <1>8, <1>9 DEF DiffInv

\* The initial migration leads a new database to the entities.
LEMMA GenerateInitialKeeps == DiffInv /\ GenerateInitial => DiffInv'
<1> SUFFICES ASSUME DiffInv, GenerateInitial PROVE DiffInv'
  OBVIOUS
<1>1. PICK next \in Schemas[project] :
          schema' = next /\ recorded' = next /\ pending' = <<renderInitialMigration(next)>>
  BY DEF GenerateInitial
<1>2. /\ project' = project /\ db' = db /\ refused' = refused /\ lost' = lost
      /\ project \in Initial /\ recorded = Empty
  BY DEF GenerateInitial
<1>3. /\ project \in DOMAIN Schemas /\ db = Empty /\ pending = <<>> /\ lost = {} /\ Shape(db) /\ refused = FALSE
  BY <1>2 DEF DiffInv
<1>4. WellFormed(next) /\ Startable(next) /\ next # Empty
  BY <1>2, <1>3, SchemasAreExpressible
<1> DEFINE file == renderInitialMigration(next)
           K == Saved(schema)'
<1>5. Leads(K, "all", Empty, file, next)
  BY <1>4, InitialLeads
<1> HIDE DEF file, K
<1>6. file # <<>>
  BY <1>4, <1>5 DEF Leads
<1>7. Chain(K, Empty, <<>>, Empty)
  BY ChainNothing
<1>8. Append(<<>>, file) = <<file>>
  OBVIOUS
<1>9. Chain(K, Empty, <<file>>, next)
  BY <1>5, <1>6, <1>7, <1>8, ChainAdd
<1>10. Chain(Saved(schema)', db', pending', schema')
  BY <1>1, <1>2, <1>3, <1>9 DEF file, K
<1>11. lost' \cap Ordinary(schema') = {}
  BY <1>2, <1>3
<1> QED
  BY <1>1, <1>2, <1>3, <1>4, <1>10, <1>11 DEF DiffInv

\* erm migrate applies the first file, which is accepted; the rest leads on.
LEMMA ApplyKeeps == DiffInv /\ Apply => DiffInv'
<1> SUFFICES ASSUME DiffInv, Apply PROVE DiffInv'
  OBVIOUS
<1> DEFINE K == Saved(schema)
           file == Head(pending)
           s == Applied(db, file)
<1>1. /\ project' = project /\ schema' = schema /\ recorded' = recorded /\ pending # <<>>
  BY DEF Apply
<1>2. /\ project \in DOMAIN Schemas /\ schema \in Schemas[project] \cup {Empty}
      /\ recorded = schema /\ refused = FALSE /\ Shape(db) /\ Chain(K, db, pending, schema)
      /\ (project \in Initial /\ schema = Empty => pending = <<>>)
  BY DEF DiffInv
<1> HIDE DEF K
<1>3. PICK a : Leads(K, "all", db, file, a) /\ Chain(K, a, Tail(pending), schema)
  BY <1>1, <1>2, ChainFirst
<1> HIDE DEF file
<1>4. /\ s = [ok |-> TRUE, db |-> a] /\ Shape(a)
      /\ \A k \in K : k \in Ordinary(db) => k \in Ordinary(a) /\ \A op \in ToSet(file) : ~Drops(op, k)
  BY <1>2, <1>3, AppliedIs
<1>5. s.ok = TRUE /\ s.db = a
  BY <1>4
<1>6. /\ db' = s.db /\ pending' = Tail(pending) /\ refused' = refused
      /\ lost' = {k \in Ordinary(db) :
                     \/ k \notin Ordinary(s.db)
                     \/ \E op \in {op \in ToSet(file) : op.kind \in {"drop_column", "drop_table"}} :
                            op.table = k[1] /\ op.name \in {0, k[2]}}
  BY <1>5 DEF Apply, file
<1> HIDE DEF s
<1>7. K \cap lost' = {}
  <2> SUFFICES ASSUME NEW k \in K, k \in lost' PROVE FALSE
    OBVIOUS
  <2>1. k \in Ordinary(db)
    BY <1>6
  <2>2. k \in Ordinary(a) /\ \A op \in ToSet(file) : ~Drops(op, k)
    BY <1>4, <2>1
  <2>3. k \in Ordinary(s.db)
    BY <1>5, <2>2
  <2>4. PICK op \in ToSet(file) : /\ op.kind \in {"drop_column", "drop_table"}
                                  /\ op.table = k[1] /\ op.name \in {0, k[2]}
    BY <1>6, <2>3
  <2>5. Drops(op, k)
    BY <2>4 DEF Drops
  <2> QED
    BY <2>2, <2>5
<1>8. MaxPending[project] = 0 => lost' \cap Ordinary(schema) = {}
  BY <1>7 DEF K, Saved
<1>9. Saved(schema)' = K
  BY <1>1 DEF K, Saved
<1>10. Chain(Saved(schema)', db', pending', schema')
  BY <1>1, <1>3, <1>5, <1>6, <1>9
<1>11. Shape(db')
  BY <1>4, <1>5, <1>6
<1> QED
  BY <1>1, <1>2, <1>6, <1>8, <1>10, <1>11 DEF DiffInv

\* Every step keeps the invariant.
LEMMA DiffInvInductive == DiffInv /\ [DiffNext]_diffVars => DiffInv'
<1> SUFFICES ASSUME DiffInv, [DiffNext]_diffVars PROVE DiffInv'
  OBVIOUS
<1>1. CASE Generate
  BY <1>1, GenerateKeeps
<1>2. CASE GenerateInitial
  BY <1>2, GenerateInitialKeeps
<1>3. CASE Apply
  BY <1>3, ApplyKeeps
<1>4. CASE UNCHANGED diffVars
  <2>1. UNCHANGED <<project, schema, recorded, pending, db, lost, refused>>
    BY <1>4 DEF diffVars
  <2>2. Saved(schema)' = Saved(schema)
    BY <2>1 DEF Saved
  <2> QED
    BY <2>1, <2>2 DEF DiffInv
<1> QED
  BY <1>1, <1>2, <1>3, <1>4 DEF DiffNext

\* The invariant is what converging needs.
LEMMA DiffInvConverges == DiffInv => Converges
<1> SUFFICES ASSUME DiffInv PROVE Converges
  OBVIOUS
<1>1. /\ project \in DOMAIN Schemas /\ schema \in Schemas[project] \cup {Empty}
      /\ recorded = schema /\ refused = FALSE /\ Shape(db) /\ Chain(Saved(schema), db, pending, schema)
      /\ (MaxPending[project] = 0 => lost \cap Ordinary(schema) = {})
  BY DEF DiffInv
<1>2. \A i \in DOMAIN pending : pending[i] # <<>>
  <2>1. DOMAIN pending = 1..Len(pending)
    BY <1>1, ListIs DEF Chain
  <2> QED
    BY <1>1, <2>1 DEF Chain
<1>3. ASSUME NEW t \in DOMAIN db.tables
      PROVE  /\ db.tables[t].pk \subseteq DOMAIN db.tables[t].cols
             /\ \A x \in DOMAIN db.tables[t].idx :
                    ToSet(db.tables[t].idx[x].cols) \subseteq DOMAIN db.tables[t].cols
             /\ DOMAIN db.tables[t].fks \subseteq DOMAIN db.tables[t].cols
  BY <1>1 DEF Shape, IsTable
<1>4. DiffTypeOK
  BY <1>1, <1>2, <1>3 DEF DiffTypeOK
<1>5. pending = <<>> => db = schema
  <2>1. Len(pending) = 0 => db = schema
    BY <1>1, ChainDone
  <2> QED
    BY <2>1
<1>6. WellFormed(schema)
  BY <1>1, EmptyWellFormed, SchemasAreExpressible
<1>7. ParentsFirst
  BY <1>6, ParentsComeFirst DEF WellFormed
<1>8. DataIsKept
  BY <1>1 DEF DataIsKept
<1> QED
  BY <1>1, <1>4, <1>5, <1>7, <1>8 DEF Converges

\* Whatever edits the diff can express are made, in whatever order erm gen and
\* erm migrate run: each file erm gen writes (diffSchema, its order and its
\* chunks, or the initial migration) is accepted in the state the files before
\* it have left, all of them together make the database what the entities say,
\* and no column they keep is dropped on the way.
THEOREM ConvergesAlways == DiffSpec => []Converges
<1>1. DiffInit => DiffInv
  BY DiffInvInit
<1>2. DiffInv /\ [DiffNext]_diffVars => DiffInv'
  BY DiffInvInductive
<1>3. DiffInv => Converges
  BY DiffInvConverges
<1> QED
  BY <1>1, <1>2, <1>3, PTL DEF DiffSpec

==============================================================================
