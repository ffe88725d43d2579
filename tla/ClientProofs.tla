---------------------------- MODULE ClientProofs ----------------------------
(***************************************************************************)
(* Proofs about the parts of the generated client: the walk of a           *)
(* connection (Pagination), the query builder, the bulk statements and the *)
(* streams (Queries), the code of an entity (EntityCode), the Load methods *)
(* (EdgeLoaders), and the client they are parts of (MCClient), for any     *)
(* schema, any table, any objects and rows, any sizes and limits, and any  *)
(* number of steps.                                                        *)
(***************************************************************************)
EXTENDS MCClient, FiniteSetTheorems, SequenceTheorems, FunctionTheorems, WellFoundedInduction, TLAPS

-----------------------------------------------------------------------------
(* The rows of a table in order: ranks. *)

\* A set of numbers that is not empty has a least member.
LEMMA LeastNumber ==
    ASSUME NEW S \in SUBSET Nat, S # {}
    PROVE  \E n \in S : \A m \in S : n <= m
<1>1. PICK n \in S : \A m \in S : ~ (<<m, n>> \in OpToRel(<, Nat))
  BY NatLessThanWellFounded, WFMin, Zenon
<1>2. \A m \in S : ~ (m < n)
  BY <1>1 DEF OpToRel
<1> QED
  BY <1>2

\* One with a bound has a greatest member.
LEMMA GreatestNumber ==
    ASSUME NEW n \in Nat, NEW S \in SUBSET (1..n), S # {}
    PROVE  \E i \in S : \A j \in S : j <= i
<1> DEFINE Back == {d \in 0..n : n - d \in S}
<1>1. PICK i \in S : TRUE
  OBVIOUS
<1>2. n - i \in Back /\ Back \in SUBSET Nat
  <2>1. i \in 1..n
    OBVIOUS
  <2>2. n - i \in 0..n /\ n - (n - i) = i
    BY <2>1
  <2> QED
    BY <2>2
<1>3. PICK d \in Back : \A m \in Back : d <= m
  BY <1>2, LeastNumber
<1>4. ASSUME NEW j \in S PROVE j <= n - d
  <2>1. j \in 1..n
    OBVIOUS
  <2>2. n - j \in 0..n /\ n - (n - j) = j
    BY <2>1
  <2>3. d <= n - j
    BY <2>2, <1>3
  <2> QED
    BY <2>1, <2>3
<1> QED
  BY <1>3, <1>4

\* A table has a size, and the rank of a row is below it.
LEMMA RankType ==
    ASSUME NEW n \in Nat, NEW S \in SUBSET (1..n)
    PROVE  /\ IsFiniteSet(S) /\ Cardinality(S) \in 0..n
           /\ \A i \in Int : IsFiniteSet({j \in S : j < i}) /\ Rank(S, i) \in 0..Cardinality(S)
           /\ \A i \in S : Rank(S, i) < Cardinality(S)
<1>1. IsFiniteSet(1..n) /\ Cardinality(1..n) = n
  BY FS_Interval
<1>2. IsFiniteSet(S) /\ Cardinality(S) \in 0..n
  <2>1. IsFiniteSet(S) /\ Cardinality(S) <= n
    BY <1>1, FS_Subset
  <2>2. Cardinality(S) \in Nat
    BY <2>1, FS_CardinalityType
  <2> QED
    BY <2>1, <2>2
<1>3. ASSUME NEW i \in Int
      PROVE  IsFiniteSet({j \in S : j < i}) /\ Rank(S, i) \in 0..Cardinality(S)
  <2>1. {j \in S : j < i} \in SUBSET S
    OBVIOUS
  <2>2. IsFiniteSet({j \in S : j < i}) /\ Cardinality({j \in S : j < i}) <= Cardinality(S)
    BY <1>2, <2>1, FS_Subset
  <2> QED
    BY <1>2, <2>2, FS_CardinalityType DEF Rank
<1>4. ASSUME NEW i \in S PROVE Rank(S, i) < Cardinality(S)
  <2>1. i \in Int
    OBVIOUS
  <2>2. {j \in S : j < i} \in SUBSET S /\ i \notin {j \in S : j < i}
    BY <2>1
  <2>3. Cardinality({j \in S : j < i}) # Cardinality(S)
    BY <1>2, <2>2, FS_Subset
  <2>4. Rank(S, i) # Cardinality(S)
    BY <2>3 DEF Rank
  <2>5. Rank(S, i) \in 0..Cardinality(S)
    BY <2>1, <1>3
  <2> QED
    BY <2>4, <2>5, <1>2
<1> QED
  BY <1>2, <1>3, <1>4

\* Ranks grow with the rows.
LEMMA RankGrows ==
    ASSUME NEW n \in Nat, NEW S \in SUBSET (1..n), NEW i \in Int, NEW k \in Int
    PROVE  /\ i <= k => Rank(S, i) <= Rank(S, k)
           /\ i \in S /\ i < k => Rank(S, i) < Rank(S, k)
<1> DEFINE A == {j \in S : j < i}
           B == {j \in S : j < k}
<1>1. IsFiniteSet(A) /\ IsFiniteSet(B) /\ Rank(S, i) = Cardinality(A) /\ Rank(S, k) = Cardinality(B)
  BY RankType DEF Rank
<1>0. \A j \in S : j \in Int
  OBVIOUS
<1>2. ASSUME i <= k PROVE A \subseteq B
  <2>1. ASSUME NEW j \in S, j < i PROVE j < k
    BY <1>0, <1>2, <2>1
  <2> QED
    BY <2>1
<1>3. ASSUME i \in S, i < k PROVE A \subseteq B /\ A # B
  <2>1. A \subseteq B
    <3>1. ASSUME NEW j \in S, j < i PROVE j < k
      BY <1>0, <1>3, <3>1
    <3> QED
      BY <3>1
  <2>2. i \in B /\ i \notin A
    BY <1>3
  <2> QED
    BY <2>1, <2>2
<1>4. Cardinality(A) \in Nat /\ Cardinality(B) \in Nat
  BY <1>1, FS_CardinalityType
<1> HIDE DEF A, B
<1>5. A \subseteq B => Cardinality(A) <= Cardinality(B) /\ (Cardinality(A) = Cardinality(B) => A = B)
  BY <1>1, FS_Subset
<1> QED
  BY <1>1, <1>2, <1>3, <1>4, <1>5

\* No two rows have the same rank.
LEMMA RankUnique ==
    ASSUME NEW n \in Nat, NEW S \in SUBSET (1..n), NEW i \in S, NEW j \in S,
           Rank(S, i) = Rank(S, j)
    PROVE  i = j
<1>1. i \in Int /\ j \in Int
  OBVIOUS
<1>2. Rank(S, i) \in Int /\ Rank(S, j) \in Int
  <2>1. Cardinality(S) \in 0..n /\ \A k \in Int : Rank(S, k) \in 0..Cardinality(S)
    BY RankType
  <2> QED
    BY <1>1, <2>1
<1>3. \A lo, hi \in Int : lo \in S /\ lo < hi => Rank(S, lo) < Rank(S, hi)
  BY RankGrows
<1> QED
  BY <1>1, <1>2, <1>3

\* Every position in the table is the rank of a row.
LEMMA RankExists ==
    ASSUME NEW n \in Nat, NEW S \in SUBSET (1..n), NEW r \in Nat, r < Cardinality(S)
    PROVE  \E i \in S : Rank(S, i) = r
<1> DEFINE High == {i \in S : r <= Rank(S, i)}
<1>1. \A i \in S : i \in Int /\ Rank(S, i) \in Nat
  <2>1. Cardinality(S) \in 0..n /\ \A i \in Int : Rank(S, i) \in 0..Cardinality(S)
    BY RankType
  <2> QED
    BY <2>1
<1>2. High # {}
  <2>0. S # {} /\ IsFiniteSet(S) /\ Cardinality(S) \in Nat
    <3>1. IsFiniteSet(S) /\ Cardinality(S) \in 0..n
      BY RankType
    <3>2. Cardinality(S) # 0
      BY <3>1
    <3> QED
      BY <3>1, <3>2, FS_EmptySet
  <2>1. PICK m \in S : \A j \in S : j <= m
    BY <2>0, GreatestNumber
  <2>2. {j \in S : j < m} = S \ {m}
    <3>1. ASSUME NEW j \in S PROVE j < m <=> j # m
      BY <2>1, <1>1
    <3> QED
      BY <3>1
  <2>3. Rank(S, m) = Cardinality(S) - 1
    BY <2>0, <2>2, FS_RemoveElement DEF Rank
  <2> QED
    BY <2>0, <2>3
<1>3. PICK i \in High : \A j \in High : i <= j
  <2>1. \A j \in High : j \in Nat
    OBVIOUS
  <2> HIDE DEF High
  <2> QED
    BY <2>1, <1>2, LeastNumber
<1>4. ASSUME r < Rank(S, i) PROVE FALSE
  <2> DEFINE Below == {j \in S : j < i}
  <2>1. Rank(S, i) = Cardinality(Below) /\ IsFiniteSet(Below) /\ i \in S /\ i \in Int
    BY <1>1, RankType DEF Rank
  <2>2. Below # {} /\ Below \in SUBSET (1..n)
    <3>1. Cardinality(Below) # 0
      BY <1>1, <1>4, <2>1
    <3> HIDE DEF Below
    <3>2. Below # {}
      BY <3>1, FS_EmptySet
    <3> QED
      BY <3>2 DEF Below
  <2>3. PICK m \in Below : \A j \in Below : j <= m
    BY <2>2, GreatestNumber
  <2>4. {j \in S : j < m} = Below \ {m}
    <3>1. m \in Int /\ m < i
      BY <2>3, <1>1
    <3>2. ASSUME NEW j \in S PROVE j < m <=> j < i /\ j # m
      BY <2>1, <2>3, <3>1, <1>1
    <3> QED
      BY <3>2
  <2>5. Cardinality(Below \ {m}) = Cardinality(Below) - 1
    BY <2>1, FS_RemoveElement
  <2>6. Rank(S, m) = Rank(S, i) - 1
    BY <2>1, <2>4, <2>5 DEF Rank
  <2>7. m \in High
    BY <2>1, <2>6, <1>1, <1>4
  <2> QED
    BY <2>7, <2>3, <2>1, <1>3, <1>1
<1> QED
  BY <1>1, <1>3, <1>4

\* A row put behind all others changes no rank, one that is taken away raises none.
LEMMA RankKept ==
    ASSUME NEW n \in Nat, NEW S \in SUBSET (1..n), NEW x \in 1..n
    PROVE  /\ \A i \in Int : i <= x => Rank(S \cup {x}, i) = Rank(S, i)
           /\ \A i \in Int : Rank(S \ {x}, i) <= Rank(S, i)
           /\ \A i \in Int : Rank(S, i) <= Rank(S \cup {x}, i)
           /\ x \notin S => Cardinality(S \cup {x}) = Cardinality(S) + 1
<1>1. ASSUME NEW i \in Int, i <= x PROVE Rank(S \cup {x}, i) = Rank(S, i)
  <2>1. {j \in S \cup {x} : j < i} = {j \in S : j < i}
    BY <1>1
  <2> QED
    BY <2>1 DEF Rank
<1>2. ASSUME NEW i \in Int PROVE Rank(S \ {x}, i) <= Rank(S, i)
  <2>1. {j \in S \ {x} : j < i} \in SUBSET {j \in S : j < i}
    OBVIOUS
  <2>2. IsFiniteSet({j \in S : j < i})
    BY RankType
  <2> QED
    BY <2>1, <2>2, FS_Subset DEF Rank
<1>3. ASSUME NEW i \in Int PROVE Rank(S, i) <= Rank(S \cup {x}, i)
  <2>1. {j \in S : j < i} \in SUBSET {j \in S \cup {x} : j < i}
    OBVIOUS
  <2>2. S \cup {x} \in SUBSET (1..n)
    OBVIOUS
  <2>3. IsFiniteSet({j \in S \cup {x} : j < i})
    BY <2>2, RankType
  <2> QED
    BY <2>1, <2>3, FS_Subset DEF Rank
<1>4. x \notin S => Cardinality(S \cup {x}) = Cardinality(S) + 1
  BY RankType, FS_AddElement
<1> QED
  BY <1>1, <1>2, <1>3, <1>4

\* A sequence put behind another.
LEMMA SeqConcat ==
    ASSUME NEW S, NEW s \in Seq(S), NEW t \in Seq(S)
    PROVE  /\ s \o t \in Seq(S) /\ Len(s \o t) = Len(s) + Len(t)
           /\ \A k \in 1..Len(s) : (s \o t)[k] = s[k]
           /\ \A k \in 1..Len(t) : (s \o t)[Len(s) + k] = t[k]
           /\ t = <<>> => s \o t = s
<1>1. Len(s) \in Nat /\ Len(t) \in Nat
  OBVIOUS
<1>2. /\ s \o t \in Seq(S) /\ Len(s \o t) = Len(s) + Len(t)
      /\ \A k \in 1..(Len(s) + Len(t)) : (s \o t)[k] = IF k <= Len(s) THEN s[k] ELSE t[k - Len(s)]
  BY ConcatProperties
<1>3. \A k \in 1..Len(s) : (s \o t)[k] = s[k]
  BY <1>1, <1>2
<1>4. ASSUME NEW k \in 1..Len(t) PROVE (s \o t)[Len(s) + k] = t[k]
  <2>1. Len(s) + k \in 1..(Len(s) + Len(t)) /\ ~ (Len(s) + k <= Len(s)) /\ (Len(s) + k) - Len(s) = k
    BY <1>1
  <2> QED
    BY <1>2, <2>1
<1>5. t = <<>> => s \o t = s
  BY ConcatEmptySeq
<1> QED
  BY <1>2, <1>3, <1>4, <1>5

-----------------------------------------------------------------------------
(* The walk of a connection. *)

\* The cursor is that of the last row the client has.
CursorIsLast ==
    \/ after \in {Omitted, Garbage} /\ seen = <<>>
    \/ after = [position |-> Len(seen) - 1] /\ Len(seen) \in 1..N

\* Where no row was inserted before one the client had got, it has rows in the
\* order of their ids, and what is still to come is behind them, whatever was
\* deleted.
SeenIsBehind ==
    /\ \A j, k \in 1..Len(seen) : j < k => seen[j] < seen[k]
    /\ \A i \in users : Len(seen) <= Rank(users, i) => \A k \in 1..Len(seen) : seen[k] < i

\* Where none was deleted, the client has the rows that were there when it began
\* and are before the next position, wherever others came; and a walk that has
\* counted does not stop before the last of them, unless one came before it since.
NothingMissed ==
    /\ Len(seen) <= Cardinality(users)
    /\ \A i \in kept : Rank(users, i) < Len(seen) => i \in Range(seen)
    /\ pc = "list" => /\ total <= Cardinality(users)
                      /\ ~late => \A i \in kept : Rank(users, i) < total
    /\ pc = "done" /\ ~late => kept \subseteq Range(seen)
    /\ seen # <<>> /\ info.hasNext => info.end # Omitted

WalkInv ==
    /\ WalkTypeOK /\ size \in Sizes
    /\ CursorIsLast
    /\ ~crossed => SeenIsBehind
    /\ ~deleted => NothingMissed

\* A page is the rows of its positions, and it is empty only behind the last row.
LEMMA PageOfRanks ==
    ASSUME users \in SUBSET UserIds, NEW limit \in Nat \ {0}, NEW offset \in Nat
    PROVE  LET page == Listed(limit, offset)
               rest == Cardinality(users) - offset
           IN  /\ page \in Seq(UserIds)
               /\ Len(page) = IF rest <= 0 THEN 0 ELSE IF limit < rest THEN limit ELSE rest
               /\ \A k \in 1..Len(page) :
                      page[k] \in users /\ Rank(users, page[k]) = offset + k - 1
               /\ \A i \in users : offset <= Rank(users, i) /\ Rank(users, i) < offset + Len(page)
                                   => \E k \in 1..Len(page) : page[k] = i
<1> DEFINE page == Listed(limit, offset)
           rest == Cardinality(users) - offset
           n == IF limit < rest THEN limit ELSE rest
           len == IF rest <= 0 THEN 0 ELSE IF limit < rest THEN limit ELSE rest
           row(k) == CHOOSE i \in users : Rank(users, i) = offset + k - 1
<1>1. /\ N \in Nat /\ UserIds = 1..N /\ Cardinality(users) \in Nat
      /\ \A i \in users : i \in Int /\ Rank(users, i) \in Nat /\ Rank(users, i) < Cardinality(users)
  <2>1. N \in Nat /\ UserIds = 1..N
    BY PaginationAssumption DEF UserIds
  <2>2. Cardinality(users) \in 0..N
    BY <2>1, RankType
  <2>3. \A i \in users : i \in Int
    BY <2>1
  <2>4. \A i \in users : Rank(users, i) \in 0..Cardinality(users) /\ Rank(users, i) < Cardinality(users)
    BY <2>1, <2>3, RankType
  <2> QED
    BY <2>1, <2>2, <2>3, <2>4
<1>2. page = [k \in 1..n |-> row(k)]
  BY DEF Listed
<1>3. len \in Nat /\ 1..n = 1..len /\ (len > 0 => offset + len <= Cardinality(users))
  BY <1>1
<1>4. ASSUME NEW k \in 1..len
      PROVE  row(k) \in users /\ Rank(users, row(k)) = offset + k - 1
  <2>1. offset + k - 1 \in Nat /\ offset + k - 1 < Cardinality(users)
    BY <1>1, <1>3
  <2>2. \E i \in users : Rank(users, i) = offset + k - 1
    BY <1>1, <2>1, RankExists
  <2> QED
    BY <2>2
<1> HIDE DEF row, n, len
<1>5. page = [k \in 1..len |-> row(k)]
  BY <1>2, <1>3
<1>6. page \in Seq(UserIds) /\ Len(page) = len
  <2>1. \A k \in 1..len : row(k) \in UserIds
    BY <1>4
  <2>2. page \in [1..len -> UserIds]
    BY <1>5, <2>1
  <2> HIDE DEF page
  <2> QED
    BY <1>3, <2>2
<1>7. \A k \in 1..len : page[k] \in users /\ Rank(users, page[k]) = offset + k - 1
  BY <1>4, <1>5
<1>8. ASSUME NEW i \in users, offset <= Rank(users, i), Rank(users, i) < offset + len
      PROVE  \E k \in 1..len : page[k] = i
  <2> DEFINE k == Rank(users, i) - offset + 1
  <2>1. k \in 1..len /\ offset + k - 1 = Rank(users, i)
    BY <1>1, <1>3, <1>8
  <2>2. page[k] \in users /\ Rank(users, page[k]) = Rank(users, i)
    BY <1>7, <2>1
  <2>3. page[k] = i
    BY <1>1, <2>2, RankUnique
  <2> QED
    BY <2>1, <2>3
<1> QED
  BY <1>6, <1>7, <1>8 DEF len
LEMMA WalkInitInv == WalkInit => WalkInv
<1> SUFFICES ASSUME WalkInit PROVE WalkInv
  OBVIOUS
<1>0. /\ users \in SUBSET UserIds
      /\ pc = "ask" /\ size \in Sizes /\ after \in Afters /\ total = 0
      /\ seen = <<>> /\ kept = users
      /\ deleted = FALSE /\ crossed = FALSE /\ late = FALSE
  BY DEF WalkInit
<1>1. N \in Nat /\ UserIds = 1..N /\ users \in SUBSET UserIds
  BY <1>0, PaginationAssumption DEF UserIds
<1>3. Cardinality(users) \in Nat /\ \A i \in users : Rank(users, i) \in Nat
  <2>1. Cardinality(users) \in 0..N /\ \A i \in Int : Rank(users, i) \in 0..Cardinality(users)
    BY <1>1, RankType
  <2> QED
    BY <1>1, <2>1
<1>4. seen = <<>> /\ Len(seen) = 0 /\ seen \in Seq(UserIds)
  BY <1>0
<1>5. WalkTypeOK /\ size \in Sizes
  <2>1. after \in {Omitted, Garbage}
    BY <1>0, PaginationAssumption
  <2>2. 0 \in 0..N
    BY <1>1
  <2>3. total \in 0..N /\ kept \subseteq users
    BY <1>0, <2>2
  <2>4. {deleted, crossed, late} \subseteq BOOLEAN
    BY <1>0
  <2> QED
    BY <1>0, <1>1, <1>4, <2>1, <2>3, <2>4 DEF WalkTypeOK
<1>6. CursorIsLast /\ SeenIsBehind
  BY <1>0, <1>4, PaginationAssumption DEF CursorIsLast, SeenIsBehind
<1>7. NothingMissed
  <2>1. \A i \in users : ~ (Rank(users, i) < 0)
    BY <1>3
  <2> QED
    BY <1>0, <1>3, <1>4, <2>1 DEF NothingMissed
<1> QED
  BY <1>5, <1>6, <1>7 DEF WalkInv

LEMMA CountUsersInv == WalkInv /\ CountUsers => WalkInv'
<1> SUFFICES ASSUME WalkInv, CountUsers PROVE WalkInv'
  OBVIOUS
<1>1. /\ total' = Cardinality(users) /\ pc' = "list" /\ late' = FALSE
      /\ UNCHANGED <<users, size, after, info, seen, kept, deleted, crossed>>
  BY DEF CountUsers
<1>2. N \in Nat /\ UserIds = 1..N /\ users \in SUBSET UserIds /\ kept \subseteq users
  BY PaginationAssumption DEF UserIds, WalkInv, WalkTypeOK
<1>3. Cardinality(users) \in 0..N /\ \A i \in users : Rank(users, i) < Cardinality(users)
  BY <1>2, RankType
<1>4. WalkTypeOK' /\ size' \in Sizes
  BY <1>1, <1>3 DEF WalkInv, WalkTypeOK
<1>5. CursorIsLast' /\ (~crossed' => SeenIsBehind')
  BY <1>1 DEF WalkInv, CursorIsLast, SeenIsBehind
<1>6. ~deleted' => NothingMissed'
  BY <1>1, <1>2, <1>3 DEF WalkInv, NothingMissed
<1> QED
  BY <1>4, <1>5, <1>6 DEF WalkInv

\* A new row lets the rows behind it slip back, and no other.
LEMMA InsertUserInv == ASSUME WalkInv, NEW x \in UserIds, InsertUser(x) PROVE WalkInv'
<1>1. /\ users' = users \cup {x} /\ x \notin users
      /\ crossed' = (crossed \/ \E k \in DOMAIN seen : x <= seen[k])
      /\ late' = (late \/ (pc = "list" /\ \E j \in kept : x < j))
      /\ UNCHANGED <<pc, size, after, total, info, seen, kept, deleted>>
  BY DEF InsertUser
<1>c. ~crossed' => ~crossed /\ \A k \in DOMAIN seen : ~ (x <= seen[k])
  BY <1>1, Zenon
<1>l. ~late' => ~late /\ (pc = "list" => \A j \in kept : ~ (x < j))
  BY <1>1, Zenon
<1>2. /\ N \in Nat /\ UserIds = 1..N /\ users \in SUBSET UserIds /\ kept \subseteq users
      /\ seen \in Seq(UserIds) /\ x \in 1..N /\ total \in 0..N
      /\ DOMAIN seen = 1..Len(seen) /\ Len(seen) \in Nat
  BY PaginationAssumption DEF UserIds, WalkInv, WalkTypeOK
<1>3. x \in Int /\ users' \in SUBSET (1..N) /\ \A i \in users' : i \in Int
  BY <1>1, <1>2
<1>4. /\ Cardinality(users) \in Nat /\ Cardinality(users') = Cardinality(users) + 1
      /\ \A i \in Int : /\ i <= x => Rank(users', i) = Rank(users, i)
                        /\ Rank(users, i) <= Rank(users', i)
  <2>1. Cardinality(users) \in 0..N
    BY <1>2, RankType
  <2>2. /\ Cardinality(users \cup {x}) = Cardinality(users) + 1
        /\ \A i \in Int : /\ i <= x => Rank(users \cup {x}, i) = Rank(users, i)
                          /\ Rank(users, i) <= Rank(users \cup {x}, i)
    BY <1>1, <1>2, RankKept
  <2> QED
    BY <1>1, <2>1, <2>2
<1>5. \A i \in Int : Rank(users, i) \in Int /\ Rank(users', i) \in Int
  <2>1. \A i \in Int : Rank(users, i) \in 0..Cardinality(users)
    BY <1>2, RankType
  <2>2. \A i \in Int : Rank(users', i) \in 0..Cardinality(users')
    BY <1>2, <1>3, RankType
  <2> QED
    BY <1>4, <2>1, <2>2
<1>6. WalkTypeOK' /\ size' \in Sizes
  BY <1>1, <1>2 DEF WalkInv, WalkTypeOK
<1>7. CursorIsLast'
  BY <1>1 DEF WalkInv, CursorIsLast
<1>8. ASSUME ~crossed' PROVE SeenIsBehind'
  <2>1. SeenIsBehind
    BY <1>c, <1>8 DEF WalkInv
  <2>2. \A k \in 1..Len(seen) : seen[k] \in Int /\ seen[k] < x
    <3>1. \A k \in 1..Len(seen) : seen[k] \in UserIds
      BY <1>2, ElementOfSeq
    <3>2. \A k \in 1..Len(seen) : ~ (x <= seen[k])
      BY <1>c, <1>2, <1>8
    <3> QED
      BY <1>2, <1>3, <3>1, <3>2
  <2>3. ASSUME NEW i \in users', Len(seen) <= Rank(users', i), NEW k \in 1..Len(seen)
        PROVE  seen[k] < i
    <3>1. CASE x <= i
      BY <1>3, <2>2, <3>1
    <3>2. CASE i <= x /\ i # x
      <4>1. i \in users /\ Len(seen) <= Rank(users, i)
        BY <1>1, <1>3, <1>4, <2>3, <3>2
      <4> QED
        BY <2>1, <4>1 DEF SeenIsBehind
    <3> QED
      BY <1>3, <3>1, <3>2
  <2> QED
    BY <1>1, <2>1, <2>3 DEF SeenIsBehind
<1>9. ASSUME ~deleted' PROVE NothingMissed'
  <2>1. NothingMissed
    BY <1>1, <1>9 DEF WalkInv
  <2>2. Len(seen') <= Cardinality(users')
    BY <1>1, <1>2, <1>4, <2>1 DEF NothingMissed
  <2>3. ASSUME NEW i \in kept', Rank(users', i) < Len(seen') PROVE i \in Range(seen')
    <3>0. i \in kept /\ i \in Int
      BY <1>1, <1>2
    <3>1. i \in kept /\ i \in Int /\ Rank(users, i) <= Rank(users', i)
      BY <1>4, <3>0
    <3>2. Rank(users, i) < Len(seen)
      BY <1>1, <1>2, <1>5, <2>3, <3>1
    <3> QED
      BY <1>1, <2>1, <3>1, <3>2 DEF NothingMissed
  <2>4. ASSUME pc' = "list"
        PROVE  total' <= Cardinality(users') /\ (~late' => \A i \in kept' : Rank(users', i) < total')
    <3>1. total <= Cardinality(users) /\ (~late => \A i \in kept : Rank(users, i) < total)
      BY <1>1, <2>1, <2>4 DEF NothingMissed
    <3>2. ASSUME ~late', NEW i \in kept PROVE Rank(users', i) < total
      <4>1. i \in Int /\ i <= x
        <5>1. i \in Int
          BY <1>2
        <5>2. ~ (x < i)
          BY <1>l, <1>1, <2>4, <3>2
        <5> QED
          BY <1>3, <5>1, <5>2
      <4>2. Rank(users', i) = Rank(users, i)
        BY <1>4, <4>1
      <4>3. Rank(users, i) < total
        BY <1>l, <3>1, <3>2
      <4> QED
        BY <4>2, <4>3
    <3>3. total \in Int /\ total' = total /\ kept' = kept
      BY <1>1, <1>2
    <3>4. total' <= Cardinality(users')
      BY <1>4, <3>1, <3>3
    <3> QED
      BY <3>2, <3>3, <3>4
  <2>5. /\ pc' = "done" /\ ~late' => kept' \subseteq Range(seen')
        /\ seen' # <<>> /\ info'.hasNext => info'.end # Omitted
    BY <1>1, <2>1 DEF NothingMissed
  <2> QED
    BY <2>2, <2>3, <2>4, <2>5 DEF NothingMissed
<1> QED
  BY <1>6, <1>7, <1>8, <1>9 DEF WalkInv

\* A row that goes lets rows slip past the next position, never behind it.
LEMMA DeleteUserInv == ASSUME WalkInv, NEW x \in UserIds, DeleteUser(x) PROVE WalkInv'
<1>1. /\ users' = users \ {x} /\ kept' = kept \ {x} /\ deleted' = TRUE
      /\ UNCHANGED <<pc, size, after, total, info, seen, crossed, late>>
  BY DEF DeleteUser
<1>2. /\ N \in Nat /\ UserIds = 1..N /\ users \in SUBSET UserIds /\ x \in 1..N
      /\ seen \in Seq(UserIds)
  BY PaginationAssumption DEF UserIds, WalkInv, WalkTypeOK
<1>3. \A i \in users' : Rank(users', i) \in Int /\ Rank(users, i) \in Int
                        /\ Rank(users', i) <= Rank(users, i)
  <2>1. \A i \in Int : Rank(users \ {x}, i) <= Rank(users, i)
    BY <1>2, RankKept
  <2>2. users' \in SUBSET (1..N)
    BY <1>1, <1>2
  <2>3. Cardinality(users) \in 0..N /\ \A i \in Int : Rank(users, i) \in 0..Cardinality(users)
    BY <1>2, RankType
  <2>4. Cardinality(users') \in 0..N /\ \A i \in Int : Rank(users', i) \in 0..Cardinality(users')
    BY <1>2, <2>2, RankType
  <2>5. ASSUME NEW i \in users' PROVE i \in Int
    BY <1>1, <1>2
  <2>6. \A i \in Int : Rank(users', i) \in Int /\ Rank(users, i) \in Int
    BY <2>3, <2>4
  <2> QED
    BY <1>1, <2>1, <2>5, <2>6
<1>4. WalkTypeOK' /\ size' \in Sizes
  BY <1>1 DEF WalkInv, WalkTypeOK
<1>5. CursorIsLast'
  BY <1>1 DEF WalkInv, CursorIsLast
<1>6. ASSUME ~crossed' PROVE SeenIsBehind'
  <2>0. SeenIsBehind
    BY <1>1, <1>6 DEF WalkInv
  <2>1. Len(seen) \in Int
    BY <1>2
  <2>2. ASSUME NEW i \in users', Len(seen) <= Rank(users', i), NEW k \in 1..Len(seen)
        PROVE  seen[k] < i
    <3>1. i \in users /\ Len(seen) <= Rank(users, i)
      BY <1>1, <1>3, <2>1, <2>2
    <3> QED
      BY <2>0, <3>1 DEF SeenIsBehind
  <2> QED
    BY <1>1, <2>0, <2>2 DEF SeenIsBehind
<1> QED
  BY <1>1, <1>4, <1>5, <1>6 DEF WalkInv

LEMMA ListUsersInv == WalkInv /\ ListUsers => WalkInv'
<1> SUFFICES ASSUME WalkInv, ListUsers PROVE WalkInv'
  OBVIOUS
<1> DEFINE page == Listed(PageSize, pageOffset)
           L == Len(seen)
           rest == Cardinality(users) - L
<1>1. /\ seen' = seen \o page /\ info' = PageInfo(page)
      /\ after' = IF info'.end = Omitted THEN after ELSE info'.end
      /\ pc' = IF info'.hasNext /\ info'.end # Omitted THEN "ask" ELSE "done"
      /\ pc = "list"
      /\ UNCHANGED <<users, size, total, kept, deleted, crossed, late>>
  BY DEF ListUsers, history
<1>2. /\ N \in Nat /\ UserIds = 1..N /\ users \in SUBSET UserIds /\ kept \subseteq users
      /\ seen \in Seq(UserIds) /\ total \in 0..N
  BY PaginationAssumption DEF UserIds, WalkInv, WalkTypeOK
<1>3. L \in Nat /\ L <= N /\ pageOffset = L
  <2>1. L \in Nat
    BY <1>2
  <2>2. CASE after \in {Omitted, Garbage} /\ seen = <<>>
    BY <1>2, <2>2 DEF pageOffset
  <2>3. CASE after = [position |-> L - 1] /\ L \in 1..N
    <3>1. L - 1 \in 0..N /\ (L - 1) + 1 = L
      BY <1>2, <2>3
    <3>2. after \notin {Omitted, Garbage}
      BY <2>3, <3>1, PaginationAssumption
    <3> QED
      BY <1>2, <2>1, <2>3, <3>1, <3>2 DEF pageOffset
  <2> QED
    BY <2>2, <2>3 DEF WalkInv, CursorIsLast
<1>4. PageSize \in Nat \ {0}
  <2>1. size = Omitted \/ size \in Int
    BY PaginationAssumption DEF WalkInv
  <2>2. DefaultSize \in Nat \ {0}
    BY PaginationAssumption
  <2> QED
    BY <2>1, <2>2 DEF PageSize
<1>5. /\ page \in Seq(UserIds)
      /\ Len(page) = IF rest <= 0 THEN 0 ELSE IF PageSize < rest THEN PageSize ELSE rest
      /\ \A k \in 1..Len(page) : page[k] \in users /\ Rank(users, page[k]) = L + k - 1
      /\ \A i \in users : L <= Rank(users, i) /\ Rank(users, i) < L + Len(page)
                          => \E k \in 1..Len(page) : page[k] = i
  <2>1. pageOffset \in Nat
    BY <1>3
  <2>2. /\ page \in Seq(UserIds)
        /\ Len(page) = IF Cardinality(users) - pageOffset <= 0 THEN 0
                       ELSE IF PageSize < Cardinality(users) - pageOffset THEN PageSize
                       ELSE Cardinality(users) - pageOffset
        /\ \A k \in 1..Len(page) :
               page[k] \in users /\ Rank(users, page[k]) = pageOffset + k - 1
        /\ \A i \in users : pageOffset <= Rank(users, i) /\ Rank(users, i) < pageOffset + Len(page)
                            => \E k \in 1..Len(page) : page[k] = i
    BY <1>2, <1>4, <2>1, PageOfRanks
  <2> HIDE DEF page
  <2> QED
    BY <1>3, <2>2
<1> HIDE DEF page
<1>6. /\ Cardinality(users) \in 0..N
      /\ \A i \in users : i \in Int /\ i \in 1..N /\ Rank(users, i) \in Nat
                          /\ Rank(users, i) < Cardinality(users)
  <2>1. Cardinality(users) \in 0..N /\ \A i \in Int : Rank(users, i) \in 0..Cardinality(users)
    BY <1>2, RankType
  <2>2. \A i \in users : i \in Int /\ i \in 1..N
    BY <1>2
  <2>3. \A i \in users : Rank(users, i) < Cardinality(users)
    BY <1>2, RankType
  <2> QED
    BY <2>1, <2>2, <2>3
<1> DEFINE P == Len(page)
<1>7. /\ P \in Nat /\ (P > 0 => L + P <= Cardinality(users))
      /\ (P = 0 => Cardinality(users) <= L)
  BY <1>3, <1>4, <1>5, <1>6
<1>8. /\ seen' \in Seq(UserIds) /\ Len(seen') = L + P
      /\ \A k \in 1..L : seen'[k] = seen[k]
      /\ \A k \in 1..P : seen'[L + k] = page[k]
      /\ (P = 0 => seen' = seen)
  <2>1. seen' = seen \o page
    BY <1>1
  <2>2. P = 0 => page = <<>>
    BY <1>5
  <2> DEFINE both == seen \o page
  <2>3. /\ both \in Seq(UserIds) /\ Len(both) = Len(seen) + Len(page)
        /\ \A k \in 1..Len(seen) : both[k] = seen[k]
        /\ \A k \in 1..Len(page) : both[Len(seen) + k] = page[k]
        /\ page = <<>> => both = seen
    <3>1. seen \in Seq(UserIds) /\ page \in Seq(UserIds)
      BY <1>2, <1>5
    <3> QED
      BY <3>1, SeqConcat
  <2>4. seen' = both
    BY <2>1
  <2> HIDE DEF both
  <2> QED
    BY <2>2, <2>3, <2>4
<1>9. /\ info'.hasNext = (L + P < total)
      /\ P = 0 => info'.end = Omitted
      /\ P > 0 => info'.end = [position |-> L + P - 1] /\ info'.end # Omitted
  <2>1. page = <<>> <=> P = 0
    BY <1>5
  <2>2. P > 0 => L + P - 1 \in 0..N
    BY <1>2, <1>3, <1>6, <1>7
  <2>3. P > 0 => [position |-> L + P - 1] # Omitted
    BY <2>2, PaginationAssumption
  <2> QED
    BY <1>1, <1>3, <1>7, <2>1, <2>3 DEF PageInfo, encodeCursor
<1> HIDE DEF P
<1>10. CursorIsLast'
  <2>1. CASE P = 0
    <3>1. after' = after /\ seen' = seen
      BY <1>1, <1>8, <1>9, <2>1
    <3> QED
      BY <3>1 DEF WalkInv, CursorIsLast
  <2>2. CASE P > 0
    <3>1. after' = [position |-> Len(seen') - 1]
      <4>1. info'.end = [position |-> L + P - 1] /\ info'.end # Omitted
        BY <1>9, <2>2
      <4>2. after' = info'.end
        BY <1>1, <4>1
      <4>3. L + P = Len(seen')
        BY <1>8, Zenon
      <4>4. after' = [position |-> L + P - 1]
        BY <4>1, <4>2
      <4>5. L + P - 1 = Len(seen') - 1
        BY <1>3, <1>7, <4>3
      <4> QED
        BY <4>4, <4>5
    <3>2. Len(seen') \in 1..N
      BY <1>2, <1>3, <1>6, <1>7, <1>8, <2>2
    <3> QED
      BY <3>1, <3>2 DEF CursorIsLast
  <2> QED
    BY <1>7, <2>1, <2>2
<1>11. WalkTypeOK' /\ size' \in Sizes
  <2>1. after' \in {Omitted, Garbage} \cup [position : 0..N]
    <3>1. CASE seen' = <<>>
      BY <3>1, <1>10, <1>8 DEF CursorIsLast
    <3>2. CASE seen' # <<>>
      <4>1. after' = [position |-> Len(seen') - 1] /\ Len(seen') \in 1..N
        BY <3>2, <1>10 DEF CursorIsLast
      <4>2. Len(seen') - 1 \in 0..N
        BY <1>2, <4>1
      <4> QED
        BY <4>1, <4>2
    <3> QED
      BY <3>1, <3>2
  <2>2. pc' \in {"ask", "list", "done"}
    BY <1>1
  <2> QED
    BY <1>1, <1>8, <2>1, <2>2 DEF WalkInv, WalkTypeOK
<1>12. ASSUME NEW k \in 1..(L + P)
       PROVE  \/ k \in 1..L /\ seen'[k] = seen[k] /\ seen[k] \in Int
              \/ \E m \in 1..P : k = L + m /\ seen'[k] = page[m] /\ page[m] \in users
                                 /\ page[m] \in Int
  <2>1. CASE k <= L
    BY <1>2, <1>3, <1>8, <2>1
  <2>2. CASE k > L
    <3>1. k - L \in 1..P /\ k = L + (k - L)
      BY <1>3, <1>7, <2>2
    <3> QED
      BY <3>1, <1>5, <1>6, <1>8 DEF P
  <2> QED
    BY <1>3, <2>1, <2>2
<1>13. ASSUME ~crossed' PROVE SeenIsBehind'
  <2>0. SeenIsBehind
    BY <1>1, <1>13 DEF WalkInv
  <2>1. ASSUME NEW j \in 1..(L + P), NEW k \in 1..(L + P), j < k
        PROVE  seen'[j] < seen'[k]
    <3>1. CASE k \in 1..L
      <4>1. j \in 1..L
        BY <1>3, <2>1, <3>1
      <4> QED
        BY <1>8, <2>0, <2>1, <3>1, <4>1 DEF SeenIsBehind
    <3>2. CASE k \notin 1..L
      <4>1. PICK m \in 1..P : k = L + m /\ seen'[k] = page[m] /\ page[m] \in users /\ page[m] \in Int
        BY <1>12, <3>2
      <4>2. Rank(users, page[m]) = L + m - 1
        BY <1>5 DEF P
      <4>3. CASE j \in 1..L
        <5>1. L <= Rank(users, page[m])
          BY <1>3, <1>7, <4>1, <4>2
        <5>2. seen[j] < page[m]
          BY <2>0, <4>1, <4>3, <5>1 DEF SeenIsBehind
        <5> QED
          BY <1>8, <4>1, <4>3, <5>2
      <4>4. CASE j \notin 1..L
        <5>1. PICK h \in 1..P : j = L + h /\ seen'[j] = page[h] /\ page[h] \in users /\ page[h] \in Int
          BY <1>12, <4>4
        <5>2. Rank(users, page[h]) = L + h - 1
          BY <1>5 DEF P
        <5>3. Rank(users, page[h]) < Rank(users, page[m])
          BY <1>3, <1>7, <2>1, <4>1, <4>2, <5>1, <5>2
        <5>4. ~ (page[m] <= page[h])
          <6>1. \A lo, hi \in Int : lo <= hi => Rank(users, lo) <= Rank(users, hi)
            BY <1>2, RankGrows
          <6> QED
            BY <1>6, <4>1, <5>1, <5>3, <6>1
        <5> QED
          BY <4>1, <5>1, <5>4
      <4> QED
        BY <4>3, <4>4
    <3> QED
      BY <3>1, <3>2
  <2>3. ASSUME NEW i \in users, L + P <= Rank(users, i), NEW k \in 1..(L + P)
        PROVE  seen'[k] < i
    <3>1. CASE k \in 1..L
      <4>1. L <= Rank(users, i)
        BY <1>3, <1>6, <1>7, <2>3
      <4> QED
        BY <1>8, <2>0, <3>1, <4>1 DEF SeenIsBehind
    <3>2. CASE k \notin 1..L
      <4>1. PICK m \in 1..P : k = L + m /\ seen'[k] = page[m] /\ page[m] \in users /\ page[m] \in Int
        BY <1>12, <3>2
      <4>2. Rank(users, page[m]) = L + m - 1
        BY <1>5 DEF P
      <4>3. Rank(users, page[m]) < Rank(users, i)
        BY <1>3, <1>6, <1>7, <2>3, <4>2
      <4>4. ~ (i <= page[m])
        <5>1. \A lo, hi \in Int : lo <= hi => Rank(users, lo) <= Rank(users, hi)
          BY <1>2, RankGrows
        <5> QED
          BY <1>6, <4>1, <4>3, <5>1
      <4> QED
        BY <1>6, <4>1, <4>4
    <3> QED
      BY <3>1, <3>2
  <2> QED
    BY <1>1, <1>8, <2>1, <2>3 DEF SeenIsBehind
<1>14. ASSUME ~deleted' PROVE NothingMissed'
  <2>1. NothingMissed
    BY <1>1, <1>14 DEF WalkInv
  <2>2. /\ L <= Cardinality(users) /\ total <= Cardinality(users)
        /\ ~late => \A i \in kept : Rank(users, i) < total
    BY <1>1, <2>1 DEF NothingMissed
  <2>3. L + P <= Cardinality(users)
    BY <1>3, <1>6, <1>7, <2>2
  <2>4. ASSUME NEW i \in kept, Rank(users, i) < L + P PROVE i \in Range(seen')
    <3>0. i \in users
      BY <1>2
    <3>1. CASE Rank(users, i) < L
      <4>1. i \in Range(seen)
        BY <2>1, <3>1 DEF NothingMissed
      <4>2. PICK k \in DOMAIN seen : seen[k] = i
        BY <4>1 DEF Range
      <4>3. k \in 1..L /\ k \in 1..(L + P)
        BY <1>2, <1>3, <1>7, <4>2
      <4>4. seen'[k] = i /\ k \in DOMAIN seen'
        BY <1>8, <4>2, <4>3
      <4> QED
        BY <4>4 DEF Range
    <3>2. CASE L <= Rank(users, i)
      <4>1. PICK k \in 1..P : page[k] = i
        BY <1>5, <2>4, <3>0, <3>2 DEF P
      <4>2. seen'[L + k] = i /\ L + k \in 1..(L + P)
        BY <1>3, <1>7, <1>8, <4>1
      <4>3. L + k \in DOMAIN seen'
        BY <1>8, <4>2
      <4> QED
        BY <4>2, <4>3 DEF Range
    <3> QED
      BY <1>3, <1>6, <3>0, <3>1, <3>2
  <2>5. pc' # "list"
    BY <1>1
  <2>6. ASSUME pc' = "done", ~late PROVE kept \subseteq Range(seen')
    <3>1. total <= L + P
      <4>1. CASE P = 0
        BY <1>2, <1>3, <1>6, <1>7, <2>2, <4>1
      <4>2. CASE P > 0
        <5>1. ~ (L + P < total)
          BY <1>1, <1>9, <2>6, <4>2
        <5> QED
          BY <1>2, <1>3, <1>7, <5>1
      <4> QED
        BY <1>7, <4>1, <4>2
    <3>2. \A i \in kept : i \in users /\ Rank(users, i) < L + P
      BY <1>2, <1>3, <1>6, <1>7, <2>2, <2>6, <3>1
    <3> QED
      BY <2>4, <3>2
  <2>7. info'.hasNext => info'.end # Omitted
    <3>1. P = 0 => ~ (L + P < total)
      BY <1>2, <1>3, <1>6, <1>7, <2>2
    <3>2. CASE P = 0
      BY <1>9, <3>1, <3>2
    <3>3. CASE P > 0
      BY <1>9, <3>3
    <3> QED
      BY <1>7, <3>2, <3>3
  <2> QED
    BY <1>1, <1>8, <2>3, <2>4, <2>5, <2>6, <2>7 DEF NothingMissed
<1> QED
  BY <1>10, <1>11, <1>13, <1>14 DEF WalkInv

\* What the walk keeps gives the property.
LEMMA WalkInvIsComplete == WalkInv => WalkTypeOK /\ WalkIsComplete
<1> SUFFICES ASSUME WalkInv PROVE WalkIsComplete
  BY DEF WalkInv
<1>1. seen \in Seq(UserIds) /\ UserIds \subseteq Int /\ DOMAIN seen = 1..Len(seen)
  BY PaginationAssumption DEF WalkInv, WalkTypeOK, UserIds
<1>2. ASSUME ~crossed PROVE IsInjective(seen)
  <2>1. ASSUME NEW j \in DOMAIN seen, NEW k \in DOMAIN seen, seen[j] = seen[k] PROVE j = k
    <3>1. j \in 1..Len(seen) /\ k \in 1..Len(seen) /\ seen[j] \in Int /\ seen[k] \in Int
      BY <1>1, ElementOfSeq
    <3>2. \A lo, hi \in 1..Len(seen) : lo < hi => seen[lo] < seen[hi]
      BY <1>2 DEF WalkInv, SeenIsBehind
    <3> QED
      BY <2>1, <3>1, <3>2
  <2> QED
    BY <2>1 DEF IsInjective
<1> QED
  BY <1>2 DEF WalkIsComplete, WalkInv, NothingMissed

\* A walk is well formed; a client gets a row twice only after one was inserted
\* before a row it had got; and one during which no row is deleted misses none of
\* those that were there all along, wherever others came, unless one came before
\* them between the last Count and List (graphql/resolvers/entities_gen.go Users).
THEOREM WalkIsCompleteAlways == WalkSpec => []WalkTypeOK /\ []WalkIsComplete
<1>1. WalkInit => WalkInv
  BY WalkInitInv
<1>2. WalkInv /\ [WalkNext]_walkVars => WalkInv'
  <2> SUFFICES ASSUME WalkInv, [WalkNext]_walkVars PROVE WalkInv'
    OBVIOUS
  <2>1. CASE CountUsers
    BY <2>1, CountUsersInv
  <2>2. CASE ListUsers
    BY <2>2, ListUsersInv
  <2>3. ASSUME NEW x \in UserIds, InsertUser(x) PROVE WalkInv'
    BY <2>3, InsertUserInv
  <2>4. ASSUME NEW x \in UserIds, DeleteUser(x) PROVE WalkInv'
    BY <2>4, DeleteUserInv
  <2>5. CASE UNCHANGED walkVars
    BY <2>5 DEF walkVars, history, WalkInv, WalkTypeOK, CursorIsLast, SeenIsBehind, NothingMissed
  <2> QED
    BY <2>1, <2>2, <2>3, <2>4, <2>5 DEF WalkNext, Quiet
<1>3. WalkInv => WalkTypeOK /\ WalkIsComplete
  BY WalkInvIsComplete
<1> QED
  BY <1>1, <1>2, <1>3, PTL DEF WalkSpec

-----------------------------------------------------------------------------
(* Rows in an order.  A relation that orders a finite set gives each place   *)
(* in it to one member.                                                      *)

OrdersIn(R, S) ==
    /\ \A i \in S : <<i, i>> \notin R
    /\ \A i, j, k \in S : <<i, j>> \in R /\ <<j, k>> \in R => <<i, k>> \in R
    /\ \A i, j \in S : i = j \/ <<i, j>> \in R \/ <<j, i>> \in R

Below(R, S, i) == {j \in S : <<j, i>> \in R}

\* Whoever comes later has more before it, and the last one all others.
LEMMA PlacesGrow ==
    ASSUME NEW S, IsFiniteSet(S), NEW R, OrdersIn(R, S)
    PROVE  /\ Cardinality(S) \in Nat
           /\ \A i \in S : IsFiniteSet(Below(R, S, i)) /\ Cardinality(Below(R, S, i)) \in Nat
                           /\ Cardinality(Below(R, S, i)) < Cardinality(S)
           /\ \A i, k \in S : <<i, k>> \in R => Cardinality(Below(R, S, i)) < Cardinality(Below(R, S, k))
<1>1. Cardinality(S) \in Nat
  BY FS_CardinalityType
<1>2. ASSUME NEW i \in S
      PROVE  /\ IsFiniteSet(Below(R, S, i)) /\ Cardinality(Below(R, S, i)) \in Nat
             /\ Cardinality(Below(R, S, i)) < Cardinality(S)
  <2>1. Below(R, S, i) \in SUBSET S /\ Below(R, S, i) # S
    BY DEF Below, OrdersIn
  <2>2. IsFiniteSet(Below(R, S, i)) /\ Cardinality(Below(R, S, i)) <= Cardinality(S)
        /\ Cardinality(Below(R, S, i)) # Cardinality(S)
    BY <2>1, FS_Subset
  <2>3. Cardinality(Below(R, S, i)) \in Nat
    BY <2>2, FS_CardinalityType
  <2> QED
    BY <1>1, <2>2, <2>3
<1>3. ASSUME NEW i \in S, NEW k \in S, <<i, k>> \in R
      PROVE  Cardinality(Below(R, S, i)) < Cardinality(Below(R, S, k))
  <2>1. Below(R, S, i) \in SUBSET Below(R, S, k)
    BY <1>3 DEF Below, OrdersIn
  <2>2. i \in Below(R, S, k) /\ i \notin Below(R, S, i)
    BY <1>3 DEF Below, OrdersIn
  <2>3. Cardinality(Below(R, S, i)) <= Cardinality(Below(R, S, k))
        /\ Cardinality(Below(R, S, i)) # Cardinality(Below(R, S, k))
    BY <1>2, <2>1, <2>2, FS_Subset
  <2> QED
    BY <1>2, <2>3
<1> QED
  BY <1>1, <1>2, <1>3

\* A part of it that is not empty has a last member.
LEMMA LastExists ==
    ASSUME NEW S, IsFiniteSet(S), NEW R, OrdersIn(R, S), NEW T \in SUBSET S, T # {}
    PROVE  \E m \in T : \A j \in T : j = m \/ <<j, m>> \in R
<1> DEFINE place(i) == Cardinality(Below(R, S, i))
           Back == {Cardinality(S) - place(i) : i \in T}
<1>1. Cardinality(S) \in Nat /\ \A i \in T : place(i) \in Nat /\ place(i) < Cardinality(S)
  BY PlacesGrow
<1>2. Back \in SUBSET Nat /\ Back # {}
  <2> HIDE DEF place
  <2> QED
    BY <1>1
<1>3. PICK d \in Back : \A e \in Back : d <= e
  <2> HIDE DEF Back
  <2> QED
    BY <1>2, LeastNumber
<1>4. PICK m \in T : d = Cardinality(S) - place(m)
  OBVIOUS
<1>5. ASSUME NEW j \in T PROVE j = m \/ <<j, m>> \in R
  <2>1. d <= Cardinality(S) - place(j)
    BY <1>3
  <2>2. ~ (place(m) < place(j))
    <3> HIDE DEF place
    <3> QED
      BY <1>1, <1>4, <2>1
  <2>3. <<m, j>> \notin R
    BY <2>2, PlacesGrow
  <2> QED
    BY <2>3 DEF OrdersIn
<1> QED
  BY <1>5

\* Every place is somebody's.
LEMMA PlaceExists ==
    ASSUME NEW S, IsFiniteSet(S), NEW R, OrdersIn(R, S), NEW r \in Nat, r < Cardinality(S)
    PROVE  \E i \in S : Cardinality(Below(R, S, i)) = r
<1> DEFINE place(i) == Cardinality(Below(R, S, i))
           High == {i \in S : r <= place(i)}
           Places == {place(i) : i \in High}
<1>1. /\ Cardinality(S) \in Nat
      /\ \A i \in S : place(i) \in Nat /\ IsFiniteSet(Below(R, S, i))
  BY PlacesGrow
<1>2. ASSUME NEW T \in SUBSET S, NEW m \in T, IsFiniteSet(T), \A j \in T : j = m \/ <<j, m>> \in R,
             \A j \in S, k \in T : <<j, k>> \in R => j \in T
      PROVE  place(m) = Cardinality(T) - 1
  <2>1. Below(R, S, m) = T \ {m}
    BY <1>2 DEF Below, OrdersIn
  <2> QED
    BY <1>2, <2>1, FS_RemoveElement
<1>3. High # {}
  <2>1. S # {}
    BY <1>1, FS_EmptySet
  <2>2. PICK m \in S : \A j \in S : j = m \/ <<j, m>> \in R
    BY <2>1, LastExists
  <2>3. place(m) = Cardinality(S) - 1
    BY <1>2, <2>2
  <2> HIDE DEF place
  <2> QED
    BY <1>1, <2>3
<1>4. Places \in SUBSET Nat /\ Places # {}
  <2> HIDE DEF place
  <2> QED
    BY <1>1, <1>3
<1>5. PICK p \in Places : \A q \in Places : p <= q
  <2> HIDE DEF Places
  <2> QED
    BY <1>4, LeastNumber
<1>6. PICK i \in High : p = place(i)
  OBVIOUS
<1>7. ASSUME r < place(i) PROVE FALSE
  <2> DEFINE T == Below(R, S, i)
  <2>1. T \in SUBSET S /\ IsFiniteSet(T) /\ Cardinality(T) \in Nat /\ i \in S
    BY <1>1 DEF Below
  <2>2. T # {}
    <3>1. Cardinality(T) # 0
      BY <1>7, <2>1
    <3> HIDE DEF T
    <3> QED
      BY <3>1, FS_EmptySet
  <2>3. PICK m \in T : \A j \in T : j = m \/ <<j, m>> \in R
    <3> HIDE DEF T
    <3> QED
      BY <2>1, <2>2, LastExists
  <2>4. \A j \in S, k \in T : <<j, k>> \in R => j \in T
    BY <2>1 DEF Below, OrdersIn
  <2>5. place(m) = place(i) - 1
    <3>1. place(m) = Cardinality(T) - 1
      <4> HIDE DEF T, place
      <4> QED
        BY <1>2, <2>1, <2>3, <2>4
    <3> QED
      BY <3>1
  <2>6. m \in S /\ place(i) \in Nat
    BY <1>1, <2>1, <2>3
  <2>7. m \in High /\ place(m) \in Places /\ ~ (place(i) <= place(m))
    <3> HIDE DEF place
    <3> QED
      BY <1>7, <2>5, <2>6
  <2> QED
    BY <1>5, <1>6, <2>7
<1> QED
  <2>1. i \in S /\ place(i) \in Nat /\ r <= place(i)
    BY <1>1, <1>6
  <2>2. place(i) = r
    <3> HIDE DEF place
    <3> QED
      BY <1>7, <2>1
  <2> QED
    BY <2>1, <2>2

-----------------------------------------------------------------------------
(* The rows the database returns. *)

LEMMA RowsAreNumbers ==
    /\ \A i \in RowIds : i \in Int
    /\ \A v \in RowValues \cup {Absent} : v \in Int
<1>1. \A i \in RowIds : i \in Int
  BY QueriesAssumption
<1>2. \A v \in RowValues \cup {Absent} : v \in Int
  BY QueriesAssumption DEF Absent
<1> QED
  BY <1>1, <1>2

\* ORDER BY returns every row once, in the order asked for.
LEMMA OrderedLists ==
    ASSUME table \in [RowIds -> RowValues \cup {Absent}], NEW S \in SUBSET RowIds, NEW byValue \in BOOLEAN
    PROVE  LET found == Ordered(S, byValue)
           IN  /\ found \in Seq(S) /\ Len(found) = Cardinality(S)
               /\ \A i \in S : \E k \in 1..Len(found) : found[k] = i
               /\ \A k, l \in 1..Len(found) : k < l => Before(found[k], found[l], byValue)
<1> DEFINE found == Ordered(S, byValue)
           R == {p \in S \X S : Before(p[1], p[2], byValue)}
           n == Cardinality(S)
           row(k) == CHOOSE i \in S : Cardinality({j \in S : Before(j, i, byValue)}) = k - 1
<1>1. \A i \in S : i \in Int /\ table[i] \in Int
  <2> HIDE DEF found, R, n, row
  <2>1. \A i \in S : i \in RowIds
    OBVIOUS
  <2> QED
    BY <2>1, RowsAreNumbers
<1>2. \A i, j \in S : <<i, j>> \in R <=> Before(i, j, byValue)
  <2> HIDE DEF found, row
  <2> QED
    OBVIOUS
<1>3. OrdersIn(R, S)
  <2> HIDE DEF R
  <2>1. \A i \in S : ~ Before(i, i, byValue)
    BY <1>1 DEF Before
  <2>2. \A i, j, k \in S : Before(i, j, byValue) /\ Before(j, k, byValue) => Before(i, k, byValue)
    <3>1. CASE byValue = TRUE
      BY <1>1, <3>1 DEF Before
    <3>2. CASE byValue = FALSE
      BY <1>1, <3>2 DEF Before
    <3> QED
      BY <3>1, <3>2
  <2>3. \A i, j \in S : i = j \/ Before(i, j, byValue) \/ Before(j, i, byValue)
    <3>1. CASE byValue = TRUE
      BY <1>1, <3>1 DEF Before
    <3>2. CASE byValue = FALSE
      BY <1>1, <3>2 DEF Before
    <3> QED
      BY <3>1, <3>2
  <2> QED
    BY <1>2, <2>1, <2>2, <2>3 DEF OrdersIn
<1>4. \A i \in S : {j \in S : Before(j, i, byValue)} = Below(R, S, i)
  BY <1>2 DEF Below
<1>5. IsFiniteSet(S) /\ n \in Nat
  BY QueriesAssumption, FS_Subset, FS_CardinalityType
<1>6. /\ \A i \in S : Cardinality(Below(R, S, i)) \in Nat /\ Cardinality(Below(R, S, i)) < n
      /\ \A i, k \in S : <<i, k>> \in R => Cardinality(Below(R, S, i)) < Cardinality(Below(R, S, k))
  <2> HIDE DEF R
  <2> QED
    BY <1>3, <1>5, PlacesGrow
<1>7. ASSUME NEW k \in 1..n
      PROVE  row(k) \in S /\ Cardinality(Below(R, S, row(k))) = k - 1
  <2>1. k - 1 \in Nat /\ k - 1 < n
    BY <1>5
  <2>2. \E i \in S : Cardinality(Below(R, S, i)) = k - 1
    <3> HIDE DEF R, n
    <3> QED
      BY <1>3, <1>5, <2>1, PlaceExists DEF n
  <2>3. \E i \in S : Cardinality({j \in S : Before(j, i, byValue)}) = k - 1
    BY <1>4, <2>2
  <2>4. row(k) \in S /\ Cardinality({j \in S : Before(j, row(k), byValue)}) = k - 1
    BY <2>3
  <2> QED
    BY <1>4, <2>4
<1>8. found = [k \in 1..n |-> row(k)]
  BY DEF Ordered
<1> HIDE DEF R, row, n
<1>9. found \in Seq(S) /\ Len(found) = n
  <2>1. \A k \in 1..n : row(k) \in S
    BY <1>7
  <2>2. found \in [1..n -> S]
    BY <1>8, <2>1
  <2> HIDE DEF found
  <2> QED
    BY <1>5, <2>2
<1>10. \A k \in 1..n : found[k] \in S /\ Cardinality(Below(R, S, found[k])) = k - 1
  BY <1>7, <1>8
<1> HIDE DEF found
<1>11. \A i, j \in S : Cardinality(Below(R, S, i)) = Cardinality(Below(R, S, j)) => i = j
  <2>1. ASSUME NEW i \in S, NEW j \in S, i # j
        PROVE  Cardinality(Below(R, S, i)) # Cardinality(Below(R, S, j))
    <3>1. <<i, j>> \in R \/ <<j, i>> \in R
      BY <1>3, <2>1 DEF OrdersIn
    <3> QED
      BY <1>6, <3>1
  <2> QED
    BY <2>1
<1>12. ASSUME NEW i \in S PROVE \E k \in 1..n : found[k] = i
  <2> DEFINE k == Cardinality(Below(R, S, i)) + 1
  <2>1. k \in 1..n /\ k - 1 = Cardinality(Below(R, S, i))
    BY <1>5, <1>6
  <2>2. found[k] = i
    <3> HIDE DEF k
    <3> QED
      BY <1>10, <1>11, <2>1
  <2> QED
    BY <2>1, <2>2
<1>13. ASSUME NEW k \in 1..n, NEW l \in 1..n, k < l PROVE Before(found[k], found[l], byValue)
  <2>1. /\ found[k] \in S /\ Cardinality(Below(R, S, found[k])) = k - 1
        /\ found[l] \in S /\ Cardinality(Below(R, S, found[l])) = l - 1
    BY <1>10
  <2>2. k - 1 < l - 1 /\ k - 1 # l - 1
    BY <1>5, <1>13
  <2>3. <<found[l], found[k]>> \notin R /\ found[k] # found[l]
    BY <1>6, <2>1, <2>2
  <2>4. <<found[k], found[l]>> \in R
    BY <1>3, <2>1, <2>3 DEF OrdersIn
  <2> QED
    BY <1>2, <2>1, <2>4
<1>14. /\ found \in Seq(S) /\ Len(found) = Cardinality(S)
       /\ \A i \in S : \E k \in 1..Len(found) : found[k] = i
       /\ \A k, l \in 1..Len(found) : k < l => Before(found[k], found[l], byValue)
  BY <1>9, <1>12, <1>13 DEF n
<1> QED
  BY <1>14, Zenon DEF found

\* LIMIT and OFFSET return a part of the rows.
LEMMA SliceType ==
    ASSUME NEW S, NEW s \in Seq(S), NEW offset \in Nat, NEW limit, limit = NoValue \/ limit \in Int
    PROVE  Slice(s, offset, limit) \in Seq(S)
<1> DEFINE stop == IF limit = NoValue THEN Len(s)
                   ELSE IF offset + limit > Len(s) THEN Len(s) ELSE offset + limit
<1>1. Len(s) \in Nat /\ stop \in Int /\ stop <= Len(s)
  OBVIOUS
<1>2. \A i \in (offset + 1)..stop : s[i] \in S
  BY <1>1, ElementOfSeq
<1> HIDE DEF stop
<1>3. SubSeq(s, offset + 1, stop) \in Seq(S)
  BY <1>1, <1>2, SubSeqProperties
<1> QED
  BY <1>3 DEF Slice, stop

-----------------------------------------------------------------------------
(* The statements of the query builder. *)

SelectSpec(spec) ==
    /\ spec.where \in Seq(Predicate) /\ spec.ordered \in BOOLEAN
    /\ spec.limit \in Int /\ spec.offset \in Nat

\* The rows a list of predicates describes.
Matching(where) ==
    {i \in Present : \A k \in DOMAIN where : Cell(i, where[k].column) = where[k].value}

LEMMA ArgumentsAreNumbers == ASSUME NEW p \in Predicate PROVE p.value \in Int
<1>1. p.value \in RowIds \cup RowValues
  BY DEF Predicate
<1> QED
  BY <1>1, RowsAreNumbers

\* The arguments of the predicates come first, then those of LIMIT and OFFSET.
LEMMA SelectArguments ==
    ASSUME NEW spec, SelectSpec(spec)
    PROVE  LET n == Len(spec.where)
               sql == BuildSelect(spec)
           IN  /\ \A k \in 1..n : sql.args[k] = spec.where[k].value
               /\ spec.limit > 0 => sql.args[sql.limit] = spec.limit /\ sql.limit # 0
               /\ spec.offset > 0 => sql.args[sql.offset] = spec.offset /\ sql.offset # 0
               /\ ~ (spec.limit > 0) => sql.limit = 0
               /\ ~ (spec.offset > 0) => sql.offset = 0
<1> DEFINE n == Len(spec.where)
           W == WhereArgs(spec.where)
           A == IF spec.limit > 0 THEN <<spec.limit>> ELSE <<>>
           B == IF spec.offset > 0 THEN <<spec.offset>> ELSE <<>>
           m == IF spec.limit > 0 THEN n + 1 ELSE n
           sql == BuildSelect(spec)
<1>1. n \in Nat /\ DOMAIN spec.where = 1..n /\ spec.limit \in Int /\ spec.offset \in Nat
  BY DEF SelectSpec
<1>2. W \in Seq(Int) /\ Len(W) = n /\ \A k \in 1..n : W[k] = spec.where[k].value
  <2>1. W = [k \in 1..n |-> spec.where[k].value]
    BY <1>1 DEF WhereArgs
  <2>2. \A k \in 1..n : spec.where[k].value \in Int
    BY ArgumentsAreNumbers, ElementOfSeq DEF SelectSpec
  <2>3. W \in [1..n -> Int]
    BY <2>1, <2>2
  <2>4. W \in Seq(Int) /\ Len(W) = n
    <3> HIDE DEF W, n
    <3> QED
      BY <1>1, <2>3
  <2> QED
    BY <2>1, <2>4
<1>3. /\ A \in Seq(Int) /\ Len(A) = (IF spec.limit > 0 THEN 1 ELSE 0)
      /\ spec.limit > 0 => A[1] = spec.limit
  BY <1>1
<1>4. /\ B \in Seq(Int) /\ Len(B) = (IF spec.offset > 0 THEN 1 ELSE 0)
      /\ spec.offset > 0 => B[1] = spec.offset
  BY <1>1
<1>5. /\ sql.args = (W \o A) \o B
      /\ sql.limit = IF spec.limit > 0 THEN n + 1 ELSE 0
      /\ sql.offset = IF spec.offset > 0 THEN m + 1 ELSE 0
  BY DEF BuildSelect
<1> HIDE DEF W, A, B, sql
<1>6. /\ W \o A \in Seq(Int) /\ Len(W \o A) = m
      /\ \A k \in 1..n : (W \o A)[k] = W[k]
      /\ \A k \in 1..Len(A) : (W \o A)[n + k] = A[k]
  <2>1. /\ W \o A \in Seq(Int) /\ Len(W \o A) = Len(W) + Len(A)
        /\ \A k \in 1..Len(W) : (W \o A)[k] = W[k]
        /\ \A k \in 1..Len(A) : (W \o A)[Len(W) + k] = A[k]
    <3>1. W \in Seq(Int) /\ A \in Seq(Int)
      BY <1>2, <1>3
    <3> QED
      BY <3>1, SeqConcat
  <2>2. Len(W) = n /\ Len(W) + Len(A) = m
    <3>1. Len(W) = n /\ Len(A) = (IF spec.limit > 0 THEN 1 ELSE 0)
      BY <1>2, <1>3
    <3>2. CASE spec.limit > 0
      BY <3>1, <3>2
    <3>3. CASE ~ (spec.limit > 0)
      <4>1. Len(A) = 0 /\ m = n
        BY <3>1, <3>3
      <4> HIDE DEF m, n
      <4> QED
        BY <1>1, <3>1, <4>1
    <3> QED
      BY <3>2, <3>3
  <2> QED
    BY <2>1, <2>2
<1>7. /\ \A k \in 1..m : sql.args[k] = (W \o A)[k]
      /\ \A k \in 1..Len(B) : sql.args[m + k] = B[k]
  <2>1. /\ \A k \in 1..Len(W \o A) : ((W \o A) \o B)[k] = (W \o A)[k]
        /\ \A k \in 1..Len(B) : ((W \o A) \o B)[Len(W \o A) + k] = B[k]
    BY <1>4, <1>6, SeqConcat
  <2> QED
    BY <1>5, <1>6, <2>1
<1>8. \A k \in 1..n : sql.args[k] = spec.where[k].value
  <2>1. \A k \in 1..n : k \in 1..m
    BY <1>1
  <2> QED
    BY <1>2, <1>6, <1>7, <2>1
<1>9. ASSUME spec.limit > 0 PROVE sql.args[sql.limit] = spec.limit /\ sql.limit # 0
  <2>1. sql.limit = n + 1 /\ n + 1 \in 1..m /\ 1 \in 1..Len(A) /\ n + 1 # 0
    BY <1>1, <1>3, <1>5, <1>9
  <2> QED
    BY <1>3, <1>6, <1>7, <1>9, <2>1
<1>10. ASSUME spec.offset > 0 PROVE sql.args[sql.offset] = spec.offset /\ sql.offset # 0
  <2>1. sql.offset = m + 1 /\ 1 \in 1..Len(B) /\ m + 1 # 0
    BY <1>1, <1>4, <1>5, <1>10
  <2> QED
    BY <1>4, <1>7, <1>10, <2>1
<1> QED
  BY <1>5, <1>8, <1>9, <1>10 DEF sql

\* What a SELECT returns: the rows its predicates describe, from the offset, as
\* many as its limit; a limit that is not positive is none.
LEMMA SelectReturns ==
    ASSUME NEW spec, SelectSpec(spec)
    PROVE  Run(BuildSelect(spec))
             = Slice(Ordered(Matching(spec.where), spec.ordered), spec.offset,
                     IF spec.limit > 0 THEN spec.limit ELSE NoValue)
<1> DEFINE sql == BuildSelect(spec)
<1>1. /\ \A k \in 1..Len(spec.where) : sql.args[k] = spec.where[k].value
      /\ spec.limit > 0 => sql.args[sql.limit] = spec.limit /\ sql.limit # 0
      /\ spec.offset > 0 => sql.args[sql.offset] = spec.offset /\ sql.offset # 0
      /\ ~ (spec.limit > 0) => sql.limit = 0
      /\ ~ (spec.offset > 0) => sql.offset = 0
  BY SelectArguments
<1>2. sql.where = Where(spec.where) /\ sql.ordered = spec.ordered
  BY DEF BuildSelect
<1> HIDE DEF sql
<1>3. DOMAIN spec.where = 1..Len(spec.where) /\ spec.offset \in Nat /\ spec.limit \in Int
  BY DEF SelectSpec
<1>4. ASSUME NEW i \in Present
      PROVE  Holds(sql, i) <=> \A k \in DOMAIN spec.where : Cell(i, spec.where[k].column) = spec.where[k].value
  <2>1. DOMAIN sql.where = DOMAIN spec.where
    BY <1>2 DEF Where
  <2>2. \A k \in DOMAIN spec.where :
            sql.where[k].column = spec.where[k].column /\ sql.where[k].param = k
    BY <1>2 DEF Where
  <2> QED
    BY <1>1, <1>3, <2>1, <2>2 DEF Holds
<1>5. {i \in Present : Holds(sql, i)} = Matching(spec.where)
  BY <1>4 DEF Matching
<1>6. Arg(sql, sql.offset, 0) = spec.offset
  BY <1>1, <1>3 DEF Arg
<1>7. Arg(sql, sql.limit, NoValue) = IF spec.limit > 0 THEN spec.limit ELSE NoValue
  BY <1>1, <1>3 DEF Arg
<1>8. Run(sql) = Slice(Ordered(Matching(spec.where), spec.ordered), spec.offset,
                      IF spec.limit > 0 THEN spec.limit ELSE NoValue)
  BY <1>2, <1>5, <1>6, <1>7 DEF Run
<1> QED
  BY <1>8 DEF sql

-----------------------------------------------------------------------------
(* What holds of a builder, its answers and a stream. *)

Builder ==
    [where : Seq(Predicate), ordered : BOOLEAN,
     limit : {NoValue} \cup {l \in Limits : l > 0}, offset : Nat]

StreamType ==
    [rows : Seq(RowIds), read : Seq(RowIds), item : RowIds \cup {NoValue}, err : BOOLEAN,
     closed : BOOLEAN, held : 0..1, of : Seq(RowIds)]

\* What was read and what is still to be read is what the stream is of; it holds
\* a connection exactly as long as it is open, and one that failed is closed.
StreamInv ==
    /\ stream \in StreamType
    /\ stream.of = stream.read \o stream.rows
    /\ stream.held = IF stream.closed THEN 0 ELSE 1
    /\ stream.err => stream.closed

BuilderInv ==
    /\ table \in [RowIds -> RowValues \cup {Absent}]
    /\ conf \in [default : Limits, max : Limits]
    /\ query \in Builder /\ query = asked

QueryInv == BuilderInv /\ answer \in {expected, Refused} /\ StreamInv

LEMMA LimitsAreNumbers ==
    /\ \A l \in Limits : l \in Int /\ l # NoValue
    /\ NoValue # 1
BY QueriesAssumption

\* The limit that is sent is the one the caller should get.
LEMMA LimitIsWanted ==
    ASSUME BuilderInv
    PROVE  LET cap == IF query.limit # NoValue THEN query.limit
                      ELSE IF conf.default > 0 THEN conf.default ELSE conf.max
               most == IF conf.max > 0 /\ (cap <= 0 \/ cap > conf.max) THEN conf.max ELSE cap
           IN  /\ EffectiveLimit \in Int
               /\ (IF EffectiveLimit > 0 THEN EffectiveLimit ELSE NoValue)
                    = (IF most <= 0 THEN NoValue ELSE most)
<1>1. conf.default \in Int /\ conf.max \in Int
  BY LimitsAreNumbers DEF BuilderInv
<1>2. query.limit = NoValue \/ (query.limit # NoValue /\ query.limit \in Int /\ query.limit > 0)
  BY LimitsAreNumbers DEF BuilderInv, Builder
<1>3. CASE query.limit = NoValue
  BY <1>1, <1>3 DEF EffectiveLimit
<1>4. CASE query.limit # NoValue /\ query.limit \in Int /\ query.limit > 0
  BY <1>1, <1>4 DEF EffectiveLimit
<1> QED
  BY <1>2, <1>3, <1>4

\* What is sent for a list is what its caller wants.
LEMMA ListIsWanted ==
    ASSUME BuilderInv
    PROVE  /\ Run(BuildSelect(Select(EffectiveLimit))) = Wanted(asked.limit)
           /\ Wanted(asked.limit) \in Seq(RowIds)
<1> DEFINE cap == IF query.limit # NoValue THEN query.limit
                  ELSE IF conf.default > 0 THEN conf.default ELSE conf.max
           most == IF conf.max > 0 /\ (cap <= 0 \/ cap > conf.max) THEN conf.max ELSE cap
           limit == IF most <= 0 THEN NoValue ELSE most
           spec == Select(EffectiveLimit)
<1>1. /\ EffectiveLimit \in Int
      /\ (IF EffectiveLimit > 0 THEN EffectiveLimit ELSE NoValue) = limit
  BY LimitIsWanted
<1>2. /\ spec.where = query.where /\ spec.ordered = query.ordered
      /\ spec.limit = EffectiveLimit /\ spec.offset = query.offset
  BY DEF Select
<1>3. /\ query.where \in Seq(Predicate) /\ query.ordered \in BOOLEAN /\ query.offset \in Nat
      /\ query = asked
  BY DEF BuilderInv, Builder
<1> HIDE DEF spec
<1>4. SelectSpec(spec)
  BY <1>1, <1>2, <1>3 DEF SelectSpec
<1>5. Run(BuildSelect(spec))
        = Slice(Ordered(Matching(spec.where), spec.ordered), spec.offset,
                IF spec.limit > 0 THEN spec.limit ELSE NoValue)
  BY <1>4, SelectReturns
<1>6. Run(BuildSelect(spec))
        = Slice(Ordered(Matching(query.where), query.ordered), query.offset, limit)
  BY <1>1, <1>2, <1>5
<1>7. Wanted(asked.limit) = Slice(Ordered(Matching(query.where), query.ordered), query.offset, limit)
  BY <1>3 DEF Wanted, Matching
<1>8. Slice(Ordered(Matching(query.where), query.ordered), query.offset, limit) \in Seq(RowIds)
  <2>1. Matching(query.where) \in SUBSET RowIds
    BY DEF Matching, Present
  <2>2. Ordered(Matching(query.where), query.ordered) \in Seq(Matching(query.where))
    BY <1>3, <2>1, OrderedLists DEF BuilderInv
  <2>3. Ordered(Matching(query.where), query.ordered) \in Seq(RowIds)
    BY <2>1, <2>2
  <2>4. limit = NoValue \/ limit \in Int
    <3>1. EffectiveLimit = limit \/ limit = NoValue
      BY <1>1
    <3> QED
      BY <1>1, <3>1
  <2> HIDE DEF limit
  <2> QED
    BY <1>3, <2>3, <2>4, SliceType
<1> QED
  BY <1>6, <1>7, <1>8 DEF spec

LEMMA FirstIsWanted ==
    ASSUME BuilderInv
    PROVE  Run(BuildSelect(Select(1))) = Wanted(1)
<1> DEFINE spec == Select(1)
<1>1. /\ spec.where = query.where /\ spec.ordered = query.ordered
      /\ spec.limit = 1 /\ spec.offset = query.offset
  BY DEF Select
<1>2. /\ query.where \in Seq(Predicate) /\ query.ordered \in BOOLEAN /\ query.offset \in Nat
      /\ query = asked
  BY DEF BuilderInv, Builder
<1> HIDE DEF spec
<1>3. SelectSpec(spec)
  BY <1>1, <1>2 DEF SelectSpec
<1>4. Run(BuildSelect(spec))
        = Slice(Ordered(Matching(spec.where), spec.ordered), spec.offset,
                IF spec.limit > 0 THEN spec.limit ELSE NoValue)
  BY <1>3, SelectReturns
<1>5. Run(BuildSelect(spec)) = Slice(Ordered(Matching(query.where), query.ordered), query.offset, 1)
  BY <1>1, <1>4
<1>6. conf.max \in Int /\ NoValue # 1
  BY LimitsAreNumbers DEF BuilderInv
<1>7. Wanted(1) = Slice(Ordered(Matching(query.where), query.ordered), query.offset, 1)
  BY <1>2, <1>6 DEF Wanted, Matching
<1> QED
  BY <1>5, <1>7 DEF spec

LEMMA CountIsWanted ==
    ASSUME BuilderInv
    PROVE  {i \in Present : Holds(BuildAggregate(query), i)} = Matching(asked.where)
<1>1. query.where \in Seq(Predicate) /\ query = asked
  BY DEF BuilderInv, Builder
<1>2. ASSUME NEW i \in Present
      PROVE  Holds(BuildAggregate(query), i)
               <=> \A k \in DOMAIN query.where : Cell(i, query.where[k].column) = query.where[k].value
  BY <1>1 DEF Holds, BuildAggregate, Where, WhereArgs
<1> QED
  BY <1>1, <1>2 DEF Matching
-----------------------------------------------------------------------------
(* Bulk statements. *)

BulkRow == RowIds \X RowValues

\* The arguments of a bulk statement are its rows, one after the other.
LEMMA OneRowFlat == ASSUME NEW r \in BulkRow PROVE BulkArgs(<<r>>) = r
<1> DEFINE batch == <<r>>
           Flat(f) == f = [i \in 1..Len(batch) |-> IF i = 1 THEN batch[i] ELSE f[i - 1] \o batch[i]]
           g == CHOOSE f : Flat(f)
<1>1. Len(batch) = 1 /\ 1..Len(batch) = {1} /\ batch[1] = r
  OBVIOUS
<1>2. Flat([i \in {1} |-> r])
  BY <1>1
<1>3. Flat(g)
  BY <1>2
<1>4. g[1] = r
  <2> HIDE DEF g
  <2> QED
    BY <1>1, <1>3
<1>5. BulkArgs(batch) = g[Len(batch)]
  BY <1>1 DEF BulkArgs, FlattenSeq
<1> QED
  BY <1>1, <1>4, <1>5

LEMMA TwoRowsFlat == ASSUME NEW r \in BulkRow, NEW s \in BulkRow PROVE BulkArgs(<<r, s>>) = r \o s
<1> DEFINE batch == <<r, s>>
           Flat(f) == f = [i \in 1..Len(batch) |-> IF i = 1 THEN batch[i] ELSE f[i - 1] \o batch[i]]
           g == CHOOSE f : Flat(f)
<1>1. Len(batch) = 2 /\ 1..Len(batch) = {1, 2} /\ batch[1] = r /\ batch[2] = s
  OBVIOUS
<1>2. Flat([i \in {1, 2} |-> IF i = 1 THEN r ELSE r \o s])
  <2> DEFINE h == [i \in {1, 2} |-> IF i = 1 THEN r ELSE r \o s]
  <2>1. h[1] = r /\ h[2] = r \o s
    OBVIOUS
  <2> HIDE DEF batch
  <2>2. \A i \in {1, 2} : (IF i = 1 THEN r ELSE r \o s) = (IF i = 1 THEN batch[i] ELSE h[i - 1] \o batch[i])
    BY <1>1, <2>1
  <2> QED
    BY <1>1, <2>2
<1>3. Flat(g)
  BY <1>2
<1>4. g[1] = r /\ g[2] = g[1] \o s
  <2> HIDE DEF g
  <2> QED
    BY <1>1, <1>3
<1>5. BulkArgs(batch) = g[Len(batch)]
  BY <1>1 DEF BulkArgs, FlattenSeq
<1> QED
  BY <1>1, <1>4, <1>5
\* A bulk statement has one or two rows, of as many ids.
LEMMA BulkRowsAre ==
    ASSUME NEW batch \in BulkRows
    PROVE  \/ \E r \in BulkRow : batch = <<r>>
           \/ \E r, s \in BulkRow : batch = <<r, s>> /\ r[1] # s[1]
<1>1. CASE batch \in {<<r>> : r \in BulkRow}
  BY <1>1
<1>2. CASE batch \in BulkRow \X BulkRow /\ batch[1][1] # batch[2][1]
  <2>1. batch[1] \in BulkRow /\ batch[2] \in BulkRow /\ batch = <<batch[1], batch[2]>>
    BY <1>2
  <2> QED
    BY <1>2, <2>1
<1> QED
  BY <1>1, <1>2 DEF BulkRows, BulkRow

\* Every value of a bulk statement has the number of its own argument.
LEMMA BulkArguments ==
    ASSUME NEW batch \in BulkRows
    PROVE  /\ \A k \in DOMAIN batch : batch[k] \in BulkRow
           /\ \A k, l \in DOMAIN batch : batch[k][1] = batch[l][1] => k = l
           /\ \A k \in DOMAIN batch : \A j \in 1..2 : BulkArgs(batch)[Param(k, j, 2)] = batch[k][j]
<1>1. ASSUME NEW r \in BulkRow, batch = <<r>>
      PROVE  /\ \A k \in DOMAIN batch : batch[k] \in BulkRow
             /\ \A k, l \in DOMAIN batch : batch[k][1] = batch[l][1] => k = l
             /\ \A k \in DOMAIN batch : \A j \in 1..2 : BulkArgs(batch)[Param(k, j, 2)] = batch[k][j]
  <2>1. DOMAIN batch = {1} /\ batch[1] = r
    BY <1>1
  <2>2. BulkArgs(batch) = r
    BY <1>1, OneRowFlat
  <2>3. \A j \in 1..2 : Param(1, j, 2) = j
    BY DEF Param
  <2> QED
    BY <2>1, <2>2, <2>3
<1>2. ASSUME NEW r \in BulkRow, NEW s \in BulkRow, batch = <<r, s>>, r[1] # s[1]
      PROVE  /\ \A k \in DOMAIN batch : batch[k] \in BulkRow
             /\ \A k, l \in DOMAIN batch : batch[k][1] = batch[l][1] => k = l
             /\ \A k \in DOMAIN batch : \A j \in 1..2 : BulkArgs(batch)[Param(k, j, 2)] = batch[k][j]
  <2>1. DOMAIN batch = {1, 2} /\ batch[1] = r /\ batch[2] = s
    BY <1>2
  <2>2. BulkArgs(batch) = r \o s
    BY <1>2, TwoRowsFlat
  <2>3. (r \o s)[1] = r[1] /\ (r \o s)[2] = r[2] /\ (r \o s)[3] = s[1] /\ (r \o s)[4] = s[2]
    <3>1. PICK i \in RowIds, v \in RowValues : r = <<i, v>>
      BY DEF BulkRow
    <3>2. PICK d \in RowIds, w \in RowValues : s = <<d, w>>
      BY DEF BulkRow
    <3> QED
      BY <3>1, <3>2
  <2>4. Param(1, 1, 2) = 1 /\ Param(1, 2, 2) = 2 /\ Param(2, 1, 2) = 3 /\ Param(2, 2, 2) = 4
    BY DEF Param
  <2>5. \A k \in DOMAIN batch : \A j \in 1..2 : BulkArgs(batch)[Param(k, j, 2)] = batch[k][j]
    <3>1. \A j \in 1..2 : j = 1 \/ j = 2
      OBVIOUS
    <3> QED
      BY <2>1, <2>2, <2>3, <2>4, <3>1
  <2> QED
    BY <1>2, <2>1, <2>5
<1> QED
  BY <1>1, <1>2, BulkRowsAre

\* Any statement that gives row k its arguments leaves the table described.
LEMMA AppliedIsAfter ==
    ASSUME NEW batch \in BulkRows, NEW sql,
           sql.values = [k \in DOMAIN batch |-> [j \in 1..2 |-> Param(k, j, 2)]],
           sql.args = BulkArgs(batch)
    PROVE  Applied(sql) = After(batch)
<1>1. /\ \A k \in DOMAIN batch : batch[k] \in BulkRow
      /\ \A k, l \in DOMAIN batch : batch[k][1] = batch[l][1] => k = l
      /\ \A k \in DOMAIN batch : \A j \in 1..2 : BulkArgs(batch)[Param(k, j, 2)] = batch[k][j]
  BY BulkArguments
<1>2. DOMAIN sql.values = DOMAIN batch
  OBVIOUS
<1>3. ASSUME NEW k \in DOMAIN batch
      PROVE  Cells(sql, k)[1] = batch[k][1] /\ Cells(sql, k)[2] = batch[k][2]
  <2>1. sql.values[k] = [j \in 1..2 |-> Param(k, j, 2)]
    OBVIOUS
  <2>2. Cells(sql, k) = [j \in 1..2 |-> BulkArgs(batch)[Param(k, j, 2)]]
    BY <2>1 DEF Cells
  <2>3. 1 \in 1..2 /\ 2 \in 1..2
    OBVIOUS
  <2> QED
    BY <1>1, <2>2, <2>3
<1>4. ASSUME NEW i \in RowIds
      PROVE  (IF \E k \in DOMAIN sql.values : Cells(sql, k)[1] = i
              THEN Cells(sql, CHOOSE k \in DOMAIN sql.values : Cells(sql, k)[1] = i)[2]
              ELSE table[i])
             = (IF i \in Given(batch)
                THEN batch[CHOOSE k \in DOMAIN batch : batch[k][1] = i][2] ELSE table[i])
  <2> DEFINE c == CHOOSE k \in DOMAIN sql.values : Cells(sql, k)[1] = i
             d == CHOOSE k \in DOMAIN batch : batch[k][1] = i
  <2>1. (\E k \in DOMAIN sql.values : Cells(sql, k)[1] = i) <=> i \in Given(batch)
    BY <1>2, <1>3 DEF Given
  <2>2. CASE i \in Given(batch)
    <3>1. d \in DOMAIN batch /\ batch[d][1] = i
      BY <2>2 DEF Given
    <3>2. c \in DOMAIN sql.values /\ Cells(sql, c)[1] = i
      BY <2>1, <2>2
    <3> HIDE DEF c, d
    <3>3. c = d
      BY <1>1, <1>2, <1>3, <3>1, <3>2
    <3>4. Cells(sql, c)[2] = batch[d][2]
      BY <1>3, <3>1, <3>3
    <3> QED
      BY <2>1, <2>2, <3>4 DEF c, d
  <2>3. CASE i \notin Given(batch)
    BY <2>1, <2>3
  <2> QED
    BY <2>2, <2>3
<1> QED
  BY <1>4 DEF Applied, After

\* A bulk statement leaves a table.
LEMMA AfterType ==
    ASSUME NEW batch \in BulkRows, table \in [RowIds -> RowValues \cup {Absent}]
    PROVE  After(batch) \in [RowIds -> RowValues \cup {Absent}]
<1>1. \A k \in DOMAIN batch : batch[k] \in BulkRow
  BY BulkArguments
<1>2. ASSUME NEW i \in RowIds
      PROVE  (IF i \in Given(batch) THEN batch[CHOOSE k \in DOMAIN batch : batch[k][1] = i][2] ELSE table[i])
               \in RowValues \cup {Absent}
  <2> DEFINE d == CHOOSE k \in DOMAIN batch : batch[k][1] = i
  <2>1. CASE i \in Given(batch)
    <3>1. d \in DOMAIN batch
      BY <2>1 DEF Given
    <3> HIDE DEF d
    <3>2. batch[d][2] \in RowValues
      BY <1>1, <3>1 DEF BulkRow
    <3> QED
      BY <2>1, <3>2 DEF d
  <2>2. CASE i \notin Given(batch)
    BY <2>2
  <2> QED
    BY <2>1, <2>2
<1> QED
  BY <1>2 DEF After


-----------------------------------------------------------------------------
(* The steps. *)

LEMMA NoStreamInv ==
    /\ NoStream \in StreamType
    /\ NoStream.of = NoStream.read \o NoStream.rows
    /\ NoStream.held = 0 /\ NoStream.closed = TRUE /\ NoStream.err = FALSE
<1>1. NoStream \in StreamType
  BY DEF NoStream, StreamType
<1>2. <<>> \o <<>> = <<>>
  OBVIOUS
<1> QED
  BY <1>1, <1>2 DEF NoStream

LEMMA NewIsBuilder == New \in Builder
BY DEF New, Builder

LEMMA QueryInitInv == QueryInit => QueryInv
<1> SUFFICES ASSUME QueryInit PROVE QueryInv
  OBVIOUS
<1>1. BuilderInv
  BY NewIsBuilder DEF QueryInit, BuilderInv
<1>2. StreamInv
  BY NoStreamInv DEF QueryInit, StreamInv
<1> QED
  BY <1>1, <1>2 DEF QueryInit, QueryInv

\* Whoever forgets a closed stream has none.
LEMMA ForgetInv == ASSUME Forget PROVE StreamInv'
BY NoStreamInv DEF Forget, StreamInv

\* A call of the builder gives the builder and what its caller asked for alike.
LEMMA BuildingInv ==
    ASSUME QueryInv, NEW built, built \in Builder, query' = built, asked' = built, Building
    PROVE  QueryInv'
<1>1. BuilderInv'
  BY DEF QueryInv, BuilderInv, Building
<1>2. StreamInv'
  BY ForgetInv DEF Building
<1>3. (answer = expected)'
  BY DEF Building
<1> QED
  BY <1>1, <1>2, <1>3 DEF QueryInv

LEMMA LimitInv == ASSUME QueryInv, NEW n \in Limits, Limit(n) PROVE QueryInv'
<1> DEFINE built == [query EXCEPT !.limit = IF n <= 0 THEN NoValue ELSE n]
<1>1. query \in Builder /\ query = asked
  BY DEF QueryInv, BuilderInv
<1>2. (IF n <= 0 THEN NoValue ELSE n) \in {NoValue} \cup {l \in Limits : l > 0}
  BY LimitsAreNumbers
<1>3. built \in Builder
  BY <1>1, <1>2 DEF Builder
<1>4. query' = built /\ asked' = built /\ Building
  BY <1>1 DEF Limit
<1> QED
  BY <1>3, <1>4, BuildingInv

LEMMA OffsetInv == ASSUME QueryInv, NEW n \in Offsets, Offset(n) PROVE QueryInv'
<1> DEFINE built == [query EXCEPT !.offset = IF n < 0 THEN @ ELSE n]
<1>1. query \in Builder /\ query = asked
  BY DEF QueryInv, BuilderInv
<1>2. n \in Int
  BY QueriesAssumption
<1>3. (IF n < 0 THEN query.offset ELSE n) \in Nat
  BY <1>1, <1>2 DEF Builder
<1>4. built \in Builder
  BY <1>1, <1>3 DEF Builder
<1>5. query' = built /\ asked' = built /\ Building
  BY <1>1 DEF Offset
<1> QED
  BY <1>4, <1>5, BuildingInv

LEMMA AddWhereInv == ASSUME QueryInv, NEW p \in Predicate, AddWhere(p) PROVE QueryInv'
<1> DEFINE built == [query EXCEPT !.where = Append(@, p)]
<1>1. query \in Builder /\ query = asked
  BY DEF QueryInv, BuilderInv
<1>2. Append(query.where, p) \in Seq(Predicate)
  BY <1>1 DEF Builder
<1>3. built \in Builder
  BY <1>1, <1>2 DEF Builder
<1>4. query' = built /\ asked' = built /\ Building
  BY <1>1 DEF AddWhere
<1> QED
  BY <1>3, <1>4, BuildingInv

LEMMA OrderByInv == ASSUME QueryInv, OrderBy PROVE QueryInv'
<1> DEFINE built == [query EXCEPT !.ordered = TRUE]
<1>1. query \in Builder /\ query = asked
  BY DEF QueryInv, BuilderInv
<1>2. built \in Builder
  BY <1>1 DEF Builder
<1>3. query' = built /\ asked' = built /\ Building
  BY <1>1 DEF OrderBy
<1> QED
  BY <1>2, <1>3, BuildingInv

LEMMA NewQueryInv == ASSUME QueryInv, NewQuery PROVE QueryInv'
BY NewIsBuilder, BuildingInv DEF NewQuery

\* A terminal call changes no builder and no row.
LEMMA TerminalInv ==
    ASSUME QueryInv, Forget, (answer \in {expected, Refused})', UNCHANGED <<table, conf, query, asked>>
    PROVE  QueryInv'
<1>1. BuilderInv'
  BY DEF QueryInv, BuilderInv
<1> QED
  BY <1>1, ForgetInv DEF QueryInv

LEMMA AllInv == ASSUME QueryInv, All PROVE QueryInv'
<1>1. (answer = expected)'
  BY ListIsWanted DEF QueryInv, All
<1> QED
  BY <1>1, TerminalInv DEF All

LEMMA FirstInv == ASSUME QueryInv, First PROVE QueryInv'
<1>1. (answer = expected)'
  BY FirstIsWanted DEF QueryInv, First
<1> QED
  BY <1>1, TerminalInv DEF First

LEMMA CountInv == ASSUME QueryInv, Count PROVE QueryInv'
<1>1. (answer = expected)'
  BY CountIsWanted DEF QueryInv, Count, Matching
<1> QED
  BY <1>1, TerminalInv DEF Count

\* A bulk statement leaves a table.
LEMMA StatementInv ==
    ASSUME QueryInv, Forget, UNCHANGED <<conf, query, asked>>,
           (answer \in {expected, Refused})',
           table' \in [RowIds -> RowValues \cup {Absent}]
    PROVE  QueryInv'
<1>1. BuilderInv'
  BY DEF QueryInv, BuilderInv
<1> QED
  BY <1>1, ForgetInv DEF QueryInv

LEMMA BulkInsertInv == ASSUME QueryInv, NEW batch \in BulkRows, BulkInsert(batch) PROVE QueryInv'
<1>1. Applied(BuildBulkInsert(batch)) = After(batch)
  BY AppliedIsAfter DEF BuildBulkInsert
<1>2. table' = After(batch) /\ (answer = expected)'
  BY <1>1 DEF BulkInsert
<1>3. After(batch) \in [RowIds -> RowValues \cup {Absent}]
  BY AfterType DEF QueryInv, BuilderInv
<1> QED
  BY <1>2, <1>3, StatementInv DEF BulkInsert

LEMMA BulkUpdateInv == ASSUME QueryInv, NEW batch \in BulkRows, BulkUpdate(batch) PROVE QueryInv'
<1> DEFINE sql == BuildBulkUpdate(batch)
           accepted == \A c \in sql.returning : Resolves(c, sql.sources)
<1>1. Applied(sql) = After(batch)
  BY AppliedIsAfter DEF BuildBulkUpdate
<1>2. /\ table' = IF accepted THEN Applied(sql) ELSE table
      /\ answer' = (IF accepted THEN table' ELSE Refused) /\ expected' = After(batch)
      /\ Forget /\ UNCHANGED <<conf, query, asked>>
  BY DEF BulkUpdate
<1> HIDE DEF sql, accepted
<1>3. After(batch) \in [RowIds -> RowValues \cup {Absent}]
      /\ table \in [RowIds -> RowValues \cup {Absent}]
  BY AfterType DEF QueryInv, BuilderInv
<1>4. (answer \in {expected, Refused})' /\ table' \in [RowIds -> RowValues \cup {Absent}]
  BY <1>1, <1>2, <1>3
<1> QED
  BY <1>2, <1>4, StatementInv

LEMMA BulkDeleteInv == ASSUME QueryInv, NEW ids \in BulkIds, BulkDelete(ids) PROVE QueryInv'
<1> DEFINE sql == BuildBulkDelete(ids)
<1>1. ASSUME NEW i \in RowIds
      PROVE  (\E k \in DOMAIN sql.values : sql.args[sql.values[k]] = i) <=> i \in Range(ids)
  BY DEF BuildBulkDelete, Range
<1>2. table' = [i \in RowIds |-> IF \E k \in DOMAIN sql.values : sql.args[sql.values[k]] = i
                               THEN Absent ELSE table[i]]
      /\ answer' = table'
      /\ expected' = [i \in RowIds |-> IF i \in Range(ids) THEN Absent ELSE table[i]]
      /\ Forget /\ UNCHANGED <<conf, query, asked>>
  BY DEF BulkDelete
<1> HIDE DEF sql
<1>3. (answer = expected)'
  BY <1>1, <1>2
<1>4. table \in [RowIds -> RowValues \cup {Absent}]
  BY DEF QueryInv, BuilderInv
<1>5. table' \in [RowIds -> RowValues \cup {Absent}]
  BY <1>2, <1>4
<1> QED
  BY <1>2, <1>3, <1>5, StatementInv

LEMMA OpenInv == ASSUME QueryInv, Open PROVE QueryInv'
<1> DEFINE found == Run(BuildSelect(Select(EffectiveLimit)))
<1>1. found = Wanted(asked.limit) /\ found \in Seq(RowIds)
  BY ListIsWanted DEF QueryInv
<1>2. stream' = [NoStream EXCEPT !.rows = found, !.of = Wanted(asked.limit),
                                !.closed = FALSE, !.held = 1]
      /\ answer' = NoValue /\ expected' = NoValue
      /\ UNCHANGED <<table, conf, query, asked>>
  BY DEF Open
<1> HIDE DEF found
<1>3. stream' = [rows |-> found, read |-> <<>>, item |-> NoValue, err |-> FALSE,
                closed |-> FALSE, held |-> 1, of |-> found]
  BY <1>1, <1>2 DEF NoStream
<1>4. found = <<>> \o found
  BY <1>1
<1>5. StreamInv'
  BY <1>1, <1>3, <1>4 DEF StreamInv, StreamType
<1>6. BuilderInv'
  BY <1>2 DEF QueryInv, BuilderInv
<1> QED
  BY <1>2, <1>5, <1>6 DEF QueryInv

\* What moves from the rows to what was read stays in its place.
LEMMA ReadOne ==
    ASSUME NEW S, NEW s \in Seq(S), NEW t \in Seq(S), t # <<>>
    PROVE  /\ Head(t) \in S /\ Tail(t) \in Seq(S) /\ Append(s, Head(t)) \in Seq(S)
           /\ Append(s, Head(t)) \o Tail(t) = s \o t
<1>1. Head(t) \in S /\ Tail(t) \in Seq(S) /\ t = <<Head(t)>> \o Tail(t)
  BY HeadTailProperties
<1>2. Append(s, Head(t)) = s \o <<Head(t)>> /\ Append(s, Head(t)) \in Seq(S)
  BY <1>1, AppendIsConcat
<1>3. (s \o <<Head(t)>>) \o Tail(t) = s \o (<<Head(t)>> \o Tail(t))
  BY <1>1, ConcatAssociative
<1> QED
  BY <1>1, <1>2, <1>3

LEMMA ConcatPrefix ==
    ASSUME NEW S, NEW s \in Seq(S), NEW t \in Seq(S)
    PROVE  IsPrefix(s, s \o t)
<1>1. /\ s \o t \in Seq(S) /\ Len(s \o t) = Len(s) + Len(t)
      /\ \A k \in 1..Len(s) : (s \o t)[k] = s[k]
  BY SeqConcat
<1>2. Len(s) \in Nat /\ Len(t) \in Nat
  OBVIOUS
<1>3. SubSeq(s \o t, 1, Len(s)) = SubSeq(s, 1, Len(s))
  <2> DEFINE u == SubSeq(s \o t, 1, Len(s))
  <2>1. \A i \in 1..Len(s) : (s \o t)[i] \in S
    BY <1>1, ElementOfSeq
  <2>2. /\ u \in Seq(S) /\ Len(u) = Len(s)
        /\ \A i \in 1..Len(s) : u[i] = (s \o t)[i]
    BY <1>2, <2>1, SubSeqProperties
  <2> HIDE DEF u
  <2>3. u = s
    BY <1>1, <2>2, SeqEqual
  <2> QED
    BY <2>3, SubSeqFull DEF u
<1> QED
  BY <1>1, <1>2, <1>3 DEF IsPrefix

LEMMA ClosedInv ==
    ASSUME NEW s \in StreamType, s.held = IF s.closed THEN 0 ELSE 1
    PROVE  /\ Closed(s) \in StreamType
           /\ Closed(s).closed = TRUE /\ Closed(s).held = 0
           /\ Closed(s).rows = s.rows /\ Closed(s).read = s.read /\ Closed(s).of = s.of
<1>1. (IF s.closed THEN s.held ELSE s.held - 1) = 0
  BY DEF StreamType
<1>2. Closed(s) = [s EXCEPT !.closed = TRUE, !.held = 0]
  <2>1. s.held - 1 = 0 \/ s.closed = TRUE
    BY DEF StreamType
  <2> QED
    BY <1>1 DEF Closed
<1>3. [s EXCEPT !.closed = TRUE, !.held = 0] \in StreamType
  <2>1. 0 \in 0..1
    OBVIOUS
  <2>2. [s EXCEPT !.closed = TRUE] \in StreamType
    BY DEF StreamType
  <2>3. [[s EXCEPT !.closed = TRUE] EXCEPT !.held = 0] \in StreamType
    BY <2>1, <2>2 DEF StreamType
  <2>4. [[s EXCEPT !.closed = TRUE] EXCEPT !.held = 0] = [s EXCEPT !.closed = TRUE, !.held = 0]
    BY DEF StreamType
  <2> QED
    BY <2>3, <2>4
<1>4. DOMAIN s = {"rows", "read", "item", "err", "closed", "held", "of"}
  BY DEF StreamType
<1> QED
  BY <1>2, <1>3, <1>4

LEMMA StreamNextInv == ASSUME QueryInv, StreamNext PROVE QueryInv'
<1>1. /\ stream \in StreamType /\ stream.of = stream.read \o stream.rows
      /\ stream.held = (IF stream.closed THEN 0 ELSE 1)
  BY DEF QueryInv, StreamInv
<1>2. /\ stream.closed = FALSE /\ stream.err = FALSE
      /\ UNCHANGED <<table, conf, query, asked, answer, expected>>
  BY <1>1 DEF StreamNext, StreamType
<1>3. CASE /\ stream.rows # <<>>
           /\ stream' = [stream EXCEPT !.item = Head(stream.rows), !.rows = Tail(@),
                                       !.read = Append(@, Head(stream.rows))]
  <2>1. stream.rows \in Seq(RowIds) /\ stream.read \in Seq(RowIds)
    BY <1>1 DEF StreamType
  <2>2. /\ Head(stream.rows) \in RowIds /\ Tail(stream.rows) \in Seq(RowIds)
        /\ Append(stream.read, Head(stream.rows)) \in Seq(RowIds)
        /\ Append(stream.read, Head(stream.rows)) \o Tail(stream.rows) = stream.read \o stream.rows
    BY <1>3, <2>1, ReadOne
  <2>3. /\ stream' \in StreamType
        /\ stream'.read = Append(stream.read, Head(stream.rows)) /\ stream'.rows = Tail(stream.rows)
        /\ stream'.of = stream.of /\ stream'.held = stream.held
        /\ stream'.closed = stream.closed /\ stream'.err = stream.err
    BY <1>1, <1>3, <2>2 DEF StreamType
  <2>4. StreamInv'
    BY <1>1, <1>2, <2>2, <2>3 DEF StreamInv
  <2> QED
    BY <1>2, <2>4 DEF QueryInv, BuilderInv
<1>4. ASSUME NEW s, s \in StreamType, s.held = (IF s.closed THEN 0 ELSE 1),
             s.rows = stream.rows, s.read = stream.read, s.of = stream.of, stream' = Closed(s)
      PROVE  QueryInv'
  <2>1. /\ Closed(s) \in StreamType
        /\ Closed(s).closed = TRUE /\ Closed(s).held = 0
        /\ Closed(s).rows = s.rows /\ Closed(s).read = s.read /\ Closed(s).of = s.of
    BY <1>4, ClosedInv
  <2>2. StreamInv'
    BY <1>1, <1>4, <2>1 DEF StreamInv
  <2> QED
    BY <1>2, <2>2 DEF QueryInv, BuilderInv
<1>5. CASE stream' = Closed([stream EXCEPT !.err = TRUE, !.item = NoValue])
  <2> DEFINE s == [stream EXCEPT !.err = TRUE, !.item = NoValue]
  <2>1. /\ s \in StreamType /\ s.held = (IF s.closed THEN 0 ELSE 1)
        /\ s.rows = stream.rows /\ s.read = stream.read /\ s.of = stream.of
    BY <1>1 DEF StreamType
  <2> HIDE DEF s
  <2> QED
    BY <1>4, <1>5, <2>1 DEF s
<1>6. CASE stream' = Closed([stream EXCEPT !.item = NoValue])
  <2> DEFINE s == [stream EXCEPT !.item = NoValue]
  <2>1. /\ s \in StreamType /\ s.held = (IF s.closed THEN 0 ELSE 1)
        /\ s.rows = stream.rows /\ s.read = stream.read /\ s.of = stream.of
    BY <1>1 DEF StreamType
  <2> HIDE DEF s
  <2> QED
    BY <1>4, <1>6, <2>1 DEF s
<1> QED
  BY <1>3, <1>5, <1>6 DEF StreamNext

LEMMA StreamCloseInv == ASSUME QueryInv, StreamClose PROVE QueryInv'
<1>1. /\ stream \in StreamType /\ stream.of = stream.read \o stream.rows
      /\ stream.held = (IF stream.closed THEN 0 ELSE 1)
  BY DEF QueryInv, StreamInv
<1>2. stream' = Closed(stream) /\ UNCHANGED <<table, conf, query, asked, answer, expected>>
  BY DEF StreamClose
<1>3. /\ Closed(stream) \in StreamType
      /\ Closed(stream).closed = TRUE /\ Closed(stream).held = 0
      /\ Closed(stream).rows = stream.rows /\ Closed(stream).read = stream.read
      /\ Closed(stream).of = stream.of
  BY <1>1, ClosedInv
<1>4. StreamInv'
  BY <1>1, <1>2, <1>3 DEF StreamInv
<1> QED
  BY <1>2, <1>4 DEF QueryInv, BuilderInv

LEMMA QueryInvIsRight == QueryInv => QueryTypeOK /\ AnswersAsAsked
<1> SUFFICES ASSUME QueryInv PROVE QueryTypeOK /\ AnswersAsAsked
  OBVIOUS
<1>1. /\ stream \in StreamType /\ stream.of = stream.read \o stream.rows
      /\ stream.held = (IF stream.closed THEN 0 ELSE 1)
      /\ stream.err => stream.closed
  BY DEF QueryInv, StreamInv
<1>2. QueryTypeOK
  <2>1. query.limit \in {NoValue} \cup (Limits \cap Nat)
    BY LimitsAreNumbers DEF QueryInv, BuilderInv, Builder
  <2>2. query.offset \in Nat /\ query.where \in Seq(Predicate) /\ query.ordered \in BOOLEAN
    BY DEF QueryInv, BuilderInv, Builder
  <2> QED
    BY <1>1, <2>1, <2>2 DEF QueryInv, BuilderInv, QueryTypeOK, StreamType
<1>3. stream.read \in Seq(RowIds) /\ stream.rows \in Seq(RowIds)
  BY <1>1 DEF StreamType
<1>4. IsPrefix(stream.read, stream.read \o stream.rows)
  BY <1>3, ConcatPrefix
<1>5. stream.rows = <<>> => stream.read = stream.of
  BY <1>1, <1>3
<1> QED
  BY <1>1, <1>2, <1>4, <1>5 DEF QueryInv, AnswersAsAsked, StreamIsRight

\* The builder, the statements and the streams: All, First and Count return what
\* the caller described, a stream reads it in order, each row once, and gives its
\* connection back once, and a bulk call leaves the table it describes, every value
\* at its own placeholder, unless it is answered the database's refusal, as TLC
\* finds of every bulk update
\* (orm/gen/client_gen.go UserQuery, orm/runtime/query.go, bulk.go, stream.go).
THEOREM AnswersAsAskedAlways == QuerySpec => []QueryTypeOK /\ []AnswersAsAsked
<1>1. QueryInit => QueryInv
  BY QueryInitInv
<1>2. QueryInv /\ [QueryNext]_queryVars => QueryInv'
  <2> SUFFICES ASSUME QueryInv, [QueryNext]_queryVars PROVE QueryInv'
    OBVIOUS
  <2>1. ASSUME NEW n \in Limits, Limit(n) PROVE QueryInv'
    BY <2>1, LimitInv
  <2>2. ASSUME NEW n \in Offsets, Offset(n) PROVE QueryInv'
    BY <2>2, OffsetInv
  <2>3. ASSUME NEW p \in Predicate, AddWhere(p) PROVE QueryInv'
    BY <2>3, AddWhereInv
  <2>4. CASE OrderBy
    BY <2>4, OrderByInv
  <2>5. CASE All
    BY <2>5, AllInv
  <2>6. CASE First
    BY <2>6, FirstInv
  <2>7. CASE Count
    BY <2>7, CountInv
  <2>8. CASE NewQuery
    BY <2>8, NewQueryInv
  <2>9. ASSUME NEW found \in BulkRows, BulkInsert(found) PROVE QueryInv'
    BY <2>9, BulkInsertInv
  <2>10. ASSUME NEW found \in BulkRows, BulkUpdate(found) PROVE QueryInv'
    BY <2>10, BulkUpdateInv
  <2>11. ASSUME NEW ids \in BulkIds, BulkDelete(ids) PROVE QueryInv'
    BY <2>11, BulkDeleteInv
  <2>12. CASE Open
    BY <2>12, OpenInv
  <2>13. CASE StreamNext
    BY <2>13, StreamNextInv
  <2>14. CASE StreamClose
    BY <2>14, StreamCloseInv
  <2>15. CASE UNCHANGED queryVars
    BY <2>15 DEF queryVars, QueryInv, BuilderInv, StreamInv
  <2> QED
    BY <2>1, <2>2, <2>3, <2>4, <2>5, <2>6, <2>7, <2>8, <2>9, <2>10, <2>11, <2>12, <2>13,
       <2>14, <2>15 DEF QueryNext
<1>3. QueryInv => QueryTypeOK /\ AnswersAsAsked
  BY QueryInvIsRight
<1> QED
  BY <1>1, <1>2, <1>3, PTL DEF QuerySpec

-----------------------------------------------------------------------------
(* The fields of an entity, and the lists made of some of them. *)

\* A list made from a set of places has what is there and nothing else.
HasAll(list, fields, S) ==
    /\ \A k \in DOMAIN list : \E i \in S : list[k] = fields[i]
    /\ \A i \in S : \E k \in DOMAIN list : list[k] = fields[i]

LEMMA AtLists ==
    ASSUME NEW n \in Nat, NEW S \in SUBSET (1..n), NEW fields
    PROVE  HasAll(At(fields, S), fields, S)
<1>1. IsFiniteSet(S) /\ Cardinality(S) \in 0..n
  BY RankType
<1>2. DOMAIN At(fields, S) = 1..Cardinality(S)
  BY DEF At
<1>3. ASSUME NEW k \in 1..Cardinality(S), NEW i \in S, Rank(S, i) = k - 1
      PROVE  At(fields, S)[k] = fields[i]
  <2>1. \A j \in S : Rank(S, j) = k - 1 => j = i
    BY <1>3, RankUnique
  <2>2. (CHOOSE j \in S : Cardinality({m \in S : m < j}) = k - 1) = i
    BY <1>3, <2>1 DEF Rank
  <2> QED
    BY <2>2 DEF At
<1>4. ASSUME NEW k \in 1..Cardinality(S) PROVE \E i \in S : Rank(S, i) = k - 1
  <2>1. k - 1 \in Nat /\ k - 1 < Cardinality(S)
    BY <1>1
  <2> QED
    BY <2>1, RankExists
<1>5. ASSUME NEW i \in S PROVE \E k \in 1..Cardinality(S) : Rank(S, i) = k - 1
  <2>1. i \in Int
    OBVIOUS
  <2>2. Rank(S, i) \in 0..Cardinality(S) /\ Rank(S, i) < Cardinality(S)
    BY <2>1, RankType
  <2>3. Rank(S, i) + 1 \in 1..Cardinality(S) /\ Rank(S, i) = (Rank(S, i) + 1) - 1
    BY <1>1, <2>2
  <2> QED
    BY <2>3
<1>7. \A k \in 1..Cardinality(S) : \E i \in S : At(fields, S)[k] = fields[i]
  BY <1>3, <1>4
<1>8. \A i \in S : \E k \in 1..Cardinality(S) : At(fields, S)[k] = fields[i]
  BY <1>3, <1>5
<1> QED
  BY <1>2, <1>7, <1>8 DEF HasAll

Fields == {ent.fields[i] : i \in DOMAIN ent.fields}

\* An entity has each field once, one of them the key.
LEMMA FieldFacts ==
    ASSUME ent \in Entities
    PROVE  /\ Len(ent.fields) \in Nat /\ DOMAIN ent.fields = 1..Len(ent.fields)
           /\ \A f, g \in Fields : f.name = g.name \/ f.column = g.column => f = g
           /\ \A f \in Fields : f.name \in Names /\ FieldNamed(f.name) = f
           /\ \A n \in Names : FieldNamed(n) \in Fields /\ FieldNamed(n).name = n
           /\ primaryField(ent) \in Fields /\ primaryField(ent).primary
           /\ primaryField(ent).type = "uuid" /\ primaryField(ent).source = None
           /\ \A f \in Fields : f.primary => f = primaryField(ent)
           /\ \A f \in Fields : f.source # None =>
                  /\ ~f.defaultNow /\ ~f.updateNow
                  /\ \E g \in Fields : g.column = f.source /\ g.source = None
<1> DEFINE fields == ent.fields
<1>1. /\ Len(fields) \in Nat \ {0} /\ DOMAIN fields = 1..Len(fields)
      /\ \A i, j \in DOMAIN fields :
             fields[i].name = fields[j].name \/ fields[i].column = fields[j].column => i = j
      /\ \E i \in DOMAIN fields :
             /\ fields[i].primary /\ fields[i].type = "uuid" /\ fields[i].source = None
             /\ \A j \in DOMAIN fields : fields[j].primary => j = i
      /\ \A i \in DOMAIN fields : fields[i].source # None =>
             /\ ~fields[i].defaultNow /\ ~fields[i].updateNow
             /\ \E j \in DOMAIN fields : fields[j].column = fields[i].source /\ fields[j].source = None
  BY EntitiesAreTables
<1>2. \A f, g \in Fields : f.name = g.name \/ f.column = g.column => f = g
  BY <1>1 DEF Fields
<1>3. ASSUME NEW i \in DOMAIN fields
      PROVE  fields[i].name \in Names /\ FieldNamed(fields[i].name) = fields[i]
  <2>1. (CHOOSE j \in DOMAIN ent.fields : ent.fields[j].name = fields[i].name) = i
    BY <1>1
  <2> QED
    BY <2>1 DEF Names, FieldNamed
<1>4. \A n \in Names : FieldNamed(n) \in Fields /\ FieldNamed(n).name = n
  BY <1>3 DEF Fields, Names
<1>5. PICK p \in DOMAIN fields :
          /\ fields[p].primary /\ fields[p].type = "uuid" /\ fields[p].source = None
          /\ \A j \in DOMAIN fields : fields[j].primary => j = p
  BY <1>1
<1>6. primaryField(ent) = fields[p]
  <2>1. {i \in DOMAIN ent.fields : ent.fields[i].primary} = {p}
    BY <1>5
  <2>2. (CHOOSE i \in {p} : \A j \in {p} : i <= j) = p
    <3>1. p \in Int
      BY <1>1
    <3> QED
      BY <3>1
  <2> QED
    BY <2>1, <2>2 DEF primaryField, FirstAt
<1> QED
  BY <1>1, <1>2, <1>3, <1>4, <1>5, <1>6 DEF Fields
\* A statement that has the columns of the fields S, each with the field's name
\* at its place.
Carries(statement, S) ==
    /\ S \subseteq Fields
    /\ ToSet(statement.columns) = {f.column : f \in S}
    /\ \A f \in S :
           statement.args[CHOOSE i \in DOMAIN statement.columns : statement.columns[i] = f.column] = f.name

\* One made from a set of places carries the fields there.
LEMMA CarriesAt ==
    ASSUME ent \in Entities, NEW I \in SUBSET DOMAIN ent.fields
    PROVE  Carries([columns |-> Columns(At(ent.fields, I)), args |-> FieldNames(At(ent.fields, I))],
                   {ent.fields[i] : i \in I})
<1> DEFINE l == At(ent.fields, I)
           S == {ent.fields[i] : i \in I}
<1>1. Len(ent.fields) \in Nat /\ DOMAIN ent.fields = 1..Len(ent.fields)
  BY FieldFacts
<1>2. /\ \A k \in DOMAIN l : \E i \in I : l[k] = ent.fields[i]
      /\ \A i \in I : \E k \in DOMAIN l : l[k] = ent.fields[i]
  <2>1. I \in SUBSET (1..Len(ent.fields))
    BY <1>1
  <2>2. HasAll(At(ent.fields, I), ent.fields, I)
    BY <1>1, <2>1, AtLists
  <2> QED
    BY <2>2 DEF HasAll
<1>3. (\A k \in DOMAIN l : l[k] \in S) /\ (\A f \in S : \E k \in DOMAIN l : l[k] = f)
  BY <1>2
<1>4. S \subseteq Fields
  BY DEF Fields
<1>5. \A f, g \in S : f.name = g.name \/ f.column = g.column => f = g
  BY <1>4, FieldFacts
<1> HIDE DEF l, S
<1>6. DOMAIN Columns(l) = DOMAIN l /\ \A k \in DOMAIN l : Columns(l)[k] = l[k].column
  BY DEF Columns
<1>7. \A k \in DOMAIN l : FieldNames(l)[k] = l[k].name
  BY DEF FieldNames
<1>8. ToSet(Columns(l)) = {f.column : f \in S}
  BY <1>3, <1>6 DEF ToSet
<1>9. ASSUME NEW f \in S
      PROVE  FieldNames(l)[CHOOSE k \in DOMAIN Columns(l) : Columns(l)[k] = f.column] = f.name
  <2>1. \E k \in DOMAIN Columns(l) : Columns(l)[k] = f.column
    BY <1>3, <1>6
  <2>2. \A k \in DOMAIN Columns(l) : Columns(l)[k] = f.column => FieldNames(l)[k] = f.name
    BY <1>3, <1>5, <1>6, <1>7
  <2> QED
    BY <2>1, <2>2
<1> QED
  BY <1>4, <1>8, <1>9 DEF Carries, l, S

\* What is emitted for an entity: a row is read back into the fields of its
\* columns, INSERT carries the fields that are stored, UPDATE those of them
\* that are neither the key nor set at creation only.
StoredFields == {f \in Fields : f.source = None}
CreatedOnly == {f \in Fields : f.defaultNow /\ ~f.updateNow}

LEMMA EmitFacts ==
    ASSUME ent \in Entities, code = Emit(ent)
    PROVE  /\ ToSet(code.returning) = {f.column : f \in Fields}
           /\ \A f \in Fields :
                  code.returning[CHOOSE i \in DOMAIN code.scan : code.scan[i] = f.name] = f.column
           /\ Carries(code.insert, StoredFields)
           /\ Carries(code.update, (StoredFields \ CreatedOnly) \ {primaryField(ent)})
           /\ code.key.field = primaryField(ent).name /\ code.key.column = primaryField(ent).column
<1>1. /\ code.returning = Columns(ent.fields) /\ code.scan = FieldNames(ent.fields)
      /\ code.insert = [columns |-> insertColumns(ent), args |-> FieldNames(insertableFields(ent))]
      /\ code.update = [columns |-> Columns(updatableFields(ent)), args |-> FieldNames(updatableFields(ent))]
      /\ code.key = [column |-> primaryField(ent).column, field |-> primaryField(ent).name]
  BY DEF Emit, scanArgs
<1>2. /\ DOMAIN code.returning = DOMAIN ent.fields /\ DOMAIN code.scan = DOMAIN ent.fields
      /\ \A i \in DOMAIN ent.fields : code.returning[i] = ent.fields[i].column /\ code.scan[i] = ent.fields[i].name
  BY <1>1 DEF Columns, FieldNames
<1>3. ToSet(code.returning) = {f.column : f \in Fields}
  BY <1>2 DEF ToSet, Fields
<1>4. ASSUME NEW f \in Fields
      PROVE  code.returning[CHOOSE i \in DOMAIN code.scan : code.scan[i] = f.name] = f.column
  <2>1. \E i \in DOMAIN code.scan : code.scan[i] = f.name
    BY <1>2 DEF Fields
  <2>2. \A i \in DOMAIN code.scan : code.scan[i] = f.name => code.returning[i] = f.column
    <3>1. \A g \in Fields : g.name = f.name => g = f
      BY FieldFacts
    <3> QED
      BY <1>2, <3>1 DEF Fields
  <2> QED
    BY <2>1, <2>2
<1>5. Carries(code.insert, StoredFields)
  <2>1. {ent.fields[i] : i \in insertable(ent)} = StoredFields
    BY DEF insertable, isReadOnly, StoredFields, Fields
  <2>2. insertable(ent) \in SUBSET DOMAIN ent.fields
    BY DEF insertable
  <2> QED
    BY <1>1, <2>1, <2>2, CarriesAt DEF insertColumns, insertableFields
<1>6. Carries(code.update, (StoredFields \ CreatedOnly) \ {primaryField(ent)})
  <2> DEFINE I == {i \in insertable(ent) :
                      LET f == ent.fields[i] IN ~f.primary /\ ~(f.defaultNow /\ ~f.updateNow)}
  <2>1. I \in SUBSET DOMAIN ent.fields
    BY DEF insertable
  <2>2. \A f \in Fields : f.primary <=> f = primaryField(ent)
    BY FieldFacts
  <2>3. {ent.fields[i] : i \in I} = (StoredFields \ CreatedOnly) \ {primaryField(ent)}
    BY <2>2 DEF insertable, isReadOnly, StoredFields, CreatedOnly, Fields
  <2>4. updatableFields(ent) = At(ent.fields, I)
    BY DEF updatableFields
  <2> HIDE DEF I
  <2> QED
    BY <1>1, <2>1, <2>3, <2>4, CarriesAt
<1> QED
  BY <1>1, <1>3, <1>4, <1>5, <1>6

\* Writing a statement to a row sets the fields it carries and no other one that
\* is stored.
LEMMA PutFacts ==
    ASSUME ent \in Entities, NEW st, NEW S \in SUBSET StoredFields, Carries(st, S), NEW input,
           NEW row, DOMAIN row = {f.column : f \in Fields}
    PROVE  /\ DOMAIN Put(row, st, input) = {f.column : f \in Fields}
           /\ \A f \in S : Put(row, st, input)[f.column] = input[f.name]
           /\ \A f \in StoredFields \ S : Put(row, st, input)[f.column] = row[f.column]
<1> DEFINE put == [c \in DOMAIN row |->
               IF c \notin ToSet(st.columns) THEN row[c]
               ELSE input[st.args[CHOOSE i \in DOMAIN st.columns : st.columns[i] = c]]]
<1>1. DOMAIN put = {f.column : f \in Fields}
  OBVIOUS
<1>2. ASSUME NEW f \in Fields PROVE (f \in S <=> f.column \in ToSet(st.columns))
  <2>1. \A g \in S : g \in Fields /\ (g.column = f.column => g = f)
    BY FieldFacts DEF StoredFields
  <2>2. ToSet(st.columns) = {g.column : g \in S}
    BY DEF Carries
  <2> QED
    BY <2>1, <2>2
<1>3. ASSUME NEW f \in S PROVE put[f.column] = input[f.name]
  <2>1. f \in Fields
    BY DEF StoredFields
  <2>2. st.args[CHOOSE i \in DOMAIN st.columns : st.columns[i] = f.column] = f.name
    BY DEF Carries
  <2>3. f.column \in DOMAIN row /\ f.column \in ToSet(st.columns)
    BY <1>2, <2>1
  <2> QED
    BY <2>2, <2>3
<1>4. ASSUME NEW f \in StoredFields \ S PROVE put[f.column] = row[f.column]
  <2>1. f \in Fields
    BY DEF StoredFields
  <2>2. f.column \in DOMAIN row /\ f.column \notin ToSet(st.columns)
    BY <1>2, <2>1
  <2> QED
    BY <2>2
<1> HIDE DEF put
<1>5. Put(row, st, input) = Generated(put)
  BY DEF Put, put
<1>6. DOMAIN Generated(put) = DOMAIN put
  BY DEF Generated
<1>7. ASSUME NEW f \in StoredFields PROVE Generated(put)[f.column] = put[f.column]
  <2>1. f \in Fields /\ f.source = None
    BY DEF StoredFields
  <2>2. ent.fields[CHOOSE i \in DOMAIN ent.fields : ent.fields[i].column = f.column] = f
    <3>1. \A g \in Fields : g.column = f.column => g = f
      BY <2>1, FieldFacts
    <3>2. \E i \in DOMAIN ent.fields : ent.fields[i].column = f.column
      BY <2>1 DEF Fields
    <3>3. \A i \in DOMAIN ent.fields : ent.fields[i].column = f.column => ent.fields[i] = f
      BY <3>1 DEF Fields
    <3> QED
      BY <3>2, <3>3
  <2>3. f.column \in DOMAIN put
    BY <1>1, <2>1
  <2> QED
    BY <2>1, <2>2, <2>3 DEF Generated
<1>8. \A f \in S : f \in StoredFields
  OBVIOUS
<1> QED
  BY <1>1, <1>3, <1>4, <1>5, <1>6, <1>7, <1>8

\* A row is read into the fields of its columns.
LEMMA ScanFacts ==
    ASSUME ent \in Entities, code = Emit(ent), NEW row
    PROVE  /\ DOMAIN Scan(row) = Names
           /\ \A n \in Names : Scan(row)[n] = row[FieldNamed(n).column]
<1>1. ASSUME NEW n \in Names PROVE Scan(row)[n] = row[FieldNamed(n).column]
  <2>1. FieldNamed(n) \in Fields /\ FieldNamed(n).name = n
    BY FieldFacts
  <2>2. code.returning[CHOOSE i \in DOMAIN code.scan : code.scan[i] = n] = FieldNamed(n).column
    BY <2>1, EmitFacts
  <2> QED
    BY <2>2 DEF Scan
<1> QED
  BY <1>1 DEF Scan

-----------------------------------------------------------------------------
(* Calls. *)

\* A schema PostgreSQL may refuse a statement of: one with an identity that is
\* always generated.
Refusable == \E f \in StoredFields : f.always

CodeInv ==
    /\ ent \in Entities
    /\ code # None => code = Emit(ent)
    /\ code = None => rows = <<>> /\ last = NoCall
    /\ CodeTypeOK
    /\ ValuesRoundTrip
    /\ last.refused => Refusable

\* The table field by field.
LEMMA TypeByField ==
    ASSUME ent \in Entities, code = Emit(ent)
    PROVE  CodeTypeOK <=>
               /\ DOMAIN rows \subseteq Ids
               /\ \A id \in DOMAIN rows :
                      /\ DOMAIN rows[id] = {f.column : f \in Fields}
                      /\ rows[id][primaryField(ent).column] = id
               /\ clock \in 1..MaxClock
               /\ mine # None => DOMAIN mine = Names
BY EmitFacts DEF CodeTypeOK

\* The schema is never changed, nor the code once it is there.
LEMMA SameEntity ==
    ASSUME ent' = ent
    PROVE  /\ Fields' = Fields /\ Names' = Names /\ Emit(ent)' = Emit(ent)
           /\ StoredFields' = StoredFields /\ CreatedOnly' = CreatedOnly
           /\ primaryField(ent)' = primaryField(ent) /\ Refusable' = Refusable
<1>1. Fields' = Fields
  BY DEF Fields
<1>2. StoredFields' = StoredFields /\ CreatedOnly' = CreatedOnly
  BY <1>1 DEF StoredFields, CreatedOnly
<1>3. Refusable' = Refusable
  BY <1>2 DEF Refusable
<1> QED
  BY <1>1, <1>2, <1>3 DEF Names

\* What a step has to leave, field by field.
LEMMA TypeAfter ==
    ASSUME ent \in Entities, code = Emit(ent), ent' = ent, code' = code,
           DOMAIN rows' \subseteq Ids,
           \A id \in DOMAIN rows' :
               /\ DOMAIN rows'[id] = {f.column : f \in Fields}
               /\ rows'[id][primaryField(ent).column] = id,
           clock' \in 1..MaxClock,
           mine' # None => DOMAIN mine' = Names
    PROVE  CodeTypeOK'
<1>1. /\ ToSet(code'.returning) = {f.column : f \in Fields}
      /\ code'.key.column = primaryField(ent).column
  BY EmitFacts
<1>2. Names' = Names
  BY SameEntity
<1> QED
  BY <1>1, <1>2 DEF CodeTypeOK

LEMMA ValuesAfter ==
    ASSUME ent \in Entities, ent' = ent,
           Read' => \A f \in Fields : mine'[f.name] = rows'[last'.key][f.column],
           Wrote' => \A f \in Fields :
               /\ f.source = None /\ ~(last'.op = "update" /\ f \in CreatedOnly)
                      => rows'[last'.key][f.column] = last'.input[f.name]
               /\ f.updateNow => rows'[last'.key][f.column] = clock' - 1
    PROVE  ValuesRoundTrip'
<1>1. \A n \in Names : FieldNamed(n) \in Fields /\ FieldNamed(n).name = n
  BY FieldFacts
<1>2. Names' = Names /\ \A n : FieldNamed(n)' = FieldNamed(n)
  BY DEF Names, FieldNamed
<1>3. Row' = rows'[last'.key]
  BY DEF Row
<1>4. Read' => \A n \in Names' : mine'[n] = Row'[FieldNamed(n)'.column]
  BY <1>1, <1>2, <1>3
<1>5. Wrote' => \A n \in Names' : LET f == FieldNamed(n)' IN
          /\ f.source = None /\ ~(last'.op = "update" /\ f.defaultNow /\ ~f.updateNow)
                 => Row'[f.column] = last'.input[n]
          /\ f.updateNow => Row'[f.column] = clock' - 1
  BY <1>1, <1>2, <1>3 DEF CreatedOnly
<1> QED
  BY <1>4, <1>5 DEF ValuesRoundTrip

\* A call that fails leaves the table as it is.
LEMMA FailedInv ==
    ASSUME CodeInv, code # None, ent' = ent, code' = code, rows' = rows, mine' = mine,
           clock' \in 1..MaxClock, ~last'.ok, last'.refused => Refusable
    PROVE  CodeInv'
<1>1. ent \in Entities /\ code = Emit(ent) /\ CodeTypeOK
  BY DEF CodeInv
<1>2. CodeTypeOK'
  <2>1. /\ DOMAIN rows \subseteq Ids
        /\ \A id \in DOMAIN rows :
               /\ DOMAIN rows[id] = {f.column : f \in Fields}
               /\ rows[id][primaryField(ent).column] = id
        /\ mine # None => DOMAIN mine = Names
    BY <1>1, TypeByField
  <2> QED
    BY <1>1, <2>1, TypeAfter
<1>3. ValuesRoundTrip'
  BY <1>1, ValuesAfter DEF Read, Wrote
<1>4. Emit(ent)' = Emit(ent) /\ Refusable' = Refusable
  BY SameEntity
<1> QED
  BY <1>1, <1>2, <1>3, <1>4 DEF CodeInv

\* A call that writes a row and returns it.
LEMMA WrittenInv ==
    ASSUME CodeInv, code # None, ent' = ent, code' = code,
           NEW pk \in Ids, NEW row, last'.key = pk, ~last'.refused,
           rows' = [k \in DOMAIN rows \cup {pk} |-> IF k = pk THEN row ELSE rows[k]],
           DOMAIN row = {f.column : f \in Fields}, row[primaryField(ent).column] = pk,
           mine' = Scan(row), clock' \in 1..MaxClock,
           \A f \in Fields :
               /\ f.source = None /\ ~(last'.op = "update" /\ f \in CreatedOnly)
                      => row[f.column] = last'.input[f.name]
               /\ f.updateNow => row[f.column] = clock' - 1
    PROVE  CodeInv'
<1>1. ent \in Entities /\ code = Emit(ent) /\ CodeTypeOK
  BY DEF CodeInv
<1>2. DOMAIN mine' = Names /\ \A n \in Names : mine'[n] = row[FieldNamed(n).column]
  BY <1>1, ScanFacts
<1>3. rows'[pk] = row /\ DOMAIN rows' = DOMAIN rows \cup {pk}
  OBVIOUS
<1>4. CodeTypeOK'
  <2>1. /\ DOMAIN rows \subseteq Ids
        /\ \A id \in DOMAIN rows :
               /\ DOMAIN rows[id] = {f.column : f \in Fields}
               /\ rows[id][primaryField(ent).column] = id
    BY <1>1, TypeByField
  <2>2. ASSUME NEW id \in DOMAIN rows'
        PROVE  /\ DOMAIN rows'[id] = {f.column : f \in Fields}
               /\ rows'[id][primaryField(ent).column] = id
    <3>1. CASE id = pk
      BY <1>3, <3>1
    <3>2. CASE id # pk
      <4>1. id \in DOMAIN rows /\ rows'[id] = rows[id]
        BY <1>3, <3>2
      <4> QED
        BY <2>1, <4>1
    <3> QED
      BY <3>1, <3>2
  <2>3. DOMAIN rows' \subseteq Ids
    BY <1>3, <2>1
  <2> QED
    BY <1>1, <1>2, <2>2, <2>3, TypeAfter
<1>5. ValuesRoundTrip'
  <2>1. \A f \in Fields : mine'[f.name] = row[f.column]
    <3>1. \A f \in Fields : f.name \in Names /\ FieldNamed(f.name) = f
      BY <1>1, FieldFacts
    <3> QED
      BY <1>2, <3>1
  <2> QED
    BY <1>1, <1>3, <2>1, ValuesAfter
<1>6. Emit(ent)' = Emit(ent)
  BY SameEntity
<1> QED
  BY <1>1, <1>4, <1>5, <1>6 DEF CodeInv

\* The clock is within its bound.
LEMMA ClockTicks ==
    ASSUME CodeTypeOK, Tick
    PROVE  clock' \in 1..MaxClock /\ clock' - 1 = clock
<1>1. clock \in 1..MaxClock /\ clock < MaxClock /\ clock' = clock + 1 /\ MaxClock \in Nat
  BY EntityCodeAssumption DEF CodeTypeOK, Tick
<1> QED
  BY <1>1

\* The code that compiles has a time in every timestamp, and a UUID as the key.
LEMMA CompiledFields ==
    ASSUME ent \in Entities, compiles(ent)
    PROVE  \A f \in Fields : f.defaultNow \/ f.updateNow => f.type = "time" /\ f # primaryField(ent)
<1>1. ASSUME NEW f \in Fields, f.defaultNow \/ f.updateNow PROVE f.type = "time"
  <2>1. PICK i \in DOMAIN ent.fields : f = ent.fields[i]
    BY DEF Fields
  <2>2. goType(f) = <<"", "time">>
    BY <1>1, <2>1 DEF compiles
  <2> QED
    BY <2>2 DEF goType
<1> QED
  BY <1>1, FieldFacts

\* What Create sends has a key, and the time in the timestamps of update.
LEMMA Stamped ==
    ASSUME ent \in Entities, compiles(ent), NEW input \in Inputs, NEW id \in Ids
    PROVE  /\ StampCreate(input, id)[primaryField(ent).name] \in Ids
           /\ \A f \in Fields : f.updateNow =>
                  /\ StampCreate(input, id)[f.name] = clock
                  /\ StampUpdate(input)[f.name] = clock
<1>1. \A f \in Fields : f.name \in Names /\ FieldNamed(f.name) = f
  BY FieldFacts
<1>2. \A f \in Fields :
          /\ StampCreate(input, id)[f.name] =
                 IF f.primary /\ f.type = "uuid" /\ input[f.name] = Zero THEN id
                 ELSE IF f.updateNow \/ (f.defaultNow /\ input[f.name] = Zero) THEN clock
                 ELSE input[f.name]
          /\ StampUpdate(input)[f.name] = IF f.updateNow THEN clock ELSE input[f.name]
  BY <1>1 DEF StampCreate, StampUpdate
<1> DEFINE p == primaryField(ent)
<1>3. p \in Fields /\ p.primary /\ p.type = "uuid"
  BY FieldFacts
<1>4. ~p.defaultNow /\ ~p.updateNow
  BY <1>3, CompiledFields
<1>5. input[p.name] \in Ids \cup {Zero}
  BY <1>1, <1>3 DEF Inputs
<1>6. StampCreate(input, id)[p.name] \in Ids
  <2> HIDE DEF p
  <2> QED
    BY <1>2, <1>3, <1>4, <1>5
<1>7. ASSUME NEW f \in Fields, f.updateNow
      PROVE  StampCreate(input, id)[f.name] = clock /\ StampUpdate(input)[f.name] = clock
  <2>1. f # p /\ (f.primary => f = p)
    BY <1>7, CompiledFields, FieldFacts
  <2> HIDE DEF p
  <2> QED
    BY <1>2, <1>7, <2>1
<1> QED
  BY <1>6, <1>7

LEMMA CodeInitInv == CodeInit => CodeInv
<1> SUFFICES ASSUME CodeInit PROVE CodeInv
  OBVIOUS
<1>1. DOMAIN rows = {} /\ ~last.ok /\ ~last.refused
  BY DEF CodeInit, NoCall
<1>2. clock \in 1..MaxClock
  BY EntityCodeAssumption DEF CodeInit
<1>3. CodeTypeOK
  BY <1>1, <1>2 DEF CodeInit, CodeTypeOK
<1>4. ValuesRoundTrip
  BY <1>1 DEF ValuesRoundTrip, Read, Wrote
<1> QED
  BY <1>1, <1>3, <1>4 DEF CodeInv, CodeInit

LEMMA writeClientsInv == ASSUME CodeInv, writeClients PROVE CodeInv'
<1>1. /\ ent' = ent /\ rows' = rows /\ clock' = clock /\ mine' = mine /\ last' = last
      /\ code' = Emit(ent) /\ rows = <<>> /\ last = NoCall /\ ent \in Entities /\ CodeTypeOK
  BY DEF CodeInv, writeClients
<1>2. DOMAIN rows = {} /\ ~last.ok /\ ~last.refused
  BY <1>1 DEF NoCall
<1>3. Names' = Names /\ Emit(ent)' = Emit(ent)
  BY <1>1, SameEntity
<1>4. CodeTypeOK'
  BY <1>1, <1>2, <1>3 DEF CodeTypeOK
<1>5. ValuesRoundTrip'
  BY <1>1, <1>2 DEF ValuesRoundTrip, Read, Wrote
<1> QED
  BY <1>1, <1>2, <1>3, <1>4, <1>5 DEF CodeInv, NoCall

\* The statements list no computed column, so only an identity has them refused.
LEMMA RefusedForIdentity ==
    ASSUME ent \in Entities, NEW st, NEW S \in SUBSET StoredFields, Carries(st, S), Refuses(st.columns)
    PROVE  Refusable
<1>1. PICK i \in DOMAIN ent.fields :
          /\ ent.fields[i].column \in ToSet(st.columns)
          /\ ent.fields[i].source # None \/ ent.fields[i].always
  BY DEF Refuses
<1>2. PICK f \in S : ent.fields[i].column = f.column
  BY <1>1 DEF Carries
<1>3. ent.fields[i] \in Fields /\ f \in Fields /\ f \in StoredFields
  BY DEF Fields, StoredFields
<1>4. ent.fields[i] = f
  BY <1>2, <1>3, FieldFacts
<1> QED
  BY <1>1, <1>3, <1>4 DEF Refusable, StoredFields

LEMMA CreateInv == ASSUME CodeInv, Create PROVE CodeInv'
<1>1. /\ ent \in Entities /\ code # None /\ code = Emit(ent) /\ compiles(ent) /\ CodeTypeOK
      /\ ent' = ent /\ code' = code /\ Tick
  BY DEF CodeInv, Create, Ready
<1>2. clock' \in 1..MaxClock /\ clock' - 1 = clock
  BY <1>1, ClockTicks
<1>3. PICK input \in Inputs, id \in Ids \ DOMAIN rows :
       LET struct == StampCreate(input, id)
           pk == struct[code.key.field]
           row == Put(NewRow, code.insert, struct)
       IN  IF ComputedSet(input)
           THEN Call("create", FALSE, input, FALSE, None) /\ UNCHANGED <<rows, mine>>
           ELSE IF Refuses(code.insert.columns)
           THEN Call("create", FALSE, struct, TRUE, pk) /\ UNCHANGED <<rows, mine>>
           ELSE IF pk \in DOMAIN rows
           THEN Call("create", FALSE, struct, FALSE, pk) /\ UNCHANGED <<rows, mine>>
           ELSE /\ rows' = [k \in DOMAIN rows \cup {pk} |-> IF k = pk THEN row ELSE rows[k]]
                /\ mine' = Scan(row)
                /\ Call("create", TRUE, struct, FALSE, pk)
  BY DEF Create
<1> DEFINE struct == StampCreate(input, id)
           pk == struct[code.key.field]
           row == Put(NewRow, code.insert, struct)
<1>4. /\ code.key.field = primaryField(ent).name /\ Carries(code.insert, StoredFields)
      /\ ToSet(code.returning) = {f.column : f \in Fields}
  BY <1>1, EmitFacts
<1>5. CASE rows' = rows /\ mine' = mine /\ ~last'.ok /\ (last'.refused => Refuses(code.insert.columns))
  <2>1. Refuses(code.insert.columns) => Refusable
    BY <1>1, <1>4, RefusedForIdentity
  <2> QED
    BY <1>1, <1>2, <1>5, <2>1, FailedInv
<1>6. CASE /\ rows' = [k \in DOMAIN rows \cup {pk} |-> IF k = pk THEN row ELSE rows[k]]
           /\ mine' = Scan(row)
           /\ last' = [op |-> "create", ok |-> TRUE, input |-> struct, refused |-> FALSE, key |-> pk]
  <2>1. pk = struct[primaryField(ent).name] /\ struct[primaryField(ent).name] \in Ids
        /\ \A f \in Fields : f.updateNow => struct[f.name] = clock
    BY <1>1, <1>4, Stamped
  <2>2. DOMAIN NewRow = {f.column : f \in Fields}
    BY <1>4 DEF NewRow
  <2>3. /\ DOMAIN row = {f.column : f \in Fields}
        /\ \A f \in StoredFields : row[f.column] = struct[f.name]
    <3> HIDE DEF struct
    <3> QED
      BY <1>1, <1>4, <2>2, PutFacts
  <2>4. primaryField(ent) \in StoredFields /\ \A f \in Fields : f.updateNow => f \in StoredFields
    BY <1>1, FieldFacts DEF StoredFields
  <2>5. \A f \in Fields : f.source = None <=> f \in StoredFields
    BY DEF StoredFields
  <2> HIDE DEF struct, row, pk
  <2>6. row[primaryField(ent).column] = pk /\ pk \in Ids
    BY <2>1, <2>3, <2>4
  <2>7. \A f \in Fields :
            /\ f.source = None => row[f.column] = struct[f.name]
            /\ f.updateNow => row[f.column] = clock' - 1
    BY <1>2, <2>1, <2>3, <2>4, <2>5
  <2>8. last'.key = pk /\ ~last'.refused /\ last'.op = "create" /\ last'.input = struct
    BY <1>6
  <2> QED
    BY <1>1, <1>2, <1>6, <2>3, <2>6, <2>7, <2>8, WrittenInv
<1> QED
  <2>1. CASE ComputedSet(input)
    BY <1>3, <1>5, <2>1 DEF Call
  <2>2. CASE ~ComputedSet(input) /\ Refuses(code.insert.columns)
    BY <1>3, <1>5, <2>2 DEF Call
  <2>3. CASE ~ComputedSet(input) /\ ~Refuses(code.insert.columns) /\ pk \in DOMAIN rows
    BY <1>3, <1>5, <2>3 DEF Call
  <2>4. CASE ~ComputedSet(input) /\ ~Refuses(code.insert.columns) /\ pk \notin DOMAIN rows
    BY <1>3, <1>6, <2>4 DEF Call
  <2> QED
    BY <2>1, <2>2, <2>3, <2>4

LEMMA UpdateInv == ASSUME CodeInv, Update PROVE CodeInv'
<1>1. /\ ent \in Entities /\ code # None /\ code = Emit(ent) /\ compiles(ent) /\ CodeTypeOK
      /\ ent' = ent /\ code' = code /\ Tick
  BY DEF CodeInv, Update, Ready
<1>2. clock' \in 1..MaxClock /\ clock' - 1 = clock
  BY <1>1, ClockTicks
<1>3. PICK input \in Edited :
       LET struct == StampUpdate(input)
           pk == struct[code.key.field]
           row == Put(rows[pk], code.update, struct)
       IN  IF pk = Zero
           THEN Call("update", FALSE, input, FALSE, pk) /\ UNCHANGED <<rows, mine>>
           ELSE IF Refuses(code.update.columns)
           THEN Call("update", FALSE, struct, TRUE, pk) /\ UNCHANGED <<rows, mine>>
           ELSE IF pk \notin DOMAIN rows
           THEN Call("update", FALSE, struct, FALSE, pk) /\ UNCHANGED <<rows, mine>>
           ELSE /\ rows' = [rows EXCEPT ![pk] = row]
                /\ mine' = Scan(row)
                /\ Call("update", TRUE, struct, FALSE, pk)
  BY DEF Update
<1> DEFINE struct == StampUpdate(input)
           pk == struct[code.key.field]
           row == Put(rows[pk], code.update, struct)
           S == (StoredFields \ CreatedOnly) \ {primaryField(ent)}
<1>4. /\ code.key.field = primaryField(ent).name /\ Carries(code.update, S)
      /\ S \in SUBSET StoredFields
  BY <1>1, EmitFacts
<1>5. CASE rows' = rows /\ mine' = mine /\ ~last'.ok /\ (last'.refused => Refuses(code.update.columns))
  <2>1. Refuses(code.update.columns) => Refusable
    <3> HIDE DEF S
    <3> QED
      BY <1>1, <1>4, RefusedForIdentity
  <2> QED
    BY <1>1, <1>2, <1>5, <2>1, FailedInv
<1>6. CASE /\ pk \in DOMAIN rows
           /\ rows' = [rows EXCEPT ![pk] = row]
           /\ mine' = Scan(row)
           /\ last' = [op |-> "update", ok |-> TRUE, input |-> struct, refused |-> FALSE, key |-> pk]
  <2>1. /\ DOMAIN rows \subseteq Ids
        /\ DOMAIN rows[pk] = {f.column : f \in Fields}
        /\ rows[pk][primaryField(ent).column] = pk
    BY <1>1, <1>6, TypeByField
  <2>2. pk = struct[primaryField(ent).name] /\ input \in Inputs
    BY <1>4 DEF Edited
  <2>3. \A f \in Fields : f.updateNow => struct[f.name] = clock
    <3>1. DOMAIN rows \subseteq Ids /\ pk \in DOMAIN rows
      BY <1>6, <2>1
    <3>2. pk \in Ids
      BY <3>1
    <3> HIDE DEF pk
    <3> QED
      BY <1>1, <2>2, <3>2, Stamped
  <2>4. /\ DOMAIN row = {f.column : f \in Fields}
        /\ \A f \in S : row[f.column] = struct[f.name]
        /\ \A f \in StoredFields \ S : row[f.column] = rows[pk][f.column]
    <3> DEFINE old == rows[pk]
               new == Put(old, code.update, struct)
    <3> HIDE DEF struct, S, pk
    <3>1. DOMAIN old = {f.column : f \in Fields}
      BY <2>1
    <3>2. /\ DOMAIN new = {f.column : f \in Fields}
          /\ \A f \in S : new[f.column] = struct[f.name]
          /\ \A f \in StoredFields \ S : new[f.column] = old[f.column]
      <4> HIDE DEF old
      <4> QED
        BY <1>1, <1>4, <3>1, PutFacts
    <3> QED
      BY <3>2
  <2>5. primaryField(ent) \in StoredFields \ S /\ \A f \in Fields : f.updateNow => f \in S
    <3>1. primaryField(ent) \in StoredFields
      BY <1>1, FieldFacts DEF StoredFields
    <3>2. ASSUME NEW f \in Fields, f.updateNow PROVE f \in StoredFields /\ f # primaryField(ent)
      BY <1>1, <3>2, FieldFacts, CompiledFields DEF StoredFields
    <3> QED
      BY <3>1, <3>2 DEF CreatedOnly
  <2>6. \A f \in Fields : f.source = None <=> f \in StoredFields
    BY DEF StoredFields
  <2>7. row[primaryField(ent).column] = pk /\ pk \in Ids
    <3> HIDE DEF struct, S, pk, row
    <3> QED
      BY <1>6, <2>1, <2>4, <2>5
  <2>8. \A f \in Fields :
            /\ f.source = None /\ f \notin CreatedOnly => row[f.column] = struct[f.name]
            /\ f.updateNow => row[f.column] = clock' - 1
    <3>1. ASSUME NEW f \in Fields, f.source = None, f \notin CreatedOnly PROVE row[f.column] = struct[f.name]
      <4>1. CASE f = primaryField(ent)
        BY <2>2, <2>7, <4>1
      <4>2. CASE f # primaryField(ent)
        BY <2>4, <2>6, <3>1, <4>2
      <4> QED
        BY <4>1, <4>2
    <3>2. ASSUME NEW f \in Fields, f.updateNow PROVE row[f.column] = clock' - 1
      <4>1. row[f.column] = struct[f.name] /\ struct[f.name] = clock
        BY <2>3, <2>4, <2>5, <3>2
      <4> QED
        BY <1>2, <4>1
    <3> QED
      BY <3>1, <3>2
  <2>9. rows' = [k \in DOMAIN rows \cup {pk} |-> IF k = pk THEN row ELSE rows[k]]
    <3> HIDE DEF pk, row
    <3>1. DOMAIN rows \cup {pk} = DOMAIN rows
      BY <1>6
    <3> QED
      BY <1>6, <3>1
  <2> HIDE DEF struct, pk, row, S
  <2>10. last'.key = pk /\ ~last'.refused /\ last'.op = "update" /\ last'.input = struct /\ mine' = Scan(row)
    BY <1>6
  <2> QED
    BY <1>1, <1>2, <2>4, <2>7, <2>8, <2>9, <2>10, WrittenInv
<1> QED
  <2>1. CASE pk = Zero
    BY <1>3, <1>5, <2>1 DEF Call
  <2>2. CASE pk # Zero /\ Refuses(code.update.columns)
    BY <1>3, <1>5, <2>2 DEF Call
  <2>3. CASE pk # Zero /\ ~Refuses(code.update.columns) /\ pk \notin DOMAIN rows
    BY <1>3, <1>5, <2>3 DEF Call
  <2>4. CASE pk # Zero /\ ~Refuses(code.update.columns) /\ pk \in DOMAIN rows
    BY <1>3, <1>6, <2>4 DEF Call
  <2> QED
    BY <2>1, <2>2, <2>3, <2>4

LEMMA ByIDInv == ASSUME CodeInv, ByID PROVE CodeInv'
<1>1. /\ ent \in Entities /\ code # None /\ code = Emit(ent) /\ CodeTypeOK
      /\ ent' = ent /\ code' = code /\ rows' = rows /\ clock' = clock
  BY DEF CodeInv, ByID, Ready
<1>2. PICK id \in DOMAIN rows : mine' = Scan(rows[id]) /\ Call("byID", TRUE, mine', FALSE, id)
  BY DEF ByID
<1>3. last'.op = "byID" /\ ~last'.refused /\ last'.key = id
  BY <1>2 DEF Call
<1>4. DOMAIN mine' = Names /\ \A n \in Names : mine'[n] = rows[id][FieldNamed(n).column]
  BY <1>1, <1>2, ScanFacts
<1>5. CodeTypeOK'
  <2>1. /\ DOMAIN rows \subseteq Ids
        /\ \A k \in DOMAIN rows :
               /\ DOMAIN rows[k] = {f.column : f \in Fields}
               /\ rows[k][primaryField(ent).column] = k
        /\ clock \in 1..MaxClock
    BY <1>1, TypeByField
  <2> QED
    BY <1>1, <1>4, <2>1, TypeAfter
<1>6. ValuesRoundTrip'
  <2>1. \A f \in Fields : mine'[f.name] = rows'[last'.key][f.column]
    <3>1. \A f \in Fields : f.name \in Names /\ FieldNamed(f.name) = f
      BY <1>1, FieldFacts
    <3> QED
      BY <1>1, <1>3, <1>4, <3>1
  <2>2. ~Wrote'
    BY <1>3 DEF Wrote
  <2> QED
    BY <1>1, <2>1, <2>2, ValuesAfter
<1>7. Emit(ent)' = Emit(ent)
  BY <1>1, SameEntity
<1> QED
  BY <1>1, <1>3, <1>5, <1>6, <1>7 DEF CodeInv

LEMMA DeleteInv == ASSUME CodeInv, Delete PROVE CodeInv'
<1>1. /\ ent \in Entities /\ code # None /\ code = Emit(ent) /\ CodeTypeOK
      /\ ent' = ent /\ code' = code /\ mine' = mine /\ clock' = clock
  BY DEF CodeInv, Delete, Ready
<1>2. PICK id \in DOMAIN rows :
          rows' = [k \in DOMAIN rows \ {id} |-> rows[k]] /\ Call("delete", TRUE, None, FALSE, id)
  BY DEF Delete
<1>3. last'.op = "delete" /\ ~last'.refused
  BY <1>2 DEF Call
<1>4. CodeTypeOK'
  <2>1. /\ DOMAIN rows \subseteq Ids
        /\ \A k \in DOMAIN rows :
               /\ DOMAIN rows[k] = {f.column : f \in Fields}
               /\ rows[k][primaryField(ent).column] = k
        /\ clock \in 1..MaxClock
        /\ mine # None => DOMAIN mine = Names
    BY <1>1, TypeByField
  <2>2. DOMAIN rows' = DOMAIN rows \ {id} /\ \A k \in DOMAIN rows' : k \in DOMAIN rows /\ rows'[k] = rows[k]
    BY <1>2
  <2> QED
    BY <1>1, <2>1, <2>2, TypeAfter
<1>5. ValuesRoundTrip'
  <2>1. ~Wrote' /\ ~Read'
    BY <1>3 DEF Wrote, Read
  <2> QED
    BY <1>1, <2>1, ValuesAfter
<1>6. Emit(ent)' = Emit(ent)
  BY <1>1, SameEntity
<1> QED
  BY <1>1, <1>3, <1>4, <1>5, <1>6 DEF CodeInv

LEMMA CodeStutterInv == ASSUME CodeInv, UNCHANGED codeVars PROVE CodeInv'
<1>1. /\ ent' = ent /\ code' = code /\ rows' = rows /\ clock' = clock /\ mine' = mine /\ last' = last
      /\ ent \in Entities /\ CodeTypeOK /\ ValuesRoundTrip
  BY DEF codeVars, CodeInv
<1>2. CodeTypeOK'
  <2>1. Names' = Names
    BY <1>1, SameEntity
  <2> QED
    BY <1>1, <2>1 DEF CodeTypeOK
<1>3. ValuesRoundTrip'
  <2>1. Names' = Names /\ Read' = Read /\ Wrote' = Wrote /\ Row' = Row /\ \A n : FieldNamed(n)' = FieldNamed(n)
    BY <1>1 DEF Names, Read, Wrote, Row, FieldNamed
  <2> QED
    BY <1>1, <2>1 DEF ValuesRoundTrip
<1>4. Emit(ent)' = Emit(ent) /\ Refusable' = Refusable
  BY <1>1, SameEntity
<1> QED
  BY <1>1, <1>2, <1>3, <1>4 DEF CodeInv

LEMMA CodeInvAlways == CodeSpec => []CodeInv
<1>1. CodeInit => CodeInv
  BY CodeInitInv
<1>2. CodeInv /\ [CodeNext]_codeVars => CodeInv'
  BY writeClientsInv, CreateInv, UpdateInv, ByIDInv, DeleteInv, CodeStutterInv DEF CodeNext
<1> QED
  BY <1>1, <1>2, PTL DEF CodeSpec

\* Whatever the order of the fields and whichever of them are computed or set by
\* the program, the values a caller passes to Create or Update reach their own
\* columns, and a row comes back in its own fields (generator/orm.go's column
\* lists and argument lists agree).
THEOREM ValuesRoundTripAlways == CodeSpec => []CodeTypeOK /\ []ValuesRoundTrip
<1>1. CodeInv => CodeTypeOK /\ ValuesRoundTrip
  BY DEF CodeInv
<1> QED
  BY <1>1, CodeInvAlways, PTL

-----------------------------------------------------------------------------
(* Schemas whose code can be used. *)

LEMMA UsableCompiles ==
    ASSUME ent \in Entities, Usable(ent)
    PROVE  compiles(ent)
<1>1. goType(primaryField(ent)) = <<"", "uuid">>
  <2>1. primaryField(ent) \in Fields /\ primaryField(ent).primary /\ primaryField(ent).type = "uuid"
    BY FieldFacts
  <2>2. ~primaryField(ent).nullable
    BY <2>1 DEF Fields, Usable
  <2> QED
    BY <2>1, <2>2 DEF goType
<1>2. ASSUME NEW i \in DOMAIN ent.fields
      PROVE  /\ ent.fields[i].primary /\ ent.fields[i].type = "uuid" => goType(ent.fields[i]) = <<"", "uuid">>
             /\ ent.fields[i].defaultNow \/ ent.fields[i].updateNow => goType(ent.fields[i]) = <<"", "time">>
  BY DEF Usable, goType
<1>3. ASSUME "time" \in queryTypes(ent) PROVE needsTime(ent)
  BY <1>3 DEF queryTypes, queryFields, Usable
<1>4. "json" \notin queryTypes(ent)
  BY DEF queryTypes, queryFields, Usable
<1> QED
  BY <1>1, <1>2, <1>3, <1>4 DEF compiles, needsTime

\* A name that is a field's or a column's is understood as a column.
LEMMA QueryColumnIsThere ==
    ASSUME ent \in Entities, code = Emit(ent),
           NEW name, NEW i \in DOMAIN ent.fields, ent.fields[i].name = name \/ ent.fields[i].column = name
    PROVE  queryColumn(ent, name) \in ToSet(code.returning)
<1> DEFINE known == {j \in DOMAIN ent.fields : ent.fields[j].name = name}
<1>1. ToSet(code.returning) = {f.column : f \in Fields}
  BY EmitFacts
<1>2. CASE known = {}
  <2>1. ent.fields[i].column = name
    BY <1>2
  <2>2. queryColumn(ent, name) = name
    BY <1>2 DEF queryColumn
  <2> QED
    BY <1>1, <2>1, <2>2 DEF Fields
<1>3. CASE known # {}
  <2>1. Len(ent.fields) \in Nat /\ DOMAIN ent.fields = 1..Len(ent.fields)
    BY FieldFacts
  <2>2. known \in SUBSET Nat
    BY <2>1
  <2>3. \E j \in known : \A k \in known : j <= k
    <3> HIDE DEF known
    <3> QED
      BY <1>3, <2>2, LeastNumber
  <2>4. (CHOOSE j \in known : \A k \in known : j <= k) \in known
    <3> HIDE DEF known
    <3> QED
      BY <2>3
  <2>5. queryColumn(ent, name) = ent.fields[CHOOSE j \in known : \A k \in known : j <= k].column
    BY <1>3 DEF queryColumn, FirstAt
  <2> QED
    BY <1>1, <2>4, <2>5 DEF Fields
<1> QED
  BY <1>2, <1>3

\* For such schemas the code compiles, PostgreSQL takes every statement, every
\* column a query names is there, and values pass through it unharmed.
THEOREM RoundTripAlways ==
    ASSUME \A e \in Entities : Usable(e)
    PROVE  CodeSpec => []RoundTrip
<1>1. ASSUME CodeInv PROVE RoundTrip
  <2> SUFFICES ASSUME code # None PROVE
          /\ compiles(ent) /\ ~last.refused
          /\ \A p \in ent.predicates \cup ent.orders : queryColumn(ent, p) \in ToSet(code.returning)
          /\ \A agg \in ent.aggregates :
                 IF agg.field = "*" THEN agg.func = "count"
                 ELSE queryColumn(ent, agg.field) \in ToSet(code.returning)
          /\ ValuesRoundTrip
    BY DEF RoundTrip
  <2>1. ent \in Entities /\ Usable(ent) /\ code = Emit(ent) /\ ValuesRoundTrip /\ (last.refused => Refusable)
    BY <1>1 DEF CodeInv
  <2>2. compiles(ent)
    BY <2>1, UsableCompiles
  <2>3. ~Refusable
    BY <2>1 DEF Refusable, StoredFields, Fields, Usable
  <2>4. ASSUME NEW p \in ent.predicates \cup ent.orders
        PROVE  queryColumn(ent, p) \in ToSet(code.returning)
    <3>1. PICK i \in DOMAIN ent.fields : ent.fields[i].name = p \/ ent.fields[i].column = p
      BY <2>1 DEF Usable
    <3> QED
      BY <2>1, <3>1, QueryColumnIsThere
  <2>5. ASSUME NEW agg \in ent.aggregates
        PROVE  IF agg.field = "*" THEN agg.func = "count"
               ELSE queryColumn(ent, agg.field) \in ToSet(code.returning)
    <3>1. CASE agg.field = "*"
      BY <2>1, <3>1 DEF Usable
    <3>2. CASE agg.field # "*"
      <4>1. PICK i \in DOMAIN ent.fields : ent.fields[i].name = agg.field \/ ent.fields[i].column = agg.field
        BY <2>1, <3>2 DEF Usable
      <4>2. queryColumn(ent, agg.field) \in ToSet(code.returning)
        BY <2>1, <4>1, QueryColumnIsThere
      <4> QED
        BY <3>2, <4>2
    <3> QED
      BY <3>1, <3>2
  <2> QED
    BY <2>1, <2>2, <2>3, <2>4, <2>5
<1> QED
  BY <1>1, CodeInvAlways, PTL

\* No update changes a timestamp of creation: UPDATE does not list its column,
\* and neither a second insert of the key nor a deletion touches a row that
\* stays.
THEOREM CreatedAtKeptAlways == CodeSpec => CreatedAtKept
<1> DEFINE Kept == \A id \in DOMAIN rows \cap DOMAIN rows' : \A n \in Names :
                       FieldNamed(n).defaultNow /\ ~FieldNamed(n).updateNow
                           => rows'[id][FieldNamed(n).column] = rows[id][FieldNamed(n).column]
<1>1. ASSUME CodeInv, CodeNext PROVE Kept
  <2>1. ent \in Entities /\ CodeTypeOK /\ (code # None => code = Emit(ent))
    BY <1>1 DEF CodeInv
  <2>2. CASE \A id \in DOMAIN rows \cap DOMAIN rows' : rows'[id] = rows[id]
    BY <2>2
  <2>3. CASE writeClients \/ ByID
    BY <2>2, <2>3 DEF writeClients, ByID
  <2>4. CASE Delete
    <3>1. PICK id \in DOMAIN rows : rows' = [k \in DOMAIN rows \ {id} |-> rows[k]]
      BY <2>4 DEF Delete
    <3> QED
      BY <2>2, <3>1
  <2>5. CASE Create
    <3>1. PICK input \in Inputs, id \in Ids \ DOMAIN rows :
              LET struct == StampCreate(input, id)
                  pk == struct[code.key.field]
                  row == Put(NewRow, code.insert, struct)
              IN  rows' = rows \/ (pk \notin DOMAIN rows /\
                      rows' = [k \in DOMAIN rows \cup {pk} |-> IF k = pk THEN row ELSE rows[k]])
      BY <2>5 DEF Create
    <3> QED
      BY <2>2, <3>1
  <2>6. CASE Update
    <3>1. code = Emit(ent)
      BY <2>1, <2>6 DEF Update, Ready
    <3>2. PICK pk, input : rows' = rows \/ (pk \in DOMAIN rows /\
              rows' = [rows EXCEPT ![pk] = Put(rows[pk], code.update, input)])
      BY <2>6 DEF Update
    <3>3. CASE rows' = rows
      BY <2>2, <3>3
    <3>4. CASE /\ pk \in DOMAIN rows
               /\ rows' = [rows EXCEPT ![pk] = Put(rows[pk], code.update, input)]
      <4> DEFINE S == (StoredFields \ CreatedOnly) \ {primaryField(ent)}
                 old == rows[pk]
                 new == Put(old, code.update, input)
      <4>1. Carries(code.update, S) /\ S \in SUBSET StoredFields
        BY <2>1, <3>1, EmitFacts
      <4>2. DOMAIN old = {f.column : f \in Fields}
        BY <2>1, <3>1, <3>4, TypeByField
      <4>3. \A f \in StoredFields \ S : new[f.column] = old[f.column]
        <5> HIDE DEF S, old
        <5> QED
          BY <2>1, <4>1, <4>2, PutFacts
      <4>4. ASSUME NEW n \in Names, FieldNamed(n).defaultNow, ~FieldNamed(n).updateNow
            PROVE  FieldNamed(n) \in StoredFields \ S
        BY <2>1, <4>4, FieldFacts DEF StoredFields, CreatedOnly
      <4>5. ASSUME NEW id \in DOMAIN rows, id # pk PROVE rows'[id] = rows[id]
        BY <3>4, <4>5
      <4>6. rows'[pk] = new
        BY <3>4
      <4> HIDE DEF new, S
      <4>7. \A n \in Names : FieldNamed(n).defaultNow /\ ~FieldNamed(n).updateNow
                => rows'[pk][FieldNamed(n).column] = rows[pk][FieldNamed(n).column]
        BY <4>3, <4>4, <4>6
      <4> QED
        BY <4>5, <4>7
    <3> QED
      BY <3>2, <3>3, <3>4
  <2> QED
    BY <1>1, <2>3, <2>4, <2>5, <2>6 DEF CodeNext
<1>2. CodeInv /\ [CodeNext]_codeVars => [Kept]_codeVars
  BY <1>1
<1> QED
  BY <1>2, CodeInvAlways, PTL DEF CodeSpec, CreatedAtKept

-----------------------------------------------------------------------------
(* Sequences without repetitions. *)

\* The rows of a finite set in some order.
LEMMA InjectiveListsAll ==
    ASSUME NEW S, IsFiniteSet(S), NEW f \in [1..Cardinality(S) -> S],
           \A i, j \in 1..Cardinality(S) : f[i] = f[j] => i = j
    PROVE  f \in Seq(S) /\ IsInjective(f) /\ ToSet(f) = S
<1>1. Cardinality(S) \in Nat
  BY FS_CardinalityType
<1>2. f \in Injection(1..Cardinality(S), S)
  BY Fun_IsInj
<1>3. IsFiniteSet(1..Cardinality(S)) /\ Cardinality(1..Cardinality(S)) = Cardinality(S)
  BY <1>1, FS_Interval
<1>4. f \in Surjection(1..Cardinality(S), S)
  BY <1>2, <1>3, FS_Injection
<1>5. \A t \in S : \E i \in 1..Cardinality(S) : f[i] = t
  BY <1>4 DEF Surjection
<1>6. ToSet(f) = S
  BY <1>5 DEF ToSet
<1>7. f \in Seq(S)
  BY <1>1
<1> QED
  BY <1>6, <1>7 DEF IsInjective

LEMMA SetToSeqLists ==
    ASSUME NEW S, IsFiniteSet(S)
    PROVE  SetToSeq(S) \in Seq(S) /\ IsInjective(SetToSeq(S)) /\ ToSet(SetToSeq(S)) = S
<1> DEFINE D == 1..Cardinality(S)
<1>1. ExistsBijection(D, S)
  BY FS_CardinalityType
<1>2. PICK f \in Bijection(D, S) : TRUE
  BY <1>1, Fun_ExistsBij
<1>3. f \in [D -> S] /\ \A i, j \in D : f[i] = f[j] => i = j
  BY <1>2, Fun_BijectionProperties
<1>4. \E g \in [D -> S] : IsInjective(g)
  BY <1>3 DEF IsInjective
<1>5. SetToSeq(S) \in [D -> S] /\ IsInjective(SetToSeq(S))
  BY <1>4 DEF SetToSeq
<1>6. \A i, j \in D : SetToSeq(S)[i] = SetToSeq(S)[j] => i = j
  BY <1>5 DEF IsInjective
<1> QED
  BY <1>5, <1>6, InjectiveListsAll

LEMMA SetToSeqsList ==
    ASSUME NEW S, IsFiniteSet(S), NEW s \in SetToSeqs(S)
    PROVE  s \in Seq(S) /\ IsInjective(s) /\ ToSet(s) = S
<1>1. s \in [1..Cardinality(S) -> S] /\ \A i, j \in 1..Cardinality(S) : i # j => s[i] # s[j]
  BY DEF SetToSeqs
<1> QED
  BY <1>1, InjectiveListsAll

\* Two of them that hold the same are equally long.
LEMMA SameLength ==
    ASSUME NEW S, NEW s \in Seq(S), NEW t \in Seq(S),
           IsInjective(s), IsInjective(t), ToSet(s) = ToSet(t)
    PROVE  Len(s) = Len(t)
<1>1. ASSUME NEW u \in Seq(S), IsInjective(u)
      PROVE  Cardinality(ToSet(u)) = Len(u)
  <2>1. Len(u) \in Nat /\ DOMAIN u = 1..Len(u) /\ u \in [1..Len(u) -> ToSet(u)]
    BY DEF ToSet
  <2>2. u \in Bijection(1..Len(u), ToSet(u))
    <3>1. \A i, j \in 1..Len(u) : u[i] = u[j] => i = j
      BY <1>1, <2>1 DEF IsInjective
    <3>2. \A x \in ToSet(u) : \E i \in 1..Len(u) : u[i] = x
      BY <2>1 DEF ToSet
    <3> QED
      BY <2>1, <3>1, <3>2, Fun_IsBij
  <2>3. ExistsBijection(1..Len(u), ToSet(u))
    BY <2>2, Fun_ExistsBij
  <2> QED
    BY <2>1, <2>3, FS_CountingElements
<1> QED
  BY <1>1

LEMMA AppendNew ==
    ASSUME NEW S, NEW s \in Seq(S), NEW x \in S
    PROVE  /\ s \o <<x>> \in Seq(S)
           /\ ToSet(s \o <<x>>) = ToSet(s) \cup {x}
           /\ IsInjective(s) /\ x \notin ToSet(s) => IsInjective(s \o <<x>>)
<1>1. /\ s \o <<x>> \in Seq(S) /\ Len(s \o <<x>>) = Len(s) + 1 /\ Len(s) \in Nat
      /\ \A i \in 1..Len(s) : (s \o <<x>>)[i] = s[i]
      /\ (s \o <<x>>)[Len(s) + 1] = x
  BY ConcatProperties
<1>2. DOMAIN s = 1..Len(s) /\ DOMAIN (s \o <<x>>) = 1..(Len(s) + 1)
  BY <1>1
<1> DEFINE t == s \o <<x>>
<1> HIDE DEF t
<1>3. /\ \A i \in 1..(Len(s) + 1) : i \in 1..Len(s) \/ i = Len(s) + 1
      /\ \A i \in 1..Len(s) : i \in 1..(Len(s) + 1) /\ i # Len(s) + 1
      /\ Len(s) + 1 \in 1..(Len(s) + 1)
  BY <1>1
<1>4. /\ \A i \in 1..Len(s) : t[i] = s[i]
      /\ t[Len(s) + 1] = x /\ DOMAIN t = 1..(Len(s) + 1)
  BY <1>1, <1>2 DEF t
<1>5. ToSet(t) = ToSet(s) \cup {x}
  BY <1>2, <1>3, <1>4 DEF ToSet
<1>6. ASSUME IsInjective(s), x \notin ToSet(s) PROVE IsInjective(t)
  <2>1. \A i \in 1..Len(s) : s[i] # x
    BY <1>2, <1>6 DEF ToSet
  <2> QED
    BY <1>2, <1>3, <1>4, <1>6, <2>1 DEF IsInjective
<1> QED
  BY <1>1, <1>5, <1>6 DEF t

LEMMA TailWithoutHead ==
    ASSUME NEW S, NEW s \in Seq(S), s # <<>>, IsInjective(s)
    PROVE  /\ Head(s) \in S /\ Head(s) \in ToSet(s)
           /\ Tail(s) \in Seq(S) /\ IsInjective(Tail(s))
           /\ ToSet(Tail(s)) = ToSet(s) \ {Head(s)}
<1>1. /\ Head(s) \in S /\ Tail(s) \in Seq(S) /\ Len(Tail(s)) = Len(s) - 1
      /\ \A i \in 1..Len(Tail(s)) : Tail(s)[i] = s[i + 1]
  BY HeadTailProperties
<1>2. /\ Head(s) = s[1] /\ Len(s) \in Nat /\ Len(s) > 0
      /\ DOMAIN s = 1..Len(s) /\ DOMAIN Tail(s) = 1..(Len(s) - 1)
  BY <1>1
<1> DEFINE t == Tail(s)
           n == Len(s)
<1>3. DOMAIN s = 1..n /\ DOMAIN t = 1..(n - 1) /\ n \in Nat /\ n > 0
      /\ \A i \in 1..(n - 1) : t[i] = s[i + 1]
  BY <1>1, <1>2
<1> HIDE DEF t, n
<1>4. \A i, j \in 1..n : s[i] = s[j] => i = j
  BY <1>3 DEF IsInjective
<1>5. IsInjective(t)
  <2>1. ASSUME NEW i \in 1..(n - 1), NEW j \in 1..(n - 1), t[i] = t[j] PROVE i = j
    <3>1. i + 1 \in 1..n /\ j + 1 \in 1..n /\ s[i + 1] = s[j + 1]
      BY <1>3, <2>1
    <3> QED
      BY <1>4, <3>1
  <2> QED
    BY <1>3, <2>1 DEF IsInjective
<1>6. ASSUME NEW y PROVE y \in ToSet(t) <=> y \in ToSet(s) /\ y # s[1]
  <2>1. ASSUME NEW i \in 1..(n - 1) PROVE t[i] \in ToSet(s) /\ t[i] # s[1]
    <3>1. i + 1 \in 1..n /\ 1 \in 1..n /\ i + 1 # 1 /\ t[i] = s[i + 1]
      BY <1>3
    <3> QED
      BY <1>3, <1>4, <3>1 DEF ToSet
  <2>2. ASSUME NEW i \in 1..n, s[i] # s[1] PROVE s[i] \in ToSet(t)
    <3>1. i - 1 \in 1..(n - 1) /\ (i - 1) + 1 = i
      BY <1>3, <2>2
    <3>2. t[i - 1] = s[i]
      BY <1>3, <3>1
    <3> QED
      BY <1>3, <3>1, <3>2 DEF ToSet
  <2>3. y \in ToSet(t) => y \in ToSet(s) /\ y # s[1]
    BY <1>3, <2>1 DEF ToSet
  <2>4. y \in ToSet(s) /\ y # s[1] => y \in ToSet(t)
    BY <1>3, <2>2 DEF ToSet
  <2> QED
    BY <2>3, <2>4
<1>7. ToSet(t) = ToSet(s) \ {s[1]}
  BY <1>6
<1>8. s[1] \in ToSet(s)
  BY <1>3 DEF ToSet
<1> QED
  BY <1>1, <1>2, <1>5, <1>7, <1>8 DEF t
-----------------------------------------------------------------------------
(* What holds of the loaders. *)

\* The targets that rows have for a key.
TargetsOf(rs, k) == {r[2] : r \in {q \in rs : q[1] = k}}

Running == IF Idle THEN {} ELSE Parents(call.parents)

LoaderCall == [parents : Seq(Objects \cup {Nil}), rows : Seq(Keys \X Targets), related : SUBSET Targets]

\* What a list that is being filled has, and what the rows still bring it, is
\* what the statement said of it, each once.
CallIsRight ==
    ~Idle =>
        /\ call \in LoaderCall
        /\ IsInjective(call.parents) /\ IsInjective(call.rows)
        /\ kind = "ToOne" => \A r \in ToSet(call.rows) : r[1] = r[2]
        /\ kind # "ToOne" => \A o \in Parents(call.parents) : key[o] # 0 => o \notin loaded
        /\ \A o \in Parents(call.parents) \ failed :
               LET coming == TargetsOf(ToSet(call.rows), key[o]) IN
               /\ kind = "ToOne" => ToSet(truth[o]) = {key[o]} \cap (call.related \cup coming)
               /\ kind # "ToOne" => /\ ToSet(edges[o]) \cup coming = ToSet(truth[o])
                                    /\ ToSet(edges[o]) \cap coming = {}

\* An edge that was neither loaded nor Set is empty, one that was has what it
\* should, and none but a failed one has a target twice.
EdgesAreRight ==
    /\ truth \in [Objects -> Seq(Targets)] /\ \A o \in Objects : IsInjective(truth[o])
    /\ \A o \in Objects \ failed : IsInjective(edges[o])
    /\ \A o \in loaded \ (failed \cup Running) : ToSet(edges[o]) = ToSet(truth[o])
    /\ \A o \in Objects \ (loaded \cup failed \cup Running) : edges[o] = <<>>

ReturnedIsRight ==
    returned # Nil => \A o \in Parents(returned.parents) :
        IF returned.err THEN Idle /\ kind # "ToOne" /\ key[o] # 0 => o \notin loaded
        ELSE o \in loaded

LoaderInv ==
    /\ LoaderTypeOK /\ failed \subseteq Objects
    /\ CallIsRight /\ EdgesAreRight /\ ReturnedIsRight

LEMMA EmptyList ==
    ASSUME NEW S
    PROVE  <<>> \in Seq(S) /\ IsInjective(<<>>) /\ ToSet(<<>>) = {} /\ Len(<<>>) = 0
BY DEF IsInjective, ToSet

LEMMA ShortList ==
    ASSUME NEW S, NEW x \in S
    PROVE  <<x>> \in Seq(S) /\ IsInjective(<<x>>) /\ ToSet(<<x>>) = {x} /\ Len(<<x>>) = 1
BY DEF IsInjective, ToSet

LEMMA StoredRows ==
    ASSUME NEW rs \in Stored
    PROVE  /\ rs \subseteq Keys \X Targets /\ IsFiniteSet(rs)
           /\ kind = "ToOne" => \A r \in rs : r[1] = r[2]
<1>1. rs \in SUBSET (Keys \X Targets)
  BY DEF Stored
<1>2. IsFiniteSet(Keys \X Targets)
  BY EdgeLoadersAssumption, FS_Product
<1> QED
  BY <1>1, <1>2, FS_Subset DEF Stored

LEMMA ParentsAreObjects ==
    ASSUME NEW ps \in Seq(Objects \cup {Nil})
    PROVE  Parents(ps) \subseteq Objects
<1>1. \A i \in DOMAIN ps : ps[i] \in Objects \cup {Nil}
  OBVIOUS
<1> QED
  BY <1>1 DEF Parents, ToSet

\* The rows a key has, as a list.
LEMMA TargetsListed ==
    ASSUME NEW rs, rs \subseteq Keys \X Targets, IsFiniteSet(rs), NEW k
    PROVE  LET s == SetToSeq(TargetsOf(rs, k))
           IN  s \in Seq(Targets) /\ IsInjective(s) /\ ToSet(s) = TargetsOf(rs, k)
<1>1. TargetsOf(rs, k) \in SUBSET Targets
  <2>1. ASSUME NEW r \in rs PROVE r[2] \in Targets
    BY <2>1
  <2> QED
    BY <2>1 DEF TargetsOf
<1>2. IsFiniteSet(TargetsOf(rs, k))
  BY <1>1, EdgeLoadersAssumption, FS_Subset
<1>3. SetToSeq(TargetsOf(rs, k)) \in Seq(TargetsOf(rs, k))
      /\ IsInjective(SetToSeq(TargetsOf(rs, k)))
      /\ ToSet(SetToSeq(TargetsOf(rs, k))) = TargetsOf(rs, k)
  BY <1>2, SetToSeqLists
<1>4. SetToSeq(TargetsOf(rs, k)) \in Seq(Targets)
  BY <1>1, <1>3
<1> QED
  BY <1>3, <1>4

LEMMA LoaderInitInv == LoaderInit => LoaderInv
<1> SUFFICES ASSUME LoaderInit PROVE LoaderInv
  OBVIOUS
<1>1. LoaderTypeOK
  BY EmptyList DEF LoaderInit, LoaderTypeOK
<1>2. CallIsRight /\ ReturnedIsRight
  BY DEF LoaderInit, CallIsRight, ReturnedIsRight, Idle
<1>3. EdgesAreRight
  BY EmptyList DEF LoaderInit, EdgesAreRight
<1> QED
  BY <1>1, <1>2, <1>3 DEF LoaderInv, LoaderInit

\* Set puts the same into the edge and what it should hold.
LEMMA SetEdgeInv == ASSUME LoaderInv, SetEdge PROVE LoaderInv'
<1>1. PICK o \in Objects, items \in {<<>>} \cup {<<t>> : t \in Targets} :
           /\ edges' = [edges EXCEPT ![o] = items]
           /\ truth' = [truth EXCEPT ![o] = items]
           /\ loaded' = loaded \cup {o} /\ failed' = failed \ {o}
  BY DEF SetEdge
<1>2. Idle /\ Idle' /\ returned' = Nil /\ UNCHANGED <<kind, key, relation, call>>
  BY DEF SetEdge, Idle
<1>3. items \in Seq(Targets) /\ IsInjective(items) /\ Len(items) <= 1
  <2>1. CASE items = <<>>
    BY <2>1, EmptyList
  <2>2. ASSUME NEW t \in Targets, items = <<t>> PROVE items \in Seq(Targets) /\ IsInjective(items) /\ Len(items) <= 1
    BY <2>2, ShortList
  <2> QED
    BY <2>1, <2>2
<1>4. /\ key \in [Objects -> Keys \cup {0}] /\ edges \in [Objects -> Seq(Targets)]
      /\ loaded \subseteq Objects /\ failed \subseteq Objects /\ relation \in Stored
      /\ kind = "ToOne" => \A x \in Objects : Len(edges[x]) <= 1
      /\ truth \in [Objects -> Seq(Targets)] /\ \A x \in Objects : IsInjective(truth[x])
  BY DEF LoaderInv, LoaderTypeOK, EdgesAreRight
<1>5. /\ edges' \in [Objects -> Seq(Targets)] /\ truth' \in [Objects -> Seq(Targets)]
      /\ edges'[o] = items /\ truth'[o] = items
      /\ \A x \in Objects \ {o} : edges'[x] = edges[x] /\ truth'[x] = truth[x]
  BY <1>1, <1>3, <1>4
<1>6. Stored' = Stored
  BY <1>2 DEF Stored
<1>7. LoaderTypeOK'
  <2>1. kind = "ToOne" => \A x \in Objects : Len(edges'[x]) <= 1
    BY <1>3, <1>4, <1>5
  <2> QED
    BY <1>1, <1>2, <1>4, <1>5, <1>6, <2>1 DEF LoaderTypeOK
<1>8. Running = {} /\ Running' = {}
  BY <1>2 DEF Running
<1>9. EdgesAreRight'
  <2>1. \A x \in Objects : IsInjective(truth'[x])
    BY <1>3, <1>4, <1>5
  <2>2. \A x \in Objects \ failed' : IsInjective(edges'[x])
    BY <1>1, <1>3, <1>5 DEF LoaderInv, EdgesAreRight
  <2>3. \A x \in loaded' \ failed' : ToSet(edges'[x]) = ToSet(truth'[x])
    BY <1>1, <1>4, <1>5, <1>8 DEF LoaderInv, EdgesAreRight
  <2>4. \A x \in Objects \ (loaded' \cup failed') : edges'[x] = <<>>
    BY <1>1, <1>4, <1>5, <1>8 DEF LoaderInv, EdgesAreRight
  <2> QED
    BY <1>5, <1>8, <2>1, <2>2, <2>3, <2>4 DEF EdgesAreRight
<1>10. CallIsRight' /\ ReturnedIsRight'
  BY <1>2 DEF CallIsRight, ReturnedIsRight
<1> QED
  BY <1>1, <1>4, <1>7, <1>9, <1>10 DEF LoaderInv

LEMMA WriteInv == ASSUME LoaderInv, Write PROVE LoaderInv'
<1>1. /\ relation' \in Stored'
      /\ UNCHANGED <<kind, key, edges, loaded, call, returned, truth, failed>>
  BY DEF Write, Stored
<1>2. LoaderTypeOK'
  BY <1>1 DEF LoaderInv, LoaderTypeOK
<1>3. CallIsRight' /\ EdgesAreRight' /\ ReturnedIsRight'
  BY <1>1 DEF LoaderInv, CallIsRight, EdgesAreRight, ReturnedIsRight, Idle, Running, Parents
<1> QED
  BY <1>1, <1>2, <1>3 DEF LoaderInv

\* A call that failed half-way leaves no list that counts as loaded.
LEMMA FailInv == ASSUME LoaderInv, Fail PROVE LoaderInv'
<1>1. /\ ~Idle /\ call' = Nil /\ returned' = [parents |-> call.parents, err |-> TRUE]
      /\ failed' = failed \cup Parents(call.parents)
      /\ UNCHANGED <<kind, key, edges, loaded, relation, truth>>
  BY DEF Fail, Return
<1>2. Parents(call.parents) \subseteq Objects
  <2>1. call.parents \in Seq(Objects \cup {Nil})
    BY <1>1 DEF LoaderInv, CallIsRight, LoaderCall
  <2> QED
    BY <2>1, ParentsAreObjects
<1>3. LoaderTypeOK'
  <2>1. Stored' = Stored
    BY <1>1 DEF Stored
  <2> QED
    BY <1>1, <2>1 DEF LoaderInv, LoaderTypeOK
<1>4. Running' = {} /\ Running = Parents(call.parents)
  BY <1>1 DEF Running, Idle
<1>5. EdgesAreRight'
  <2>1. failed \cup Running = failed' /\ loaded \cup failed \cup Running = loaded \cup failed'
    BY <1>1, <1>4
  <2> QED
    BY <1>1, <1>4, <2>1 DEF LoaderInv, EdgesAreRight
<1>6. CallIsRight'
  BY <1>1 DEF CallIsRight, Idle
<1>7. ReturnedIsRight'
  <2>1. \A o \in Parents(call.parents) : kind # "ToOne" /\ key[o] # 0 => o \notin loaded
    BY <1>1 DEF LoaderInv, CallIsRight
  <2>2. Parents(returned'.parents) = Parents(call.parents) /\ returned'.err = TRUE
    BY <1>1
  <2> QED
    BY <1>1, <2>1, <2>2 DEF ReturnedIsRight, Parents
<1> QED
  BY <1>1, <1>2, <1>3, <1>5, <1>6, <1>7 DEF LoaderInv

\* A call that came to its end has filled the edges of its parents.
LEMMA FinishInv == ASSUME LoaderInv, Finish PROVE LoaderInv'
<1> DEFINE ps == Parents(call.parents)
<1>1. /\ ~Idle /\ call.rows = <<>> /\ call' = Nil
      /\ returned' = [parents |-> call.parents, err |-> FALSE]
      /\ failed' = failed /\ loaded' = loaded \cup ps
      /\ edges' = [o \in Objects |->
              IF kind # "ToOne" \/ o \notin ps THEN edges[o]
              ELSE IF key[o] \in call.related THEN <<key[o]>> ELSE <<>>]
      /\ UNCHANGED <<kind, key, relation, truth>>
  BY DEF Finish, Return, MarkLast
<1>2. /\ call.parents \in Seq(Objects \cup {Nil}) /\ call.related \subseteq Targets
      /\ \A o \in ps \ failed :
             /\ kind = "ToOne" => ToSet(truth[o]) = {key[o]} \cap (call.related \cup TargetsOf(ToSet(call.rows), key[o]))
             /\ kind # "ToOne" => ToSet(edges[o]) \cup TargetsOf(ToSet(call.rows), key[o]) = ToSet(truth[o])
  BY <1>1 DEF LoaderInv, CallIsRight, LoaderCall
<1>3. ps \subseteq Objects
  BY <1>2, ParentsAreObjects
<1>4. \A k : TargetsOf(ToSet(call.rows), k) = {}
  BY <1>1, EmptyList DEF TargetsOf
<1>5. Running = ps /\ Running' = {}
  BY <1>1 DEF Running, Idle
<1> HIDE DEF ps
<1>6. /\ key \in [Objects -> Keys \cup {0}] /\ edges \in [Objects -> Seq(Targets)]
      /\ loaded \subseteq Objects /\ failed \subseteq Objects /\ relation \in Stored
      /\ kind = "ToOne" => \A x \in Objects : Len(edges[x]) <= 1
      /\ truth \in [Objects -> Seq(Targets)] /\ \A x \in Objects : IsInjective(truth[x])
      /\ \A o \in Objects \ failed : IsInjective(edges[o])
      /\ \A o \in loaded \ (failed \cup ps) : ToSet(edges[o]) = ToSet(truth[o])
      /\ \A o \in Objects \ (loaded \cup failed \cup ps) : edges[o] = <<>>
  BY <1>5 DEF LoaderInv, LoaderTypeOK, EdgesAreRight
<1>7. ASSUME NEW o \in Objects, kind = "ToOne", o \in ps
      PROVE  /\ edges'[o] \in Seq(Targets) /\ IsInjective(edges'[o]) /\ Len(edges'[o]) <= 1
             /\ o \notin failed => ToSet(edges'[o]) = ToSet(truth[o])
  <2>1. CASE key[o] \in call.related
    <3>1. edges'[o] = <<key[o]>> /\ key[o] \in Targets
      BY <1>1, <1>2, <1>7, <2>1
    <3>2. o \notin failed => ToSet(truth[o]) = {key[o]}
      BY <1>2, <1>7, <2>1
    <3> QED
      BY <3>1, <3>2, ShortList
  <2>2. CASE key[o] \notin call.related
    <3>1. edges'[o] = <<>>
      BY <1>1, <1>7, <2>2
    <3>2. o \notin failed => ToSet(truth[o]) = {}
      BY <1>2, <1>4, <1>7, <2>2
    <3>3. <<>> \in Seq(Targets) /\ IsInjective(<<>>) /\ ToSet(<<>>) = {} /\ Len(<<>>) = 0
      BY EmptyList
    <3> QED
      BY <3>1, <3>2, <3>3
  <2> QED
    BY <2>1, <2>2
<1>8. ASSUME NEW o \in Objects, kind # "ToOne" \/ o \notin ps
      PROVE  /\ edges'[o] = edges[o]
             /\ o \in ps \ failed => ToSet(edges'[o]) = ToSet(truth[o])
  <2>1. edges'[o] = edges[o]
    BY <1>1, <1>8
  <2>2. o \in ps \ failed => ToSet(edges[o]) = ToSet(truth[o])
    BY <1>2, <1>4, <1>8
  <2> QED
    BY <2>1, <2>2
<1>9. LoaderTypeOK'
  <2>1. \A o \in Objects : edges'[o] \in Seq(Targets) /\ (kind = "ToOne" => Len(edges'[o]) <= 1)
    BY <1>6, <1>7, <1>8
  <2>2. edges' \in [Objects -> Seq(Targets)]
    BY <1>1, <2>1
  <2>3. Stored' = Stored
    BY <1>1 DEF Stored
  <2> QED
    BY <1>1, <1>3, <1>6, <2>1, <2>2, <2>3 DEF LoaderTypeOK
<1>10. EdgesAreRight'
  <2>1. \A o \in Objects \ failed : IsInjective(edges'[o])
    BY <1>6, <1>7, <1>8
  <2>2. ASSUME NEW o \in loaded' \ failed PROVE ToSet(edges'[o]) = ToSet(truth[o])
    <3>1. CASE o \in ps
      BY <1>1, <1>3, <1>7, <1>8, <2>2, <3>1
    <3>2. CASE o \notin ps
      BY <1>1, <1>6, <1>8, <2>2, <3>2
    <3> QED
      BY <3>1, <3>2
  <2>3. \A o \in Objects \ (loaded' \cup failed) : edges'[o] = <<>>
    BY <1>1, <1>6, <1>8
  <2> QED
    BY <1>1, <1>5, <1>6, <2>1, <2>2, <2>3 DEF EdgesAreRight
<1>11. CallIsRight'
  BY <1>1 DEF CallIsRight, Idle
<1>12. ReturnedIsRight'
  <2>1. Parents(returned'.parents) = ps /\ returned'.err = FALSE
    BY <1>1 DEF ps
  <2> QED
    BY <1>1, <2>1 DEF ReturnedIsRight, Parents
<1> QED
  BY <1>1, <1>6, <1>9, <1>10, <1>11, <1>12 DEF LoaderInv
\* A row goes to the list of each parent with its key, once to each.
LEMMA ScannedLists ==
    ASSUME NEW ps \in Seq(Objects \cup {Nil}), IsInjective(ps), NEW k, NEW o \in Objects
    PROVE  Cardinality({i \in Bucket(ps, k) : ps[i] = o})
             = IF o \in Parents(ps) /\ key[o] = k THEN 1 ELSE 0
<1> DEFINE places == {i \in Bucket(ps, k) : ps[i] = o}
<1>1. CASE o \in Parents(ps) /\ key[o] = k
  <2>1. PICK i \in DOMAIN ps : ps[i] = o
    BY <1>1 DEF Parents, ToSet
  <2>2. o # Nil
    BY EdgeLoadersAssumption
  <2>3. places = {i}
    <3>1. i \in places
      BY <1>1, <2>1, <2>2 DEF Bucket
    <3>2. \A j \in places : j = i
      BY <2>1 DEF Bucket, IsInjective
    <3> HIDE DEF places
    <3> QED
      BY <3>1, <3>2
  <2> HIDE DEF places
  <2>4. Cardinality(places) = 1
    BY <2>3, FS_Singleton
  <2> QED
    BY <1>1, <2>4 DEF places
<1>2. CASE ~ (o \in Parents(ps) /\ key[o] = k)
  <2>1. o # Nil
    BY EdgeLoadersAssumption
  <2>2. places = {}
    BY <1>2, <2>1 DEF Bucket, Parents, ToSet
  <2> HIDE DEF places
  <2>3. Cardinality(places) = 0
    BY <2>2, FS_EmptySet
  <2> QED
    BY <1>2, <2>3 DEF places
<1> QED
  BY <1>1, <1>2

\* What a row has for a key is no longer to come.
LEMMA TargetsAfterRow ==
    ASSUME NEW rs, NEW r \in rs, rs \subseteq Keys \X Targets
    PROVE  /\ TargetsOf(rs \ {r}, r[1]) = TargetsOf(rs, r[1]) \ {r[2]}
           /\ r[2] \in TargetsOf(rs, r[1])
<1>1. ASSUME NEW q \in rs, q[1] = r[1], q[2] = r[2] PROVE q = r
  <2>1. q = <<q[1], q[2]>> /\ r = <<r[1], r[2]>>
    OBVIOUS
  <2> QED
    BY <1>1, <2>1
<1>2. ASSUME NEW y
      PROVE  y \in TargetsOf(rs \ {r}, r[1]) <=> y \in TargetsOf(rs, r[1]) /\ y # r[2]
  BY <1>1 DEF TargetsOf
<1>3. r[2] \in TargetsOf(rs, r[1])
  BY DEF TargetsOf
<1> QED
  BY <1>2, <1>3

LEMMA OtherTargets ==
    ASSUME NEW rs, NEW r \in rs, NEW k, k # r[1]
    PROVE  TargetsOf(rs \ {r}, k) = TargetsOf(rs, k)
BY DEF TargetsOf

LEMMA ScanRowInv == ASSUME LoaderInv, ScanRow PROVE LoaderInv'
<1> DEFINE row == Head(call.rows)
           ps == Parents(call.parents)
           rs == ToSet(call.rows)
           times(o) == Cardinality({i \in Bucket(call.parents, row[1]) : call.parents[i] = o})
<1>1. /\ ~Idle /\ call.rows # <<>>
      /\ UNCHANGED <<kind, key, loaded, relation, returned, truth, failed>>
      /\ kind = "ToOne" => /\ call' = [call EXCEPT !.rows = Tail(@), !.related = @ \cup {row[2]}]
                           /\ UNCHANGED edges
      /\ kind # "ToOne" => /\ call' = [call EXCEPT !.rows = Tail(@)]
                           /\ edges' = [o \in Objects |-> edges[o] \o [i \in 1..times(o) |-> row[2]]]
  BY DEF ScanRow
<1>2. /\ call \in LoaderCall
      /\ call.parents \in Seq(Objects \cup {Nil}) /\ call.rows \in Seq(Keys \X Targets)
      /\ call.related \subseteq Targets
      /\ IsInjective(call.parents) /\ IsInjective(call.rows)
      /\ kind = "ToOne" => \A r \in rs : r[1] = r[2]
      /\ kind # "ToOne" => \A o \in ps : key[o] # 0 => o \notin loaded
  BY <1>1 DEF LoaderInv, CallIsRight, LoaderCall
<1>3. ASSUME NEW o \in ps \ failed
      PROVE  /\ kind = "ToOne" => ToSet(truth[o]) = {key[o]} \cap (call.related \cup TargetsOf(rs, key[o]))
             /\ kind # "ToOne" => /\ ToSet(edges[o]) \cup TargetsOf(rs, key[o]) = ToSet(truth[o])
                                  /\ ToSet(edges[o]) \cap TargetsOf(rs, key[o]) = {}
  BY <1>1 DEF LoaderInv, CallIsRight
<1>4. /\ row \in Keys \X Targets /\ row \in rs
      /\ Tail(call.rows) \in Seq(Keys \X Targets) /\ IsInjective(Tail(call.rows))
      /\ ToSet(Tail(call.rows)) = rs \ {row}
  BY <1>1, <1>2, TailWithoutHead
<1>5. rs \subseteq Keys \X Targets
  BY <1>2 DEF ToSet
<1>6. \A o \in Objects : times(o) = IF o \in ps /\ key[o] = row[1] THEN 1 ELSE 0
  BY <1>2, ScannedLists
<1>7. ps \subseteq Objects
  BY <1>2, ParentsAreObjects
<1> HIDE DEF ps, rs, row, times
<1>8. /\ call' \in LoaderCall /\ call'.parents = call.parents /\ call'.rows = Tail(call.rows)
      /\ call'.related = IF kind = "ToOne" THEN call.related \cup {row[2]} ELSE call.related
  <2>1. row[2] \in Targets
    BY <1>4
  <2>2. call.related \cup {row[2]} \in SUBSET Targets
    BY <1>2, <2>1
  <2>3. CASE kind = "ToOne"
    <3> DEFINE ts == call.related \cup {row[2]}
    <3>1. call' = [call EXCEPT !.rows = Tail(call.rows), !.related = ts] /\ ts \in SUBSET Targets
      BY <1>1, <2>2, <2>3
    <3>2. call' \in LoaderCall /\ call'.parents = call.parents
          /\ call'.rows = Tail(call.rows) /\ call'.related = ts
      <4> HIDE DEF ts
      <4> QED
        <5>1. call \in LoaderCall /\ Tail(call.rows) \in Seq(Keys \X Targets)
          BY <1>2, <1>4
        <5> QED
          BY <3>1, <5>1 DEF LoaderCall
    <3> QED
      BY <2>3, <3>2
  <2>4. CASE kind # "ToOne"
    <3>1. call' = [call EXCEPT !.rows = Tail(call.rows)]
      BY <1>1, <2>4
    <3> QED
      <4>1. call \in LoaderCall /\ Tail(call.rows) \in Seq(Keys \X Targets)
        BY <1>2, <1>4
      <4>2. call' \in LoaderCall /\ call'.parents = call.parents
            /\ call'.rows = Tail(call.rows) /\ call'.related = call.related
        BY <3>1, <4>1 DEF LoaderCall
      <4> QED
        BY <2>4, <4>2
  <2> QED
    BY <2>3, <2>4
<1>9. Idle' = FALSE
  BY <1>8, EdgeLoadersAssumption DEF Idle, LoaderCall
<1>10. /\ Parents(call'.parents) = ps /\ ToSet(call'.rows) = rs \ {row}
       /\ Running = ps /\ Running' = ps
  BY <1>1, <1>4, <1>8, <1>9 DEF Running, Idle, ps, Parents
<1>11. /\ key \in [Objects -> Keys \cup {0}] /\ edges \in [Objects -> Seq(Targets)]
       /\ loaded \subseteq Objects /\ failed \subseteq Objects /\ relation \in Stored
       /\ kind = "ToOne" => \A x \in Objects : Len(edges[x]) <= 1
       /\ truth \in [Objects -> Seq(Targets)] /\ \A x \in Objects : IsInjective(truth[x])
       /\ \A o \in Objects \ failed : IsInjective(edges[o])
       /\ \A o \in loaded \ (failed \cup ps) : ToSet(edges[o]) = ToSet(truth[o])
       /\ \A o \in Objects \ (loaded \cup failed \cup ps) : edges[o] = <<>>
  BY <1>10 DEF LoaderInv, LoaderTypeOK, EdgesAreRight
\* A list grows by the target of the row, or not at all.
<1>12. ASSUME NEW o \in Objects, kind # "ToOne", o \in ps, key[o] = row[1]
       PROVE  /\ edges'[o] \in Seq(Targets)
              /\ ToSet(edges'[o]) = ToSet(edges[o]) \cup {row[2]}
              /\ IsInjective(edges[o]) /\ row[2] \notin ToSet(edges[o]) => IsInjective(edges'[o])
  <2>1. times(o) = 1
    BY <1>6, <1>12
  <2>2. [i \in 1..times(o) |-> row[2]] = <<row[2]>>
    BY <2>1
  <2>3. edges'[o] = edges[o] \o <<row[2]>>
    BY <1>1, <1>12, <2>2
  <2>4. row[2] \in Targets /\ edges[o] \in Seq(Targets)
    BY <1>4, <1>11
  <2> QED
    BY <2>3, <2>4, AppendNew
<1>13. ASSUME NEW o \in Objects, kind = "ToOne" \/ ~ (o \in ps /\ key[o] = row[1])
       PROVE  edges'[o] = edges[o]
  <2>1. CASE kind = "ToOne"
    BY <1>1, <2>1
  <2>2. CASE kind # "ToOne"
    <3>1. times(o) = 0
      BY <1>6, <1>13, <2>2
    <3>2. [i \in 1..times(o) |-> row[2]] = <<>>
      BY <3>1
    <3>3. edges'[o] = edges[o] \o <<>> /\ edges[o] \in Seq(Targets)
      BY <1>1, <1>11, <2>2, <3>2
    <3> QED
      BY <3>3, ConcatEmptySeq
  <2> QED
    BY <2>1, <2>2
<1>14. LoaderTypeOK'
  <2>1. \A o \in Objects : edges'[o] \in Seq(Targets)
    BY <1>11, <1>12, <1>13
  <2>2. kind = "ToOne" => \A o \in Objects : Len(edges'[o]) <= 1
    BY <1>11, <1>13
  <2>3. edges' \in [Objects -> Seq(Targets)]
    <3>1. edges' = [o \in Objects |-> edges'[o]]
      BY <1>1, <1>11
    <3> QED
      BY <2>1, <3>1
  <2>4. Stored' = Stored
    BY <1>1 DEF Stored
  <2> QED
    BY <1>1, <1>11, <2>2, <2>3, <2>4 DEF LoaderTypeOK
<1>15. ASSUME NEW o \in ps \ failed
       PROVE  LET coming == TargetsOf(rs \ {row}, key[o]) IN
              /\ kind = "ToOne" => ToSet(truth[o]) = {key[o]} \cap (call'.related \cup coming)
              /\ kind # "ToOne" => /\ ToSet(edges'[o]) \cup coming = ToSet(truth[o])
                                   /\ ToSet(edges'[o]) \cap coming = {}
  <2> DEFINE coming == TargetsOf(rs, key[o])
             left == TargetsOf(rs \ {row}, key[o])
  <2>1. /\ key[o] = row[1] => left = coming \ {row[2]} /\ row[2] \in coming
        /\ key[o] # row[1] => left = coming
    <3>1. /\ TargetsOf(rs \ {row}, row[1]) = TargetsOf(rs, row[1]) \ {row[2]}
          /\ row[2] \in TargetsOf(rs, row[1])
      BY <1>4, <1>5, TargetsAfterRow
    <3>2. \A k : k # row[1] => TargetsOf(rs \ {row}, k) = TargetsOf(rs, k)
      BY <1>4, OtherTargets
    <3> QED
      BY <3>1, <3>2
  <2> HIDE DEF coming, left
  <2>2. /\ kind = "ToOne" => ToSet(truth[o]) = {key[o]} \cap (call.related \cup coming)
        /\ kind # "ToOne" => ToSet(edges[o]) \cup coming = ToSet(truth[o]) /\ ToSet(edges[o]) \cap coming = {}
    BY <1>3 DEF coming
  <2>3. o \in Objects
    BY <1>7
  <2>4. ASSUME kind = "ToOne" PROVE ToSet(truth[o]) = {key[o]} \cap (call'.related \cup left)
    <3>1. row[1] = row[2] /\ call'.related = call.related \cup {row[2]}
      BY <1>2, <1>4, <1>8, <2>4
    <3>2. CASE key[o] = row[1]
      BY <2>1, <2>2, <2>4, <3>1, <3>2
    <3>3. CASE key[o] # row[1]
      BY <2>1, <2>2, <2>4, <3>1, <3>3
    <3> QED
      BY <3>2, <3>3
  <2>5. ASSUME kind # "ToOne" PROVE ToSet(edges'[o]) \cup left = ToSet(truth[o]) /\ ToSet(edges'[o]) \cap left = {}
    <3>1. CASE key[o] = row[1]
      <4>1. ToSet(edges'[o]) = ToSet(edges[o]) \cup {row[2]}
        BY <1>12, <2>3, <2>5, <3>1
      <4> QED
        BY <2>1, <2>2, <2>5, <3>1, <4>1
    <3>2. CASE key[o] # row[1]
      <4>1. edges'[o] = edges[o]
        BY <1>13, <2>3, <3>2
      <4> QED
        BY <2>1, <2>2, <2>5, <3>2, <4>1
    <3> QED
      BY <3>1, <3>2
  <2> QED
    BY <2>4, <2>5 DEF left
<1>16. CallIsRight'
  <2>1. /\ IsInjective(call'.parents) /\ IsInjective(call'.rows)
        /\ kind = "ToOne" => \A r \in rs \ {row} : r[1] = r[2]
    BY <1>2, <1>4, <1>8
  <2>2. \A o \in ps \ failed :
            LET coming == TargetsOf(rs \ {row}, key[o]) IN
            /\ kind = "ToOne" => ToSet(truth[o]) = {key[o]} \cap (call'.related \cup coming)
            /\ kind # "ToOne" => /\ ToSet(edges'[o]) \cup coming = ToSet(truth[o])
                                 /\ ToSet(edges'[o]) \cap coming = {}
    BY <1>15
  <2> QED
    BY <1>1, <1>2, <1>8, <1>10, <2>1, <2>2 DEF CallIsRight
<1>17. EdgesAreRight'
  <2>1. ASSUME NEW o \in Objects \ failed PROVE IsInjective(edges'[o])
    <3>1. CASE kind = "ToOne" \/ ~ (o \in ps /\ key[o] = row[1])
      BY <1>11, <1>13, <3>1
    <3>2. CASE kind # "ToOne" /\ o \in ps /\ key[o] = row[1]
      <4>1. row[2] \in TargetsOf(rs, key[o])
        BY <1>4, <1>5, <3>2, TargetsAfterRow
      <4>2. row[2] \notin ToSet(edges[o])
        BY <1>3, <3>2, <4>1
      <4> QED
        BY <1>11, <1>12, <3>2, <4>2
    <3> QED
      BY <3>1, <3>2
  <2>2. \A o \in Objects \ ps : edges'[o] = edges[o]
    BY <1>13
  <2> QED
    BY <1>1, <1>10, <1>11, <2>1, <2>2 DEF EdgesAreRight
<1>18. ReturnedIsRight'
  BY <1>1, <1>9 DEF LoaderInv, ReturnedIsRight, Parents
<1> QED
  BY <1>1, <1>11, <1>14, <1>16, <1>17, <1>18 DEF LoaderInv

\* A Load up to its statement: a parent's edge was empty, and what the rows
\* bring it is what the statement says of it.
LEMMA LoadInv == ASSUME LoaderInv, Load PROVE LoaderInv'
<1> DEFINE LoadOf(ps) ==
       LET keys == {key[o] : o \in Parents(ps)} \ {0} IN
       /\ Parents(ps) \cap loaded = {}
       /\ IsInjective(ps)
       /\ loaded' = MarkFirst(ps)
       /\ edges' = [o \in Objects |->
              IF kind = "ToOne" /\ o \in Parents(ps) /\ key[o] = 0 THEN <<>> ELSE edges[o]]
       /\ truth' = [o \in Objects |->
              IF o \notin Parents(ps) THEN truth[o]
              ELSE SetToSeq({r[2] : r \in {q \in buildInQuery(keys) : q[1] = key[o]}})]
       /\ \/ keys = {} /\ Return(ps, FALSE)
          \/ keys # {} /\ "query" \in Faults /\ Return(ps, TRUE)
          \/ /\ keys # {}
             /\ \E order \in SetToSeqs(buildInQuery(keys)) :
                    call' = [parents |-> ps, rows |-> order, related |-> {}]
             /\ UNCHANGED <<returned, failed>>
<1>0. PICK n \in 1..MaxParents : \E ps \in [1..n -> Objects \cup {Nil}] : LoadOf(ps)
  BY DEF Load
<1>1. PICK ps \in [1..n -> Objects \cup {Nil}] : LoadOf(ps)
  BY <1>0
<1>2. Idle /\ UNCHANGED <<kind, key, relation>>
  BY DEF Load
<1> DEFINE P == Parents(ps)
           keys == {key[o] : o \in P} \ {0}
           rs == buildInQuery(keys)
<1>3. ps \in Seq(Objects \cup {Nil})
  BY EdgeLoadersAssumption
<1>4. P \subseteq Objects
  BY <1>3, ParentsAreObjects
<1>5. /\ rs \subseteq Keys \X Targets /\ IsFiniteSet(rs)
      /\ kind = "ToOne" => \A r \in rs : r[1] = r[2]
  <2>1. rs \subseteq relation
    BY DEF buildInQuery
  <2> HIDE DEF rs
  <2>2. /\ relation \subseteq Keys \X Targets /\ IsFiniteSet(relation)
        /\ kind = "ToOne" => \A r \in relation : r[1] = r[2]
    BY StoredRows DEF LoaderInv, LoaderTypeOK
  <2> QED
    BY <2>1, <2>2, FS_Subset
<1>6. /\ key \in [Objects -> Keys \cup {0}] /\ edges \in [Objects -> Seq(Targets)]
      /\ loaded \subseteq Objects /\ failed \subseteq Objects /\ relation \in Stored
      /\ kind = "ToOne" => \A x \in Objects : Len(edges[x]) <= 1
      /\ truth \in [Objects -> Seq(Targets)] /\ \A x \in Objects : IsInjective(truth[x])
      /\ \A o \in Objects \ failed : IsInjective(edges[o])
      /\ \A o \in loaded \ failed : ToSet(edges[o]) = ToSet(truth[o])
      /\ \A o \in Objects \ (loaded \cup failed) : edges[o] = <<>>
  BY <1>2 DEF LoaderInv, LoaderTypeOK, EdgesAreRight, Running
<1>7. ASSUME NEW o \in P
      PROVE  /\ truth'[o] \in Seq(Targets) /\ IsInjective(truth'[o])
             /\ ToSet(truth'[o]) = TargetsOf(rs, key[o])
  <2>1. truth'[o] = SetToSeq(TargetsOf(rs, key[o]))
    BY <1>1, <1>4 DEF TargetsOf
  <2> HIDE DEF rs
  <2> QED
    BY <1>5, <2>1, TargetsListed
<1>8. ASSUME NEW o \in P, key[o] = 0 PROVE TargetsOf(rs, key[o]) = {}
  BY <1>8 DEF TargetsOf, buildInQuery
<1>9. ASSUME NEW o \in P, kind = "ToOne"
      PROVE  TargetsOf(rs, key[o]) = {key[o]} \cap ({} \cup TargetsOf(rs, key[o]))
  <2>1. \A r \in rs : r[1] = r[2]
    BY <1>5, <1>9
  <2> HIDE DEF rs
  <2> QED
    BY <2>1 DEF TargetsOf
<1>10. /\ loaded' = loaded \cup (IF kind = "ToOne" THEN P ELSE {o \in P : key[o] = 0})
       /\ P \cap loaded = {} /\ IsInjective(ps)
       /\ \A o \in Objects : edges'[o] = IF kind = "ToOne" /\ o \in P /\ key[o] = 0 THEN <<>> ELSE edges[o]
       /\ \A o \in Objects \ P : truth'[o] = truth[o]
       /\ DOMAIN edges' = Objects /\ edges' = [o \in Objects |-> edges'[o]]
       /\ DOMAIN truth' = Objects /\ truth' = [o \in Objects |-> truth'[o]]
  BY <1>1 DEF MarkFirst
<1>11. \/ keys = {} /\ Return(ps, FALSE)
       \/ keys # {} /\ Return(ps, TRUE)
       \/ /\ \E order \in SetToSeqs(rs) : call' = [parents |-> ps, rows |-> order, related |-> {}]
          /\ UNCHANGED <<returned, failed>>
  BY <1>1
<1>12. keys = {} => \A o \in P : key[o] = 0
  OBVIOUS
<1> HIDE DEF P, keys, rs
<1>13. /\ <<>> \in Seq(Targets) /\ IsInjective(<<>>) /\ ToSet(<<>>) = {} /\ Len(<<>>) = 0
  BY EmptyList
<1>14. \A o \in Objects : /\ edges'[o] \in Seq(Targets)
                          /\ o \notin failed => IsInjective(edges'[o])
                          /\ kind = "ToOne" => Len(edges'[o]) <= 1
  <2> SUFFICES ASSUME NEW o \in Objects
               PROVE  /\ edges'[o] \in Seq(Targets)
                      /\ o \notin failed => IsInjective(edges'[o])
                      /\ kind = "ToOne" => Len(edges'[o]) <= 1
    OBVIOUS
  <2>1. edges'[o] = <<>> \/ edges'[o] = edges[o]
    BY <1>10
  <2>2. CASE edges'[o] = <<>>
    <3>1. 0 <= 1
      OBVIOUS
    <3> QED
      BY <1>13, <2>2, <3>1
  <2>3. CASE edges'[o] = edges[o]
    BY <1>6, <2>3
  <2> QED
    BY <2>1, <2>2, <2>3
<1>15. LoaderTypeOK'
  <2>1. Stored' = Stored
    BY <1>2 DEF Stored
  <2>2. edges' \in [Objects -> Seq(Targets)]
    BY <1>10, <1>14
  <2>3. loaded' \subseteq Objects
    BY <1>4, <1>6, <1>10
  <2> QED
    BY <1>2, <1>6, <1>14, <2>1, <2>2, <2>3 DEF LoaderTypeOK
\* A parent is empty before, and not changed unless it is a to-one edge of no key.
<1>16. ASSUME NEW o \in P \ failed
       PROVE  edges'[o] = <<>>
  BY <1>4, <1>6, <1>10, <1>16
<1>17. truth' \in [Objects -> Seq(Targets)] /\ \A o \in Objects : IsInjective(truth'[o])
  <2>1. \A o \in Objects : truth'[o] \in Seq(Targets) /\ IsInjective(truth'[o])
    BY <1>4, <1>6, <1>7, <1>10
  <2> QED
    BY <1>10, <2>1
<1>18. ASSUME failed' \in SUBSET Objects, failed \subseteq failed', Running' \subseteq P,
              \A o \in P \ (failed' \cup Running') : key[o] = 0
       PROVE  EdgesAreRight'
  <2>1. \A o \in Objects \ failed' : IsInjective(edges'[o])
    BY <1>14, <1>18
  <2>2. ASSUME NEW o \in loaded' \ (failed' \cup Running') PROVE ToSet(edges'[o]) = ToSet(truth'[o])
    <3>1. CASE o \in P
      BY <1>7, <1>8, <1>13, <1>16, <1>18, <2>2, <3>1
    <3>2. CASE o \notin P
      <4>1. o \in loaded \ failed /\ o \in Objects
        BY <1>6, <1>10, <1>18, <2>2, <3>2
      <4> QED
        BY <1>6, <1>10, <3>2, <4>1
    <3> QED
      BY <3>1, <3>2
  <2>3. ASSUME NEW o \in Objects \ (loaded' \cup failed' \cup Running') PROVE edges'[o] = <<>>
    BY <1>6, <1>10, <1>18, <2>3
  <2> QED
    BY <1>17, <2>1, <2>2, <2>3 DEF EdgesAreRight
<1>19. ASSUME NEW err \in BOOLEAN, Return(ps, err), ~err => \A o \in P : key[o] = 0
       PROVE  LoaderInv'
  <2>1. /\ Idle' = TRUE /\ returned' = [parents |-> ps, err |-> err]
        /\ failed' = IF err THEN failed \cup P ELSE failed
    BY <1>19 DEF Return, Idle, P
  <2>2. failed' \subseteq Objects /\ failed \subseteq failed' /\ Running' = {}
    BY <1>4, <1>6, <2>1 DEF Running
  <2>3. EdgesAreRight'
    BY <1>18, <1>19, <2>1, <2>2
  <2>4. CallIsRight'
    BY <2>1 DEF CallIsRight
  <2>5. ReturnedIsRight'
    <3>1. returned'.parents = ps /\ returned'.err = err
      BY <2>1
    <3>2. CASE err = TRUE
      <4>1. \A o \in P : kind # "ToOne" /\ key[o] # 0 => o \notin loaded'
        BY <1>10
      <4> QED
        BY <1>2, <3>1, <3>2, <4>1 DEF ReturnedIsRight, P, Parents
    <3>3. CASE err = FALSE
      <4>1. \A o \in P : o \in loaded'
        BY <1>10, <1>19, <3>3
      <4> QED
        BY <1>2, <3>1, <3>3, <4>1 DEF ReturnedIsRight, P, Parents
    <3> QED
      BY <3>2, <3>3
  <2> QED
    BY <1>15, <2>2, <2>3, <2>4, <2>5 DEF LoaderInv
<1>20. ASSUME NEW order \in SetToSeqs(rs), call' = [parents |-> ps, rows |-> order, related |-> {}],
              UNCHANGED <<returned, failed>>
       PROVE  LoaderInv'
  <2>1. order \in Seq(rs) /\ IsInjective(order) /\ ToSet(order) = rs
    BY <1>5, SetToSeqsList
  <2>2. order \in Seq(Keys \X Targets)
    BY <1>5, <2>1
  <2>3. /\ call' \in LoaderCall /\ call'.parents = ps /\ call'.rows = order /\ call'.related = {}
    BY <1>3, <1>20, <2>2 DEF LoaderCall
  <2>4. Idle' = FALSE
    BY <2>3, EdgeLoadersAssumption DEF Idle, LoaderCall
  <2>5. Parents(call'.parents) = P /\ Running' = P
    BY <2>3, <2>4 DEF Running, P, Parents
  <2>6. EdgesAreRight'
    BY <1>4, <1>6, <1>18, <1>20, <2>5
  <2>7. ASSUME NEW o \in P \ failed
        PROVE  LET coming == TargetsOf(rs, key[o]) IN
               /\ kind = "ToOne" => ToSet(truth'[o]) = {key[o]} \cap ({} \cup coming)
               /\ kind # "ToOne" => /\ ToSet(edges'[o]) \cup coming = ToSet(truth'[o])
                                    /\ ToSet(edges'[o]) \cap coming = {}
    <3>1. ToSet(truth'[o]) = TargetsOf(rs, key[o]) /\ edges'[o] = <<>>
      BY <1>7, <1>16
    <3>2. kind = "ToOne" => TargetsOf(rs, key[o]) = {key[o]} \cap ({} \cup TargetsOf(rs, key[o]))
      BY <1>9
    <3> QED
      BY <1>13, <3>1, <3>2
  <2>8. kind # "ToOne" => \A o \in P : key[o] # 0 => o \notin loaded'
    BY <1>10
  <2>9. CallIsRight'
    BY <1>2, <1>5, <1>10, <1>20, <2>1, <2>3, <2>4, <2>5, <2>7, <2>8 DEF CallIsRight
  <2>10. ReturnedIsRight'
    <3>1. \A o \in loaded : o \in loaded'
      BY <1>10
    <3> QED
      BY <1>2, <1>20, <2>4, <3>1 DEF LoaderInv, ReturnedIsRight, Parents
  <2> QED
    BY <1>6, <1>15, <1>20, <2>6, <2>9, <2>10 DEF LoaderInv
<1> QED
  BY <1>11, <1>12, <1>19, <1>20

\* What holds of the loaders gives the property.
LEMMA LoaderInvIsRight == LoaderInv => LoaderTypeOK /\ LoadedIsRight
<1> SUFFICES ASSUME LoaderInv PROVE LoadedIsRight
  BY DEF LoaderInv
<1>1. ASSUME Idle, NEW o \in loaded \ failed
      PROVE  ToSet(edges[o]) = ToSet(truth[o]) /\ Len(edges[o]) = Len(truth[o])
  <2>1. o \in Objects /\ Running = {}
    BY <1>1 DEF LoaderInv, LoaderTypeOK, Running
  <2>2. ToSet(edges[o]) = ToSet(truth[o])
    BY <1>1, <2>1 DEF LoaderInv, EdgesAreRight
  <2>3. /\ edges[o] \in Seq(Targets) /\ truth[o] \in Seq(Targets)
        /\ IsInjective(edges[o]) /\ IsInjective(truth[o])
    BY <1>1, <2>1 DEF LoaderInv, LoaderTypeOK, EdgesAreRight
  <2> QED
    BY <2>2, <2>3, SameLength
<1> QED
  BY <1>1 DEF LoaderInv, ReturnedIsRight, LoadedIsRight

\* An edge that EdgeLoaded answers for holds each row once that its statement
\* returned, or what was Set, whatever loads ran before it, in whatever order
\* the rows came, unless one of them failed; a Load without an error has loaded
\* every parent, and one with an error marks no list (generator/orm.go
\* emitToOneLoader, emitToManyLoader, emitManyToManyLoader).
THEOREM LoadedIsRightAlways == LoaderSpec => []LoaderTypeOK /\ []LoadedIsRight
<1>1. LoaderInit => LoaderInv
  BY LoaderInitInv
<1>2. LoaderInv /\ [LoaderNext]_loaderVars => LoaderInv'
  <2> SUFFICES ASSUME LoaderInv, [LoaderNext]_loaderVars PROVE LoaderInv'
    OBVIOUS
  <2>1. CASE Load
    BY <2>1, LoadInv
  <2>2. CASE ScanRow
    BY <2>2, ScanRowInv
  <2>3. CASE Fail
    BY <2>3, FailInv
  <2>4. CASE Finish
    BY <2>4, FinishInv
  <2>5. CASE SetEdge
    BY <2>5, SetEdgeInv
  <2>6. CASE Write
    BY <2>6, WriteInv
  <2>7. CASE UNCHANGED loaderVars
    BY <2>7 DEF loaderVars, LoaderInv, LoaderTypeOK, Stored, CallIsRight, EdgesAreRight,
                ReturnedIsRight, Idle, Running, Parents
  <2> QED
    BY <2>1, <2>2, <2>3, <2>4, <2>5, <2>6, <2>7 DEF LoaderNext
<1>3. LoaderInv => LoaderTypeOK /\ LoadedIsRight
  BY LoaderInvIsRight
<1> QED
  BY <1>1, <1>2, <1>3, PTL DEF LoaderSpec

-----------------------------------------------------------------------------
(* The parts side by side. *)

\* A behaviour of the client is one of each part.
LEMMA PartsOfClient == Spec => CodeSpec /\ LoaderSpec /\ QuerySpec /\ WalkSpec
<1> DEFINE vars == <<part, codeVars, loaderVars, queryVars, walkVars>>
<1>1. Init => CodeInit /\ LoaderInit /\ QueryInit /\ WalkInit
  BY DEF Init
<1>2. [Next]_vars => [CodeNext]_codeVars
  BY DEF Next
<1>3. [Next]_vars => [LoaderNext]_loaderVars
  BY DEF Next
<1>4. [Next]_vars => [QueryNext]_queryVars
  BY DEF Next
<1>5. [Next]_vars => [WalkNext]_walkVars
  BY DEF Next
<1> QED
  BY <1>1, <1>2, <1>3, <1>4, <1>5, PTL DEF Spec, CodeSpec, LoaderSpec, QuerySpec, WalkSpec

\* The tables, the structs, the calls and the pages of the client are well
\* formed whatever is called.
THEOREM ClientTypeOK == Spec => []TypeOK
<1>1. CodeTypeOK /\ LoaderTypeOK /\ QueryTypeOK /\ WalkTypeOK => TypeOK
  BY DEF TypeOK
<1> QED
  BY <1>1, PartsOfClient, ValuesRoundTripAlways, LoadedIsRightAlways, AnswersAsAskedAlways,
     WalkIsCompleteAlways, PTL
=============================================================================
