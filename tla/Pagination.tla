----------------------------- MODULE Pagination -----------------------------
(***************************************************************************)
(* Walking a connection page by page while the table changes               *)
(* (graphql/resolvers/entities_gen.go Users, query.resolvers.go cursors,   *)
(* orm/gen/client_gen.go List and Count).                                  *)
(*                                                                         *)
(* A cursor is the position of an edge.  Users counts the table, lists a   *)
(* page by LIMIT and OFFSET over the primary key, and says whether there   *)
(* is more; the client follows end cursors while there is.                 *)
(***************************************************************************)
EXTENDS Integers, Sequences, FiniteSets, Functions

CONSTANTS
    N,              \* ids are 1..N, which rows take in any order
    Sizes,          \* what the client passes as first
    DefaultSize,
    Afters,         \* what the client begins with: no cursor of an edge
    MaxChanges,     \* bound: changes of the table
    Omitted, Garbage    \* no argument, a cursor that does not decode

UserIds == 1..N

ASSUME PaginationAssumption ==
    /\ N \in Nat /\ DefaultSize \in Nat \ {0}
    /\ Sizes \ {Omitted} \subseteq Int
    /\ Afters \subseteq {Omitted, Garbage}
    /\ \A p \in 0..N : [position |-> p] \notin {Omitted, Garbage}

VARIABLES
    users,      \* the table
    changes,
    pc,         \* "ask", "list" or "done"
    size, after,
    total,      \* what Count returned
    info,       \* pageInfo of the last page
    seen,       \* the ids the client has got, in order
    kept,       \* ids in the table since the walk began
    deleted,    \* whether a row was deleted since the walk began
    crossed,    \* whether one was inserted before a row the client had got
    late        \* whether one was inserted since Count, before a kept one

history == <<kept, deleted, crossed, late>>
walkVars == <<users, changes, pc, size, after, total, info, seen, history>>

WalkTypeOK ==
    /\ users \subseteq UserIds /\ kept \subseteq users
    /\ pc \in {"ask", "list", "done"}
    /\ after \in {Omitted, Garbage} \cup [position: 0..N]
    /\ total \in 0..N
    /\ seen \in Seq(UserIds) /\ {deleted, crossed, late} \subseteq BOOLEAN

WalkInit ==
    /\ users \in SUBSET UserIds
    /\ changes = 0
    /\ pc = "ask"
    /\ size \in Sizes
    /\ after \in Afters
    /\ total = 0
    /\ info = [hasNext |-> TRUE, hasPrevious |-> FALSE, start |-> Omitted, end |-> Omitted]
    /\ seen = <<>>
    /\ kept = users /\ deleted = FALSE /\ crossed = FALSE /\ late = FALSE

-----------------------------------------------------------------------------
(* Definitions named *Faulty* are not the code: each is a plausible bug in *)
(* the definition after it.                                                *)

encodeCursor(position) == [position |-> position]

\* A first that is missing or not positive is the default page size.
PageSize == IF size = Omitted \/ size <= 0 THEN DefaultSize ELSE size

OffsetSkipsFaulty == IF after \in {Omitted, Garbage} THEN 0 ELSE after.position + 2
\* After a cursor, the next position; a cursor that does not decode is
\* ignored.
pageOffset == IF after \in {Omitted, Garbage} THEN 0 ELSE after.position + 1

\* The rows that come before i.
Rank(rows, i) == Cardinality({j \in rows : j < i})

\* LIMIT and OFFSET, in the order of the ids.
Listed(limit, offset) ==
    LET rest == Cardinality(users) - offset
    IN  [k \in 1..(IF limit < rest THEN limit ELSE rest) |->
            CHOOSE i \in users : Rank(users, i) = offset + k - 1]

CountUsers ==
    /\ pc = "ask"
    /\ total' = Cardinality(users)
    /\ pc' = "list"
    /\ late' = FALSE
    /\ UNCHANGED <<users, changes, size, after, info, seen, kept, deleted, crossed>>

PageInfo(page) ==
    [hasNext |-> pageOffset + Len(page) < total, hasPrevious |-> pageOffset > 0,
     start |-> IF page = <<>> THEN Omitted ELSE encodeCursor(pageOffset),
     end |-> IF page = <<>> THEN Omitted ELSE encodeCursor(pageOffset + Len(page) - 1)]

\* The page, and what the client does with it: it goes on from the end
\* cursor, or stops.
ListUsers ==
    /\ pc = "list"
    /\ LET page == Listed(PageSize, pageOffset) IN
       /\ seen' = seen \o page
       /\ info' = PageInfo(page)
       /\ after' = IF info'.end = Omitted THEN after ELSE info'.end
       /\ pc' = IF info'.hasNext /\ info'.end # Omitted THEN "ask" ELSE "done"
    /\ UNCHANGED <<users, changes, size, total, history>>

\* Other requests insert and delete rows meanwhile.  A row may come anywhere:
\* CreateUser takes an id of its caller's, and Create draws one before it
\* validates and inserts, so that rows commit out of the order of their ids.
InsertUser(i) ==
    /\ pc # "done" /\ changes < MaxChanges
    /\ i \notin users
    /\ users' = users \cup {i}
    /\ changes' = changes + 1
    /\ crossed' = (crossed \/ \E k \in DOMAIN seen : i <= seen[k])
    /\ late' = (late \/ (pc = "list" /\ \E j \in kept : i < j))
    /\ UNCHANGED <<pc, size, after, total, info, seen, kept, deleted>>

DeleteUser(i) ==
    /\ pc # "done" /\ changes < MaxChanges
    /\ i \in users
    /\ users' = users \ {i} /\ kept' = kept \ {i}
    /\ deleted' = TRUE
    /\ changes' = changes + 1
    /\ UNCHANGED <<pc, size, after, total, info, seen, crossed, late>>

Quiet == pc = "done" /\ UNCHANGED walkVars

WalkNext == CountUsers \/ ListUsers \/ Quiet \/ \E i \in UserIds : InsertUser(i) \/ DeleteUser(i)

WalkSpec == WalkInit /\ [][WalkNext]_walkVars

-----------------------------------------------------------------------------
(* Properties. *)

\* A client gets a row twice only if one was inserted before a row it had got.
\* One that walks to the end while none is deleted gets every row that was there
\* all along, although Count and List look at the table at different times, unless
\* between the last two a row was inserted before one of them; and a page that
\* announces a next one has the cursor it is found by.
WalkIsComplete ==
    /\ ~crossed => IsInjective(seen)
    /\ ~deleted => /\ pc = "done" /\ ~late => kept \subseteq Range(seen)
                   /\ info.hasNext /\ seen # <<>> => info.end # Omitted
=============================================================================
