--------------------------- MODULE MCEntityCache ----------------------------
(* Two requests, with four calls between them on one row, or two calls on   *)
(* two rows: scope holds the rows of a behaviour.  The fourth call is none  *)
(* of the bulk forms.                                                       *)
EXTENDS EntityCache, TLC

CONSTANTS q1, q2, i1, i2

MCRequests == {q1, q2}
MCIds == {i1, i2}
Interchangeable == Permutations(MCRequests) \cup Permutations(MCIds)

VARIABLE scope

AllCalls(c) == c[q1] + c[q2]

MCInit ==
    /\ scope \in SUBSET Ids \ {{}}
    /\ Init
    /\ \A i \in Ids \ scope : row[i] = 0
MCNext ==
    /\ Next
    /\ \A r \in Requests : op'[r].ids \subseteq scope
    /\ AllCalls(calls') <= (IF scope = Ids THEN 2 ELSE 4)
    /\ \A r \in Requests : op'[r] # op[r] /\ op'[r].kind \in Bulk => AllCalls(calls') <= 3
    /\ UNCHANGED scope
MCSpec == MCInit /\ [][MCNext]_<<vars, scope>>
=============================================================================
