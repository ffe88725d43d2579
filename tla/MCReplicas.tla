----------------------------- MODULE MCReplicas -----------------------------
(* The values of the Replicas run. *)
EXTENDS Replicas, TLC

CONSTANTS r1, r2
TwoReads == {r1, r2}
MCSymmetry == Permutations(TwoReads)

\* The first replica must be read-only, the second must not lag by two.
MCConfig == <<[readOnly |-> TRUE, maxLag |-> 0], [readOnly |-> FALSE, maxLag |-> 1]>>

Loose == [maxLag |-> -1, readOnly |-> FALSE, noFallback |-> FALSE]
Strict == [maxLag |-> 1, readOnly |-> TRUE, noFallback |-> TRUE]

Plain == [primary |-> FALSE, opts |-> None, policy |-> None]
MCContexts == {Plain, [Plain EXCEPT !.primary = TRUE], [Plain EXCEPT !.opts = Loose],
               [Plain EXCEPT !.policy = "strict"]}
MCRoutings == {[default |-> "loose", policies |-> "loose" :> Loose],
               [default |-> "strict", policies |-> "strict" :> Strict]}
Fit == [readOnly |-> TRUE, lag |-> 0]
MCReports == {Fit, [Fit EXCEPT !.lag = 2], [Fit EXCEPT !.readOnly = FALSE]}
=============================================================================
