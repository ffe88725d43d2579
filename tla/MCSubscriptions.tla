-------------------------- MODULE MCSubscriptions --------------------------
(* The actors of the Subscriptions runs, interchangeable in the safety run.  *)
EXTENDS Subscriptions, TLC

CONSTANTS p1, p2, c1, c2
MCPublishers == {p1, p2}
MCSubscribers == {c1, c2}
OneSubscriber == {c1}
MCSymmetry == Permutations(MCPublishers) \cup Permutations(MCSubscribers)
=============================================================================
