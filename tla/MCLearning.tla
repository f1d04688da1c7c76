----------------------------- MODULE MCLearning -----------------------------
(***************************************************************************)
(* A small instance of Learning: a project that is analysed when its run   *)
(* ends and by a route, and two clients that answer recommendations.       *)
(***************************************************************************)
EXTENDS Learning, TLC

CONSTANTS A, f1, f2

OneRun == {A}
TwoClients == {f1, f2}

\* Beside the QA issues: nothing, or two results that wait for a review.
Reviewed == [retries |-> 0, expensive |-> FALSE, slow |-> FALSE, reviews |-> 2, dead |-> 0,
             prompts |-> 0, recoveries |-> 0, strategies |-> 0]
CalmOrReviewed == {Reviewed, [Reviewed EXCEPT !.reviews = 0]}

ClientSymmetry == Permutations(TwoClients)
=============================================================================
