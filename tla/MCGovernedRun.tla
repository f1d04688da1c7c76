---------------------------- MODULE MCGovernedRun ---------------------------
(* Small instances of GovernedRun.                                         *)
EXTENDS GovernedRun

OfKilo(e, d, a, r, c) ==
    [enabled |-> e, dryRun |-> d, allowed |-> a, root |-> r, cli |-> c]

\* Off, a dry run, a repository that is not allowed, no workspace root, no
\* command line, and real executions.
AllSettings ==
    {OfKilo(FALSE, TRUE, FALSE, FALSE, FALSE), OfKilo(TRUE, TRUE, TRUE, TRUE, TRUE),
     OfKilo(TRUE, FALSE, FALSE, TRUE, TRUE), OfKilo(TRUE, FALSE, TRUE, FALSE, TRUE),
     OfKilo(TRUE, FALSE, TRUE, TRUE, FALSE), OfKilo(TRUE, FALSE, TRUE, TRUE, TRUE)}

\* A new project, and one with QA issues of earlier runs.
TwoHistories ==
    {[new |-> TRUE, issues |-> 0, reviews |-> 0], [new |-> FALSE, issues |-> 1, reviews |-> 1]}

\* Around the thresholds of a small and of a large diff.
FileCounts == {1, 5, 8}
=============================================================================
