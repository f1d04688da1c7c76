--------------------------- MODULE MCDevelopmentRun -------------------------
(* Small instances of DevelopmentRun: runs that share one repository. *)
EXTENDS DevelopmentRun, TLC

CONSTANTS a, b, shared

TwoRuns == {a, b}
OneRepo == {shared}
AllShare == (a :> shared) @@ (b :> shared)
=============================================================================
