------------------------------ MODULE MCRecovery ----------------------------
(***************************************************************************)
(* Small instances of Supervision and Snapshots, side by side: a run with  *)
(* two packages and two threads of requests that overlap; and the storage  *)
(* of a lock, its workspace, a watchdog and the slots.                     *)
(***************************************************************************)
EXTENDS Supervision, Snapshots, TLC

CONSTANTS r1, r2, run1, run2, lock, workspace, watchdog, slots

TwoRequests == {r1, r2}

TwoThreads == {run1, run2}
FourObjects == {lock, workspace, watchdog, slots}
ByRegistry == {{lock, workspace}, {watchdog}, {slots}}
OwnAndShared == (lock :> {run1}) @@ (workspace :> {run1})
                  @@ (watchdog :> {run1, run2}) @@ (slots :> {run1, run2})

VARIABLE instance

MCInit == instance \in {"run", "storage"} /\ Init /\ StorageInit

\* Bound: the more has gone wrong and was asked for, the less is left of the plan.
MCBound == mishaps' + calls' + task' <= 5

MCNext ==
  \/ instance = "run" /\ Next /\ MCBound /\ UNCHANGED <<storageVars, instance>>
  \/ instance = "storage" /\ StorageNext /\ UNCHANGED <<vars, instance>>

MCSpec == MCInit /\ [][MCNext]_<<vars, storageVars, instance>>

Symmetry == Permutations(TwoRequests) \cup Permutations({lock, workspace})
=============================================================================
