--------------------------- MODULE MCQueueAndLocks --------------------------
(***************************************************************************)
(* A run alone with its queue, and items that share their repositories:    *)
(* one per initial value of instance, of which only the variables move.    *)
(***************************************************************************)
EXTENDS MCTaskQueue, MCResourceLocks

VARIABLE instance

MCInit == instance \in {"queue", "locks"} /\ Init /\ LocksInit

MCNext ==
  /\ UNCHANGED instance
  /\ \/ instance = "queue" /\ Next /\ UNCHANGED lockVars
     \/ instance = "locks" /\ LocksNext /\ UNCHANGED vars

\* The fairness of FairSpec and of FairLocksSpec, where their steps are taken.
Fairness ==
  /\ WF_vars(instance = "queue" /\ Forward)
  /\ \A i \in Items : WF_lockVars(instance = "locks" /\ Step(i))

MCSpec == MCInit /\ [][MCNext]_<<vars, lockVars, instance>> /\ Fairness

\* The run's thread reaches its end from every plan (RunEnds).
QueueRunEnds == instance = "queue" => RunEnds
=============================================================================
