--------------------------- MODULE SequentialPlan ---------------------------
(***************************************************************************)
(* What the task queue promises a run: the packages of a plan are worked   *)
(* on one at a time, each only after the packages it depends on, each      *)
(* exactly once, and the run is closed only when all of them are done.     *)
(***************************************************************************)
EXTENDS Integers

CONSTANTS Task, NoTask

VARIABLES
  planned,   \* the packages in the plan
  needs,     \* the packages each of them depends on
  active,    \* the package being worked on, or NoTask
  done,      \* the packages that are finished
  closed     \* the run is over

planVars == <<planned, needs, active, done, closed>>

Init ==
  /\ planned = {}
  /\ needs = [t \in Task |-> {}]
  /\ active = NoTask
  /\ done = {}
  /\ closed = FALSE

Plan(t, d) ==
  /\ active = NoTask /\ done = {} /\ ~closed
  /\ t \notin planned /\ d \subseteq planned
  /\ planned' = planned \cup {t}
  /\ needs' = [needs EXCEPT ![t] = d]
  /\ UNCHANGED <<active, done, closed>>

Begin(t) ==
  /\ active = NoTask /\ ~closed
  /\ t \in planned \ done
  /\ needs[t] \subseteq done
  /\ active' = t
  /\ UNCHANGED <<planned, needs, done, closed>>

Finish ==
  /\ active # NoTask
  /\ done' = done \cup {active}
  /\ active' = NoTask
  /\ UNCHANGED <<planned, needs, closed>>

Close ==
  /\ active = NoTask
  /\ done = planned
  /\ closed' = TRUE
  /\ UNCHANGED <<planned, needs, active, done>>

Next ==
  \/ \E t \in Task, d \in SUBSET Task : Plan(t, d)
  \/ \E t \in Task : Begin(t)
  \/ Finish
  \/ Close

Spec == Init /\ [][Next]_planVars
=============================================================================
