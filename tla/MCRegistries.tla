----------------------------- MODULE MCRegistries ---------------------------
(***************************************************************************)
(* Small instances of the registries as several threads see them, one per  *)
(* initial value of instance: a run's queue with two API readers; slots of *)
(* three roles and two models, one or two of each, for three threads; two  *)
(* callers that promote versions of a prompt; a project that is analysed   *)
(* while two clients answer (MCLearning).                                  *)
(***************************************************************************)
EXTENDS TaskQueue, CapabilitySlots, PromptPromotion, MCLearning

CONSTANTS r1, r2, t1, t2, t3, DEV, QA, lite
CONSTANTS c1, c2, V1, V2

TwoReaders == {r1, r2}
ThreeThreads == {t1, t2, t3}
TwoRoles == {DEV, QA}
OneModel == {lite}
SharedModel == (DEV :> lite) @@ (QA :> lite)
OneOrTwoSlots == [c \in Capacities |-> IF c \in {QA, lite} THEN 2 ELSE 1]

TwoCallers == {c1, c2}
TwoVersions == {V1, V2}

VARIABLE instance

\* What five cases come to: all pass, at once, slowly or with a fallback; one
\* output lacks a keyword; two are invalid; the provider raises.
Clean == [raised |-> FALSE, short |-> FALSE, invalid |-> FALSE, missing |-> FALSE,
          wordless |-> FALSE, fallback |-> FALSE]
Outcome(n, case, latency) ==
  [cases |-> [i \in 1..5 |-> IF i <= n THEN case ELSE Clean], latency |-> latency]
SomeResults ==
  {Outcome(0, Clean, 100), Outcome(0, Clean, 400), Outcome(1, [Clean EXCEPT !.fallback = TRUE], 100),
   Outcome(1, [Clean EXCEPT !.wordless = TRUE], 100),
   Outcome(2, [Clean EXCEPT !.invalid = TRUE, !.short = TRUE], 100),
   Outcome(5, [Clean EXCEPT !.raised = TRUE], 0)}

MCInit ==
  /\ instance \in {"readers", "requesting", "promoting", "analysing"}
  /\ Init /\ SlotsInit /\ PromotionInit /\ LearningInit
  /\ instance # "analysing" => \A a \in Runs : progress[a].packages = 1

\* Of the four groups of variables only that of the instance changes.
MCNext ==
  /\ UNCHANGED instance
  /\ \/ /\ instance = "readers" /\ Next
        /\ UNCHANGED <<slotVars, promotionVars, learningVars>>
     \/ /\ instance = "requesting" /\ SlotsNext
        /\ UNCHANGED <<vars, promotionVars, learningVars>>
     \/ /\ instance = "promoting" /\ PromotionNext
        /\ UNCHANGED <<vars, slotVars, learningVars>>
     \/ /\ instance = "analysing" /\ LearningNext
        /\ UNCHANGED <<vars, slotVars, promotionVars>>

MCSpec == MCInit /\ [][MCNext]_<<vars, slotVars, promotionVars, learningVars, instance>>
=============================================================================
