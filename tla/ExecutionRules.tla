---------------------------- MODULE ExecutionRules --------------------------
(***************************************************************************)
(* The rules a run is governed by: which decision a signal asks for        *)
(* (packages/intelligence), which changes of the plan (packages/planning), *)
(* which strategy a step gets (packages/strategy), how far a budget is     *)
(* used (packages/economics) and whether Kilo may run its command line     *)
(* (packages/kilo-adapter).                                                *)
(***************************************************************************)
EXTENDS Integers, Sequences, FiniteSets

\* The value of the first rule of a list of <<condition, value>> that holds.
FirstOf(rules) ==
  rules[CHOOSE i \in DOMAIN rules : /\ rules[i][1]
                                    /\ \A j \in 1..(i - 1) : ~ rules[j][1]][2]

LargeDiff == 8

-----------------------------------------------------------------------------
(* A signal, as build_execution_context and build_adaptive_planning_context *)
(* pass it on.                                                              *)
NoSignal ==
  [missing |-> FALSE, tooLarge |-> FALSE, dead |-> FALSE, stuck |-> FALSE,
   retry |-> 0, max |-> 1, qaFailed |-> FALSE, failedValidation |-> FALSE,
   kiloFailed |-> FALSE, files |-> 0, confident |-> TRUE, touched |-> FALSE,
   autonomy |-> "MANUAL", qaFails |-> 0, inconsistent |-> FALSE,
   dependencyBlocked |-> FALSE, blocked |-> {}, size |-> 0]

DecisionType ==
  {"REQUEST_MORE_CONTEXT", "SPLIT_TASK", "STOP", "REQUEUE", "ESCALATE_REVIEW",
   "RETRY", "CONTINUE", "DISCARD_CHANGES"}

ResolveDecision(c) ==
  FirstOf(<< <<c.missing, "REQUEST_MORE_CONTEXT">>,
             <<c.tooLarge, "SPLIT_TASK">>,
             <<c.dead \/ c.retry >= c.max, "STOP">>,
             <<c.stuck, "REQUEUE">>,
             <<c.qaFailed /\ c.retry > 0, "ESCALATE_REVIEW">>,
             <<c.qaFailed \/ c.failedValidation \/ c.kiloFailed, "RETRY">>,
             <<c.files >= LargeDiff \/ ~ c.confident, "ESCALATE_REVIEW">>,
             <<TRUE, "CONTINUE">> >>)

ShouldRequireHumanReview(c, type) ==
  \/ type \in {"ESCALATE_REVIEW", "SPLIT_TASK", "STOP", "DISCARD_CHANGES"}
  \/ ~ c.confident
  \/ c.autonomy = "MANUAL" /\ type # "CONTINUE"
  \/ c.autonomy = "ASSISTED" /\ type \in {"RETRY", "REQUEUE"}
  \/ c.autonomy = "SUPERVISED" /\ c.touched /\ type \in {"RETRY", "REQUEUE"}

CanApplyDecision(c, type) ==
  \/ c.autonomy = "ASSISTED" /\ type = "CONTINUE"
  \/ c.autonomy = "SUPERVISED" /\ type \in {"CONTINUE", "RETRY", "REQUEUE"} /\ ~ c.touched
  \/ /\ c.autonomy = "AUTONOMOUS" /\ ~ c.touched
     /\ type \in {"CONTINUE", "RETRY", "REQUEUE", "REQUEST_MORE_CONTEXT"}

-----------------------------------------------------------------------------
Oversized == 12

\* Wrong: the last retry is still to come.
MutationsAfterLastRetry(c) ==
  {m \in {"INSERT_QA", "ESCALATE_TASK", "SPLIT_TASK"} :
     \/ m = "INSERT_QA" /\ (c.failedValidation \/ c.inconsistent)
     \/ m = "ESCALATE_TASK" /\ (c.retry > c.max \/ c.dead)
     \/ m = "SPLIT_TASK" /\ (c.files >= LargeDiff \/ c.size >= Oversized)}

\* Without repetitions: an oversized package with a large diff is split once,
\* but its halves are proposed twice.
Mutations(c) ==
  LET asked == [REGENERATE_PROMPT   |-> c.missing,
                INSERT_QA           |-> c.failedValidation \/ c.inconsistent,
                INSERT_REVIEW       |-> c.qaFails >= 2,
                ESCALATE_TASK       |-> c.retry >= c.max \/ c.dead,
                REQUEUE_TASK        |-> c.dependencyBlocked,
                REPLAN_DEPENDENCIES |-> c.dependencyBlocked /\ c.blocked # {},
                SPLIT_TASK          |-> c.files >= LargeDiff \/ c.size >= Oversized]
  IN  {m \in DOMAIN asked : asked[m]}

RequiresHumanReview(mutation) ==
  mutation \in {"SPLIT_TASK", "REPLAN_DEPENDENCIES", "ESCALATE_TASK"}

-----------------------------------------------------------------------------
(* Budgets.  Of the three limits (calls, tokens, cost) one stands for all;  *)
(* a limit of 0 limits nothing.                                             *)
CostStatus == <<"ALLOW", "WARN", "DEGRADE", "BLOCK">>
CostRank(status) == CHOOSE i \in DOMAIN CostStatus : CostStatus[i] = status

EvaluateBudget(b) ==
  FirstOf(<< <<b.max = 0, "ALLOW">>,
             <<b.used > b.max, "BLOCK">>,
             <<10 * b.used > 9 * b.max, "DEGRADE">>,
             <<10 * b.used >= 7 * b.max, "WARN">>,
             <<TRUE, "ALLOW">> >>)

-----------------------------------------------------------------------------
(* Strategies.  Levels are their weights: risk LOW..CRITICAL, depth of QA   *)
(* BASIC..PARANOID and sandbox NONE..STRICT are 0..3.                       *)
Level == 0..3
AnyLevel == <<0, 3>>
AtLeast(n) == <<n, 3>>
AtMost(n) == <<0, n>>
Exactly(n) == <<n, n>>
Clamp(n, range) ==
  IF n < range[1] THEN range[1] ELSE IF n > range[2] THEN range[2] ELSE n

\* A rule that fires sets some fields and clamps the levels.
Rule(when, set, qa, risk) == [when |-> when, set |-> set, qa |-> qa, risk |-> risk]
Kind(type, autonomy) == [type |-> type, autonomy |-> autonomy]

StrategyRules(c) ==
  LET pressed == c.cost # "ALLOW"
      ofKilo  == c.layer = "KILO"
      thrifty == Kind("COST_OPTIMIZED", "ASSISTED")
  IN << Rule(c.new \/ c.files <= 2, Kind("SAFE", "MANUAL"), Exactly(0), Exactly(0)),
        Rule(c.files >= LargeDiff, Kind("VALIDATION_HEAVY", "MANUAL"),
             Exactly(2), Exactly(2)),
        Rule(c.qaFails >= 2 \/ c.issues >= 2, Kind("VALIDATION_HEAVY", "MANUAL"),
             Exactly(IF c.issues >= 3 THEN 3 ELSE 2), Exactly(2)),
        Rule(c.retry >= 2 \/ c.decisions >= 2, Kind("RECOVERY", "MANUAL"),
             Exactly(2), Exactly(2)),
        Rule(c.confidence < 55, Kind("SAFE", "MANUAL"), AtLeast(1), AtLeast(1)),
        Rule(c.dead, Kind("RECOVERY", "MANUAL"), Exactly(3), Exactly(3)),
        Rule(c.real, [sandbox |-> 3], AnyLevel, AtLeast(2)),
        Rule(ofKilo /\ ~ c.real, [sandbox |-> 2], AnyLevel, AnyLevel),
        Rule(pressed /\ ~ c.dead /\ (c.retry = 0 \/ c.cost # "BLOCK"), thrifty,
             AtMost(1), AtMost(1)),
        Rule(c.cost = "BLOCK", Kind("COST_OPTIMIZED", "MANUAL"), AtMost(1), AtLeast(1)),
        Rule(/\ c.stable /\ ~ c.new /\ c.confidence >= 95 /\ c.retry = 0
             /\ c.qaFails = 0 /\ c.files <= 1 /\ ~ pressed,
             Kind("AGGRESSIVE", "SUPERVISED"), Exactly(1), Exactly(1)) >>

Overlay(set, s) == [f \in DOMAIN s |-> IF f \in DOMAIN set THEN set[f] ELSE s[f]]

ApplyRule(s, rule) ==
  IF ~ rule.when THEN s
  ELSE [Overlay(rule.set, s) EXCEPT !.qa = Clamp(s.qa, rule.qa),
                                    !.risk = Clamp(s.risk, rule.risk)]

Balanced == [type |-> "BALANCED", autonomy |-> "ASSISTED", qa |-> 1, risk |-> 1,
             sandbox |-> 1]

\* The strategy after all the rules, in their order.
Resolved(rules) ==
  LET after[i \in 0..Len(rules)] ==
        IF i = 0 THEN Balanced ELSE ApplyRule(after[i - 1], rules[i])
  IN  after[Len(rules)]

\* Simulated runs are never recommended a real model, except that DEGRADE
\* recommends the lite one to the roles that plan.
ModelFor(c, type) ==
  LET plans == c.role \in {"PM", "PO", "QC"}
  IN  FirstOf(<< <<c.cost = "BLOCK", "fake">>,
                 <<c.cost = "DEGRADE" /\ plans, "lite">>,
                 <<c.cost = "DEGRADE" \/ c.simulated, "fake">>,
                 <<plans /\ type # "COST_OPTIMIZED", "strong">>,
                 <<TRUE, "lite">> >>)

\* STRATEGY_ESCALATED, STRATEGY_DEGRADED or STRATEGY_SELECTED.
StrategyEvent(s, previous) ==
  FirstOf(<< <<\E l \in {"qa", "risk", "sandbox"} : s[l] > previous[l], "ESCALATED">>,
             <<\E l \in {"qa", "risk", "sandbox"} : s[l] < previous[l], "DEGRADED">>,
             <<TRUE, "SELECTED">> >>)

EvaluateExecutionStrategy(c, previous) ==
  LET s == Resolved(StrategyRules(c))
  IN  [type |-> s.type, autonomy |-> s.autonomy, qa |-> s.qa, risk |-> s.risk,
       sandbox |-> s.sandbox, model |-> ModelFor(c, s.type),
       event |-> StrategyEvent(s, previous)]

-----------------------------------------------------------------------------
\* KiloSafetyValidator.validate, and the client's own check before it.
SafetyStatus(setting) ==
  FirstOf(<< <<~ setting.enabled, "DISABLED">>,
             <<setting.dryRun, "DRY_RUN">>,
             <<~ setting.allowed \/ ~ setting.root, "BLOCKED">>,
             <<TRUE, "ALLOWED">> >>)
=============================================================================
