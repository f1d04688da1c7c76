-------------------------- MODULE GovernedRunProofs -------------------------
(***************************************************************************)
(* Proofs about GovernedRun, for every Kilo setting, history of the        *)
(* project, number of packages, attempts and budgets: its types, the       *)
(* verdicts of QA, the agreement of decisions and plans, and the caution   *)
(* strategies keep.                                                        *)
(*                                                                         *)
(* First what the rules of ExecutionRules yield; then the inductive        *)
(* invariant IInv, one part per registry with what the others need of it,  *)
(* and one lemma per part.                                                 *)
(***************************************************************************)
EXTENDS GovernedRun, SequenceTheorems, TLAPS

-----------------------------------------------------------------------------
(* What the rules yield.                                                    *)
Statuses == {"ALLOW", "WARN", "DEGRADE", "BLOCK"}

\* The first rule that holds is the one CHOOSE finds.
LEMMA FirstHolds ==
  ASSUME NEW n \in Nat, NEW rules, DOMAIN rules = 1..n, NEW i \in 1..n,
         rules[i][1], \A j \in 1..(i - 1) : ~ rules[j][1]
  PROVE  FirstOf(rules) = rules[i][2]
<1> DEFINE P(k) == rules[k][1] /\ \A j \in 1..(k - 1) : ~ rules[j][1]
<1>1. P(i)
  OBVIOUS
<1>2. ASSUME NEW k \in 1..n, P(k) PROVE k = i
  BY <1>1, <1>2
<1>3. (CHOOSE k \in DOMAIN rules : P(k)) = i
  BY <1>1, <1>2
<1> QED
  BY <1>3 DEF FirstOf

\* Every budget has one of the four statuses (evaluate_budget).
LEMMA BudgetStatus ==
  ASSUME NEW b, b.max \in Nat, b.used \in Nat
  PROVE  EvaluateBudget(b) \in Statuses
<1> DEFINE rules == << <<b.max = 0, "ALLOW">>,
             <<b.used > b.max, "BLOCK">>,
             <<10 * b.used > 9 * b.max, "DEGRADE">>,
             <<10 * b.used >= 7 * b.max, "WARN">>,
             <<TRUE, "ALLOW">> >>
<1>1. DOMAIN rules = 1..5 /\ \A i \in 1..5 : rules[i][2] \in Statuses
  BY DEF Statuses
<1>2. PICK i \in 1..5 : rules[i][1] /\ \A j \in 1..(i - 1) : ~ rules[j][1]
  <2> HIDE DEF rules
  <2>1. rules[5][1]
    BY DEF rules
  <2> QED
    BY <2>1
<1>3. FirstOf(rules) = rules[i][2]
  <2> HIDE DEF rules
  <2> QED
    BY <1>1, <1>2, FirstHolds
<1> QED
  BY <1>1, <1>3 DEF EvaluateBudget

\* The order in which a run notes the status of its calls.
LEMMA CostRanks ==
  /\ CostRank("ALLOW") = 1 /\ CostRank("WARN") = 2
  /\ CostRank("DEGRADE") = 3 /\ CostRank("BLOCK") = 4
BY DEF CostRank, CostStatus

\* The eleven rules of a strategy applied one after the other: the recursive
\* function Resolved chooses exists, and is their sequence of results.
LEMMA ResolvedInSteps ==
  ASSUME NEW rules, Len(rules) = 11
  PROVE  \E after : /\ after[0] = Balanced
                    /\ \A i \in 1..11 : after[i] = ApplyRule(after[i - 1], rules[i])
                    /\ Resolved(rules) = after[11]
<1> DEFINE IsAfter(f) ==
      f = [i \in 0..11 |-> IF i = 0 THEN Balanced ELSE ApplyRule(f[i - 1], rules[i])]
<1> DEFINE s1 == ApplyRule(Balanced, rules[1])
           s2 == ApplyRule(s1, rules[2])
           s3 == ApplyRule(s2, rules[3])
           s4 == ApplyRule(s3, rules[4])
           s5 == ApplyRule(s4, rules[5])
           s6 == ApplyRule(s5, rules[6])
           s7 == ApplyRule(s6, rules[7])
           s8 == ApplyRule(s7, rules[8])
           s9 == ApplyRule(s8, rules[9])
           s10 == ApplyRule(s9, rules[10])
           s11 == ApplyRule(s10, rules[11])
           g == [i \in 0..11 |->
                   <<Balanced, s1, s2, s3, s4, s5, s6, s7, s8, s9, s10, s11>>[i + 1]]
<1>1. IsAfter(g)
  <2>1. PICK b, t1, t2, t3, t4, t5, t6, t7, t8, t9, t10, t11 :
          /\ b = Balanced /\ t1 = s1 /\ t2 = s2 /\ t3 = s3 /\ t4 = s4 /\ t5 = s5
          /\ t6 = s6 /\ t7 = s7 /\ t8 = s8 /\ t9 = s9 /\ t10 = s10 /\ t11 = s11
    OBVIOUS
  <2>2. /\ t1 = ApplyRule(b, rules[1]) /\ t2 = ApplyRule(t1, rules[2])
        /\ t3 = ApplyRule(t2, rules[3]) /\ t4 = ApplyRule(t3, rules[4])
        /\ t5 = ApplyRule(t4, rules[5]) /\ t6 = ApplyRule(t5, rules[6])
        /\ t7 = ApplyRule(t6, rules[7]) /\ t8 = ApplyRule(t7, rules[8])
        /\ t9 = ApplyRule(t8, rules[9]) /\ t10 = ApplyRule(t9, rules[10])
        /\ t11 = ApplyRule(t10, rules[11])
    BY <2>1
  <2>3. PICK h : h = [i \in 0..11 |->
                        <<b, t1, t2, t3, t4, t5, t6, t7, t8, t9, t10, t11>>[i + 1]]
    OBVIOUS
  <2>4. h = g
    BY <2>1, <2>3
  <2> HIDE DEF s1, s2, s3, s4, s5, s6, s7, s8, s9, s10, s11, g
  <2>5. /\ h[0] = b /\ h[1] = t1 /\ h[2] = t2 /\ h[3] = t3 /\ h[4] = t4 /\ h[5] = t5
        /\ h[6] = t6 /\ h[7] = t7 /\ h[8] = t8 /\ h[9] = t9 /\ h[10] = t10 /\ h[11] = t11
    BY <2>3
  <2>6. \A i \in 1..11 : h[i] = ApplyRule(h[i - 1], rules[i])
    BY <2>2, <2>5
  <2> DEFINE k == [i \in 0..11 |-> IF i = 0 THEN Balanced ELSE ApplyRule(h[i - 1], rules[i])]
  <2>7. \A i \in 0..11 : h[i] = k[i]
    BY <2>1, <2>5, <2>6
  <2>8. h = k
    BY <2>3, <2>7
  <2> QED
    BY <2>4, <2>8
<1> HIDE DEF g
<1>2. PICK f : /\ f = (CHOOSE e : IsAfter(e))
               /\ Resolved(rules) = f[11]
  BY DEF Resolved
<1>3. IsAfter(f)
  BY <1>1, <1>2
<1>4. f[0] = Balanced
  BY <1>3
<1>5. ASSUME NEW i \in 1..11 PROVE f[i] = ApplyRule(f[i - 1], rules[i])
  BY <1>3
<1> QED
  BY <1>2, <1>4, <1>5

Types == {"BALANCED", "SAFE", "VALIDATION_HEAVY", "RECOVERY", "COST_OPTIMIZED", "AGGRESSIVE"}
Autonomies == {"ASSISTED", "MANUAL", "SUPERVISED"}
Strategies == [type : Types, autonomy : Autonomies, qa : Level, risk : Level, sandbox : Level]

IsRange(x) == \E lo, hi \in Level : lo <= hi /\ x = <<lo, hi>>

\* A level clamped to a range is a level.
LEMMA RangesClamp ==
  ASSUME NEW n \in Level, NEW x, IsRange(x)
  PROVE  Clamp(n, x) \in Level
BY DEF IsRange, Clamp, Level

\* The ranges of the rules.
LEMMA LevelRanges ==
  /\ IsRange(AnyLevel)
  /\ \A n \in Level : IsRange(AtLeast(n)) /\ IsRange(AtMost(n)) /\ IsRange(Exactly(n))
<1>1. 0 \in Level /\ 3 \in Level /\ 0 <= 3
  BY DEF Level
<1>2. \A n \in Level : n <= n /\ 0 <= n /\ n <= 3
  BY DEF Level
<1> QED
  BY <1>1, <1>2 DEF IsRange, AnyLevel, AtLeast, AtMost, Exactly

\* A rule sets the kind of the strategy or the sandbox, and clamps the rest.
Sets(rule, set, risk) == rule.set = set /\ rule.risk = risk /\ IsRange(rule.qa) /\ IsRange(risk)

\* A rule that fires, and one that does not.
LEMMA KindApplied ==
  ASSUME NEW s \in Strategies, NEW rule, NEW type \in Types, NEW autonomy \in Autonomies,
         NEW risk, Sets(rule, Kind(type, autonomy), risk), NEW t, t = ApplyRule(s, rule)
  PROVE  /\ t \in Strategies
         /\ ~ rule.when => t = s
         /\ rule.when => /\ t.type = type /\ t.autonomy = autonomy
                         /\ t.risk = Clamp(s.risk, risk)
<1>1. CASE ~ rule.when
  BY <1>1 DEF ApplyRule
<1>2. CASE rule.when
  <2>1. PICK o : o = Overlay(rule.set, s)
    OBVIOUS
  <2>2. o \in Strategies /\ o.type = type /\ o.autonomy = autonomy
    BY <2>1 DEF Overlay, Kind, Strategies, Sets
  <2>3. PICK q, r : q = Clamp(s.qa, rule.qa) /\ r = Clamp(s.risk, risk)
    OBVIOUS
  <2>4. q \in Level /\ r \in Level
    <3>1. s.qa \in Level /\ s.risk \in Level
      BY DEF Strategies
    <3> QED
      BY <2>3, <3>1, RangesClamp DEF Sets
  <2>5. t = [o EXCEPT !.qa = q, !.risk = r]
    BY <1>2, <2>1, <2>3 DEF ApplyRule, Sets
  <2> QED
    BY <1>2, <2>2, <2>3, <2>4, <2>5 DEF Strategies
<1> QED
  BY <1>1, <1>2

\* A rule that fires and sets the sandbox.
LEMMA SandboxApplied ==
  ASSUME NEW s \in Strategies, NEW rule, NEW n \in Level,
         NEW risk, Sets(rule, [sandbox |-> n], risk), NEW t, t = ApplyRule(s, rule)
  PROVE  /\ t \in Strategies /\ t.type = s.type /\ t.autonomy = s.autonomy
         /\ ~ rule.when => t = s
         /\ rule.when => t.risk = Clamp(s.risk, risk)
<1>1. CASE ~ rule.when
  BY <1>1 DEF ApplyRule
<1>2. CASE rule.when
  <2>1. PICK o : o = Overlay(rule.set, s)
    OBVIOUS
  <2>2. o \in Strategies /\ o.type = s.type /\ o.autonomy = s.autonomy
    BY <2>1 DEF Overlay, Strategies, Sets
  <2>3. PICK q, r : q = Clamp(s.qa, rule.qa) /\ r = Clamp(s.risk, risk)
    OBVIOUS
  <2>4. q \in Level /\ r \in Level
    <3>1. s.qa \in Level /\ s.risk \in Level
      BY DEF Strategies
    <3> QED
      BY <2>3, <3>1, RangesClamp DEF Sets
  <2>5. t = [o EXCEPT !.qa = q, !.risk = r]
    BY <1>2, <2>1, <2>3 DEF ApplyRule, Sets
  <2> QED
    BY <1>2, <2>2, <2>3, <2>4, <2>5 DEF Strategies
<1> QED
  BY <1>1, <1>2

\* The rules give CRITICAL risk exactly to runs with a dead letter, and the
\* manual, thrifty strategy exactly to blocked ones, whatever else holds: the
\* later rules only raise what the dead letter set, and the last one, which
\* would lower it, asks for a confidence no step has.
LEMMA StrategyBounds ==
  ASSUME NEW c, c.confidence \in {80, 84}, c.dead \in BOOLEAN
  PROVE  \E s \in Strategies :
           /\ s = Resolved(StrategyRules(c))
           /\ s.risk = 3 <=> c.dead
           /\ s.type = "COST_OPTIMIZED" /\ s.autonomy = "MANUAL" <=> c.cost = "BLOCK"
<1>1. PICK rules : rules = StrategyRules(c)
  OBVIOUS
<1>2. Len(rules) = 11
  BY <1>1 DEF StrategyRules
<1>3. PICK s : /\ s[0] = Balanced
               /\ \A i \in 1..11 : s[i] = ApplyRule(s[i - 1], rules[i])
               /\ Resolved(rules) = s[11]
  BY <1>2, ResolvedInSteps
<1>4. /\ s[1] = ApplyRule(s[0], rules[1]) /\ s[2] = ApplyRule(s[1], rules[2])
      /\ s[3] = ApplyRule(s[2], rules[3]) /\ s[4] = ApplyRule(s[3], rules[4])
      /\ s[5] = ApplyRule(s[4], rules[5]) /\ s[6] = ApplyRule(s[5], rules[6])
      /\ s[7] = ApplyRule(s[6], rules[7]) /\ s[8] = ApplyRule(s[7], rules[8])
      /\ s[9] = ApplyRule(s[8], rules[9]) /\ s[10] = ApplyRule(s[9], rules[10])
      /\ s[11] = ApplyRule(s[10], rules[11])
  BY <1>3
<1>5. /\ 0 \in Level /\ 1 \in Level /\ 2 \in Level /\ 3 \in Level
      /\ \A x \in Strategies : x.risk \in {0, 1, 2, 3}
  BY DEF Level, Strategies
<1>6. /\ "SAFE" \in Types /\ "VALIDATION_HEAVY" \in Types /\ "RECOVERY" \in Types
      /\ "COST_OPTIMIZED" \in Types /\ "MANUAL" \in Autonomies /\ "ASSISTED" \in Autonomies
  BY DEF Types, Autonomies
<1>7. (IF c.issues >= 3 THEN 3 ELSE 2) \in Level
  BY <1>5
<1>8. /\ Sets(rules[1], Kind("SAFE", "MANUAL"), Exactly(0))
      /\ Sets(rules[2], Kind("VALIDATION_HEAVY", "MANUAL"), Exactly(2))
      /\ Sets(rules[3], Kind("VALIDATION_HEAVY", "MANUAL"), Exactly(2))
      /\ Sets(rules[4], Kind("RECOVERY", "MANUAL"), Exactly(2))
      /\ Sets(rules[5], Kind("SAFE", "MANUAL"), AtLeast(1))
  BY <1>1, <1>5, <1>7, LevelRanges DEF StrategyRules, Rule, Sets
<1>9. /\ Sets(rules[6], Kind("RECOVERY", "MANUAL"), Exactly(3))
      /\ Sets(rules[7], [sandbox |-> 3], AtLeast(2))
      /\ Sets(rules[8], [sandbox |-> 2], AnyLevel)
      /\ Sets(rules[9], Kind("COST_OPTIMIZED", "ASSISTED"), AtMost(1))
      /\ Sets(rules[10], Kind("COST_OPTIMIZED", "MANUAL"), AtLeast(1))
  BY <1>1, <1>5, LevelRanges DEF StrategyRules, Rule, Sets
<1>10. /\ rules[6].when <=> c.dead
       /\ rules[9].when => ~ c.dead
       /\ rules[10].when <=> c.cost = "BLOCK"
       /\ ~ rules[11].when
  <2>1. rules[6].when <=> c.dead
    BY <1>1 DEF StrategyRules, Rule
  <2>2. rules[9].when => ~ c.dead
    BY <1>1 DEF StrategyRules, Rule
  <2>3. rules[10].when <=> c.cost = "BLOCK"
    BY <1>1 DEF StrategyRules, Rule
  <2>4. ~ rules[11].when
    BY <1>1 DEF StrategyRules, Rule
  <2> QED
    BY <2>1, <2>2, <2>3, <2>4
<1> DEFINE Early(x) == /\ x \in Strategies /\ x.risk <= 2 /\ x.type # "COST_OPTIMIZED"
           Mid(x) == /\ x \in Strategies /\ (x.risk = 3 <=> c.dead)
                     /\ x.type # "COST_OPTIMIZED"
           Late(x) == /\ x \in Strategies /\ (x.risk = 3 <=> c.dead)
                      /\ x.type = "COST_OPTIMIZED" => x.autonomy = "ASSISTED"
           Final(x) == /\ x \in Strategies /\ (x.risk = 3 <=> c.dead)
                       /\ x.type = "COST_OPTIMIZED" /\ x.autonomy = "MANUAL"
                            <=> c.cost = "BLOCK"
<1>e0. Early(s[0])
  BY <1>3 DEF Balanced, Strategies, Level, Types, Autonomies
<1>e1. Early(s[1])
  <2>1. /\ s[1] \in Strategies
        /\ ~ rules[1].when => s[1] = s[0]
        /\ rules[1].when => /\ s[1].type = "SAFE" /\ s[1].autonomy = "MANUAL"
                              /\ s[1].risk = Clamp(s[0].risk, Exactly(0))
    BY <1>4, <1>6, <1>8, <1>e0, KindApplied
  <2> QED
    BY <2>1, <1>5, <1>e0 DEF Clamp, Exactly
<1>e2. Early(s[2])
  <2>1. /\ s[2] \in Strategies
        /\ ~ rules[2].when => s[2] = s[1]
        /\ rules[2].when => /\ s[2].type = "VALIDATION_HEAVY" /\ s[2].autonomy = "MANUAL"
                              /\ s[2].risk = Clamp(s[1].risk, Exactly(2))
    BY <1>4, <1>6, <1>8, <1>e1, KindApplied
  <2> QED
    BY <2>1, <1>5, <1>e1 DEF Clamp, Exactly
<1>e3. Early(s[3])
  <2>1. /\ s[3] \in Strategies
        /\ ~ rules[3].when => s[3] = s[2]
        /\ rules[3].when => /\ s[3].type = "VALIDATION_HEAVY" /\ s[3].autonomy = "MANUAL"
                              /\ s[3].risk = Clamp(s[2].risk, Exactly(2))
    BY <1>4, <1>6, <1>8, <1>e2, KindApplied
  <2> QED
    BY <2>1, <1>5, <1>e2 DEF Clamp, Exactly
<1>e4. Early(s[4])
  <2>1. /\ s[4] \in Strategies
        /\ ~ rules[4].when => s[4] = s[3]
        /\ rules[4].when => /\ s[4].type = "RECOVERY" /\ s[4].autonomy = "MANUAL"
                              /\ s[4].risk = Clamp(s[3].risk, Exactly(2))
    BY <1>4, <1>6, <1>8, <1>e3, KindApplied
  <2> QED
    BY <2>1, <1>5, <1>e3 DEF Clamp, Exactly
<1>e5. Early(s[5])
  <2>1. /\ s[5] \in Strategies
        /\ ~ rules[5].when => s[5] = s[4]
        /\ rules[5].when => /\ s[5].type = "SAFE" /\ s[5].autonomy = "MANUAL"
                              /\ s[5].risk = Clamp(s[4].risk, AtLeast(1))
    BY <1>4, <1>6, <1>8, <1>e4, KindApplied
  <2> QED
    BY <2>1, <1>5, <1>e4 DEF Clamp, AtLeast
<1>e6. Mid(s[6])
  <2>1. /\ s[6] \in Strategies
        /\ ~ rules[6].when => s[6] = s[5]
        /\ rules[6].when => /\ s[6].type = "RECOVERY" /\ s[6].autonomy = "MANUAL"
                              /\ s[6].risk = Clamp(s[5].risk, Exactly(3))
    BY <1>4, <1>6, <1>9, <1>e5, KindApplied
  <2> QED
    BY <2>1, <1>5, <1>10, <1>e5 DEF Clamp, Exactly
<1>e7. Mid(s[7])
  <2>1. /\ s[7] \in Strategies /\ s[7].type = s[6].type
        /\ ~ rules[7].when => s[7] = s[6]
        /\ rules[7].when => s[7].risk = Clamp(s[6].risk, AtLeast(2))
    BY <1>4, <1>5, <1>9, <1>e6, SandboxApplied
  <2> QED
    BY <2>1, <1>5, <1>e6 DEF Clamp, AtLeast
<1>e8. Mid(s[8])
  <2>1. /\ s[8] \in Strategies /\ s[8].type = s[7].type
        /\ ~ rules[8].when => s[8] = s[7]
        /\ rules[8].when => s[8].risk = Clamp(s[7].risk, AnyLevel)
    BY <1>4, <1>5, <1>9, <1>e7, SandboxApplied
  <2> QED
    BY <2>1, <1>5, <1>e7 DEF Clamp, AnyLevel
<1>e9. Late(s[9])
  <2>1. /\ s[9] \in Strategies
        /\ ~ rules[9].when => s[9] = s[8]
        /\ rules[9].when => /\ s[9].type = "COST_OPTIMIZED" /\ s[9].autonomy = "ASSISTED"
                              /\ s[9].risk = Clamp(s[8].risk, AtMost(1))
    BY <1>4, <1>6, <1>9, <1>e8, KindApplied
  <2> QED
    BY <2>1, <1>5, <1>10, <1>e8 DEF Clamp, AtMost
<1>e10. Final(s[10])
  <2>1. /\ s[10] \in Strategies
        /\ ~ rules[10].when => s[10] = s[9]
        /\ rules[10].when => /\ s[10].type = "COST_OPTIMIZED" /\ s[10].autonomy = "MANUAL"
                              /\ s[10].risk = Clamp(s[9].risk, AtLeast(1))
    BY <1>4, <1>6, <1>9, <1>e9, KindApplied
  <2> QED
    BY <2>1, <1>5, <1>10, <1>e9 DEF Clamp, AtLeast
<1>e11. Final(s[11])
  <2>1. s[11] = s[10]
    BY <1>4, <1>10 DEF ApplyRule
  <2> QED
    BY <2>1, <1>e10
<1> QED
  BY <1>e11, <1>1, <1>3

\* A blocked run is recommended the simulated model.
LEMMA BlockedIsSimulated ==
  ASSUME NEW c, c.cost = "BLOCK", NEW type
  PROVE  ModelFor(c, type) = "fake"
<1> DEFINE asks == c.role \in {"PM", "PO", "QC"}
           rules == << <<c.cost = "BLOCK", "fake">>,
                       <<c.cost = "DEGRADE" /\ asks, "lite">>,
                       <<c.cost = "DEGRADE" \/ c.simulated, "fake">>,
                       <<asks /\ type # "COST_OPTIMIZED", "strong">>,
                       <<TRUE, "lite">> >>
<1>1. DOMAIN rules = 1..5 /\ rules[1][1] /\ rules[1][2] = "fake"
  <2>1. DOMAIN rules = 1..5 /\ rules[1] = <<c.cost = "BLOCK", "fake">>
    OBVIOUS
  <2>2. (c.cost = "BLOCK") = TRUE
    OBVIOUS
  <2>3. rules[1] = <<TRUE, "fake">>
    <3> HIDE DEF rules
    <3> QED
      BY <2>1, <2>2
  <2>4. PICK p : p = <<TRUE, "fake">>
    OBVIOUS
  <2>5. p[1] = TRUE /\ p[2] = "fake" /\ rules[1] = p
    BY <2>3, <2>4
  <2>6. p[1]
    BY <2>5
  <2> HIDE DEF rules
  <2> QED
    BY <2>1, <2>5, <2>6
<1>2. FirstOf(rules) = rules[1][2]
  <2> HIDE DEF rules
  <2>1. 5 \in Nat /\ 1 \in 1..5 /\ \A j \in 1..(1 - 1) : ~ rules[j][1]
    OBVIOUS
  <2> QED
    BY <1>1, <2>1, FirstHolds
<1> QED
  BY <1>1, <1>2 DEF ModelFor

\* A signal without missing context and of a package of the right size is
\* answered STOP exactly after the last retry or with a dead letter.
LEMMA DecisionMade ==
  ASSUME NEW c, c.missing = FALSE, c.tooLarge = FALSE
  PROVE  /\ ResolveDecision(c) \in DecisionType
         /\ ResolveDecision(c) = "STOP" <=> c.dead \/ c.retry >= c.max
<1> DEFINE rules == << <<c.missing, "REQUEST_MORE_CONTEXT">>,
                       <<c.tooLarge, "SPLIT_TASK">>,
                       <<c.dead \/ c.retry >= c.max, "STOP">>,
                       <<c.stuck, "REQUEUE">>,
                       <<c.qaFailed /\ c.retry > 0, "ESCALATE_REVIEW">>,
                       <<c.qaFailed \/ c.failedValidation \/ c.kiloFailed, "RETRY">>,
                       <<c.files >= LargeDiff \/ ~ c.confident, "ESCALATE_REVIEW">>,
                       <<TRUE, "CONTINUE">> >>
<1>1. DOMAIN rules = 1..8 /\ \A i \in 1..8 : rules[i][2] \in DecisionType
  BY DEF DecisionType
<1>2. \A i \in 1..8 : rules[i][2] = "STOP" <=> i = 3
  OBVIOUS
<1>3. /\ ~ rules[1][1] /\ ~ rules[2][1] /\ rules[8][1]
      /\ rules[3][1] <=> c.dead \/ c.retry >= c.max
  OBVIOUS
<1>4. FirstOf(rules) = ResolveDecision(c)
  BY DEF ResolveDecision
<1> HIDE DEF rules
<1>5. PICK i \in 1..8 : rules[i][1] /\ \A j \in 1..(i - 1) : ~ rules[j][1]
  <2>1. ~ rules[1][1] /\ ~ rules[2][1] /\ rules[8][1]
    BY <1>3
  <2> QED
    BY <2>1
<1>6. FirstOf(rules) = rules[i][2]
  BY <1>1, <1>5, FirstHolds
<1>7. rules[3][1] <=> i = 3
  BY <1>3, <1>5
<1> QED
  BY <1>1, <1>2, <1>3, <1>4, <1>6, <1>7

-----------------------------------------------------------------------------
(* The invariant.                                                          *)
Roles == {"DEV", "QA"}
\* A node before its execution, and on its way.
Early == {"registering", "starting", "opening", "requesting"}
Inner == {"starting", "requesting", "executing", "calling", "reading", "charging", "judging",
          "crashed"}
Places == ({"DEV"} \X (Inner \cup {"registering", "opening", "done"}))
          \cup ({"QA"} \X (Inner \cup {"verdict", "iterating", "ended"}))

\* Where the run is.  Only the first validation of a run fails, so the first
\* task is the only one that is ever worked on before a rework.
Position ==
    /\ setting \in Settings
    /\ memory \in [new : BOOLEAN, issues : Nat, reviews : Nat]
    /\ at \in Places /\ task \in Task /\ loops \in 0..1
    /\ validation \in {"NONE", "FAILED", "PASSED"} /\ events \in 0..MaxEvents
    /\ loops = 0 => task = 1 /\ passed = {}
    /\ In("iterating") => loops = 0

\* Attempts end with the first success.  A task is executed by DEV once before
\* the rework and once after it, so its sandbox has few revisions.
Before == IF loops = 0 THEN 0 ELSE MaxAttempts

Revisions ==
    /\ attempts \in Seq({"SUCCESS", "FAILED"}) /\ Len(attempts) <= MaxAttempts
    /\ \A i \in DOMAIN attempts : attempts[i] = "SUCCESS" => i = Len(attempts)
    /\ disk \in [Task -> 0..(2 * MaxAttempts)]
    /\ \A t \in Task : task < t => disk[t] = 0
    /\ disk[task] <= Before + MaxAttempts
    /\ Role = "DEV" /\ In("executing") => disk[task] <= Before + Len(attempts)
    /\ Role = "DEV" /\ at[2] \in Early => disk[task] <= Before

ChangeSets == [status : {"DETECTED", "VALIDATED", "FAILED_VALIDATION", "DISCARDED"},
               files : Nat, of : Nat]

\* The tasks passed are those before the present one, whose change sets, like
\* that of the present one, are known to the run's metadata.
Changes ==
    /\ changes \in [Roles \X Task -> {NoChange} \cup ChangeSets]
    /\ passed \subseteq Task /\ taskSet \subseteq Task
    /\ \A t \in Task : t \in taskSet <=> changes[<<"DEV", t>>] # NoChange
    /\ \A t \in taskSet : t <= task
    /\ current # NoTask => current \in taskSet
    /\ current \in Task \cup {NoTask}
    /\ \A t \in Task : t < task => t \in passed
    /\ \A t \in passed : t < task \/ (t = task /\ In("ended"))

\* What the run notes of dead letters is never more than there are.
Noted ==
    /\ noted \in [files : Nat, retry : 0..(MaxAttempts - 1), dead : BOOLEAN, cost : Statuses]
    /\ retried \in BOOLEAN /\ dead \in BOOLEAN
    /\ noted.dead => dead

Sources == {"code_change_detection", "kilo_execution", "qa_validation"}
Signals == Sources \X Roles \X Task \X (0..1)
DecisionRecords == [for : Signals, type : DecisionType, review : BOOLEAN,
                    status : {"PROPOSED", "ACCEPTED", "REJECTED"}]
MutationTypes == {"REGENERATE_PROMPT", "INSERT_QA", "INSERT_REVIEW", "ESCALATE_TASK",
                  "REQUEUE_TASK", "REPLAN_DEPENDENCIES", "SPLIT_TASK"}
PlanRecords == [for : Signals, mutations : SUBSET MutationTypes, review : BOOLEAN,
                status : {"PROPOSED", "APPROVED", "REJECTED"}]

\* The run is past the point where a signal is given: so no signal is given
\* twice, and the decision and the plan for it judge the same facts.
Past(s) ==
    IF s[1] = "qa_validation" THEN loops > 0 \/ In("iterating")
    ELSE \/ s[4] < loops
         \/ s[4] = loops /\ s[3] < task
         \/ /\ s[4] = loops /\ s[3] = task
            /\ \/ s[2] = "DEV" /\ Role = "QA"
               \/ s[2] = Role /\ at[2] \notin Early /\ ~ In("executing")

Governing ==
    /\ decisions \subseteq DecisionRecords /\ plans \subseteq PlanRecords
    /\ \A d \in decisions : Past(d.for)
    /\ \A p \in plans : Past(p.for)
    /\ StopIsEscalated

BudgetRecords == [max : Nat, used : Nat]
Charges == [id : 0..Len(budgets), used : Nat]

Money ==
    /\ budgets \in Seq(BudgetRecords)
    /\ charge \in Charges /\ other \in Charges

Chosen ==
    /\ strategy # NoStrategy => {strategy.qa, strategy.risk, strategy.sandbox} \subseteq Level
    /\ strategy.risk = 3 => noted.dead
    /\ Thrifty => noted.cost = "BLOCK" /\ strategy.model = "fake"

\* The inductive invariant.
IInv ==
    /\ Position /\ Revisions /\ Changes /\ VerdictsReachTheirTask
    /\ Noted /\ Governing /\ Money /\ Chosen

-----------------------------------------------------------------------------
(* The run's place in the graph, and the sandboxes.                          *)
\* The constants, as most steps need them.
LEMMA Numbers ==
  /\ Tasks \in Nat \ {0} /\ MaxAttempts \in Nat \ {0} /\ Limit \in Nat /\ MaxEvents \in Nat
  /\ Task = 1..Tasks /\ 1 \in Task /\ Files \subseteq Nat
BY GovernedAssumption DEF Task

\* The places of each node.
LEMMA Here ==
  ASSUME at \in Places
  PROVE  /\ at = <<Role, at[2]>> /\ Role \in Roles
         /\ Role = "DEV" => at[2] \in Inner \cup {"registering", "opening", "done"}
         /\ Role = "QA" => at[2] \in Inner \cup {"verdict", "iterating", "ended"}
         /\ at[2] = "verdict" => Role = "QA"
<1>1. "verdict" \notin Inner \cup {"registering", "opening", "done"}
  BY DEF Inner
<1> QED
  BY <1>1 DEF Places, Role, Roles

\* A step within a node.
LEMMA MovesWithin ==
  ASSUME at \in Places, NEW place \in Inner \cup {"opening"}, GoTo(place),
         place = "opening" => Role = "DEV"
  PROVE  at' \in Places /\ Role' = Role /\ at'[2] = place
BY Here DEF Places, GoTo, Role, Roles

\* start_step opens a session in DEV only.
LEMMA StepStarted ==
  ASSUME StartStep
  PROVE  /\ In("starting") /\ UNCHANGED <<setting, memory, task, loops, validation, passed, kilo>>
         /\ \E place \in {"opening", "requesting"} :
              GoTo(place) /\ (place = "opening" => Role = "DEV")
BY DEF StartStep

\* Every step keeps the run in the graph.
LEMMA PositionKept ==
  ASSUME Position, [Next]_vars
  PROVE  Position'
<1>0. /\ at \in Places /\ events \in Nat /\ MaxEvents \in Nat
  BY Numbers DEF Position
<1> DEFINE Still == UNCHANGED <<setting, memory, task, loops, validation, passed>>
<1>1. events' \in 0..MaxEvents
  <2>1. Happens => events' \in 0..MaxEvents
    BY <1>0 DEF Happens, Position
  <2>2. events' = events => events' \in 0..MaxEvents
    BY DEF Position
  <2>3. Happens \/ events' = events
    BY DEF Next, Run, Beside, vars, StartStep, BeginExecution, FinishExecution, Attempt,
       AttemptRaises, SkipExecution, ResolveBudget, ReadBudget, ChargeBudget, JudgeBudget,
       CallRaises, DevDone, QaFails, RegisterTask, OpenSession, Iterate, QaPasses, AnswerDecision, AnswerPlan, Discard, CreateBudget, OtherRunReads,
       OtherRunCharges, DeadLetter
  <2> QED
    BY <2>1, <2>2, <2>3
<1>2. CASE Still /\ UNCHANGED at
  BY <1>1, <1>2 DEF Position, In
<1>3. ASSUME NEW place \in Inner \cup {"opening"}, Still, GoTo(place),
             place = "opening" => Role = "DEV"
      PROVE  Position'
  <2>1. at' \in Places /\ at'[2] = place
    BY <1>0, <1>3, MovesWithin
  <2> QED
    BY <1>1, <1>3, <2>1 DEF Position, In, Inner
<1>4. CASE JudgeBudget
  <2>1. at' \in Places /\ at'[2] # "iterating"
    BY <1>0, <1>4, Here DEF JudgeBudget, GoTo, Places, Roles
  <2> QED
    BY <1>1, <1>4, <2>1 DEF Position, In, JudgeBudget
<1>5. CASE DevDone
  <2>1. at' \in Places /\ at'[2] # "iterating"
    BY <1>5 DEF DevDone, Places, Inner
  <2> QED
    BY <1>1, <1>5, <2>1 DEF Position, In, DevDone
<1>6. CASE QaFails
  <2>1. at' \in Places
    BY <1>0, <1>6, Here DEF QaFails, GoTo, Places, Roles, In
  <2>2. memory' \in [new : BOOLEAN, issues : Nat, reviews : Nat]
    BY <1>6 DEF QaFails, Position
  <2>3. /\ UNCHANGED <<setting, task, loops, passed>> /\ loops = 0 /\ validation' = "FAILED"
    BY <1>6 DEF QaFails
  <2> QED
    BY <1>1, <2>1, <2>2, <2>3 DEF Position, In
<1>7. CASE Iterate
  <2>1. at' \in Places /\ at'[2] # "iterating" /\ loops' = 1
    BY <1>7 DEF Iterate, Places, Inner, Position
  <2>2. UNCHANGED <<setting, task, validation, memory, passed>>
    BY <1>7 DEF Iterate
  <2> QED
    BY <1>1, <2>1, <2>2 DEF Position, In
<1>8. CASE QaPasses
  <2>1. /\ UNCHANGED <<setting, loops>> /\ loops > 0 /\ validation' = "PASSED"
        /\ passed' = passed \cup {task}
    BY <1>8 DEF QaPasses
  <2>2. memory' \in [new : BOOLEAN, issues : Nat, reviews : Nat]
    BY <1>8 DEF QaPasses, Position
  <2>3. at' \in Places /\ at'[2] # "iterating" /\ task' \in Task
    <3>1. CASE task < Tasks
      BY <1>8, <3>1, Numbers DEF QaPasses, Places, Position
    <3>2. CASE ~ (task < Tasks)
      BY <1>0, <1>8, <3>2, Here DEF QaPasses, Places, Roles, GoTo, In, Position
    <3> QED
      BY <3>1, <3>2
  <2>4. loops' \in 0..1 /\ loops' # 0
    BY <2>1 DEF Position
  <2> QED
    BY <1>1, <2>1, <2>2, <2>3, <2>4 DEF Position, In
<1>9. CASE StartStep
  BY <1>3, <1>9, StepStarted DEF Inner
<1>10. CASE BeginExecution
  BY <1>3, <1>10 DEF BeginExecution, Inner
<1>11. CASE SkipExecution
  BY <1>3, <1>11 DEF SkipExecution, Inner
<1>12. ASSUME NEW n, FinishExecution(n) PROVE Position'
  BY <1>3, <1>12 DEF FinishExecution, Inner
<1>13. CASE AttemptRaises
  BY <1>3, <1>13 DEF AttemptRaises, Inner
<1>14. CASE ResolveBudget \/ ReadBudget \/ ChargeBudget
  BY <1>3, <1>14 DEF ResolveBudget, ReadBudget, ChargeBudget, Inner
<1>15. CASE CallRaises \/ RegisterTask \/ OpenSession
  BY <1>3, <1>15 DEF CallRaises, RegisterTask, OpenSession, Inner
<1>16. ASSUME NEW o, Attempt(o) PROVE Position'
  BY <1>2, <1>16 DEF Attempt, work
<1>17. CASE Beside \/ UNCHANGED vars
  <2>1. UNCHANGED work /\ UNCHANGED setting
    BY <1>17 DEF Beside, vars, AnswerDecision, AnswerPlan, Discard, CreateBudget, OtherRunReads,
       OtherRunCharges, DeadLetter
  <2> QED
    BY <1>2, <2>1 DEF work
<1> QED
  BY <1>4, <1>5, <1>6, <1>7, <1>8, <1>9, <1>10, <1>11, <1>12, <1>13, <1>14, <1>15, <1>16,
     <1>17 DEF Next, Run

\* Every step keeps the attempts and the revisions within their bounds.
LEMMA RevisionsKept ==
  ASSUME Position, Revisions, [Next]_vars
  PROVE  Revisions'
<1>1. /\ at \in Places /\ task \in Task /\ loops \in {0, 1} /\ MaxAttempts \in Nat \ {0}
      /\ attempts \in Seq({"SUCCESS", "FAILED"}) /\ Len(attempts) \in Nat
      /\ disk \in [Task -> 0..(2 * MaxAttempts)] /\ Before \in Nat
      /\ Before + MaxAttempts <= 2 * MaxAttempts
  BY Numbers DEF Position, Revisions, Before
<1>2. \A t \in Task : disk[t] \in 0..(2 * MaxAttempts) /\ disk[t] \in Nat /\ t \in Nat
  BY <1>1, Numbers
<1>3. CASE UNCHANGED <<at, task, loops, attempts, disk>>
  BY <1>3 DEF Revisions, Before, Role, In
<1>4. ASSUME NEW place \in Inner \cup {"opening"}, GoTo(place),
             place = "opening" => Role = "DEV", UNCHANGED <<task, loops, attempts, disk>>,
             place # "executing", place \in Early => at[2] \in Early
      PROVE  Revisions'
  <2>1. Role' = Role /\ at'[2] = place /\ Before' = Before
    BY <1>1, <1>4, MovesWithin DEF Before
  <2> QED
    BY <1>4, <2>1 DEF Revisions, In
<1>5. CASE StartStep
  BY <1>4, <1>5, StepStarted DEF kilo, Inner, Early, In
<1>6. CASE BeginExecution
  <2>1. /\ GoTo("executing") /\ UNCHANGED <<task, loops, disk>> /\ attempts' = <<>>
        /\ In("requesting")
    BY <1>6 DEF BeginExecution
  <2>2. Role' = Role /\ at'[2] = "executing" /\ Before' = Before
    BY <1>1, <2>1, MovesWithin DEF Before, Inner
  <2>3. attempts' \in Seq({"SUCCESS", "FAILED"}) /\ Len(attempts') = 0 /\ DOMAIN attempts' = {}
    BY <2>1
  <2>4. Role = "DEV" => disk[task] <= Before
    BY <2>1 DEF Revisions, In, Early
  <2> QED
    BY <1>1, <1>2, <2>1, <2>2, <2>3, <2>4 DEF Revisions, In, Early
<1>7. ASSUME NEW outcome \in {"SUCCESS", "FAILED"}, Attempt(outcome)
      PROVE  Revisions'
  <2>1. /\ NextAttempt /\ UNCHANGED <<at, task, loops>>
        /\ attempts' = Append(attempts, outcome)
        /\ disk' = IF Role = "DEV" /\ ~ Simulated THEN [disk EXCEPT ![task] = @ + 1] ELSE disk
    BY <1>7 DEF Attempt, work
  <2>2. Role' = Role /\ at' = at /\ Before' = Before /\ In("executing")
    BY <2>1 DEF Role, Before, NextAttempt
  <2>3. /\ attempts' \in Seq({"SUCCESS", "FAILED"}) /\ Len(attempts') = Len(attempts) + 1
        /\ \A i \in 1..Len(attempts) : attempts'[i] = attempts[i]
        /\ DOMAIN attempts' = 1..(Len(attempts) + 1)
    BY <1>1, <2>1
  <2>4. Len(attempts) < MaxAttempts
    BY <2>1 DEF NextAttempt
  <2>5. \A i \in DOMAIN attempts' : attempts'[i] = "SUCCESS" => i = Len(attempts')
    <3> SUFFICES ASSUME NEW i \in 1..Len(attempts), attempts[i] = "SUCCESS" PROVE FALSE
      BY <1>1, <2>3
    <3>1. i = Len(attempts)
      BY <1>1 DEF Revisions
    <3>2. attempts # <<>>
      BY <1>1
    <3> QED
      BY <2>1, <3>1, <3>2 DEF NextAttempt, Succeeded
  <2>6. /\ Role = "DEV" => disk[task] <= Before + Len(attempts)
        /\ disk[task] <= Before + MaxAttempts
    BY <2>2 DEF Revisions
  <2>7. \A t \in Task : disk'[t] = IF Role = "DEV" /\ ~ Simulated /\ t = task
                                   THEN disk[t] + 1 ELSE disk[t]
    BY <1>1, <2>1
  <2>8. DOMAIN disk' = Task /\ disk' = [t \in Task |-> disk'[t]]
    BY <1>1, <2>1
  <2>9. \A t \in Task : disk'[t] \in 0..(2 * MaxAttempts)
    BY <1>1, <1>2, <2>4, <2>6, <2>7
  <2>10. disk' \in [Task -> 0..(2 * MaxAttempts)]
    BY <2>8, <2>9
  <2>11. \A t \in Task : task < t => disk'[t] = 0
    BY <1>1, <1>2, <2>7 DEF Revisions
  <2>12. /\ disk'[task] <= Before + MaxAttempts
         /\ Role = "DEV" => disk'[task] <= Before + Len(attempts')
    BY <1>1, <1>2, <2>3, <2>4, <2>6, <2>7
  <2> QED
    BY <1>1, <2>1, <2>2, <2>3, <2>4, <2>5, <2>10, <2>11, <2>12
       DEF Revisions, In, Early
<1>8. CASE Iterate
  <2>1. /\ In("iterating") /\ loops' = loops + 1 /\ at' = <<"DEV", "starting">>
        /\ UNCHANGED <<task, attempts, disk>>
    BY <1>8 DEF Iterate, kilo
  <2>2. loops = 0 /\ loops' = 1
    BY <2>1, <1>1 DEF Position
  <2>3. Before = 0 /\ Before' = MaxAttempts
    BY <2>2 DEF Before
  <2> QED
    BY <1>1, <1>2, <2>1, <2>3 DEF Revisions, In, Role
<1>9. CASE QaPasses
  <2>1. /\ UNCHANGED <<loops, attempts, disk>>
        /\ \/ task < Tasks /\ task' = task + 1 /\ at' = <<"DEV", "registering">>
           \/ task' = task /\ at' = <<Role, "ended">>
    BY <1>9 DEF QaPasses, GoTo
  <2>2. Before' = Before
    BY <2>1 DEF Before
  <2>3. CASE task < Tasks /\ task' = task + 1 /\ at' = <<"DEV", "registering">>
    <3>1. task' \in Task /\ task < task'
      BY <1>1, <2>3, Numbers
    <3>2. disk[task'] = 0 /\ \A t \in Task : task' < t => disk[t] = 0
      BY <1>1, <1>2, <2>3, <3>1, Numbers DEF Revisions
    <3> QED
      BY <1>1, <2>1, <2>2, <2>3, <3>1, <3>2 DEF Revisions, In
  <2>4. CASE task' = task /\ at' = <<Role, "ended">>
    BY <2>1, <2>2, <2>4 DEF Revisions, In, Early
  <2> QED
    BY <2>1, <2>3, <2>4
<1>10. CASE JudgeBudget \/ DevDone \/ QaFails
  <2>1. /\ UNCHANGED <<task, loops, attempts, disk>>
        /\ at'[2] \notin {"executing", "requesting", "registering", "opening"}
        /\ Role' = "DEV" => at'[2] # "starting"
    BY <1>10 DEF JudgeBudget, DevDone, QaFails, kilo, GoTo, Role
  <2>2. Before' = Before
    BY <2>1 DEF Before
  <2> QED
    BY <2>1, <2>2 DEF Revisions, In, Early
<1>11. CASE SkipExecution
  BY <1>4, <1>11 DEF SkipExecution, kilo, Inner, Early
<1>12. ASSUME NEW n, FinishExecution(n) PROVE Revisions'
  BY <1>4, <1>12 DEF FinishExecution, Inner, Early
<1>13. CASE AttemptRaises
  BY <1>4, <1>13 DEF AttemptRaises, kilo, Inner, Early
<1>14. CASE ResolveBudget \/ ReadBudget \/ ChargeBudget
  BY <1>4, <1>14 DEF ResolveBudget, ReadBudget, ChargeBudget, kilo, Inner, Early
<1>15. CASE CallRaises \/ RegisterTask \/ OpenSession
  BY <1>4, <1>15 DEF CallRaises, RegisterTask, OpenSession, kilo, Inner, Early, In
<1>16. CASE Beside \/ UNCHANGED vars
  <2>1. UNCHANGED <<at, task, loops, attempts, disk>>
    BY <1>16 DEF Beside, vars, work, kilo, AnswerDecision, AnswerPlan, Discard, CreateBudget,
       OtherRunReads, OtherRunCharges, DeadLetter
  <2> QED
    BY <1>3, <2>1
<1> QED
  BY <1>5, <1>6, <1>7, <1>8, <1>9, <1>10, <1>11, <1>12, <1>13, <1>14, <1>15, <1>16
     DEF Next, Run

-----------------------------------------------------------------------------
(* Change sets and verdicts.                                               *)
Stamped(set, verdict) == [set EXCEPT !.status = verdict]

\* A verdict on a change set, and its discard.
LEMMA StampedSets ==
  ASSUME NEW set \in ChangeSets,
         NEW verdict \in {"DETECTED", "VALIDATED", "FAILED_VALIDATION", "DISCARDED"}
  PROVE  /\ Stamped(set, verdict) \in ChangeSets
         /\ Stamped(set, verdict).status = verdict
BY DEF Stamped, ChangeSets

\* No change set has no status.
LEMMA NoChangeIsNone ==
  /\ NoChange.status = "NONE"
  /\ NoChange \notin ChangeSets
BY DEF NoChange, ChangeSets

\* What a verdict does to the change sets.
Given(after, verdict) ==
  /\ after \in [Roles \X Task -> {NoChange} \cup ChangeSets]
  /\ \A t \in Task : after[<<"DEV", t>>] # NoChange <=> changes[<<"DEV", t>>] # NoChange
  /\ \A t \in Task : \/ after[<<"DEV", t>>] = changes[<<"DEV", t>>]
                     \/ after[<<"DEV", t>>].status = verdict
  /\ task \in taskSet => after[<<"DEV", task>>].status = verdict
  /\ task \notin taskSet /\ current # NoTask => after[<<"DEV", current>>].status = verdict

\* The verdict of QA on whatever change set it finds.
LEMMA VerdictGiven ==
  ASSUME Changes, task \in Task,
         NEW verdict \in {"DETECTED", "VALIDATED", "FAILED_VALIDATION", "DISCARDED"}
  PROVE  Given(Verdict(verdict), verdict)
<1>0. PICK after : after = Verdict(verdict)
  OBVIOUS
<1>1. PICK checked : checked = IF task \in taskSet THEN task ELSE current
  OBVIOUS
<1>2. after = IF checked = NoTask THEN changes
              ELSE [changes EXCEPT ![<<"DEV", checked>>].status = verdict]
  BY <1>0, <1>1 DEF Verdict
<1>3. CASE checked = NoTask
  <2>1. after = changes /\ task \notin taskSet /\ current = NoTask
    BY <1>1, <1>2, <1>3, Numbers DEF NoTask, Changes
  <2> QED
    BY <2>1, <1>0 DEF Changes, Given
<1>4. CASE checked # NoTask
  <2>1. checked \in taskSet /\ checked \in Task
    BY <1>1, <1>4 DEF Changes
  <2>2. PICK k : k = <<"DEV", checked>> /\ k \in Roles \X Task
    <3>1. <<"DEV", checked>> \in Roles \X Task
      BY <2>1 DEF Roles
    <3> QED
      BY <3>1
  <2>3. changes[k] \in ChangeSets
    BY <2>1, <2>2 DEF Changes
  <2>4. after = [changes EXCEPT ![k] = Stamped(changes[k], verdict)]
    BY <1>2, <1>4, <2>2 DEF Stamped
  <2>5. PICK r : /\ r = Stamped(changes[k], verdict) /\ r \in ChangeSets
                 /\ r.status = verdict /\ r # NoChange
    BY <2>3, StampedSets, NoChangeIsNone
  <2>6. changes \in [Roles \X Task -> {NoChange} \cup ChangeSets]
    BY DEF Changes
  <2>7. /\ after \in [Roles \X Task -> {NoChange} \cup ChangeSets]
        /\ after[k] = r
        /\ \A j \in Roles \X Task : j # k => after[j] = changes[j]
    BY <2>2, <2>4, <2>5, <2>6
  <2>8. \A t \in Task : IF t = checked THEN after[<<"DEV", t>>] = r
                        ELSE after[<<"DEV", t>>] = changes[<<"DEV", t>>]
    BY <2>2, <2>7 DEF Roles
  <2>9. changes[<<"DEV", checked>>] # NoChange
    BY <2>1 DEF Changes
  <2> QED
    BY <1>0, <1>1, <2>1, <2>5, <2>7, <2>8, <2>9 DEF Given
<1> QED
  BY <1>3, <1>4

\* Every step keeps the change sets typed and the verdicts with their tasks.
LEMMA ChangesKept ==
  ASSUME Position, Revisions, Changes, VerdictsReachTheirTask, [Next]_vars
  PROVE  Changes' /\ VerdictsReachTheirTask'
<1>1. /\ at \in Places /\ task \in Task /\ loops \in {0, 1}
      /\ loops = 0 => passed = {} /\ task = 1
  BY DEF Position
<1>2. /\ changes \in [Roles \X Task -> {NoChange} \cup ChangeSets]
      /\ passed \subseteq Task /\ taskSet \subseteq Task
      /\ \A t \in Task : t \in taskSet <=> changes[<<"DEV", t>>] # NoChange
      /\ \A t \in taskSet : t <= task
      /\ current # NoTask => current \in taskSet
      /\ current \in Task \cup {NoTask}
      /\ \A t \in Task : t < task => t \in passed
      /\ \A t \in passed : t < task \/ (t = task /\ In("ended"))
  BY DEF Changes
<1>3. CASE UNCHANGED <<changes, passed, taskSet, current, task>> /\ ~ In("ended")
  BY <1>3 DEF Changes, VerdictsReachTheirTask, In
<1>4. ASSUME NEW n \in Files \cup {0}, FinishExecution(n)
      PROVE  Changes' /\ VerdictsReachTheirTask'
  <2>1. /\ Ended /\ UNCHANGED <<task, passed>>
        /\ changes' = [changes EXCEPT ![<<Role, task>>] = ChangeSet(n)]
        /\ IF Role = "DEV" /\ Safety # "BLOCKED"
           THEN taskSet' = taskSet \cup {task} /\ current' = task
           ELSE UNCHANGED <<taskSet, current>>
        /\ at'[2] = "calling"
    BY <1>4 DEF FinishExecution, GoTo
  <2>2. PICK set : set = ChangeSet(n)
    OBVIOUS
  <2>3. PICK k : k = <<Role, task>> /\ k \in Roles \X Task
    <3>1. <<Role, task>> \in Roles \X Task
      BY <1>1, Here
    <3> QED
      BY <3>1
  <2>4. set \in {NoChange} \cup ChangeSets /\ (set = NoChange => changes[k] = NoChange)
        /\ (Safety # "BLOCKED" => set # NoChange)
        /\ \/ set = changes[k]
           \/ set.status = "DETECTED" /\ changes[k] = NoChange /\ Safety # "BLOCKED"
    <3>1. set = IF Safety = "BLOCKED" \/ changes[k] # NoChange THEN changes[k]
                ELSE [status |-> "DETECTED", files |-> n, of |-> disk[task]]
      BY <2>2, <2>3 DEF ChangeSet
    <3>2. changes[k] \in {NoChange} \cup ChangeSets
      BY <1>2, <2>3
    <3>3. n \in Nat /\ disk[task] \in Nat
      BY <1>1, Numbers DEF Revisions
    <3>4. [status |-> "DETECTED", files |-> n, of |-> disk[task]] \in ChangeSets
      BY <3>3 DEF ChangeSets
    <3> QED
      BY <3>1, <3>2, <3>4, NoChangeIsNone
  <2>5. /\ changes' \in [Roles \X Task -> {NoChange} \cup ChangeSets]
        /\ changes'[k] = set
        /\ \A j \in Roles \X Task : j # k => changes'[j] = changes[j]
    BY <1>2, <2>1, <2>2, <2>3, <2>4
  <2>6. \A t \in Task : IF t = task /\ Role = "DEV" THEN changes'[<<"DEV", t>>] = set
                        ELSE changes'[<<"DEV", t>>] = changes[<<"DEV", t>>]
    BY <2>3, <2>5 DEF Roles
  <2>7. ~ In("ended") /\ task \notin passed
    <3>1. task \in Nat /\ ~ (task < task)
      BY <1>1, Numbers
    <3>2. at[2] = "executing"
      BY <2>1 DEF Ended, In
    <3> QED
      BY <1>2, <3>1, <3>2 DEF In
  <2>8. \A t \in Task : t \in taskSet' <=> changes'[<<"DEV", t>>] # NoChange
    <3>1. CASE Role = "DEV" /\ Safety # "BLOCKED"
      <4>1. taskSet' = taskSet \cup {task} /\ set # NoChange
        BY <2>1, <2>4, <3>1
      <4>2. \A t \in Task : changes'[<<"DEV", t>>] = IF t = task THEN set
                                                    ELSE changes[<<"DEV", t>>]
        BY <2>6, <3>1
      <4>3. ASSUME NEW t \in Task PROVE t \in taskSet' <=> changes'[<<"DEV", t>>] # NoChange
        <5>1. CASE t = task
          BY <4>1, <4>2, <5>1
        <5>2. CASE t # task
          BY <1>2, <4>1, <4>2, <5>2
        <5> QED
          BY <5>1, <5>2
      <4> QED
        BY <4>3
    <3>2. CASE ~ (Role = "DEV" /\ Safety # "BLOCKED")
      <4>1. taskSet' = taskSet
        BY <2>1, <3>2
      <4>2. \A t \in Task : changes'[<<"DEV", t>>] = changes[<<"DEV", t>>]
        BY <2>3, <2>4, <2>6, <3>2
      <4> QED
        BY <1>2, <4>1, <4>2
    <3> QED
      BY <3>1, <3>2
  <2>9. /\ taskSet' \subseteq Task /\ \A t \in taskSet' : t <= task
        /\ current' # NoTask => current' \in taskSet'
        /\ current' \in Task \cup {NoTask}
    <3>1. task <= task
      BY <1>1, Numbers
    <3>2. CASE Role = "DEV" /\ Safety # "BLOCKED"
      <4>1. taskSet' = taskSet \cup {task} /\ current' = task
        BY <2>1, <3>2
      <4> QED
        BY <1>1, <1>2, <3>1, <4>1
    <3>3. CASE ~ (Role = "DEV" /\ Safety # "BLOCKED")
      <4>1. taskSet' = taskSet /\ current' = current
        BY <2>1, <3>3
      <4> QED
        BY <1>2, <4>1
    <3> QED
      BY <3>2, <3>3
  <2>10. Changes'
    BY <1>2, <2>1, <2>5, <2>7, <2>8, <2>9 DEF Changes, In
  <2>11. \A t \in passed : changes'[<<"DEV", t>>] = changes[<<"DEV", t>>]
    BY <1>2, <2>6, <2>7
  <2>12. ASSUME NEW t \in Task, changes'[<<"DEV", t>>].status = "VALIDATED" PROVE t \in passed
    <3>1. CASE changes'[<<"DEV", t>>] = changes[<<"DEV", t>>]
      BY <2>12, <3>1 DEF VerdictsReachTheirTask
    <3>2. CASE changes'[<<"DEV", t>>] # changes[<<"DEV", t>>]
      BY <2>3, <2>4, <2>6, <2>12, <3>2
    <3> QED
      BY <3>1, <3>2
  <2>13. VerdictsReachTheirTask'
    BY <2>1, <2>11, <2>12 DEF VerdictsReachTheirTask
  <2> QED
    BY <2>10, <2>13
<1>5. CASE QaFails
  <2>1. /\ changes' = Verdict("FAILED_VALIDATION") /\ passed = {} /\ at'[2] = "iterating"
        /\ UNCHANGED <<task, passed, taskSet, current>>
    BY <1>1, <1>5 DEF QaFails, GoTo
  <2>2. /\ changes' \in [Roles \X Task -> {NoChange} \cup ChangeSets]
        /\ \A t \in Task : changes'[<<"DEV", t>>] # NoChange <=> changes[<<"DEV", t>>] # NoChange
        /\ \A t \in Task : \/ changes'[<<"DEV", t>>] = changes[<<"DEV", t>>]
                           \/ changes'[<<"DEV", t>>].status = "FAILED_VALIDATION"
    <3>1. Given(Verdict("FAILED_VALIDATION"), "FAILED_VALIDATION")
      BY <1>1, VerdictGiven
    <3> QED
      BY <2>1, <3>1 DEF Given
  <2>3. Changes'
    BY <1>2, <2>1, <2>2 DEF Changes
  <2> QED
    BY <2>1, <2>2, <2>3 DEF VerdictsReachTheirTask
<1>6. CASE QaPasses
  <2>1. /\ changes' = Verdict("VALIDATED") /\ passed' = passed \cup {task} /\ In("verdict")
        /\ UNCHANGED <<taskSet, current>>
        /\ \/ task < Tasks /\ task' = task + 1
           \/ task' = task /\ at'[2] = "ended"
    BY <1>6 DEF QaPasses, GoTo
  <2>2. /\ changes' \in [Roles \X Task -> {NoChange} \cup ChangeSets]
        /\ \A t \in Task : changes'[<<"DEV", t>>] # NoChange <=> changes[<<"DEV", t>>] # NoChange
        /\ \A t \in Task : \/ changes'[<<"DEV", t>>] = changes[<<"DEV", t>>]
                           \/ changes'[<<"DEV", t>>].status = "VALIDATED"
        /\ task \in taskSet => changes'[<<"DEV", task>>].status = "VALIDATED"
        /\ task \notin taskSet /\ current # NoTask
             => changes'[<<"DEV", current>>].status = "VALIDATED"
    <3>1. Given(Verdict("VALIDATED"), "VALIDATED")
      BY <1>1, VerdictGiven
    <3> QED
      BY <2>1, <3>1 DEF Given
  <2>3. task' \in Task /\ task <= task' /\ task' \in Nat /\ task \in Nat
    BY <1>1, <2>1, Numbers
  <2>4. \A t \in Task : t < task' => t \in passed'
    BY <1>1, <1>2, <2>1, <2>3, Numbers
  <2>5. \A t \in passed' : t < task' \/ (t = task' /\ at'[2] = "ended")
    BY <1>1, <1>2, <2>1, <2>3, Numbers DEF In
  <2>6. \A t \in taskSet' : t <= task'
    BY <1>2, <2>1, <2>3, Numbers
  <2>7. Changes'
    BY <1>1, <1>2, <2>1, <2>2, <2>4, <2>5, <2>6 DEF Changes, In
  <2>8. ASSUME NEW t \in Task, changes'[<<"DEV", t>>].status = "VALIDATED" PROVE t \in passed'
    <3>1. CASE changes'[<<"DEV", t>>] = changes[<<"DEV", t>>]
      BY <2>1, <2>8, <3>1 DEF VerdictsReachTheirTask
    <3>2. CASE changes'[<<"DEV", t>>] # changes[<<"DEV", t>>]
      <4>1. t \in taskSet
        <5>1. changes'[<<"DEV", t>>] # NoChange
          BY <2>8, NoChangeIsNone
        <5> QED
          BY <1>2, <2>2, <5>1
      <4> QED
        BY <1>1, <1>2, <2>1, <4>1, Numbers
    <3> QED
      BY <3>1, <3>2
  <2>9. ASSUME NEW t \in passed'
        PROVE  changes'[<<"DEV", t>>].status \notin {"DETECTED", "FAILED_VALIDATION"}
    <3>1. CASE t \in passed
      <4>1. t \in Task /\ changes[<<"DEV", t>>].status \notin {"DETECTED", "FAILED_VALIDATION"}
        BY <1>2, <3>1 DEF VerdictsReachTheirTask
      <4> QED
        BY <2>2, <4>1
    <3>2. CASE t = task
      <4>1. CASE task \in taskSet
        BY <2>2, <3>2, <4>1
      <4>2. CASE task \notin taskSet
        <5>1. changes'[<<"DEV", task>>] = NoChange
          BY <1>1, <1>2, <2>2, <4>2
        <5> QED
          BY <3>2, <5>1, NoChangeIsNone
      <4> QED
        BY <4>1, <4>2
    <3> QED
      BY <2>1, <3>1, <3>2
  <2>10. VerdictsReachTheirTask'
    BY <2>8, <2>9 DEF VerdictsReachTheirTask
  <2> QED
    BY <2>7, <2>10
<1>7. ASSUME NEW k \in DOMAIN changes, Discard(k)
      PROVE  Changes' /\ VerdictsReachTheirTask'
  <2>1. /\ changes[k] # NoChange /\ UNCHANGED <<task, passed, taskSet, current, at>>
        /\ changes' = [changes EXCEPT ![k].status = "DISCARDED"]
    BY <1>7 DEF Discard, work
  <2>2. k \in Roles \X Task /\ changes[k] \in ChangeSets
    BY <1>2, <1>7, <2>1
  <2>3. PICK r : /\ r = Stamped(changes[k], "DISCARDED") /\ r \in ChangeSets
                 /\ r.status = "DISCARDED" /\ r # NoChange
    BY <2>2, StampedSets, NoChangeIsNone
  <2>4. changes' = [changes EXCEPT ![k] = r]
    BY <2>1, <2>3 DEF Stamped
  <2>5. /\ changes' \in [Roles \X Task -> {NoChange} \cup ChangeSets]
        /\ \A j \in Roles \X Task : IF j = k THEN changes'[j] = r ELSE changes'[j] = changes[j]
    BY <1>2, <2>2, <2>3, <2>4
  <2>6. \A t \in Task : <<"DEV", t>> \in Roles \X Task
    BY DEF Roles
  <2>7. \A t \in Task : \/ changes'[<<"DEV", t>>] = changes[<<"DEV", t>>]
                        \/ /\ changes'[<<"DEV", t>>].status = "DISCARDED"
                           /\ changes'[<<"DEV", t>>] # NoChange /\ changes[<<"DEV", t>>] # NoChange
    BY <2>1, <2>3, <2>5, <2>6
  <2>8. Changes'
    BY <1>2, <2>1, <2>5, <2>7 DEF Changes, In
  <2>9. VerdictsReachTheirTask'
    BY <2>1, <2>7 DEF VerdictsReachTheirTask
  <2> QED
    BY <2>8, <2>9
<1>8. CASE \/ StartStep \/ BeginExecution \/ AttemptRaises \/ SkipExecution
           \/ RegisterTask \/ OpenSession \/ ResolveBudget \/ ReadBudget \/ ChargeBudget
           \/ JudgeBudget \/ CallRaises \/ DevDone \/ Iterate
           \/ \E o \in {"SUCCESS", "FAILED"} : Attempt(o)
  <2>1. UNCHANGED <<changes, passed, taskSet, current, task>> /\ ~ In("ended")
    BY <1>8 DEF StartStep, BeginExecution, AttemptRaises, SkipExecution, RegisterTask,
       OpenSession, ResolveBudget, ReadBudget, ChargeBudget, JudgeBudget, CallRaises, DevDone, Iterate, Attempt, NextAttempt, In, kilo, work
  <2> QED
    BY <1>3, <2>1
<1>9. CASE UNCHANGED <<changes, passed, taskSet, current, task, at>>
  BY <1>9 DEF Changes, VerdictsReachTheirTask, In
<1>10. CASE \/ \E d \in decisions, a \in {"ACCEPTED", "REJECTED"} : AnswerDecision(d, a)
            \/ \E p \in plans, a \in {"APPROVED", "REJECTED"} : AnswerPlan(p, a)
            \/ \E max \in {0, Limit} : CreateBudget(max)
            \/ (\E b \in 1..Latest : OtherRunReads(b)) \/ OtherRunCharges \/ DeadLetter
            \/ UNCHANGED vars
  <2>1. UNCHANGED <<changes, passed, taskSet, current, task, at>>
    BY <1>10 DEF AnswerDecision, AnswerPlan, CreateBudget, OtherRunReads, OtherRunCharges,
       DeadLetter, vars, work, kilo
  <2> QED
    BY <1>9, <2>1
<1> QED
  BY <1>4, <1>5, <1>6, <1>7, <1>8, <1>10 DEF Next, Run, Beside

-----------------------------------------------------------------------------
(* Budgets, the notes of the run, and its strategies.                       *)
\* record_usage on one budget.
LEMMA BudgetCharged ==
  ASSUME budgets \in Seq(BudgetRecords), NEW i \in 1..Len(budgets), NEW u \in Nat,
         NEW after, after = [budgets EXCEPT ![i].used = u]
  PROVE  /\ after \in Seq(BudgetRecords) /\ Len(after) = Len(budgets)
         /\ after[i].max \in Nat /\ after[i].used \in Nat
<1>1. budgets[i] \in BudgetRecords
  OBVIOUS
<1>2. PICK b : b = [budgets[i] EXCEPT !.used = u]
  OBVIOUS
<1>3. b \in BudgetRecords /\ b.max \in Nat /\ b.used \in Nat
  BY <1>1, <1>2 DEF BudgetRecords
<1>4. after = [budgets EXCEPT ![i] = b]
  BY <1>2
<1>5. after \in Seq(BudgetRecords) /\ Len(after) = Len(budgets)
  BY <1>3, <1>4, ExceptSeq
<1>6. after[i] = b
  BY <1>4
<1> QED
  BY <1>3, <1>5, <1>6

\* Every step keeps the budgets typed.
LEMMA MoneyKept ==
  ASSUME Money, [Next]_vars
  PROVE  Money'
<1>1. /\ budgets \in Seq(BudgetRecords) /\ Len(budgets) \in Nat
      /\ charge \in Charges /\ other \in Charges
      /\ charge.id \in 0..Len(budgets) /\ charge.used \in Nat
      /\ other.id \in 0..Len(budgets) /\ other.used \in Nat
  BY DEF Money, Charges
<1>2. CASE UNCHANGED money
  BY <1>2 DEF Money, Charges, money
<1>3. NoCharge \in Charges
  BY <1>1 DEF NoCharge, Charges
<1>4. \A i \in 1..Len(budgets) : [id |-> i, used |-> budgets[i].used] \in Charges
  <2>1. \A i \in 1..Len(budgets) : budgets[i] \in BudgetRecords /\ i \in 0..Len(budgets)
    BY <1>1
  <2>2. \A b \in BudgetRecords : b.used \in Nat
    BY DEF BudgetRecords
  <2> QED
    BY <2>1, <2>2 DEF Charges
<1>5. CASE ResolveBudget \/ ReadBudget
  <2>1. UNCHANGED <<budgets, other>>
    BY <1>5 DEF ResolveBudget, ReadBudget
  <2>2. CASE ResolveBudget
    <3>1. charge' = [id |-> Len(budgets), used |-> 0] /\ Len(budgets) \in 0..Len(budgets)
      BY <1>1, <2>2 DEF ResolveBudget, Latest
    <3>2. charge' \in Charges
      BY <3>1 DEF Charges
    <3> QED
      BY <1>1, <2>1, <3>2 DEF Money, Charges
  <2>3. CASE ReadBudget
    <3>1. PICK i \in 0..Len(budgets) : i = Active
      BY <1>1 DEF Active, Latest
    <3>2. charge' = IF i = 0 THEN NoCharge ELSE [id |-> i, used |-> budgets[i].used]
      BY <2>3, <3>1 DEF ReadBudget
    <3>3. i # 0 => i \in 1..Len(budgets)
      BY <1>1
    <3>4. charge' \in Charges
      BY <1>3, <1>4, <3>2, <3>3
    <3> QED
      BY <1>1, <2>1, <3>4 DEF Money, Charges
  <2> QED
    BY <1>5, <2>2, <2>3
<1>6. CASE ChargeBudget
  <2>1. /\ charge' = charge /\ other' = other
        /\ budgets' = IF charge.id = 0 THEN budgets
                      ELSE [budgets EXCEPT ![charge.id].used = charge.used + 1]
    BY <1>6 DEF ChargeBudget
  <2>2. budgets' \in Seq(BudgetRecords) /\ Len(budgets') = Len(budgets)
    <3>1. CASE charge.id = 0
      BY <1>1, <2>1, <3>1
    <3>2. CASE charge.id # 0
      <4>1. PICK i \in 1..Len(budgets), u \in Nat : i = charge.id /\ u = charge.used + 1
        BY <1>1, <3>2
      <4>2. budgets' = [budgets EXCEPT ![i].used = u]
        BY <2>1, <3>2, <4>1
      <4> QED
        BY <1>1, <4>2, BudgetCharged
    <3> QED
      BY <3>1, <3>2
  <2>3. Charges' = Charges
    BY <2>2 DEF Charges
  <2> QED
    BY <1>1, <2>1, <2>2, <2>3 DEF Money
<1>7. ASSUME NEW max \in {0, Limit}, CreateBudget(max) PROVE Money'
  <2>1. /\ budgets' = Append(budgets, [max |-> max, used |-> 0]) /\ UNCHANGED <<charge, other>>
    BY <1>7 DEF CreateBudget
  <2>2. [max |-> max, used |-> 0] \in BudgetRecords
    BY Numbers DEF BudgetRecords
  <2>3. budgets' \in Seq(BudgetRecords) /\ Len(budgets') = Len(budgets) + 1
    BY <1>1, <2>1, <2>2
  <2>4. charge.id \in 0..Len(budgets') /\ other.id \in 0..Len(budgets')
    BY <1>1, <2>3
  <2>5. charge \in Charges' /\ other \in Charges'
    BY <1>1, <2>4 DEF Charges
  <2> QED
    BY <2>1, <2>3, <2>5 DEF Money
<1>8. ASSUME NEW b \in 1..Latest, OtherRunReads(b) PROVE Money'
  <2>1. /\ UNCHANGED <<budgets, charge>> /\ other' = [id |-> b, used |-> budgets[b].used]
    BY <1>8 DEF OtherRunReads
  <2>2. other' \in Charges
    BY <1>4, <2>1 DEF Latest
  <2> QED
    BY <1>1, <2>1, <2>2 DEF Money, Charges
<1>9. CASE OtherRunCharges
  <2>1. /\ other # NoCharge /\ other' = NoCharge /\ charge' = charge
        /\ budgets' = [budgets EXCEPT ![other.id].used = other.used + 1]
    BY <1>9 DEF OtherRunCharges
  <2>2. budgets' \in Seq(BudgetRecords) /\ Len(budgets') = Len(budgets)
    <3>1. CASE other.id = 0
      <4>1. 0 \notin DOMAIN budgets
        BY <1>1
      <4>2. budgets' = budgets
        BY <1>1, <2>1, <3>1, <4>1
      <4> QED
        BY <1>1, <4>2
    <3>2. CASE other.id # 0
      <4>1. PICK i \in 1..Len(budgets), u \in Nat : i = other.id /\ u = other.used + 1
        BY <1>1, <3>2
      <4>2. budgets' = [budgets EXCEPT ![i].used = u]
        BY <2>1, <4>1
      <4> QED
        BY <1>1, <4>2, BudgetCharged
    <3> QED
      BY <3>1, <3>2
  <2>3. Charges' = Charges
    BY <2>2 DEF Charges
  <2> QED
    BY <1>1, <1>3, <2>1, <2>2, <2>3 DEF Money
<1>10. ASSUME NEW o, Attempt(o) PROVE Money'
  BY <1>2, <1>10 DEF Attempt
<1>11. ASSUME NEW n, FinishExecution(n) PROVE Money'
  BY <1>2, <1>11 DEF FinishExecution
<1>12. ASSUME NEW d, NEW a, AnswerDecision(d, a) \/ AnswerPlan(d, a) \/ Discard(d) PROVE Money'
  BY <1>2, <1>12 DEF AnswerDecision, AnswerPlan, Discard
<1>13. CASE JudgeBudget
  BY <1>1, <1>3, <1>13 DEF JudgeBudget, Money, Charges
<1>14. CASE \/ StartStep \/ BeginExecution \/ AttemptRaises \/ SkipExecution \/ CallRaises
            \/ RegisterTask \/ OpenSession \/ DevDone \/ QaFails \/ Iterate \/ QaPasses \/ DeadLetter \/ UNCHANGED vars
  BY <1>2, <1>14 DEF StartStep, BeginExecution, AttemptRaises, SkipExecution, CallRaises,
     RegisterTask, OpenSession, DevDone, QaFails, Iterate, QaPasses, DeadLetter, vars
<1> QED
  BY <1>5, <1>6, <1>7, <1>8, <1>9, <1>10, <1>11, <1>12, <1>13, <1>14 DEF Next, Run, Beside

\* The status of a run never improves.
LEMMA WorseCosts ==
  ASSUME NEW seen \in Statuses, NEW new \in Statuses
  PROVE  Worse(seen, new) \in Statuses /\ (seen = "BLOCK" => Worse(seen, new) = "BLOCK")
BY CostRanks DEF Worse, Statuses

\* The change set of an execution the validator let pass.
LEMMA ChangeSetRecords ==
  ASSUME Position, Revisions, Changes, NEW n \in Files \cup {0}, Safety # "BLOCKED"
  PROVE  ChangeSet(n) \in ChangeSets
<1>1. PICK k : k = <<Role, task>> /\ k \in Roles \X Task
  <2>1. <<Role, task>> \in Roles \X Task
    BY Here DEF Position
  <2> QED
    BY <2>1
<1>2. changes[k] \in {NoChange} \cup ChangeSets
  BY <1>1 DEF Changes
<1>3. n \in Nat /\ disk[task] \in Nat
  BY Numbers DEF Position, Revisions
<1>4. [status |-> "DETECTED", files |-> n, of |-> disk[task]] \in ChangeSets
  BY <1>3 DEF ChangeSets
<1> QED
  BY <1>1, <1>2, <1>4 DEF ChangeSet

\* Every step keeps the notes of the run, its dead letter and its BLOCK.
LEMMA NotedKept ==
  ASSUME Position, Revisions, Changes, Noted, Money, [Next]_vars
  PROVE  /\ Noted'
         /\ noted.dead => noted'.dead
         /\ noted.cost = "BLOCK" => noted'.cost = "BLOCK"
<1> DEFINE Records == [files : Nat, retry : 0..(MaxAttempts - 1), dead : BOOLEAN, cost : Statuses]
           Grown == /\ Noted' /\ (noted.dead => noted'.dead)
                    /\ (noted.cost = "BLOCK" => noted'.cost = "BLOCK")
<1>1. /\ noted \in Records /\ retried \in BOOLEAN /\ dead \in BOOLEAN
      /\ noted.dead => dead
  BY DEF Noted
<1>2. CASE UNCHANGED <<noted, retried, dead>>
  BY <1>2 DEF Noted
<1>3. CASE UNCHANGED <<retried, dead>> /\ noted' = [noted EXCEPT !.dead = dead]
  BY <1>1, <1>3 DEF Noted
<1>4. CASE BeginExecution \/ RegisterTask \/ QaFails \/ QaPasses
  BY <1>3, <1>4 DEF BeginExecution, RegisterTask, QaFails, QaPasses, SyncDeadLetters, kilo
<1>5. CASE OpenSession
  <2>1. UNCHANGED <<retried, dead>> /\ 0 \in 0..(MaxAttempts - 1)
    BY <1>5, Numbers DEF OpenSession, kilo
  <2>2. noted' = noted \/ noted' = [noted EXCEPT !.retry = 0, !.dead = dead]
    BY <1>5 DEF OpenSession
  <2> QED
    BY <1>1, <2>1, <2>2 DEF Noted
<1>6. ASSUME NEW n \in Files \cup {0}, FinishExecution(n) PROVE Grown
  <2>1. /\ noted' = [noted EXCEPT !.retry = Retries, !.dead = dead,
                       !.files = IF Safety = "BLOCKED" THEN noted.files ELSE ChangeSet(n).files]
        /\ retried' = (retried \/ Retries > 0) /\ dead' = dead
    BY <1>6 DEF FinishExecution
  <2>2. Retries \in 0..(MaxAttempts - 1)
    <3>1. MaxAttempts \in Nat \ {0} /\ Len(attempts) \in Nat /\ Len(attempts) <= MaxAttempts
      BY Numbers DEF Revisions
    <3>2. attempts # <<>> => Len(attempts) > 0
      BY DEF Revisions
    <3> QED
      BY <3>1, <3>2 DEF Retries
  <2>3. PICK f : f = IF Safety = "BLOCKED" THEN noted.files ELSE ChangeSet(n).files
    OBVIOUS
  <2>4. f \in Nat
    <3>1. \A set \in ChangeSets : set.files \in Nat
      BY DEF ChangeSets
    <3>2. Safety # "BLOCKED" => ChangeSet(n).files \in Nat
      BY <3>1, ChangeSetRecords
    <3> QED
      BY <1>1, <2>3, <3>2
  <2>5. PICK r : r = Retries /\ r \in 0..(MaxAttempts - 1)
    BY <2>2
  <2>6. noted' = [noted EXCEPT !.retry = r, !.dead = dead, !.files = f]
    BY <2>1, <2>3, <2>5
  <2>7. noted' \in Records /\ noted'.dead = dead /\ noted'.cost = noted.cost
    BY <1>1, <2>4, <2>5, <2>6
  <2>8. retried' \in BOOLEAN
    BY <2>1
  <2> QED
    BY <1>1, <2>1, <2>7, <2>8 DEF Noted
<1>7. CASE JudgeBudget
  <2>1. PICK c : c = IF Active = 0 THEN "ALLOW" ELSE EvaluateBudget(budgets[Active])
    OBVIOUS
  <2>2. noted' = [noted EXCEPT !.cost = Worse(noted.cost, c)] /\ UNCHANGED <<retried, dead>>
    BY <1>7, <2>1 DEF JudgeBudget, kilo
  <2>3. c \in Statuses
    <3>1. CASE Active = 0
      BY <2>1, <3>1 DEF Statuses
    <3>2. CASE Active # 0
      <4>1. PICK i \in 1..Len(budgets) : i = Active
        BY <3>2 DEF Money, Charges, Active, Latest
      <4>2. budgets[i] \in BudgetRecords
        BY DEF Money
      <4>3. budgets[i].max \in Nat /\ budgets[i].used \in Nat
        BY <4>2 DEF BudgetRecords
      <4> QED
        BY <2>1, <3>2, <4>1, <4>3, BudgetStatus
    <3> QED
      BY <3>1, <3>2
  <2>4. PICK w : w = Worse(noted.cost, c) /\ w \in Statuses /\ (noted.cost = "BLOCK" => w = "BLOCK")
    BY <1>1, <2>3, WorseCosts
  <2>5. noted' = [noted EXCEPT !.cost = w]
    BY <2>2, <2>4
  <2> QED
    BY <1>1, <2>2, <2>4, <2>5 DEF Noted
<1>8. CASE DeadLetter
  <2>1. dead' = TRUE /\ UNCHANGED <<noted, retried>>
    BY <1>8 DEF DeadLetter, kilo
  <2> QED
    BY <1>1, <2>1 DEF Noted
<1>9. ASSUME NEW o, Attempt(o) PROVE Grown
  BY <1>2, <1>9 DEF Attempt
<1>10. ASSUME NEW d, NEW a,
              AnswerDecision(d, a) \/ AnswerPlan(d, a) \/ Discard(d) \/ CreateBudget(d)
                \/ OtherRunReads(d)
       PROVE  Grown
  BY <1>2, <1>10 DEF AnswerDecision, AnswerPlan, Discard, CreateBudget, OtherRunReads, kilo
<1>11. CASE \/ StartStep \/ AttemptRaises \/ SkipExecution \/ ResolveBudget \/ ReadBudget
            \/ ChargeBudget \/ CallRaises \/ DevDone \/ Iterate \/ OtherRunCharges
            \/ UNCHANGED vars
  BY <1>2, <1>11 DEF StartStep, AttemptRaises, SkipExecution, ResolveBudget, ReadBudget,
     ChargeBudget, CallRaises, DevDone, Iterate, OtherRunCharges, vars, kilo
<1> QED
  BY <1>4, <1>5, <1>6, <1>7, <1>8, <1>9, <1>10, <1>11 DEF Next, Run, Beside, Latest

\* What a strategy evaluated now is like.
LEMMA Strategy ==
  ASSUME Position, Noted, NEW layer, ResolveStrategy(layer)
  PROVE  /\ {strategy'.qa, strategy'.risk, strategy'.sandbox} \subseteq Level
         /\ strategy'.risk = 3 <=> noted.dead
         /\ strategy'.type = "COST_OPTIMIZED" /\ strategy'.autonomy = "MANUAL"
              <=> noted.cost = "BLOCK"
         /\ noted.cost = "BLOCK" => strategy'.model = "fake"
<1>1. PICK c : c = Context(layer)
  OBVIOUS
<1>2. /\ c.confidence \in {80, 84} /\ c.dead = noted.dead /\ c.cost = noted.cost
      /\ noted.dead \in BOOLEAN
  BY <1>1 DEF Context, Noted
<1>3. PICK s \in Strategies :
        /\ s = Resolved(StrategyRules(c))
        /\ s.risk = 3 <=> c.dead
        /\ s.type = "COST_OPTIMIZED" /\ s.autonomy = "MANUAL" <=> c.cost = "BLOCK"
  BY <1>2, StrategyBounds
<1>4. /\ strategy'.type = s.type /\ strategy'.autonomy = s.autonomy /\ strategy'.qa = s.qa
      /\ strategy'.risk = s.risk /\ strategy'.sandbox = s.sandbox
      /\ strategy'.model = ModelFor(c, s.type)
  BY <1>1, <1>3 DEF ResolveStrategy, EvaluateExecutionStrategy
<1>5. s.qa \in Level /\ s.risk \in Level /\ s.sandbox \in Level
  BY DEF Strategies
<1>6. noted.cost = "BLOCK" => strategy'.model = "fake"
  BY <1>2, <1>4, BlockedIsSimulated
<1> QED
  BY <1>2, <1>3, <1>4, <1>5, <1>6

\* Strategies change only where a step of the run evaluates one.
LEMMA StrategySteps ==
  ASSUME [Next]_vars
  PROVE  strategy' = strategy \/ \E layer \in {"WORKFLOW", "KILO"} : ResolveStrategy(layer)
BY DEF Next, Run, Beside, vars, StartStep, BeginExecution, FinishExecution, Attempt,
       AttemptRaises, SkipExecution, ResolveBudget, ReadBudget, ChargeBudget, JudgeBudget,
       CallRaises, DevDone, QaFails, RegisterTask, OpenSession, Iterate, QaPasses, AnswerDecision, AnswerPlan, Discard, CreateBudget, OtherRunReads,
       OtherRunCharges, DeadLetter

\* Every step keeps the caution of the strategy.
LEMMA ChosenKept ==
  ASSUME Position, Revisions, Changes, Noted, Money, Chosen, [Next]_vars
  PROVE  /\ Chosen'
         /\ strategy.risk = 3 => strategy'.risk = 3
         /\ Thrifty => strategy'.type = "COST_OPTIMIZED" /\ strategy'.model = "fake"
<1>1. /\ noted.dead => noted'.dead
      /\ noted.cost = "BLOCK" => noted'.cost = "BLOCK"
  BY NotedKept
<1>2. CASE strategy' = strategy
  BY <1>1, <1>2 DEF Chosen, Thrifty
<1>3. ASSUME NEW layer, ResolveStrategy(layer)
      PROVE  /\ Chosen'
             /\ strategy.risk = 3 => strategy'.risk = 3
             /\ Thrifty => strategy'.type = "COST_OPTIMIZED" /\ strategy'.model = "fake"
  <2>1. /\ {strategy'.qa, strategy'.risk, strategy'.sandbox} \subseteq Level
        /\ strategy'.risk = 3 <=> noted.dead
        /\ strategy'.type = "COST_OPTIMIZED" /\ strategy'.autonomy = "MANUAL"
             <=> noted.cost = "BLOCK"
        /\ noted.cost = "BLOCK" => strategy'.model = "fake"
    BY <1>3, Strategy
  <2> QED
    BY <1>1, <2>1 DEF Chosen, Thrifty
<1> QED
  BY <1>2, <1>3, StrategySteps

-----------------------------------------------------------------------------
(* Decisions and plans.                                                    *)
\* The decision and the plan for one signal agree.
Escalates(d, p) ==
  /\ d.type = "STOP" <=> "ESCALATE_TASK" \in p.mutations
  /\ d.type = "STOP" => d.review /\ p.review

\* A decision and a plan made of the same facts.
LEMMA Judged ==
  ASSUME Position, NEW c, c.missing = FALSE, c.tooLarge = FALSE, c.autonomy = "MANUAL",
         NEW source \in Sources
  PROVE  /\ Decided(source, c) \in DecisionRecords /\ Planned(source, c) \in PlanRecords
         /\ Decided(source, c).for = Signal(source, task)
         /\ Planned(source, c).for = Signal(source, task)
         /\ Escalates(Decided(source, c), Planned(source, c))
<1>1. Signal(source, task) \in Signals
  BY Here DEF Signal, Signals, Position
<1>2. PICK type : type = ResolveDecision(c)
  OBVIOUS
<1>3. /\ type \in DecisionType
      /\ type = "STOP" <=> c.dead \/ c.retry >= c.max
  BY <1>2, DecisionMade
<1>4. ~ CanApplyDecision(c, type)
  BY DEF CanApplyDecision
<1>5. ShouldRequireHumanReview(c, type) \in BOOLEAN
  BY DEF ShouldRequireHumanReview
<1>6. type = "STOP" => ShouldRequireHumanReview(c, type)
  BY DEF ShouldRequireHumanReview
<1>7. PICK d : d = Decided(source, c)
  OBVIOUS
<1>8. d = [for |-> Signal(source, task), type |-> type,
           review |-> ShouldRequireHumanReview(c, type), status |-> "PROPOSED"]
  BY <1>2, <1>4, <1>7 DEF Decided
<1>9. d \in DecisionRecords /\ d.type = type /\ d.for = Signal(source, task)
      /\ (type = "STOP" => d.review)
  BY <1>1, <1>3, <1>5, <1>6, <1>8 DEF DecisionRecords
<1>10. /\ Mutations(c) \subseteq MutationTypes
       /\ "ESCALATE_TASK" \in Mutations(c) <=> c.dead \/ c.retry >= c.max
  BY DEF Mutations, MutationTypes
<1>11. PICK p : p = Planned(source, c)
  OBVIOUS
<1>12. PICK review : review = \E m \in Mutations(c) : RequiresHumanReview(m)
  OBVIOUS
<1>13. review \in BOOLEAN /\ ("ESCALATE_TASK" \in Mutations(c) => review)
  BY <1>12 DEF RequiresHumanReview
<1>14. p = [for |-> Signal(source, task), mutations |-> Mutations(c), review |-> review,
            status |-> "PROPOSED"]
  BY <1>11, <1>12 DEF Planned
<1>15. p \in PlanRecords /\ p.for = Signal(source, task) /\ p.mutations = Mutations(c)
       /\ ("ESCALATE_TASK" \in Mutations(c) => p.review)
  BY <1>1, <1>10, <1>13, <1>14 DEF PlanRecords
<1> QED
  BY <1>3, <1>7, <1>9, <1>10, <1>11, <1>15 DEF Escalates

\* What the run is past it stays past.
LEMMA PastStays ==
  ASSUME Position, [Next]_vars, NEW s \in Signals, Past(s)
  PROVE  Past(s)'
<1>1. /\ at \in Places /\ task \in Task /\ loops \in {0, 1}
      /\ loops = 0 => task = 1 /\ passed = {}
      /\ In("iterating") => loops = 0
      /\ Tasks \in Nat /\ Task = 1..Tasks
  BY Numbers DEF Position
<1>2. s[1] \in Sources /\ s[2] \in Roles /\ s[3] \in Task /\ s[4] \in {0, 1}
  BY DEF Signals
<1>3. CASE UNCHANGED <<at, task, loops>>
  BY <1>3 DEF Past, In, Role
<1>4. ASSUME NEW place \in Inner \cup {"opening"}, GoTo(place),
             place = "opening" => Role = "DEV", UNCHANGED <<task, loops>>, ~ In("iterating"),
             place \in Early \cup {"executing"} => at[2] \in Early
      PROVE  Past(s)'
  <2>1. Role' = Role /\ at'[2] = place
    BY <1>1, <1>4, MovesWithin
  <2> QED
    BY <1>4, <2>1 DEF Past, In
<1>5. CASE JudgeBudget
  <2>1. /\ Role' = Role /\ at'[2] \in {"done", "verdict"} /\ UNCHANGED <<task, loops>>
        /\ ~ In("iterating")
    BY <1>5 DEF JudgeBudget, GoTo, Role, In
  <2> QED
    BY <2>1 DEF Past, In, Early
<1>6. CASE DevDone
  <2>1. /\ Role' = "QA" /\ UNCHANGED <<task, loops>> /\ In("done")
    BY <1>6 DEF DevDone, Role
  <2>2. Role = "DEV" /\ ~ In("iterating")
    BY <1>1, <2>1, Here DEF In, Roles, Inner
  <2> QED
    BY <2>1, <2>2 DEF Past
<1>7. CASE QaFails
  <2>1. /\ Role' = Role /\ at'[2] = "iterating" /\ UNCHANGED <<task, loops>>
    BY <1>7 DEF QaFails, GoTo, Role
  <2> QED
    BY <2>1 DEF Past, In, Early
<1>8. CASE Iterate
  <2>1. /\ loops = 0 /\ loops' = 1
    BY <1>1, <1>8 DEF Iterate
  <2> QED
    BY <1>2, <2>1 DEF Past
<1>9. CASE QaPasses
  <2>1. /\ loops' = loops /\ loops > 0
        /\ \/ task' = task + 1
           \/ task' = task /\ Role' = Role /\ at'[2] = "ended"
    BY <1>9 DEF QaPasses, GoTo, Role
  <2> QED
    BY <1>1, <1>2, <2>1 DEF Past, In, Early
<1>10. CASE StartStep
  BY <1>4, <1>10, StepStarted DEF In, Inner, Early
<1>11. CASE BeginExecution
  BY <1>4, <1>11 DEF BeginExecution, In, Inner, Early
<1>12. CASE SkipExecution
  BY <1>4, <1>12 DEF SkipExecution, In, Inner, Early
<1>13. ASSUME NEW n, FinishExecution(n) PROVE Past(s)'
  BY <1>4, <1>13 DEF FinishExecution, Ended, In, Inner, Early
<1>14. CASE AttemptRaises
  BY <1>4, <1>14 DEF AttemptRaises, NextAttempt, In, Inner, Early
<1>15. CASE ResolveBudget \/ ReadBudget \/ ChargeBudget
  BY <1>4, <1>15 DEF ResolveBudget, ReadBudget, ChargeBudget, In, Inner, Early
<1>16. CASE CallRaises \/ RegisterTask \/ OpenSession
  BY <1>4, <1>16 DEF CallRaises, RegisterTask, OpenSession, In, Inner, Early
<1>17. ASSUME NEW o, Attempt(o) PROVE Past(s)'
  BY <1>3, <1>17 DEF Attempt, work
<1>18. CASE Beside \/ UNCHANGED vars
  <2>1. UNCHANGED work
    BY <1>18 DEF Beside, vars, AnswerDecision, AnswerPlan, Discard, CreateBudget, OtherRunReads,
       OtherRunCharges, DeadLetter
  <2> QED
    BY <1>3, <2>1 DEF work
<1> QED
  BY <1>5, <1>6, <1>7, <1>8, <1>9, <1>10, <1>11, <1>12, <1>13, <1>14, <1>15, <1>16, <1>17,
     <1>18 DEF Next, Run

\* New decisions and plans are of signals that were never given before.
LEMMA GoverningGrows ==
  ASSUME Position, Governing, [Next]_vars,
         NEW D \in SUBSET DecisionRecords, NEW P \in SUBSET PlanRecords,
         decisions' = decisions \cup D, plans' = plans \cup P,
         \A d \in D : ~ Past(d.for) /\ Past(d.for)',
         \A p \in P : ~ Past(p.for) /\ Past(p.for)',
         \A d \in D, p \in P : p.for = d.for => Escalates(d, p)
  PROVE  Governing'
<1>1. /\ decisions \subseteq DecisionRecords /\ plans \subseteq PlanRecords
      /\ \A d \in decisions : Past(d.for)
      /\ \A p \in plans : Past(p.for)
      /\ \A d \in decisions, p \in plans : p.for = d.for => Escalates(d, p)
  BY DEF Governing, StopIsEscalated, Escalates
<1>2. /\ \A d \in DecisionRecords : d.for \in Signals
      /\ \A p \in PlanRecords : p.for \in Signals
  BY DEF DecisionRecords, PlanRecords
<1>3. \A s \in Signals : Past(s) => Past(s)'
  BY PastStays
<1>4. /\ \A d \in decisions' : Past(d.for)'
      /\ \A p \in plans' : Past(p.for)'
  BY <1>1, <1>2, <1>3
<1>5. decisions' \subseteq DecisionRecords /\ plans' \subseteq PlanRecords
  BY <1>1
<1>6. ASSUME NEW d \in decisions', NEW p \in plans', p.for = d.for
      PROVE  Escalates(d, p)
  BY <1>1, <1>6
<1>7. StopIsEscalated'
  BY <1>6 DEF StopIsEscalated, Escalates
<1> QED
  BY <1>4, <1>5, <1>7 DEF Governing

\* Every step keeps decisions and plans in agreement.
LEMMA GoverningKept ==
  ASSUME Position, Governing, [Next]_vars
  PROVE  Governing'
<1>1. /\ at \in Places /\ task \in Task /\ loops \in {0, 1}
      /\ loops = 0 => task = 1 /\ passed = {}
      /\ Tasks \in Nat /\ Task = 1..Tasks
  BY Numbers DEF Position
<1>2. CASE UNCHANGED governing
  <2>1. PICK D \in SUBSET DecisionRecords, P \in SUBSET PlanRecords : D = {} /\ P = {}
    OBVIOUS
  <2>2. decisions' = decisions \cup D /\ plans' = plans \cup P
    BY <1>2, <2>1 DEF governing
  <2>3. /\ \A d \in D : ~ Past(d.for) /\ Past(d.for)'
        /\ \A p \in P : ~ Past(p.for) /\ Past(p.for)'
        /\ \A d \in D, p \in P : p.for = d.for => Escalates(d, p)
    BY <2>1
  <2> QED
    BY <2>2, <2>3, GoverningGrows
<1>3. ASSUME NEW n, FinishExecution(n) PROVE Governing'
  <2>1. PICK diff : diff = [NoSignal EXCEPT !.retry = noted.retry, !.files = ChangeSet(n).files,
                                            !.size = PackageSize, !.touched = Role = "DEV"]
    OBVIOUS
  <2>2. PICK failure : failure = [NoSignal EXCEPT !.retry = Retries, !.kiloFailed = TRUE,
                      !.max = IF MaxAttempts = 1 THEN 1 ELSE MaxAttempts - 1,
                      !.files = noted.files, !.touched = Role = "DEV"]
    OBVIOUS
  <2>3. PICK large : large = (/\ ChangeSet(n) # NoChange /\ Safety # "BLOCKED"
                              /\ ChangeSet(n).files >= LargeDiff)
    OBVIOUS
  <2>4. PICK D : D = (IF large THEN {Decided("code_change_detection", diff)} ELSE {})
             \cup (IF Succeeded THEN {} ELSE {Decided("kilo_execution", failure)})
    OBVIOUS
  <2>5. PICK P : P = IF large THEN {Planned("code_change_detection", diff)} ELSE {}
    OBVIOUS
  <2>6. /\ Ended /\ GoTo("calling") /\ UNCHANGED <<task, loops>>
        /\ decisions' = decisions \cup D /\ plans' = plans \cup P
    <3>1. /\ Ended /\ GoTo("calling") /\ UNCHANGED <<task, loops>>
          /\ decisions' = decisions
               \cup (IF large THEN {Decided("code_change_detection", diff)} ELSE {})
               \cup (IF Succeeded THEN {} ELSE {Decided("kilo_execution", failure)})
          /\ plans' = IF large THEN plans \cup {Planned("code_change_detection", diff)} ELSE plans
      BY <1>3, <2>1, <2>2, <2>3 DEF FinishExecution
    <3> QED
      BY <3>1, <2>4, <2>5
  <2>7. /\ diff.missing = FALSE /\ diff.tooLarge = FALSE /\ diff.autonomy = "MANUAL"
        /\ failure.missing = FALSE /\ failure.tooLarge = FALSE /\ failure.autonomy = "MANUAL"
    BY <2>1, <2>2 DEF NoSignal
  <2>8. PICK a, b, p : /\ a = Decided("code_change_detection", diff)
                       /\ b = Decided("kilo_execution", failure)
                       /\ p = Planned("code_change_detection", diff)
    OBVIOUS
  <2>9. "code_change_detection" \in Sources /\ "kilo_execution" \in Sources
    BY DEF Sources
  <2>10. /\ a \in DecisionRecords /\ p \in PlanRecords /\ Escalates(a, p)
         /\ a.for = Signal("code_change_detection", task)
         /\ p.for = Signal("code_change_detection", task)
    BY <2>7, <2>8, <2>9, Judged
  <2>11. /\ b \in DecisionRecords /\ b.for = Signal("kilo_execution", task)
    BY <2>7, <2>8, <2>9, Judged
  <2>12. b.for # p.for
    BY <2>10, <2>11 DEF Signal
  <2>13. /\ D \subseteq {a, b} /\ P \subseteq {p}
    BY <2>4, <2>5, <2>8
  <2>14. ASSUME NEW source \in {"code_change_detection", "kilo_execution"}
         PROVE  ~ Past(Signal(source, task)) /\ Past(Signal(source, task))'
    <3>1. Role' = Role /\ at'[2] = "calling"
      BY <1>1, <2>6, MovesWithin DEF Inner
    <3>2. PICK s : s = Signal(source, task) /\ s = <<source, Role, task, loops>>
      BY DEF Signal
    <3>3. s[1] = source /\ s[2] = Role /\ s[3] = task /\ s[4] = loops
      BY <3>2
    <3>4. In("executing") /\ Role \in Roles /\ ~ (task < task) /\ ~ (loops < loops)
      BY <1>1, <2>6, Here DEF Ended
    <3>5. ~ Past(s)
      BY <3>3, <3>4 DEF Past
    <3>6. Signal(source, task)' = s
      BY <3>1, <3>2, <2>6 DEF Signal
    <3>7. Past(s)'
      BY <3>1, <3>3, <2>6 DEF Past, In, Early
    <3> QED
      BY <3>2, <3>5, <3>6, <3>7
  <2>15. PICK s1, s2 : s1 = a.for /\ s2 = b.for /\ p.for = s1
    BY <2>10
  <2>16. ~ Past(s1) /\ Past(s1)' /\ ~ Past(s2) /\ Past(s2)'
    <3>1. Signal("code_change_detection", task)' = s1 /\ Signal("kilo_execution", task)' = s2
      <4>1. Role' = Role
        BY <1>1, <2>6, MovesWithin DEF Inner
      <4> QED
        BY <2>6, <2>10, <2>11, <2>15, <4>1 DEF Signal
    <3> QED
      BY <2>10, <2>11, <2>14, <2>15, <3>1
  <2>17. D \in SUBSET DecisionRecords /\ P \in SUBSET PlanRecords
    BY <2>10, <2>11, <2>13
  <2>18. /\ \A d \in D : ~ Past(d.for) /\ Past(d.for)'
         /\ \A q \in P : ~ Past(q.for) /\ Past(q.for)'
    BY <2>13, <2>15, <2>16
  <2>19. \A d \in D, q \in P : q.for = d.for => Escalates(d, q)
    BY <2>10, <2>12, <2>13
  <2> QED
    BY <2>6, <2>17, <2>18, <2>19, GoverningGrows
<1>4. CASE QaFails
  <2>1. PICK c : c = [NoSignal EXCEPT !.retry = loops, !.qaFailed = TRUE, !.touched = TRUE,
                !.failedValidation = TRUE, !.qaFails = loops + 1,
                !.files = noted.files, !.size = PackageSize]
    OBVIOUS
  <2>2. PICK a, p : a = Decided("qa_validation", c) /\ p = Planned("qa_validation", c)
    OBVIOUS
  <2>3. /\ In("verdict") /\ loops = 0 /\ at' = <<Role, "iterating">> /\ UNCHANGED <<task, loops>>
        /\ decisions' = decisions \cup {a} /\ plans' = plans \cup {p}
    BY <1>4, <2>1, <2>2 DEF QaFails, GoTo
  <2>4. c.missing = FALSE /\ c.tooLarge = FALSE /\ c.autonomy = "MANUAL"
    BY <2>1 DEF NoSignal
  <2>5. /\ a \in DecisionRecords /\ p \in PlanRecords /\ Escalates(a, p)
        /\ a.for = Signal("qa_validation", task) /\ p.for = Signal("qa_validation", task)
    BY <2>2, <2>4, Judged DEF Sources
  <2>6. PICK s : s = a.for /\ s = p.for /\ s = <<"qa_validation", Role, task, loops>>
    BY <2>5 DEF Signal
  <2>7. ~ Past(s)
    BY <2>3, <2>6 DEF Past, In
  <2>8. Past(s)'
    BY <2>3, <2>6 DEF Past, In
  <2>9. {a} \in SUBSET DecisionRecords /\ {p} \in SUBSET PlanRecords
    BY <2>5
  <2> QED
    BY <2>3, <2>5, <2>6, <2>7, <2>8, <2>9, GoverningGrows
<1>5. UNCHANGED work => \A s : Past(s)' = Past(s)
  BY DEF work, Past, In, Role
<1>6. ASSUME NEW d \in decisions, NEW answer \in {"ACCEPTED", "REJECTED"},
             AnswerDecision(d, answer)
      PROVE  Governing'
  <2>1. PICK e : e = [d EXCEPT !.status = answer]
    OBVIOUS
  <2>2. decisions' = (decisions \ {d}) \cup {e} /\ plans' = plans /\ UNCHANGED work
    BY <1>6, <2>1 DEF AnswerDecision
  <2>3. d \in DecisionRecords
    BY DEF Governing
  <2>4. /\ e \in DecisionRecords /\ e.for = d.for /\ e.type = d.type /\ e.review = d.review
    BY <2>1, <2>3 DEF DecisionRecords
  <2>5. Past(e.for) /\ \A s : Past(s)' = Past(s)
    BY <1>5, <2>2, <2>4 DEF Governing
  <2>6. StopIsEscalated'
    BY <2>2, <2>4 DEF Governing, StopIsEscalated
  <2> QED
    BY <2>2, <2>4, <2>5, <2>6 DEF Governing
<1>7. ASSUME NEW p \in plans, NEW answer \in {"APPROVED", "REJECTED"}, AnswerPlan(p, answer)
      PROVE  Governing'
  <2>1. PICK e : e = [p EXCEPT !.status = answer]
    OBVIOUS
  <2>2. plans' = (plans \ {p}) \cup {e} /\ decisions' = decisions /\ UNCHANGED work
    BY <1>7, <2>1 DEF AnswerPlan
  <2>3. p \in PlanRecords
    BY DEF Governing
  <2>4. /\ e \in PlanRecords /\ e.for = p.for /\ e.mutations = p.mutations /\ e.review = p.review
    BY <2>1, <2>3 DEF PlanRecords
  <2>5. Past(e.for) /\ \A s : Past(s)' = Past(s)
    BY <1>5, <2>2, <2>4 DEF Governing
  <2>6. StopIsEscalated'
    BY <2>2, <2>4 DEF Governing, StopIsEscalated
  <2> QED
    BY <2>2, <2>4, <2>5, <2>6 DEF Governing
<1>8. ASSUME NEW o, Attempt(o) \/ Discard(o) \/ CreateBudget(o) \/ OtherRunReads(o)
      PROVE  Governing'
  BY <1>2, <1>8 DEF Attempt, Discard, CreateBudget, OtherRunReads
<1>9. CASE \/ StartStep \/ BeginExecution \/ AttemptRaises \/ SkipExecution \/ RegisterTask
           \/ OpenSession \/ ResolveBudget \/ ReadBudget \/ ChargeBudget \/ JudgeBudget
           \/ CallRaises \/ DevDone \/ Iterate \/ QaPasses \/ OtherRunCharges \/ DeadLetter
           \/ UNCHANGED vars
  BY <1>2, <1>9 DEF StartStep, BeginExecution, AttemptRaises, SkipExecution, RegisterTask,
     OpenSession, ResolveBudget, ReadBudget, ChargeBudget, JudgeBudget, CallRaises, DevDone,
     Iterate, QaPasses, OtherRunCharges, DeadLetter, vars
<1> QED
  BY <1>3, <1>4, <1>6, <1>7, <1>8, <1>9 DEF Next, Run, Beside

\* The initial states satisfy the invariant.
LEMMA InitInv ==
  ASSUME Init
  PROVE  IInv
<1>1. /\ setting \in Settings /\ memory \in Histories
      /\ at = <<"DEV", "registering">> /\ task = 1 /\ loops = 0 /\ validation = "NONE"
      /\ attempts = <<>> /\ disk = [t \in Task |-> 0]
      /\ changes = [k \in {"DEV", "QA"} \X Task |-> NoChange]
      /\ noted = [files |-> 0, retry |-> 0, dead |-> FALSE, cost |-> "ALLOW"]
      /\ taskSet = {} /\ current = NoTask /\ passed = {}
      /\ decisions = {} /\ plans = {} /\ strategy = NoStrategy
      /\ retried = FALSE /\ dead = FALSE
      /\ charge = NoCharge /\ other = NoCharge /\ events = 0
  BY DEF Init
<1>2. Role = "DEV" /\ at[2] = "registering"
  BY <1>1 DEF Role
<1>3. Position
  <2>1. memory \in [new : BOOLEAN, issues : Nat, reviews : Nat]
    BY <1>1, GovernedAssumption
  <2>2. at \in Places
    BY <1>1 DEF Places
  <2> QED
    BY <1>1, <1>2, <2>1, <2>2, Numbers DEF Position, In
<1>4. Revisions
  BY <1>1, <1>2, Numbers DEF Revisions, Before, In
<1>5. \A k \in Roles \X Task : changes[k] = NoChange
  BY <1>1 DEF Roles
<1>6. Changes
  <2>1. changes \in [Roles \X Task -> {NoChange} \cup ChangeSets]
    BY <1>1 DEF Roles
  <2>2. \A t \in Task : changes[<<"DEV", t>>] = NoChange /\ ~ (t < 1)
    BY <1>5, Numbers DEF Roles
  <2> QED
    BY <1>1, <2>1, <2>2 DEF Changes
<1>7. VerdictsReachTheirTask
  BY <1>1, <1>5, NoChangeIsNone DEF VerdictsReachTheirTask, Roles
<1>8. Noted
  <2>1. 0 \in 0..(MaxAttempts - 1) /\ 0 \in Nat /\ "ALLOW" \in Statuses
    BY Numbers DEF Statuses
  <2> QED
    BY <1>1, <2>1 DEF Noted
<1>9. Governing
  BY <1>1 DEF Governing, StopIsEscalated
<1>10. Money
  <2>1. budgets \in Seq(BudgetRecords) /\ Len(budgets) \in Nat
    <3>1. PICK b \in BudgetRecords : b = [max |-> Limit, used |-> 0]
      BY Numbers DEF BudgetRecords
    <3>2. budgets = <<>> \/ budgets = <<b>>
      BY <3>1 DEF Init
    <3>3. <<>> \in Seq(BudgetRecords) /\ Len(<<>>) = 0
      OBVIOUS
    <3>4. <<b>> \in Seq(BudgetRecords) /\ Len(<<b>>) = 1
      OBVIOUS
    <3> QED
      BY <3>2, <3>3, <3>4
  <2> QED
    BY <1>1, <2>1 DEF Money, Charges, NoCharge
<1>11. Chosen
  BY <1>1 DEF Chosen, NoStrategy, Thrifty
<1> QED
  BY <1>3, <1>4, <1>6, <1>7, <1>8, <1>9, <1>10, <1>11 DEF IInv

\* Every step keeps the invariant.
LEMMA Inductive ==
  ASSUME IInv, [Next]_vars
  PROVE  IInv'
<1>1. /\ Position /\ Revisions /\ Changes /\ Noted /\ Governing /\ Money /\ Chosen
      /\ VerdictsReachTheirTask
  BY DEF IInv
<1> QED
  BY <1>1, PositionKept, RevisionsKept, ChangesKept, NotedKept, GoverningKept, MoneyKept,
     ChosenKept DEF IInv

\* Every state a run reaches satisfies the invariant.
THEOREM Invariance == Spec => []IInv
<1>1. Init => IInv
  BY InitInv
<1>2. IInv /\ [Next]_vars => IInv'
  BY Inductive
<1> QED
  BY <1>1, <1>2, PTL DEF Spec

\* QA's verdict reaches the change set of the task it is about, and only it,
\* through skipped and failed executions, reworks and discards
\* (qa_validation_node).
THEOREM VerdictsReach == Spec => []VerdictsReachTheirTask
<1>1. IInv => VerdictsReachTheirTask
  BY DEF IInv
<1> QED
  BY <1>1, Invariance, PTL

\* The decision engine and the planner judge a signal alike: they stop a task
\* exactly when they escalate it, and both ask the founder
\* (resolve_decision, generate_mutations).
THEOREM StopsEscalated == Spec => []StopIsEscalated
<1>1. IInv => StopIsEscalated
  BY DEF IInv, Governing
<1> QED
  BY <1>1, Invariance, PTL

\* A run that has been CRITICAL stays so, and one that was blocked gets no
\* other strategy than the thrifty, simulated one
\* (evaluate_execution_strategy).
THEOREM CautionKept == Spec => CautionStays
<1>1. IInv /\ [Next]_vars
        => [/\ strategy.risk = 3 => strategy'.risk = 3
            /\ Thrifty => strategy'.type = "COST_OPTIMIZED" /\ strategy'.model = "fake"]_vars
  <2> SUFFICES ASSUME IInv, [Next]_vars
               PROVE  /\ strategy.risk = 3 => strategy'.risk = 3
                      /\ Thrifty => strategy'.type = "COST_OPTIMIZED" /\ strategy'.model = "fake"
    OBVIOUS
  <2>1. Position /\ Revisions /\ Changes /\ Noted /\ Money /\ Chosen
    BY DEF IInv
  <2> QED
    BY <2>1, ChosenKept
<1> QED
  BY <1>1, Invariance, PTL DEF Spec, CautionStays

\* The types and the bounds of the run, its registries and the budgets.
THEOREM GovernedTyped == Spec => []TypeOK
<1>1. IInv => TypeOK
  <2> SUFFICES ASSUME IInv PROVE TypeOK
    OBVIOUS
  <2>1. Position /\ Revisions /\ Changes /\ Noted /\ Governing /\ Money /\ Chosen
    BY DEF IInv
  <2>2. /\ setting \in Settings
        /\ memory \in [new : BOOLEAN, issues : Nat, reviews : Nat]
        /\ at \in {"DEV", "QA"} \X {"registering", "starting", "opening", "requesting",
                                    "executing", "calling", "reading", "charging", "judging",
                                    "done", "verdict", "iterating", "ended", "crashed"}
        /\ task \in Task /\ loops \in 0..1 /\ validation \in {"NONE", "FAILED", "PASSED"}
        /\ events \in 0..MaxEvents
    BY <2>1 DEF Position, Places, Inner
  <2>3. /\ Len(attempts) <= MaxAttempts
        /\ \A i \in DOMAIN attempts : attempts[i] = "SUCCESS" => i = Len(attempts)
        /\ disk \in [Task -> 0..(2 * MaxAttempts)]
    BY <2>1 DEF Revisions
  <2>4. \A k \in DOMAIN changes : \/ changes[k] = NoChange
                                  \/ changes[k] \in ChangeSets
    BY <2>1 DEF Changes
  <2>5. /\ taskSet \subseteq Task /\ current \in Task \cup {NoTask} /\ passed \subseteq Task
    BY <2>1 DEF Changes
  <2>6. {CostStatus[i] : i \in DOMAIN CostStatus} = Statuses
    BY DEF CostStatus, Statuses
  <2>7. /\ noted \in [files : Nat, retry : 0..(MaxAttempts - 1), dead : BOOLEAN, cost : Statuses]
        /\ {retried, dead} \subseteq BOOLEAN
    BY <2>1 DEF Noted
  <2>8. /\ \A d \in decisions : /\ d.type \in DecisionType
                                /\ d.status \in {"PROPOSED", "ACCEPTED", "REJECTED"}
        /\ \A p \in plans : p.status \in {"PROPOSED", "APPROVED", "REJECTED"}
    BY <2>1 DEF Governing, DecisionRecords, PlanRecords
  <2>9. strategy # NoStrategy => {strategy.qa, strategy.risk, strategy.sandbox} \subseteq Level
    BY <2>1 DEF Chosen
  <2>10. \A b \in {charge.id, other.id} : b \in 0..Latest
    BY <2>1 DEF Money, Charges, Latest
  <2> QED
    BY <2>2, <2>3, <2>4, <2>5, <2>6, <2>7, <2>8, <2>9, <2>10 DEF TypeOK, ChangeSets
<1> QED
  BY <1>1, Invariance, PTL
=============================================================================
