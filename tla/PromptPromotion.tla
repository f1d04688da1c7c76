--------------------------- MODULE PromptPromotion --------------------------
(***************************************************************************)
(* Promotions of prompt versions (packages/evaluations and the routes of   *)
(* evaluations.py and reviews.py): a candidate version is run on the       *)
(* dataset, its summary is compared with that of the active baseline, and  *)
(* the candidate becomes the baseline, is rejected or is sent to review.   *)
(*                                                                         *)
(* The routes run in threads of their own; one call of a registry is one   *)
(* step.  Scores are in hundredths and summed over the cases.              *)
(***************************************************************************)
EXTENDS Integers, Sequences, FiniteSets, FiniteSetsExt

CONSTANTS
  Callers,      \* threads of POST /evaluations/pm/promote
  Versions,     \* versions of the template in the PromptRegistry
  Results,      \* bound: what runs of the dataset may come to
  Cases,        \* cases of the dataset
  MaxLearnings  \* bound: promotions decided

VARIABLES
  baseline,     \* PromptBaselineRegistry: version and summary, or none
  calls,        \* where each caller is
  verdicts,     \* HumanReviewRegistry: reviews of promotions
  learnings,    \* how many PROMPT_LEARNING records there are of each status
  first,        \* history: failed cases of the first baseline
  unchecked     \* history: a baseline was replaced by a candidate that had
                \* been compared with none

promotionVars == <<baseline, calls, verdicts, learnings, first, unchecked>>

\* What a case comes to: the provider may raise, the rendered prompt be short,
\* the output be invalid, miss sections or keywords, or come from a fallback.
Case == [raised : BOOLEAN, short : BOOLEAN, invalid : BOOLEAN, missing : BOOLEAN,
         wordless : BOOLEAN, fallback : BOOLEAN]

ASSUME PromotionAssumption ==
  /\ {Cases, MaxLearnings} \subseteq Nat
  /\ Results \subseteq [cases : [1..Cases -> Case], latency : Nat]

\* score_prompt_execution.
Score(c) ==
  LET left == 100 - (IF c.short THEN 35 ELSE 0) - (IF c.invalid THEN 45 ELSE 0)
                  - (IF c.missing THEN 35 ELSE 0) - (IF c.fallback THEN 10 ELSE 0)
  IN  IF c.raised \/ left < 0 THEN 0 ELSE left

EvaluationStatus(c) ==
  CASE c.raised \/ c.invalid \/ c.missing \/ (c.short /\ Score(c) < 70) -> "FAILED"
    [] OTHER -> IF Score(c) < 70 THEN "NEEDS_REVIEW" ELSE "PASSED"

Passed(c) == EvaluationStatus(c) = "PASSED" /\ ~ c.wordless

\* _build_summary.
Summary(result) ==
  [failed  |-> Cardinality({i \in 1..Cases : ~ Passed(result.cases[i])}),
   score   |-> MapThenSumSet(LAMBDA i : Score(result.cases[i]), 1..Cases),
   latency |-> result.latency]

Status == {"PROMOTED", "NEEDS_REVIEW", "REJECTED"}
NoBaseline == [version |-> "none"]
Idle == [at |-> "idle"]

\* Wrong: one more failed case is let through.
CompareOneMore(now, before) ==
  CASE now.failed - before.failed >= 2 \/ before.score - now.score >= 10 * Cases -> "REJECTED"
    [] before.score - now.score >= 3 * Cases \/ now.latency - before.latency > 250 -> "NEEDS_REVIEW"
    [] OTHER -> "PROMOTED"

\* PromptBaselineRegistry.compare.
Compare(now, before) ==
  CASE \/ now.failed - before.failed >= 2
       \/ 5 * (now.failed - before.failed) >= Cases
       \/ before.score - now.score >= 10 * Cases             -> "REJECTED"
    [] \/ now.failed - before.failed >= 1
       \/ before.score - now.score >= 3 * Cases
       \/ now.latency - before.latency > 250                 -> "NEEDS_REVIEW"
    [] OTHER                                                 -> "PROMOTED"

PromotionInit ==
  /\ baseline = NoBaseline
  /\ calls = [c \in Callers |-> Idle]
  /\ verdicts = <<>> /\ learnings = [s \in Status |-> 0]
  /\ first = Cases /\ unchecked = FALSE

RunDataset(c, version, result) ==
  /\ calls[c] = Idle
  /\ SumFunction(learnings) + Cardinality({d \in Callers : calls[d] # Idle}) < MaxLearnings
  /\ calls' = [calls EXCEPT ![c] = [at |-> "comparing", version |-> version,
                                    summary |-> Summary(result)]]
  /\ UNCHANGED <<baseline, verdicts, learnings, first, unchecked>>

\* Without a baseline every candidate is promoted, whatever its cases came to.
CompareBaseline(c) ==
  /\ calls[c].at = "comparing"
  /\ LET status == IF baseline = NoBaseline THEN "PROMOTED"
                   ELSE Compare(calls[c].summary, baseline.summary)
     IN  calls' = [calls EXCEPT ![c] =
           [at |-> IF status = "NEEDS_REVIEW" THEN "asking" ELSE "promoting",
            version |-> calls[c].version, summary |-> calls[c].summary,
            status |-> status, alone |-> baseline = NoBaseline]]
  /\ UNCHANGED <<baseline, verdicts, learnings, first, unchecked>>

AskForReview(c) ==
  /\ calls[c].at = "asking"
  /\ verdicts' = Append(verdicts, [of |-> calls[c].version, decision |-> "NONE"])
  /\ calls' = [calls EXCEPT ![c].at = "promoting"]
  /\ UNCHANGED <<baseline, learnings, first, unchecked>>

\* PromptBaselineRegistry.promote registers what the comparison promoted.
Promote(c) ==
  /\ calls[c].at = "promoting"
  /\ calls' = [calls EXCEPT ![c].at = "learning"]
  /\ IF calls[c].status = "PROMOTED"
     THEN /\ baseline' = [version |-> calls[c].version, summary |-> calls[c].summary]
          /\ first' = IF baseline = NoBaseline THEN calls[c].summary.failed ELSE first
          /\ unchecked' = (unchecked \/ (calls[c].alone /\ baseline # NoBaseline))
     ELSE UNCHANGED <<baseline, first, unchecked>>
  /\ UNCHANGED <<verdicts, learnings>>

Learn(c) ==
  /\ calls[c].at = "learning"
  /\ learnings' = [learnings EXCEPT ![calls[c].status] = @ + 1]
  /\ calls' = [calls EXCEPT ![c] = Idle]
  /\ UNCHANGED <<baseline, verdicts, first, unchecked>>

\* POST /reviews/{id}/approve and /reject: the review is completed (again) and
\* the baseline stays what it is.
Review(i, decision) ==
  /\ verdicts[i].decision # decision
  /\ verdicts' = [verdicts EXCEPT ![i].decision = decision]
  /\ UNCHANGED <<baseline, calls, learnings, first, unchecked>>

PromotionNext ==
  \/ \E c \in Callers :
       \/ \E v \in Versions, r \in Results : RunDataset(c, v, r)
       \/ CompareBaseline(c) \/ AskForReview(c) \/ Promote(c) \/ Learn(c)
  \/ \E i \in DOMAIN verdicts, d \in {"APPROVED", "REJECTED"} : Review(i, d)

PromotionSpec == PromotionInit /\ [][PromotionNext]_promotionVars

-----------------------------------------------------------------------------
\* Type invariant of the baseline, the callers and the reviews.
PromotionTypeOK ==
  /\ baseline # NoBaseline => baseline.version \in Versions
  /\ \A c \in Callers : calls[c].at \in {"idle", "comparing", "asking", "promoting", "learning"}
  /\ \A i \in DOMAIN verdicts : verdicts[i].of \in Versions
  /\ first \in 0..Cases

\* However often prompts are promoted, an active baseline never fails more
\* cases of the dataset than the first one did (MAX_PASS_RATE_DROP_REJECT), even
\* when promotions are registered between the comparison and the registration
\* of another, provided that one was compared with a baseline.
QualityIsKept ==
  ~ unchecked /\ baseline # NoBaseline => baseline.summary.failed <= first
=============================================================================
