------------------------------- MODULE Learning ------------------------------
(***************************************************************************)
(* The learning layer (packages/learning, runtime/learning.py, the routes  *)
(* of learning.py): at the end of every run, and whenever a route asks for *)
(* it, the project is analysed; insights go to the memory of the project   *)
(* and recommendations to the founder, who answers them or their reviews.  *)
(*                                                                         *)
(* QA issues in the memory are what the analysis takes for QA failures:    *)
(* those of QA, the summaries of completed runs, and its own insights.     *)
(* An answer reads the recommendation, stores a changed copy of what it    *)
(* read, and then reads and completes the review: four steps, as nothing   *)
(* locks the registries.  Any other call of a registry is one step, and    *)
(* writes that commute are one step.                                       *)
(***************************************************************************)
EXTENDS Integers, Sequences, FiniteSets, SequencesExt

CONSTANTS
  Runs,         \* runs of the project
  Api,          \* the thread of POST /learning/analyze
  Clients,      \* the threads of the routes accept and reject
  Others,       \* bound: what analyses may find beside the QA issues
  MaxPackages,  \* bound: packages of a run
  MaxCalls      \* bound: analyses, answers and decisions of reviews

VARIABLES
  issues,          \* QA_ISSUE records of the ProjectMemoryRegistry, oldest first
  progress,        \* of each run: the package it works on, out of how many
  recommendations, \* LearningRegistry, in order of creation
  reviews,         \* HumanReviewRegistry: OPTIMIZATION_RECOMMENDATION
  analyses,        \* what each thread has still to remember and to have reviewed
  answers,         \* of each client: its call of accept or reject
  count,           \* calls so far
  overridden       \* history: a caller gave a number of QA failures of its own

learningVars ==
  <<issues, progress, recommendations, reviews, analyses, answers, count, overridden>>

Other == [retries : Nat, expensive : BOOLEAN, slow : BOOLEAN, reviews : Nat,
          dead : Nat, prompts : Nat, recoveries : Nat, strategies : Nat]

ASSUME LearningAssumption ==
  Others \subseteq Other /\ {MaxPackages, MaxCalls} \subseteq Nat

\* FREQUENT_RECOVERY_MIN_COUNT and FREQUENT_RECOVERY_RATIO.
OftenRecovers(c) ==
  c.recoveries >= 2 /\ c.strategies > 0 /\ 10 * c.recoveries >= 4 * c.strategies

\* LearningAnalyzer: an insight for each kind of signal.
Insights(failures, c) ==
  LET found == [QUALITY               |-> failures >= 2,
                EXECUTION_INSTABILITY |-> c.retries >= 2,
                ECONOMIC              |-> c.expensive,
                PERFORMANCE           |-> c.slow,
                GOVERNANCE            |-> c.reviews >= 2,
                RESILIENCE            |-> c.dead > 0,
                PROMPT_QUALITY        |-> c.prompts > 0,
                PLANNING_WEAKNESS     |-> OftenRecovers(c)]
  IN  {i \in DOMAIN found : found[i]}

\* _recommendation_payloads_for_insight.
Recommended ==
  [QUALITY               |-> {"STRICTER_QA", "SPLIT_TASK_PACKAGE"},
   EXECUTION_INSTABILITY |-> {"LOWER_AUTONOMY", "CREATE_REVIEW_GATE"},
   ECONOMIC              |-> {"USE_MODEL_LITE"},
   PERFORMANCE           |-> {"SPLIT_TASK_PACKAGE"},
   GOVERNANCE            |-> {"CREATE_REVIEW_GATE"},
   RESILIENCE            |-> {"REVIEW_STRATEGY"},
   PROMPT_QUALITY        |-> {"IMPROVE_PROMPT", "ADD_MEMORY_CONTEXT"},
   PLANNING_WEAKNESS     |-> {"REVIEW_STRATEGY", "SPLIT_TASK_PACKAGE"}]

Proposal(insight, type) ==
  [insight |-> insight, type |-> type, status |-> "PROPOSED", review |-> 0]

\* generate_recommendations.
Proposals(insights) ==
  SetToSeq(UNION {{Proposal(i, t) : t \in Recommended[i]} : i \in insights})

Nothing == [insights |-> {}, todo |-> <<>>, review |-> 0]
NoAnswer == [at |-> "idle", of |-> 0, review |-> 0, status |-> "PROPOSED"]

LearningInit ==
  /\ issues = <<>> /\ recommendations = <<>> /\ reviews = <<>>
  /\ progress \in [Runs -> [at : {"working"}, package : {1}, failed : {FALSE},
                            packages : 1..MaxPackages]]
  /\ analyses = [a \in Runs \cup {Api} |-> Nothing]
  /\ answers = [f \in Clients |-> NoAnswer] /\ count = 0
  /\ overridden = FALSE

-----------------------------------------------------------------------------
Issue(origin, task) == [origin |-> origin, task |-> task]
Package(r) == <<r, progress[r].package>>

\* qa_validation_node remembers a failed package; it is then reworked.
QaFails(r) ==
  /\ progress[r].at = "working" /\ ~ progress[r].failed
  /\ issues' = Append(issues, Issue("qa", Package(r)))
  /\ progress' = [progress EXCEPT ![r].failed = TRUE]
  /\ UNCHANGED <<recommendations, reviews, analyses, answers, count, overridden>>

NextPackage(r) ==
  /\ progress[r].at = "working" /\ progress[r].package < progress[r].packages
  /\ progress' = [progress EXCEPT ![r].package = @ + 1, ![r].failed = FALSE]
  /\ UNCHANGED <<issues, recommendations, reviews, analyses, answers, count, overridden>>

\* search_by_category: the issues of QA and the summaries of runs come before
\* what was learned, the newest first.
NewestIssue ==
  LET titled == SelectSeq(issues, LAMBDA i : i.origin # "learning")
  IN  IF titled # <<>> THEN Last(titled) ELSE Last(issues)

\* _finalize_public_runtime_context adds a summary of prior rework unless the
\* newest issue of the project is one of the last package.
WorkflowCompleted(r) ==
  /\ progress[r].at = "working" /\ progress[r].package = progress[r].packages
  /\ issues' = IF issues = <<>> \/ NewestIssue.task = Package(r) THEN issues
               ELSE Append(issues, Issue("summary", Package(r)))
  /\ progress' = [progress EXCEPT ![r].at = "completed"]
  /\ UNCHANGED <<recommendations, reviews, analyses, answers, count, overridden>>

\* build_learning_analysis_context, LearningAnalyzer.analyze and the calls of
\* add_recommendation; POST /learning/analyze may override what was counted.
Analyse(a, failures, other) ==
  /\ analyses[a] = Nothing /\ count < MaxCalls
  /\ LET insights  == Insights(failures, other)
         proposals == Proposals(insights)
     IN  /\ recommendations' = recommendations \o proposals
         /\ analyses' = [analyses EXCEPT ![a] =
              [insights |-> insights, review |-> 0,
               todo |-> [k \in DOMAIN proposals |-> Len(recommendations) + k]]]
  /\ count' = count + 1
  /\ UNCHANGED <<issues, reviews, answers>>

RunAnalyses(r, other) ==
  /\ progress[r].at = "completed"
  /\ progress' = [progress EXCEPT ![r].at = "ended"]
  /\ Analyse(r, Len(issues), other)
  /\ UNCHANGED overridden

RouteAnalyses(failures, other) ==
  /\ Analyse(Api, failures, other)
  /\ overridden' = (overridden \/ failures # Len(issues))
  /\ UNCHANGED progress

\* Wrong: many reviews are remembered as an issue of QA.
QaIssuesAndReviews == {"QUALITY", "GOVERNANCE"}

\* _memory_category_for_insight: the insights remembered as QA_ISSUE.
QaIssues == {"QUALITY"}

\* _create_memory_for_insights, _create_memory_for_project_insights.
Remember(a) ==
  /\ analyses[a].insights # {}
  /\ LET learned == {Issue("learning", <<i>>) : i \in analyses[a].insights \cap QaIssues}
     IN  issues' = issues \o SetToSeq(learned)
  /\ analyses' = [analyses EXCEPT ![a].insights = {}]
  /\ UNCHANGED <<progress, recommendations, reviews, answers, count, overridden>>

\* _create_reviews_for_recommendations, for one recommendation after the other.
CreateReview(a) ==
  LET now == analyses[a] IN
  /\ now.insights = {} /\ now.todo # <<>> /\ now.review = 0
  /\ reviews' = Append(reviews, [of |-> Head(now.todo), decision |-> "NONE"])
  /\ analyses' = [analyses EXCEPT ![a].review = Len(reviews')]
  /\ UNCHANGED <<issues, progress, recommendations, answers, count, overridden>>

\* save_recommendation stores a copy of what was proposed: an answer that came
\* in the meantime is lost.
AttachReview(a) ==
  LET now == analyses[a] IN
  /\ now.review # 0
  /\ recommendations' = [recommendations EXCEPT
       ![Head(now.todo)].status = "PROPOSED", ![Head(now.todo)].review = now.review]
  /\ analyses' = [analyses EXCEPT ![a].todo = Tail(@), ![a].review = 0]
  /\ UNCHANGED <<issues, progress, reviews, answers, count, overridden>>

-----------------------------------------------------------------------------
Decision == [ACCEPTED |-> "APPROVED", REJECTED |-> "REJECTED"]

\* update_recommendation_status, from the routes accept and reject, reads the
\* recommendation ...
ReadRecommendation(f, i, status) ==
  /\ answers[f] = NoAnswer /\ count < MaxCalls
  /\ answers' = [answers EXCEPT ![f] =
       [at |-> "read", of |-> i, review |-> recommendations[i].review, status |-> status]]
  /\ count' = count + 1
  /\ UNCHANGED <<issues, progress, recommendations, reviews, analyses, overridden>>

\* ... and stores its copy: a review attached in the meantime is lost.
StoreAnswer(f) ==
  LET now == answers[f] IN
  /\ now.at = "read"
  /\ recommendations' = [recommendations EXCEPT ![now.of].status = now.status,
                                                ![now.of].review = now.review]
  /\ answers' = [answers EXCEPT ![f].at = "stored"]
  /\ UNCHANGED <<issues, progress, reviews, analyses, count, overridden>>

\* Wrong: only an accepted recommendation completes its review.
CheckReviewIfAccepted(f) ==
  LET now == answers[f] IN
  /\ now.at = "stored"
  /\ answers' = [answers EXCEPT ![f] = IF now.review # 0 /\ now.status = "ACCEPTED"
                                       THEN [now EXCEPT !.at = "completing"] ELSE NoAnswer]
  /\ UNCHANGED <<issues, progress, recommendations, reviews, analyses, count, overridden>>

\* _complete_review_if_needed leaves a review it finds completed as it is ...
CheckReview(f) ==
  LET now == answers[f] IN
  /\ now.at = "stored"
  /\ answers' = [answers EXCEPT ![f] =
       IF now.review # 0 /\ reviews[now.review].decision = "NONE"
       THEN [now EXCEPT !.at = "completing"] ELSE NoAnswer]
  /\ UNCHANGED <<issues, progress, recommendations, reviews, analyses, count, overridden>>

\* ... and completes the other, though it was decided since.
CompleteReview(f) ==
  LET now == answers[f] IN
  /\ now.at = "completing"
  /\ reviews' = [reviews EXCEPT ![now.review].decision = Decision[now.status]]
  /\ answers' = [answers EXCEPT ![f] = NoAnswer]
  /\ UNCHANGED <<issues, progress, recommendations, analyses, count, overridden>>

\* POST /reviews/{id}/approve and /reject decide (again) and move nothing else.
DecideReview(k, decision) ==
  /\ reviews[k].decision # decision /\ count < MaxCalls
  /\ reviews' = [reviews EXCEPT ![k].decision = decision]
  /\ count' = count + 1
  /\ UNCHANGED <<issues, progress, recommendations, analyses, answers, overridden>>

LearningNext ==
  \/ \E r \in Runs : QaFails(r) \/ NextPackage(r) \/ WorkflowCompleted(r)
  \/ \E r \in Runs, other \in Others : RunAnalyses(r, other)
  \/ \E failures \in {2, Len(issues)}, other \in Others : RouteAnalyses(failures, other)
  \/ \E a \in Runs \cup {Api} : Remember(a) \/ CreateReview(a) \/ AttachReview(a)
  \/ \E f \in Clients, i \in DOMAIN recommendations, s \in DOMAIN Decision :
       ReadRecommendation(f, i, s)
  \/ \E f \in Clients : StoreAnswer(f) \/ CheckReview(f) \/ CompleteReview(f)
  \/ \E k \in DOMAIN reviews, d \in {"APPROVED", "REJECTED"} : DecideReview(k, d)

LearningSpec == LearningInit /\ [][LearningNext]_learningVars

-----------------------------------------------------------------------------
\* Type invariant of the memory, the recommendations and the reviews.
LearningTypeOK ==
  /\ \A i \in DOMAIN issues : issues[i].origin \in {"qa", "summary", "learning"}
  /\ \A i \in DOMAIN recommendations :
       /\ recommendations[i].status \in {"PROPOSED", "ACCEPTED", "REJECTED"}
       /\ recommendations[i].review \in 0..Len(reviews)
  /\ \A k \in DOMAIN reviews :
       /\ reviews[k].of \in DOMAIN recommendations
       /\ reviews[k].decision \in {"NONE", "APPROVED", "REJECTED"}

\* An answer that is stored with a review decides it, or is about to.
StoredAnswersDecide ==
  \A i \in DOMAIN recommendations :
    LET r == recommendations[i] IN
    r.status # "PROPOSED" /\ r.review # 0 =>
      \/ reviews[r.review].decision # "NONE"
      \/ \E f \in Clients : /\ answers[f].at \in {"stored", "completing"}
                            /\ answers[f].review = r.review

\* A recommendation that is still open leads to its review, once attached.
OpenOnesLeadToReviews ==
  \A k \in DOMAIN reviews :
    LET r == recommendations[reviews[k].of] IN
    r.review # k /\ (\A a \in DOMAIN analyses : analyses[a].review # k)
      => r.status # "PROPOSED"

\* An answer that is stored with the review of its recommendation decides it,
\* and a recommendation that is still open leads to the review made for it,
\* however the calls of several clients overtake each other and the analysis
\* that attaches the reviews (_create_reviews_for_recommendations,
\* update_recommendation_status, _complete_review_if_needed).
AnswersReachTheReview == StoredAnswersDecide /\ OpenOnesLeadToReviews

\* Accepting or rejecting a recommendation completes its review (a test of the
\* accept route says so, tests/test_learning_routes.py:64-67): no call and no
\* analysis is at work on it any more, and the review has been decided.
AnsweredIsDecided ==
  \A k \in DOMAIN reviews :
    /\ recommendations[reviews[k].of].status # "PROPOSED"
    /\ \A f \in Clients : answers[f].of # reviews[k].of
    /\ \A a \in DOMAIN analyses : analyses[a].review # k
    => reviews[k].decision # "NONE"

\* Unless a caller overrides the count, quality is blamed only after QA failed
\* a package: insights and summaries, which count as QA issues themselves,
\* never start the count (qa_failure_count in build_learning_analysis_context).
BlamesAFailure ==
  ~ overridden =>
    \A i \in DOMAIN recommendations : recommendations[i].insight = "QUALITY" =>
      \E k \in DOMAIN issues : issues[k].origin = "qa"
=============================================================================
