--------------------------- MODULE RegistriesProofs --------------------------
(***************************************************************************)
(* Theorems about the registries several actors write at once.             *)
(*                                                                         *)
(* PromptPromotion, for any callers, versions, results and numbers of      *)
(* cases: promotions keep the quality of the first baseline.               *)
(*                                                                         *)
(* Learning, for any runs and numbers of packages and calls, whatever else *)
(* the analyses find: answers reach their reviews, and quality is blamed   *)
(* after a failure of QA only.                                             *)
(***************************************************************************)
EXTENDS PromptPromotion, Learning, FiniteSetTheorems, SequenceTheorems, TLAPS

-----------------------------------------------------------------------------
(* Promotions.  A summary, as far as the theorems look at it. *)
Judged(summary) == summary.failed \in 0..Cases

Verdict == [of : Versions, decision : {"NONE", "APPROVED", "REJECTED"}]

PromotionTyped ==
  /\ first \in 0..Cases /\ unchecked \in BOOLEAN
  /\ baseline # NoBaseline => baseline.version \in Versions /\ Judged(baseline.summary)
  /\ DOMAIN calls = Callers
  /\ \A c \in Callers :
       /\ calls[c].at \in {"idle", "comparing", "asking", "promoting", "learning"}
       /\ calls[c].at # "idle" => calls[c].version \in Versions /\ Judged(calls[c].summary)
  /\ verdicts \in Seq(Verdict)

(* A candidate that is about to be registered passed as well as the first    *)
(* baseline, unless it was compared with none or a baseline was unchecked.   *)
PromotedIsGood ==
  \A c \in Callers : calls[c].at \in {"asking", "promoting"} =>
    /\ calls[c].alone \in BOOLEAN
    /\ ~ calls[c].alone => baseline # NoBaseline
    /\ ~ calls[c].alone /\ ~ unchecked /\ calls[c].status = "PROMOTED" =>
         calls[c].summary.failed <= first

PromotionInv == PromotionTyped /\ PromotedIsGood /\ QualityIsKept

-----------------------------------------------------------------------------
(* The summary of a run counts failures among the cases of the dataset. *)
LEMMA SummaryJudged ==
  ASSUME NEW result \in Results
  PROVE  Judged(Summary(result))
<1> DEFINE failing == {i \in 1..Cases : ~ Passed(result.cases[i])}
<1>1. IsFiniteSet(1..Cases) /\ Cardinality(1..Cases) = Cases
  BY PromotionAssumption, FS_Interval
<1>2. Cardinality(failing) \in 0..Cases
  BY <1>1, FS_Subset, FS_CardinalityType, PromotionAssumption
<1> QED BY <1>2 DEF Judged, Summary

(* What is promoted over a baseline fails no more cases than it. *)
LEMMA ComparedWell ==
  ASSUME NEW now, NEW before, Judged(now), Judged(before),
         Compare(now, before) = "PROMOTED"
  PROVE  now.failed <= before.failed
<1>1. ~ (now.failed - before.failed >= 1)
  BY DEF Compare
<1> QED BY <1>1, PromotionAssumption DEF Judged

-----------------------------------------------------------------------------
LEMMA PromotionStarts == PromotionInit => PromotionInv
<1> SUFFICES ASSUME PromotionInit
             PROVE  PromotionInv
  OBVIOUS
<1>1. DOMAIN calls = Callers /\ \A c \in Callers : calls[c].at = "idle"
  BY DEF PromotionInit, Idle
<1>2. verdicts \in Seq(Verdict) /\ first \in 0..Cases
  BY PromotionAssumption DEF PromotionInit
<1> QED
  BY <1>1, <1>2 DEF PromotionInit, PromotionInv, PromotionTyped, PromotedIsGood, QualityIsKept

(* Who compares with a baseline that another call replaces meanwhile was      *)
(* compared with one that was good enough: first bounds all of them.          *)
LEMMA PromotionKept == PromotionInv /\ [PromotionNext]_promotionVars => PromotionInv'
<1> SUFFICES ASSUME PromotionInv, [PromotionNext]_promotionVars
             PROVE  PromotionInv'
  OBVIOUS
<1>0. Cases \in Nat
  BY PromotionAssumption
<1>1. ASSUME NEW c \in Callers, NEW v \in Versions, NEW r \in Results, RunDataset(c, v, r)
      PROVE  PromotionInv'
  <2>1. Judged(Summary(r))
    BY SummaryJudged
  <2>2. \A d \in Callers \ {c} : calls'[d] = calls[d]
    BY <1>1 DEF RunDataset, PromotionInv, PromotionTyped
  <2>3. /\ calls'[c].at = "comparing" /\ calls'[c].version = v
        /\ calls'[c].summary = Summary(r)
    BY <1>1 DEF RunDataset, PromotionInv, PromotionTyped
  <2> QED
    BY <1>1, <2>1, <2>2, <2>3
    DEF RunDataset, PromotionInv, PromotionTyped, PromotedIsGood, QualityIsKept
<1>2. ASSUME NEW c \in Callers, CompareBaseline(c)
      PROVE  PromotionInv'
  <2> DEFINE status == IF baseline = NoBaseline THEN "PROMOTED"
                       ELSE Compare(calls[c].summary, baseline.summary)
  <2>1. \A d \in Callers \ {c} : calls'[d] = calls[d]
    BY <1>2 DEF CompareBaseline, PromotionInv, PromotionTyped
  <2>2. /\ calls'[c].at \in {"asking", "promoting"} /\ calls'[c].version = calls[c].version
        /\ calls'[c].summary = calls[c].summary /\ calls'[c].status = status
        /\ calls'[c].alone = (baseline = NoBaseline)
    BY <1>2 DEF CompareBaseline, PromotionInv, PromotionTyped
  <2>3. calls[c].version \in Versions /\ Judged(calls[c].summary)
    BY <1>2 DEF CompareBaseline, PromotionInv, PromotionTyped
  <2>4. ASSUME baseline # NoBaseline, ~ unchecked, status = "PROMOTED"
        PROVE  calls[c].summary.failed <= first
    BY <2>3, <2>4, ComparedWell, <1>0
    DEF PromotionInv, PromotionTyped, QualityIsKept, Judged
  <2> HIDE DEF status
  <2> QED
    BY <1>2, <2>1, <2>2, <2>3, <2>4
    DEF CompareBaseline, PromotionInv, PromotionTyped, PromotedIsGood, QualityIsKept
<1>3. ASSUME NEW c \in Callers, AskForReview(c)
      PROVE  PromotionInv'
  <2>1. \A d \in Callers \ {c} : calls'[d] = calls[d]
    BY <1>3 DEF AskForReview, PromotionInv, PromotionTyped
  <2>2. /\ calls'[c].at = "promoting" /\ calls'[c].version = calls[c].version
        /\ calls'[c].summary = calls[c].summary /\ calls'[c].status = calls[c].status
        /\ calls'[c].alone = calls[c].alone
    BY <1>3 DEF AskForReview, PromotionInv, PromotionTyped
  <2>3. verdicts' \in Seq(Verdict)
    BY <1>3 DEF AskForReview, PromotionInv, PromotionTyped, Verdict
  <2> QED
    BY <1>3, <2>1, <2>2, <2>3
    DEF AskForReview, PromotionInv, PromotionTyped, PromotedIsGood, QualityIsKept
<1>4. ASSUME NEW c \in Callers, Promote(c)
      PROVE  PromotionInv'
  <2>1. \A d \in Callers \ {c} : calls'[d] = calls[d]
    BY <1>4 DEF Promote, PromotionInv, PromotionTyped
  <2>2. /\ calls'[c].at = "learning" /\ calls'[c].version = calls[c].version
        /\ calls'[c].summary = calls[c].summary
    BY <1>4 DEF Promote, PromotionInv, PromotionTyped
  <2>3. calls[c].version \in Versions /\ Judged(calls[c].summary)
    BY <1>4 DEF Promote, PromotionInv, PromotionTyped
  <2>4. CASE calls[c].status = "PROMOTED"
    <3>1. /\ baseline'.version = calls[c].version /\ baseline'.summary = calls[c].summary
          /\ baseline' # NoBaseline
      BY <1>4, <2>4 DEF Promote, NoBaseline
    <3>2. /\ first' = IF baseline = NoBaseline THEN calls[c].summary.failed ELSE first
          /\ unchecked' = (unchecked \/ (calls[c].alone /\ baseline # NoBaseline))
          /\ verdicts' = verdicts
      BY <1>4, <2>4 DEF Promote
    <3>3. PromotionTyped'
      BY <1>4, <2>1, <2>2, <2>3, <3>1, <3>2 DEF Promote, PromotionInv, PromotionTyped, Judged
    <3>6. calls[c].summary.failed <= calls[c].summary.failed
      BY <2>3, <1>0 DEF Judged
    <3>7. calls[c].at = "promoting"
      BY <1>4 DEF Promote
    <3>4. QualityIsKept'
      <4>1. CASE baseline = NoBaseline
        BY <3>1, <3>2, <3>6, <4>1 DEF QualityIsKept
      <4>2. CASE baseline # NoBaseline
        <5>1. ASSUME ~ unchecked'
              PROVE  calls[c].summary.failed <= first
          BY <2>4, <3>2, <3>7, <4>2, <5>1 DEF PromotionInv, PromotedIsGood
        <5> QED BY <3>1, <3>2, <4>2, <5>1 DEF QualityIsKept
      <4> QED BY <4>1, <4>2
    <3>5. ASSUME NEW d \in Callers \ {c}, calls[d].at \in {"asking", "promoting"}
          PROVE  /\ calls[d].alone \in BOOLEAN
                 /\ ~ calls[d].alone /\ ~ unchecked' /\ calls[d].status = "PROMOTED" =>
                      calls[d].summary.failed <= first'
      BY <3>2, <3>5 DEF PromotionInv, PromotedIsGood
    <3> QED BY <2>1, <2>2, <3>1, <3>3, <3>4, <3>5 DEF PromotionInv, PromotedIsGood
  <2>5. CASE calls[c].status # "PROMOTED"
    BY <1>4, <2>1, <2>2, <2>3, <2>5
    DEF Promote, PromotionInv, PromotionTyped, PromotedIsGood, QualityIsKept
  <2> QED BY <2>4, <2>5
<1>5. ASSUME NEW c \in Callers, Learn(c)
      PROVE  PromotionInv'
  <2>1. \A d \in Callers \ {c} : calls'[d] = calls[d]
    BY <1>5 DEF Learn, PromotionInv, PromotionTyped
  <2>2. calls'[c].at = "idle"
    BY <1>5 DEF Learn, Idle, PromotionInv, PromotionTyped
  <2> QED
    BY <1>5, <2>1, <2>2
    DEF Learn, PromotionInv, PromotionTyped, PromotedIsGood, QualityIsKept
<1>6. ASSUME NEW i \in DOMAIN verdicts, NEW d \in {"APPROVED", "REJECTED"}, Review(i, d)
      PROVE  PromotionInv'
  <2>1. verdicts' \in Seq(Verdict)
    <3>1. PICK v : v = verdicts[i]
      OBVIOUS
    <3>2. verdicts \in Seq(Verdict)
      BY DEF PromotionInv, PromotionTyped
    <3>3. v \in Verdict
      BY <3>1, <3>2
    <3>4. [v EXCEPT !.decision = d] \in Verdict
      BY <3>3 DEF Verdict
    <3>5. verdicts' = [verdicts EXCEPT ![i] = [v EXCEPT !.decision = d]]
      BY <1>6, <3>1 DEF Review
    <3> QED BY <3>2, <3>4, <3>5, ExceptSeq
  <2> QED
    BY <1>6, <2>1 DEF Review, PromotionInv, PromotionTyped, PromotedIsGood, QualityIsKept
<1>7. CASE UNCHANGED promotionVars
  BY <1>7 DEF promotionVars, PromotionInv, PromotionTyped, PromotedIsGood, QualityIsKept
<1> QED BY <1>1, <1>2, <1>3, <1>4, <1>5, <1>6, <1>7 DEF PromotionNext

(* The invariant the theorems on promotions rest on. *)
LEMMA PromotionInvariant == PromotionSpec => []PromotionInv
<1> QED BY PromotionStarts, PromotionKept, PTL DEF PromotionSpec

(* The baseline, the calls and the reviews of promotions are as              *)
(* PromptBaselineRegistry and pm_promote_prompt keep them.                   *)
THEOREM PromotionsTyped == PromotionSpec => []PromotionTypeOK
<1>1. PromotionInv => PromotionTypeOK
  <2> SUFFICES ASSUME PromotionInv
               PROVE  PromotionTypeOK
    OBVIOUS
  <2>1. verdicts \in Seq(Verdict)
    BY DEF PromotionInv, PromotionTyped
  <2>2. \A i \in DOMAIN verdicts : verdicts[i] \in Verdict
    BY <2>1
  <2>3. \A i \in DOMAIN verdicts : verdicts[i].of \in Versions
    BY <2>2 DEF Verdict
  <2> QED BY <2>3 DEF PromotionInv, PromotionTyped, PromotionTypeOK
<1> QED BY <1>1, PromotionInvariant, PTL

(* However many promotions run at once, and whatever reviewers decide: while  *)
(* every baseline was compared with the one before it, the baseline fails no  *)
(* more cases than the first did (PromptBaselineRegistry.compare, promote).   *)
THEOREM QualityNeverSlips == PromotionSpec => []QualityIsKept
<1>1. PromotionInv => QualityIsKept
  BY DEF PromotionInv
<1> QED BY <1>1, PromotionInvariant, PTL

-----------------------------------------------------------------------------
(* Learning. *)
Insight == {"QUALITY", "EXECUTION_INSTABILITY", "ECONOMIC", "PERFORMANCE", "GOVERNANCE",
            "RESILIENCE", "PROMPT_QUALITY", "PLANNING_WEAKNESS"}
Advice == {"STRICTER_QA", "SPLIT_TASK_PACKAGE", "LOWER_AUTONOMY", "CREATE_REVIEW_GATE",
           "USE_MODEL_LITE", "REVIEW_STRATEGY", "IMPROVE_PROMPT", "ADD_MEMORY_CONTEXT"}
Origin == {"qa", "summary", "learning"}
Subject == (Runs \X Nat) \cup {<<i>> : i \in Insight}
Answered == {"PROPOSED", "ACCEPTED", "REJECTED"}
Decided == {"NONE", "APPROVED", "REJECTED"}
Thread == Runs \cup {Api}

IssueRecord == [origin : Origin, task : Subject]
Progress == [at : {"working", "completed", "ended"}, package : Nat, failed : BOOLEAN,
             packages : Nat]
Recommendation == [insight : Insight, type : Advice, status : Answered, review : Nat]
ReviewRecord == [of : Nat, decision : Decided]
Analysis == [insights : SUBSET Insight, todo : Seq(Nat), review : Nat]
AnswerCall == [at : {"idle", "read", "stored", "completing"}, of : Nat, review : Nat,
               status : Answered]

LearningTyped ==
  /\ issues \in Seq(IssueRecord)
  /\ progress \in [Runs -> Progress]
  /\ recommendations \in Seq(Recommendation)
  /\ reviews \in Seq(ReviewRecord)
  /\ analyses \in [Thread -> Analysis]
  /\ answers \in [Clients -> AnswerCall]
  /\ overridden \in BOOLEAN

(* Reviews and recommendations refer to each other. *)
Linked ==
  /\ \A i \in DOMAIN recommendations : recommendations[i].review \in 0..Len(reviews)
  /\ \A k \in DOMAIN reviews : reviews[k].of \in DOMAIN recommendations

(* What an analysis has still to have reviewed is its own and is reviewed in *)
(* order: only the first of it may have a review, the one to attach next.    *)
Waiting(a) == DOMAIN analyses[a].todo
Queued ==
  \A a \in Thread :
    /\ analyses[a].review \in 0..Len(reviews)
    /\ analyses[a].review # 0 =>
         /\ analyses[a].todo # <<>>
         /\ reviews[analyses[a].review].of = analyses[a].todo[1]
    /\ \A j \in Waiting(a) :
         /\ analyses[a].todo[j] \in DOMAIN recommendations
         /\ \A k \in DOMAIN reviews :
              reviews[k].of = analyses[a].todo[j] => j = 1 /\ analyses[a].review = k
         /\ \A b \in Thread : \A k \in Waiting(b) :
              analyses[a].todo[j] = analyses[b].todo[k] => a = b /\ j = k

(* A call that answers is about a recommendation and about a review it read.  *)
Answering ==
  \A f \in Clients :
    /\ answers[f].review \in 0..Len(reviews)
    /\ answers[f].at # "idle" => /\ answers[f].of \in DOMAIN recommendations
                                 /\ answers[f].status # "PROPOSED"
    /\ answers[f].at = "completing" => answers[f].review # 0

(* The first issue of a project is one of QA, and nothing blames quality     *)
(* before there is an issue.                                                 *)
Blames ==
  ~ overridden =>
    /\ issues # <<>> => issues[1].origin = "qa"
    /\ \A a \in Thread : "QUALITY" \in analyses[a].insights => issues # <<>>
    /\ \A i \in DOMAIN recommendations :
         recommendations[i].insight = "QUALITY" => issues # <<>>

LearningInv ==
  LearningTyped /\ Linked /\ Queued /\ Answering /\ Blames /\ AnswersReachTheReview

-----------------------------------------------------------------------------
(* A set as a sequence has its elements, each of them once. *)
LEMMA Listed ==
  ASSUME NEW S, IsFiniteSet(S)
  PROVE  SetToSeq(S) \in Seq(S) /\ Len(SetToSeq(S)) = Cardinality(S)
<1> DEFINE n == Cardinality(S)
<1>1. n \in Nat /\ ExistsBijection(1..n, S)
  BY FS_CardinalityType
<1>2. \E f \in [1..n -> S] : IsInjective(f)
  BY <1>1 DEF ExistsBijection, Bijection, Injection
<1>3. SetToSeq(S) \in [1..n -> S]
  BY <1>2 DEF SetToSeq
<1> HIDE DEF n
<1>4. SetToSeq(S) \in Seq(S) /\ Len(SetToSeq(S)) = n
  BY <1>1, <1>3
<1> QED BY <1>4 DEF n

LEMMA Indices ==
  ASSUME NEW S, NEW s \in Seq(S)
  PROVE  /\ Len(s) \in Nat /\ DOMAIN s = 1..Len(s)
         /\ \A i \in DOMAIN s : s[i] \in S
         /\ s = <<>> <=> Len(s) = 0
<1> QED BY LenProperties, ElementOfSeq, EmptySeq

LEMMA Pair ==
  ASSUME NEW x, NEW y
  PROVE  IsFiniteSet({x, y})
<1>1. {x, y} = {x} \cup {y}
  OBVIOUS
<1>2. IsFiniteSet({x}) /\ IsFiniteSet({y})
  BY FS_Singleton
<1>3. IsFiniteSet({x} \cup {y})
  BY <1>2, FS_Union
<1> QED BY <1>1, <1>3, Zenon

LEMMA FewOfThem == IsFiniteSet(Insight) /\ IsFiniteSet(Advice)
<1>1. ASSUME NEW a, NEW b, NEW c, NEW d, NEW e, NEW f, NEW g, NEW h
      PROVE  IsFiniteSet({a, b, c, d, e, f, g, h})
  <2>1. {a, b, c, d, e, f, g, h} = ({a, b} \cup {c, d}) \cup ({e, f} \cup {g, h})
    OBVIOUS
  <2>2. /\ IsFiniteSet({a, b}) /\ IsFiniteSet({c, d})
        /\ IsFiniteSet({e, f}) /\ IsFiniteSet({g, h})
    BY Pair
  <2>3. IsFiniteSet({a, b} \cup {c, d}) /\ IsFiniteSet({e, f} \cup {g, h})
    BY <2>2, FS_Union
  <2>4. IsFiniteSet(({a, b} \cup {c, d}) \cup ({e, f} \cup {g, h}))
    BY <2>3, FS_Union
  <2> QED BY <2>1, <2>4, Zenon
<1> QED BY <1>1 DEF Insight, Advice

(* What an analysis finds: quality is blamed for two failures or more. *)
LEMMA Found ==
  ASSUME NEW failures \in Nat, NEW other \in Others
  PROVE  /\ Insights(failures, other) \subseteq Insight
         /\ "QUALITY" \in Insights(failures, other) => failures >= 2
<1> QED BY LearningAssumption DEF Insights, Insight

LEMMA RecommendedAdvice ==
  \A i \in Insight : Recommended[i] \subseteq Advice /\ IsFiniteSet(Recommended[i])
<1>1. \A i \in Insight : Recommended[i] \subseteq Advice
  BY DEF Insight, Recommended, Advice
<1> QED BY <1>1, FewOfThem, FS_Subset

(* What it recommends: fresh recommendations for what it found. *)
LEMMA Proposed ==
  ASSUME NEW insights \in SUBSET Insight
  PROVE  /\ Proposals(insights) \in Seq(Recommendation)
         /\ \A k \in DOMAIN Proposals(insights) :
              /\ Proposals(insights)[k].insight \in insights
              /\ Proposals(insights)[k].status = "PROPOSED"
              /\ Proposals(insights)[k].review = 0
<1> DEFINE of(i) == {Proposal(i, t) : t \in Recommended[i]}
           all == UNION {of(i) : i \in insights}
<1>1. ASSUME NEW i \in insights PROVE IsFiniteSet(of(i))
  <2> DEFINE f == [t \in Recommended[i] |-> Proposal(i, t)]
  <2>1. f \in Surjection(Recommended[i], of(i))
    BY DEF Surjection
  <2> QED BY <2>1, RecommendedAdvice, FS_Surjection
<1>2. IsFiniteSet({of(i) : i \in insights})
  <2> DEFINE f == [i \in insights |-> of(i)]
  <2>1. f \in Surjection(insights, {of(i) : i \in insights})
    BY DEF Surjection
  <2>2. IsFiniteSet(insights)
    BY FewOfThem, FS_Subset
  <2> QED BY <2>1, <2>2, FS_Surjection
<1>3. IsFiniteSet(all)
  BY <1>1, <1>2, FS_UNION
<1>4. ASSUME NEW p \in all
      PROVE  /\ p \in Recommendation /\ p.insight \in insights
             /\ p.status = "PROPOSED" /\ p.review = 0
  <2>1. PICK i \in insights : p \in of(i)
    BY <1>4
  <2>2. PICK t \in Recommended[i] : p = Proposal(i, t)
    BY <2>1
  <2>3. t \in Advice
    BY RecommendedAdvice, <2>2
  <2> QED BY <2>2, <2>3 DEF Proposal, Recommendation, Answered
<1>5. Proposals(insights) = SetToSeq(all)
  BY DEF Proposals
<1>6. Proposals(insights) \in Seq(all)
  BY <1>3, <1>5, Listed
<1> HIDE DEF all
<1>7. \A k \in DOMAIN Proposals(insights) : Proposals(insights)[k] \in all
  BY <1>6, Indices
<1>8. all \subseteq Recommendation
  BY <1>4
<1> QED BY <1>4, <1>6, <1>7, <1>8, SeqMonotonic

-----------------------------------------------------------------------------
(* The issues only grow, from the end, and begin with one of QA. *)
IssuesGrow ==
  /\ issues' \in Seq(IssueRecord)
  /\ issues # <<>> => issues' # <<>> /\ issues'[1] = issues[1]
  /\ issues = <<>> /\ issues' # <<>> => issues'[1].origin = "qa"

LEMMA Appended ==
  ASSUME NEW S, NEW s \in Seq(S), NEW e \in S
  PROVE  /\ Append(s, e) \in Seq(S) /\ Append(s, e) # <<>>
         /\ Len(Append(s, e)) = Len(s) + 1
         /\ \A i \in 1..Len(s) : Append(s, e)[i] = s[i]
         /\ Append(s, e)[Len(s) + 1] = e
<1> QED BY EmptySeq

LEMMA Joined ==
  ASSUME NEW S, NEW s \in Seq(S), NEW t \in Seq(S)
  PROVE  /\ s \o t \in Seq(S) /\ Len(s \o t) = Len(s) + Len(t)
         /\ \A i \in 1..Len(s) : (s \o t)[i] = s[i]
         /\ \A i \in 1..Len(t) : (s \o t)[Len(s) + i] = t[i]
<1> QED BY ConcatProperties

LEMMA Replaced ==
  ASSUME NEW S, NEW s \in Seq(S), NEW k \in DOMAIN s, NEW e \in S, NEW t,
         t = [s EXCEPT ![k] = e]
  PROVE  /\ t \in Seq(S) /\ Len(t) = Len(s) /\ DOMAIN t = DOMAIN s
         /\ \A j \in DOMAIN s : t[j] = IF j = k THEN e ELSE s[j]
<1> QED BY ExceptSeq, Indices

(* A run that works on its packages leaves everything else alone. *)
LEMMA WorkKept ==
  ASSUME LearningInv, IssuesGrow, progress' \in [Runs -> Progress],
         UNCHANGED <<recommendations, reviews, analyses, answers, overridden>>
  PROVE  LearningInv'
<1>1. LearningTyped' /\ Linked' /\ Queued' /\ Answering' /\ AnswersReachTheReview'
  BY DEF LearningInv, IssuesGrow, LearningTyped, Linked, Queued, Waiting, Answering,
         AnswersReachTheReview, StoredAnswersDecide, OpenOnesLeadToReviews
<1>2. Blames'
  BY DEF LearningInv, IssuesGrow, Blames
<1> QED BY <1>1, <1>2 DEF LearningInv

LEMMA QaFailsKept == ASSUME LearningInv, NEW r \in Runs, QaFails(r) PROVE LearningInv'
<1>1. /\ issues \in Seq(IssueRecord)
      /\ progress \in [Runs -> Progress]
  BY DEF LearningInv, LearningTyped
<1>2. Issue("qa", Package(r)) \in IssueRecord
  BY <1>1 DEF Issue, Package, IssueRecord, Origin, Subject, Progress
<1>3. issues' = Append(issues, Issue("qa", Package(r)))
  BY DEF QaFails
<1>4. Issue("qa", Package(r)).origin = "qa"
  BY DEF Issue
<1>5. IssuesGrow
  BY <1>1, <1>2, <1>3, <1>4, Appended, Indices DEF IssuesGrow
<1>6. progress' \in [Runs -> Progress]
  BY <1>1 DEF QaFails, Progress
<1> QED BY <1>5, <1>6, WorkKept DEF QaFails

LEMMA NextPackageKept ==
  ASSUME LearningInv, NEW r \in Runs, NextPackage(r) PROVE LearningInv'
<1>1. /\ issues \in Seq(IssueRecord)
      /\ progress \in [Runs -> Progress]
  BY DEF LearningInv, LearningTyped
<1>2. IssuesGrow
  BY <1>1 DEF NextPackage, IssuesGrow
<1>3. progress' \in [Runs -> Progress]
  <2>1. PICK p \in Progress : p = progress[r]
    BY <1>1
  <2>2. PICK n \in Nat : n = p.package + 1
    BY DEF Progress
  <2>3. PICK q : q = [p EXCEPT !.package = n, !.failed = FALSE]
    OBVIOUS
  <2>4. q \in Progress
    BY <2>3 DEF Progress
  <2>5. progress' = [progress EXCEPT ![r] = q]
    BY <1>1, <2>1, <2>2, <2>3 DEF NextPackage
  <2> QED BY <1>1, <2>4, <2>5
<1> QED BY <1>2, <1>3, WorkKept DEF NextPackage

LEMMA WorkflowCompletedKept ==
  ASSUME LearningInv, NEW r \in Runs, WorkflowCompleted(r) PROVE LearningInv'
<1>1. /\ issues \in Seq(IssueRecord)
      /\ progress \in [Runs -> Progress]
  BY DEF LearningInv, LearningTyped
<1>2. Issue("summary", Package(r)) \in IssueRecord
  BY <1>1 DEF Issue, Package, IssueRecord, Origin, Subject, Progress
<1>3. \/ issues' = issues
      \/ issues # <<>> /\ issues' = Append(issues, Issue("summary", Package(r)))
  BY DEF WorkflowCompleted
<1>4. IssuesGrow
  BY <1>1, <1>2, <1>3, Appended, Indices DEF IssuesGrow
<1>5. progress' \in [Runs -> Progress]
  BY <1>1 DEF WorkflowCompleted, Progress
<1> QED BY <1>4, <1>5, WorkKept DEF WorkflowCompleted

(* A thread remembers its insights: quality among them only after an issue. *)
LEMMA RememberKept == ASSUME LearningInv, NEW a \in Thread, Remember(a) PROVE LearningInv'
<1> DEFINE learned == {Issue("learning", <<i>>) : i \in analyses[a].insights \cap QaIssues}
<1>1. /\ issues \in Seq(IssueRecord)
      /\ analyses \in [Thread -> Analysis]
  BY DEF LearningInv, LearningTyped
<1>2. learned \subseteq {Issue("learning", <<"QUALITY">>)}
  BY DEF QaIssues
<1>3. Issue("learning", <<"QUALITY">>) \in IssueRecord
  BY DEF Issue, IssueRecord, Origin, Subject, Insight
<1>4. IsFiniteSet(learned) /\ learned \subseteq IssueRecord
  <2>1. IsFiniteSet({Issue("learning", <<"QUALITY">>)})
    BY FS_Singleton
  <2> HIDE DEF learned
  <2>2. IsFiniteSet(learned)
    BY <1>2, <2>1, FS_Subset
  <2> QED BY <1>2, <1>3, <2>2
<1>5. /\ SetToSeq(learned) \in Seq(IssueRecord)
      /\ Len(SetToSeq(learned)) = Cardinality(learned)
  BY <1>4, Listed, SeqMonotonic
<1>6. "QUALITY" \notin analyses[a].insights => Cardinality(learned) = 0
  BY <1>4, FS_EmptySet DEF QaIssues
<1>7. issues' = issues \o SetToSeq(learned)
  BY DEF Remember
<1> HIDE DEF learned
<1>8. /\ issues' \in Seq(IssueRecord) /\ Len(issues') = Len(issues) + Cardinality(learned)
      /\ \A i \in 1..Len(issues) : issues'[i] = issues[i]
      /\ Len(issues) \in Nat /\ Cardinality(learned) \in Nat
  <2>1. Len(issues) \in Nat /\ Cardinality(learned) \in Nat
    BY <1>1, <1>4, Indices, FS_CardinalityType
  <2>2. PICK new \in Seq(IssueRecord) : new = SetToSeq(learned)
    BY <1>5
  <2>3. issues' = issues \o new /\ Len(new) = Cardinality(learned)
    BY <1>5, <1>7, <2>2
  <2> QED BY <1>1, <2>1, <2>3, Joined
<1>9. /\ issues # <<>> => issues' # <<>> /\ issues'[1] = issues[1]
      /\ issues = <<>> /\ "QUALITY" \notin analyses[a].insights => issues' = <<>>
  BY <1>1, <1>6, <1>8, Indices
<1>10. /\ analyses' \in [Thread -> Analysis]
       /\ \A b \in Thread : /\ analyses'[b].todo = analyses[b].todo
                            /\ analyses'[b].review = analyses[b].review
                            /\ analyses'[b].insights \subseteq analyses[b].insights
  BY <1>1 DEF Remember, Analysis
<1>11. LearningTyped' /\ Linked' /\ Answering'
  BY <1>8, <1>10 DEF LearningInv, Remember, LearningTyped, Linked, Answering
<1>12. Queued'
  BY <1>10 DEF LearningInv, Remember, Queued, Waiting
<1>13. Blames'
  BY <1>9, <1>10 DEF LearningInv, Remember, Blames
<1>14. AnswersReachTheReview'
  BY <1>1, <1>10 DEF LearningInv, Remember, AnswersReachTheReview, StoredAnswersDecide,
                        OpenOnesLeadToReviews
<1> QED BY <1>11, <1>12, <1>13, <1>14 DEF LearningInv

(* A client reads the recommendation it answers. *)
LEMMA ReadKept ==
  ASSUME LearningInv, NEW f \in Clients, NEW i \in DOMAIN recommendations,
         NEW status \in DOMAIN Decision, ReadRecommendation(f, i, status)
  PROVE  LearningInv'
<1>1. /\ recommendations \in Seq(Recommendation)
      /\ answers \in [Clients -> AnswerCall]
  BY DEF LearningInv, LearningTyped
<1>2. i \in Nat /\ recommendations[i].review \in Nat
  <2>1. i \in Nat /\ recommendations[i] \in Recommendation
    BY <1>1, Indices
  <2> QED BY <2>1 DEF Recommendation
<1>3. status \in Answered /\ status # "PROPOSED"
  BY DEF Decision, Answered
<1>4. PICK new \in AnswerCall :
        new = [at |-> "read", of |-> i, review |-> recommendations[i].review, status |-> status]
  BY <1>2, <1>3 DEF AnswerCall
<1>5. answers' = [answers EXCEPT ![f] = new] /\ answers[f].at = "idle"
  BY <1>4 DEF ReadRecommendation, NoAnswer
<1>6. /\ answers' \in [Clients -> AnswerCall] /\ answers'[f] = new
      /\ \A g \in Clients : g # f => answers'[g] = answers[g]
  BY <1>1, <1>5
<1>7. LearningTyped' /\ Linked' /\ Blames' /\ Queued'
  BY <1>6 DEF LearningInv, ReadRecommendation, LearningTyped, Linked, Blames, Queued, Waiting
<1>8. Answering'
  BY <1>3, <1>4, <1>6 DEF LearningInv, ReadRecommendation, Answering, Linked
<1>9. AnswersReachTheReview'
  BY <1>5, <1>6 DEF LearningInv, ReadRecommendation, AnswersReachTheReview,
     StoredAnswersDecide, OpenOnesLeadToReviews
<1> QED BY <1>7, <1>8, <1>9 DEF LearningInv

(* It stores its copy, and goes on to the review that was in it. *)
LEMMA StoreKept == ASSUME LearningInv, NEW f \in Clients, StoreAnswer(f) PROVE LearningInv'
<1>1. /\ recommendations \in Seq(Recommendation)
      /\ answers \in [Clients -> AnswerCall]
      /\ analyses \in [Thread -> Analysis]
      /\ reviews \in Seq(ReviewRecord)
  BY DEF LearningInv, LearningTyped
<1>2. PICK now \in AnswerCall : now = answers[f]
  BY <1>1
<1>3. PICK i \in DOMAIN recommendations : i = now.of
  BY <1>2 DEF LearningInv, Answering, StoreAnswer
<1>4. now.at = "read" /\ now.status # "PROPOSED" /\ now.review \in 0..Len(reviews)
  BY <1>2 DEF LearningInv, Answering, StoreAnswer
<1>5. PICK r \in Recommendation : r = recommendations[i]
  BY <1>1, Indices
<1>6. PICK e : e = [r EXCEPT !.status = now.status, !.review = now.review]
  OBVIOUS
<1>7. /\ e \in Recommendation /\ e.status = now.status /\ e.review = now.review
      /\ e.insight = r.insight
  BY <1>6 DEF Recommendation, AnswerCall
<1>8. recommendations' = [recommendations EXCEPT ![i] = e]
  BY <1>1, <1>2, <1>3, <1>5, <1>6 DEF StoreAnswer
<1>9. /\ recommendations' \in Seq(Recommendation)
      /\ DOMAIN recommendations' = DOMAIN recommendations
      /\ \A j \in DOMAIN recommendations :
           recommendations'[j] = IF j = i THEN e ELSE recommendations[j]
  BY <1>1, <1>7, <1>8, Replaced
<1>10. PICK new \in AnswerCall : new = [now EXCEPT !.at = "stored"]
  BY DEF AnswerCall
<1>11. answers' = [answers EXCEPT ![f] = new]
  BY <1>1, <1>2, <1>10 DEF StoreAnswer
<1>12. /\ answers' \in [Clients -> AnswerCall] /\ answers'[f] = new
       /\ new.at = "stored" /\ new.of = now.of /\ new.review = now.review
       /\ new.status = now.status
       /\ \A g \in Clients : g # f => answers'[g] = answers[g]
  BY <1>1, <1>10, <1>11 DEF AnswerCall
<1>13. reviews' = reviews /\ analyses' = analyses /\ issues' = issues
       /\ progress' = progress /\ overridden' = overridden
  BY DEF StoreAnswer
<1>14. LearningTyped'
  BY <1>9, <1>12, <1>13 DEF LearningInv, LearningTyped
<1>15. Linked' /\ Queued'
  BY <1>4, <1>7, <1>9, <1>13 DEF LearningInv, Linked, Queued, Waiting
<1>16. Blames'
  BY <1>5, <1>7, <1>9, <1>13 DEF LearningInv, Blames
<1>17. Answering'
  BY <1>2, <1>3, <1>4, <1>9, <1>12, <1>13 DEF LearningInv, Answering
<1>18. StoredAnswersDecide'
  <2>1. ASSUME NEW j \in DOMAIN recommendations, recommendations'[j].status # "PROPOSED",
               recommendations'[j].review # 0
        PROVE  \/ reviews[recommendations'[j].review].decision # "NONE"
               \/ \E g \in Clients : /\ answers'[g].at \in {"stored", "completing"}
                                     /\ answers'[g].review = recommendations'[j].review
    <3>1. CASE j = i
      BY <1>7, <1>9, <1>12, <3>1
    <3>2. CASE j # i
      <4>1. recommendations'[j] = recommendations[j]
        BY <1>9, <3>2
      <4>2. \A g \in Clients : answers[g].at \in {"stored", "completing"} => g # f
        BY <1>2, <1>4
      <4>3. \/ reviews[recommendations[j].review].decision # "NONE"
            \/ \E g \in Clients : /\ answers[g].at \in {"stored", "completing"}
                                  /\ answers[g].review = recommendations[j].review
        BY <2>1, <4>1 DEF LearningInv, AnswersReachTheReview, StoredAnswersDecide
      <4> QED BY <1>12, <4>1, <4>2, <4>3
    <3> QED BY <3>1, <3>2
  <2> QED BY <1>9, <1>13, <2>1 DEF StoredAnswersDecide
<1>19. OpenOnesLeadToReviews'
  BY <1>4, <1>7, <1>9, <1>13
     DEF LearningInv, Linked, AnswersReachTheReview, OpenOnesLeadToReviews
<1> QED BY <1>14, <1>15, <1>16, <1>17, <1>18, <1>19 DEF LearningInv, AnswersReachTheReview

(* It finds its review decided, or goes on to complete it. *)
LEMMA CheckKept == ASSUME LearningInv, NEW f \in Clients, CheckReview(f) PROVE LearningInv'
<1>1. /\ answers \in [Clients -> AnswerCall]
      /\ reviews \in Seq(ReviewRecord)
  BY DEF LearningInv, LearningTyped
<1>2. PICK now \in AnswerCall : now = answers[f]
  BY <1>1
<1>3. PICK new : new = IF now.review # 0 /\ reviews[now.review].decision = "NONE"
                       THEN [now EXCEPT !.at = "completing"] ELSE NoAnswer
  OBVIOUS
<1>4. NoAnswer \in AnswerCall /\ NoAnswer.at = "idle" /\ NoAnswer.review = 0
  BY DEF NoAnswer, AnswerCall, Answered
<1>5. /\ [now EXCEPT !.at = "completing"] \in AnswerCall
      /\ [now EXCEPT !.at = "completing"].at = "completing"
      /\ [now EXCEPT !.at = "completing"].of = now.of
      /\ [now EXCEPT !.at = "completing"].review = now.review
      /\ [now EXCEPT !.at = "completing"].status = now.status
  BY DEF AnswerCall
<1>6. /\ answers' = [answers EXCEPT ![f] = new] /\ now.at = "stored"
  BY <1>2, <1>3 DEF CheckReview
<1>7. new \in AnswerCall
  BY <1>3, <1>4, <1>5
<1>8. /\ answers' \in [Clients -> AnswerCall] /\ answers'[f] = new
      /\ \A g \in Clients : g # f => answers'[g] = answers[g]
  BY <1>1, <1>6, <1>7
<1>9. /\ recommendations' = recommendations /\ reviews' = reviews /\ analyses' = analyses
      /\ issues' = issues /\ progress' = progress /\ overridden' = overridden
  BY DEF CheckReview
<1>10. LearningTyped' /\ Linked' /\ Queued' /\ Blames'
  BY <1>8, <1>9 DEF LearningInv, LearningTyped, Linked, Queued, Waiting, Blames
<1>11. Answering'
  <2>1. ASSUME NEW g \in Clients
        PROVE  /\ answers'[g].review \in 0..Len(reviews)
               /\ answers'[g].at # "idle" => /\ answers'[g].of \in DOMAIN recommendations
                                             /\ answers'[g].status # "PROPOSED"
               /\ answers'[g].at = "completing" => answers'[g].review # 0
    <3>1. CASE g # f
      BY <1>8, <3>1 DEF LearningInv, Answering
    <3>2. CASE g = f /\ new = NoAnswer
      BY <1>1, <1>4, <1>8, <3>2, Indices
    <3>3. CASE g = f /\ new # NoAnswer
      BY <1>2, <1>3, <1>5, <1>6, <1>8, <3>3 DEF LearningInv, Answering
    <3> QED BY <3>1, <3>2, <3>3
  <2> QED BY <1>9, <2>1 DEF Answering
<1>12. StoredAnswersDecide'
  <2>1. ASSUME NEW j \in DOMAIN recommendations, recommendations[j].status # "PROPOSED",
               recommendations[j].review # 0, reviews[recommendations[j].review].decision = "NONE"
        PROVE  \E g \in Clients : /\ answers'[g].at \in {"stored", "completing"}
                                  /\ answers'[g].review = recommendations[j].review
    <3>1. PICK g \in Clients : /\ answers[g].at \in {"stored", "completing"}
                               /\ answers[g].review = recommendations[j].review
      BY <2>1 DEF LearningInv, AnswersReachTheReview, StoredAnswersDecide
    <3>2. CASE g # f
      BY <1>8, <3>1, <3>2
    <3>3. CASE g = f
      <4>1. new = [now EXCEPT !.at = "completing"]
        BY <1>2, <1>3, <2>1, <3>1, <3>3
      <4>2. new.at = "completing" /\ new.review = recommendations[j].review
        BY <1>2, <1>5, <3>1, <3>3, <4>1
      <4> QED BY <1>8, <4>2
    <3> QED BY <3>2, <3>3
  <2> QED BY <1>9, <2>1 DEF StoredAnswersDecide
<1>13. OpenOnesLeadToReviews'
  BY <1>9 DEF LearningInv, AnswersReachTheReview, OpenOnesLeadToReviews
<1> QED BY <1>10, <1>11, <1>12, <1>13 DEF LearningInv, AnswersReachTheReview

(* A review is decided: no review loses its decision, or what it is about. *)
LEMMA Deciding ==
  ASSUME LearningInv, NEW k \in DOMAIN reviews, NEW decision \in {"APPROVED", "REJECTED"},
         reviews' = [reviews EXCEPT ![k].decision = decision]
  PROVE  /\ reviews' \in Seq(ReviewRecord) /\ Len(reviews') = Len(reviews)
         /\ DOMAIN reviews' = DOMAIN reviews
         /\ \A j \in DOMAIN reviews :
              /\ reviews'[j].of = reviews[j].of
              /\ reviews[j].decision # "NONE" => reviews'[j].decision # "NONE"
         /\ reviews'[k].decision # "NONE"
<1>1. reviews \in Seq(ReviewRecord)
  BY DEF LearningInv, LearningTyped
<1>2. k \in 1..Len(reviews)
  BY <1>1, Indices
<1>3. PICK r \in ReviewRecord : r = reviews[k]
  BY <1>1, Indices
<1>4. PICK e : e = [r EXCEPT !.decision = decision]
  OBVIOUS
<1>5. e \in ReviewRecord /\ e.of = r.of /\ e.decision = decision
  BY <1>4 DEF ReviewRecord, Decided
<1>6. reviews' = [reviews EXCEPT ![k] = e]
  BY <1>3, <1>4
<1>7. /\ reviews' \in Seq(ReviewRecord) /\ Len(reviews') = Len(reviews)
      /\ DOMAIN reviews' = DOMAIN reviews
      /\ \A j \in DOMAIN reviews : reviews'[j] = IF j = k THEN e ELSE reviews[j]
  BY <1>1, <1>5, <1>6, Replaced
<1> QED BY <1>3, <1>5, <1>7

LEMMA DecideReviewKept ==
  ASSUME LearningInv, NEW k \in DOMAIN reviews, NEW decision \in {"APPROVED", "REJECTED"},
         DecideReview(k, decision)
  PROVE  LearningInv'
<1>1. /\ reviews' \in Seq(ReviewRecord) /\ Len(reviews') = Len(reviews)
      /\ DOMAIN reviews' = DOMAIN reviews
      /\ \A j \in DOMAIN reviews :
           /\ reviews'[j].of = reviews[j].of
           /\ reviews[j].decision # "NONE" => reviews'[j].decision # "NONE"
  BY Deciding DEF DecideReview
<1>2. \A j \in 1..Len(reviews) : j \in DOMAIN reviews
  BY Indices DEF LearningInv, LearningTyped
<1>3. LearningTyped' /\ Linked' /\ Answering' /\ Blames'
  BY <1>1 DEF LearningInv, DecideReview, LearningTyped, Linked, Answering, Blames
<1>4. Queued'
  BY <1>1, <1>2 DEF LearningInv, DecideReview, LearningTyped, Queued, Waiting
<1>5. StoredAnswersDecide'
  BY <1>1, <1>2 DEF LearningInv, DecideReview, Linked, LearningTyped, AnswersReachTheReview,
                    StoredAnswersDecide
<1>6. OpenOnesLeadToReviews'
  BY <1>1 DEF LearningInv, DecideReview, AnswersReachTheReview, OpenOnesLeadToReviews
<1> QED BY <1>3, <1>4, <1>5, <1>6 DEF LearningInv, AnswersReachTheReview

(* The answer reaches its review, also one that was decided since. *)
LEMMA CompleteReviewKept ==
  ASSUME LearningInv, NEW f \in Clients, CompleteReview(f)
  PROVE  LearningInv'
<1>1. /\ reviews \in Seq(ReviewRecord)
      /\ answers \in [Clients -> AnswerCall]
  BY DEF LearningInv, LearningTyped
<1>2. Len(reviews) \in Nat /\ DOMAIN reviews = 1..Len(reviews)
  BY <1>1, Indices
<1>3. PICK k \in DOMAIN reviews : k = answers[f].review
  <2>1. answers[f].review \in 0..Len(reviews) /\ answers[f].review # 0
    BY DEF LearningInv, Answering, CompleteReview
  <2> QED BY <1>2, <2>1
<1>4. PICK decision \in {"APPROVED", "REJECTED"} : decision = Decision[answers[f].status]
  <2>1. answers[f].status \in {"ACCEPTED", "REJECTED"}
    BY <1>1 DEF LearningInv, Answering, CompleteReview, AnswerCall, Answered
  <2> QED BY <2>1 DEF Decision
<1>5. reviews' = [reviews EXCEPT ![k].decision = decision]
  BY <1>3, <1>4 DEF CompleteReview
<1>6. /\ reviews' \in Seq(ReviewRecord) /\ Len(reviews') = Len(reviews)
      /\ DOMAIN reviews' = DOMAIN reviews
      /\ \A j \in DOMAIN reviews :
           /\ reviews'[j].of = reviews[j].of
           /\ reviews[j].decision # "NONE" => reviews'[j].decision # "NONE"
      /\ reviews'[k].decision # "NONE"
  BY <1>5, Deciding
<1>7. NoAnswer \in AnswerCall /\ NoAnswer.at = "idle" /\ NoAnswer.review = 0
  BY DEF NoAnswer, AnswerCall, Answered
<1>8. /\ answers' \in [Clients -> AnswerCall] /\ answers'[f] = NoAnswer
      /\ \A g \in Clients : g # f => answers'[g] = answers[g]
  BY <1>1, <1>7 DEF CompleteReview
<1>9. /\ recommendations' = recommendations /\ analyses' = analyses
      /\ issues' = issues /\ progress' = progress /\ overridden' = overridden
  BY DEF CompleteReview
<1>10. LearningTyped' /\ Linked' /\ Blames'
  BY <1>6, <1>8, <1>9 DEF LearningInv, LearningTyped, Linked, Blames
<1>11. Answering'
  <2>1. 0 \in 0..Len(reviews)
    BY <1>2
  <2> QED BY <1>6, <1>7, <1>8, <1>9, <2>1 DEF LearningInv, Answering
<1>12. Queued'
  BY <1>2, <1>6, <1>9 DEF LearningInv, Queued, Waiting
<1>13. StoredAnswersDecide'
  <2>1. ASSUME NEW j \in DOMAIN recommendations, recommendations[j].status # "PROPOSED",
               recommendations[j].review # 0,
               reviews'[recommendations[j].review].decision = "NONE"
        PROVE  \E g \in Clients : /\ answers'[g].at \in {"stored", "completing"}
                                  /\ answers'[g].review = recommendations[j].review
    <3>1. recommendations[j].review \in DOMAIN reviews
      BY <1>2, <2>1 DEF LearningInv, Linked
    <3>2. reviews[recommendations[j].review].decision = "NONE" /\ recommendations[j].review # k
      BY <1>6, <2>1, <3>1
    <3>3. PICK g \in Clients : /\ answers[g].at \in {"stored", "completing"}
                               /\ answers[g].review = recommendations[j].review
      BY <2>1, <3>2 DEF LearningInv, AnswersReachTheReview, StoredAnswersDecide
    <3>4. g # f
      BY <1>3, <3>2, <3>3
    <3> QED BY <1>8, <3>3, <3>4
  <2> QED BY <1>9, <2>1 DEF StoredAnswersDecide
<1>14. OpenOnesLeadToReviews'
  BY <1>6, <1>9 DEF LearningInv, AnswersReachTheReview, OpenOnesLeadToReviews
<1> QED BY <1>10, <1>11, <1>12, <1>13, <1>14 DEF LearningInv, AnswersReachTheReview

(* What a thread does to its own entry. *)
OwnEntry(a) ==
  /\ analyses' \in [Thread -> Analysis]
  /\ \A b \in Thread : b # a => analyses'[b] = analyses[b]

(* The next recommendation of the thread gets its review. *)
LEMMA CreateReviewKept == ASSUME LearningInv, NEW a \in Thread, CreateReview(a) PROVE LearningInv'
<1>1. /\ reviews \in Seq(ReviewRecord)
      /\ recommendations \in Seq(Recommendation)
      /\ analyses \in [Thread -> Analysis]
  BY DEF LearningInv, LearningTyped
<1>2. PICK now \in Analysis : now = analyses[a]
  BY <1>1
<1>3. PICK n \in Nat : n = Len(reviews)
  BY <1>1, Indices
<1>4. PICK i : i = now.todo[1]
  OBVIOUS
<1>5. now.todo \in Seq(Nat) /\ now.todo # <<>> /\ now.review = 0 /\ Head(now.todo) = i
  BY <1>2, <1>4 DEF CreateReview, Analysis
<1>6. 1 \in DOMAIN now.todo
  BY <1>5, Indices
<1>7. i \in DOMAIN recommendations
  BY <1>2, <1>4, <1>6 DEF LearningInv, Queued, Waiting
<1>8. i \in Nat
  BY <1>1, <1>7, Indices
<1>9. PICK e \in ReviewRecord : e = [of |-> i, decision |-> "NONE"]
  BY <1>8 DEF ReviewRecord, Decided
<1>10. reviews' = Append(reviews, e)
  BY <1>2, <1>5, <1>9 DEF CreateReview
<1>11. /\ reviews' \in Seq(ReviewRecord) /\ Len(reviews') = n + 1
       /\ \A k \in 1..n : reviews'[k] = reviews[k]
       /\ reviews'[n + 1].of = i /\ reviews'[n + 1].decision = "NONE"
  BY <1>1, <1>3, <1>9, <1>10, Appended
<1>12. DOMAIN reviews = 1..n /\ DOMAIN reviews' = 1..(n + 1)
  BY <1>1, <1>3, <1>11, Indices
<1>13. PICK m \in Nat : m = n + 1
  OBVIOUS
<1>14. PICK new \in Analysis : new = [now EXCEPT !.review = m]
  BY <1>2, <1>13 DEF Analysis
<1>15. analyses' = [analyses EXCEPT ![a] = new]
  BY <1>1, <1>2, <1>11, <1>13, <1>14 DEF CreateReview
<1>16. /\ OwnEntry(a) /\ analyses'[a] = new
       /\ new.review = n + 1 /\ new.todo = now.todo /\ new.insights = now.insights
  BY <1>1, <1>2, <1>13, <1>14, <1>15 DEF OwnEntry, Analysis
<1>17. LearningTyped' /\ Answering' /\ Blames'
  <2>1. LearningTyped'
    BY <1>11, <1>16 DEF LearningInv, LearningTyped, CreateReview, OwnEntry
  <2>2. Answering'
    BY <1>3, <1>11 DEF LearningInv, CreateReview, Answering
  <2>3. \A b \in Thread : analyses'[b].insights = analyses[b].insights
    BY <1>2, <1>16 DEF OwnEntry
  <2>4. Blames'
    BY <2>3 DEF LearningInv, CreateReview, Blames
  <2> QED BY <2>1, <2>2, <2>4
<1>18. Linked'
  <2>1. \A k \in 1..(n + 1) : k \in 1..n \/ k = n + 1
    OBVIOUS
  <2> QED BY <1>3, <1>7, <1>11, <1>12, <2>1 DEF LearningInv, CreateReview, Linked
<1>19. \A b \in Thread : analyses'[b].todo = analyses[b].todo
  BY <1>2, <1>16 DEF OwnEntry
<1>20. Queued'
  <2>1. \A b \in Thread :
          /\ analyses'[b].review \in 0..Len(reviews')
          /\ analyses'[b].review # 0 =>
               /\ analyses'[b].todo # <<>>
               /\ reviews'[analyses'[b].review].of = analyses'[b].todo[1]
    <3>1. ASSUME NEW b \in Thread, b # a
          PROVE  /\ analyses'[b].review \in 0..Len(reviews')
                 /\ analyses'[b].review # 0 =>
                      /\ analyses'[b].todo # <<>>
                      /\ reviews'[analyses'[b].review].of = analyses'[b].todo[1]
      <4>1. analyses'[b] = analyses[b] /\ analyses[b].review \in 0..n
        BY <1>3, <1>16, <3>1 DEF OwnEntry, LearningInv, Queued
      <4>2. analyses[b].review # 0 => analyses[b].review \in 1..n
        BY <4>1
      <4> QED BY <1>11, <4>1, <4>2 DEF LearningInv, Queued
    <3>2. /\ analyses'[a].review \in 0..Len(reviews')
          /\ analyses'[a].todo # <<>>
          /\ reviews'[analyses'[a].review].of = analyses'[a].todo[1]
      BY <1>4, <1>5, <1>11, <1>16
    <3> QED BY <3>1, <3>2
  <2>2. ASSUME NEW b \in Thread, NEW j \in Waiting(b), NEW k \in DOMAIN reviews',
               reviews'[k].of = analyses[b].todo[j]
        PROVE  j = 1 /\ analyses'[b].review = k
    <3>1. CASE k = n + 1
      <4>1. analyses[b].todo[j] = analyses[a].todo[1] /\ 1 \in Waiting(a)
        BY <1>2, <1>4, <1>6, <1>11, <2>2, <3>1 DEF Waiting
      <4>2. b = a /\ j = 1
        BY <4>1 DEF LearningInv, Queued
      <4> QED BY <1>16, <3>1, <4>2
    <3>2. CASE k # n + 1
      <4>1. k \in 1..n /\ k \in DOMAIN reviews
        BY <1>12, <3>2
      <4>2. j = 1 /\ analyses[b].review = k
        BY <1>11, <2>2, <4>1 DEF LearningInv, Queued
      <4>3. b # a
        BY <1>2, <1>5, <4>1, <4>2
      <4> QED BY <1>16, <4>2, <4>3 DEF OwnEntry
    <3> QED BY <3>1, <3>2
  <2> QED BY <1>19, <2>1, <2>2 DEF LearningInv, CreateReview, Queued, Waiting
<1>21. StoredAnswersDecide'
  <2>1. \A j \in DOMAIN recommendations :
          recommendations[j].review # 0 => recommendations[j].review \in 1..n
    BY <1>3 DEF LearningInv, Linked
  <2> QED BY <1>11, <2>1
          DEF LearningInv, CreateReview, AnswersReachTheReview, StoredAnswersDecide
<1>22. OpenOnesLeadToReviews'
  <2>1. ASSUME NEW k \in DOMAIN reviews', recommendations[reviews'[k].of].review # k,
               \A b \in Thread : analyses'[b].review # k
        PROVE  recommendations[reviews'[k].of].status # "PROPOSED"
    <3>1. k # n + 1
      BY <1>16, <2>1
    <3>2. k \in 1..n /\ k \in DOMAIN reviews /\ reviews'[k] = reviews[k]
      BY <1>11, <1>12, <3>1
    <3>3. \A b \in Thread : analyses[b].review # k
      BY <1>2, <1>5, <1>16, <2>1, <3>2 DEF OwnEntry
    <3> QED BY <1>1, <2>1, <3>2, <3>3 DEF LearningInv, AnswersReachTheReview, OpenOnesLeadToReviews
  <2>2. DOMAIN analyses' = Thread
    BY <1>16 DEF OwnEntry
  <2> QED BY <2>1, <2>2 DEF CreateReview, OpenOnesLeadToReviews
<1> QED BY <1>17, <1>18, <1>20, <1>21, <1>22 DEF LearningInv, AnswersReachTheReview

(* The recommendation, as it was proposed, is stored with its review. *)
LEMMA AttachReviewKept == ASSUME LearningInv, NEW a \in Thread, AttachReview(a) PROVE LearningInv'
<1>1. /\ reviews \in Seq(ReviewRecord)
      /\ recommendations \in Seq(Recommendation)
      /\ analyses \in [Thread -> Analysis]
  BY DEF LearningInv, LearningTyped
<1>2. PICK now \in Analysis : now = analyses[a]
  BY <1>1
<1>3. PICK i : i = now.todo[1]
  OBVIOUS
<1>4. PICK n \in Nat : n = now.review
  BY DEF Analysis
<1>5. /\ n # 0 /\ now.todo \in Seq(Nat) /\ now.todo # <<>> /\ Head(now.todo) = i
      /\ n \in 1..Len(reviews) /\ reviews[n].of = i
  BY <1>1, <1>2, <1>3, <1>4, Indices DEF AttachReview, LearningInv, Queued, Analysis
<1>6. 1 \in DOMAIN now.todo
  BY <1>5, Indices
<1>7. i \in DOMAIN recommendations
  BY <1>2, <1>3, <1>6 DEF LearningInv, Queued, Waiting
<1>8. PICK r \in Recommendation : r = recommendations[i]
  BY <1>1, <1>7, Indices
<1>9. PICK e : e = [r EXCEPT !.status = "PROPOSED", !.review = n]
  OBVIOUS
<1>10. e \in Recommendation /\ e.status = "PROPOSED" /\ e.review = n /\ e.insight = r.insight
  BY <1>9 DEF Recommendation, Answered
<1>11. recommendations' = [recommendations EXCEPT ![i] = e]
  BY <1>2, <1>4, <1>5, <1>7, <1>8, <1>9 DEF AttachReview
<1>12. /\ recommendations' \in Seq(Recommendation)
       /\ DOMAIN recommendations' = DOMAIN recommendations
       /\ \A j \in DOMAIN recommendations :
            recommendations'[j] = IF j = i THEN e ELSE recommendations[j]
  BY <1>1, <1>7, <1>10, <1>11, Replaced
<1>13. PICK rest : rest = Tail(now.todo)
  OBVIOUS
<1>14. /\ rest \in Seq(Nat)
       /\ \A j \in DOMAIN rest : j + 1 \in DOMAIN now.todo /\ rest[j] = now.todo[j + 1]
       /\ \A j \in DOMAIN rest : j \in Nat /\ j + 1 # 1
  <2>1. rest \in Seq(Nat) /\ Len(rest) = Len(now.todo) - 1
        /\ \A j \in 1..Len(rest) : rest[j] = now.todo[j + 1]
    BY <1>5, <1>13, HeadTailProperties
  <2>2. /\ DOMAIN rest = 1..Len(rest) /\ Len(rest) \in Nat
        /\ DOMAIN now.todo = 1..Len(now.todo) /\ Len(now.todo) \in Nat
    BY <1>5, <2>1, Indices
  <2> QED BY <2>1, <2>2
<1>15. PICK new \in Analysis : new = [now EXCEPT !.todo = rest, !.review = 0]
  BY <1>14 DEF Analysis
<1>16. analyses' = [analyses EXCEPT ![a] = new]
  BY <1>1, <1>2, <1>13, <1>15 DEF AttachReview
<1>17. /\ OwnEntry(a) /\ analyses'[a] = new /\ DOMAIN analyses' = Thread
       /\ new.review = 0 /\ new.todo = rest /\ new.insights = now.insights
  BY <1>1, <1>15, <1>16 DEF OwnEntry, Analysis
<1>18. LearningTyped'
  BY <1>12, <1>17 DEF LearningInv, LearningTyped, AttachReview, OwnEntry
<1>19. Linked'
  <2>1. n \in 0..Len(reviews)
    BY <1>1, <1>5, Indices
  <2> QED BY <1>10, <1>12, <2>1 DEF LearningInv, Linked, AttachReview
<1>20. Answering'
  BY <1>10, <1>12 DEF LearningInv, Answering, AttachReview
<1>21. Blames'
  <2>1. \A j \in DOMAIN recommendations : recommendations'[j].insight = recommendations[j].insight
    BY <1>8, <1>10, <1>12
  <2>2. \A b \in Thread : analyses'[b].insights = analyses[b].insights
    BY <1>2, <1>17 DEF OwnEntry
  <2> QED BY <1>12, <2>1, <2>2 DEF LearningInv, Blames, AttachReview
<1>22. \A b \in Thread : \A j \in DOMAIN analyses'[b].todo :
         \E k \in Waiting(b) :
           /\ analyses'[b].todo[j] = analyses[b].todo[k]
           /\ k = IF b = a THEN j + 1 ELSE j
  BY <1>2, <1>14, <1>17 DEF OwnEntry, Waiting
<1>23. Queued'
  <2>1. ASSUME NEW b \in Thread
        PROVE  /\ analyses'[b].review \in 0..Len(reviews)
               /\ analyses'[b].review # 0 =>
                    /\ analyses'[b].todo # <<>>
                    /\ reviews[analyses'[b].review].of = analyses'[b].todo[1]
    <3>1. Len(reviews) \in Nat
      BY <1>1, Indices
    <3> QED BY <1>17, <3>1 DEF OwnEntry, LearningInv, Queued
  <2>2. ASSUME NEW b \in Thread, NEW j \in DOMAIN analyses'[b].todo
        PROVE  /\ analyses'[b].todo[j] \in DOMAIN recommendations
               /\ \A x \in DOMAIN reviews :
                    reviews[x].of = analyses'[b].todo[j] => j = 1 /\ analyses'[b].review = x
    <3>1. PICK k \in Waiting(b) : /\ analyses'[b].todo[j] = analyses[b].todo[k]
                                  /\ k = IF b = a THEN j + 1 ELSE j
      BY <1>22
    <3>2. ~ (b = a /\ k = 1)
      BY <1>14, <1>17, <3>1
    <3>3. \A x \in DOMAIN reviews :
            reviews[x].of = analyses'[b].todo[j] => k = 1 /\ analyses[b].review = x
      BY <3>1 DEF LearningInv, Queued
    <3> QED BY <1>17, <3>1, <3>2, <3>3 DEF LearningInv, Queued, OwnEntry
  <2>3. ASSUME NEW b \in Thread, NEW j \in DOMAIN analyses'[b].todo,
               NEW c \in Thread, NEW k \in DOMAIN analyses'[c].todo,
               analyses'[b].todo[j] = analyses'[c].todo[k]
        PROVE  b = c /\ j = k
    <3>1. PICK l \in Waiting(b) : /\ analyses'[b].todo[j] = analyses[b].todo[l]
                                  /\ l = IF b = a THEN j + 1 ELSE j
      BY <1>22
    <3>2. PICK m \in Waiting(c) : /\ analyses'[c].todo[k] = analyses[c].todo[m]
                                  /\ m = IF c = a THEN k + 1 ELSE k
      BY <1>22
    <3>3. b = c /\ l = m
      <4>1. analyses[b].todo[l] = analyses[c].todo[m]
        BY <2>3, <3>1, <3>2
      <4>2. \A x \in Waiting(b) : \A y \in Thread : \A z \in Waiting(y) :
              analyses[b].todo[x] = analyses[y].todo[z] => b = y /\ x = z
        BY DEF LearningInv, Queued
      <4> QED BY <3>1, <3>2, <4>1, <4>2
    <3>4. b = a => j \in Nat /\ k \in Nat
      BY <1>14, <1>17, <3>3
    <3> QED BY <3>1, <3>2, <3>3, <3>4
  <2>4. reviews' = reviews
    BY DEF AttachReview
  <2> QED BY <1>12, <2>1, <2>2, <2>3, <2>4 DEF Queued, Waiting
<1>24. StoredAnswersDecide'
  <2>1. reviews' = reviews /\ answers' = answers
    BY DEF AttachReview
  <2>2. \A j \in DOMAIN recommendations :
          recommendations'[j].status # "PROPOSED" => recommendations'[j] = recommendations[j]
    BY <1>10, <1>12
  <2> QED BY <1>12, <2>1, <2>2 DEF LearningInv, AnswersReachTheReview, StoredAnswersDecide
<1>25. OpenOnesLeadToReviews'
  <2>1. ASSUME NEW k \in DOMAIN reviews, recommendations'[reviews[k].of].review # k,
               \A b \in Thread : analyses'[b].review # k
        PROVE  recommendations'[reviews[k].of].status # "PROPOSED"
    <3>1. reviews[k].of \in DOMAIN recommendations
      BY DEF LearningInv, Linked
    <3>2. reviews[k].of # i
      <4>1. SUFFICES ASSUME reviews[k].of = i
                     PROVE  FALSE
        OBVIOUS
      <4>2. 1 \in Waiting(a) /\ analyses[a].todo[1] = i
        BY <1>2, <1>3, <1>6 DEF Waiting
      <4>3. analyses[a].review = k
        BY <4>1, <4>2 DEF LearningInv, Queued
      <4>4. recommendations'[i].review = k
        BY <1>2, <1>4, <1>7, <1>10, <1>12, <4>3
      <4> QED BY <2>1, <4>1, <4>4
    <3>3. k # n
      BY <1>5, <3>2
    <3>4. \A b \in Thread : analyses[b].review # k
      BY <1>2, <1>4, <1>17, <2>1, <3>3 DEF OwnEntry
    <3> QED BY <1>1, <1>12, <2>1, <3>1, <3>2, <3>4
            DEF LearningInv, AnswersReachTheReview, OpenOnesLeadToReviews
  <2> QED BY <1>17, <2>1 DEF AttachReview, OpenOnesLeadToReviews
<1> QED BY <1>18, <1>19, <1>20, <1>21, <1>23, <1>24, <1>25 DEF LearningInv, AnswersReachTheReview

(* An analysis adds what it recommends, and keeps it to have it reviewed. *)
LEMMA AnalyseKept ==
  ASSUME LearningInv, NEW a \in Thread, NEW failures \in Nat, NEW other \in Others,
         Analyse(a, failures, other), progress' \in [Runs -> Progress],
         overridden' \in BOOLEAN, ~ overridden' => ~ overridden /\ failures = Len(issues)
  PROVE  LearningInv'
<1>1. /\ issues \in Seq(IssueRecord)
      /\ reviews \in Seq(ReviewRecord)
      /\ recommendations \in Seq(Recommendation)
      /\ analyses \in [Thread -> Analysis]
  BY DEF LearningInv, LearningTyped
<1>2. PICK found \in SUBSET Insight : found = Insights(failures, other)
  BY Found
<1>3. "QUALITY" \in found => failures >= 2
  BY <1>2, Found
<1>4. PICK new \in Seq(Recommendation) : new = Proposals(found)
  BY Proposed
<1>5. \A k \in DOMAIN new :
        new[k].insight \in found /\ new[k].status = "PROPOSED" /\ new[k].review = 0
  BY <1>4, Proposed
<1>6. PICK n \in Nat : n = Len(recommendations)
  BY <1>1, Indices
<1>7. PICK m \in Nat : m = Len(new)
  BY Indices
<1>8. DOMAIN recommendations = 1..n /\ DOMAIN new = 1..m
  BY <1>1, <1>6, <1>7, Indices
<1>9. PICK todo : todo = [k \in 1..m |-> n + k]
  OBVIOUS
<1>10. todo \in Seq(Nat) /\ DOMAIN todo = 1..m
  BY <1>9
<1>11. PICK entry : entry = [insights |-> found, review |-> 0, todo |-> todo]
  OBVIOUS
<1>12. entry \in Analysis /\ entry.todo = todo /\ entry.review = 0 /\ entry.insights = found
  BY <1>10, <1>11 DEF Analysis
<1>13. /\ recommendations' = recommendations \o new
       /\ analyses' = [analyses EXCEPT ![a] = entry]
  BY <1>2, <1>4, <1>6, <1>8, <1>9, <1>11 DEF Analyse
<1>14. /\ OwnEntry(a) /\ analyses'[a] = entry /\ DOMAIN analyses' = Thread
  BY <1>1, <1>12, <1>13 DEF OwnEntry
<1>15. /\ recommendations' \in Seq(Recommendation) /\ Len(recommendations') = n + m
       /\ \A j \in 1..n : recommendations'[j] = recommendations[j]
       /\ \A j \in 1..m : recommendations'[n + j] = new[j]
  BY <1>1, <1>6, <1>7, <1>13, Joined
<1>16. DOMAIN recommendations' = 1..(n + m)
  BY <1>15, Indices
<1>17. \A j \in 1..(n + m) : j \in 1..n \/ \E k \in 1..m : j = n + k
  <2>1. ASSUME NEW j \in 1..(n + m), j \notin 1..n
        PROVE  j - n \in 1..m /\ j = n + (j - n)
    BY <2>1
  <2> QED BY <2>1
<1>18. ASSUME NEW j \in DOMAIN recommendations'
       PROVE  \/ j \in DOMAIN recommendations /\ recommendations'[j] = recommendations[j]
              \/ /\ recommendations'[j].insight \in found
                 /\ recommendations'[j].status = "PROPOSED" /\ recommendations'[j].review = 0
  <2>1. CASE j \in 1..n
    BY <1>8, <1>15, <2>1
  <2>2. CASE j \notin 1..n
    <3>1. PICK k \in 1..m : j = n + k
      BY <1>16, <1>17, <1>18, <2>2
    <3>2. recommendations'[j] = new[k]
      BY <1>15, <3>1
    <3> QED BY <1>5, <1>8, <3>2
  <2> QED BY <2>1, <2>2
<1>19. analyses[a].review = 0
  BY <1>1 DEF Analyse, Nothing
<1>20. reviews' = reviews /\ answers' = answers /\ issues' = issues
  BY DEF Analyse
<1>21. DOMAIN recommendations \subseteq DOMAIN recommendations'
  BY <1>8, <1>16
<1>22. \A j \in DOMAIN recommendations : recommendations'[j] = recommendations[j]
  BY <1>8, <1>15
<1>23. LearningTyped'
  BY <1>14, <1>15, <1>20 DEF LearningInv, LearningTyped, OwnEntry
<1>24. Linked'
  <2>1. 0 \in 0..Len(reviews)
    BY <1>1, Indices
  <2> QED BY <1>18, <1>20, <1>21, <2>1 DEF LearningInv, Linked
<1>25. Answering'
  BY <1>20, <1>21, <1>22 DEF LearningInv, Answering
<1>26. Blames'
  <2>1. SUFFICES ASSUME ~ overridden'
                 PROVE  Blames'
    BY DEF Blames
  <2>2. "QUALITY" \in found => issues # <<>>
    BY <1>1, <1>3, <2>1, Indices
  <2> QED BY <1>12, <1>14, <1>18, <1>20, <2>1, <2>2 DEF LearningInv, Blames, OwnEntry
<1>27. Queued'
  <2>1. ASSUME NEW b \in Thread
        PROVE  /\ analyses'[b].review \in 0..Len(reviews)
               /\ analyses'[b].review # 0 =>
                    /\ analyses'[b].todo # <<>>
                    /\ reviews[analyses'[b].review].of = analyses'[b].todo[1]
    <3>1. 0 \in 0..Len(reviews)
      BY <1>1, Indices
    <3> QED BY <1>12, <1>14, <3>1 DEF OwnEntry, LearningInv, Queued
  <2>2. \A j \in DOMAIN analyses'[a].todo :
          /\ analyses'[a].todo[j] = n + j /\ analyses'[a].todo[j] \in 1..(n + m)
          /\ analyses'[a].todo[j] \notin 1..n
          /\ j \in 1..m
    BY <1>9, <1>10, <1>12, <1>14
  <2>3. ASSUME NEW b \in Thread, b # a
        PROVE  /\ analyses'[b] = analyses[b]
               /\ \A j \in DOMAIN analyses'[b].todo : analyses'[b].todo[j] \in 1..n
    BY <1>8, <1>14, <2>3 DEF OwnEntry, LearningInv, Queued, Waiting
  <2>4. ASSUME NEW b \in Thread, NEW j \in DOMAIN analyses'[b].todo
        PROVE  /\ analyses'[b].todo[j] \in DOMAIN recommendations'
               /\ \A k \in DOMAIN reviews :
                    reviews[k].of = analyses'[b].todo[j] => j = 1 /\ analyses'[b].review = k
    <3>1. CASE b = a
      <4>1. \A k \in DOMAIN reviews : reviews[k].of \in 1..n
        BY <1>8 DEF LearningInv, Linked
      <4> QED BY <1>16, <2>2, <2>4, <3>1, <4>1
    <3>2. CASE b # a
      <4>1. j \in Waiting(b) /\ analyses'[b].todo[j] = analyses[b].todo[j]
        BY <2>3, <2>4, <3>2 DEF Waiting
      <4> QED BY <1>21, <2>3, <3>2, <4>1 DEF LearningInv, Queued
    <3> QED BY <3>1, <3>2
  <2>5. ASSUME NEW b \in Thread, NEW j \in DOMAIN analyses'[b].todo,
               NEW c \in Thread, NEW k \in DOMAIN analyses'[c].todo,
               analyses'[b].todo[j] = analyses'[c].todo[k]
        PROVE  b = c /\ j = k
    <3>1. CASE b = a /\ c = a
      <4>1. n + j = n + k /\ j \in 1..m /\ k \in 1..m
        BY <2>2, <2>5, <3>1
      <4> QED BY <3>1, <4>1
    <3>2. CASE b = a /\ c # a
      BY <2>2, <2>3, <2>5, <3>2
    <3>3. CASE b # a /\ c = a
      BY <2>2, <2>3, <2>5, <3>3
    <3>4. CASE b # a /\ c # a
      BY <2>3, <2>5, <3>4 DEF LearningInv, Queued, Waiting
    <3> QED BY <3>1, <3>2, <3>3, <3>4
  <2> QED BY <1>20, <2>1, <2>4, <2>5 DEF Queued, Waiting
<1>28. StoredAnswersDecide'
  <2>1. ASSUME NEW j \in DOMAIN recommendations', recommendations'[j].status # "PROPOSED"
        PROVE  j \in DOMAIN recommendations /\ recommendations'[j] = recommendations[j]
    BY <1>18, <2>1
  <2> QED BY <1>20, <2>1 DEF LearningInv, AnswersReachTheReview, StoredAnswersDecide
<1>29. OpenOnesLeadToReviews'
  <2>1. ASSUME NEW k \in DOMAIN reviews, recommendations'[reviews[k].of].review # k,
               \A b \in Thread : analyses'[b].review # k
        PROVE  recommendations'[reviews[k].of].status # "PROPOSED"
    <3>1. k # 0 /\ reviews[k].of \in DOMAIN recommendations
      BY <1>1, Indices DEF LearningInv, Linked
    <3>2. \A b \in Thread : analyses[b].review # k
      BY <1>14, <1>19, <2>1, <3>1 DEF OwnEntry
    <3> QED BY <1>1, <1>22, <2>1, <3>1, <3>2
            DEF LearningInv, AnswersReachTheReview, OpenOnesLeadToReviews
  <2> QED BY <1>14, <1>20, <2>1 DEF OpenOnesLeadToReviews
<1> QED BY <1>23, <1>24, <1>25, <1>26, <1>27, <1>28, <1>29 DEF LearningInv, AnswersReachTheReview

LEMMA RunAnalysesKept ==
  ASSUME LearningInv, NEW r \in Runs, NEW other \in Others, RunAnalyses(r, other)
  PROVE  LearningInv'
<1>1. issues \in Seq(IssueRecord) /\ progress \in [Runs -> Progress] /\ overridden \in BOOLEAN
  BY DEF LearningInv, LearningTyped
<1>2. Len(issues) \in Nat /\ r \in Thread
  BY <1>1, Indices DEF Thread
<1>3. progress' \in [Runs -> Progress]
  BY <1>1 DEF RunAnalyses, Progress
<1> QED BY <1>1, <1>2, <1>3, AnalyseKept DEF RunAnalyses

LEMMA RouteAnalysesKept ==
  ASSUME LearningInv, NEW failures \in {2, Len(issues)}, NEW other \in Others,
         RouteAnalyses(failures, other)
  PROVE  LearningInv'
<1>1. issues \in Seq(IssueRecord) /\ progress \in [Runs -> Progress] /\ overridden \in BOOLEAN
  BY DEF LearningInv, LearningTyped
<1>2. failures \in Nat /\ Api \in Thread
  BY <1>1, Indices DEF Thread
<1>3. progress' \in [Runs -> Progress]
  BY <1>1 DEF RouteAnalyses
<1>4. overridden' \in BOOLEAN /\ (~ overridden' => ~ overridden /\ failures = Len(issues))
  BY <1>1 DEF RouteAnalyses
<1>5. Analyse(Api, failures, other)
  BY DEF RouteAnalyses
<1> QED BY <1>2, <1>3, <1>4, <1>5, AnalyseKept

-----------------------------------------------------------------------------
LEMMA LearningStarts == LearningInit => LearningInv
<1> SUFFICES ASSUME LearningInit
             PROVE  LearningInv
  OBVIOUS
<1>1. \A S : <<>> \in Seq(S)
  OBVIOUS
<1>2. progress \in [Runs -> Progress]
  <2>1. [at : {"working"}, package : {1}, failed : {FALSE}, packages : 1..MaxPackages]
           \subseteq Progress
    <3>1. {1} \subseteq Nat /\ 1..MaxPackages \subseteq Nat /\ {FALSE} \subseteq BOOLEAN
      BY LearningAssumption
    <3>2. {"working"} \subseteq {"working", "completed", "ended"}
      OBVIOUS
    <3> QED BY <3>1, <3>2 DEF Progress
  <2> QED BY <2>1 DEF LearningInit
<1>3. Nothing \in Analysis /\ Nothing.todo = <<>> /\ Nothing.review = 0 /\ Nothing.insights = {}
  BY DEF Nothing, Analysis
<1>4. \A a \in Thread : analyses[a] = Nothing
  BY DEF LearningInit, Thread
<1>5. analyses \in [Thread -> Analysis]
  BY <1>3 DEF LearningInit, Thread
<1>6. answers \in [Clients -> AnswerCall]
      /\ \A f \in Clients : answers[f].at = "idle" /\ answers[f].review = 0
  BY DEF LearningInit, NoAnswer, AnswerCall, Answered
<1>7. LearningTyped
  BY <1>1, <1>2, <1>5, <1>6 DEF LearningInit, LearningTyped
<1>8. Linked /\ Answering /\ AnswersReachTheReview
  BY <1>6 DEF LearningInit, Linked, Answering, AnswersReachTheReview, StoredAnswersDecide,
     OpenOnesLeadToReviews
<1>9. Queued
  <2>1. Len(reviews) = 0
    BY DEF LearningInit
  <2> QED BY <1>3, <1>4, <2>1 DEF Queued, Waiting
<1>10. Blames
  BY <1>3, <1>4 DEF LearningInit, Blames
<1> QED BY <1>7, <1>8, <1>9, <1>10 DEF LearningInv

LEMMA LearningKept == LearningInv /\ [LearningNext]_learningVars => LearningInv'
<1> SUFFICES ASSUME LearningInv, [LearningNext]_learningVars
             PROVE  LearningInv'
  OBVIOUS
<1>1. CASE \E r \in Runs : QaFails(r) \/ NextPackage(r) \/ WorkflowCompleted(r)
  BY <1>1, QaFailsKept, NextPackageKept, WorkflowCompletedKept
<1>2. CASE \E r \in Runs, other \in Others : RunAnalyses(r, other)
  BY <1>2, RunAnalysesKept
<1>3. CASE \E failures \in {2, Len(issues)}, other \in Others : RouteAnalyses(failures, other)
  BY <1>3, RouteAnalysesKept
<1>4. CASE \E a \in Runs \cup {Api} : Remember(a) \/ CreateReview(a) \/ AttachReview(a)
  BY <1>4, RememberKept, CreateReviewKept, AttachReviewKept DEF Thread
<1>5. CASE \E f \in Clients, i \in DOMAIN recommendations, s \in DOMAIN Decision :
             ReadRecommendation(f, i, s)
  BY <1>5, ReadKept
<1>6. CASE \E f \in Clients : StoreAnswer(f) \/ CheckReview(f) \/ CompleteReview(f)
  BY <1>6, StoreKept, CheckKept, CompleteReviewKept
<1>7. CASE \E k \in DOMAIN reviews, d \in {"APPROVED", "REJECTED"} : DecideReview(k, d)
  BY <1>7, DecideReviewKept
<1>8. CASE UNCHANGED learningVars
  BY <1>8 DEF learningVars, LearningInv, LearningTyped, Linked, Queued, Waiting, Answering,
     Blames, AnswersReachTheReview, StoredAnswersDecide, OpenOnesLeadToReviews
<1> QED BY <1>1, <1>2, <1>3, <1>4, <1>5, <1>6, <1>7, <1>8 DEF LearningNext

(* The invariant the theorems on learning rest on. *)
LEMMA LearningInvariant == LearningSpec => []LearningInv
<1> QED BY LearningStarts, LearningKept, PTL DEF LearningSpec

(* The issues, the recommendations and the reviews are as the registries keep *)
(* them, and refer to entries that exist (review_id in the metadata of a      *)
(* recommendation, the recommendation an OPTIMIZATION_RECOMMENDATION is of).  *)
THEOREM LearningKeepsTypes == LearningSpec => []LearningTypeOK
<1>1. LearningInv => LearningTypeOK
  <2> SUFFICES ASSUME LearningInv
               PROVE  LearningTypeOK
    OBVIOUS
  <2>1. /\ issues \in Seq(IssueRecord)
        /\ reviews \in Seq(ReviewRecord)
        /\ recommendations \in Seq(Recommendation)
    BY DEF LearningInv, LearningTyped
  <2>2. \A i \in DOMAIN issues : issues[i].origin \in Origin
    <3>1. \A i \in DOMAIN issues : issues[i] \in IssueRecord
      BY <2>1, Indices
    <3> QED BY <3>1 DEF IssueRecord
  <2>3. \A i \in DOMAIN recommendations : recommendations[i].status \in Answered
    <3>1. \A i \in DOMAIN recommendations : recommendations[i] \in Recommendation
      BY <2>1, Indices
    <3> QED BY <3>1 DEF Recommendation
  <2>4. \A k \in DOMAIN reviews : reviews[k].decision \in Decided
    <3>1. \A k \in DOMAIN reviews : reviews[k] \in ReviewRecord
      BY <2>1, Indices
    <3> QED BY <3>1 DEF ReviewRecord
  <2> QED
    BY <2>2, <2>3, <2>4 DEF LearningInv, Linked, LearningTypeOK, Origin, Answered, Decided
<1> QED BY <1>1, LearningInvariant, PTL

(* However the calls of any clients overtake each other and the analysis that *)
(* attaches the reviews, with the read and the store of an answer apart: an   *)
(* answer that is stored with a review decides it, and a recommendation whose *)
(* review no longer leads anywhere is one that was answered; an open one      *)
(* always leads to its review (_create_reviews_for_recommendations,           *)
(* update_recommendation_status, _complete_review_if_needed).                 *)
THEOREM AnswersArrive == LearningSpec => []AnswersReachTheReview
<1>1. LearningInv => AnswersReachTheReview
  BY DEF LearningInv
<1> QED BY <1>1, LearningInvariant, PTL

(* Insights and summaries, which count as issues of QA themselves, never      *)
(* start to blame quality: the first issue is one of QA                       *)
(* (build_learning_analysis_context, _create_memory_for_insights).            *)
THEOREM BlameFollowsFailure == LearningSpec => []BlamesAFailure
<1>1. LearningInv => BlamesAFailure
  <2>1. issues \in Seq(IssueRecord) /\ issues # <<>> => 1 \in DOMAIN issues
    BY Indices
  <2> QED BY <2>1 DEF LearningInv, LearningTyped, Blames, BlamesAFailure
<1> QED BY <1>1, LearningInvariant, PTL
=============================================================================
