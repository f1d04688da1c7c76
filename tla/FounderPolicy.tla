--------------------------- MODULE FounderPolicy ---------------------------
(***************************************************************************)
(* The deterministic policy of the founder and PM conversation             *)
(* (packages/conversations/lummevia_conversations/policies.py): which of   *)
(* the five contract fields a message fills, when the PM asks again and    *)
(* when it drafts a brief.  A thread is the record of what the policy      *)
(* reads and writes; the status of a thread is ACTIVE unless its phase is  *)
(* APPROVED, and its flag approved says the same as its phase.             *)
(* The text of a message is what the policy finds in it: whether it is one *)
(* of the approval phrases, how many answer lines it has, which fields'    *)
(* markers occur in it.                                                    *)
(***************************************************************************)
EXTENDS Naturals, Sequences, FiniteSets, SequencesExt

CONSTANTS MaxQuestions,  \* questions in one message of the PM
          MaxIterations  \* messages with questions before a draft is forced

ASSUME PolicyAssumption == MaxQuestions \in Nat \ {0} /\ MaxIterations \in Nat

Fields == <<"objective", "constraints", "user", "scope", "expected_success">>

Phase == {"STARTED", "PM_QUESTIONS", "PENDING_APPROVAL", "APPROVED"}

Message == [confirms : BOOLEAN, answers : Nat, marks : SUBSET ToSet(Fields)]

\* brief is the draft in the metadata (0: none), asked the pending question
\* fields, which are listed in the order of the contract
Thread == [phase : Phase, iterations : Nat, version : Nat, brief : Nat,
           known : SUBSET ToSet(Fields), asked : SUBSET ToSet(Fields)]

NewThread ==
    [phase |-> "STARTED", iterations |-> 0, version |-> 0, brief |-> 0,
     known |-> {}, asked |-> {}]

\* The first n of some fields.
FirstFields(n, fields) ==
    {Fields[i] : i \in {j \in DOMAIN Fields :
        Fields[j] \in fields /\ Cardinality({k \in 1..j : Fields[k] \in fields}) <= n}}

\* Answer lines go to the questions in order; the message is never empty, so
\* it is an objective when nothing else was; a loaded issue has a summary.
KnownAfter(thread, message, issueLoaded) ==
    thread.known \union {"objective"} \union message.marks
      \union FirstFields(message.answers, thread.asked)
      \union (IF issueLoaded THEN {"scope"} ELSE {})

Missing(known) == ToSet(Fields) \ known

DraftIsDue(thread, known) ==
    Missing(known) = {} \/ thread.iterations >= MaxIterations

\* Wrong: the draft keeps the number of the draft it replaces.
DraftedSameVersion(thread, known, brief) ==
    [thread EXCEPT !.phase = "PENDING_APPROVAL", !.version = IF @ = 0 THEN 1 ELSE @,
                   !.brief = brief, !.known = known, !.asked = {}]

Drafted(thread, known, brief) ==
    [thread EXCEPT !.phase = "PENDING_APPROVAL", !.version = @ + 1,
                   !.brief = brief, !.known = known, !.asked = {}]

Questioned(thread, known) ==
    [thread EXCEPT !.phase = "PM_QUESTIONS", !.iterations = @ + 1, !.known = known,
                   !.asked = FirstFields(MaxQuestions, Missing(known))]

\* The thread after a founder message: questions, or a draft named brief.
AfterMessage(thread, message, issueLoaded, brief) ==
    LET known == KnownAfter(thread, message, issueLoaded)
    IN  IF DraftIsDue(thread, known) THEN Drafted(thread, known, brief)
        ELSE Questioned(thread, known)

Approved(thread) == [thread EXCEPT !.phase = "APPROVED"]

\* The draft stays in the metadata, so a thread that ever had one has one.
HasDraft(thread) == thread.brief # 0 \/ thread.phase = "PENDING_APPROVAL"
=============================================================================
