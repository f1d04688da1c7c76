-------------------------- MODULE ApprovalHandoff --------------------------
(***************************************************************************)
(* From a founder's Telegram message to a workflow run: the webhook, the   *)
(* conversation, the approval, the handoff and its run.                    *)
(*                                                                         *)
(* The webhook is a coroutine that never awaits once it has the body, so   *)
(* one update is handled at a time, in steps at its registry accesses and  *)
(* external calls.  What runs beside it are the routes of the thread pool: *)
(* POST /conversations/{id}/message, which stores the thread it fetched    *)
(* earlier, and the founder nodes of a technical run on a thread.          *)
(*                                                                         *)
(* Telegram delivers an update until it is answered with success, in any   *)
(* order, and may deliver it again although it was; since the order is     *)
(* open, all updates are there from the start.  A handler may fail at      *)
(* every external call and the process may crash.  Persistence is on: a    *)
(* restart restores threads, handoffs and the runs that ended.             *)
(***************************************************************************)
EXTENDS FounderPolicy, Functions

CONSTANTS MaxThreads,   \* bound: issues, each with one thread at most
          Texts,        \* what an update can say
          Updates,      \* number of updates the founder sends
          MaxBeside,    \* bound: requests beside the webhook
          MaxFaults     \* bound: failed calls, repeated deliveries and crashes

VARIABLES threads,   \* ConversationRegistry: thread per issue
          pending,   \* _pending_telegram_starts of the chat
          inbox,     \* Telegram: number of updates to deliver, per text
          handler,   \* the update in progress
          post,      \* a message route in progress
          nodes,     \* per thread: a technical run before its approval node
          reviews,   \* HumanReviewRegistry: approved <<thread, version>>
          handoffs,  \* ApprovedProjectHandoffRegistry, in order of creation
          runs,      \* RuntimeRegistry: runs started for a handoff
          count,     \* what the bounds count, and the number of drafts
          torn,      \* a save replaced a thread changed since it was fetched
          asked      \* the bot asked which brief to approve, or found none

vars == <<threads, pending, inbox, handler, post, nodes, reviews, handoffs,
          runs, count, torn, asked>>

ThreadId == 1..MaxThreads
NoThread == [phase |-> "none"]
Text == [command : {"lummevia", "approve"}, project : BOOLEAN, issue : 0..MaxThreads,
         body : {"none", "project", "text"}, message : Message]

ASSUME HandoffAssumption ==
    Texts \subseteq Text /\ {MaxThreads, Updates, MaxBeside, MaxFaults} \subseteq Nat

Idle == [at |-> "idle"]
NoPost == [thread |-> 0]
NotStarted == [status |-> "none"]

Init ==
    /\ threads = [t \in ThreadId |-> NoThread]
    /\ inbox \in [Texts -> 0..Updates] /\ SumFunction(inbox) = Updates
    /\ pending = NotStarted /\ handler = Idle /\ post = NoPost
    /\ nodes = {} /\ reviews = {} /\ handoffs = <<>> /\ runs = <<>>
    /\ count = [beside |-> 0, faults |-> 0, restarts |-> 0, drafts |-> 0]
    /\ torn = FALSE /\ asked = FALSE

-----------------------------------------------------------------------------
Exists(t) == threads[t] # NoThread

\* The threads /approve chooses from: an approved one still has its draft.
Candidates(issue) ==
    {t \in ThreadId : Exists(t) /\ HasDraft(threads[t]) /\ issue \in {0, t}}

\* A thread is stored whole; what was fetched before may be out of date.
Save(t, fetched, thread) ==
    /\ threads' = [threads EXCEPT ![t] = thread]
    /\ torn' = (torn \/ threads[t] # fetched)

\* The update is answered; Telegram may deliver it again all the same.
Answered(kept) ==
    /\ handler' = Idle
    /\ IF kept THEN UNCHANGED inbox /\ count.faults < MaxFaults
                    /\ count' = [count EXCEPT !.faults = @ + 1]
               ELSE inbox' = [inbox EXCEPT ![handler.update] = @ - 1] /\ UNCHANGED count

\* A call raised: the route answers 500 and the update stays.
Fails == /\ count.faults < MaxFaults
         /\ count' = [count EXCEPT !.faults = @ + 1]
         /\ handler' = Idle

\* What one delivery does before its thread is known.  The outcome is a
\* reply, or the issue to work on (0: create one) and the start to remember.
Reply(p) == [kind |-> "reply", pending |-> p]
Ask == [kind |-> "ask", pending |-> pending]
Work(issue, p, message) ==
    [kind |-> "work", issue |-> issue, pending |-> p, message |-> message]

AwaitIntent == [status |-> "intent"]
AwaitProject(intent) == [status |-> "project", intent |-> intent]
NoIntent == [confirms |-> FALSE, answers |-> 0, marks |-> {}]

\* The message the policy sees when the update has no body.
Default(text) ==
    IF text.body # "none" THEN text.message
    ELSE [confirms |-> text.command = "approve", answers |-> 1, marks |-> {}]

\* _resolve_project_from_pending_selection, then the request for a project
WithoutProject(text) ==
    LET intent == IF text.body = "none" THEN NoIntent ELSE text.message IN
    CASE pending.status = "none" -> Reply(AwaitProject(intent))
      [] pending.status = "intent" /\ text.body = "none" -> Reply(pending)
      [] pending.status = "intent" /\ text.body # "none" ->
            Work(text.issue, NotStarted, text.message)
      [] pending.status = "project" /\ text.body # "project" -> Reply(pending)
      [] pending.status = "project" /\ text.body = "project" ->
            IF pending.intent = NoIntent THEN Reply(AwaitIntent)
            ELSE Work(text.issue, NotStarted, pending.intent)

WithProject(text) ==
    IF text.body = "none" /\ text.command = "lummevia" /\ text.issue = 0
    THEN Reply(AwaitIntent)
    ELSE Work(text.issue, pending, Default(text))

Route(text) ==
    LET found == Candidates(text.issue) IN
    CASE /\ text.command = "approve" /\ ~text.project /\ text.issue = 0
         /\ Cardinality(found) # 1 -> Ask
      [] text.command = "approve" /\ Cardinality(found) = 1 ->
            Work(CHOOSE t \in found : TRUE, pending, Default(text))
      [] OTHER -> IF text.project THEN WithProject(text) ELSE WithoutProject(text)

-----------------------------------------------------------------------------
\* The webhook, from the delivery to the founder's message on its thread.
Remember(text, work) ==
    LET t == IF work.issue # 0 THEN work.issue
             ELSE CHOOSE new \in ThreadId : ~Exists(new)
        thread == IF Exists(t) THEN threads[t] ELSE NewThread
        approves == HasDraft(thread)
                    /\ (text.command = "approve" \/ work.message.confirms)
    IN  /\ threads' = [threads EXCEPT ![t] = thread]
        /\ handler' = [at |-> IF approves THEN "approve" ELSE "message",
                       update |-> text, thread |-> t, copy |-> thread,
                       message |-> work.message]

Deliver(text) ==
    LET route == Route(text) IN
        /\ handler = Idle /\ inbox[text] > 0
        /\ CASE route.kind = "ask" ->
                    /\ asked' = TRUE /\ inbox' = [inbox EXCEPT ![text] = @ - 1]
                    /\ UNCHANGED <<threads, pending, handler, count>>
             [] route.kind = "reply" ->
                    /\ pending' = route.pending /\ inbox' = [inbox EXCEPT ![text] = @ - 1]
                    /\ UNCHANGED <<threads, handler, count, asked>>
             [] route.kind = "work" ->
                    /\ pending' = route.pending
                    /\ \/ /\ route.issue # 0 \/ \E t \in ThreadId : ~Exists(t)
                          /\ Remember(text, route)
                          /\ UNCHANGED count
                       \/ route.issue = 0 /\ Fails /\ UNCHANGED threads \* create_issue
                    /\ UNCHANGED <<inbox, asked>>
        /\ UNCHANGED <<post, nodes, reviews, handoffs, runs, torn>>

\* YouTrack does not list its projects: a reply that remembers nothing.
ProjectsUnavailable(text) ==
    /\ handler = Idle /\ inbox[text] > 0
    /\ ~text.project
    /\ \/ pending.status = "none" /\ Route(text).kind = "reply"
       \/ pending.status = "project" /\ text.body = "project"
    /\ inbox' = [inbox EXCEPT ![text] = @ - 1]
    /\ count.faults < MaxFaults
    /\ count' = [count EXCEPT !.faults = @ + 1]
    /\ UNCHANGED <<threads, pending, handler, post, nodes, reviews, handoffs, runs,
                   torn, asked>>

\* A review is created and completed at once, with APPROVED.
Reviewed(t, version) == reviews' = reviews \union {<<t, version>>}

\* After the review, the thread that was read is stored.
Approve ==
    /\ handler.at = "approve"
    /\ Reviewed(handler.thread, handler.copy.version)
    /\ Save(handler.thread, handler.copy, Approved(handler.copy))
    /\ handler' = [at |-> "sync", update |-> handler.update, thread |-> handler.thread]
    /\ UNCHANGED <<pending, inbox, post, nodes, handoffs, runs, count, asked>>

\* The comment in YouTrack that precedes the handoff
SyncApproval ==
    /\ handler.at = "sync"
    /\ \/ handler' = [handler EXCEPT !.at = "handoff"] /\ UNCHANGED count
       \/ Fails
    /\ UNCHANGED <<threads, pending, inbox, post, nodes, reviews, handoffs, runs,
                   torn, asked>>

\* Wrong: a handoff is looked up by its thread alone.
HandoffsOfThread(t, version) == {h \in DOMAIN handoffs : handoffs[h].thread = t}

HandoffsOf(t, version) ==
    {h \in DOMAIN handoffs : handoffs[h].thread = t /\ handoffs[h].version = version}

Running(h) == [at |-> "run", update |-> handler.update, handoff |-> h]
Linking(t, thread) ==
    [at |-> "link", update |-> handler.update, thread |-> t, copy |-> thread,
     handoff |-> Len(handoffs) + 1]

\* Wrong: the thread that was approved is not looked at again.
HandOffUnread ==
    LET t == handler.thread
        thread == threads[t]
        found == HandoffsOf(t, thread.version)
        new == [thread |-> t, version |-> thread.version, brief |-> thread.brief, run |-> 0]
    IN  /\ handler.at = "handoff"
        /\ handoffs' = IF found = {} THEN Append(handoffs, new) ELSE handoffs
        /\ handler' = IF found = {} THEN Linking(t, thread) ELSE Running(CHOOSE h \in found : TRUE)
        /\ UNCHANGED <<threads, pending, inbox, post, nodes, reviews, runs, count,
                       torn, asked>>

\* The thread is read again: it may have changed since it was approved.
CreateHandoff ==
    LET t == handler.thread
        thread == threads[t]
        found == HandoffsOf(t, thread.version)
        new == [thread |-> t, version |-> thread.version, brief |-> thread.brief, run |-> 0]
    IN  /\ handler.at = "handoff"
        /\ IF thread.phase # "APPROVED" \/ (found = {} /\ thread.brief = 0)
           THEN handler' = Idle /\ UNCHANGED handoffs  \* ApprovedHandoffError
           ELSE IF found # {}
           THEN handler' = Running(CHOOSE h \in found : TRUE) /\ UNCHANGED handoffs
           ELSE handler' = Linking(t, thread) /\ handoffs' = Append(handoffs, new)
        /\ UNCHANGED <<threads, pending, inbox, post, nodes, reviews, runs, count,
                       torn, asked>>

\* The thread it was created from is stored once more, with the handoff's id.
LinkHandoff ==
    /\ handler.at = "link"
    /\ Save(handler.thread, handler.copy, handler.copy)
    /\ handler' = Running(handler.handoff)
    /\ UNCHANGED <<pending, inbox, post, nodes, reviews, handoffs, runs, count, asked>>

\* Wrong: the run already recorded for the handoff is not looked at.
StartAnotherRun ==
    /\ handler.at = "run"
    /\ runs' = Append(runs, [handoff |-> handler.handoff, status |-> "running"])
    /\ handler' = [handler EXCEPT !.at = "running"]
    /\ UNCHANGED <<threads, pending, inbox, post, nodes, reviews, handoffs, count,
                   torn, asked>>

StartRun ==
    /\ handler.at = "run"
    /\ IF handoffs[handler.handoff].run # 0
       THEN handler' = [handler EXCEPT !.at = "respond"] /\ UNCHANGED runs
       ELSE /\ runs' = Append(runs, [handoff |-> handler.handoff, status |-> "running"])
            /\ handler' = [handler EXCEPT !.at = "running"]
    /\ UNCHANGED <<threads, pending, inbox, post, nodes, reviews, handoffs, count,
                   torn, asked>>

\* start_run returns, or raises and leaves the run as it is.
RunReturns ==
    /\ handler.at = "running"
    /\ \/ /\ runs' = [runs EXCEPT ![Len(runs)].status = "returned"]
          /\ handler' = [handler EXCEPT !.at = "record"]
          /\ UNCHANGED count
       \/ Fails /\ runs' = [runs EXCEPT ![Len(runs)].status = "raised"]
    /\ UNCHANGED <<threads, pending, inbox, post, nodes, reviews, handoffs, torn, asked>>

\* Wrong: the handoff records the run that would come next.
RecordNextRun ==
    /\ handler.at = "record"
    /\ handoffs' = [handoffs EXCEPT ![handler.handoff].run = Len(runs) + 1]
    /\ handler' = [handler EXCEPT !.at = "respond"]
    /\ UNCHANGED <<threads, pending, inbox, post, nodes, reviews, runs, count, torn, asked>>

\* Only now does the handoff know its run.
RecordRun ==
    /\ handler.at = "record"
    /\ handoffs' = [handoffs EXCEPT ![handler.handoff].run = Len(runs)]
    /\ handler' = [handler EXCEPT !.at = "respond"]
    /\ UNCHANGED <<threads, pending, inbox, post, nodes, reviews, runs, count, torn, asked>>

Respond ==
    /\ handler.at = "respond"
    /\ \E kept \in BOOLEAN : Answered(kept)
    /\ UNCHANGED <<threads, pending, post, nodes, reviews, handoffs, runs, torn, asked>>

-----------------------------------------------------------------------------
\* A message that approves nothing: a comment, the policy, another comment.
SyncMessage ==
    /\ handler.at = "message"
    /\ \/ handler' = [handler EXCEPT !.at = "decide"] /\ UNCHANGED count
       \/ Fails
    /\ UNCHANGED <<threads, pending, inbox, post, nodes, reviews, handoffs, runs,
                   torn, asked>>

Decide ==
    LET t == handler.thread
        brief == count.drafts + 1
    IN  /\ handler.at = "decide"
        /\ \E issueLoaded \in BOOLEAN :
              LET after == AfterMessage(handler.copy, handler.message, issueLoaded, brief)
              IN  /\ Save(t, handler.copy, after)
                  /\ count' = [count EXCEPT !.drafts =
                                 IF after.brief = brief THEN brief ELSE @]
        /\ handler' = [at |-> "publish", update |-> handler.update]
        /\ UNCHANGED <<pending, inbox, post, nodes, reviews, handoffs, runs, asked>>

Publish ==
    /\ handler.at = "publish"
    /\ (\E kept \in BOOLEAN : Answered(kept)) \/ (Fails /\ UNCHANGED inbox)
    /\ UNCHANGED <<threads, pending, post, nodes, reviews, handoffs, runs, torn, asked>>

-----------------------------------------------------------------------------
\* POST /conversations/{thread_id}/message, beside the webhook
PostFetch(t) ==
    /\ post = NoPost /\ Exists(t)
    /\ count.beside < MaxBeside
    /\ post' = [thread |-> t, copy |-> threads[t]]
    /\ count' = [count EXCEPT !.beside = @ + 1]
    /\ UNCHANGED <<threads, pending, inbox, handler, nodes, reviews, handoffs, runs,
                   torn, asked>>

PostStore ==
    /\ post # NoPost
    /\ Save(post.thread, post.copy, post.copy)
    /\ post' = NoPost
    /\ UNCHANGED <<pending, inbox, handler, nodes, reviews, handoffs, runs, count, asked>>

\* The founder nodes of a technical run on a thread: a message, answered by a
\* simulated founder when the PM asks; later an approval without being asked.
Intent == [confirms |-> FALSE, answers |-> 1, marks |-> {}]
SimulatedReply ==
    [confirms |-> FALSE, answers |-> 4,
     marks |-> {"constraints", "user", "scope", "expected_success"}]

FounderConversation(t) ==
    LET brief == count.drafts + 1
        first == AfterMessage(threads[t], Intent, FALSE, brief)
        after == IF first.phase = "PM_QUESTIONS"
                 THEN AfterMessage(first, SimulatedReply, FALSE, brief) ELSE first
    IN  /\ Exists(t) /\ t \notin nodes
        /\ count.beside < MaxBeside
        /\ threads' = [threads EXCEPT ![t] = after]
        /\ nodes' = nodes \union {t}
        /\ count' = [count EXCEPT !.beside = @ + 1, !.drafts = brief]
        /\ UNCHANGED <<pending, inbox, handler, post, reviews, handoffs, runs, torn, asked>>

FounderApproval(t) ==
    /\ t \in nodes
    /\ Reviewed(t, threads[t].version)
    /\ threads' = [threads EXCEPT ![t] = Approved(@)]
    /\ nodes' = nodes \ {t}
    /\ UNCHANGED <<pending, inbox, handler, post, handoffs, runs, count, torn, asked>>

\* The process crashes and starts again: what is only in memory is gone.
Restart ==
    /\ count.faults < MaxFaults
    /\ count' = [count EXCEPT !.faults = @ + 1, !.restarts = @ + 1]
    /\ handler' = Idle /\ pending' = NotStarted /\ post' = NoPost /\ nodes' = {}
    /\ runs' = [r \in DOMAIN runs |->
                  IF runs[r].status = "running" THEN [runs[r] EXCEPT !.status = "lost"]
                  ELSE runs[r]]
    /\ UNCHANGED <<threads, inbox, reviews, handoffs, torn, asked>>

-----------------------------------------------------------------------------
Webhook ==
    \/ \E text \in Texts : Deliver(text)
    \/ Approve \/ SyncApproval \/ CreateHandoff \/ LinkHandoff \/ StartRun \/ RunReturns
    \/ RecordRun \/ Respond \/ SyncMessage \/ Decide \/ Publish

Next ==
    \/ Webhook
    \/ \E text \in Texts : ProjectsUnavailable(text)
    \/ PostStore
    \/ \E t \in ThreadId : PostFetch(t) \/ FounderConversation(t) \/ FounderApproval(t)
    \/ Restart

Spec == Init /\ [][Next]_vars

\* The event loop goes on with the update it handles and takes the next;
\* Telegram delivers again what was not answered.
FairSpec == Spec /\ WF_vars(Webhook)

-----------------------------------------------------------------------------
\* Type invariant of the threads, the updates, the handoffs and their runs.
TypeOK ==
    /\ \A t \in ThreadId : Exists(t) => threads[t] \in Thread
    /\ inbox \in [Texts -> 0..Updates]
    /\ \A h \in DOMAIN handoffs :
          /\ handoffs[h].thread \in ThreadId
          /\ handoffs[h].run \in 0..Len(runs)
    /\ \A r \in DOMAIN runs :
          /\ runs[r].handoff \in DOMAIN handoffs
          /\ runs[r].status \in {"running", "returned", "raised", "lost"}
    /\ torn \in BOOLEAN /\ asked \in BOOLEAN

\* No run without an explicit approval: whatever overlaps, fails or is
\* delivered twice, a handoff exists only for a version of its thread whose
\* review was completed with APPROVED, and it carries a brief
\* (telegram.py, the approval branch; handoffs.py, the two refusals).
HandoffReviewed ==
    \A h \in DOMAIN handoffs :
      /\ <<handoffs[h].thread, handoffs[h].version>> \in reviews
      /\ handoffs[h].brief # 0

\* One handoff per version of a brief, and one run that returned for each:
\* repeated approvals find them again.  Only a crash between the end of a
\* run and its record in the handoff leads to another one.
OneRunPerVersion ==
    /\ \A g, h \in DOMAIN handoffs :
          /\ handoffs[g].thread = handoffs[h].thread
          /\ handoffs[g].version = handoffs[h].version
          => g = h
    /\ \A h \in DOMAIN handoffs :
          Cardinality({r \in DOMAIN runs : /\ runs[r].handoff = h
                                           /\ runs[r].status = "returned"})
            <= 1 + count.restarts

\* The brief handed off is the brief of that version, and versions only grow,
\* unless a stale thread was stored (the routes lock nothing).
HandedOffBriefIsCurrent ==
    ~torn => \A h \in DOMAIN handoffs :
               LET thread == threads[handoffs[h].thread] IN
               /\ handoffs[h].version <= thread.version
               /\ handoffs[h].version = thread.version => handoffs[h].brief = thread.brief

\* An approval that was stored gets its handoff and its run, although calls
\* fail after it, unless the thread moved on to another draft, a stale thread
\* was stored, or a repeated /approve was answered with a question.
ApprovalIsServed ==
    \A t \in ThreadId :
      (handler.at = "sync" /\ handler.thread = t)
        ~> \/ \E h \in DOMAIN handoffs : handoffs[h].thread = t /\ handoffs[h].run # 0
                                         /\ handoffs[h].version = threads[t].version
           \/ (Exists(t) /\ threads[t].phase # "APPROVED") \/ torn \/ asked
=============================================================================
