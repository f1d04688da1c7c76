------------------------ MODULE ApprovalHandoffProofs ------------------------
(***************************************************************************)
(* Theorems about ApprovalHandoff for any number of threads, updates,      *)
(* requests beside the webhook and faults: what is handed off was reviewed *)
(* and is current, and a version has one handoff and one run.              *)
(***************************************************************************)
EXTENDS ApprovalHandoff, FiniteSetTheorems, TLAPS

-----------------------------------------------------------------------------
(* Threads, and what the theorems look at. *)
IsThread(thread) ==
    /\ thread \in Thread
    /\ DOMAIN thread = {"phase", "iterations", "version", "brief", "known", "asked"}
    /\ thread.phase \in Phase /\ thread.version \in Nat /\ thread.brief \in Nat

LEMMA NewThreadFields == IsThread(NewThread) /\ NewThread.phase = "STARTED"
  BY DEF IsThread, NewThread, Thread, Phase

LEMMA ApprovedFields ==
  ASSUME NEW thread, IsThread(thread)
  PROVE  /\ IsThread(Approved(thread)) /\ Approved(thread).phase = "APPROVED"
         /\ Approved(thread).version = thread.version
         /\ Approved(thread).brief = thread.brief
  BY DEF IsThread, Approved, Thread, Phase

LEMMA FirstAreFields ==
  ASSUME NEW n, NEW fields
  PROVE  FirstFields(n, fields) \subseteq ToSet(Fields)
  BY DEF FirstFields, ToSet

\* A message approves nothing: it adds a version with the given draft, or keeps
\* version and draft.
LEMMA AfterMessageFields ==
  ASSUME NEW thread, IsThread(thread), NEW message \in Message, NEW loaded,
         NEW brief \in Nat
  PROVE  LET after == AfterMessage(thread, message, loaded, brief)
         IN  /\ IsThread(after) /\ after.phase # "APPROVED"
             /\ \/ after.version = thread.version + 1 /\ after.brief = brief
                \/ after.version = thread.version /\ after.brief = thread.brief
<1> DEFINE known == KnownAfter(thread, message, loaded)
<1>0. known \subseteq ToSet(Fields)
  <2>1. "objective" \in ToSet(Fields) /\ "scope" \in ToSet(Fields)
    BY DEF ToSet, Fields
  <2>2. thread.known \subseteq ToSet(Fields) /\ message.marks \subseteq ToSet(Fields)
    BY DEF IsThread, Thread, Message
  <2> QED BY <2>1, <2>2, FirstAreFields DEF KnownAfter
<1> HIDE DEF known
<1>1. LET after == Drafted(thread, known, brief)
      IN  /\ IsThread(after) /\ after.phase # "APPROVED"
          /\ after.version = thread.version + 1 /\ after.brief = brief
  <2> DEFINE after == Drafted(thread, known, brief)
  <2>1. DOMAIN after = DOMAIN thread
    BY DEF Drafted
  <2>2. after.phase = "PENDING_APPROVAL"
    BY DEF Drafted, IsThread
  <2>3. after.version = thread.version + 1
    BY DEF Drafted, IsThread
  <2>4. after.brief = brief
    BY DEF Drafted, IsThread
  <2>5. after \in Thread
    <3>1. PICK n \in Nat : n = thread.version + 1
      BY DEF IsThread
    <3>2. after = [thread EXCEPT !.phase = "PENDING_APPROVAL", !.version = n,
                                 !.brief = brief, !.known = known, !.asked = {}]
      BY <3>1 DEF Drafted
    <3> HIDE DEF after
    <3> QED BY <1>0, <3>2 DEF IsThread, Thread, Phase
  <2> QED BY <2>1, <2>2, <2>3, <2>4, <2>5 DEF IsThread, Phase
<1>2. LET after == Questioned(thread, known)
      IN  /\ IsThread(after) /\ after.phase # "APPROVED"
          /\ after.version = thread.version /\ after.brief = thread.brief
  <2> DEFINE after == Questioned(thread, known)
  <2>1. DOMAIN after = DOMAIN thread
    BY DEF Questioned
  <2>2. after.phase = "PM_QUESTIONS"
    BY DEF Questioned, IsThread
  <2>3. after.version = thread.version
    BY DEF Questioned, IsThread
  <2>4. after.brief = thread.brief
    BY DEF Questioned, IsThread
  <2>5. after \in Thread
    <3>1. PICK batch \in SUBSET ToSet(Fields) :
            batch = FirstFields(MaxQuestions, Missing(known))
      BY FirstAreFields
    <3>2. PICK n \in Nat : n = thread.iterations + 1
      BY DEF IsThread, Thread
    <3>3. after = [thread EXCEPT !.phase = "PM_QUESTIONS", !.iterations = n,
                                 !.known = known, !.asked = batch]
      BY <3>1, <3>2 DEF Questioned
    <3> HIDE DEF after
    <3> QED BY <1>0, <3>3 DEF IsThread, Thread, Phase
  <2> QED BY <2>1, <2>2, <2>3, <2>4, <2>5 DEF IsThread, Phase
<1> QED BY <1>1, <1>2 DEF AfterMessage, known

-----------------------------------------------------------------------------
(* Types, as far as the theorems need them. *)
Handoff == [thread : ThreadId, version : Nat, brief : Nat, run : Nat]
Run == [handoff : Nat, status : {"running", "returned", "raised", "lost"}]

OnThread == {"approve", "message", "decide"}
OnHandoff == {"run", "running", "record", "respond"}

HandlerOk ==
  /\ "at" \in DOMAIN handler
  /\ handler.at \in {"idle", "sync", "handoff", "link", "publish"}
                  \union OnThread \union OnHandoff
  /\ handler.at \in OnThread =>
        /\ DOMAIN handler = {"at", "update", "thread", "copy", "message"}
        /\ handler.thread \in ThreadId /\ IsThread(handler.copy)
        /\ handler.message \in Message
  /\ handler.at \in {"sync", "handoff"} =>
        DOMAIN handler = {"at", "update", "thread"} /\ handler.thread \in ThreadId
  /\ handler.at = "link" =>
        /\ DOMAIN handler = {"at", "update", "thread", "copy", "handoff"}
        /\ handler.thread \in ThreadId /\ IsThread(handler.copy)
        /\ handler.handoff \in DOMAIN handoffs
  /\ handler.at \in OnHandoff =>
        DOMAIN handler = {"at", "update", "handoff"} /\ handler.handoff \in DOMAIN handoffs

ThreadsOk ==
  /\ DOMAIN threads = ThreadId
  /\ \A t \in ThreadId : threads[t] = NoThread \/ IsThread(threads[t])
  /\ \A t \in nodes : t \in ThreadId /\ IsThread(threads[t])

PostOk ==
  post # NoPost =>
    /\ DOMAIN post = {"thread", "copy"}
    /\ post.thread \in ThreadId /\ IsThread(post.copy)

CountOk ==
  /\ DOMAIN count = {"beside", "faults", "restarts", "drafts"}
  /\ \A n \in DOMAIN count : count[n] \in Nat

HandoffsOk ==
  /\ handoffs \in Seq(Handoff)
  /\ \A h \in DOMAIN handoffs : IsThread(threads[handoffs[h].thread])

RunsOk ==
  /\ runs \in Seq(Run)
  /\ \A r \in DOMAIN runs : runs[r].handoff \in DOMAIN handoffs

\* A start that waits for its project keeps the intent.
IsPending(start) ==
  /\ start.status \in {"none", "intent", "project"}
  /\ start.status = "project" => start.intent \in Message

PendingOk == IsPending(pending)

TypeInv ==
  /\ HandlerOk /\ ThreadsOk /\ PostOk /\ CountOk /\ HandoffsOk /\ RunsOk /\ PendingOk

LEMMA SequenceOf ==
  ASSUME NEW S, NEW s, NEW n \in Nat, s = [i \in 1..n |-> s[i]], \A i \in 1..n : s[i] \in S
  PROVE  s \in Seq(S) /\ Len(s) = n /\ DOMAIN s = 1..n
  OBVIOUS

LEMMA RunFields ==
  ASSUME NEW run \in Run, NEW s \in {"running", "returned", "raised", "lost"}
  PROVE  /\ [run EXCEPT !.status = s] \in Run
         /\ [run EXCEPT !.status = s].handoff = run.handoff
         /\ [run EXCEPT !.status = s].status = s
  BY DEF Run

LEMMA HandoffFields ==
  ASSUME NEW handoff \in Handoff, NEW n \in Nat
  PROVE  /\ [handoff EXCEPT !.run = n] \in Handoff
         /\ [handoff EXCEPT !.run = n].thread = handoff.thread
         /\ [handoff EXCEPT !.run = n].version = handoff.version
         /\ [handoff EXCEPT !.run = n].brief = handoff.brief
         /\ [handoff EXCEPT !.run = n].run = n
  BY DEF Handoff

\* Where an update that is not answered at once works, an existing issue or a
\* new one, and what is pending afterwards.
RouteOk(route) ==
  /\ route.kind \in {"ask", "reply", "work"}
  /\ route.kind = "work" => route.issue \in 0..MaxThreads /\ route.message \in Message
  /\ route.kind # "ask" => IsPending(route.pending)

LEMMA RouteTyped ==
  ASSUME PendingOk, NEW text \in Texts
  PROVE  RouteOk(Route(text))
<1>1. ASSUME NEW issue \in 0..MaxThreads, NEW message \in Message
      PROVE  /\ RouteOk(Work(issue, pending, message))
             /\ RouteOk(Work(issue, NotStarted, message))
  BY DEF RouteOk, Work, PendingOk, IsPending, NotStarted
<1>2. /\ RouteOk(Reply(pending)) /\ RouteOk(Reply(AwaitIntent)) /\ RouteOk(Ask)
      /\ \A intent \in Message : RouteOk(Reply(AwaitProject(intent)))
  BY DEF RouteOk, Reply, Ask, PendingOk, IsPending, AwaitIntent, AwaitProject
<1>3. /\ text.issue \in 0..MaxThreads /\ text.message \in Message
      /\ NoIntent \in Message /\ Default(text) \in Message
  <2>1. text \in Text
    BY HandoffAssumption
  <2>2. text.issue \in 0..MaxThreads /\ text.message \in Message
    BY <2>1 DEF Text
  <2>3. /\ NoIntent \in Message
        /\ [confirms |-> text.command = "approve", answers |-> 1, marks |-> {}] \in Message
    BY DEF NoIntent, Message
  <2> QED BY <2>2, <2>3 DEF Default
<1>4. RouteOk(WithProject(text))
  BY <1>1, <1>2, <1>3 DEF WithProject
<1>5. RouteOk(WithoutProject(text))
  <2>1. CASE pending.status = "none"
    BY <1>2, <1>3, <2>1 DEF WithoutProject
  <2>2. CASE pending.status = "intent"
    BY <1>1, <1>2, <1>3, <2>2 DEF WithoutProject
  <2>3. CASE pending.status = "project"
    BY <1>1, <1>2, <1>3, <2>3 DEF WithoutProject, PendingOk, IsPending
  <2> QED BY <2>1, <2>2, <2>3 DEF PendingOk, IsPending
<1>6. CASE text.command = "approve" /\ Cardinality(Candidates(text.issue)) = 1
  <2>1. Candidates(text.issue) # {}
    BY <1>6, FS_EmptySet
  <2>2. (CHOOSE t \in Candidates(text.issue) : TRUE) \in ThreadId
    BY <2>1 DEF Candidates
  <2>3. Route(text) = Work(CHOOSE t \in Candidates(text.issue) : TRUE, pending, Default(text))
    BY <1>6 DEF Route
  <2>4. ThreadId \subseteq 0..MaxThreads
    BY HandoffAssumption DEF ThreadId
  <2> QED BY <1>1, <1>3, <2>2, <2>3, <2>4
<1>7. CASE ~ (text.command = "approve" /\ Cardinality(Candidates(text.issue)) = 1)
  <2>1. CASE /\ text.command = "approve" /\ ~text.project /\ text.issue = 0
             /\ Cardinality(Candidates(text.issue)) # 1
    BY <1>2, <2>1 DEF Route
  <2>2. CASE ~ (/\ text.command = "approve" /\ ~text.project /\ text.issue = 0
                /\ Cardinality(Candidates(text.issue)) # 1)
    <3>1. Route(text) = IF text.project THEN WithProject(text) ELSE WithoutProject(text)
      BY <1>7, <2>2 DEF Route
    <3> QED BY <1>4, <1>5, <3>1
  <2> QED BY <2>1, <2>2
<1> QED BY <1>6, <1>7

\* Storing a thread keeps the types of what refers to threads.
LEMMA StoreKeepsTypes ==
  ASSUME TypeInv, NEW t \in ThreadId, NEW thread, IsThread(thread),
         threads' = [threads EXCEPT ![t] = thread],
         nodes' \subseteq nodes \union {t}, UNCHANGED handoffs
  PROVE  ThreadsOk' /\ HandoffsOk'
<1>1. DOMAIN threads' = ThreadId /\ threads'[t] = thread
  BY DEF TypeInv, ThreadsOk
<1>2. \A u : IsThread(threads[u]) => IsThread(threads'[u])
  <2> SUFFICES ASSUME NEW u, IsThread(threads[u]) PROVE IsThread(threads'[u])
    OBVIOUS
  <2>1. CASE u = t
    BY <1>1, <2>1
  <2>2. CASE u # t
    BY <2>2 DEF TypeInv, ThreadsOk
  <2> QED BY <2>1, <2>2
<1>3. ThreadsOk'
  BY <1>1, <1>2 DEF TypeInv, ThreadsOk
<1>4. HandoffsOk'
  BY <1>2 DEF TypeInv, HandoffsOk
<1> QED BY <1>3, <1>4

\* An update is taken up, on a thread that is there or on a new one.
Taken(t, at, thread, text, message) ==
  /\ thread = (IF threads[t] # NoThread THEN threads[t] ELSE NewThread)
  /\ IsThread(thread) /\ message \in Message
  /\ threads' = [threads EXCEPT ![t] = thread]
  /\ handler' = [at |-> at, update |-> text, thread |-> t, copy |-> thread,
                 message |-> message]

\* What the delivery of an update does, as far as the theorems need it.
DeliverEffect ==
  /\ UNCHANGED <<post, nodes, reviews, handoffs, runs, torn>>
  /\ PendingOk' /\ CountOk' /\ count'.restarts = count.restarts
  /\ count'.drafts = count.drafts
  /\ \/ UNCHANGED <<threads, handler>>
     \/ UNCHANGED threads /\ handler' = Idle
     \/ \E t \in ThreadId, at \in {"approve", "message"} :
          \E thread, text, message : Taken(t, at, thread, text, message)

LEMMA DeliverSteps ==
  ASSUME TypeInv, NEW text \in Texts, Deliver(text)
  PROVE  DeliverEffect /\ handler = Idle
<1> DEFINE route == Route(text)
<1>1. RouteOk(route)
  BY RouteTyped DEF TypeInv
<1> HIDE DEF route
<1>2. UNCHANGED <<post, nodes, reviews, handoffs, runs, torn>> /\ handler = Idle
  BY DEF Deliver
<1>3. CASE route.kind = "ask"
  <2>1. UNCHANGED <<threads, pending, handler, count>>
    BY <1>3 DEF Deliver, route
  <2> QED BY <1>2, <2>1 DEF DeliverEffect, TypeInv, PendingOk, CountOk
<1>4. CASE route.kind = "reply"
  <2>1. pending' = route.pending /\ UNCHANGED <<threads, handler, count>>
    BY <1>4 DEF Deliver, route
  <2> QED BY <1>1, <1>2, <1>4, <2>1 DEF DeliverEffect, TypeInv, PendingOk, CountOk, RouteOk
<1>5. CASE route.kind = "work"
  <2>1. /\ pending' = route.pending
        /\ \/ /\ route.issue # 0 \/ \E t \in ThreadId : ~Exists(t)
              /\ Remember(text, route) /\ UNCHANGED count
           \/ Fails /\ UNCHANGED threads
    BY <1>5 DEF Deliver, route
  <2>2. PendingOk'
    BY <1>1, <1>5, <2>1 DEF PendingOk, RouteOk
  <2>3. CASE Fails /\ UNCHANGED threads
    BY <1>2, <2>2, <2>3 DEF DeliverEffect, TypeInv, CountOk, Fails
  <2>4. CASE /\ route.issue # 0 \/ \E t \in ThreadId : ~Exists(t)
             /\ Remember(text, route) /\ UNCHANGED count
    <3> DEFINE t == IF route.issue # 0 THEN route.issue
                    ELSE CHOOSE new \in ThreadId : ~Exists(new)
               thread == IF Exists(t) THEN threads[t] ELSE NewThread
    <3>1. t \in ThreadId
      BY <1>1, <1>5, <2>4, HandoffAssumption DEF RouteOk, ThreadId
    <3>2. IsThread(thread)
      BY <3>1, NewThreadFields DEF TypeInv, ThreadsOk, Exists
    <3>3. thread = (IF threads[t] # NoThread THEN threads[t] ELSE NewThread)
      BY DEF Exists
    <3>4. \E at \in {"approve", "message"} : Taken(t, at, thread, text, route.message)
      <4> DEFINE at == IF HasDraft(thread) /\ (text.command = "approve"
                                               \/ route.message.confirms)
                       THEN "approve" ELSE "message"
      <4>1. /\ threads' = [threads EXCEPT ![t] = thread]
            /\ handler' = [at |-> at, update |-> text, thread |-> t, copy |-> thread,
                           message |-> route.message]
        BY <2>4, Zenon DEF Remember
      <4>2. at \in {"approve", "message"}
        OBVIOUS
      <4> HIDE DEF t, thread, at
      <4>3. route.message \in Message
        BY <1>1, <1>5 DEF RouteOk
      <4> QED BY <3>2, <3>3, <4>1, <4>2, <4>3, Zenon DEF Taken
    <3>5. CountOk' /\ count'.restarts = count.restarts /\ count'.drafts = count.drafts
      BY <2>4 DEF TypeInv, CountOk
    <3> HIDE DEF t, thread
    <3> QED BY <1>2, <2>2, <3>1, <3>4, <3>5, Zenon DEF DeliverEffect
  <2> QED BY <2>1, <2>3, <2>4
<1> QED BY <1>1, <1>3, <1>4, <1>5 DEF RouteOk

\* The threads of the founder nodes of a technical run.
LEMMA ConversationFields ==
  ASSUME TypeInv, NEW t \in ThreadId, FounderConversation(t)
  PROVE  \E after : /\ IsThread(after) /\ after.phase # "APPROVED"
                    /\ threads' = [threads EXCEPT ![t] = after]
                    /\ IsThread(threads[t])
                    /\ \/ after.version > threads[t].version
                       \/ /\ after.version = threads[t].version
                          /\ after.brief = threads[t].brief
<1> DEFINE brief == count.drafts + 1
           loaded == FALSE
           first == AfterMessage(threads[t], Intent, loaded, brief)
           second == AfterMessage(first, SimulatedReply, loaded, brief)
           after == IF first.phase = "PM_QUESTIONS" THEN second ELSE first
<1>1. brief \in Nat /\ IsThread(threads[t])
  BY DEF TypeInv, CountOk, FounderConversation, ThreadsOk, Exists
<1>0. Intent \in Message /\ SimulatedReply \in Message
  BY DEF Intent, SimulatedReply, Message, ToSet, Fields
<1> HIDE DEF brief, loaded
<1>2. /\ IsThread(first) /\ first.phase # "APPROVED"
      /\ \/ first.version = threads[t].version + 1 /\ first.brief = brief
         \/ first.version = threads[t].version /\ first.brief = threads[t].brief
  BY <1>0, <1>1, AfterMessageFields
<1> HIDE DEF first
<1>3. /\ IsThread(second) /\ second.phase # "APPROVED"
      /\ \/ second.version = first.version + 1 /\ second.brief = brief
         \/ second.version = first.version /\ second.brief = first.brief
  BY <1>0, <1>1, <1>2, AfterMessageFields
<1>4. threads' = [threads EXCEPT ![t] = after]
  BY DEF FounderConversation, first, brief, loaded
<1> HIDE DEF second
<1>5. /\ IsThread(after) /\ after.phase # "APPROVED"
      /\ \/ after.version > threads[t].version
         \/ after.version = threads[t].version /\ after.brief = threads[t].brief
  BY <1>1, <1>2, <1>3 DEF IsThread
<1> HIDE DEF after
<1> QED BY <1>1, <1>4, <1>5

LEMMA DecideEffect ==
  ASSUME TypeInv, Decide
  PROVE  /\ CountOk' /\ count'.restarts = count.restarts
         /\ \E after : /\ Save(handler.thread, handler.copy, after)
                       /\ IsThread(after) /\ after.phase # "APPROVED"
                       /\ \/ after.version > handler.copy.version
                          \/ /\ after.version = handler.copy.version
                             /\ after.brief = handler.copy.brief
<1> DEFINE brief == count.drafts + 1
<1>1. brief \in Nat /\ IsThread(handler.copy) /\ handler.message \in Message
  BY DEF TypeInv, CountOk, HandlerOk, OnThread, Decide
<1>2. PICK loaded \in BOOLEAN :
        LET after == AfterMessage(handler.copy, handler.message, loaded, brief)
        IN  /\ Save(handler.thread, handler.copy, after)
            /\ count' = [count EXCEPT !.drafts = IF after.brief = brief THEN brief ELSE @]
  BY DEF Decide
<1>3. CountOk' /\ count'.restarts = count.restarts
  BY <1>1, <1>2 DEF TypeInv, CountOk
<1> DEFINE after == AfterMessage(handler.copy, handler.message, loaded, brief)
<1> HIDE DEF brief
<1>4. /\ IsThread(after) /\ after.phase # "APPROVED"
      /\ \/ after.version = handler.copy.version + 1 /\ after.brief = brief
         \/ after.version = handler.copy.version /\ after.brief = handler.copy.brief
  BY <1>1, AfterMessageFields
<1>5. Save(handler.thread, handler.copy, after)
  BY <1>2
<1> HIDE DEF after
<1>6. \/ after.version > handler.copy.version
      \/ after.version = handler.copy.version /\ after.brief = handler.copy.brief
  BY <1>1, <1>4 DEF IsThread
<1> QED BY <1>3, <1>4, <1>5, <1>6

\* Recording its run leaves the rest of a handoff alone.
LEMMA RecordRunFields ==
  ASSUME TypeInv, RecordRun
  PROVE  /\ handoffs' \in Seq(Handoff) /\ DOMAIN handoffs' = DOMAIN handoffs
         /\ handler.handoff \in DOMAIN handoffs
         /\ handoffs'[handler.handoff].run = Len(runs)
         /\ \A h \in DOMAIN handoffs :
              /\ h # handler.handoff => handoffs'[h] = handoffs[h]
              /\ handoffs'[h].thread = handoffs[h].thread
              /\ handoffs'[h].version = handoffs[h].version
              /\ handoffs'[h].brief = handoffs[h].brief
<1> DEFINE handoff == [handoffs[handler.handoff] EXCEPT !.run = Len(runs)]
<1>1. handler.handoff \in DOMAIN handoffs
  BY DEF RecordRun, TypeInv, HandlerOk, OnHandoff
<1>2. /\ handoff \in Handoff /\ handoff.run = Len(runs)
      /\ handoff.thread = handoffs[handler.handoff].thread
      /\ handoff.version = handoffs[handler.handoff].version
      /\ handoff.brief = handoffs[handler.handoff].brief
  <2>1. handoffs[handler.handoff] \in Handoff
    BY <1>1 DEF TypeInv, HandoffsOk
  <2>2. Len(runs) \in Nat
    BY DEF TypeInv, RunsOk
  <2> QED BY <2>1, <2>2, HandoffFields
<1>3. handoffs' = [handoffs EXCEPT ![handler.handoff] = handoff]
  BY DEF RecordRun
<1> HIDE DEF handoff
<1> QED BY <1>1, <1>2, <1>3 DEF TypeInv, HandoffsOk

\* Failing or answering leaves the handler idle.
LEMMA IdleEffect ==
  ASSUME TypeInv
  PROVE  /\ Fails => handler' = Idle /\ CountOk' /\ count'.restarts = count.restarts
         /\ (\E kept \in BOOLEAN : Answered(kept))
              => handler' = Idle /\ CountOk' /\ count'.restarts = count.restarts
<1>1. Fails => handler' = Idle /\ CountOk' /\ count'.restarts = count.restarts
  BY DEF Fails, TypeInv, CountOk
<1>2. ASSUME NEW kept \in BOOLEAN, Answered(kept)
      PROVE  handler' = Idle /\ CountOk' /\ count'.restarts = count.restarts
  BY <1>2 DEF Answered, TypeInv, CountOk
<1> QED BY <1>1, <1>2

-----------------------------------------------------------------------------
LEMMA InitTyped == Init => TypeInv
<1> SUFFICES ASSUME Init PROVE TypeInv
  OBVIOUS
<1>1. HandlerOk
  BY DEF Init, Idle, HandlerOk, OnThread, OnHandoff
<1>2. ThreadsOk /\ PostOk /\ CountOk /\ PendingOk
  BY DEF Init, ThreadsOk, PostOk, CountOk, PendingOk, IsPending, NotStarted
<1>3. HandoffsOk /\ RunsOk
  BY DEF Init, HandoffsOk, RunsOk
<1> QED BY <1>1, <1>2, <1>3 DEF TypeInv

LEMMA IdleTyped == ASSUME handler' = Idle PROVE HandlerOk'
  BY DEF Idle, HandlerOk, OnThread, OnHandoff

LEMMA StepTyped == TypeInv /\ [Next]_vars => TypeInv'
<1> SUFFICES ASSUME TypeInv, [Next]_vars PROVE TypeInv'
  OBVIOUS
<1> USE DEF TypeInv
<1>1. ASSUME NEW text \in Texts, Deliver(text) PROVE TypeInv'
  <2>1. DeliverEffect /\ handler = Idle
    BY <1>1, DeliverSteps
  <2>2. PostOk' /\ RunsOk' /\ PendingOk' /\ CountOk'
    BY <2>1 DEF DeliverEffect, PostOk, RunsOk
  <2>3. CASE UNCHANGED <<threads, handler>>
    BY <2>1, <2>2, <2>3 DEF DeliverEffect, HandlerOk, ThreadsOk, HandoffsOk
  <2>4. CASE UNCHANGED threads /\ handler' = Idle
    BY <2>1, <2>2, <2>4, IdleTyped DEF DeliverEffect, ThreadsOk, HandoffsOk
  <2>5. ASSUME NEW t \in ThreadId, NEW at \in {"approve", "message"}, NEW thread,
               NEW txt, NEW message, Taken(t, at, thread, txt, message)
        PROVE  TypeInv'
    <3>1. ThreadsOk' /\ HandoffsOk'
      BY <2>1, <2>5, StoreKeepsTypes DEF DeliverEffect, Taken
    <3>2. HandlerOk'
      BY <2>5 DEF Taken, HandlerOk, OnThread, OnHandoff
    <3> QED BY <2>2, <3>1, <3>2
  <2> QED BY <2>1, <2>3, <2>4, <2>5 DEF DeliverEffect
<1>2. CASE Approve
  <2>1. handler.thread \in ThreadId /\ IsThread(handler.copy)
    BY <1>2 DEF Approve, HandlerOk, OnThread
  <2>2. ThreadsOk' /\ HandoffsOk'
    BY <1>2, <2>1, ApprovedFields, StoreKeepsTypes DEF Approve, Save
  <2>3. HandlerOk'
    BY <1>2, <2>1 DEF Approve, HandlerOk, OnThread, OnHandoff
  <2> QED BY <1>2, <2>2, <2>3 DEF Approve, PostOk, CountOk, RunsOk, PendingOk
<1>3. CASE SyncApproval
  <2>1. HandlerOk' /\ CountOk'
    <3>1. CASE Fails
      BY <3>1, IdleEffect, IdleTyped
    <3>2. CASE handler' = [handler EXCEPT !.at = "handoff"] /\ UNCHANGED count
      <4>1. HandlerOk'
        BY <1>3, <3>2 DEF SyncApproval, HandlerOk, OnThread, OnHandoff
      <4> QED BY <3>2, <4>1 DEF CountOk
    <3> QED BY <1>3, <3>1, <3>2 DEF SyncApproval
  <2> QED BY <1>3, <2>1 DEF SyncApproval, ThreadsOk, PostOk, HandoffsOk, RunsOk, PendingOk
<1>4. CASE CreateHandoff
  <2> DEFINE t == handler.thread
             found == HandoffsOf(t, threads[t].version)
             new == [thread |-> t, version |-> threads[t].version,
                     brief |-> threads[t].brief, run |-> 0]
  <2>1. t \in ThreadId
    BY <1>4 DEF CreateHandoff, HandlerOk
  <2>2. ThreadsOk' /\ PostOk' /\ CountOk' /\ PendingOk'
    BY <1>4 DEF CreateHandoff, ThreadsOk, PostOk, CountOk, PendingOk
  <2>3. CASE handler' = Idle /\ UNCHANGED handoffs
    BY <1>4, <2>2, <2>3, IdleTyped DEF CreateHandoff, HandoffsOk, RunsOk
  <2>4. CASE /\ found # {} /\ UNCHANGED handoffs
             /\ handler' = Running(CHOOSE h \in found : TRUE)
    <3>1. (CHOOSE h \in found : TRUE) \in DOMAIN handoffs
      BY <2>4 DEF HandoffsOf
    <3>2. HandlerOk'
      BY <2>4, <3>1 DEF Running, HandlerOk, OnThread, OnHandoff
    <3> QED BY <1>4, <2>2, <2>4, <3>2 DEF CreateHandoff, HandoffsOk, RunsOk
  <2>5. CASE /\ threads[t].phase = "APPROVED" /\ handoffs' = Append(handoffs, new)
             /\ handler' = Linking(t, threads[t])
    <3>1. IsThread(threads[t])
      BY <2>1, <2>5 DEF ThreadsOk, NoThread
    <3>2. new \in Handoff
      BY <2>1, <3>1 DEF Handoff, IsThread
    <3>3. /\ handoffs' \in Seq(Handoff) /\ Len(handoffs') = Len(handoffs) + 1
          /\ handoffs'[Len(handoffs) + 1] = new
          /\ \A h \in DOMAIN handoffs : h \in DOMAIN handoffs' /\ handoffs'[h] = handoffs[h]
          /\ Len(handoffs) + 1 \in DOMAIN handoffs'
          /\ \A h \in DOMAIN handoffs' : h \in DOMAIN handoffs \/ h = Len(handoffs) + 1
      <4> HIDE DEF new
      <4> QED BY <2>5, <3>2 DEF HandoffsOk
    <3>4. HandlerOk'
      BY <2>1, <2>5, <3>1, <3>3 DEF Linking, HandlerOk, OnThread, OnHandoff
    <3>5. HandoffsOk'
      <4> SUFFICES ASSUME NEW h \in DOMAIN handoffs'
                   PROVE  IsThread(threads'[handoffs'[h].thread])
        BY <3>3 DEF HandoffsOk
      <4>1. CASE h \in DOMAIN handoffs
        BY <1>4, <3>3, <4>1 DEF CreateHandoff, HandoffsOk
      <4>2. CASE h = Len(handoffs) + 1
        BY <1>4, <3>1, <3>3, <4>2 DEF CreateHandoff
      <4> QED BY <3>3, <4>1, <4>2
    <3>6. RunsOk'
      BY <1>4, <3>3 DEF CreateHandoff, RunsOk
    <3> QED BY <2>2, <3>4, <3>5, <3>6
  <2> QED BY <1>4, <2>3, <2>4, <2>5, Zenon DEF CreateHandoff
<1>5. CASE StartRun
  <2> DEFINE new == [handoff |-> handler.handoff, status |-> "running"]
  <2>1. handler.handoff \in DOMAIN handoffs /\ DOMAIN handler = {"at", "update", "handoff"}
    BY <1>5 DEF StartRun, HandlerOk, OnHandoff
  <2>2. HandlerOk'
    BY <1>5, <2>1 DEF StartRun, HandlerOk, OnThread, OnHandoff
  <2>3. RunsOk'
    <3>1. CASE UNCHANGED runs
      BY <1>5, <3>1 DEF StartRun, RunsOk
    <3>2. CASE runs' = Append(runs, new)
      <4>1. new \in Run /\ new.handoff = handler.handoff
        BY <2>1 DEF Run, HandoffsOk
      <4> HIDE DEF new
      <4> QED BY <1>5, <2>1, <3>2, <4>1 DEF StartRun, RunsOk
    <3> QED BY <1>5, <3>1, <3>2 DEF StartRun
  <2> QED BY <1>5, <2>2, <2>3 DEF StartRun, ThreadsOk, PostOk, CountOk, HandoffsOk, PendingOk
<1>6. CASE RunReturns
  <2>1. HandlerOk' /\ CountOk'
    <3>1. CASE Fails
      BY <3>1, IdleEffect, IdleTyped
    <3>2. CASE handler' = [handler EXCEPT !.at = "record"] /\ UNCHANGED count
      <4>1. HandlerOk'
        BY <1>6, <3>2 DEF RunReturns, HandlerOk, OnThread, OnHandoff
      <4> QED BY <3>2, <4>1 DEF CountOk
    <3> QED BY <1>6, <3>1, <3>2 DEF RunReturns
  <2>2. \E status \in {"returned", "raised"} :
           runs' = [runs EXCEPT ![Len(runs)].status = status]
    BY <1>6 DEF RunReturns
  <2>3. RunsOk'
    <3> PICK status \in {"returned", "raised"} :
           runs' = [runs EXCEPT ![Len(runs)].status = status]
      BY <2>2
    <3>1. ASSUME NEW r \in DOMAIN runs
          PROVE  runs'[r] \in Run /\ runs'[r].handoff = runs[r].handoff
      <4>1. runs[r] \in Run
        BY <3>1 DEF RunsOk
      <4>2. runs'[r] = runs[r] \/ runs'[r] = [runs[r] EXCEPT !.status = status]
        BY <3>1
      <4> QED BY <4>1, <4>2, RunFields
    <3>2. Len(runs) \in Nat /\ DOMAIN runs = 1..Len(runs)
      BY DEF RunsOk
    <3>4. runs' = [r \in DOMAIN runs |-> runs'[r]]
      OBVIOUS
    <3>3. runs' \in Seq(Run) /\ DOMAIN runs' = DOMAIN runs
      BY <3>1, <3>2, <3>4, SequenceOf
    <3> QED BY <1>6, <3>1, <3>3 DEF RunReturns, RunsOk
  <2> QED BY <1>6, <2>1, <2>3 DEF RunReturns, ThreadsOk, PostOk, HandoffsOk, PendingOk
<1>7. CASE RecordRun
  <2>1. handler.handoff \in DOMAIN handoffs /\ DOMAIN handler = {"at", "update", "handoff"}
    BY <1>7 DEF RecordRun, HandlerOk, OnHandoff
  <2>2. /\ handoffs' \in Seq(Handoff) /\ DOMAIN handoffs' = DOMAIN handoffs
        /\ \A h \in DOMAIN handoffs : handoffs'[h].thread = handoffs[h].thread
    BY <1>7, RecordRunFields
  <2>3. HandlerOk'
    BY <1>7, <2>1, <2>2 DEF RecordRun, HandlerOk, OnThread, OnHandoff
  <2> QED BY <1>7, <2>2, <2>3 DEF RecordRun, ThreadsOk, PostOk, CountOk, HandoffsOk, RunsOk,
                                  PendingOk
<1>8. CASE Respond
  <2>1. HandlerOk' /\ CountOk'
    BY <1>8, IdleEffect, IdleTyped DEF Respond
  <2> QED BY <1>8, <2>1 DEF Respond, ThreadsOk, PostOk, HandoffsOk, RunsOk, PendingOk
<1>9. CASE SyncMessage
  <2>1. HandlerOk' /\ CountOk'
    <3>1. CASE Fails
      BY <3>1, IdleEffect, IdleTyped
    <3>2. CASE handler' = [handler EXCEPT !.at = "decide"] /\ UNCHANGED count
      <4>1. HandlerOk'
        BY <1>9, <3>2 DEF SyncMessage, HandlerOk, OnThread, OnHandoff
      <4> QED BY <3>2, <4>1 DEF CountOk
    <3> QED BY <1>9, <3>1, <3>2 DEF SyncMessage
  <2> QED BY <1>9, <2>1 DEF SyncMessage, ThreadsOk, PostOk, HandoffsOk, RunsOk, PendingOk
<1>10. CASE Decide
  <2>1. handler.thread \in ThreadId
    BY <1>10 DEF Decide, HandlerOk, OnThread
  <2>2. PICK after : /\ Save(handler.thread, handler.copy, after) /\ IsThread(after)
    BY <1>10, DecideEffect
  <2>3. CountOk'
    BY <1>10, DecideEffect
  <2>4. ThreadsOk' /\ HandoffsOk'
    BY <1>10, <2>1, <2>2, StoreKeepsTypes DEF Decide, Save
  <2>5. HandlerOk'
    BY <1>10 DEF Decide, HandlerOk, OnThread, OnHandoff
  <2> QED BY <1>10, <2>3, <2>4, <2>5 DEF Decide, PostOk, RunsOk, PendingOk
<1>11. CASE Publish
  <2>1. HandlerOk' /\ CountOk'
    BY <1>11, IdleEffect, IdleTyped DEF Publish
  <2> QED BY <1>11, <2>1 DEF Publish, ThreadsOk, PostOk, HandoffsOk, RunsOk, PendingOk
<1>12. ASSUME NEW text \in Texts, ProjectsUnavailable(text) PROVE TypeInv'
  BY <1>12 DEF ProjectsUnavailable, HandlerOk, ThreadsOk, PostOk, CountOk, HandoffsOk,
               RunsOk, PendingOk
<1>13. CASE PostStore
  <2>1. post.thread \in ThreadId /\ IsThread(post.copy)
    BY <1>13 DEF PostStore, PostOk
  <2>2. ThreadsOk' /\ HandoffsOk'
    BY <1>13, <2>1, StoreKeepsTypes DEF PostStore, Save
  <2> QED BY <1>13, <2>2 DEF PostStore, PostOk, HandlerOk, CountOk, RunsOk, PendingOk
<1>14. ASSUME NEW t \in ThreadId, PostFetch(t) PROVE TypeInv'
  <2>1. IsThread(threads[t])
    BY <1>14 DEF PostFetch, Exists, ThreadsOk
  <2>2. PostOk' /\ CountOk'
    BY <1>14, <2>1 DEF PostFetch, PostOk, CountOk
  <2> QED BY <1>14, <2>2 DEF PostFetch, HandlerOk, ThreadsOk, HandoffsOk, RunsOk, PendingOk
<1>15. ASSUME NEW t \in ThreadId, FounderConversation(t) PROVE TypeInv'
  <2>1. PICK after : IsThread(after) /\ threads' = [threads EXCEPT ![t] = after]
    BY <1>15, ConversationFields
  <2>2. ThreadsOk' /\ HandoffsOk'
    BY <1>15, <2>1, StoreKeepsTypes DEF FounderConversation
  <2>3. CountOk'
    <3>1. DOMAIN count' = DOMAIN count
      BY <1>15 DEF FounderConversation
    <3>2. count'.beside \in Nat
      BY <1>15 DEF FounderConversation, CountOk
    <3>3. count'.drafts \in Nat
      BY <1>15 DEF FounderConversation, CountOk
    <3>4. count'.faults \in Nat /\ count'.restarts \in Nat
      BY <1>15 DEF FounderConversation, CountOk
    <3> QED BY <3>1, <3>2, <3>3, <3>4 DEF CountOk
  <2> QED BY <1>15, <2>2, <2>3 DEF FounderConversation, HandlerOk, PostOk, RunsOk, PendingOk
<1>16. ASSUME NEW t \in ThreadId, FounderApproval(t) PROVE TypeInv'
  <2>1. IsThread(threads[t])
    BY <1>16 DEF FounderApproval, ThreadsOk
  <2>2. IsThread(Approved(threads[t]))
    BY <2>1, ApprovedFields
  <2>3. ThreadsOk' /\ HandoffsOk'
    BY <1>16, <2>2, StoreKeepsTypes DEF FounderApproval
  <2> QED BY <1>16, <2>3 DEF FounderApproval, HandlerOk, PostOk, CountOk, RunsOk, PendingOk
<1>17. CASE Restart
  <2>1. PendingOk' /\ PostOk' /\ HandlerOk'
    BY <1>17, IdleTyped DEF Restart, PendingOk, IsPending, PostOk, NotStarted
  <2>3. CountOk'
    <3>1. DOMAIN count' = DOMAIN count
      BY <1>17 DEF Restart
    <3>2. count'.faults \in Nat
      BY <1>17 DEF Restart, CountOk
    <3>3. count'.restarts \in Nat
      BY <1>17 DEF Restart, CountOk
    <3>4. count'.beside \in Nat /\ count'.drafts \in Nat
      BY <1>17 DEF Restart, CountOk
    <3> QED BY <3>1, <3>2, <3>3, <3>4 DEF CountOk
  <2>2. RunsOk'
    <3>1. DOMAIN runs' = DOMAIN runs /\ Len(runs) \in Nat /\ DOMAIN runs = 1..Len(runs)
      BY <1>17 DEF Restart, RunsOk
    <3>2. ASSUME NEW r \in DOMAIN runs
          PROVE  runs'[r] \in Run /\ runs'[r].handoff = runs[r].handoff
      <4>1. runs[r] \in Run
        BY <3>2 DEF RunsOk
      <4>2. runs'[r] = runs[r] \/ runs'[r] = [runs[r] EXCEPT !.status = "lost"]
        BY <1>17, <3>2 DEF Restart
      <4> QED BY <4>1, <4>2, RunFields
    <3>3. runs' \in Seq(Run)
      BY <1>17, <3>1, <3>2 DEF Restart
    <3> QED BY <1>17, <3>1, <3>2, <3>3 DEF Restart, RunsOk
  <2> QED BY <1>17, <2>1, <2>2, <2>3 DEF Restart, ThreadsOk, HandoffsOk
<1>18. CASE UNCHANGED vars
  BY <1>18 DEF vars, HandlerOk, ThreadsOk, PostOk, CountOk, HandoffsOk, RunsOk, PendingOk
<1>19. CASE LinkHandoff
  <2>1. /\ handler.thread \in ThreadId /\ IsThread(handler.copy)
        /\ handler.handoff \in DOMAIN handoffs
    BY <1>19 DEF LinkHandoff, HandlerOk
  <2>2. ThreadsOk' /\ HandoffsOk'
    BY <1>19, <2>1, StoreKeepsTypes DEF LinkHandoff, Save
  <2>3. HandlerOk'
    BY <1>19, <2>1 DEF LinkHandoff, Running, HandlerOk, OnThread, OnHandoff
  <2> QED BY <1>19, <2>2, <2>3 DEF LinkHandoff, PostOk, CountOk, RunsOk, PendingOk
<1> QED BY <1>1, <1>2, <1>3, <1>4, <1>5, <1>6, <1>7, <1>8, <1>9, <1>10, <1>11, <1>12, <1>13,
           <1>14, <1>15, <1>16, <1>17, <1>18, <1>19 DEF Next, Webhook

LEMMA TypeInvHolds == Spec => []TypeInv
  BY InitTyped, StepTyped, PTL DEF Spec

-----------------------------------------------------------------------------
(* What is being handled is in the inbox: only an answer takes it out.      *)
Delivered ==
  /\ inbox \in [Texts -> 0..Updates]
  /\ handler.at # "idle" => handler.update \in Texts /\ inbox[handler.update] > 0

Recorded == \A h \in DOMAIN handoffs : handoffs[h].run <= Len(runs)

RestInv == Delivered /\ Recorded /\ torn \in BOOLEAN /\ asked \in BOOLEAN

LEMMA KeepsDelivered ==
  ASSUME Delivered, UNCHANGED inbox,
         \/ handler' = Idle
         \/ handler.at # "idle" /\ handler'.update = handler.update
         \/ UNCHANGED handler
  PROVE  Delivered'
  BY DEF Delivered, Idle

\* One update less, for one that was there.
LEMMA TakesOne ==
  ASSUME Delivered, NEW text \in Texts, inbox[text] > 0,
         inbox' = [inbox EXCEPT ![text] = @ - 1]
  PROVE  inbox' \in [Texts -> 0..Updates]
<1>1. inbox[text] - 1 \in 0..Updates
  BY HandoffAssumption DEF Delivered
<1> QED BY <1>1 DEF Delivered

LEMMA AnsweredDelivered ==
  ASSUME Delivered, handler.at # "idle", NEW kept \in BOOLEAN, Answered(kept)
  PROVE  Delivered'
<1>1. handler'.at = "idle"
  BY DEF Answered, Idle
<1>2. CASE kept
  BY <1>1, <1>2 DEF Answered, Delivered
<1>3. CASE ~kept
  <2>1. inbox' = [inbox EXCEPT ![handler.update] = @ - 1]
    BY <1>3 DEF Answered
  <2>2. inbox' \in [Texts -> 0..Updates]
    BY <2>1, TakesOne DEF Delivered
  <2> QED BY <1>1, <2>2 DEF Delivered
<1> QED BY <1>2, <1>3

LEMMA DeliverDelivered ==
  ASSUME TypeInv, Delivered, NEW text \in Texts, Deliver(text)
  PROVE  Delivered'
<1> DEFINE route == Route(text)
<1>1. RouteOk(route)
  BY RouteTyped DEF TypeInv
<1> HIDE DEF route
<1>2. handler = Idle /\ inbox[text] > 0 /\ handler.at = "idle"
  BY DEF Deliver, Idle
<1>3. CASE route.kind \in {"ask", "reply"}
  <2>1. inbox' = [inbox EXCEPT ![text] = @ - 1] /\ UNCHANGED handler
    BY <1>3 DEF Deliver, route
  <2> QED BY <1>2, <2>1, TakesOne DEF Delivered
<1>4. CASE route.kind = "work"
  <2>1. UNCHANGED inbox /\ (Remember(text, route) \/ Fails)
    BY <1>4 DEF Deliver, route
  <2>2. CASE Remember(text, route)
    <3>1. handler'.update = text
      BY <2>2 DEF Remember
    <3> QED BY <1>2, <2>1, <3>1 DEF Delivered
  <2>3. CASE Fails
    BY <2>1, <2>3, KeepsDelivered DEF Fails
  <2> QED BY <2>1, <2>2, <2>3
<1> QED BY <1>1, <1>3, <1>4 DEF RouteOk

LEMMA StepDelivered == TypeInv /\ Delivered /\ [Next]_vars => Delivered'
<1> SUFFICES ASSUME TypeInv, Delivered, [Next]_vars PROVE Delivered'
  OBVIOUS
<1>0. \A at : handler.at = at /\ at # "idle" => handler.at # "idle"
  OBVIOUS
<1>1. CASE \E text \in Texts : Deliver(text)
  BY <1>1, DeliverDelivered
<1>2. CASE Approve \/ CreateHandoff \/ LinkHandoff \/ Decide
  BY <1>2, KeepsDelivered DEF Approve, CreateHandoff, LinkHandoff, Linking, Running, Decide
<1>3. CASE SyncApproval \/ StartRun \/ RunReturns \/ RecordRun \/ SyncMessage
  <2>1. \/ handler' = Idle
        \/ handler.at # "idle" /\ \E at : handler' = [handler EXCEPT !.at = at]
        \/ handler.at # "idle" /\ handler'.update = handler.update
    BY <1>3 DEF SyncApproval, StartRun, RunReturns, RecordRun, SyncMessage, Fails
  <2>2. UNCHANGED inbox
    BY <1>3 DEF SyncApproval, StartRun, RunReturns, RecordRun, SyncMessage
  <2>3. \A at : [handler EXCEPT !.at = at].update = handler.update
    OBVIOUS
  <2> QED BY <2>1, <2>2, <2>3, KeepsDelivered
<1>4. CASE Respond
  BY <1>4, AnsweredDelivered DEF Respond
<1>5. CASE Publish
  <2>1. CASE \E kept \in BOOLEAN : Answered(kept)
    BY <1>5, <2>1, AnsweredDelivered DEF Publish
  <2>2. CASE Fails /\ UNCHANGED inbox
    BY <2>2, KeepsDelivered DEF Fails
  <2> QED BY <1>5, <2>1, <2>2 DEF Publish
<1>6. ASSUME NEW text \in Texts, ProjectsUnavailable(text) PROVE Delivered'
  <2>1. handler = Idle /\ UNCHANGED handler /\ inbox[text] > 0
        /\ inbox' = [inbox EXCEPT ![text] = @ - 1]
    BY <1>6 DEF ProjectsUnavailable
  <2> QED BY <2>1, TakesOne DEF Delivered, Idle
<1>7. CASE PostStore \/ \E t \in ThreadId : PostFetch(t) \/ FounderConversation(t)
                                             \/ FounderApproval(t)
  BY <1>7, KeepsDelivered DEF PostStore, PostFetch, FounderConversation, FounderApproval
<1>8. CASE Restart
  BY <1>8, KeepsDelivered DEF Restart
<1>9. CASE UNCHANGED vars
  BY <1>9, KeepsDelivered DEF vars
<1> QED BY <1>1, <1>2, <1>3, <1>4, <1>5, <1>6, <1>7, <1>8, <1>9 DEF Next, Webhook

\* Runs are never forgotten.
LEMMA RunsGrow ==
  ASSUME TypeInv, [Next]_vars
  PROVE  Len(runs) \in Nat /\ Len(runs') \in Nat /\ Len(runs) <= Len(runs')
<1>1. runs \in Seq(Run) /\ runs' \in Seq(Run)
  BY StepTyped DEF TypeInv, RunsOk
<1>2. /\ Len(runs) \in Nat /\ Len(runs') \in Nat
      /\ DOMAIN runs = 1..Len(runs) /\ DOMAIN runs' = 1..Len(runs')
  BY <1>1
<1>3. \/ UNCHANGED runs
      \/ \E run : runs' = Append(runs, run)
      \/ DOMAIN runs' = DOMAIN runs
  BY DEF Next, Webhook, Deliver, Approve, SyncApproval, CreateHandoff, LinkHandoff, StartRun, RunReturns,
         RecordRun, Respond, SyncMessage, Decide, Publish, ProjectsUnavailable, PostStore,
         PostFetch, FounderConversation, FounderApproval, Restart, vars
<1>4. CASE \E run : runs' = Append(runs, run)
  BY <1>1, <1>4
<1>5. CASE DOMAIN runs' = DOMAIN runs
  BY <1>2, <1>5
<1> QED BY <1>2, <1>3, <1>4, <1>5

LEMMA StepRecorded == TypeInv /\ Recorded /\ [Next]_vars => Recorded'
<1> SUFFICES ASSUME TypeInv, Recorded, [Next]_vars PROVE Recorded'
  OBVIOUS
<1>1. Len(runs) \in Nat /\ Len(runs') \in Nat /\ Len(runs) <= Len(runs')
  BY RunsGrow
<1>2. handoffs \in Seq(Handoff)
  BY DEF TypeInv, HandoffsOk
<1>3. \A h \in DOMAIN handoffs : handoffs[h].run \in Nat
  <2>1. \A h \in DOMAIN handoffs : handoffs[h] \in Handoff
    BY <1>2
  <2> QED BY <2>1 DEF Handoff
<1>4. \A h \in DOMAIN handoffs : handoffs[h].run <= Len(runs')
  BY <1>1, <1>3 DEF Recorded
<1>5. CASE UNCHANGED handoffs
  BY <1>4, <1>5 DEF Recorded
<1>6. CASE CreateHandoff
  <2>1. PICK new : /\ new.run = 0
                   /\ (UNCHANGED handoffs \/ handoffs' = Append(handoffs, new))
    BY <1>6 DEF CreateHandoff
  <2>2. CASE handoffs' = Append(handoffs, new)
    <3>1. ASSUME NEW h \in DOMAIN handoffs'
          PROVE  handoffs'[h].run <= Len(runs')
      <4>1. (h \in DOMAIN handoffs /\ handoffs'[h] = handoffs[h]) \/ handoffs'[h] = new
        BY <1>2, <2>2, <3>1
      <4> QED BY <1>1, <1>4, <2>1, <4>1
    <3> QED BY <3>1 DEF Recorded
  <2> QED BY <1>5, <2>1, <2>2
<1>7. CASE RecordRun
  <2>1. /\ DOMAIN handoffs' = DOMAIN handoffs
        /\ handoffs'[handler.handoff].run = Len(runs)
        /\ \A h \in DOMAIN handoffs : h # handler.handoff => handoffs'[h] = handoffs[h]
    BY <1>7, RecordRunFields
  <2> QED BY <1>1, <1>4, <2>1 DEF Recorded
<1>8. UNCHANGED handoffs \/ CreateHandoff \/ RecordRun
  BY DEF Next, Webhook, Deliver, Approve, SyncApproval, LinkHandoff, StartRun, RunReturns,
         Respond, SyncMessage, Decide, Publish, ProjectsUnavailable, PostStore,
         PostFetch, FounderConversation, FounderApproval, Restart, vars
<1> QED BY <1>5, <1>6, <1>7, <1>8

LEMMA StepRest == TypeInv /\ RestInv /\ [Next]_vars => RestInv'
<1> SUFFICES ASSUME TypeInv, RestInv, [Next]_vars PROVE RestInv'
  OBVIOUS
<1>1. Delivered' /\ Recorded'
  BY StepDelivered, StepRecorded DEF RestInv
<1>2. ASSUME NEW text \in Texts, Deliver(text)
      PROVE  asked' = asked \/ asked' = TRUE
  <2>1. RouteOk(Route(text))
    BY RouteTyped DEF TypeInv
  <2>2. Route(text).kind \in {"ask", "reply", "work"}
    BY <2>1 DEF RouteOk
  <2> QED BY <1>2, <2>2 DEF Deliver
<1>3. asked' = asked \/ asked' = TRUE
  BY <1>2 DEF Next, Webhook, Approve, SyncApproval, CreateHandoff, LinkHandoff, StartRun, RunReturns,
         RecordRun, Respond, SyncMessage, Decide, Publish, ProjectsUnavailable, PostStore,
         PostFetch, FounderConversation, FounderApproval, Restart, vars
<1>4. torn' = torn \/ \E differs \in BOOLEAN : torn' = (torn \/ differs)
  BY DEF Next, Webhook, Deliver, Approve, SyncApproval, CreateHandoff, LinkHandoff, StartRun, RunReturns,
         RecordRun, Respond, SyncMessage, Decide, Publish, ProjectsUnavailable, PostStore,
         PostFetch, FounderConversation, FounderApproval, Restart, vars, Save
<1>5. asked' \in BOOLEAN /\ torn' \in BOOLEAN
  BY <1>3, <1>4 DEF RestInv
<1> QED BY <1>1, <1>5 DEF RestInv

(* Threads, updates, handoffs and runs are as their registries and Telegram  *)
(* keep them: an update that is handled has not been taken out of the inbox,  *)
(* and a handoff names a run that was started.                                *)
THEOREM HandoffsTyped == Spec => []TypeOK
<1>1. Init => RestInv
  <2> SUFFICES ASSUME Init PROVE RestInv
    OBVIOUS
  <2>1. handler.at = "idle" /\ DOMAIN handoffs = {}
    BY DEF Init, Idle
  <2> QED BY <2>1 DEF Init, RestInv, Delivered, Recorded
<1>2. TypeInv /\ RestInv => TypeOK
  <2> SUFFICES ASSUME TypeInv, RestInv PROVE TypeOK
    OBVIOUS
  <2>1. \A t \in ThreadId : Exists(t) => threads[t] \in Thread
    BY DEF TypeInv, ThreadsOk, IsThread, Exists
  <2>2. \A h \in DOMAIN handoffs : handoffs[h] \in Handoff
    BY DEF TypeInv, HandoffsOk
  <2>3. \A r \in DOMAIN runs : runs[r] \in Run
    BY DEF TypeInv, RunsOk
  <2>4. Len(runs) \in Nat
    BY DEF TypeInv, RunsOk
  <2>5. \A h \in DOMAIN handoffs :
          handoffs[h].thread \in ThreadId /\ handoffs[h].run \in 0..Len(runs)
    BY <2>2, <2>4 DEF Handoff, RestInv, Recorded
  <2>6. \A r \in DOMAIN runs : runs[r].status \in {"running", "returned", "raised", "lost"}
    BY <2>3 DEF Run
  <2> QED BY <2>1, <2>5, <2>6 DEF TypeOK, TypeInv, RunsOk, RestInv, Delivered
<1> QED BY <1>1, <1>2, StepRest, TypeInvHolds, PTL DEF Spec

-----------------------------------------------------------------------------
(* What is handed off was reviewed: an approved thread, in the registry or *)
(* in the hands of a request, is one whose version has its review.         *)
Backed(t, thread) == thread.phase = "APPROVED" => <<t, thread.version>> \in reviews

ThreadsBacked == \A t \in ThreadId : threads[t] # NoThread => Backed(t, threads[t])
HandlerBacked ==
  handler.at \in OnThread \union {"link"} => Backed(handler.thread, handler.copy)
PostBacked == post # NoPost => Backed(post.thread, post.copy)

ReviewInv == ThreadsBacked /\ HandlerBacked /\ PostBacked /\ HandoffReviewed

\* A thread is stored with a thread that is backed.
LEMMA StoreKeepsBacked ==
  ASSUME TypeInv, ThreadsBacked, NEW t \in ThreadId, NEW thread,
         threads' = [threads EXCEPT ![t] = thread],
         reviews \subseteq reviews', Backed(t, thread)'
  PROVE  ThreadsBacked'
<1> SUFFICES ASSUME NEW u \in ThreadId, threads'[u] # NoThread
             PROVE  Backed(u, threads[u])'
  BY DEF ThreadsBacked
<1>1. CASE u = t
  BY <1>1 DEF TypeInv, ThreadsOk
<1>2. CASE u # t
  BY <1>2 DEF TypeInv, ThreadsOk, ThreadsBacked, Backed
<1> QED BY <1>1, <1>2

LEMMA NoThreadPhase == NoThread.phase # "APPROVED"
  BY DEF NoThread

LEMMA StepBacked == TypeInv /\ ReviewInv /\ [Next]_vars => ReviewInv'
<1> SUFFICES ASSUME TypeInv, ReviewInv, [Next]_vars PROVE ReviewInv'
  OBVIOUS
<1> USE DEF ReviewInv
<1> DEFINE Kept == UNCHANGED <<threads, reviews, handoffs>>
<1>1. ASSUME Kept PROVE ThreadsBacked' /\ HandoffReviewed'
  BY <1>1 DEF ThreadsBacked, HandoffReviewed, Backed
<1>2. ASSUME UNCHANGED <<post, reviews>> PROVE PostBacked'
  BY <1>2 DEF PostBacked, Backed
<1>3. ASSUME UNCHANGED <<handler, reviews>> PROVE HandlerBacked'
  BY <1>3 DEF HandlerBacked, Backed
<1>4. ASSUME handler'.at \notin OnThread \union {"link"} PROVE HandlerBacked'
  BY <1>4 DEF HandlerBacked
<1>5. Idle.at \notin OnThread \union {"link"}
  BY DEF Idle, OnThread
<1>6. ASSUME UNCHANGED <<handoffs, reviews>> PROVE HandoffReviewed'
  BY <1>6 DEF HandoffReviewed
<1>11. ASSUME NEW text \in Texts, Deliver(text) PROVE ReviewInv'
  <2>1. DeliverEffect /\ handler = Idle
    BY <1>11, DeliverSteps
  <2>2. UNCHANGED <<post, reviews, handoffs>>
    BY <2>1 DEF DeliverEffect
  <2>3. CASE UNCHANGED <<threads, handler>>
    BY <1>1, <1>2, <1>3, <2>2, <2>3
  <2>4. CASE UNCHANGED threads /\ handler' = Idle
    BY <1>1, <1>2, <1>4, <1>5, <2>2, <2>4
  <2>5. ASSUME NEW t \in ThreadId, NEW at \in {"approve", "message"}, NEW thread,
               NEW txt, NEW message, Taken(t, at, thread, txt, message)
        PROVE  ReviewInv'
    <3>1. Backed(t, thread)'
      BY <2>2, <2>5, NewThreadFields DEF Taken, Backed, ThreadsBacked
    <3>2. ThreadsBacked'
      BY <2>2, <2>5, <3>1, StoreKeepsBacked DEF Taken
    <3>3. HandlerBacked'
      BY <2>5, <3>1 DEF Taken, HandlerBacked, Backed
    <3> QED BY <1>2, <1>6, <2>2, <3>2, <3>3
  <2> QED BY <2>1, <2>3, <2>4, <2>5 DEF DeliverEffect
<1>12. CASE Approve
  <2> DEFINE t == handler.thread
             thread == Approved(handler.copy)
  <2>1. t \in ThreadId /\ IsThread(handler.copy)
    BY <1>12 DEF TypeInv, Approve, HandlerOk, OnThread
  <2>2. /\ IsThread(thread) /\ thread.phase = "APPROVED"
        /\ thread.version = handler.copy.version
    BY <2>1, ApprovedFields
  <2>3. /\ reviews' = reviews \union {<<t, handler.copy.version>>}
        /\ threads' = [threads EXCEPT ![t] = thread]
    BY <1>12 DEF Approve, Save, Reviewed
  <2> HIDE DEF thread, t
  <2>4. <<t, thread.version>> \in reviews' /\ reviews \subseteq reviews'
    BY <2>2, <2>3
  <2>5. ThreadsBacked'
    <3>2. ASSUME NEW u \in ThreadId, threads'[u] # NoThread
          PROVE  threads'[u].phase = "APPROVED" => <<u, threads'[u].version>> \in reviews'
      <4>1. CASE u = t
        BY <2>3, <2>4, <4>1 DEF TypeInv, ThreadsOk
      <4>2. CASE u # t
        BY <2>3, <2>4, <3>2, <4>2 DEF TypeInv, ThreadsOk, ThreadsBacked, Backed
      <4> QED BY <4>1, <4>2
    <3> QED BY <3>2 DEF ThreadsBacked, Backed
  <2>6. PostBacked'
    BY <1>12, <2>4 DEF Approve, PostBacked, Backed
  <2>7. HandoffReviewed'
    BY <1>12, <2>4 DEF Approve, HandoffReviewed
  <2>8. HandlerBacked'
    BY <1>12 DEF Approve, HandlerBacked, OnThread
  <2> QED BY <2>5, <2>6, <2>7, <2>8
<1>13. CASE SyncApproval
  <2>1. handler'.at \notin OnThread \union {"link"}
    BY <1>5, <1>13, IdleEffect DEF SyncApproval, TypeInv, HandlerOk, OnThread
  <2> QED BY <1>1, <1>2, <1>4, <1>13, <2>1 DEF SyncApproval
<1>14. CASE CreateHandoff
  <2> DEFINE t == handler.thread
             new == [thread |-> t, version |-> threads[t].version,
                     brief |-> threads[t].brief, run |-> 0]
  <2>0. t \in ThreadId /\ UNCHANGED reviews
    BY <1>14 DEF CreateHandoff, TypeInv, HandlerOk
  <2>1. HandlerBacked'
    <3>1. CASE handler' = Linking(t, threads[t]) /\ threads[t].phase = "APPROVED"
      <4>1. <<t, threads[t].version>> \in reviews
        BY <2>0, <3>1, NoThreadPhase DEF ThreadsBacked, Backed
      <4>2. handler'.thread = t /\ handler'.copy = threads[t]
        BY <3>1 DEF Linking
      <4> QED BY <2>0, <4>1, <4>2 DEF HandlerBacked, Backed
    <3>2. CASE handler' = Idle \/ handler'.at = "run"
      BY <1>4, <1>5, <3>2 DEF OnThread
    <3> QED BY <1>14, <3>1, <3>2 DEF CreateHandoff, Running
  <2>2. ThreadsBacked' /\ PostBacked' /\ HandlerBacked'
    BY <1>2, <1>14, <2>1 DEF CreateHandoff, ThreadsBacked, Backed
  <2>3. CASE UNCHANGED handoffs
    BY <1>14, <2>2, <2>3 DEF CreateHandoff, HandoffReviewed
  <2>4. CASE /\ threads[t].phase = "APPROVED" /\ threads[t].brief # 0
             /\ handoffs' = Append(handoffs, new)
    <3>1. t \in ThreadId
      BY <1>14 DEF CreateHandoff, TypeInv, HandlerOk
    <3>2. IsThread(threads[t]) /\ threads[t] # NoThread
      BY <2>4, <3>1 DEF TypeInv, ThreadsOk, NoThread
    <3>3. new \in Handoff
      BY <3>1, <3>2 DEF Handoff, IsThread
    <3>4. <<new.thread, new.version>> \in reviews /\ new.brief # 0
      BY <2>4, <3>1, <3>2 DEF ThreadsBacked, Backed
    <3> HIDE DEF new
    <3>5. \A h \in DOMAIN handoffs' : \/ h \in DOMAIN handoffs /\ handoffs'[h] = handoffs[h]
                                      \/ handoffs'[h] = new
      BY <2>4, <3>3 DEF TypeInv, HandoffsOk
    <3>6. HandoffReviewed'
      BY <1>14, <3>4, <3>5 DEF CreateHandoff, HandoffReviewed
    <3> QED BY <2>2, <3>6
  <2> QED BY <1>14, <2>3, <2>4, Zenon DEF CreateHandoff
<1>15. CASE StartRun
  <2>1. handler'.at \notin OnThread \union {"link"}
    BY <1>15 DEF StartRun, TypeInv, HandlerOk, OnThread, OnHandoff
  <2> QED BY <1>1, <1>2, <1>4, <1>15, <2>1 DEF StartRun
<1>16. CASE RunReturns
  <2>1. handler'.at \notin OnThread \union {"link"}
    BY <1>5, <1>16, IdleEffect DEF RunReturns, TypeInv, HandlerOk, OnThread, OnHandoff
  <2> QED BY <1>1, <1>2, <1>4, <1>16, <2>1 DEF RunReturns
<1>17. CASE RecordRun
  <2>1. handler'.at \notin OnThread \union {"link"}
    BY <1>17 DEF RecordRun, TypeInv, HandlerOk, OnThread, OnHandoff
  <2>2. \A h \in DOMAIN handoffs' :
          /\ h \in DOMAIN handoffs
          /\ handoffs'[h].thread = handoffs[h].thread
          /\ handoffs'[h].version = handoffs[h].version
          /\ handoffs'[h].brief = handoffs[h].brief
    BY <1>17, RecordRunFields DEF RecordRun
  <2>3. HandoffReviewed'
    BY <1>17, <2>2 DEF RecordRun, HandoffReviewed
  <2> QED BY <1>2, <1>4, <1>17, <2>1, <2>3 DEF RecordRun, ThreadsBacked, Backed
<1>18. CASE Respond
  <2>1. handler'.at \notin OnThread \union {"link"}
    BY <1>5, <1>18, IdleEffect DEF Respond
  <2> QED BY <1>1, <1>2, <1>4, <1>18, <2>1 DEF Respond
<1>19. CASE SyncMessage
  <2>1. HandlerBacked'
    <3>1. CASE Fails
      BY <1>4, <1>5, <3>1, IdleEffect
    <3>2. CASE handler' = [handler EXCEPT !.at = "decide"]
      BY <1>19, <3>2 DEF SyncMessage, TypeInv, HandlerOk, HandlerBacked, OnThread, Backed
    <3> QED BY <1>19, <3>1, <3>2 DEF SyncMessage
  <2> QED BY <1>1, <1>2, <1>19, <2>1 DEF SyncMessage
<1>20. CASE Decide
  <2>1. handler.thread \in ThreadId
    BY <1>20 DEF Decide, TypeInv, HandlerOk, OnThread
  <2>2. PICK after : /\ Save(handler.thread, handler.copy, after)
                     /\ after.phase # "APPROVED"
    BY <1>20, DecideEffect
  <2> DEFINE t == handler.thread
  <2>3. ThreadsBacked'
    <3>1. threads' = [threads EXCEPT ![t] = after]
      BY <2>2 DEF Save
    <3> HIDE DEF t
    <3>2. ASSUME NEW u \in ThreadId, threads'[u] # NoThread, threads'[u].phase = "APPROVED"
          PROVE  <<u, threads'[u].version>> \in reviews'
      BY <1>20, <2>2, <3>1, <3>2 DEF Decide, TypeInv, ThreadsOk, ThreadsBacked, Backed
    <3> QED BY <3>2 DEF ThreadsBacked, Backed
  <2>4. handler'.at \notin OnThread \union {"link"}
    BY <1>20 DEF Decide, OnThread
  <2> QED BY <1>2, <1>4, <1>6, <1>20, <2>3, <2>4 DEF Decide
<1>21. CASE Publish
  <2>1. handler'.at \notin OnThread \union {"link"}
    BY <1>5, <1>21, IdleEffect DEF Publish
  <2> QED BY <1>1, <1>2, <1>4, <1>21, <2>1 DEF Publish
<1>22. ASSUME NEW text \in Texts, ProjectsUnavailable(text) PROVE ReviewInv'
  BY <1>1, <1>2, <1>3, <1>22 DEF ProjectsUnavailable
<1>23. CASE PostStore
  <2> DEFINE t == post.thread
             copy == post.copy
  <2>1. t \in ThreadId /\ UNCHANGED <<reviews, handoffs, handler>>
        /\ threads' = [threads EXCEPT ![t] = copy] /\ post' = NoPost
    BY <1>23 DEF PostStore, TypeInv, PostOk, Save
  <2>2. copy.phase = "APPROVED" => <<t, copy.version>> \in reviews
    BY <1>23 DEF PostStore, PostBacked, Backed
  <2> HIDE DEF t, copy
  <2>3. ThreadsBacked'
    <3>1. ASSUME NEW u \in ThreadId, threads'[u] # NoThread, threads'[u].phase = "APPROVED"
          PROVE  <<u, threads'[u].version>> \in reviews'
      BY <2>1, <2>2, <3>1 DEF TypeInv, ThreadsOk, ThreadsBacked, Backed
    <3> QED BY <3>1 DEF ThreadsBacked, Backed
  <2>4. PostBacked'
    BY <2>1 DEF PostBacked
  <2> QED BY <1>3, <1>6, <2>1, <2>3, <2>4
<1>24. ASSUME NEW t \in ThreadId, PostFetch(t) PROVE ReviewInv'
  <2>1. PostBacked'
    BY <1>24 DEF PostFetch, Exists, PostBacked, ThreadsBacked, Backed
  <2> QED BY <1>1, <1>3, <1>24, <2>1 DEF PostFetch
<1>25. ASSUME NEW t \in ThreadId, FounderConversation(t) PROVE ReviewInv'
  <2>1. PICK after : after.phase # "APPROVED" /\ threads' = [threads EXCEPT ![t] = after]
    BY <1>25, ConversationFields
  <2>2. UNCHANGED <<reviews, handoffs, handler, post>>
    BY <1>25 DEF FounderConversation
  <2>3. ThreadsBacked'
    <3>1. ASSUME NEW u \in ThreadId, threads'[u] # NoThread, threads'[u].phase = "APPROVED"
          PROVE  <<u, threads'[u].version>> \in reviews'
      BY <2>1, <2>2, <3>1 DEF TypeInv, ThreadsOk, ThreadsBacked, Backed
    <3> QED BY <3>1 DEF ThreadsBacked, Backed
  <2> QED BY <1>2, <1>3, <1>6, <2>2, <2>3
<1>26. ASSUME NEW t \in ThreadId, FounderApproval(t) PROVE ReviewInv'
  <2> DEFINE thread == Approved(threads[t])
  <2>1. IsThread(threads[t])
    BY <1>26 DEF FounderApproval, TypeInv, ThreadsOk
  <2>2. thread.version = threads[t].version
    BY <2>1, ApprovedFields
  <2>3. /\ reviews' = reviews \union {<<t, threads[t].version>>}
        /\ threads' = [threads EXCEPT ![t] = thread]
        /\ UNCHANGED <<handoffs, handler, post>>
    BY <1>26 DEF FounderApproval, Reviewed
  <2> HIDE DEF thread
  <2>4. <<t, thread.version>> \in reviews' /\ reviews \subseteq reviews'
    BY <2>2, <2>3
  <2>5. ThreadsBacked'
    <3>1. ASSUME NEW u \in ThreadId, threads'[u] # NoThread, threads'[u].phase = "APPROVED"
          PROVE  <<u, threads'[u].version>> \in reviews'
      <4>1. CASE u = t
        BY <2>3, <2>4, <4>1 DEF TypeInv, ThreadsOk
      <4>2. CASE u # t
        BY <2>3, <2>4, <3>1, <4>2 DEF TypeInv, ThreadsOk, ThreadsBacked, Backed
      <4> QED BY <4>1, <4>2
    <3> QED BY <3>1 DEF ThreadsBacked, Backed
  <2>6. PostBacked' /\ HandlerBacked'
    BY <2>3, <2>4 DEF PostBacked, HandlerBacked, Backed
  <2>7. HandoffReviewed'
    BY <2>3, <2>4 DEF HandoffReviewed
  <2> QED BY <2>5, <2>6, <2>7
<1>27. CASE Restart
  <2>1. HandlerBacked'
    BY <1>4, <1>5, <1>27 DEF Restart
  <2>2. PostBacked'
    BY <1>27 DEF Restart, PostBacked
  <2> QED BY <1>1, <1>27, <2>1, <2>2 DEF Restart
<1>28. CASE UNCHANGED vars
  BY <1>1, <1>2, <1>3, <1>28 DEF vars
<1>29. CASE LinkHandoff
  <2> DEFINE t == handler.thread
             copy == handler.copy
  <2>1. /\ t \in ThreadId /\ UNCHANGED <<reviews, handoffs, post>>
        /\ threads' = [threads EXCEPT ![t] = copy]
    BY <1>29 DEF LinkHandoff, TypeInv, HandlerOk, Save
  <2>2. copy.phase = "APPROVED" => <<t, copy.version>> \in reviews
    BY <1>29 DEF LinkHandoff, HandlerBacked, Backed
  <2>3. handler'.at \notin OnThread \union {"link"}
    BY <1>29 DEF LinkHandoff, Running, OnThread
  <2> HIDE DEF t, copy
  <2>4. ThreadsBacked'
    <3>1. ASSUME NEW u \in ThreadId, threads'[u] # NoThread, threads'[u].phase = "APPROVED"
          PROVE  <<u, threads'[u].version>> \in reviews'
      BY <2>1, <2>2, <3>1 DEF TypeInv, ThreadsOk, ThreadsBacked, Backed
    <3> QED BY <3>1 DEF ThreadsBacked, Backed
  <2> QED BY <1>2, <1>4, <1>6, <2>1, <2>3, <2>4
<1> QED BY <1>11, <1>12, <1>13, <1>14, <1>15, <1>16, <1>17, <1>18, <1>19, <1>20, <1>21, <1>22,
           <1>23, <1>24, <1>25, <1>26, <1>27, <1>28, <1>29 DEF Next, Webhook

\* Whatever overlaps, fails, crashes or is delivered twice, what is handed off
\* is a version of a brief whose review was completed with APPROVED.
THEOREM HandedOffIsReviewed == Spec => []HandoffReviewed
<1>1. Init => ReviewInv
  BY DEF Init, ReviewInv, ThreadsBacked, HandlerBacked, PostBacked, HandoffReviewed, Idle,
         OnThread
<1>2. ReviewInv => HandoffReviewed
  BY DEF ReviewInv
<1> QED BY <1>1, <1>2, StepBacked, TypeInvHolds, PTL DEF Spec

-----------------------------------------------------------------------------
(* A version has one handoff, and a handoff that knows no run had one that *)
(* returned only if the process crashed since, or the handler is about to  *)
(* record it.                                                              *)
Returned(h) == {r \in DOMAIN runs : runs[r].handoff = h /\ runs[r].status = "returned"}

OneHandoff ==
  \A g, h \in DOMAIN handoffs :
    handoffs[g].thread = handoffs[h].thread /\ handoffs[g].version = handoffs[h].version
    => g = h

Recording(h) == handler.at = "record" /\ handler.handoff = h

RunsCounted ==
  \A h \in DOMAIN handoffs :
    /\ Cardinality(Returned(h)) <= 1 + count.restarts
    /\ handoffs[h].run = 0 /\ ~Recording(h) => Cardinality(Returned(h)) <= count.restarts

\* The run in progress is the last one, and its handoff knows no run.
RunInProgress ==
  handler.at \in {"running", "record"} =>
    /\ Len(runs) \in DOMAIN runs
    /\ runs[Len(runs)].handoff = handler.handoff
    /\ handoffs[handler.handoff].run = 0
    /\ handler.at = "running" => runs[Len(runs)].status = "running"

OnceInv == OneHandoff /\ RunsCounted /\ RunInProgress

LEMMA OneMore ==
  ASSUME NEW S, IsFiniteSet(S), NEW x
  PROVE  Cardinality(S \union {x}) \in Nat /\ Cardinality(S \union {x}) <= Cardinality(S) + 1
<1>1. Cardinality(S) \in Nat
  BY FS_CardinalityType
<1>2. Cardinality(S \union {x}) \in {Cardinality(S), Cardinality(S) + 1}
  BY FS_AddElement
<1> QED BY <1>1, <1>2

LEMMA ReturnedFinite == ASSUME TypeInv, NEW h PROVE IsFiniteSet(Returned(h))
<1>1. DOMAIN runs = 1..Len(runs) /\ Len(runs) \in Nat
  BY DEF TypeInv, RunsOk
<1>2. IsFiniteSet(DOMAIN runs)
  BY <1>1, FS_Interval
<1> QED BY <1>2, FS_Subset DEF Returned

\* What has the same runs that returned and no fewer restarts stays counted.
LEMMA KeepsCounted ==
  ASSUME TypeInv, RunsCounted, CountOk', count'.restarts >= count.restarts,
         NEW h \in DOMAIN handoffs, Returned(h)' = Returned(h),
         handoffs'[h].run = handoffs[h].run, Recording(h) => Recording(h)'
  PROVE  /\ Cardinality(Returned(h)') <= 1 + count'.restarts
         /\ handoffs'[h].run = 0 /\ ~Recording(h)'
              => Cardinality(Returned(h)') <= count'.restarts
<1>1. Cardinality(Returned(h)) \in Nat
  BY ReturnedFinite, FS_CardinalityType
<1>2. count.restarts \in Nat /\ count'.restarts \in Nat
  BY DEF TypeInv, CountOk
<1> QED BY <1>1, <1>2 DEF RunsCounted

LEMMA KeepsRuns ==
  ASSUME TypeInv, OnceInv, CountOk', count'.restarts >= count.restarts,
         UNCHANGED <<handoffs, runs>>,
         handler' = handler \/ (handler'.at \notin {"running", "record"}
                                /\ handler.at # "record")
  PROVE  OnceInv'
<1>1. OneHandoff'
  BY DEF OnceInv, OneHandoff
<1>2. RunInProgress'
  BY DEF OnceInv, RunInProgress
<1>3. RunsCounted'
  <2>1. \A h : Returned(h)' = Returned(h) /\ (Recording(h) => Recording(h)')
    BY DEF Returned, Recording
  <2> QED BY <2>1, KeepsCounted DEF OnceInv, RunsCounted
<1> QED BY <1>1, <1>2, <1>3 DEF OnceInv

\* The one step that adds a run that returned.
LEMMA RunReturnsOnce ==
  ASSUME TypeInv, OnceInv, RunReturns, UNCHANGED count,
         runs' = [runs EXCEPT ![Len(runs)].status = "returned"],
         handler' = [handler EXCEPT !.at = "record"]
  PROVE  OnceInv'
<1> DEFINE h0 == handler.handoff
           n == Len(runs)
<1>1. /\ h0 \in DOMAIN handoffs /\ handler.at = "running" /\ UNCHANGED handoffs
      /\ handler'.at = "record" /\ handler'.handoff = h0
  BY DEF RunReturns, TypeInv, HandlerOk, OnHandoff
<1>2. /\ n \in DOMAIN runs /\ runs[n].handoff = h0 /\ handoffs[h0].run = 0
      /\ runs[n].status = "running" /\ runs[n] \in Run
  BY <1>1 DEF OnceInv, RunInProgress, TypeInv, RunsOk
<1>3. /\ DOMAIN runs' = DOMAIN runs
      /\ \A r \in DOMAIN runs : r # n => runs'[r] = runs[r]
      /\ runs'[n] = [runs[n] EXCEPT !.status = "returned"]
  BY <1>2 DEF TypeInv, RunsOk
<1>4. runs'[n].handoff = h0 /\ runs'[n].status = "returned"
  BY <1>2, <1>3, RunFields
<1>5. Len(runs') = n
  BY <1>3 DEF TypeInv, RunsOk
<1> HIDE DEF h0, n
<1>6. \A h \in DOMAIN handoffs : h = h0 => Returned(h)' = Returned(h) \union {n}
  BY <1>2, <1>3, <1>4 DEF Returned
<1>7. \A h \in DOMAIN handoffs : h # h0 => Returned(h)' = Returned(h)
  BY <1>2, <1>3, <1>4 DEF Returned
<1>8. RunInProgress'
  BY <1>1, <1>2, <1>3, <1>4, <1>5 DEF RunInProgress, n
<1>9. OneHandoff'
  BY <1>1 DEF OnceInv, OneHandoff
<1>10. RunsCounted'
  <2> SUFFICES ASSUME NEW h \in DOMAIN handoffs
               PROVE  /\ Cardinality(Returned(h)') <= 1 + count'.restarts
                      /\ handoffs'[h].run = 0 /\ ~Recording(h)'
                           => Cardinality(Returned(h)') <= count'.restarts
    BY <1>1 DEF RunsCounted
  <2>1. CASE h = h0
    <3>1. Recording(h)' /\ ~Recording(h)
      BY <1>1, <2>1 DEF Recording
    <3>2. Cardinality(Returned(h)) <= count.restarts
      BY <1>2, <2>1, <3>1 DEF OnceInv, RunsCounted
    <3>3. IsFiniteSet(Returned(h)) /\ Cardinality(Returned(h)) \in Nat
      BY ReturnedFinite, FS_CardinalityType
    <3>4. /\ Cardinality(Returned(h)') \in Nat
          /\ Cardinality(Returned(h)') <= Cardinality(Returned(h)) + 1
      BY <1>6, <2>1, <3>3, OneMore
    <3>5. count.restarts \in Nat
      BY DEF TypeInv, CountOk
    <3> QED BY <3>1, <3>2, <3>3, <3>4, <3>5
  <2>2. CASE h # h0
    <3>1. Returned(h)' = Returned(h) /\ ~Recording(h) /\ UNCHANGED handoffs[h].run
      BY <1>1, <1>7, <2>2 DEF Recording, h0
    <3>2. count'.restarts >= count.restarts /\ CountOk'
      BY DEF TypeInv, CountOk
    <3> QED BY <3>1, <3>2, KeepsCounted DEF OnceInv
  <2> QED BY <2>1, <2>2
<1> QED BY <1>8, <1>9, <1>10 DEF OnceInv

\* A new handoff has had no run.
LEMMA NewHandoffOnce ==
  ASSUME TypeInv, OnceInv, CreateHandoff, NEW new \in Handoff,
         HandoffsOf(new.thread, new.version) = {}, handoffs' = Append(handoffs, new)
  PROVE  OnceInv'
<1> DEFINE m == Len(handoffs) + 1
<1>1. /\ m \notin DOMAIN handoffs
      /\ \A h \in DOMAIN handoffs' : h \in DOMAIN handoffs \/ h = m
      /\ \A h \in DOMAIN handoffs : handoffs'[h] = handoffs[h]
      /\ handoffs'[m] = new
  BY DEF TypeInv, HandoffsOk
<1>2. /\ UNCHANGED <<runs, count>> /\ handler.at = "handoff"
      /\ handler'.at \notin {"running", "record"}
  BY DEF CreateHandoff, Idle, Linking, Running
<1> HIDE DEF m
<1>3. OneHandoff'
  <2>1. \A h \in DOMAIN handoffs : ~ (/\ handoffs[h].thread = new.thread
                                      /\ handoffs[h].version = new.version)
    BY DEF HandoffsOf
  <2> QED BY <1>1, <2>1 DEF OnceInv, OneHandoff
<1>4. RunInProgress'
  BY <1>2 DEF RunInProgress
<1>5. RunsCounted'
  <2> SUFFICES ASSUME NEW h \in DOMAIN handoffs'
               PROVE  /\ Cardinality(Returned(h)') <= 1 + count'.restarts
                      /\ handoffs'[h].run = 0 /\ ~Recording(h)'
                           => Cardinality(Returned(h)') <= count'.restarts
    BY DEF RunsCounted
  <2>1. Returned(h)' = Returned(h) /\ CountOk' /\ count.restarts \in Nat
    BY <1>2 DEF Returned, TypeInv, CountOk
  <2>2. CASE h \in DOMAIN handoffs
    <3>1. ~Recording(h) /\ handoffs'[h] = handoffs[h] /\ count'.restarts >= count.restarts
      BY <1>1, <1>2, <2>1, <2>2 DEF Recording
    <3> QED BY <2>1, <2>2, <3>1, KeepsCounted DEF OnceInv
  <2>3. CASE h = m
    <3>1. Returned(h) = {}
      BY <1>1, <2>3 DEF Returned, TypeInv, RunsOk
    <3>2. Cardinality(Returned(h)') = 0
      BY <2>1, <3>1, FS_EmptySet
    <3> QED BY <1>2, <2>1, <3>2
  <2> QED BY <1>1, <2>2, <2>3
<1> QED BY <1>3, <1>4, <1>5 DEF OnceInv

LEMMA StepOnce == TypeInv /\ OnceInv /\ [Next]_vars => OnceInv'
<1> SUFFICES ASSUME TypeInv, OnceInv, [Next]_vars PROVE OnceInv'
  OBVIOUS
<1> DEFINE Off == handler'.at \notin {"running", "record"} /\ handler.at # "record"
<1>1. Idle.at \notin {"running", "record"}
  BY DEF Idle
<1>2. CountOk /\ \A n \in Nat : n >= n
  BY DEF TypeInv
<1>3. count.restarts >= count.restarts
  BY <1>2 DEF CountOk
<1>4. ASSUME UNCHANGED count PROVE CountOk' /\ count'.restarts >= count.restarts
  BY <1>2, <1>3, <1>4 DEF CountOk
<1>11. ASSUME NEW text \in Texts, Deliver(text) PROVE OnceInv'
  <2>1. DeliverEffect /\ handler = Idle
    BY <1>11, DeliverSteps
  <2>2. UNCHANGED <<handoffs, runs>> /\ CountOk' /\ count'.restarts >= count.restarts
    BY <1>3, <2>1 DEF DeliverEffect
  <2>3. handler' = handler \/ Off
    BY <1>1, <2>1 DEF DeliverEffect, Taken
  <2> QED BY <2>2, <2>3, KeepsRuns
<1>12. CASE Approve
  <2>1. Off
    BY <1>12 DEF Approve
  <2> QED BY <1>4, <1>12, <2>1, KeepsRuns DEF Approve
<1>13. CASE SyncApproval
  <2>1. Off /\ CountOk' /\ count'.restarts >= count.restarts
    <3>1. CASE Fails
      BY <1>1, <1>3, <1>13, <3>1, IdleEffect DEF SyncApproval
    <3>2. CASE handler' = [handler EXCEPT !.at = "handoff"] /\ UNCHANGED count
      BY <1>4, <1>13, <3>2 DEF SyncApproval, TypeInv, HandlerOk
    <3> QED BY <1>13, <3>1, <3>2 DEF SyncApproval
  <2> QED BY <1>13, <2>1, KeepsRuns DEF SyncApproval
<1>14. CASE CreateHandoff
  <2> DEFINE t == handler.thread
             new == [thread |-> t, version |-> threads[t].version,
                     brief |-> threads[t].brief, run |-> 0]
  <2>1. CASE UNCHANGED handoffs
    <3>1. Off
      BY <1>1, <1>14 DEF CreateHandoff, Linking, Running
    <3> QED BY <1>4, <1>14, <2>1, <3>1, KeepsRuns DEF CreateHandoff
  <2>2. CASE /\ threads[t].phase = "APPROVED" /\ handoffs' = Append(handoffs, new)
             /\ HandoffsOf(t, threads[t].version) = {}
    <3>1. t \in ThreadId
      BY <1>14 DEF CreateHandoff, TypeInv, HandlerOk
    <3>2. IsThread(threads[t])
      BY <2>2, <3>1 DEF TypeInv, ThreadsOk, NoThread
    <3>3. new \in Handoff /\ new.thread = t /\ new.version = threads[t].version
      BY <3>1, <3>2 DEF Handoff, IsThread
    <3> HIDE DEF new
    <3> QED BY <1>14, <2>2, <3>3, NewHandoffOnce
  <2> QED BY <1>14, <2>1, <2>2, Zenon DEF CreateHandoff
<1>15. CASE StartRun
  <2>1. CASE UNCHANGED runs
    <3>1. Off
      BY <1>15, <2>1 DEF StartRun, TypeInv, HandlerOk, OnHandoff, RunsOk
    <3> QED BY <1>4, <1>15, <2>1, <3>1, KeepsRuns DEF StartRun
  <2>2. CASE /\ handoffs[handler.handoff].run = 0
             /\ runs' = Append(runs, [handoff |-> handler.handoff, status |-> "running"])
             /\ handler' = [handler EXCEPT !.at = "running"]
    <3> DEFINE new == [handoff |-> handler.handoff, status |-> "running"]
    <3>1. /\ new \in Run /\ new.handoff = handler.handoff /\ new.status = "running"
          /\ handler'.at = "running" /\ handler'.handoff = handler.handoff
          /\ handler.at = "run" /\ UNCHANGED <<handoffs, count>>
      BY <1>15, <2>2 DEF StartRun, TypeInv, HandlerOk, OnHandoff, HandoffsOk, Run
    <3> HIDE DEF new
    <3>2. /\ Len(runs') = Len(runs) + 1 /\ Len(runs') \in DOMAIN runs'
          /\ runs'[Len(runs')] = new
          /\ \A r \in DOMAIN runs : r \in DOMAIN runs' /\ runs'[r] = runs[r]
          /\ \A r \in DOMAIN runs' : r \in DOMAIN runs \/ runs'[r] = new
      BY <2>2, <3>1 DEF TypeInv, RunsOk, new
    <3>3. RunInProgress'
      BY <2>2, <3>1, <3>2 DEF RunInProgress
    <3>4. \A h : Returned(h)' = Returned(h) /\ ~Recording(h) /\ ~Recording(h)'
      BY <3>1, <3>2 DEF Returned, Recording
    <3>5. RunsCounted'
      BY <1>4, <3>1, <3>4, KeepsCounted DEF OnceInv, RunsCounted
    <3> QED BY <3>1, <3>3, <3>5 DEF OnceInv, OneHandoff
  <2> QED BY <1>15, <2>1, <2>2 DEF StartRun
<1>16. CASE RunReturns
  <2>1. CASE /\ runs' = [runs EXCEPT ![Len(runs)].status = "returned"]
             /\ handler' = [handler EXCEPT !.at = "record"] /\ UNCHANGED count
    BY <1>16, <2>1, RunReturnsOnce
  <2>2. CASE Fails /\ runs' = [runs EXCEPT ![Len(runs)].status = "raised"]
    <3> DEFINE n == Len(runs)
    <3>1. /\ handler.at = "running" /\ UNCHANGED handoffs /\ handler' = Idle
          /\ CountOk' /\ count'.restarts >= count.restarts
      BY <1>3, <1>16, <2>2, IdleEffect DEF RunReturns
    <3>2. /\ n \in DOMAIN runs /\ runs[n].status = "running" /\ runs[n] \in Run
      BY <3>1 DEF OnceInv, RunInProgress, TypeInv, RunsOk
    <3>3. /\ DOMAIN runs' = DOMAIN runs
          /\ \A r \in DOMAIN runs : r # n => runs'[r] = runs[r]
          /\ runs'[n] = [runs[n] EXCEPT !.status = "raised"]
      BY <2>2, <3>2 DEF TypeInv, RunsOk
    <3>4. runs'[n].status = "raised"
      BY <3>2, <3>3, RunFields
    <3> HIDE DEF n
    <3>5. \A h : Returned(h)' = Returned(h) /\ ~Recording(h)
      BY <3>1, <3>2, <3>3, <3>4 DEF Returned, Recording
    <3>6. RunsCounted'
      BY <3>1, <3>5, KeepsCounted DEF OnceInv, RunsCounted
    <3>7. RunInProgress'
      BY <1>1, <3>1 DEF RunInProgress
    <3> QED BY <3>1, <3>6, <3>7 DEF OnceInv, OneHandoff
  <2> QED BY <1>16, <2>1, <2>2 DEF RunReturns
<1>17. CASE RecordRun
  <2> DEFINE h0 == handler.handoff
  <2>1. /\ UNCHANGED <<runs, count>> /\ handler.at = "record" /\ handler'.at = "respond"
    BY <1>17 DEF RecordRun, TypeInv, HandlerOk, OnHandoff
  <2>2. /\ DOMAIN handoffs' = DOMAIN handoffs /\ handoffs'[h0].run = Len(runs)
        /\ \A h \in DOMAIN handoffs : /\ h # h0 => handoffs'[h] = handoffs[h]
                                      /\ handoffs'[h].thread = handoffs[h].thread
                                      /\ handoffs'[h].version = handoffs[h].version
    BY <1>17, RecordRunFields
  <2>3. Len(runs) # 0
    BY <2>1 DEF OnceInv, RunInProgress, TypeInv, RunsOk
  <2>4. OneHandoff'
    BY <2>2 DEF OnceInv, OneHandoff
  <2>5. RunInProgress'
    BY <2>1 DEF RunInProgress
  <2>6. RunsCounted'
    <3> SUFFICES ASSUME NEW h \in DOMAIN handoffs
                 PROVE  /\ Cardinality(Returned(h)') <= 1 + count'.restarts
                        /\ handoffs'[h].run = 0 /\ ~Recording(h)'
                             => Cardinality(Returned(h)') <= count'.restarts
      BY <2>2 DEF RunsCounted
    <3>1. Returned(h)' = Returned(h) /\ count' = count
      BY <2>1 DEF Returned
    <3>2. CASE h = h0
      BY <2>2, <2>3, <3>1, <3>2 DEF OnceInv, RunsCounted
    <3>3. CASE h # h0
      BY <2>2, <3>1, <3>3 DEF OnceInv, RunsCounted, Recording
    <3> QED BY <3>2, <3>3
  <2> QED BY <2>4, <2>5, <2>6 DEF OnceInv
<1>18. CASE Respond
  <2>1. Off /\ CountOk' /\ count'.restarts >= count.restarts
    BY <1>1, <1>3, <1>18, IdleEffect DEF Respond
  <2> QED BY <1>18, <2>1, KeepsRuns DEF Respond
<1>19. CASE SyncMessage
  <2>1. Off /\ CountOk' /\ count'.restarts >= count.restarts
    <3>1. CASE Fails
      BY <1>1, <1>3, <1>19, <3>1, IdleEffect DEF SyncMessage
    <3>2. CASE handler' = [handler EXCEPT !.at = "decide"] /\ UNCHANGED count
      BY <1>4, <1>19, <3>2 DEF SyncMessage, TypeInv, HandlerOk
    <3> QED BY <1>19, <3>1, <3>2 DEF SyncMessage
  <2> QED BY <1>19, <2>1, KeepsRuns DEF SyncMessage
<1>20. CASE Decide
  <2>1. Off /\ CountOk' /\ count'.restarts >= count.restarts
    BY <1>3, <1>20, DecideEffect DEF Decide
  <2> QED BY <1>20, <2>1, KeepsRuns DEF Decide
<1>21. CASE Publish
  <2>1. Off /\ CountOk' /\ count'.restarts >= count.restarts
    BY <1>1, <1>3, <1>21, IdleEffect DEF Publish
  <2> QED BY <1>21, <2>1, KeepsRuns DEF Publish
<1>22. ASSUME NEW text \in Texts, ProjectsUnavailable(text) PROVE OnceInv'
  <2>1. CountOk' /\ count'.restarts >= count.restarts
    BY <1>2, <1>3, <1>22 DEF ProjectsUnavailable, CountOk
  <2> QED BY <1>22, <2>1, KeepsRuns DEF ProjectsUnavailable
<1>23. CASE PostStore
  BY <1>4, <1>23, KeepsRuns DEF PostStore
<1>24. ASSUME NEW t \in ThreadId, PostFetch(t) PROVE OnceInv'
  <2>1. CountOk' /\ count'.restarts >= count.restarts
    BY <1>2, <1>3, <1>24 DEF PostFetch, CountOk
  <2> QED BY <1>24, <2>1, KeepsRuns DEF PostFetch
<1>25. ASSUME NEW t \in ThreadId, FounderConversation(t) PROVE OnceInv'
  <2>1. count'.restarts = count.restarts
    BY <1>2, <1>25 DEF FounderConversation, CountOk
  <2>2. CountOk'
    BY StepTyped DEF TypeInv
  <2> QED BY <1>3, <1>25, <2>1, <2>2, KeepsRuns DEF FounderConversation
<1>26. ASSUME NEW t \in ThreadId, FounderApproval(t) PROVE OnceInv'
  BY <1>4, <1>26, KeepsRuns DEF FounderApproval
<1>27. CASE Restart
  <2>1. /\ CountOk' /\ UNCHANGED handoffs /\ handler' = Idle
        /\ DOMAIN runs' = DOMAIN runs
    BY <1>27, StepTyped DEF Restart, TypeInv
  <2>2. count'.restarts = count.restarts + 1
    BY <1>2, <1>27 DEF Restart, CountOk
  <2>3. ASSUME NEW r \in DOMAIN runs
        PROVE  /\ runs'[r].handoff = runs[r].handoff
               /\ runs'[r].status = "returned" <=> runs[r].status = "returned"
    <3>1. runs[r] \in Run
      BY <2>3 DEF TypeInv, RunsOk
    <3>2. CASE runs[r].status = "running"
      <4>1. runs'[r] = [runs[r] EXCEPT !.status = "lost"]
        BY <1>27, <2>3, <3>2 DEF Restart
      <4> QED BY <3>1, <3>2, <4>1, RunFields
    <3>3. CASE runs[r].status # "running"
      BY <1>27, <2>3, <3>3 DEF Restart
    <3> QED BY <3>2, <3>3
  <2>4. \A h : Returned(h)' = Returned(h)
    BY <2>1, <2>3 DEF Returned
  <2>5. RunsCounted'
    <3> SUFFICES ASSUME NEW h \in DOMAIN handoffs
                 PROVE  /\ Cardinality(Returned(h)') <= 1 + count'.restarts
                        /\ Cardinality(Returned(h)') <= count'.restarts
      BY <2>1 DEF RunsCounted
    <3>1. Cardinality(Returned(h)) <= 1 + count.restarts
      BY DEF OnceInv, RunsCounted
    <3>2. Cardinality(Returned(h)) \in Nat /\ count.restarts \in Nat
      BY <1>2, ReturnedFinite, FS_CardinalityType DEF CountOk
    <3>3. Cardinality(Returned(h)') = Cardinality(Returned(h))
      BY <2>4
    <3> QED BY <2>2, <3>1, <3>2, <3>3
  <2>6. RunInProgress'
    BY <1>1, <2>1 DEF RunInProgress
  <2> QED BY <2>1, <2>5, <2>6 DEF OnceInv, OneHandoff
<1>28. CASE UNCHANGED vars
  BY <1>4, <1>28, KeepsRuns DEF vars
<1>29. CASE LinkHandoff
  <2>1. Off
    BY <1>29 DEF LinkHandoff, Running
  <2> QED BY <1>4, <1>29, <2>1, KeepsRuns DEF LinkHandoff
<1> QED BY <1>11, <1>12, <1>13, <1>14, <1>15, <1>16, <1>17, <1>18, <1>19, <1>20, <1>21, <1>22,
           <1>23, <1>24, <1>25, <1>26, <1>27, <1>28, <1>29 DEF Next, Webhook

\* However often an approval is repeated, a version has one handoff, and of the
\* runs started for it no more return than one and one per crash.
THEOREM ApprovedOnce == Spec => []OneRunPerVersion
<1>1. Init => OnceInv
  BY DEF Init, OnceInv, OneHandoff, RunsCounted, RunInProgress, Idle
<1>2. OnceInv => OneRunPerVersion
  BY DEF OnceInv, OneHandoff, RunsCounted, Returned, OneRunPerVersion
<1> QED BY <1>1, <1>2, StepOnce, TypeInvHolds, PTL DEF Spec

-----------------------------------------------------------------------------
(* As long as nobody stored a stale thread, what was handed off is behind  *)
(* its thread or is its current draft.                                     *)
Behind(h, thread) ==
  /\ handoffs[h].version <= thread.version
  /\ handoffs[h].version = thread.version => handoffs[h].brief = thread.brief

AllBehind == \A h \in DOMAIN handoffs : Behind(h, threads[handoffs[h].thread])

Follows(thread, after) ==
  \/ after.version > thread.version
  \/ after.version = thread.version /\ after.brief = thread.brief

CurrentInv == ~torn => AllBehind

LEMMA StoreKeepsCurrent ==
  ASSUME TypeInv, AllBehind, NEW t \in ThreadId, NEW thread, IsThread(thread),
         threads[t] # NoThread => Follows(threads[t], thread),
         threads' = [threads EXCEPT ![t] = thread], UNCHANGED handoffs
  PROVE  AllBehind'
<1> SUFFICES ASSUME NEW h \in DOMAIN handoffs
             PROVE  Behind(h, threads[handoffs[h].thread])'
  BY DEF AllBehind
<1>1. /\ handoffs[h] \in Handoff /\ IsThread(threads[handoffs[h].thread])
      /\ Behind(h, threads[handoffs[h].thread])
  BY DEF TypeInv, HandoffsOk, AllBehind
<1>2. CASE handoffs[h].thread = t
  <2>1. threads'[t] = thread
    BY DEF TypeInv, ThreadsOk
  <2>2. threads[t] # NoThread
    BY <1>1, <1>2 DEF IsThread, NoThread
  <2>3. handoffs[h].version <= thread.version
        /\ (handoffs[h].version = thread.version => handoffs[h].brief = thread.brief)
    BY <1>1, <1>2, <2>2 DEF Behind, Follows, IsThread, Handoff
  <2> QED BY <1>2, <2>1, <2>3 DEF Behind
<1>3. CASE handoffs[h].thread # t
  <2>1. threads'[handoffs[h].thread] = threads[handoffs[h].thread]
    BY <1>1, <1>3 DEF TypeInv, ThreadsOk, Handoff
  <2> QED BY <1>1, <2>1 DEF Behind
<1> QED BY <1>2, <1>3

LEMMA KeepsCurrent ==
  ASSUME CurrentInv, UNCHANGED <<threads, handoffs, torn>>
  PROVE  CurrentInv'
  BY DEF CurrentInv, AllBehind, Behind

\* A save that tears nothing stores what follows from the thread as it is.
LEMMA SaveKeepsCurrent ==
  ASSUME TypeInv, CurrentInv, NEW t \in ThreadId, NEW fetched, NEW thread,
         IsThread(thread), Follows(fetched, thread), Save(t, fetched, thread),
         UNCHANGED handoffs
  PROVE  CurrentInv'
<1> SUFFICES ASSUME ~torn' PROVE AllBehind'
  BY DEF CurrentInv
<1>1. ~torn /\ threads[t] = fetched /\ threads' = [threads EXCEPT ![t] = thread]
  BY DEF Save
<1>2. AllBehind
  BY <1>1 DEF CurrentInv
<1> QED BY <1>1, <1>2, StoreKeepsCurrent

LEMMA StepCurrent == TypeInv /\ CurrentInv /\ [Next]_vars => CurrentInv'
<1> SUFFICES ASSUME TypeInv, CurrentInv, [Next]_vars PROVE CurrentInv'
  OBVIOUS
<1>1. ASSUME NEW text \in Texts, Deliver(text) PROVE CurrentInv'
  <2>1. DeliverEffect
    BY <1>1, DeliverSteps
  <2>2. UNCHANGED <<handoffs, torn>>
    BY <2>1 DEF DeliverEffect
  <2>3. CASE UNCHANGED threads
    BY <2>2, <2>3, KeepsCurrent
  <2>4. ASSUME NEW t \in ThreadId, NEW at \in {"approve", "message"}, NEW thread,
               NEW txt, NEW message, Taken(t, at, thread, txt, message)
        PROVE  CurrentInv'
    <3>1. threads[t] # NoThread => Follows(threads[t], thread)
      BY <2>4 DEF Taken, Follows
    <3>2. AllBehind => AllBehind'
      BY <2>2, <2>4, <3>1, StoreKeepsCurrent DEF Taken
    <3> QED BY <2>2, <3>2 DEF CurrentInv
  <2> QED BY <2>1, <2>3, <2>4 DEF DeliverEffect
<1>2. CASE Approve
  <2>1. handler.thread \in ThreadId /\ IsThread(handler.copy)
    BY <1>2 DEF Approve, TypeInv, HandlerOk, OnThread
  <2>2. IsThread(Approved(handler.copy)) /\ Follows(handler.copy, Approved(handler.copy))
    BY <2>1, ApprovedFields DEF Follows
  <2>3. /\ Save(handler.thread, handler.copy, Approved(handler.copy))
        /\ UNCHANGED handoffs
    BY <1>2 DEF Approve
  <2> QED BY <2>1, <2>2, <2>3, SaveKeepsCurrent
<1>3. CASE CreateHandoff
  <2> DEFINE t == handler.thread
             new == [thread |-> t, version |-> threads[t].version,
                     brief |-> threads[t].brief, run |-> 0]
  <2>1. UNCHANGED <<threads, torn>>
    BY <1>3 DEF CreateHandoff
  <2>2. CASE UNCHANGED handoffs
    BY <2>1, <2>2, KeepsCurrent
  <2>3. CASE threads[t].phase = "APPROVED" /\ handoffs' = Append(handoffs, new)
    <3>1. t \in ThreadId
      BY <1>3 DEF CreateHandoff, TypeInv, HandlerOk
    <3>2. IsThread(threads[t])
      BY <2>3, <3>1 DEF TypeInv, ThreadsOk, NoThread
    <3>3. /\ new \in Handoff /\ new.thread = t /\ new.version = threads[t].version
          /\ new.brief = threads[t].brief
      BY <3>1, <3>2 DEF Handoff, IsThread
    <3> HIDE DEF new
    <3>4. \A h \in DOMAIN handoffs' : \/ h \in DOMAIN handoffs /\ handoffs'[h] = handoffs[h]
                                      \/ handoffs'[h] = new
      BY <2>3, <3>3 DEF TypeInv, HandoffsOk
    <3>5. new.version <= threads[t].version
      BY <3>2, <3>3 DEF IsThread
    <3>6. AllBehind => AllBehind'
      BY <2>1, <3>3, <3>4, <3>5 DEF AllBehind, Behind
    <3> QED BY <2>1, <3>6 DEF CurrentInv
  <2> QED BY <1>3, <2>2, <2>3, Zenon DEF CreateHandoff
<1>4. CASE RecordRun
  <2>1. DOMAIN handoffs' = DOMAIN handoffs /\ UNCHANGED <<threads, torn>>
    BY <1>4, RecordRunFields DEF RecordRun
  <2>2. \A h \in DOMAIN handoffs : /\ handoffs'[h].thread = handoffs[h].thread
                                   /\ handoffs'[h].version = handoffs[h].version
                                   /\ handoffs'[h].brief = handoffs[h].brief
    BY <1>4, RecordRunFields
  <2> QED BY <2>1, <2>2 DEF CurrentInv, AllBehind, Behind
<1>5. CASE Decide
  <2>1. handler.thread \in ThreadId /\ UNCHANGED handoffs
    BY <1>5 DEF Decide, TypeInv, HandlerOk, OnThread
  <2>2. PICK after : /\ Save(handler.thread, handler.copy, after) /\ IsThread(after)
                     /\ Follows(handler.copy, after)
    BY <1>5, DecideEffect DEF Follows
  <2> QED BY <2>1, <2>2, SaveKeepsCurrent
<1>6. CASE PostStore
  <2>1. post.thread \in ThreadId /\ IsThread(post.copy)
    BY <1>6 DEF PostStore, TypeInv, PostOk
  <2>2. Follows(post.copy, post.copy) /\ UNCHANGED handoffs
    BY <1>6 DEF PostStore, Follows
  <2> QED BY <1>6, <2>1, <2>2, SaveKeepsCurrent DEF PostStore
<1>7. ASSUME NEW t \in ThreadId, FounderConversation(t) PROVE CurrentInv'
  <2>1. PICK after : /\ IsThread(after) /\ threads' = [threads EXCEPT ![t] = after]
                     /\ Follows(threads[t], after)
    BY <1>7, ConversationFields DEF Follows
  <2>2. UNCHANGED <<handoffs, torn>>
    BY <1>7 DEF FounderConversation
  <2> QED BY <2>1, <2>2, StoreKeepsCurrent DEF CurrentInv
<1>8. ASSUME NEW t \in ThreadId, FounderApproval(t) PROVE CurrentInv'
  <2>1. IsThread(threads[t])
    BY <1>8 DEF FounderApproval, TypeInv, ThreadsOk
  <2>2. IsThread(Approved(threads[t])) /\ Follows(threads[t], Approved(threads[t]))
    BY <2>1, ApprovedFields DEF Follows
  <2>3. /\ threads' = [threads EXCEPT ![t] = Approved(threads[t])]
        /\ UNCHANGED <<handoffs, torn>>
    BY <1>8 DEF FounderApproval
  <2> QED BY <2>2, <2>3, StoreKeepsCurrent DEF CurrentInv
<1>9. CASE SyncApproval \/ StartRun \/ RunReturns \/ Respond \/ SyncMessage \/ Publish
  BY <1>9, KeepsCurrent DEF SyncApproval, StartRun, RunReturns, Respond, SyncMessage, Publish
<1>10. ASSUME NEW text \in Texts, ProjectsUnavailable(text) PROVE CurrentInv'
  BY <1>10, KeepsCurrent DEF ProjectsUnavailable
<1>11. ASSUME NEW t \in ThreadId, PostFetch(t) PROVE CurrentInv'
  BY <1>11, KeepsCurrent DEF PostFetch
<1>12. CASE Restart \/ UNCHANGED vars
  BY <1>12, KeepsCurrent DEF Restart, vars
<1>13. CASE LinkHandoff
  <2>1. handler.thread \in ThreadId /\ IsThread(handler.copy)
    BY <1>13 DEF LinkHandoff, TypeInv, HandlerOk
  <2>2. Follows(handler.copy, handler.copy) /\ UNCHANGED handoffs
    BY <1>13 DEF LinkHandoff, Follows
  <2> QED BY <1>13, <2>1, <2>2, SaveKeepsCurrent DEF LinkHandoff
<1> QED BY <1>1, <1>2, <1>3, <1>4, <1>5, <1>6, <1>7, <1>8, <1>9, <1>10, <1>11, <1>12, <1>13
        DEF Next, Webhook

\* A handoff never runs ahead of its thread, and as long as its version is the
\* current one it carries the current draft.
THEOREM HandedOffIsCurrent == Spec => []HandedOffBriefIsCurrent
<1>1. Init => CurrentInv
  BY DEF Init, CurrentInv, AllBehind
<1>2. CurrentInv => HandedOffBriefIsCurrent
  BY DEF CurrentInv, AllBehind, Behind, HandedOffBriefIsCurrent
<1> QED BY <1>1, <1>2, StepCurrent, TypeInvHolds, PTL DEF Spec
=============================================================================
