# A TLA+ model of Lummevia OS

Lummevia OS is an orchestrator: a FastAPI process that takes an approved brief,
plans it as a chain of task packages and works through them with a graph of
agent nodes (PO, DEV, QA). This directory holds TLA+ models of the parts that
decide what runs, when, and with what; TLC configurations that check them on
small instances; and proofs, checked by TLAPS, that the main results hold for
every number of tasks, runs, threads, repositories and slots. Paths below are
relative to the repository's root.

## 1. The system

One process. The registries are process-wide singletons that hold immutable
records in dictionaries and replace them (read, copy, write back) without any
lock. `def` routes run in a thread pool, so two requests interleave anywhere;
a development run is one such request and takes as long as its graph. The
Telegram webhook is a coroutine that never awaits once it has its body, so
updates are handled one at a time.

| Component | State | Operations | Interacts with | What makes it correct |
|---|---|---|---|---|
| Task queue (`packages/queue`) | queues of items with status, dependencies, priority | add, refresh, read, update status, complete, select, start | the run; `GET /queues` readers | dependencies first, one active item, most urgent first, no lost wakeup |
| Run and graph (`packages/runtime`) | graph position, current item, loop count, metadata | nodes po, dev, qa, iteration, completed; tail of `start_run` | all registries | ends, completes the whole plan, leaves nothing behind |
| Locks and workspaces (`packages/resources`) | REPO, WORKSPACE, PATH locks; workspaces | acquire, release, allocate, activate | runs, cancellation | one task per repository, no leaked lock |
| Capability slots (`packages/capabilities`) | `used_slots` per role and model, active allocations | request, release | every Kilo step | never oversubscribed, no lost slot |
| Supervisor (`packages/supervisor`) | watchdogs, recovery actions, dead letters | heartbeat, detect stuck, cancel, dead letter | queue, sessions, locks, slots | who works is watched, who is done is not, a silence is recovered from once |
| Sessions (`packages/sessions`) | execution sessions per task | create, resume, record executions, complete | dev and qa nodes, supervisor | a completed session has a completed item; attempts add up |
| Conversations, approval gate (`packages/conversations`) | threads with phase, brief version, approval | message, draft, approve | Telegram, a message route, founder nodes | no run without an approved brief of that version |
| Handoffs (`app/core/handoffs.py`) | one record per thread and version | create or find, start run, record it | conversations, runtime | one handoff and one run per approved version |
| Telegram webhook (`routes/telegram.py`) | starts that wait for a project or an intent | message, `/lummevia`, `/approve` | Telegram, YouTrack, conversations, handoffs | an approval that was stored is served |
| Persistence (`packages/persistence`, `app/core/persistence.py`) | versioned snapshots of the registries | save on write, rehydrate at start or on request | all registries | an acknowledged save survives; a crash costs the change being saved |
| Kilo adapter (`packages/kilo-adapter`) | attempts of one execution | check settings, attempt, time out, retry, classify | dev and qa nodes | only allowed settings run a command; the last attempt decides |
| Code changes (`packages/code-changes`) | change sets per execution and task | create, verdict, discard | Kilo steps, qa node, founder | a verdict is on the task it was passed on |
| Economics (`packages/economics`) | budgets of a project | create, record usage, evaluate | every model call, strategies | caution is not given up |
| Planning, decisions, strategy (`packages/planning`, `intelligence`, `strategy`) | proposed changes, decisions, current strategy | judge a signal, answer, select | po, dev, qa nodes; founder | the layers judge alike |
| Learning, memory (`packages/learning`, `memory`) | insights, recommendations, project memory | analyse, review, accept, reject | ended runs, founder | blame needs a failure; a stored answer decides its review |
| Evaluations (`packages/evaluations`, `datasets`) | active baseline per prompt | run dataset, compare, promote | reviews, memory | quality does not slip |
| Reviews (`packages/reviews`) | reviews with decision | create, complete | qa node, Telegram, learning, promotions | part of the modules above |
| Model router, agents | configuration, prompt pipeline | resolve model, produce artifacts | every node | - |
| Timeline, integrations (YouTrack, GitHub, Phoenix), configuration | - | views, I/O | - | - |

Hard behaviours: read-modify-write by racing threads; runs that share
repositories, slots and budgets; exceptions between steps, since no handler
cleans up; statuses recomputed by a refresh that every write triggers; late
heartbeats and overlapping detections; redelivered and reordered updates and
retried approvals; executions attempted again under the same id; snapshots whose
save fails, and restarts from snapshots taken at different moments.
`PROJECT.json` lists each one under "hazards", with the line where it bites.

## 2. Plan

1. `QueueOps`, `TaskQueue`, with the abstract `SequentialPlan` - done, proved.
2. `ResourceLocks`, with the abstract `RepoMutex` - done, proved.
3. `CapabilitySlots` - done, proved.
4. `DevelopmentRun`: whole runs side by side over 1 to 3 - done, proved.
5. `FounderPolicy`, `ApprovalHandoff`: conversations, approvals, handoffs and
   their runs under redelivery, failing calls and crashes - done, proved.
6. `Supervision`, `Snapshots`: watchdogs and sessions; snapshots, restart and
   rehydration - done, proved.
7. `ExecutionRules`, `GovernedRun`: Kilo attempts, change sets, budgets,
   strategies, decisions and plans - done, proved.
8. `PromptPromotion`, `Learning` - done, proved.

"Proved" is every safety property the runs check; liveness stays with TLC.

Left: an abstract specification of what a handoff promises, with its refinement;
the events of runs and the timeline that is built from them.

Each module keeps its state in few functions over constant sets, has one action
per operation and no RECURSIVE operator, so that it can be proved about.

## 3. The modules

**QueueOps** - the values and pure operations of `TaskQueueRegistry` and
`TaskQueueScheduler`. A queue is a record of status, dependencies and weight per
task number; task numbers are the order of insertion, so they stand for
`created_at`. `Refresh` is `_refresh_queue`, `UpdateItem` is `update_item_status`
(any status, then a refresh), `SelectNext` is `select_next_item`.

**TaskQueue** - one queue, its run, and API readers. The run's actions follow
`runtime/queue.py`: `AddTask` and `PlanComplete` (`initialize_task_queue`),
`SelectItem`, `StartItem`, `AllocateWorkspace` (`start_next_ready_task`),
`AllocationNotGranted` (`mark_task_waiting_for_allocation`), `CompleteItem`
(`mark_current_queue_item_completed`), `FinishRun` (the tail of `start_run`).
A reader is `get_queue` split at the only place where a switch matters:
`ReaderFetch` and `ReaderStore`. Dependencies are any subset of the earlier packages.

**SequentialPlan** - what a queue promises a run: one package at a time, after
its dependencies, once, and closed only when all are done.

**ResourceLocks** - `ResourceRegistry` and `WorkspaceAllocator`, one thread per
item: `FindActiveLock` and `InsertLock` are the halves of `acquire_lock`,
`SaveWorkspace`, `MarkWorkspaceActive`, then `ReleaseWorkspace`, `ReleaseLock`,
`UpdateWorkspace` (`release_workspace`), and `RunFails` (an exception; nothing
releases). The constant `SwitchInside` says whether another thread may run inside
`acquire_lock`: FALSE shows what the protocol gives, TRUE what the code gives.

**RepoMutex** - a repository is reserved for one task at a time. `ResourceLocks`
implements it with items, `DevelopmentRun` with whole runs.

**CapabilitySlots** - `CapabilityRegistry`: `Request` (the copies and
`evaluate_allocation_request`), `TakeSlot` and `RegisterAllocation` (the rest of
`request_allocation`), `PopAllocation`, `ReadSlot`, `ReturnSlot`
(`release_allocation`), `Abort` (an exception between the grant and the `try` of
`execute_kilo_step`). A refused request changes nothing and is no action. The
history variable `switched` says that a thread ran while another was inside a
call: until then the calls were undivided.

**DevelopmentRun** - several runs through the graph, each with a queue of its own,
sharing locks and slots. A registry call is one step; what lies inside is the
business of the three modules above. `SlotGranted`, `SlotNotGranted` and
`ReleaseSlot` are `execute_kilo_step`; `QueueTasks` is `po_task_packages`;
`AllocateWorkspace` and `RepoRefused` are the two outcomes of the workspace
allocation; `QaFails`, `QaPasses`, `CompleteItem`, `StartNext` and `NothingLeft` are
`qa_validation` cut at its registry calls; `Iterate` is `dev_qa_iteration`;
`FinishRun` is `workflow_completed` with the tail; `RunFails` is an exception;
`CancelWorkflow` is the supervisor's route. The plan is the chain that the prompt
pipeline produces, and the QA verdict is the pipeline's: the first validation of
a run fails, later ones pass. `CancelWorkflow` depends on how LangGraph hands the
state to a node: the dictionary field `metadata` is validated, and thereby copied,
for every node, so the registered state does not see what nodes add to it.

**FounderPolicy** - the deterministic policy of the conversation: which contract
fields a message fills, when the PM asks again and when it drafts a brief. The
text of a message is what the policy finds in it, and a pending question is the
set of the fields it asks for (`FirstFields` takes them in the contract's order).

**ApprovalHandoff** - the webhook from a delivered update to the recorded run.
`Deliver` is everything before the thread is known (`Route`) and the creation of
the thread; then either `Approve`, `SyncApproval`, `CreateHandoff`, `LinkHandoff`
(the thread that was fetched is stored once more), `StartRun`, `RunReturns`,
`RecordRun`, `Respond`, or `SyncMessage`, `Decide`, `Publish`, cut at the writes and
the external calls, each of which may fail (`Fails`: the route answers 500 and
Telegram keeps the update). Beside the webhook: `PostFetch` and `PostStore` (the
message route stores the thread it fetched earlier), `FounderConversation` and
`FounderApproval` (the founder nodes of a technical run), `Restart`.

**Supervision** - one supervised run and the requests that look for stuck targets
or cancel it. The run's actions are the heartbeats and session writes of its
nodes; `BeginDetection` and `BeginCancel` copy the list of watchdogs, `MarkStuck`
and `MarkCancelled` write one of them from the copy, with the heartbeat it had then
(`heard` keeps which were fresh for the one that cancels); `Silence` is time longer
than every timeout.

**Snapshots** - memory, storage and what happens between them: `Change` (memory
first), `ReadVersion` and `Insert` (the two statements of a save, with the UNIQUE
constraint), `SaveFails`; `Seed`, `Rehydrate`, `ReadList`, `Restore`, `Serve`
(the lifespan, and `POST /persistence/rehydrate` beside the runs); `Restart`.
Objects are grouped into registries that are restored one after the other.

**ExecutionRules** - the rules of decisions, plans, budgets, strategies and Kilo's
safety as operators over what they read.

**GovernedRun** - the DEV-QA loop under these rules: `RegisterTask` (the watchdog of
the next package, which resolves a strategy), `StartStep`, `OpenSession` (a new
session had no retries), the attempts of an execution with their outcomes, the
change set an execution leaves, model calls on a shared budget (`ResolveBudget`,
`ReadBudget`, `ChargeBudget`, `JudgeBudget`: the executor resolves it, `record_usage`
reads it and stores a changed copy, `evaluate_budget` reads it again), the verdicts
of QA (each brings the dead letters of the run into its metadata), reworks, the founder's answers and discards, other runs of the
project. A Kilo execution has one attempt unless its request asks for more;
tests/test_runtime_observability.py runs the graph with two, and so does the run.

**PromptPromotion** - callers that run a dataset, compare with the baseline,
promote, and remember what they learned, beside reviews.

**Learning** - analyses at the end of runs and by the route, from the memory of
the project, and the founder's answers while reviews are being attached. An answer
is cut at its reads and writes: `ReadRecommendation` and `StoreAnswer`
(`update_recommendation_status`), `CheckReview` and `CompleteReview`
(`_complete_review_if_needed`); the analysis at `CreateReview` and `AttachReview`.

The MC modules give values to the constants. `MCRecovery` extends `Supervision`
and `Snapshots`, `MCRegistries` extends `TaskQueue`, `CapabilitySlots`,
`PromptPromotion` and `Learning`, and `MCQueueAndLocks` extends `TaskQueue` and
`ResourceLocks`: components that share no variable, checked side by side in one run,
one per initial value of `instance`, of which only the variables move.
Definitions preceded by a comment
that begins with "Wrong:" are faulty variants of the definition they stand
before; replacing it by the variant breaks the property that `PROJECT.json`
("mutants") pairs it with. Nothing uses them otherwise.

## 4. The runs

| Run | Question | Bounds |
|---|---|---|
| `queue_and_locks` | does a run alone with its queue keep the order, the urgency and the exactly-once of its plan, and end? Does the lock protocol exclude, cover, release and not leak? | every plan of up to 3 packages, every dependency on earlier ones, 4 priorities; 4 items, 3 on one repository |
| `task_queue_one_active` | violation: a racing reader lets two items run | 2 packages, 1 reader |
| `resource_locks_race` | violation: two items hold one repository | 2 items |
| `registries` | what survives threads in registries without locks? A queue stays refreshed under racing readers; no only slot is lost to a divided call, and as long as none was divided the slots are kept and counted; racing promotions keep the quality; stored answers decide their reviews, open recommendations lead to theirs, and blame needs a failure. | 2 packages and 2 readers; 3 threads, 2 roles of 1 and 2 slots that share a model of 2; 2 callers, 2 versions, 6 results of 5 cases, 3 promotions decided; 1 run of up to 2 packages and the analysis route, 2 clients, 3 calls (analyses, answers, decisions of reviews) |
| `learning_answer_race` | violation: an answer detaches the review that was attached while it was given | 1 run of up to 2 packages, 2 clients, 3 calls |
| `capability_slots_race` | violation: one slot granted twice | 2 runs |
| `development_runs` | do whole runs exclude each other, hand a repository over only after giving it back, work on the right item, leave nothing, and end? | 2 runs, 1 repository, plans of 1 or 2 packages |
| `development_run_cancel` | violation: cancelling a crashed run releases nothing | as above |
| `approval_handoffs` | is only what was reviewed handed off, once, current, and in the end? | 3 updates of one chat, 2 threads, 1 fault (failed call, repeated delivery or crash), 1 request beside |
| `recovery` | who is watched, how often is a silence recovered from, do sessions and items agree; what does a crash cost? | run of 2 tasks, 2 threads of requests, 2 mishaps, 3 calls, where task, mishaps and calls add up to at most 5; 4 objects, 2 threads, 3 changes, 2 faults |
| `governed_run` | do verdicts reach the change set of their task, are stops escalated, is caution kept? | 6 settings of Kilo, 2 histories, 2 tasks, 2 attempts, change sets of 1, 5 or 8 files, 2 budgets with limit 4, 3 events beside |
| `code_change_rework` | violation: a rework keeps the rejected diff | as above |

Why the bounds are enough. Three packages give a chain, a fork, a join and
independent packages, and more startable items than slots for them; two readers
can overtake each other as well as the run. Three items on one repository give a
holder and two contenders, and the fourth an unrelated one. Two runs are all a
repository conflict needs, and two packages all the handover between packages
needs. Three updates are a message that creates a thread, its approval, and one
more (an approval again, a message that reopens the thread, another thread); one
fault reaches every external call, and one request beside is overtaken by, or
overtakes, each step of the webhook. Two overlapping detections and a
cancellation are the shortest way to write a watchdog from a stale copy; the sum
of 5 allows two mishaps with two calls in the first task, or with one in the
second. Three threads exceed the two slots of a model by one. Two threads that save one object conflict on its version; two faults are a failed
save and a crash, or a crash during a restart. Files of 1, 5 and 8 fall on the
three sides of the thresholds of the strategies and the planner, limit 4 gives
every budget status, and two tasks let a verdict go astray. Three calls are an analysis and
two answers, or an answer and a decision of its review, each with a step of another
call between any two of its own. The proofs of
section 5 remove the bounds for what they cover.

Deadlock checking is off: a run that ended does nothing more, which is the normal
end of every model.

Fairness. `FairSpec` of `TaskQueue` and `DevelopmentRun` and `FairLocksSpec` of
`ResourceLocks` (as `Fairness` of `MCQueueAndLocks` where the two are checked) ask for
weak fairness of the forward steps of a run's thread and of nothing else: the
operating system schedules a runnable thread again, and no forward step waits for
another thread (a busy repository raises, a busy slot is skipped). `FairSpec` of
`ApprovalHandoff` asks for weak fairness of the webhook: the event loop goes on
with the update it handles and takes the next, and Telegram delivers again what
was not answered with success. Crashes, failures, readers, cancellations and the
routes beside are never required. `AllocationNotGranted` is not a forward step in
`TaskQueue`; the graph takes it at most once per node.

History variables and exceptions. `torn` (a stored thread was stale), `asked`
(the bot answered /approve with a question), `overtaken` (a rehydration served
beside threads), `switched` (a registry call was divided), `unchecked` (a
baseline was replaced by a candidate compared with none) and `overridden` (a
caller of the analysis gave its own count) name the situations in which the code
promises less; the properties say what holds until then.

## 5. What is proved

Nothing is assumed but the types of the constants, which TLC also evaluates.

- `TaskQueueProofs`. For any number of readers: types, and that every stored queue
  is refreshed (`Refresh` is idempotent, and every write goes through it). For
  `Readers = {}`: the inductive invariant `RunInv` adds that only the chosen item
  runs, that dependencies come first, that the completed items are the validated
  ones, and what each phase of the run implies. Dependencies point to earlier
  packages, so the first unfinished package has none unfinished before it and the
  refresh has made it READY: hence a run that finds nothing to start has finished
  everything. The refinement of `SequentialPlan` follows step by step.
- `ResourceLocksProofs`. `LockInv` relates a thread's position to the locks it
  holds and is inductive even with switches inside `acquire_lock`; `MutexInv` adds
  that a thread about to insert has found no other holder, which needs undivided
  calls. It gives mutual exclusion and the refinement of `RepoMutex`.
- `CapabilitySlotsProofs`. `CountInv`: until a call is divided, `used_slots` is the
  number of slots taken, counted over every position of a thread, hence
  `SlotsRespected` and `UsedMatchesActive`. `OneSlotInv` needs no such condition: a
  slot in use, where there is one, is always one that some thread has still to
  give back (`SlotsComeBack`).
- `DevelopmentRunProofs`. For any runs, repositories and length of a plan.
  `RunInv` says of each run that its queue is a chain (`Chain`: everything before
  the current item COMPLETED, the next READY or BLOCKED), which workspace is
  active at which step, and that the slot is held only during a Kilo step;
  `Exclusive` says that active workspaces are on different repositories. A step of
  one run leaves the parts of the others alone (`StepOfRun`). Exclusion, the right
  item and the empty end follow. The refinement of `RepoMutex` maps the owner of a
  repository to the run with an active workspace there: an allocation finds none,
  a release takes away the only one, and no other step changes workspaces.
- `ApprovalHandoffProofs`. For any threads, updates, requests beside and faults.
  `TypeInv` follows the handler through its records: an update in hand is still in
  the inbox, a handoff names a run that was started, pending questions and
  messages keep their shape; with `RestInv` it gives the full types. `ReviewInv`: an
  approved thread is one whose version has its review, wherever a copy of it is
  (registry, handler, message route), hence what is handed off was reviewed.
  `OnceInv` counts the returned runs of a handoff against crashes: without a
  recorded run there are no more than crashes, plus the one the handler is about to
  record. `CurrentInv`: until a stale thread is stored, versions only grow.
- `RecoveryProofs`, storage. For any threads, objects, registries, changes and
  faults. `OwnInOrder`: the newest version of an object with one writer is its
  newest acknowledged change, and what its writer is saving is no older; a UNIQUE
  conflict cannot reorder the two, since a conflicting save is dropped whole.
  `OwnRestored` follows a restart: what was read is still the newest version,
  because nothing is saved before the application serves, and every object is
  restored or in a registry that is still to come, or health says degraded.
  `SlotsSeeded` keeps the seed the newest version of the slots until it is read back.
- `RecoveryProofs`, supervision. For any tasks, requests, retries, mishaps and
  calls. `Watched`: every item started and every session opened has its watchdog,
  which is ACTIVE only while its task is worked on and, at the steps of an
  execution, not completed; a heartbeat then makes it ACTIVE. `Done` says how far the
  sessions and items of each task are, `AttemptsAddUp` that a session's attempts are
  those of the executions recorded for it. `Recovered` makes a silence recovered
  from once per request: the recovery actions a watchdog has, with those it may
  still get (from every request while it is STUCK, else from those that listed it),
  never exceed silences times requests.
- `GovernedRunProofs`. For any settings of Kilo, histories, tasks, attempts, diffs,
  budgets and events beside. `IInv` has a part for each thing a step can disturb:
  the position of the run, `Revisions` (how many revisions a sandbox can have at each
  step), `Changes` (the tasks passed are those before the present one, and their
  change sets are the ones the metadata knows), `VerdictsReachTheirTask` itself, `Noted`,
  `Governing` (decisions and plans are about signals that are past, so a decision
  and a plan for the same signal were made from the same facts), `Money` and `Chosen`
  (a CRITICAL strategy has noted a dead letter, the thrifty one a BLOCK).
  `ResolvedInSteps` unfolds the recursive function that applies the eleven rules of a
  strategy one after the other.
- `RegistriesProofs`. `PromotionInv`: a candidate about to be registered passed as well
  as the first baseline, unless it was compared with none or a baseline was
  unchecked, so any number of racing promotions compose. `LearningInv`: the
  recommendations an analysis has still to attach reviews to are its own,
  unreviewed and taken in order (`Queued`), so only an answer can store a
  recommendation over the review made for it; `Answering` says of each call of a
  client which recommendation and review it works with. Hence an open
  recommendation leads to its review, and a stored answer decides the review it is
  stored with or is about to. Nothing is said of a review that such an answer
  detached: `learning_answer_race` shows that it stays open;
  and the first issue of the memory is one of QA, before
  which nothing blames quality (`Blames`), whatever insights are added after it.

Every invariant and every action property of the passing runs is stated by a
theorem. Some theorems say more than a run asks: `AtMostOneActive` (without
readers), `AckedIsDurable` and `OnlyLastChangeAtRisk` (together `CrashCostsOneChange`),
the types of the queue, the locks, the slots, the promotions, the learning layer
and the storage. `RepoExclusive` needs undivided
calls of `acquire_lock`; the violating run shows what that assumption is worth.

Only model-checked: liveness (`QueueRunEnds`, `LocksAreReleased`, `RunsEnd`,
`ApprovalIsServed`), since fairness and ENABLED are beyond the prover. What a
recursive definition computes for every input would need induction over data,
which is beyond it too; no property here depends on it.

## 6. Disagreements with the documentation

1. Two items of a queue can be RUNNING (`task_queue_one_active`): `get_queue` stores
   what it read earlier. README.md:732 promises one active item per queue.
2. Two runs can hold one repository (`resource_locks_race`): `acquire_lock` checks
   and inserts in two steps. README.md:1475 asks for one task per repository.
3. One slot can be granted twice (`capability_slots_race`): README.md:717 and 721.
4. Cancelling a crashed run releases nothing (`development_run_cancel`):
   README.md:1498 promises locks, workspace and allocation to be released.
5. A rework keeps the rejected diff (`code_change_rework`): README.md:1374 says that
   every Kilo execution captures its change set.
6. Answering a recommendation need not complete its review (`learning_answer_race`):
   `update_recommendation_status` reads the recommendation, and an analysis that
   attaches the review before the copy is stored loses it again. The review stays
   open, and nothing leads to it. tests/test_learning_routes.py:64-67 expects an
   accepted recommendation to have a completed review.

With undivided registry calls the first three cannot happen, as proved: a lock
around each registry operation would be enough. One around
`update_recommendation_status` would also keep a review attached, but would not keep
an answer from being overwritten by an analysis, which proposes, creates the review
and stores the recommendation in calls of their own.

Also met, and visible in the models, without a run of their own:

- Approvals: an approved thread still counts as pending (`_has_pending_draft`,
  docs/04-integraciones/telegram.md:58 and 64), so a repeated bare `/approve` may be
  answered with a question. A start that waits for its intent is forgotten before
  `create_issue` is tried.
- Supervisor: a finished Kilo execution is never completed as a target, so it
  becomes STUCK and, if it was retried, a dead letter; items and sessions never
  do, since their `retry_attempts` never grow (README.md:1503, 1505). Recovery actions RETRY
  stay PENDING.
- Persistence: README.md:1797 says a restart loses nothing; the last change of a
  failed or conflicting save is lost.
- Decisions: README.md:1557 gives a failed validation RETRY or ESCALATE_REVIEW; from
  the first loop on the code proposes STOP. Decisions for stuck targets
  (README.md:1575) are never created. The founder's answer between the creation
  and the save of a decision or a recommendation is overwritten; a recommendation
  that is accepted and then rejected leaves its review APPROVED.
- Planning: packages have size 12, so every plan proposes SPLIT_TASK.
- Strategy: WARN lowers the risk to MEDIUM; a dead letter under BLOCK lowers QA
  from PARANOID to STANDARD; DEGRADE recommends the light model to PM and PO;
  AGGRESSIVE is unreachable; nothing consumes the strategy.
- Learning: one failed validation and the summary of its completed run count as
  two repeated QA failures (README.md:1705).
- Promotion: a candidate sent to review is never promoted by it; the first candidate
  is promoted whatever its result; the score may drift by less than 0.03 per
  promotion.

## 7. Not modelled

Texts, prompts, metadata kept for observability, timestamps other than their
order, and identifiers other than their equality. The timeline and the datasets'
contents, which are views and data. The pure I/O of the integrations: their
failures are actions of `ApprovalHandoff`. The QC, GitHub and final validation
nodes, which the compiled graph does not contain; `apply_plan` and the runtime's
`detect_stuck_watchdogs`, which have no caller. Publishing a milestone twice
(routes/runtime.py:39), which only repeats a comment. Registering capabilities
beyond the seed.

Simplifications. A proposal of a decision or a plan, with its save, is one step;
one limit of a budget stands for those of cost, calls and tokens; autonomy is
MANUAL, as configured, so nothing is APPLIED by itself; in `Learning` package ids
are those of their run;
`GovernedRun` keeps the copies of registry values that nodes read from the run's
metadata and no others. In `DevelopmentRun` a cancellation that is recorded while
the graph runs is erased by the tail of `start_run`, as in the code; no
document promises otherwise. QA judges the change set the metadata remembers,
which after a skipped execution is an earlier task's. Bounds on events, calls,
mishaps, faults and changes are guards named `Max...`; none of them hides an
operation.
