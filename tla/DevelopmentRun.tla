---------------------------- MODULE DevelopmentRun --------------------------
(***************************************************************************)
(* Development runs side by side: the graph of runtime/graph.py with its   *)
(* nodes (nodes/po.py, dev.py, qa.py, workflow_completed.py), the run's    *)
(* task queue, the repository locks and the capability slots.              *)
(*                                                                         *)
(* Every run has a queue of its own; the locks and the slots are shared by *)
(* all threads.  One call of a registry is one step here: TaskQueue,       *)
(* ResourceLocks and CapabilitySlots look inside the calls.  A workspace   *)
(* stands for itself and for the locks it was allocated with.              *)
(***************************************************************************)
EXTENDS QueueOps

CONSTANTS
  Runs, Repos,
  RepoOf,        \* the project of each run, which is its packages' target_repo
  NoRun

ASSUME RepoAssumption == RepoOf \in [Runs -> Repos] /\ NoRun \notin Runs

Role == {"PO", "DEV", "QA"}
NoRole == "none"

\* The model-router's default models: DEV and QA are given the same one.
ModelOf == [PO |-> "strong", DEV |-> "lite", QA |-> "lite"]
Capacities(role) == {role, ModelOf[role]}

VARIABLES
  step,         \* where each run is in the graph
  queue,        \* its task queue
  item,         \* metadata["current_queue_item_id"], and the package worked on
  workspace,    \* status of the workspace of each of its items
  held,         \* metadata["workspace_id"]: the item of the last workspace
  loops,        \* loop_count
  allocated,    \* role of the run's allocation in the CapabilityRegistry
  cancelledAt   \* the step at which the run was cancelled, or "never"

vars == <<step, queue, item, workspace, held, loops, allocated, cancelledAt>>

KiloRole == [planning |-> "PO", activating |-> "PO", dev |-> "DEV", qa |-> "QA"]
AfterKilo == [planning |-> "queueing", activating |-> "dev", dev |-> "qa",
              qa |-> "verdict"]
KiloStep == DOMAIN KiloRole
Over == {"ended", "crashed"}
Step == KiloStep \cup Over \cup
        {"queueing", "allocating", "verdict", "iterating", "completing",
         "selecting", "closing"}

\* The steps that work on the repository of a task.
Working == {"activating", "dev", "qa", "verdict", "iterating"}

Init ==
  /\ step = [r \in Runs |-> "planning"]
  /\ queue = [r \in Runs |-> EmptyQueue]
  /\ item = [r \in Runs |-> NoTask]
  /\ workspace = [r \in Runs |-> [i \in Task |-> "NONE"]]
  /\ held = [r \in Runs |-> NoTask]
  /\ loops = [r \in Runs |-> 0]
  /\ allocated = [r \in Runs |-> NoRole]
  /\ cancelledAt = [r \in Runs |-> "never"]

Goto(r, s) == step' = [step EXCEPT ![r] = s]

-----------------------------------------------------------------------------
(* execute_kilo_step: a slot of the role and of the model, or no execution *)
(* at all.                                                                 *)
SlotFree(role) ==
  \A q \in Runs : allocated[q] # NoRole
                    => Capacities(allocated[q]) \cap Capacities(role) = {}

\* GRANTED: the current item is written again with its own status.
SlotGranted(r) ==
  /\ step[r] \in KiloStep /\ allocated[r] = NoRole
  /\ SlotFree(KiloRole[step[r]])
  /\ allocated' = [allocated EXCEPT ![r] = KiloRole[step[r]]]
  /\ UNCHANGED <<step, queue, item, workspace, held, loops, cancelledAt>>

\* WAITING: mark_task_waiting_for_allocation, and the node goes on without.
SlotNotGranted(r) ==
  /\ step[r] \in KiloStep /\ allocated[r] = NoRole
  /\ ~ SlotFree(KiloRole[step[r]])
  /\ queue' = [queue EXCEPT ![r] = UpdateItem(queue[r], item[r], "BLOCKED")]
  /\ Goto(r, AfterKilo[step[r]])
  /\ UNCHANGED <<item, workspace, held, loops, allocated, cancelledAt>>

ReleaseSlot(r) ==
  /\ step[r] \in KiloStep /\ allocated[r] # NoRole
  /\ allocated' = [allocated EXCEPT ![r] = NoRole]
  /\ Goto(r, AfterKilo[step[r]])
  /\ UNCHANGED <<queue, item, workspace, held, loops, cancelledAt>>

-----------------------------------------------------------------------------
\* The task plan is a chain: package i depends on all packages before it, and
\* the first one has priority HIGH.
PlannedQueue(n) ==
  Refresh([status |-> [i \in Task |-> IF i <= n THEN "QUEUED" ELSE "ABSENT"],
           deps   |-> [i \in Task |-> IF i <= n THEN 1..(i - 1) ELSE {}],
           weight |-> [i \in Task |-> IF i = 1 THEN 1 ELSE 2]])

\* po_task_packages: initialize_task_queue and its first start_next_item.
QueueTasks(r, n) ==
  /\ step[r] = "queueing"
  /\ LET q == PlannedQueue(n)
     IN  /\ item' = [item EXCEPT ![r] = SelectNext(q)]
         /\ queue' = [queue EXCEPT ![r] = UpdateItem(q, SelectNext(q), "RUNNING")]
  /\ Goto(r, "allocating")
  /\ UNCHANGED <<workspace, held, loops, allocated, cancelledAt>>

\* Wrong: only the run's own workspaces are looked at.
RepoBusyWithOwn(r) == \E i \in Task : workspace[r][i] = "ACTIVE"

RepoBusy(r) ==
  \E q \in Runs, i \in Task : RepoOf[q] = RepoOf[r] /\ workspace[q][i] = "ACTIVE"

\* allocate_workspace_for_queue_item; a busy repository raises ValueError
\* through the node and through start_run.
AllocateWorkspace(r) ==
  /\ step[r] = "allocating" /\ ~ RepoBusy(r)
  /\ workspace' = [workspace EXCEPT ![r][item[r]] = "ACTIVE"]
  /\ queue' = [queue EXCEPT ![r] = UpdateItem(queue[r], item[r], "RUNNING")]
  /\ held' = [held EXCEPT ![r] = item[r]]
  /\ Goto(r, IF held[r] = NoTask THEN "activating" ELSE "dev")
  /\ UNCHANGED <<item, loops, allocated, cancelledAt>>

RepoRefused(r) ==
  /\ step[r] = "allocating" /\ RepoBusy(r)
  /\ Goto(r, "crashed")
  /\ UNCHANGED <<queue, item, workspace, held, loops, allocated, cancelledAt>>

-----------------------------------------------------------------------------
(* qa_validation.  The pipeline fails the first validation of a run and    *)
(* passes the others.                                                      *)
\* Wrong: a run may be sent back twice.
QaFailsTwice(r) ==
  /\ step[r] = "verdict" /\ loops[r] <= 1
  /\ Goto(r, "iterating")
  /\ UNCHANGED <<queue, item, workspace, held, loops, allocated, cancelledAt>>

\* Wrong: a failed validation releases the workspace.
QaFailsAndReleases(r) ==
  /\ step[r] = "verdict" /\ loops[r] = 0
  /\ workspace' = [workspace EXCEPT ![r][held[r]] = "RELEASED"]
  /\ Goto(r, "iterating")
  /\ UNCHANGED <<queue, item, held, loops, allocated, cancelledAt>>

QaFails(r) ==
  /\ step[r] = "verdict" /\ loops[r] = 0
  /\ Goto(r, "iterating")
  /\ UNCHANGED <<queue, item, workspace, held, loops, allocated, cancelledAt>>

\* Wrong: the iteration is not counted.
IterateUncounted(r) ==
  /\ step[r] = "iterating"
  /\ Goto(r, "dev")
  /\ UNCHANGED <<queue, item, workspace, held, loops, allocated, cancelledAt>>

Iterate(r) ==
  /\ step[r] = "iterating"
  /\ loops' = [loops EXCEPT ![r] = loops[r] + 1]
  /\ Goto(r, "dev")
  /\ UNCHANGED <<queue, item, workspace, held, allocated, cancelledAt>>

\* The workspace is released first ...
QaPasses(r) ==
  /\ step[r] = "verdict" /\ loops[r] > 0
  /\ workspace' = [workspace EXCEPT ![r][held[r]] = "RELEASED"]
  /\ Goto(r, "completing")
  /\ UNCHANGED <<queue, item, held, loops, allocated, cancelledAt>>

\* ... then the item is completed ...
CompleteItem(r) ==
  /\ step[r] = "completing"
  /\ queue' = [queue EXCEPT ![r] = UpdateItem(queue[r], item[r], "COMPLETED")]
  /\ Goto(r, "selecting")
  /\ UNCHANGED <<item, workspace, held, loops, allocated, cancelledAt>>

\* Wrong: the run goes on pointing at the item it has completed.
StartNextUnpointed(r) ==
  /\ step[r] = "selecting"
  /\ SelectNext(queue[r]) # NoTask
  /\ queue' = [queue EXCEPT ![r] =
                 UpdateItem(queue[r], SelectNext(queue[r]), "RUNNING")]
  /\ Goto(r, "allocating")
  /\ UNCHANGED <<item, workspace, held, loops, allocated, cancelledAt>>

\* ... and the next one started, which has to lock the repository again.
StartNext(r) ==
  /\ step[r] = "selecting"
  /\ SelectNext(queue[r]) # NoTask
  /\ item' = [item EXCEPT ![r] = SelectNext(queue[r])]
  /\ queue' = [queue EXCEPT ![r] =
                 UpdateItem(queue[r], SelectNext(queue[r]), "RUNNING")]
  /\ Goto(r, "allocating")
  /\ UNCHANGED <<workspace, held, loops, allocated, cancelledAt>>

NothingLeft(r) ==
  /\ step[r] = "selecting"
  /\ SelectNext(queue[r]) = NoTask
  /\ Goto(r, "closing")
  /\ UNCHANGED <<queue, item, workspace, held, loops, allocated, cancelledAt>>

\* workflow_completed and the tail of start_run: the registered state gets the
\* metadata of the final one, which knows of no cancellation.
FinishRun(r) ==
  /\ step[r] = "closing"
  /\ queue' = [queue EXCEPT ![r] = UpdateItem(queue[r], item[r], "COMPLETED")]
  /\ cancelledAt' = [cancelledAt EXCEPT ![r] = "never"]
  /\ Goto(r, "ended")
  /\ UNCHANGED <<item, workspace, held, loops, allocated>>

-----------------------------------------------------------------------------
\* An agent, the context loader or the Kilo client raises.  The finally of
\* execute_kilo_step gives the slot back only once the try is entered.
RunFails(r) ==
  /\ step[r] \in KiloStep \cup {"queueing", "verdict"}
  /\ Goto(r, "crashed")
  /\ \/ allocated' = [allocated EXCEPT ![r] = NoRole]
     \/ UNCHANGED allocated
  /\ UNCHANGED <<queue, item, workspace, held, loops, cancelledAt>>

Open(q) == {i \in Task : q.status[i] \notin {"COMPLETED", "CANCELLED", "ABSENT"}}

\* POST /supervisor/workflows/{id}/cancel works on the registered state.  The
\* graph works on copies of its metadata, so before start_run's tail the
\* registered metadata names no queue, no workspace and no allocation.
CancelWorkflow(r) ==
  /\ cancelledAt[r] = "never"
  /\ cancelledAt' = [cancelledAt EXCEPT ![r] = step[r]]
  /\ IF step[r] = "ended"
     THEN /\ workspace' = [workspace EXCEPT ![r][held[r]] = "RELEASED"]
          /\ queue' = [queue EXCEPT ![r].status =
                         [i \in Task |-> IF i \in Open(queue[r]) THEN "CANCELLED"
                                         ELSE queue[r].status[i]]]
     ELSE UNCHANGED <<workspace, queue>>
  /\ UNCHANGED <<step, item, held, loops, allocated>>

Forward(r) ==
  \/ SlotGranted(r) \/ SlotNotGranted(r) \/ ReleaseSlot(r)
  \/ \E n \in Task : QueueTasks(r, n)
  \/ AllocateWorkspace(r) \/ RepoRefused(r)
  \/ QaFails(r) \/ Iterate(r) \/ QaPasses(r) \/ CompleteItem(r)
  \/ StartNext(r) \/ NothingLeft(r) \/ FinishRun(r)

Next == \E r \in Runs : Forward(r) \/ RunFails(r) \/ CancelWorkflow(r)

Spec == Init /\ [][Next]_vars

\* No step waits for another run, so a scheduled thread always goes forward.
FairSpec == Spec /\ \A r \in Runs : WF_vars(Forward(r))

-----------------------------------------------------------------------------
\* Type invariant of the runs and the shared registries.
TypeOK ==
  /\ step \in [Runs -> Step]
  /\ queue \in [Runs -> Queue]
  /\ item \in [Runs -> Task \cup {NoTask}]
  /\ workspace \in [Runs -> [Task -> {"NONE", "ACTIVE", "RELEASED"}]]
  /\ held \in [Runs -> Task \cup {NoTask}]
  /\ loops \in [Runs -> 0..1]
  /\ allocated \in [Runs -> Role \cup {NoRole}]
  /\ cancelledAt \in [Runs -> Step \cup {"never"}]

\* Two runs never work on the same repository at the same time, whatever
\* crashes, skips and releases lie between them.
OneRunPerRepo ==
  \A q, r \in Runs : /\ step[q] \in Working /\ step[r] \in Working
                     /\ RepoOf[q] = RepoOf[r]
                     => q = r

\* The run that works on a task works on the item its queue points at, in the
\* workspace allocated for that item, and every package before it is done.
WorksOnItsItem ==
  \A r \in Runs : step[r] \in Working =>
    /\ held[r] = item[r] /\ workspace[r][item[r]] = "ACTIVE"
    /\ DependenciesCompleted(queue[r], item[r])

\* A run ends with all its tasks COMPLETED, even those whose executions were
\* skipped, and leaves no workspace, lock or slot behind.
EndedLeavesNothing ==
  \A r \in Runs : step[r] = "ended" =>
    /\ Unfinished(queue[r]) = {} /\ allocated[r] = NoRole
    /\ \A i \in Task : workspace[r][i] # "ACTIVE"

\* What whole runs make of the locks: a repository is reserved for one run, and
\* given back before another gets it, though every package of every run takes
\* and returns it and crashed runs keep it (allocate_workspace_for_queue_item,
\* release_current_workspace).
Holders(p) ==
  {r \in Runs : RepoOf[r] = p /\ \E i \in Task : workspace[r][i] = "ACTIVE"}
Owner(p) == IF Holders(p) = {} THEN NoRun ELSE CHOOSE r \in Holders(p) : TRUE

Mutex == INSTANCE RepoMutex WITH
           Items <- Runs, NoItem <- NoRun, owner <- [p \in Repos |-> Owner(p)]

ImplementsRepoMutex == Mutex!Spec

\* The runs do not wait for each other: each ends or crashes.
RunsEnd == \A r \in Runs : <>(step[r] \in Over)

\* A run that is cancelled after its thread is gone holds nothing (README:
\* "cancelacion explicita de workflow con liberacion de locks, workspace y
\* allocation").
CancelReleases ==
  \A r \in Runs : cancelledAt[r] = "crashed" =>
    /\ allocated[r] = NoRole
    /\ \A i \in Task : workspace[r][i] # "ACTIVE"
=============================================================================
