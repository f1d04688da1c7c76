------------------------------ MODULE TaskQueue -----------------------------
(***************************************************************************)
(* One task queue of the TaskQueueRegistry, the run that works through it  *)
(* (runtime/queue.py, nodes/qa.py, the tail of start_run) and the API      *)
(* threads that read it (routes/queues.py).                                *)
(*                                                                         *)
(* The registry has no lock.  get_queue() reads the stored queue,          *)
(* refreshes it and stores the result, so a reader is a read-modify-write  *)
(* that a thread switch can cut in two: ReaderFetch and ReaderStore.  The  *)
(* run's own registry calls are single steps: the readers are the only     *)
(* other writers while it runs, and a reader's store that falls inside one *)
(* of the run's calls is overwritten, which is the behaviour in which that *)
(* reader never stores.                                                    *)
(***************************************************************************)
EXTENDS QueueOps

CONSTANT Readers       \* API threads that call GET /queues...

NoQueue == [status |-> "none"]

VARIABLES
  store,       \* TaskQueueRegistry._queues[queue_id]
  size,        \* len(queue.items)
  phase,       \* where the run is in its program
  chosen,      \* the item select_next_item returned and start_next_item will start
  current,     \* metadata["current_queue_item_id"]
  package,     \* artifacts.current_task_package, the task DEV and QA work on
  validated,   \* task packages whose status is "validated"
  fetched      \* per reader, the queue it has read and not stored yet

vars == <<store, size, phase, chosen, current, package, validated, fetched>>
runVars == <<size, phase, chosen, current, package, validated>>

Phase == {"adding", "selecting", "starting", "allocating", "working",
          "finishing", "ended", "crashed"}

Init ==
  /\ store = EmptyQueue
  /\ size = 0
  /\ phase = "adding"
  /\ chosen = NoTask
  /\ current = NoTask
  /\ package = NoTask
  /\ validated = {}
  /\ fetched = [r \in Readers |-> NoQueue]

-----------------------------------------------------------------------------
(* initialize_task_queue adds the packages of the plan one by one.  The    *)
(* plan lets a package depend on earlier packages only.                    *)
AddTask(d, w) ==
  /\ phase = "adding"
  /\ size < MaxItems
  /\ d \subseteq 1..size
  /\ store' = AddItem(store, size + 1, d, w)
  /\ size' = size + 1
  /\ UNCHANGED <<phase, chosen, current, package, validated, fetched>>

PlanComplete ==
  /\ phase = "adding"
  /\ size > 0
  /\ current' = CurrentItem(store, current)
  /\ phase' = "selecting"
  /\ UNCHANGED <<store, size, chosen, package, validated, fetched>>

\* start_next_ready_task, first half: select_next_item reads the queue.
\* With nothing to start a run that has a package sets workflow_completed; a
\* run that has just planned works on the first package all the same.
SelectItem ==
  /\ phase = "selecting"
  /\ chosen' = SelectNext(store)
  /\ \/ /\ chosen' # NoTask
        /\ phase' = "starting"
        /\ UNCHANGED <<current, package>>
     \/ /\ chosen' = NoTask
        /\ phase' = IF package = NoTask THEN "working" ELSE "finishing"
        /\ current' = CurrentItem(store, current)
        /\ package' = IF package = NoTask THEN 1 ELSE package
  /\ UNCHANGED <<store, size, validated, fetched>>

\* update_item_status(item, s) by the run; next() over the stored items
\* raises StopIteration, and ends the run, if the item is not there.
Update(i, s, nextPhase) ==
  /\ store' = UpdateItem(store, i, s)
  /\ phase' = IF Present(store, i) THEN nextPhase ELSE "crashed"

\* Second half: the item chosen earlier is set RUNNING whatever it is by now.
StartItem ==
  /\ phase = "starting"
  /\ Update(chosen, "RUNNING", "allocating")
  /\ UNCHANGED <<size, chosen, current, package, validated, fetched>>

\* allocate_workspace_for_queue_item writes the started item's status again
\* with the workspace metadata, then the run syncs and takes the package.
AllocateWorkspace ==
  /\ phase = "allocating"
  /\ Update(chosen, "RUNNING", "working")
  /\ current' = CurrentItem(store', current)
  /\ package' = chosen
  /\ UNCHANGED <<size, chosen, validated, fetched>>

\* mark_task_waiting_for_allocation: BLOCKED when the capacity is WAITING,
\* QUEUED when it is DENIED; the refresh in the same call decides again.
AllocationNotGranted(s) ==
  /\ phase = "working"
  /\ current # NoTask
  /\ Update(current, s, "working")
  /\ UNCHANGED <<size, chosen, current, package, validated, fetched>>

\* QA passed: mark_current_queue_item_completed and its sync.
CompleteItem ==
  /\ phase = "working"
  /\ validated' = validated \cup {package}
  /\ IF current = NoTask
     THEN phase' = "selecting" /\ UNCHANGED <<store, current>>
     ELSE /\ Update(current, "COMPLETED", "selecting")
          /\ current' = CurrentItem(store', current)
  /\ UNCHANGED <<size, chosen, package, fetched>>

\* The tail of start_run completes the current item of a COMPLETED run.
FinishRun ==
  /\ phase = "finishing"
  /\ store' = IF Present(store, current) /\ store.status[current] # "COMPLETED"
              THEN UpdateItem(store, current, "COMPLETED")
              ELSE store
  /\ current' = CurrentItem(store', current)
  /\ phase' = "ended"
  /\ UNCHANGED <<size, chosen, package, validated, fetched>>

Run ==
  \/ \E d \in SUBSET Task, w \in Weight : AddTask(d, w)
  \/ PlanComplete
  \/ SelectItem
  \/ StartItem
  \/ AllocateWorkspace
  \/ \E s \in {"BLOCKED", "QUEUED"} : AllocationNotGranted(s)
  \/ CompleteItem
  \/ FinishRun

-----------------------------------------------------------------------------
ReaderFetch(r) ==
  /\ fetched[r] = NoQueue
  /\ fetched' = [fetched EXCEPT ![r] = store]
  /\ UNCHANGED <<store, runVars>>

ReaderStore(r) ==
  /\ fetched[r] # NoQueue
  /\ store' = Refresh(fetched[r])
  /\ fetched' = [fetched EXCEPT ![r] = NoQueue]
  /\ UNCHANGED runVars

Next == Run \/ \E r \in Readers : ReaderFetch(r) \/ ReaderStore(r)

Spec == Init /\ [][Next]_vars

\* The steps by which the run's thread goes forward; a thread is scheduled
\* again as long as it has something to do.
Forward == \/ \E d \in SUBSET Task, w \in Weight : AddTask(d, w)
           \/ PlanComplete \/ SelectItem \/ StartItem \/ AllocateWorkspace
           \/ CompleteItem \/ FinishRun

FairSpec == Spec /\ WF_vars(Forward)

-----------------------------------------------------------------------------
\* Type invariant of the queue, the run's registers and the readers.
TypeOK ==
  /\ store \in Queue
  /\ size \in 0..MaxItems
  /\ phase \in Phase
  /\ chosen \in Task \cup {NoTask}
  /\ current \in Task \cup {NoTask}
  /\ package \in Task \cup {NoTask}
  /\ validated \subseteq Task \cup {NoTask}
  /\ fetched \in [Readers -> Queue \cup {NoQueue}]

\* Every stored version of the queue is a fixed point of _refresh_queue, with
\* any number of racing readers: an item is READY only after its dependencies,
\* and no unblocked item is left waiting when nothing runs (no lost wakeup).
StoredQueueIsRefreshed == Refresh(store) = store

\* While nothing but the run writes: a task that runs, is ready or is
\* completed has every dependency completed.
DependenciesFirst ==
  \A i \in Task : store.status[i] \in {"READY", "RUNNING", "COMPLETED"}
                    => DependenciesCompleted(store, i)

\* At most one item of the queue is active (README: "un solo TaskQueueItem
\* activo por queue").
OneActiveItem ==
  \A i, j \in Task : store.status[i] = "RUNNING" /\ store.status[j] = "RUNNING"
                       => i = j

\* The queue and the artifacts agree: outside the start of an item, exactly
\* the packages QA validated are COMPLETED.
CompletedIffValidated ==
  {i \in Task : store.status[i] = "COMPLETED"} = validated

\* A run ends with every task of its plan COMPLETED.
EndedMeansAllCompleted == phase = "ended" => Unfinished(store) = {}

\* An item starts only if no other startable item is more urgent, or as
\* urgent and older, at the moment it starts.
StartsMostUrgent ==
  [][\A i \in Task : store.status[i] # "RUNNING" /\ store'.status[i] = "RUNNING"
       => \A j \in Task : store.status[j] = "READY" => Before(store, i, j)]_vars

\* The run's thread reaches its end from every plan.
RunEnds == <>(phase = "ended")

\* The run with its queue, undisturbed, implements a sequential plan: one
\* package at a time, after its dependencies, exactly once, all before the end.
Contract ==
  INSTANCE SequentialPlan WITH
    planned <- {i \in Task : store.status[i] # "ABSENT"},
    needs   <- store.deps,
    active  <- IF phase \in {"allocating", "working"} THEN chosen ELSE NoTask,
    done    <- validated,
    closed  <- phase = "ended"

ImplementsSequentialPlan == Contract!Spec
=============================================================================
