------------------------------ MODULE QueueOps ------------------------------
(***************************************************************************)
(* The values and pure operations of the task queue registry               *)
(* (packages/queue/lummevia_queue).  A queue is a record of three          *)
(* functions over the task numbers: task i is the i-th item that           *)
(* add_item() appended, so the order of the numbers is the order of        *)
(* created_at, the scheduler's tie breaker.                                *)
(***************************************************************************)
EXTENDS Integers

CONSTANT MaxItems      \* bound on the items of one queue

ASSUME MaxItemsAssumption == MaxItems \in Nat \ {0}

Task == 1..MaxItems

NoTask == 0            \* None, where the code returns no item

\* TaskPriority through queue_priority_weight: CRITICAL 0, HIGH 1, NORMAL 2, LOW 3.
Weight == 0..3

\* Statuses that _refresh_queue leaves alone.
Settled == {"RUNNING", "COMPLETED", "FAILED", "CANCELLED"}

\* "ABSENT" is a task that has not been added.
ItemStatus == Settled \cup {"QUEUED", "READY", "BLOCKED", "ABSENT"}

Queue == [status : [Task -> ItemStatus],
          deps   : [Task -> SUBSET Task],
          weight : [Task -> Weight]]

EmptyQueue == [status |-> [i \in Task |-> "ABSENT"],
               deps   |-> [i \in Task |-> {}],
               weight |-> [i \in Task |-> 2]]

SomeRunning(q) == \E i \in Task : q.status[i] = "RUNNING"

\* A dependency on a task that is not in the queue never completes.
DependenciesCompleted(q, i) == \A d \in q.deps[i] : q.status[d] = "COMPLETED"

\* Wrong: an unmet dependency gives the allocation's status, not the queue's.
RefreshedStatusWaiting(q, i) ==
  IF q.status[i] \in Settled \cup {"ABSENT"} THEN q.status[i]
  ELSE IF ~ DependenciesCompleted(q, i) THEN "WAITING" ELSE "READY"

\* Wrong: dependencies are not looked at.
RefreshedStatusIgnoresDeps(q, i) ==
  IF q.status[i] \in Settled \cup {"ABSENT"} THEN q.status[i]
  ELSE IF SomeRunning(q) /\ q.status[i] # "READY" THEN "QUEUED" ELSE "READY"

\* Wrong: the refresh starts what is ready by itself.
RefreshedStatusStarts(q, i) ==
  IF q.status[i] \in Settled \cup {"ABSENT"} THEN q.status[i]
  ELSE IF ~ DependenciesCompleted(q, i) THEN "BLOCKED"
  ELSE IF SomeRunning(q) THEN "QUEUED" ELSE "RUNNING"

\* Wrong: a BLOCKED item is settled.
RefreshedStatusKeepsBlocked(q, i) ==
  IF q.status[i] \in Settled \cup {"ABSENT", "BLOCKED"} THEN q.status[i]
  ELSE IF ~ DependenciesCompleted(q, i) THEN "BLOCKED"
  ELSE IF SomeRunning(q) /\ q.status[i] # "READY" THEN "QUEUED" ELSE "READY"

RefreshedStatus(q, i) ==
  IF q.status[i] \in Settled \cup {"ABSENT"} THEN q.status[i]
  ELSE IF ~ DependenciesCompleted(q, i) THEN "BLOCKED"
  ELSE IF SomeRunning(q) /\ q.status[i] # "READY" THEN "QUEUED"
  ELSE "READY"

\* _refresh_queue: one pass over the items, each decided from the old statuses.
Refresh(q) == [q EXCEPT !.status = [i \in Task |-> RefreshedStatus(q, i)]]

Present(q, i) == i # NoTask /\ q.status[i] # "ABSENT"

WithStatus(q, i, s) ==
  [q EXCEPT !.status = [j \in Task |-> IF j = i /\ Present(q, i)
                                       THEN s ELSE q.status[j]]]

\* Wrong: stored without the refresh, so that nothing is unblocked.
UpdateItemUnrefreshed(q, i, s) == WithStatus(q, i, s)

\* update_item_status and mark_completed: any status, whatever it was before.
\* The refreshed queue is stored before the lookup of the item can fail.
UpdateItem(q, i, s) == Refresh(WithStatus(q, i, s))

WithItem(q, i, d, w) == [status |-> [q.status EXCEPT ![i] = "QUEUED"],
                         deps   |-> [q.deps EXCEPT ![i] = d],
                         weight |-> [q.weight EXCEPT ![i] = w]]

\* Wrong: stored without the refresh.
AddItemUnrefreshed(q, i, d, w) == WithItem(q, i, d, w)

AddItem(q, i, d, w) == Refresh(WithItem(q, i, d, w))

\* Wrong: a completed item is started again.
ReadyOrCompletedItems(q) == {i \in Task : q.status[i] \in {"READY", "COMPLETED"}}

\* Wrong: a blocked item is started.
ReadyOrBlockedItems(q) == {i \in Task : q.status[i] \in {"READY", "BLOCKED"}}

ReadyItems(q) == {i \in Task : q.status[i] = "READY"}

\* The scheduler's sort key: priority weight, then age.
Before(q, i, j) == \/ q.weight[i] < q.weight[j]
                   \/ q.weight[i] = q.weight[j] /\ i <= j

\* Wrong: the oldest ready item, whatever its priority.
SelectOldest(q) ==
  IF SomeRunning(q) \/ ReadyItems(q) = {} THEN NoTask
  ELSE CHOOSE i \in ReadyItems(q) : \A j \in ReadyItems(q) : i <= j

\* TaskQueueScheduler.select_next_item.
SelectNext(q) ==
  IF SomeRunning(q) \/ ReadyItems(q) = {} THEN NoTask
  ELSE CHOOSE i \in ReadyItems(q) : \A j \in ReadyItems(q) : Before(q, i, j)

\* Wrong: the run keeps pointing at the item it pointed at.
CurrentItemKept(q, previous) ==
  IF Present(q, previous) THEN previous
  ELSE IF SomeRunning(q) THEN CHOOSE i \in Task : q.status[i] = "RUNNING"
  ELSE NoTask

\* sync_task_queue_state's current item: the first RUNNING one in list order,
\* otherwise the item the run already pointed at, if it is still there.
CurrentItem(q, previous) ==
  IF SomeRunning(q)
  THEN CHOOSE i \in Task : /\ q.status[i] = "RUNNING"
                           /\ \A j \in Task : q.status[j] = "RUNNING" => i <= j
  ELSE IF Present(q, previous) THEN previous ELSE NoTask

Unfinished(q) == {i \in Task : q.status[i] \notin {"COMPLETED", "ABSENT"}}
=============================================================================
