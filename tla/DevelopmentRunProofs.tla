------------------------ MODULE DevelopmentRunProofs ------------------------
(***************************************************************************)
(* Theorems about DevelopmentRun for any runs, repositories and length of  *)
(* a plan: runs exclude each other, work on the item they point at, and    *)
(* leave nothing behind.                                                   *)
(***************************************************************************)
EXTENDS DevelopmentRun, TLAPS

-----------------------------------------------------------------------------
(* The queue of a chain of n packages whose c-th is the current one.       *)

\* Everything before the current item is COMPLETED; of what comes after it the
\* next item is READY once the current one is COMPLETED.
Chain(q, n, c) ==
  /\ c \in Task /\ c <= n
  /\ \A i \in Task : /\ q.deps[i] = (IF i <= n THEN 1..(i - 1) ELSE {})
                     /\ i > n => q.status[i] = "ABSENT"
                     /\ i < c => q.status[i] = "COMPLETED"
                     /\ i > c /\ i <= n => q.status[i] =
                          IF i = c + 1 /\ q.status[c] = "COMPLETED" THEN "READY"
                          ELSE "BLOCKED"

Started == {"RUNNING", "READY"}

LEMMA TaskType == /\ Task \subseteq Nat /\ NoTask \notin Task
                  /\ \A i \in Task : 1 <= i /\ i <= MaxItems
                  /\ MaxItems \in Nat /\ \A i \in Nat : 1 <= i /\ i <= MaxItems => i \in Task
  BY MaxItemsAssumption DEF Task, NoTask

\* What update_item_status makes of a status: all fields of the queue.
LEMMA UpdateItemFields ==
  ASSUME NEW q \in Queue, NEW c \in Task, NEW s \in ItemStatus
  PROVE  /\ UpdateItem(q, c, s) \in Queue
         /\ UpdateItem(q, c, s).deps = q.deps
         /\ UpdateItem(q, c, s).weight = q.weight
         /\ \A i \in Task : UpdateItem(q, c, s).status[i]
                              = RefreshedStatus(WithStatus(q, c, s), i)
<1> DEFINE p == WithStatus(q, c, s)
<1>1. /\ p \in Queue /\ p.deps = q.deps /\ p.weight = q.weight
  BY DEF WithStatus, Queue, Present
<1>2. \A i \in Task : RefreshedStatus(p, i) \in ItemStatus
  BY <1>1 DEF RefreshedStatus, Queue, ItemStatus, Settled
<1> HIDE DEF p
<1>3. /\ Refresh(p) \in Queue /\ Refresh(p).deps = p.deps /\ Refresh(p).weight = p.weight
      /\ \A i \in Task : Refresh(p).status[i] = RefreshedStatus(p, i)
  BY <1>1, <1>2 DEF Refresh, Queue
<1> QED BY <1>1, <1>3 DEF UpdateItem, p

\* The update of an item that is not there is only a refresh.
LEMMA AnyUpdateTyped ==
  ASSUME NEW q \in Queue, NEW c \in Task \cup {NoTask}, NEW s \in ItemStatus
  PROVE  UpdateItem(q, c, s) \in Queue
<1> DEFINE p == WithStatus(q, c, s)
<1>1. p \in Queue
  BY DEF WithStatus, Queue, Present
<1>2. \A i \in Task : RefreshedStatus(p, i) \in ItemStatus
  BY <1>1 DEF RefreshedStatus, Queue, ItemStatus, Settled
<1> HIDE DEF p
<1>3. Refresh(p) \in Queue
  BY <1>1, <1>2 DEF Refresh, Queue
<1> QED BY <1>3 DEF UpdateItem, p

LEMMA WithStatusFields ==
  ASSUME NEW q \in Queue, NEW c \in Task, NEW s \in ItemStatus, q.status[c] # "ABSENT"
  PROVE  /\ WithStatus(q, c, s).deps = q.deps
         /\ WithStatus(q, c, s).status[c] = s
         /\ \A i \in Task \ {c} : WithStatus(q, c, s).status[i] = q.status[i]
  BY TaskType DEF WithStatus, Queue, Present

\* The current item is started, skipped or completed: the queue stays a chain.
LEMMA UpdateCurrent ==
  ASSUME NEW q \in Queue, NEW n \in Task, NEW c \in Task, Chain(q, n, c),
         q.status[c] # "ABSENT",
         NEW s \in {"RUNNING", "COMPLETED", "BLOCKED"}
  PROVE  /\ UpdateItem(q, c, s) \in Queue
         /\ Chain(UpdateItem(q, c, s), n, c)
         /\ UpdateItem(q, c, s).status[c] = IF s = "BLOCKED" THEN "READY" ELSE s
<1> DEFINE p == WithStatus(q, c, s)
           u == UpdateItem(q, c, s)
<1>1. s \in ItemStatus
  BY DEF ItemStatus, Settled
<1>2. /\ u \in Queue /\ u.deps = q.deps
      /\ \A i \in Task : u.status[i] = RefreshedStatus(p, i)
  BY <1>1, UpdateItemFields
<1>3. /\ p.deps = q.deps /\ p.status[c] = s
      /\ \A i \in Task \ {c} : p.status[i] = q.status[i]
  BY <1>1, WithStatusFields
<1> HIDE DEF p, u
<1>4. SomeRunning(p) => s = "RUNNING"
  BY <1>3, TaskType DEF SomeRunning, Chain
<1>5. DependenciesCompleted(p, c)
  BY <1>3, TaskType DEF DependenciesCompleted, Chain
<1>6. u.status[c] = IF s = "BLOCKED" THEN "READY" ELSE s
  BY <1>2, <1>3, <1>4, <1>5 DEF RefreshedStatus, Settled
<1>7. ASSUME NEW i \in Task, i < c PROVE u.status[i] = "COMPLETED"
  BY <1>2, <1>3, <1>7, TaskType DEF RefreshedStatus, Settled, Chain
<1>8. ASSUME NEW i \in Task, i > n PROVE u.status[i] = "ABSENT"
  BY <1>2, <1>3, <1>8, TaskType DEF RefreshedStatus, Settled, Chain
<1>9. ASSUME NEW i \in Task, i > c, i <= n
      PROVE  u.status[i] = IF i = c + 1 /\ s = "COMPLETED" THEN "READY" ELSE "BLOCKED"
  <2>1. p.status[i] \in {"READY", "BLOCKED"}
    BY <1>3, <1>9, TaskType DEF Chain
  <2>2. p.deps[i] = 1..(i - 1)
    BY <1>3, <1>9 DEF Chain
  <2>3. CASE i = c + 1 /\ s = "COMPLETED"
    <3>1. DependenciesCompleted(p, i)
      BY <1>3, <1>9, <2>2, <2>3, TaskType DEF DependenciesCompleted, Chain
    <3> QED BY <1>2, <1>4, <2>1, <2>3, <3>1 DEF RefreshedStatus, Settled
  <2>4. CASE ~ (i = c + 1 /\ s = "COMPLETED")
    <3>1. PICK d \in 1..(i - 1) : p.status[d] # "COMPLETED"
      <4>1. CASE s # "COMPLETED"
        BY <1>3, <1>9, <4>1, TaskType
      <4>2. CASE i # c + 1
        <5>1. c + 1 \in 1..(i - 1) /\ c + 1 \in Task /\ c + 1 > c /\ c + 1 <= n
          BY <1>9, <4>2, TaskType
        <5>2. q.status[c + 1] \in {"READY", "BLOCKED"}
          <6> DEFINE d == c + 1
          <6>1. d \in Task /\ d > c /\ d <= n
            BY <5>1
          <6> HIDE DEF d
          <6>2. q.status[d] \in {"READY", "BLOCKED"}
            BY <6>1 DEF Chain
          <6> QED BY <6>2 DEF d
        <5> QED BY <1>3, <5>1, <5>2, TaskType
      <4> QED BY <2>4, <4>1, <4>2
    <3>2. ~ DependenciesCompleted(p, i)
      BY <2>2, <3>1 DEF DependenciesCompleted
    <3> QED BY <1>2, <2>1, <2>4, <3>2 DEF RefreshedStatus, Settled
  <2> QED BY <2>3, <2>4
<1>10. Chain(u, n, c)
  BY <1>2, <1>6, <1>7, <1>8, <1>9 DEF Chain
<1> QED BY <1>2, <1>6, <1>10 DEF u

\* No item but the current one is RUNNING, and only the next can be READY.
LEMMA OnlyCurrentRuns ==
  ASSUME NEW q, NEW n \in Task, NEW c \in Task, Chain(q, n, c), NEW i \in Task
  PROVE  /\ q.status[i] = "RUNNING" => i = c
         /\ i # c => (q.status[i] = "READY"
                      <=> i = c + 1 /\ c < n /\ q.status[c] = "COMPLETED")
<1>1. CASE i < c
  <2>1. q.status[i] = "COMPLETED"
    BY <1>1 DEF Chain
  <2>2. c \in Nat /\ n \in Nat /\ i \in Nat /\ i # c + 1
    BY <1>1, TaskType
  <2> QED BY <2>1, <2>2
<1>2. CASE i > n
  <2>1. q.status[i] = "ABSENT"
    BY <1>2 DEF Chain
  <2>2. c \in Nat /\ n \in Nat /\ i \in Nat /\ ~ (i = c + 1 /\ c < n)
    BY <1>2, TaskType
  <2> QED BY <1>2, <2>1, <2>2
<1>3. CASE i > c /\ i <= n
  <2>1. q.status[i] = IF i = c + 1 /\ q.status[c] = "COMPLETED" THEN "READY"
                      ELSE "BLOCKED"
    BY <1>3 DEF Chain
  <2> QED BY <1>3, <2>1, TaskType
<1> QED BY <1>1, <1>2, <1>3, TaskType

\* With the current item COMPLETED the scheduler chooses the next one, if any.
LEMMA SelectAfterCompleted ==
  ASSUME NEW q \in Queue, NEW n \in Task, NEW c \in Task, Chain(q, n, c),
         q.status[c] = "COMPLETED"
  PROVE  SelectNext(q) = IF c < n THEN c + 1 ELSE NoTask
<1>1. ~ SomeRunning(q)
  BY OnlyCurrentRuns DEF SomeRunning
<1>2. ReadyItems(q) = IF c < n THEN {c + 1} ELSE {}
  <2>1. ASSUME NEW i \in Task PROVE q.status[i] = "READY" <=> i = c + 1 /\ c < n
    <3>1. CASE i = c
      BY <3>1, TaskType
    <3>2. CASE i # c
      BY <3>2, OnlyCurrentRuns
    <3> QED BY <3>1, <3>2
  <2>2. CASE c < n
    <3>1. c + 1 \in Task
      BY <2>2, TaskType
    <3> QED BY <2>1, <2>2, <3>1 DEF ReadyItems
  <2>3. CASE ~ (c < n)
    BY <2>1, <2>3 DEF ReadyItems
  <2> QED BY <2>2, <2>3
<1>3. CASE c < n
  <2>1. \A i \in {c + 1} : \A j \in {c + 1} : Before(q, i, j)
    BY TaskType DEF Before, Queue, Weight
  <2> QED BY <1>1, <1>2, <1>3, <2>1 DEF SelectNext
<1> QED BY <1>1, <1>2, <1>3 DEF SelectNext

\* Starting the next item makes it the current one.
LEMMA UpdateNext ==
  ASSUME NEW q \in Queue, NEW n \in Task, NEW c \in Task, Chain(q, n, c),
         q.status[c] = "COMPLETED", c < n
  PROVE  /\ UpdateItem(q, c + 1, "RUNNING") \in Queue
         /\ Chain(UpdateItem(q, c + 1, "RUNNING"), n, c + 1)
         /\ UpdateItem(q, c + 1, "RUNNING").status[c + 1] = "RUNNING"
<1>1. c + 1 \in Task /\ c + 1 <= n
  BY TaskType
<1>2. Chain(q, n, c + 1)
  BY <1>1, TaskType DEF Chain
<1>3. q.status[c + 1] # "ABSENT"
  BY <1>1, TaskType DEF Chain
<1> QED BY <1>1, <1>2, <1>3, UpdateCurrent

\* The plan as it is queued, with its first item started.
LEMMA PlannedChain ==
  ASSUME NEW n \in Task
  PROVE  /\ PlannedQueue(n) \in Queue
         /\ SelectNext(PlannedQueue(n)) = 1
         /\ Chain(PlannedQueue(n), n, 1)
         /\ PlannedQueue(n).status[1] = "READY"
<1> DEFINE p == [status |-> [i \in Task |-> IF i <= n THEN "QUEUED" ELSE "ABSENT"],
                 deps   |-> [i \in Task |-> IF i <= n THEN 1..(i - 1) ELSE {}],
                 weight |-> [i \in Task |-> IF i = 1 THEN 1 ELSE 2]]
           q == PlannedQueue(n)
<1>0. 1 \in Task /\ 1 <= n
  BY TaskType
<1>1. p \in Queue
  BY TaskType DEF Queue, ItemStatus, Weight, Task
<1>2. /\ \A i \in Task : p.status[i] = IF i <= n THEN "QUEUED" ELSE "ABSENT"
      /\ \A i \in Task : p.deps[i] = IF i <= n THEN 1..(i - 1) ELSE {}
  OBVIOUS
<1>a. q = Refresh(p)
  BY DEF PlannedQueue
<1> HIDE DEF p, q
<1>3. \A i \in Task : RefreshedStatus(p, i) \in ItemStatus
  BY <1>1 DEF RefreshedStatus, Queue, ItemStatus, Settled
<1>4. /\ q \in Queue /\ q.deps = p.deps
      /\ \A i \in Task : q.status[i] = RefreshedStatus(p, i)
  BY <1>1, <1>3, <1>a DEF Refresh, Queue
<1>5. ~ SomeRunning(p)
  BY <1>2 DEF SomeRunning
<1>6. q.status[1] = "READY"
  BY <1>0, <1>2, <1>4, <1>5, TaskType
     DEF RefreshedStatus, Settled, DependenciesCompleted
<1>7. \A i \in Task : i > n => q.status[i] = "ABSENT"
  BY <1>2, <1>4, TaskType DEF RefreshedStatus, Settled
<1>8. ASSUME NEW i \in Task, i > 1, i <= n PROVE q.status[i] = "BLOCKED"
  <2>1. 1 \in p.deps[i] /\ p.status[1] # "COMPLETED"
    BY <1>0, <1>2, <1>8, TaskType
  <2> QED BY <1>2, <1>4, <1>8, <2>1 DEF RefreshedStatus, Settled, DependenciesCompleted
<1>9. Chain(q, n, 1)
  BY <1>0, <1>2, <1>4, <1>6, <1>7, <1>8, TaskType DEF Chain
<1>10. ReadyItems(q) = {1} /\ ~ SomeRunning(q)
  BY <1>0, <1>6, <1>9, OnlyCurrentRuns DEF ReadyItems, SomeRunning
<1>11. SelectNext(q) = 1
  BY <1>4, <1>10, <1>0 DEF SelectNext, Before, Queue, Weight
<1> QED BY <1>4, <1>6, <1>9, <1>11 DEF q

-----------------------------------------------------------------------------
(* The runs. *)
Queued == Step \ {"planning", "queueing", "crashed"}
ItemDone == {"selecting", "closing", "ended"}
Closed == {"closing", "ended"}

\* What the queue of a run looks like at its step.
QueueInv(r) ==
  step[r] \in Queued =>
    \E n \in Task :
      /\ Chain(queue[r], n, item[r])
      /\ queue[r].status[item[r]] # "ABSENT"
      /\ step[r] \in ItemDone => queue[r].status[item[r]] = "COMPLETED"
      /\ step[r] \in Closed => item[r] = n

\* Only a run that works, or that crashed, has an ACTIVE workspace: that of the
\* item it points at.
WorkspaceInv(r) ==
  /\ step[r] \in Working => held[r] = item[r] /\ workspace[r][held[r]] = "ACTIVE"
  /\ \A i \in Task : workspace[r][i] = "ACTIVE" =>
       i = held[r] /\ step[r] \in Working \cup {"crashed"}
  /\ step[r] \in ItemDone \cup {"completing"} => held[r] = item[r]

SlotInv(r) == allocated[r] # NoRole => step[r] \in KiloStep \cup {"crashed"}

LoopInv(r) == step[r] = "iterating" => loops[r] = 0

\* Active workspaces of different runs are of different repositories.
Exclusive ==
  \A q, r \in Runs : \A i, j \in Task :
    /\ workspace[q][i] = "ACTIVE" /\ workspace[r][j] = "ACTIVE"
    /\ RepoOf[q] = RepoOf[r]
    => q = r

RunInv ==
  /\ TypeOK
  /\ \A r \in Runs : QueueInv(r) /\ WorkspaceInv(r) /\ SlotInv(r) /\ LoopInv(r)
  /\ Exclusive

LEMMA RunInvInit == Init => RunInv
  BY TaskType DEF Init, RunInv, TypeOK, QueueInv, WorkspaceInv, SlotInv, LoopInv, Exclusive,
     Queued, Step, KiloStep, KiloRole, Over, Working, ItemDone, Closed, EmptyQueue, Queue,
     ItemStatus, Settled, Weight, Role, NoRole, NoTask

\* The other runs keep what they know of themselves.
LEMMA OthersKeep ==
  ASSUME RunInv, NEW r \in Runs, NEW q \in Runs \ {r},
         step'[q] = step[q], queue'[q] = queue[q], item'[q] = item[q],
         workspace'[q] = workspace[q], held'[q] = held[q], loops'[q] = loops[q],
         allocated'[q] = allocated[q]
  PROVE  (QueueInv(q) /\ WorkspaceInv(q) /\ SlotInv(q) /\ LoopInv(q))'
  BY DEF RunInv, QueueInv, WorkspaceInv, SlotInv, LoopInv

LEMMA StepSets ==
  /\ KiloStep = {"planning", "activating", "dev", "qa"}
  /\ Working = {"activating", "dev", "qa", "verdict", "iterating"}
  /\ Queued = {"activating", "dev", "qa", "allocating", "verdict", "iterating",
               "completing", "selecting", "closing", "ended"}
  /\ Step = Queued \cup {"planning", "queueing", "crashed"}
  /\ \A s \in KiloStep : AfterKilo[s] \in Step /\ KiloRole[s] \in Role
  /\ AfterKilo["planning"] = "queueing" /\ AfterKilo["activating"] = "dev"
  /\ AfterKilo["dev"] = "qa" /\ AfterKilo["qa"] = "verdict"
  BY DEF KiloStep, KiloRole, AfterKilo, Working, Queued, Step, Over, Role

\* It is enough to look at the run that takes the step, and at repositories.
LEMMA StepOfRun ==
  ASSUME RunInv, NEW r \in Runs, TypeOK',
         \A q \in Runs \ {r} :
           /\ step'[q] = step[q] /\ queue'[q] = queue[q] /\ item'[q] = item[q]
           /\ workspace'[q] = workspace[q] /\ held'[q] = held[q]
           /\ loops'[q] = loops[q] /\ allocated'[q] = allocated[q],
         (QueueInv(r) /\ WorkspaceInv(r) /\ SlotInv(r) /\ LoopInv(r))',
         Exclusive'
  PROVE  RunInv'
<1>1. ASSUME NEW q \in Runs
      PROVE  (QueueInv(q) /\ WorkspaceInv(q) /\ SlotInv(q) /\ LoopInv(q))'
  <2>1. CASE q = r
    BY <2>1
  <2>2. CASE q # r
    BY <2>2, OthersKeep
  <2> QED BY <2>1, <2>2
<1> QED BY <1>1 DEF RunInv

LEMMA SameWorkspaces ==
  ASSUME RunInv, UNCHANGED workspace PROVE Exclusive'
  BY DEF RunInv, Exclusive

\* A workspace that is released excludes no other.
LEMMA ReleasedWorkspace ==
  ASSUME RunInv, NEW r \in Runs, held[r] \in Task,
         workspace' = [workspace EXCEPT ![r][held[r]] = "RELEASED"]
  PROVE  /\ Exclusive'
         /\ workspace' \in [Runs -> [Task -> {"NONE", "ACTIVE", "RELEASED"}]]
         /\ \A i \in Task : workspace'[r][i] = "ACTIVE" <=>
              workspace[r][i] = "ACTIVE" /\ i # held[r]
         /\ \A q \in Runs \ {r} : workspace'[q] = workspace[q]
  BY DEF RunInv, TypeOK, Exclusive

\* A status for the current item keeps the queue of a run a chain.
LEMMA CurrentUpdated ==
  ASSUME RunInv, NEW r \in Runs, step[r] \in Queued,
         NEW s \in {"RUNNING", "COMPLETED", "BLOCKED"},
         queue' = [queue EXCEPT ![r] = UpdateItem(queue[r], item[r], s)]
  PROVE  /\ queue' \in [Runs -> Queue]
         /\ \A q \in Runs \ {r} : queue'[q] = queue[q]
         /\ \E n \in Task :
              /\ Chain(queue'[r], n, item[r])
              /\ queue'[r].status[item[r]] = IF s = "BLOCKED" THEN "READY" ELSE s
              /\ step[r] \in Closed => item[r] = n
<1>1. PICK n \in Task : /\ Chain(queue[r], n, item[r])
                        /\ queue[r].status[item[r]] # "ABSENT"
                        /\ step[r] \in Closed => item[r] = n
  BY DEF RunInv, QueueInv
<1>2. item[r] \in Task /\ queue[r] \in Queue
  BY <1>1 DEF RunInv, TypeOK, Chain
<1>3. queue'[r] = UpdateItem(queue[r], item[r], s)
  BY DEF RunInv, TypeOK
<1>4. /\ queue'[r] \in Queue /\ Chain(queue'[r], n, item[r])
      /\ queue'[r].status[item[r]] = IF s = "BLOCKED" THEN "READY" ELSE s
  BY <1>1, <1>2, <1>3, UpdateCurrent
<1> QED BY <1>1, <1>3, <1>4 DEF RunInv, TypeOK

LEMMA RunInvStep == RunInv /\ [Next]_vars => RunInv'
<1> SUFFICES ASSUME RunInv, [Next]_vars PROVE RunInv'
  OBVIOUS
<1> USE StepSets
<1>t. TypeOK /\ \A r \in Runs : QueueInv(r) /\ WorkspaceInv(r) /\ SlotInv(r) /\ LoopInv(r)
  BY DEF RunInv
<1>1. ASSUME NEW r \in Runs, SlotGranted(r) PROVE RunInv'
  <2>1. TypeOK'
    BY <1>t, <1>1 DEF TypeOK, SlotGranted
  <2>2. (QueueInv(r) /\ WorkspaceInv(r) /\ SlotInv(r) /\ LoopInv(r))'
    <3>1. QueueInv(r)'
      BY <1>t, <1>1 DEF TypeOK, SlotGranted, QueueInv, ItemDone, Closed
    <3>2. WorkspaceInv(r)'
      BY <1>t, <1>1 DEF TypeOK, SlotGranted, WorkspaceInv, ItemDone
    <3>3. SlotInv(r)' /\ LoopInv(r)'
      BY <1>t, <1>1 DEF TypeOK, SlotGranted, SlotInv, LoopInv
    <3> QED BY <3>1, <3>2, <3>3
  <2>3. Exclusive'
    BY <1>1, SameWorkspaces DEF SlotGranted
  <2> QED BY <1>t, <1>1, <2>1, <2>2, <2>3, StepOfRun DEF TypeOK, SlotGranted
<1>2. ASSUME NEW r \in Runs, SlotNotGranted(r) PROVE RunInv'
  <2>q. /\ queue' \in [Runs -> Queue] /\ \A q \in Runs \ {r} : queue'[q] = queue[q]
        /\ step'[r] \in Queued => \E n \in Task :
              /\ Chain(queue'[r], n, item[r])
              /\ queue'[r].status[item[r]] = "READY"
    <3>1. CASE step[r] = "planning"
      <4>1. queue[r] \in Queue /\ item[r] \in Task \cup {NoTask}
        BY <1>t DEF TypeOK
      <4>2. UpdateItem(queue[r], item[r], "BLOCKED") \in Queue
        BY <4>1, AnyUpdateTyped DEF ItemStatus
      <4> QED BY <1>t, <1>2, <3>1, <4>2 DEF SlotNotGranted, Goto, TypeOK
    <3>2. CASE step[r] # "planning"
      BY <1>t, <1>2, <3>2, CurrentUpdated DEF SlotNotGranted
    <3> QED BY <3>1, <3>2
  <2>1. TypeOK'
    BY <1>t, <1>2, <2>q DEF TypeOK, SlotNotGranted, Goto
  <2>2. (QueueInv(r) /\ WorkspaceInv(r) /\ SlotInv(r) /\ LoopInv(r))'
    <3>1. QueueInv(r)'
      BY <1>t, <1>2, <2>q DEF TypeOK, SlotNotGranted, Goto, QueueInv, ItemDone, Closed
    <3>2. WorkspaceInv(r)'
      BY <1>t, <1>2, <2>q DEF TypeOK, SlotNotGranted, Goto, WorkspaceInv, ItemDone
    <3>3. SlotInv(r)' /\ LoopInv(r)'
      BY <1>t, <1>2, <2>q DEF TypeOK, SlotNotGranted, Goto, SlotInv, LoopInv
    <3> QED BY <3>1, <3>2, <3>3
  <2>3. Exclusive'
    BY <1>2, SameWorkspaces DEF SlotNotGranted
  <2> QED BY <1>t, <1>2, <2>q, <2>1, <2>2, <2>3, StepOfRun DEF TypeOK, SlotNotGranted, Goto
<1>3. ASSUME NEW r \in Runs, ReleaseSlot(r) PROVE RunInv'
  <2>1. TypeOK'
    BY <1>t, <1>3 DEF TypeOK, ReleaseSlot, Goto
  <2>2. (QueueInv(r) /\ WorkspaceInv(r) /\ SlotInv(r) /\ LoopInv(r))'
    <3>1. QueueInv(r)'
      BY <1>t, <1>3 DEF TypeOK, ReleaseSlot, Goto, QueueInv, ItemDone, Closed
    <3>2. WorkspaceInv(r)'
      BY <1>t, <1>3 DEF TypeOK, ReleaseSlot, Goto, WorkspaceInv, ItemDone
    <3>3. SlotInv(r)' /\ LoopInv(r)'
      BY <1>t, <1>3 DEF TypeOK, ReleaseSlot, Goto, SlotInv, LoopInv
    <3> QED BY <3>1, <3>2, <3>3
  <2>3. Exclusive'
    BY <1>3, SameWorkspaces DEF ReleaseSlot
  <2> QED BY <1>t, <1>3, <2>1, <2>2, <2>3, StepOfRun DEF TypeOK, ReleaseSlot, Goto
<1>4. ASSUME NEW r \in Runs, NEW n \in Task, QueueTasks(r, n) PROVE RunInv'
  <2> DEFINE p == PlannedQueue(n)
  <2>q. /\ p \in Queue /\ SelectNext(p) = 1 /\ Chain(p, n, 1) /\ p.status[1] = "READY"
    BY PlannedChain
  <2> HIDE DEF p
  <2>t. 1 \in Task /\ p.status[1] # "ABSENT"
    BY <2>q DEF Chain
  <2>u. /\ UpdateItem(p, 1, "RUNNING") \in Queue /\ Chain(UpdateItem(p, 1, "RUNNING"), n, 1)
        /\ UpdateItem(p, 1, "RUNNING").status[1] = "RUNNING"
    BY <2>q, <2>t, UpdateCurrent
  <2>a. /\ item' = [item EXCEPT ![r] = 1]
        /\ queue' = [queue EXCEPT ![r] = UpdateItem(p, 1, "RUNNING")]
    BY <1>4, <2>q DEF QueueTasks, p
  <2>1. TypeOK'
    BY <1>t, <1>4, <2>a, <2>u, TaskType DEF TypeOK, QueueTasks, Goto, Chain
  <2>2. QueueInv(r)'
    BY <1>t, <1>4, <2>a, <2>u DEF TypeOK, QueueTasks, Goto, QueueInv, ItemDone, Closed
  <2>3. (WorkspaceInv(r) /\ SlotInv(r) /\ LoopInv(r))'
    BY <1>t, <1>4, <2>a DEF TypeOK, QueueTasks, Goto, WorkspaceInv, SlotInv, LoopInv, ItemDone
  <2>4. Exclusive'
    BY <1>4, SameWorkspaces DEF QueueTasks
  <2> QED BY <1>t, <1>4, <2>a, <2>1, <2>2, <2>3, <2>4, StepOfRun DEF TypeOK, QueueTasks, Goto
<1>5. ASSUME NEW r \in Runs, AllocateWorkspace(r) PROVE RunInv'
  <2>q. /\ queue' \in [Runs -> Queue] /\ \A q \in Runs \ {r} : queue'[q] = queue[q]
        /\ \E n \in Task : /\ Chain(queue'[r], n, item[r])
                           /\ queue'[r].status[item[r]] = "RUNNING"
    BY <1>t, <1>5, CurrentUpdated DEF AllocateWorkspace
  <2>i. item[r] \in Task
    BY <2>q DEF Chain
  <2>w. /\ workspace' \in [Runs -> [Task -> {"NONE", "ACTIVE", "RELEASED"}]]
        /\ \A q \in Runs \ {r} : workspace'[q] = workspace[q]
        /\ \A i \in Task : workspace[r][i] # "ACTIVE"
        /\ \A i \in Task : workspace'[r][i] = "ACTIVE" <=> i = item[r]
    BY <1>t, <1>5, <2>i, RepoAssumption DEF TypeOK, AllocateWorkspace, RepoBusy
  <2>1. TypeOK'
    BY <1>t, <1>5, <2>q, <2>w, <2>i DEF TypeOK, AllocateWorkspace, Goto
  <2>2. (QueueInv(r) /\ WorkspaceInv(r) /\ SlotInv(r) /\ LoopInv(r))'
    <3>1. QueueInv(r)'
      BY <1>t, <1>5, <2>q, <2>w, <2>i DEF TypeOK, AllocateWorkspace, Goto, QueueInv, ItemDone, Closed
    <3>2. WorkspaceInv(r)'
      BY <1>t, <1>5, <2>q, <2>w, <2>i DEF TypeOK, AllocateWorkspace, Goto, WorkspaceInv, ItemDone
    <3>3. SlotInv(r)' /\ LoopInv(r)'
      BY <1>t, <1>5, <2>q, <2>w, <2>i DEF TypeOK, AllocateWorkspace, Goto, SlotInv, LoopInv
    <3> QED BY <3>1, <3>2, <3>3
  <2>3. Exclusive'
    <3>1. \A q \in Runs, i \in Task :
             RepoOf[q] = RepoOf[r] => workspace[q][i] # "ACTIVE"
      BY <1>5 DEF AllocateWorkspace, RepoBusy
    <3> QED BY <2>w, <3>1 DEF RunInv, Exclusive
  <2> QED BY <1>t, <1>5, <2>q, <2>w, <2>1, <2>2, <2>3, StepOfRun
          DEF TypeOK, AllocateWorkspace, Goto
<1>6. ASSUME NEW r \in Runs, RepoRefused(r) PROVE RunInv'
  <2>1. TypeOK'
    BY <1>t, <1>6 DEF TypeOK, RepoRefused, Goto
  <2>2. (QueueInv(r) /\ WorkspaceInv(r) /\ SlotInv(r) /\ LoopInv(r))'
    <3>1. QueueInv(r)'
      BY <1>t, <1>6 DEF TypeOK, RepoRefused, Goto, QueueInv, ItemDone, Closed
    <3>2. WorkspaceInv(r)'
      BY <1>t, <1>6 DEF TypeOK, RepoRefused, Goto, WorkspaceInv, ItemDone
    <3>3. SlotInv(r)' /\ LoopInv(r)'
      BY <1>t, <1>6 DEF TypeOK, RepoRefused, Goto, SlotInv, LoopInv
    <3> QED BY <3>1, <3>2, <3>3
  <2>3. Exclusive'
    BY <1>6, SameWorkspaces DEF RepoRefused
  <2> QED BY <1>t, <1>6, <2>1, <2>2, <2>3, StepOfRun DEF TypeOK, RepoRefused, Goto
<1>7. ASSUME NEW r \in Runs, QaFails(r) PROVE RunInv'
  <2>1. TypeOK'
    BY <1>t, <1>7 DEF TypeOK, QaFails, Goto
  <2>2. (QueueInv(r) /\ WorkspaceInv(r) /\ SlotInv(r) /\ LoopInv(r))'
    <3>1. QueueInv(r)'
      BY <1>t, <1>7 DEF TypeOK, QaFails, Goto, QueueInv, ItemDone, Closed
    <3>2. WorkspaceInv(r)'
      BY <1>t, <1>7 DEF TypeOK, QaFails, Goto, WorkspaceInv, ItemDone
    <3>3. SlotInv(r)' /\ LoopInv(r)'
      BY <1>t, <1>7 DEF TypeOK, QaFails, Goto, SlotInv, LoopInv
    <3> QED BY <3>1, <3>2, <3>3
  <2>3. Exclusive'
    BY <1>7, SameWorkspaces DEF QaFails
  <2> QED BY <1>t, <1>7, <2>1, <2>2, <2>3, StepOfRun DEF TypeOK, QaFails, Goto
<1>8. ASSUME NEW r \in Runs, Iterate(r) PROVE RunInv'
  <2>1. TypeOK'
    BY <1>t, <1>8 DEF TypeOK, Iterate, Goto, LoopInv
  <2>2. (QueueInv(r) /\ WorkspaceInv(r) /\ SlotInv(r) /\ LoopInv(r))'
    <3>1. QueueInv(r)'
      BY <1>t, <1>8 DEF TypeOK, Iterate, Goto, QueueInv, ItemDone, Closed
    <3>2. WorkspaceInv(r)'
      BY <1>t, <1>8 DEF TypeOK, Iterate, Goto, WorkspaceInv, ItemDone
    <3>3. SlotInv(r)' /\ LoopInv(r)'
      BY <1>t, <1>8 DEF TypeOK, Iterate, Goto, SlotInv, LoopInv
    <3> QED BY <3>1, <3>2, <3>3
  <2>3. Exclusive'
    BY <1>8, SameWorkspaces DEF Iterate
  <2> QED BY <1>t, <1>8, <2>1, <2>2, <2>3, StepOfRun DEF TypeOK, Iterate, Goto
<1>9. ASSUME NEW r \in Runs, QaPasses(r) PROVE RunInv'
  <2>i. held[r] = item[r] /\ held[r] \in Task
    BY <1>t, <1>9 DEF QaPasses, WorkspaceInv, QueueInv, Chain
  <2>w. /\ Exclusive'
        /\ workspace' \in [Runs -> [Task -> {"NONE", "ACTIVE", "RELEASED"}]]
        /\ \A i \in Task : workspace'[r][i] = "ACTIVE" <=>
             workspace[r][i] = "ACTIVE" /\ i # held[r]
        /\ \A q \in Runs \ {r} : workspace'[q] = workspace[q]
    BY <1>9, <2>i, ReleasedWorkspace DEF QaPasses
  <2>f. \A i \in Task : workspace'[r][i] # "ACTIVE"
    BY <1>t, <2>w DEF WorkspaceInv
  <2>1. TypeOK'
    BY <1>t, <1>9, <2>w DEF TypeOK, QaPasses, Goto
  <2>2. (QueueInv(r) /\ WorkspaceInv(r) /\ SlotInv(r) /\ LoopInv(r))'
    <3>1. step'[r] = "completing"
      BY <1>t, <1>9 DEF TypeOK, QaPasses, Goto
    <3>2. QueueInv(r)'
      BY <1>t, <1>9, <3>1 DEF QaPasses, QueueInv, ItemDone, Closed
    <3>3. WorkspaceInv(r)'
      BY <1>9, <2>i, <2>f, <3>1 DEF QaPasses, WorkspaceInv
    <3>4. (SlotInv(r) /\ LoopInv(r))'
      BY <1>t, <1>9, <3>1 DEF QaPasses, SlotInv, LoopInv
    <3> QED BY <3>2, <3>3, <3>4
  <2> QED BY <1>t, <1>9, <2>w, <2>1, <2>2, StepOfRun DEF TypeOK, QaPasses, Goto
<1>10. ASSUME NEW r \in Runs, CompleteItem(r) PROVE RunInv'
  <2>q. /\ queue' \in [Runs -> Queue] /\ \A q \in Runs \ {r} : queue'[q] = queue[q]
        /\ \E n \in Task : /\ Chain(queue'[r], n, item[r])
                           /\ queue'[r].status[item[r]] = "COMPLETED"
    BY <1>t, <1>10, CurrentUpdated DEF CompleteItem
  <2>1. TypeOK'
    BY <1>t, <1>10, <2>q DEF TypeOK, CompleteItem, Goto
  <2>2. (QueueInv(r) /\ WorkspaceInv(r) /\ SlotInv(r) /\ LoopInv(r))'
    <3>1. QueueInv(r)'
      BY <1>t, <1>10, <2>q DEF TypeOK, CompleteItem, Goto, QueueInv, ItemDone, Closed
    <3>2. WorkspaceInv(r)'
      BY <1>t, <1>10, <2>q DEF TypeOK, CompleteItem, Goto, WorkspaceInv, ItemDone
    <3>3. SlotInv(r)' /\ LoopInv(r)'
      BY <1>t, <1>10, <2>q DEF TypeOK, CompleteItem, Goto, SlotInv, LoopInv
    <3> QED BY <3>1, <3>2, <3>3
  <2>3. Exclusive'
    BY <1>10, SameWorkspaces DEF CompleteItem
  <2> QED BY <1>t, <1>10, <2>q, <2>1, <2>2, <2>3, StepOfRun DEF TypeOK, CompleteItem, Goto
<1>11. ASSUME NEW r \in Runs, StartNext(r) PROVE RunInv'
  <2>n. PICK n \in Task : /\ Chain(queue[r], n, item[r])
                          /\ queue[r].status[item[r]] = "COMPLETED"
    BY <1>t, <1>11 DEF StartNext, QueueInv, ItemDone
  <2>c. item[r] \in Task /\ queue[r] \in Queue
    BY <1>t, <2>n DEF TypeOK, Chain
  <2>s. item[r] < n /\ SelectNext(queue[r]) = item[r] + 1
    BY <1>11, <2>n, <2>c, SelectAfterCompleted DEF StartNext
  <2> DEFINE c == item[r] + 1
             u == UpdateItem(queue[r], c, "RUNNING")
  <2>u. u \in Queue /\ Chain(u, n, c) /\ u.status[c] = "RUNNING"
    BY <2>n, <2>c, <2>s, UpdateNext
  <2>a. item' = [item EXCEPT ![r] = c] /\ queue' = [queue EXCEPT ![r] = u]
    BY <1>11, <2>s DEF StartNext
  <2>d. c \in Task
    BY <2>u DEF Chain
  <2> HIDE DEF c, u
  <2>1. TypeOK'
    BY <1>t, <1>11, <2>a, <2>u, <2>d DEF TypeOK, StartNext, Goto
  <2>2. QueueInv(r)'
    BY <1>t, <1>11, <2>a, <2>u, <2>d DEF TypeOK, StartNext, Goto, QueueInv, ItemDone, Closed
  <2>3. (WorkspaceInv(r) /\ SlotInv(r) /\ LoopInv(r))'
    BY <1>t, <1>11, <2>a DEF TypeOK, StartNext, Goto, WorkspaceInv, SlotInv, LoopInv, ItemDone
  <2>4. Exclusive'
    BY <1>11, SameWorkspaces DEF StartNext
  <2> QED BY <1>t, <1>11, <2>a, <2>1, <2>2, <2>3, <2>4, StepOfRun DEF TypeOK, StartNext, Goto
<1>12. ASSUME NEW r \in Runs, NothingLeft(r) PROVE RunInv'
  <2>n. PICK n \in Task : /\ Chain(queue[r], n, item[r])
                          /\ queue[r].status[item[r]] = "COMPLETED"
    BY <1>t, <1>12 DEF NothingLeft, QueueInv, ItemDone
  <2>c. item[r] \in Task /\ queue[r] \in Queue
    BY <1>t, <2>n DEF TypeOK, Chain
  <2>s. item[r] = n
    <3>1. ~ (item[r] < n)
      BY <1>12, <2>n, <2>c, SelectAfterCompleted, TaskType DEF NothingLeft, NoTask
    <3> QED BY <2>n, <2>c, <3>1, TaskType DEF Chain
  <2>1. TypeOK'
    BY <1>t, <1>12 DEF TypeOK, NothingLeft, Goto
  <2>2. (QueueInv(r) /\ WorkspaceInv(r) /\ SlotInv(r) /\ LoopInv(r))'
    <3>1. QueueInv(r)'
      BY <1>t, <1>12, <2>n, <2>s DEF TypeOK, NothingLeft, Goto, QueueInv, ItemDone, Closed
    <3>2. WorkspaceInv(r)'
      BY <1>t, <1>12, <2>n, <2>s DEF TypeOK, NothingLeft, Goto, WorkspaceInv, ItemDone
    <3>3. SlotInv(r)' /\ LoopInv(r)'
      BY <1>t, <1>12, <2>n, <2>s DEF TypeOK, NothingLeft, Goto, SlotInv, LoopInv
    <3> QED BY <3>1, <3>2, <3>3
  <2>3. Exclusive'
    BY <1>12, SameWorkspaces DEF NothingLeft
  <2> QED BY <1>t, <1>12, <2>1, <2>2, <2>3, StepOfRun DEF TypeOK, NothingLeft, Goto
<1>13. ASSUME NEW r \in Runs, FinishRun(r) PROVE RunInv'
  <2>q. /\ queue' \in [Runs -> Queue] /\ \A q \in Runs \ {r} : queue'[q] = queue[q]
        /\ \E n \in Task : /\ Chain(queue'[r], n, item[r])
                           /\ queue'[r].status[item[r]] = "COMPLETED"
                           /\ item[r] = n
    BY <1>t, <1>13, CurrentUpdated DEF FinishRun, Closed
  <2>1. TypeOK'
    BY <1>t, <1>13, <2>q DEF TypeOK, FinishRun, Goto
  <2>2. (QueueInv(r) /\ WorkspaceInv(r) /\ SlotInv(r) /\ LoopInv(r))'
    <3>1. QueueInv(r)'
      BY <1>t, <1>13, <2>q DEF TypeOK, FinishRun, Goto, QueueInv, ItemDone, Closed
    <3>2. WorkspaceInv(r)'
      BY <1>t, <1>13, <2>q DEF TypeOK, FinishRun, Goto, WorkspaceInv, ItemDone
    <3>3. SlotInv(r)' /\ LoopInv(r)'
      BY <1>t, <1>13, <2>q DEF TypeOK, FinishRun, Goto, SlotInv, LoopInv
    <3> QED BY <3>1, <3>2, <3>3
  <2>3. Exclusive'
    BY <1>13, SameWorkspaces DEF FinishRun
  <2> QED BY <1>t, <1>13, <2>q, <2>1, <2>2, <2>3, StepOfRun DEF TypeOK, FinishRun, Goto
<1>14. ASSUME NEW r \in Runs, RunFails(r) PROVE RunInv'
  <2>1. TypeOK'
    BY <1>t, <1>14 DEF TypeOK, RunFails, Goto
  <2>2. (QueueInv(r) /\ WorkspaceInv(r) /\ SlotInv(r) /\ LoopInv(r))'
    <3>1. QueueInv(r)'
      BY <1>t, <1>14 DEF TypeOK, RunFails, Goto, QueueInv, ItemDone, Closed
    <3>2. WorkspaceInv(r)'
      BY <1>t, <1>14 DEF TypeOK, RunFails, Goto, WorkspaceInv, ItemDone
    <3>3. SlotInv(r)' /\ LoopInv(r)'
      BY <1>t, <1>14 DEF TypeOK, RunFails, Goto, SlotInv, LoopInv
    <3> QED BY <3>1, <3>2, <3>3
  <2>3. Exclusive'
    BY <1>14, SameWorkspaces DEF RunFails
  <2> QED BY <1>t, <1>14, <2>1, <2>2, <2>3, StepOfRun DEF TypeOK, RunFails, Goto
<1>15. ASSUME NEW r \in Runs, CancelWorkflow(r) PROVE RunInv'
  <2>1. CASE step[r] # "ended"
    <3>1. TypeOK'
      BY <1>t, <1>15, <2>1 DEF TypeOK, CancelWorkflow
    <3>2. (QueueInv(r) /\ WorkspaceInv(r) /\ SlotInv(r) /\ LoopInv(r))'
      BY <1>t, <1>15, <2>1 DEF CancelWorkflow, QueueInv, WorkspaceInv, SlotInv, LoopInv
    <3>3. Exclusive'
      BY <1>15, <2>1, SameWorkspaces DEF CancelWorkflow
    <3> QED BY <1>t, <1>15, <2>1, <3>1, <3>2, <3>3, StepOfRun DEF CancelWorkflow
  <2>2. CASE step[r] = "ended"
    <3>n. PICK n \in Task : /\ Chain(queue[r], n, item[r]) /\ item[r] = n
                            /\ queue[r].status[item[r]] = "COMPLETED"
      BY <1>t, <2>2 DEF QueueInv, ItemDone, Closed
    <3>i. held[r] = item[r] /\ held[r] \in Task
      BY <1>t, <2>2, <3>n DEF WorkspaceInv, ItemDone, Chain
    <3>w. /\ Exclusive'
          /\ workspace' \in [Runs -> [Task -> {"NONE", "ACTIVE", "RELEASED"}]]
          /\ \A i \in Task : workspace'[r][i] # "ACTIVE"
          /\ \A q \in Runs \ {r} : workspace'[q] = workspace[q]
      BY <1>t, <1>15, <2>2, <3>i, ReleasedWorkspace DEF CancelWorkflow, WorkspaceInv
    <3>o. Open(queue[r]) = {}
      BY <3>n, TaskType DEF Open, Chain
    <3>q. /\ queue' \in [Runs -> Queue] /\ \A q \in Runs \ {r} : queue'[q] = queue[q]
          /\ queue'[r].deps = queue[r].deps
          /\ \A i \in Task : queue'[r].status[i] = queue[r].status[i]
      BY <1>t, <1>15, <2>2, <3>o DEF CancelWorkflow, TypeOK, Queue
    <3>c. /\ Chain(queue'[r], n, item[r])
          /\ queue'[r].status[item[r]] = "COMPLETED"
      BY <3>n, <3>q, <3>i DEF Chain
    <3>1. TypeOK'
      BY <1>t, <1>15, <3>w, <3>q DEF TypeOK, CancelWorkflow
    <3>2. QueueInv(r)'
      BY <1>15, <2>2, <3>n, <3>c DEF CancelWorkflow, QueueInv, ItemDone, Closed
    <3>3. (WorkspaceInv(r) /\ SlotInv(r) /\ LoopInv(r))'
      BY <1>t, <1>15, <2>2, <3>i, <3>w DEF CancelWorkflow, WorkspaceInv, SlotInv, LoopInv
    <3> QED BY <1>15, <3>w, <3>q, <3>1, <3>2, <3>3, StepOfRun DEF CancelWorkflow
  <2> QED BY <2>1, <2>2
<1>16. CASE UNCHANGED vars
  BY <1>16 DEF vars, RunInv, TypeOK, QueueInv, WorkspaceInv, SlotInv, LoopInv, Exclusive
<1> QED
  BY <1>1, <1>2, <1>3, <1>4, <1>5, <1>6, <1>7, <1>8, <1>9, <1>10, <1>11, <1>12, <1>13,
     <1>14, <1>15, <1>16 DEF Next, Forward

LEMMA RunInvHolds == Spec => []RunInv
  BY RunInvInit, RunInvStep, PTL DEF Spec

-----------------------------------------------------------------------------
\* The runs and the registries they share keep their types.
THEOREM TypeCorrect == Spec => []TypeOK
<1>1. RunInv => TypeOK
  BY DEF RunInv
<1> QED BY <1>1, RunInvHolds, PTL

\* However many runs there are, no two of them work on one repository at the
\* same time: the one that works has a workspace there, which refuses others.
THEOREM RunsExcludeEachOther == Spec => []OneRunPerRepo
<1>1. RunInv => OneRunPerRepo
  <2> SUFFICES ASSUME RunInv, NEW q \in Runs, NEW r \in Runs,
                      step[q] \in Working, step[r] \in Working, RepoOf[q] = RepoOf[r]
               PROVE  q = r
    BY DEF OneRunPerRepo
  <2>1. \A p \in {q, r} : held[p] \in Task /\ workspace[p][held[p]] = "ACTIVE"
    BY StepSets DEF RunInv, WorkspaceInv, QueueInv, Chain
  <2> QED BY <2>1 DEF RunInv, Exclusive
<1> QED BY <1>1, RunInvHolds, PTL

\* A run works on the item its queue points at, in that item's workspace, after
\* all the packages the item depends on, for plans of any length.
THEOREM RightItem == Spec => []WorksOnItsItem
<1>1. RunInv => WorksOnItsItem
  <2> SUFFICES ASSUME RunInv, NEW r \in Runs, step[r] \in Working
               PROVE  /\ held[r] = item[r] /\ workspace[r][item[r]] = "ACTIVE"
                      /\ DependenciesCompleted(queue[r], item[r])
    BY DEF WorksOnItsItem
  <2>1. PICK n \in Task : Chain(queue[r], n, item[r])
    BY StepSets DEF RunInv, QueueInv
  <2>2. DependenciesCompleted(queue[r], item[r])
    <3>1. item[r] \in Task /\ queue[r].deps[item[r]] = 1..(item[r] - 1)
      BY <2>1 DEF Chain
    <3>2. ASSUME NEW d \in 1..(item[r] - 1) PROVE queue[r].status[d] = "COMPLETED"
      <4>1. d \in Task /\ d < item[r]
        BY <3>1, MaxItemsAssumption DEF Task
      <4> QED BY <2>1, <4>1 DEF Chain
    <3> QED BY <3>1, <3>2 DEF DependenciesCompleted
  <2> QED BY <2>2 DEF RunInv, WorkspaceInv
<1> QED BY <1>1, RunInvHolds, PTL

\* A run that ended has completed every package and holds no workspace and no
\* slot.
THEOREM NothingIsLeft == Spec => []EndedLeavesNothing
<1>1. RunInv => EndedLeavesNothing
  <2> SUFFICES ASSUME RunInv, NEW r \in Runs, step[r] = "ended"
               PROVE  /\ Unfinished(queue[r]) = {} /\ allocated[r] = NoRole
                      /\ \A i \in Task : workspace[r][i] # "ACTIVE"
    BY DEF EndedLeavesNothing
  <2>1. PICK n \in Task : /\ Chain(queue[r], n, item[r]) /\ item[r] = n
                          /\ queue[r].status[item[r]] = "COMPLETED"
    BY StepSets DEF RunInv, QueueInv, ItemDone, Closed
  <2>2. Unfinished(queue[r]) = {}
    <3>1. ASSUME NEW i \in Task
          PROVE  queue[r].status[i] \in {"COMPLETED", "ABSENT"}
      <4>1. i < item[r] \/ i = item[r] \/ i > n
        BY <2>1, TaskType
      <4> QED BY <2>1, <4>1 DEF Chain
    <3> QED BY <3>1 DEF Unfinished
  <2>3. allocated[r] = NoRole /\ \A i \in Task : workspace[r][i] # "ACTIVE"
    BY StepSets DEF RunInv, SlotInv, WorkspaceInv
  <2> QED BY <2>2, <2>3
<1> QED BY <1>1, RunInvHolds, PTL
-----------------------------------------------------------------------------
(* Runs implement RepoMutex.                                               *)

\* A repository belongs to the only run that holds it.
LEMMA SoleHolder ==
  ASSUME NEW p, NEW r \in Runs, Holders(p) = {r}
  PROVE  Owner(p) = r
  BY DEF Owner

\* Only the run with the active workspace holds a repository.
LEMMA HeldAlone ==
  ASSUME RunInv, NEW r \in Runs, NEW i \in Task, workspace[r][i] = "ACTIVE"
  PROVE  Holders(RepoOf[r]) = {r}
  BY DEF RunInv, Exclusive, Holders

\* Repositories with the same holders, or none, have the same owner, or none.
LEMMA SameHolders ==
  ASSUME NEW S, \A p \in S : Holders(p)' = Holders(p)
  PROVE  \A p \in S : Owner(p)' = Owner(p)
<1> SUFFICES ASSUME NEW p \in S PROVE Owner(p)' = Owner(p)
  OBVIOUS
<1>1. Holders(p)' = Holders(p)
  OBVIOUS
<1> QED BY <1>1 DEF Owner

LEMMA NoHolders ==
  ASSUME NEW p, Holders(p)' = {}
  PROVE  Owner(p)' = NoRun
  BY DEF Owner

\* The active workspace of a run is released, and was its only one.
LEMMA ReleaseStep ==
  ASSUME RunInv, NEW r \in Runs, held[r] \in Task,
         workspace' = [workspace EXCEPT ![r][held[r]] = "RELEASED"]
  PROVE  [Mutex!Next]_([p \in Repos |-> Owner(p)])
<1> DEFINE p == RepoOf[r]
           O == [s \in Repos |-> Owner(s)]
<1>1. p \in Repos
  BY RepoAssumption
<1>2. /\ \A i \in Task : workspace'[r][i] = "ACTIVE" <=>
              workspace[r][i] = "ACTIVE" /\ i # held[r]
      /\ \A q \in Runs \ {r} : workspace'[q] = workspace[q]
  BY ReleasedWorkspace
<1>3. \A s \in Repos \ {p} : Holders(s)' = Holders(s)
  BY <1>2 DEF Holders
<1>4. CASE workspace[r][held[r]] = "ACTIVE"
  <2>1. Holders(p) = {r} /\ Owner(p) = r
    BY <1>4, HeldAlone, SoleHolder
  <2>2. \A i \in Task : workspace'[r][i] # "ACTIVE"
    BY <1>2 DEF RunInv, WorkspaceInv
  <2>3. Holders(p)' = {}
    BY <1>2, <2>1, <2>2 DEF Holders
  <2>4. Owner(p)' = NoRun /\ \A s \in Repos \ {p} : Owner(s)' = Owner(s)
    BY <1>3, <2>3, NoHolders, SameHolders
  <2>5. O' = [O EXCEPT ![p] = NoRun]
    BY <1>1, <2>4
  <2>6. O[p] # NoRun
    BY <1>1, <2>1, RepoAssumption
  <2> QED BY <1>1, <2>5, <2>6 DEF Mutex!Next, Mutex!GiveBack
<1>5. CASE workspace[r][held[r]] # "ACTIVE"
  <2>1. \A s \in Repos : Holders(s)' = Holders(s)
    BY <1>2, <1>5 DEF Holders
  <2> QED BY <2>1, SameHolders
<1> QED BY <1>4, <1>5

\* A free repository is reserved for the run that allocates its workspace.
LEMMA ReserveStep ==
  ASSUME RunInv, NEW r \in Runs, AllocateWorkspace(r)
  PROVE  [Mutex!Next]_([p \in Repos |-> Owner(p)])
<1> DEFINE p == RepoOf[r]
           O == [s \in Repos |-> Owner(s)]
<1>1. p \in Repos /\ item[r] \in Task
  BY RepoAssumption DEF RunInv, QueueInv, Chain, AllocateWorkspace, Queued, Step, Over, KiloStep
<1>2. workspace'[r][item[r]] = "ACTIVE" /\ \A q \in Runs \ {r} : workspace'[q] = workspace[q]
  BY <1>1 DEF AllocateWorkspace, RunInv, TypeOK
<1>3. \A q \in Runs, i \in Task : RepoOf[q] = p => workspace[q][i] # "ACTIVE"
  BY DEF AllocateWorkspace, RepoBusy
<1>4. \A s \in Repos \ {p} : Holders(s)' = Holders(s)
  BY <1>2 DEF Holders
<1>5. Holders(p) = {} /\ Holders(p)' = {r}
  BY <1>1, <1>2, <1>3 DEF Holders
<1>6. /\ Owner(p) = NoRun /\ Owner(p)' = r
      /\ \A s \in Repos \ {p} : Owner(s)' = Owner(s)
  <2>1. Owner(p) = NoRun
    BY <1>5 DEF Owner
  <2>2. Owner(p)' = r
    BY <1>5 DEF Owner
  <2> QED BY <1>4, <2>1, <2>2, SameHolders
<1>7. O' = [O EXCEPT ![p] = r] /\ O[p] = NoRun
  BY <1>1, <1>6
<1> QED BY <1>1, <1>7 DEF Mutex!Next, Mutex!Reserve

LEMMA MutexStep ==
  ASSUME RunInv, [Next]_vars
  PROVE  [Mutex!Next]_([p \in Repos |-> Owner(p)])
<1>1. ASSUME UNCHANGED workspace
      PROVE  [Mutex!Next]_([p \in Repos |-> Owner(p)])
  BY <1>1, SameHolders DEF Holders
<1>2. ASSUME NEW r \in Runs, AllocateWorkspace(r)
      PROVE  [Mutex!Next]_([p \in Repos |-> Owner(p)])
  BY <1>2, ReserveStep
<1>3. ASSUME NEW r \in Runs, QaPasses(r)
      PROVE  [Mutex!Next]_([p \in Repos |-> Owner(p)])
  <2>1. held[r] \in Task
    BY <1>3 DEF QaPasses, RunInv, QueueInv, WorkspaceInv, Chain, Working, Queued, Step, Over,
                KiloStep
  <2> QED BY <1>3, <2>1, ReleaseStep DEF QaPasses
<1>4. ASSUME NEW r \in Runs, CancelWorkflow(r)
      PROVE  [Mutex!Next]_([p \in Repos |-> Owner(p)])
  <2>1. CASE step[r] = "ended"
    <3>1. held[r] \in Task
      BY <2>1 DEF RunInv, QueueInv, WorkspaceInv, Chain, ItemDone, Queued, Step, Over, KiloStep
    <3> QED BY <1>4, <2>1, <3>1, ReleaseStep DEF CancelWorkflow
  <2>2. CASE step[r] # "ended"
    BY <1>1, <1>4, <2>2 DEF CancelWorkflow
  <2> QED BY <2>1, <2>2
<1>5. ASSUME NEW r \in Runs, Forward(r), ~ AllocateWorkspace(r), ~ QaPasses(r)
      PROVE  UNCHANGED workspace
  BY <1>5 DEF Forward, SlotGranted, SlotNotGranted, ReleaseSlot, QueueTasks, RepoRefused,
              QaFails, Iterate, CompleteItem, StartNext, NothingLeft, FinishRun
<1>6. ASSUME NEW r \in Runs, RunFails(r)
      PROVE  UNCHANGED workspace
  BY <1>6 DEF RunFails
<1>7. CASE UNCHANGED vars
  BY <1>1, <1>7 DEF vars
<1> QED BY <1>1, <1>2, <1>3, <1>4, <1>5, <1>6, <1>7 DEF Next

\* However many runs there are, and wherever they crash: a repository is given
\* to one run at a time, and to another only after it was given back
\* (allocate_workspace_for_queue_item, release_current_workspace).
THEOREM Refinement == Spec => ImplementsRepoMutex
<1>1. Init => Mutex!Init
  BY DEF Init, Mutex!Init, Owner, Holders
<1>2. RunInv /\ [Next]_vars => [Mutex!Next]_([p \in Repos |-> Owner(p)])
  BY MutexStep
<1> QED
  BY <1>1, <1>2, RunInvHolds, PTL DEF Spec, ImplementsRepoMutex, Mutex!Spec
=============================================================================
