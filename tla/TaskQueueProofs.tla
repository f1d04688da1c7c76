--------------------------- MODULE TaskQueueProofs --------------------------
(***************************************************************************)
(* Theorems about TaskQueue: for any number of items and of readers, the   *)
(* types and the refreshed form of every stored queue; for any number of   *)
(* items and no reader, the invariants of the undisturbed run and its      *)
(* refinement of SequentialPlan.                                           *)
(***************************************************************************)
EXTENDS TaskQueue, WellFoundedInduction, TLAPS

-----------------------------------------------------------------------------
(* Lemmas about the queue operators. *)

LEMMA NonEmptyHasMin ==
  ASSUME NEW S \in SUBSET Nat, S # {}
  PROVE  \E m \in S : \A x \in S : m <= x
<1> DEFINE Less == {ss \in Nat \X Nat : ss[1] < ss[2]}
<1>1. Less = OpToRel(<, Nat)
  BY Zenon DEF OpToRel
<1>2. PICK m \in S : \A y \in S : ~(<<y, m>> \in Less)
  <2> HIDE DEF Less
  <2>1. IsWellFoundedOn(Less, Nat)
    BY <1>1, NatLessThanWellFounded, Zenon
  <2> QED BY <2>1, WFMin, Zenon
<1>3. ASSUME NEW y \in S PROVE m <= y
  <2>1. CASE y < m
    <3>1. <<y, m>> \in Nat \X Nat /\ <<y, m>>[1] < <<y, m>>[2]
      BY <2>1
    <3>2. <<y, m>> \in Less
      BY <3>1, Zenon
    <3> QED BY <3>2, <1>2
  <2> QED BY <2>1
<1> QED BY <1>3

LEMMA TaskNumbers == /\ Task \subseteq Nat
                     /\ NoTask \notin Task
                     /\ 1 \in Task
  BY MaxItemsAssumption DEF Task, NoTask

LEMMA EmptyQueueType == EmptyQueue \in Queue
  BY DEF EmptyQueue, Queue, ItemStatus, Settled, Weight

\* What _refresh_queue may do to one item, and what it leaves alone.
LEMMA RefreshShape ==
  ASSUME NEW q \in Queue
  PROVE  /\ Refresh(q) \in Queue
         /\ Refresh(q).deps = q.deps
         /\ Refresh(q).weight = q.weight
         /\ \A i \in Task : Refresh(q).status[i] = RefreshedStatus(q, i)
         /\ \A i \in Task, s \in Settled \cup {"ABSENT"} :
              Refresh(q).status[i] = s <=> q.status[i] = s
<1>1. \A i \in Task : RefreshedStatus(q, i) \in ItemStatus
  BY DEF RefreshedStatus, ItemStatus, Settled, Queue
<1> QED BY <1>1 DEF Refresh, Queue, RefreshedStatus, Settled

LEMMA RefreshIdempotent ==
  ASSUME NEW q \in Queue
  PROVE  Refresh(Refresh(q)) = Refresh(q)
<1> DEFINE r == Refresh(q)
<1>1. r \in Queue /\ r.deps = q.deps
  BY RefreshShape
<1>2. \A i \in Task : r.status[i] = "COMPLETED" <=> q.status[i] = "COMPLETED"
  BY RefreshShape DEF Settled
<1>3. SomeRunning(r) <=> SomeRunning(q)
  BY RefreshShape DEF SomeRunning, Settled
<1>4. \A i \in Task : DependenciesCompleted(r, i) <=> DependenciesCompleted(q, i)
  BY <1>1, <1>2 DEF DependenciesCompleted, Queue
<1>5. ASSUME NEW i \in Task PROVE RefreshedStatus(r, i) = r.status[i]
  <2>1. r.status[i] = RefreshedStatus(q, i)
    BY RefreshShape
  <2> HIDE DEF r
  <2> QED BY <2>1, <1>3, <1>4 DEF RefreshedStatus, Settled
<1>6. [i \in Task |-> RefreshedStatus(r, i)] = r.status
  <2> HIDE DEF r
  <2> QED BY <1>1, <1>5 DEF Queue
<1>7. Refresh(r) = r
  <2> HIDE DEF r
  <2> QED BY <1>1, <1>6 DEF Refresh, Queue
<1> QED BY <1>7

LEMMA WithStatusType ==
  ASSUME NEW q \in Queue, NEW i \in Task \cup {NoTask}, NEW s \in ItemStatus
  PROVE  WithStatus(q, i, s) \in Queue
  BY DEF WithStatus, Queue

LEMMA UpdateItemShape ==
  ASSUME NEW q \in Queue, NEW i \in Task \cup {NoTask}, NEW s \in ItemStatus
  PROVE  /\ UpdateItem(q, i, s) \in Queue
         /\ Refresh(UpdateItem(q, i, s)) = UpdateItem(q, i, s)
  BY WithStatusType, RefreshShape, RefreshIdempotent DEF UpdateItem

LEMMA WithItemType ==
  ASSUME NEW q \in Queue, NEW i \in Task, NEW d \in SUBSET Task, NEW w \in Weight
  PROVE  WithItem(q, i, d, w) \in Queue
  BY DEF WithItem, Queue, ItemStatus

LEMMA AddItemShape ==
  ASSUME NEW q \in Queue, NEW i \in Task, NEW d \in SUBSET Task, NEW w \in Weight
  PROVE  /\ AddItem(q, i, d, w) \in Queue
         /\ Refresh(AddItem(q, i, d, w)) = AddItem(q, i, d, w)
  BY WithItemType, RefreshShape, RefreshIdempotent DEF AddItem

\* The scheduler's sort finds an item: the least index of the least weight.
LEMMA MostUrgentExists ==
  ASSUME NEW q \in Queue, ReadyItems(q) # {}
  PROVE  \E i \in ReadyItems(q) : \A j \in ReadyItems(q) : Before(q, i, j)
<1> DEFINE W == {q.weight[i] : i \in ReadyItems(q)}
<1>1. W \in SUBSET Nat /\ W # {}
  BY DEF ReadyItems, Queue, Weight
<1>2. PICK w \in W : \A x \in W : w <= x
  BY <1>1, NonEmptyHasMin
<1> DEFINE L == {i \in ReadyItems(q) : q.weight[i] = w}
<1>3. L \in SUBSET Nat /\ L # {}
  BY TaskNumbers DEF ReadyItems
<1>4. PICK i \in L : \A j \in L : i <= j
  BY <1>3, NonEmptyHasMin
<1>5. ASSUME NEW j \in ReadyItems(q) PROVE Before(q, i, j)
  <2>1. q.weight[j] \in W /\ w \in Nat /\ q.weight[j] \in Nat
    BY <1>1
  <2>2. w <= q.weight[j]
    BY <2>1, <1>2
  <2> QED BY <2>1, <2>2, <1>4 DEF Before
<1> QED BY <1>4, <1>5

LEMMA SelectNextShape ==
  ASSUME NEW q \in Queue
  PROVE  /\ SelectNext(q) \in Task \cup {NoTask}
         /\ SelectNext(q) # NoTask =>
              /\ ~SomeRunning(q)
              /\ SelectNext(q) \in ReadyItems(q)
              /\ \A j \in ReadyItems(q) : Before(q, SelectNext(q), j)
         /\ SelectNext(q) = NoTask => SomeRunning(q) \/ ReadyItems(q) = {}
<1>1. CASE SomeRunning(q) \/ ReadyItems(q) = {}
  BY <1>1 DEF SelectNext
<1>2. CASE ~SomeRunning(q) /\ ReadyItems(q) # {}
  <2>1. /\ SelectNext(q) \in ReadyItems(q)
        /\ \A j \in ReadyItems(q) : Before(q, SelectNext(q), j)
    BY <1>2, MostUrgentExists, Zenon DEF SelectNext
  <2> QED BY <1>2, <2>1, TaskNumbers DEF ReadyItems
<1> QED BY <1>1, <1>2

LEMMA CurrentItemShape ==
  ASSUME NEW q \in Queue, NEW p \in Task \cup {NoTask}
  PROVE  /\ CurrentItem(q, p) \in Task \cup {NoTask}
         /\ SomeRunning(q) => /\ CurrentItem(q, p) \in Task
                              /\ q.status[CurrentItem(q, p)] = "RUNNING"
         /\ ~SomeRunning(q) /\ Present(q, p) => CurrentItem(q, p) = p
         /\ ~SomeRunning(q) /\ ~Present(q, p) => CurrentItem(q, p) = NoTask
<1>1. CASE SomeRunning(q)
  <2> DEFINE R == {i \in Task : q.status[i] = "RUNNING"}
  <2>1. R \in SUBSET Nat /\ R # {}
    BY <1>1, TaskNumbers DEF SomeRunning
  <2>2. PICK m \in R : \A x \in R : m <= x
    BY <2>1, NonEmptyHasMin
  <2>3. /\ CurrentItem(q, p) \in Task
        /\ q.status[CurrentItem(q, p)] = "RUNNING"
    BY <1>1, <2>2 DEF CurrentItem
  <2> QED BY <1>1, <2>3
<1>2. CASE ~SomeRunning(q)
  BY <1>2 DEF CurrentItem, Present
<1> QED BY <1>1, <1>2

-----------------------------------------------------------------------------
(* Any number of items, any number of readers. *)

ReaderInv == TypeOK /\ StoredQueueIsRefreshed

LEMMA ReaderInvInit == Init => ReaderInv
<1> SUFFICES ASSUME Init PROVE ReaderInv
  OBVIOUS
<1>1. TypeOK
  BY EmptyQueueType, MaxItemsAssumption
  DEF Init, TypeOK, Phase
<1>2. [i \in Task |-> RefreshedStatus(EmptyQueue, i)] = EmptyQueue.status
  BY DEF RefreshedStatus, EmptyQueue
<1>3. Refresh(EmptyQueue) = EmptyQueue
  BY <1>2 DEF Refresh, EmptyQueue
<1> QED BY <1>1, <1>3 DEF Init, ReaderInv, StoredQueueIsRefreshed

LEMMA ReaderInvStep == ReaderInv /\ [Next]_vars => ReaderInv'
<1> SUFFICES ASSUME ReaderInv, [Next]_vars
             PROVE  ReaderInv'
  OBVIOUS
<1> USE DEF ReaderInv, TypeOK, StoredQueueIsRefreshed
<1> USE TaskNumbers
<1>1. ASSUME NEW d \in SUBSET Task, NEW w \in Weight, AddTask(d, w)
      PROVE  ReaderInv'
  <2>1. size + 1 \in Task /\ size + 1 \in 0..MaxItems
    BY <1>1, MaxItemsAssumption DEF AddTask, Task
  <2> QED BY <1>1, <2>1, AddItemShape DEF AddTask
<1>2. CASE PlanComplete
  BY <1>2, CurrentItemShape DEF PlanComplete, Phase
<1>3. CASE SelectItem
  BY <1>3, SelectNextShape, CurrentItemShape DEF SelectItem, Phase
<1>4. CASE StartItem
  BY <1>4, UpdateItemShape DEF StartItem, Update, Phase, ItemStatus, Settled
<1>5. CASE AllocateWorkspace
  BY <1>5, UpdateItemShape, CurrentItemShape
  DEF AllocateWorkspace, Update, Phase, ItemStatus, Settled
<1>6. ASSUME NEW s \in {"BLOCKED", "QUEUED"}, AllocationNotGranted(s)
      PROVE  ReaderInv'
  BY <1>6, UpdateItemShape DEF AllocationNotGranted, Update, Phase, ItemStatus
<1>7. CASE CompleteItem
  <2>1. store' \in Queue /\ Refresh(store') = store'
    BY <1>7, UpdateItemShape DEF CompleteItem, Update, ItemStatus, Settled
  <2>2. current' \in Task \cup {NoTask}
    BY <1>7, <2>1, CurrentItemShape DEF CompleteItem, Update
  <2>3. phase' \in Phase
    BY <1>7 DEF CompleteItem, Update, Phase
  <2> QED BY <1>7, <2>1, <2>2, <2>3 DEF CompleteItem
<1>8. CASE FinishRun
  BY <1>8, UpdateItemShape, CurrentItemShape
  DEF FinishRun, Phase, ItemStatus, Settled
<1>9. ASSUME NEW r \in Readers, ReaderFetch(r)
      PROVE  ReaderInv'
  BY <1>9 DEF ReaderFetch, runVars
<1>10. ASSUME NEW r \in Readers, ReaderStore(r)
       PROVE  ReaderInv'
  <2>1. fetched[r] \in Queue
    BY <1>10 DEF ReaderStore
  <2> QED BY <1>10, <2>1, RefreshShape, RefreshIdempotent DEF ReaderStore, runVars
<1>11. CASE UNCHANGED vars
  BY <1>11 DEF vars
<1> QED
  BY <1>1, <1>2, <1>3, <1>4, <1>5, <1>6, <1>7, <1>8, <1>9, <1>10, <1>11
  DEF Next, Run

\* The registry, the run and the readers keep their types.
THEOREM TypeCorrect == Spec => []TypeOK
<1>1. ReaderInv => TypeOK
  BY DEF ReaderInv
<1> QED BY <1>1, ReaderInvInit, ReaderInvStep, PTL DEF Spec

\* Whatever the interleaving of the run with any number of readers, no stored
\* queue has a READY item with an open dependency or an idle unblocked item.
THEOREM StoredRefreshed == Spec => []StoredQueueIsRefreshed
<1>1. ReaderInv => StoredQueueIsRefreshed
  BY DEF ReaderInv
<1> QED BY <1>1, ReaderInvInit, ReaderInvStep, PTL DEF Spec

-----------------------------------------------------------------------------
(* No reader disturbs the run.  The inductive invariant: the shape of the  *)
(* plan, what the queue and the artifacts say of each other, and what each *)
(* phase of the run knows of the queue.                                    *)

PlanInv ==
  /\ \A i \in Task : store.status[i] = "ABSENT" <=> size < i
  /\ \A i \in Task : store.status[i] = "ABSENT" => store.deps[i] = {}
  /\ \A i \in Task : store.deps[i] \subseteq 1..(i - 1)
  /\ \A i \in Task : store.status[i] \notin {"FAILED", "CANCELLED"}

OnlyChosenRuns ==
  \A i \in Task : store.status[i] = "RUNNING"
                    => i = chosen /\ phase \in {"allocating", "working"}

PhaseInv ==
  /\ phase # "crashed"
  /\ phase = "adding" => package = NoTask /\ current = NoTask
  /\ phase # "adding" => size > 0
  /\ package = NoTask => validated = {} /\ current = NoTask
  /\ phase = "starting" => /\ chosen \in ReadyItems(store)
                           /\ \A j \in ReadyItems(store) : Before(store, chosen, j)
  /\ phase = "allocating" => chosen \in Task /\ store.status[chosen] = "RUNNING"
  /\ phase = "working" => /\ chosen \in Task /\ current = chosen /\ package = chosen
                          /\ store.status[chosen] \in {"RUNNING", "READY"}
  /\ phase \in {"finishing", "ended"} => Unfinished(store) = {}

RunInv ==
  /\ ReaderInv
  /\ PlanInv
  /\ OnlyChosenRuns
  /\ DependenciesFirst
  /\ CompletedIffValidated
  /\ PhaseInv

\* What a refreshed queue tells of an item that has not settled.
LEMMA RefreshedFacts ==
  ASSUME NEW q \in Queue, Refresh(q) = q, NEW i \in Task
  PROVE  /\ q.status[i] = "READY" => DependenciesCompleted(q, i)
         /\ /\ q.status[i] \notin Settled \cup {"ABSENT"}
            /\ DependenciesCompleted(q, i)
            /\ ~SomeRunning(q)
            => q.status[i] = "READY"
<1>1. q.status[i] = RefreshedStatus(q, i)
  BY RefreshShape
<1> QED BY <1>1 DEF RefreshedStatus, Settled

\* The effect of update_item_status on the one item that may be active.
LEMMA UpdateActive ==
  ASSUME NEW q \in Queue, NEW i \in Task,
         NEW s \in {"RUNNING", "COMPLETED", "BLOCKED", "QUEUED"},
         q.status[i] \in {"READY", "RUNNING"},
         DependenciesCompleted(q, i), i \notin q.deps[i],
         \A j \in Task : q.status[j] = "RUNNING" => j = i,
         NEW r, r = UpdateItem(q, i, s)
  PROVE  /\ r \in Queue /\ Refresh(r) = r
         /\ r.deps = q.deps /\ r.weight = q.weight
         /\ \A j \in Task, t \in {"ABSENT", "FAILED", "CANCELLED"} :
              r.status[j] = t <=> q.status[j] = t
         /\ \A j \in Task : r.status[j] = "RUNNING" <=> j = i /\ s = "RUNNING"
         /\ \A j \in Task : r.status[j] = "COMPLETED"
              <=> q.status[j] = "COMPLETED" \/ (j = i /\ s = "COMPLETED")
         /\ s \in {"BLOCKED", "QUEUED"} => r.status[i] = "READY"
<1> DEFINE w == WithStatus(q, i, s)
<1>1. s \in ItemStatus
  BY DEF ItemStatus, Settled
<1>2. w \in Queue /\ r = Refresh(w) /\ r \in Queue /\ Refresh(r) = r
  BY <1>1, WithStatusType, UpdateItemShape DEF UpdateItem
<1>3. /\ w.deps = q.deps /\ w.weight = q.weight
      /\ \A j \in Task : w.status[j] = IF j = i THEN s ELSE q.status[j]
  BY TaskNumbers DEF WithStatus, Present, Queue
<1> HIDE DEF w
<1>4. /\ r.deps = q.deps /\ r.weight = q.weight
      /\ \A j \in Task, t \in Settled \cup {"ABSENT"} :
           r.status[j] = t <=> w.status[j] = t
      /\ r.status[i] = RefreshedStatus(w, i)
  BY <1>2, <1>3, RefreshShape
<1>5. ASSUME s \in {"BLOCKED", "QUEUED"} PROVE r.status[i] = "READY"
  <2>1. ~SomeRunning(w)
    BY <1>3, <1>5 DEF SomeRunning
  <2>2. DependenciesCompleted(w, i)
    BY <1>3 DEF DependenciesCompleted, Queue
  <2>3. w.status[i] \notin Settled \cup {"ABSENT"}
    BY <1>3, <1>5 DEF Settled
  <2> QED BY <1>4, <2>1, <2>2, <2>3 DEF RefreshedStatus
<1> QED BY <1>2, <1>3, <1>4, <1>5 DEF Settled

\* A queue of a plan in which nothing can be started is finished: the first
\* unfinished item has all its dependencies completed.
LEMMA NothingReadyMeansDone ==
  ASSUME TypeOK, StoredQueueIsRefreshed, PlanInv, ~SomeRunning(store),
         ReadyItems(store) = {}
  PROVE  Unfinished(store) = {}
<1> SUFFICES ASSUME Unfinished(store) # {} PROVE FALSE
  OBVIOUS
<1> USE DEF TypeOK
<1>1. Unfinished(store) \in SUBSET Nat
  BY TaskNumbers DEF Unfinished
<1>2. PICK i \in Unfinished(store) : \A j \in Unfinished(store) : i <= j
  BY <1>1, NonEmptyHasMin
<1>3. i \in Task /\ store.status[i] \notin {"COMPLETED", "ABSENT"}
  BY <1>2 DEF Unfinished
<1>4. ASSUME NEW d \in store.deps[i] PROVE store.status[d] = "COMPLETED"
  <2>1. d \in Task /\ d < i
    BY <1>3, MaxItemsAssumption DEF PlanInv, Task
  <2>2. d \notin Unfinished(store)
    BY <1>2, <1>3, <2>1 DEF Task
  <2>3. size \in Nat /\ ~(size < i) /\ ~(size < d)
    BY <1>3, <2>1, MaxItemsAssumption DEF PlanInv, Task
  <2>4. store.status[d] # "ABSENT"
    BY <2>1, <2>3 DEF PlanInv
  <2> QED BY <2>1, <2>2, <2>4 DEF Unfinished
<1>5. DependenciesCompleted(store, i)
  BY <1>4 DEF DependenciesCompleted
<1>6. store.status[i] \notin Settled
  BY <1>3 DEF PlanInv, SomeRunning, Settled
<1>7. store.status[i] = "READY"
  BY <1>3, <1>5, <1>6, RefreshedFacts DEF StoredQueueIsRefreshed
<1> QED BY <1>3, <1>7 DEF ReadyItems

LEMMA RunInvInit == Init => RunInv
<1> SUFFICES ASSUME Init PROVE RunInv
  OBVIOUS
<1>1. ReaderInv
  BY ReaderInvInit
<1>2. PlanInv
  BY DEF Init, PlanInv, EmptyQueue, Task
<1>3. OnlyChosenRuns /\ DependenciesFirst /\ CompletedIffValidated
  BY DEF Init, OnlyChosenRuns, DependenciesFirst, CompletedIffValidated, EmptyQueue
<1>4. PhaseInv
  BY DEF Init, PhaseInv
<1> QED BY <1>1, <1>2, <1>3, <1>4 DEF RunInv

\* One call of update_item_status on the active item keeps the plan in order.
LEMMA ActiveStep ==
  ASSUME RunInv, NEW i \in Task,
         NEW s \in {"RUNNING", "COMPLETED", "BLOCKED", "QUEUED"},
         store.status[i] \in {"READY", "RUNNING"},
         \A j \in Task : store.status[j] = "RUNNING" => j = i,
         store' = UpdateItem(store, i, s), size' = size
  PROVE  /\ PlanInv' /\ DependenciesFirst'
         /\ store'.deps = store.deps
         /\ \A j \in Task : store'.status[j] = "RUNNING" <=> j = i /\ s = "RUNNING"
         /\ \A j \in Task : store'.status[j] = "COMPLETED"
              <=> store.status[j] = "COMPLETED" \/ (j = i /\ s = "COMPLETED")
         /\ s \in {"BLOCKED", "QUEUED"} => store'.status[i] = "READY"
         /\ Present(store, i)
<1> USE DEF RunInv, ReaderInv, TypeOK
<1>1. DependenciesCompleted(store, i)
  BY DEF DependenciesFirst
<1>2. i \notin store.deps[i]
  BY MaxItemsAssumption DEF PlanInv, Task
<1>3. /\ store' \in Queue /\ Refresh(store') = store'
      /\ store'.deps = store.deps
      /\ \A j \in Task, t \in {"ABSENT", "FAILED", "CANCELLED"} :
           store'.status[j] = t <=> store.status[j] = t
      /\ \A j \in Task : store'.status[j] = "RUNNING" <=> j = i /\ s = "RUNNING"
      /\ \A j \in Task : store'.status[j] = "COMPLETED"
           <=> store.status[j] = "COMPLETED" \/ (j = i /\ s = "COMPLETED")
      /\ s \in {"BLOCKED", "QUEUED"} => store'.status[i] = "READY"
  BY <1>1, <1>2, UpdateActive
<1>4. PlanInv'
  BY <1>3 DEF PlanInv
<1>5. ASSUME NEW j \in Task, store'.status[j] \in {"READY", "RUNNING", "COMPLETED"}
      PROVE  DependenciesCompleted(store', j)
  <2>1. CASE store'.status[j] = "READY"
    BY <1>3, <2>1, RefreshedFacts
  <2>2. CASE store'.status[j] # "READY"
    <3>1. DependenciesCompleted(store, j)
      BY <1>1, <1>3, <1>5, <2>2 DEF DependenciesFirst
    <3> QED BY <1>3, <3>1 DEF DependenciesCompleted, Queue
  <2> QED BY <2>1, <2>2
<1>6. DependenciesFirst'
  BY <1>5 DEF DependenciesFirst, DependenciesCompleted
<1>7. Present(store, i)
  BY TaskNumbers DEF Present
<1> QED BY <1>3, <1>4, <1>6, <1>7

\* add_item settles nothing.
LEMMA AddStep ==
  ASSUME RunInv, NEW d \in SUBSET Task, NEW w \in Weight, AddTask(d, w)
  PROVE  /\ PlanInv' /\ DependenciesFirst' /\ OnlyChosenRuns'
         /\ CompletedIffValidated'
         /\ size + 1 \in Task
         /\ store'.deps = [store.deps EXCEPT ![size + 1] = d]
         /\ \A j \in Task : store'.status[j] = "ABSENT" <=> size + 1 < j
<1> USE DEF RunInv, ReaderInv, TypeOK
<1> DEFINE n == size + 1
           v == WithItem(store, n, d, w)
<1>1. n \in Task /\ d \subseteq 1..(n - 1)
  BY MaxItemsAssumption DEF AddTask, Task
<1>2. v \in Queue /\ store' = Refresh(v) /\ store' \in Queue /\ Refresh(store') = store'
  BY <1>1, WithItemType, RefreshShape, RefreshIdempotent DEF AddTask, AddItem
<1>3. /\ v.deps = [store.deps EXCEPT ![n] = d]
      /\ \A j \in Task : v.status[j] = IF j = n THEN "QUEUED" ELSE store.status[j]
  BY <1>1 DEF WithItem, Queue
<1> HIDE DEF v
<1>4. /\ store'.deps = v.deps
      /\ \A j \in Task, t \in Settled \cup {"ABSENT"} :
           store'.status[j] = t <=> v.status[j] = t
  BY <1>2, RefreshShape
<1>5. store.status[n] = "ABSENT"
  BY <1>1, MaxItemsAssumption DEF PlanInv, Task
<1>6. /\ \A j \in Task, t \in Settled : store'.status[j] = t <=> store.status[j] = t
      /\ \A j \in Task : store'.status[j] = "ABSENT"
                           <=> j # n /\ store.status[j] = "ABSENT"
  BY <1>3, <1>4, <1>5 DEF Settled
<1>7. \A j \in Task : store'.status[j] = "ABSENT" <=> n < j
  BY <1>1, <1>6, MaxItemsAssumption DEF PlanInv, Task
<1>8. PlanInv'
  <2>1. \A j \in Task : store'.deps[j] = IF j = n THEN d ELSE store.deps[j]
    BY <1>1, <1>3, <1>4 DEF Queue
  <2>2. \A j \in Task : store'.status[j] = "ABSENT" => j # n /\ store.status[j] = "ABSENT"
    BY <1>6
  <2>3. size' = n
    BY DEF AddTask
  <2> QED BY <1>1, <1>6, <1>7, <2>1, <2>2, <2>3 DEF PlanInv, Settled
<1>9. DependenciesFirst'
  <2>1. ASSUME NEW j \in Task, store'.status[j] \in {"READY", "RUNNING", "COMPLETED"}
        PROVE  DependenciesCompleted(store', j)
    <3>1. CASE store'.status[j] = "READY"
      BY <1>2, <3>1, RefreshedFacts
    <3>2. CASE store'.status[j] \in {"RUNNING", "COMPLETED"}
      <4>1. store.status[j] \in {"RUNNING", "COMPLETED"} /\ j # n
        BY <1>5, <1>6, <3>2 DEF Settled
      <4>2. DependenciesCompleted(store, j) /\ store'.deps[j] = store.deps[j]
        BY <1>1, <1>3, <1>4, <4>1 DEF DependenciesFirst, Queue
      <4> QED BY <1>6, <4>2 DEF DependenciesCompleted, Settled, Queue
    <3> QED BY <2>1, <3>1, <3>2
  <2> QED BY <2>1 DEF DependenciesFirst, DependenciesCompleted
<1>10. OnlyChosenRuns' /\ CompletedIffValidated'
  BY <1>6 DEF AddTask, OnlyChosenRuns, CompletedIffValidated, Settled
<1> QED BY <1>1, <1>3, <1>4, <1>7, <1>8, <1>9, <1>10

LEMMA RunInvStep ==
  ASSUME Readers = {}, RunInv, [Next]_vars
  PROVE  RunInv'
<1>0. ReaderInv'
  BY ReaderInvStep DEF RunInv
<1> USE DEF RunInv, ReaderInv, TypeOK
<1> SUFFICES PlanInv' /\ OnlyChosenRuns' /\ DependenciesFirst'
               /\ CompletedIffValidated' /\ PhaseInv'
  BY <1>0
<1>1. ASSUME NEW d \in SUBSET Task, NEW w \in Weight, AddTask(d, w)
      PROVE  PlanInv' /\ OnlyChosenRuns' /\ DependenciesFirst'
               /\ CompletedIffValidated' /\ PhaseInv'
  BY <1>1, AddStep DEF AddTask, PhaseInv
<1> DEFINE SameQueue == store' = store /\ size' = size
<1>2. ASSUME SameQueue PROVE PlanInv' /\ DependenciesFirst'
  BY <1>2 DEF PlanInv, DependenciesFirst, DependenciesCompleted
<1>3. CASE PlanComplete
  <2>1. ~SomeRunning(store)
    BY <1>3 DEF PlanComplete, OnlyChosenRuns, SomeRunning
  <2>2. current' = NoTask
    BY <1>3, <2>1, CurrentItemShape DEF PlanComplete, PhaseInv, Present
  <2> QED BY <1>2, <1>3, <2>2
          DEF PlanComplete, PhaseInv, OnlyChosenRuns, CompletedIffValidated
<1>4. CASE SelectItem
  <2>1. ~SomeRunning(store)
    BY <1>4 DEF SelectItem, OnlyChosenRuns, SomeRunning
  <2>2. OnlyChosenRuns' /\ CompletedIffValidated'
    BY <1>4, <2>1 DEF SelectItem, OnlyChosenRuns, CompletedIffValidated, SomeRunning
  <2>3. ASSUME chosen' # NoTask PROVE PhaseInv'
    BY <1>4, <2>3, SelectNextShape DEF SelectItem, PhaseInv, ReadyItems, Before
  <2>4. ASSUME chosen' = NoTask PROVE PhaseInv'
    <3>1. Unfinished(store) = {}
      BY <1>4, <2>1, <2>4, SelectNextShape, NothingReadyMeansDone DEF SelectItem
    <3>2. store.status[1] = "COMPLETED"
      BY <1>4, <3>1, TaskNumbers, MaxItemsAssumption
      DEF SelectItem, PhaseInv, PlanInv, Unfinished
    <3>3. package # NoTask
      BY <3>2, TaskNumbers DEF PhaseInv, CompletedIffValidated
    <3> QED BY <1>4, <2>4, <3>1, <3>3 DEF SelectItem, PhaseInv, Unfinished
  <2> QED BY <1>2, <1>4, <2>2, <2>3, <2>4 DEF SelectItem
<1>5. CASE StartItem
  <2>1. /\ chosen \in Task /\ store.status[chosen] = "READY"
        /\ \A j \in Task : store.status[j] # "RUNNING"
    BY <1>5 DEF StartItem, PhaseInv, ReadyItems, OnlyChosenRuns
  <2>2. store' = UpdateItem(store, chosen, "RUNNING") /\ size' = size
    BY <1>5 DEF StartItem, Update
  <2>3. /\ PlanInv' /\ DependenciesFirst'
        /\ \A j \in Task : store'.status[j] = "RUNNING" <=> j = chosen
        /\ \A j \in Task : store'.status[j] = "COMPLETED"
                             <=> store.status[j] = "COMPLETED"
        /\ Present(store, chosen)
    BY <2>1, <2>2, ActiveStep
  <2>4. phase' = "allocating"
    BY <1>5, <2>3 DEF StartItem, Update
  <2> QED BY <1>5, <2>1, <2>3, <2>4
          DEF StartItem, PhaseInv, OnlyChosenRuns, CompletedIffValidated
<1>6. CASE AllocateWorkspace
  <2>1. /\ chosen \in Task /\ store.status[chosen] = "RUNNING"
        /\ \A j \in Task : store.status[j] = "RUNNING" => j = chosen
    BY <1>6 DEF AllocateWorkspace, PhaseInv, OnlyChosenRuns
  <2>2. store' = UpdateItem(store, chosen, "RUNNING") /\ size' = size
    BY <1>6 DEF AllocateWorkspace, Update
  <2>3. /\ PlanInv' /\ DependenciesFirst'
        /\ \A j \in Task : store'.status[j] = "RUNNING" <=> j = chosen
        /\ \A j \in Task : store'.status[j] = "COMPLETED"
                             <=> store.status[j] = "COMPLETED"
        /\ Present(store, chosen)
    BY <2>1, <2>2, ActiveStep
  <2>4. phase' = "working"
    BY <1>6, <2>3 DEF AllocateWorkspace, Update
  <2>5. current' = chosen
    <3>1. SomeRunning(store')
      BY <2>1, <2>3 DEF SomeRunning
    <3>2. store' \in Queue
      BY <1>0
    <3>3. current' \in Task /\ store'.status[current'] = "RUNNING"
      BY <1>6, <3>1, <3>2, CurrentItemShape DEF AllocateWorkspace
    <3> QED BY <2>3, <3>3
  <2> QED BY <1>6, <2>1, <2>3, <2>4, <2>5, TaskNumbers
          DEF AllocateWorkspace, PhaseInv, OnlyChosenRuns, CompletedIffValidated
<1>7. ASSUME NEW s \in {"BLOCKED", "QUEUED"}, AllocationNotGranted(s)
      PROVE  PlanInv' /\ OnlyChosenRuns' /\ DependenciesFirst'
               /\ CompletedIffValidated' /\ PhaseInv'
  <2>1. /\ current \in Task /\ current = chosen /\ package = chosen
        /\ store.status[current] \in {"READY", "RUNNING"}
        /\ \A j \in Task : store.status[j] = "RUNNING" => j = current
    BY <1>7 DEF AllocationNotGranted, PhaseInv, OnlyChosenRuns
  <2>2. store' = UpdateItem(store, current, s) /\ size' = size
    BY <1>7 DEF AllocationNotGranted, Update
  <2>3. /\ PlanInv' /\ DependenciesFirst'
        /\ \A j \in Task : store'.status[j] # "RUNNING"
        /\ \A j \in Task : store'.status[j] = "COMPLETED"
                             <=> store.status[j] = "COMPLETED"
        /\ store'.status[current] = "READY"
        /\ Present(store, current)
    BY <1>7, <2>1, <2>2, ActiveStep
  <2>4. phase' = "working"
    BY <1>7, <2>3 DEF AllocationNotGranted, Update
  <2> QED BY <1>7, <2>1, <2>3, <2>4
          DEF AllocationNotGranted, PhaseInv, OnlyChosenRuns, CompletedIffValidated
<1>8. CASE CompleteItem
  <2>1. /\ current \in Task /\ current = chosen /\ package = chosen
        /\ store.status[current] \in {"READY", "RUNNING"}
        /\ \A j \in Task : store.status[j] = "RUNNING" => j = current
    BY <1>8 DEF CompleteItem, PhaseInv, OnlyChosenRuns
  <2>2. /\ store' = UpdateItem(store, current, "COMPLETED") /\ size' = size
        /\ current' = CurrentItem(store', current)
    BY <1>8, <2>1, TaskNumbers DEF CompleteItem, Update
  <2>3. /\ PlanInv' /\ DependenciesFirst'
        /\ \A j \in Task : store'.status[j] # "RUNNING"
        /\ \A j \in Task : store'.status[j] = "COMPLETED"
                             <=> store.status[j] = "COMPLETED" \/ j = current
        /\ Present(store, current)
    BY <2>1, <2>2, ActiveStep
  <2>4. phase' = "selecting"
    BY <1>8, <2>1, <2>3, TaskNumbers DEF CompleteItem, Update
  <2>5. CompletedIffValidated'
    BY <1>8, <2>1, <2>3 DEF CompleteItem, CompletedIffValidated
  <2> QED BY <1>8, <2>1, <2>3, <2>4, <2>5, TaskNumbers
          DEF CompleteItem, PhaseInv, OnlyChosenRuns
<1>9. CASE FinishRun
  <2>1. Unfinished(store) = {}
    BY <1>9 DEF FinishRun, PhaseInv
  <2>2. SameQueue
    BY <1>9, <2>1 DEF FinishRun, Unfinished, Present, NoTask
  <2> QED BY <1>2, <1>9, <2>1, <2>2, CurrentItemShape, TaskNumbers
          DEF FinishRun, PhaseInv, OnlyChosenRuns, CompletedIffValidated,
              SomeRunning, Present
<1>10. CASE UNCHANGED vars
  BY <1>2, <1>10 DEF vars, PhaseInv, OnlyChosenRuns, CompletedIffValidated,
                     Unfinished, ReadyItems, Before
<1> QED
  BY <1>1, <1>3, <1>4, <1>5, <1>6, <1>7, <1>8, <1>9, <1>10 DEF Next, Run

LEMMA RunInvHolds ==
  ASSUME Readers = {}
  PROVE  Spec => []RunInv
<1>1. RunInv /\ [Next]_vars => RunInv'
  BY RunInvStep
<1> QED BY <1>1, RunInvInit, PTL DEF Spec

\* Without concurrent readers nothing is ready, running or completed before
\* the items it depends on are completed.
THEOREM DependenciesComeFirst ==
  ASSUME Readers = {}
  PROVE  Spec => []DependenciesFirst
<1>1. RunInv => DependenciesFirst
  BY DEF RunInv
<1> QED BY <1>1, RunInvHolds, PTL

\* Without concurrent readers at most one item of the queue is RUNNING.
THEOREM AtMostOneActive ==
  ASSUME Readers = {}
  PROVE  Spec => []OneActiveItem
<1>1. RunInv => OneActiveItem
  BY DEF RunInv, OnlyChosenRuns, OneActiveItem
<1> QED BY <1>1, RunInvHolds, PTL

\* Without concurrent readers the COMPLETED items are the validated packages.
THEOREM QueueMatchesArtifacts ==
  ASSUME Readers = {}
  PROVE  Spec => []CompletedIffValidated
<1>1. RunInv => CompletedIffValidated
  BY DEF RunInv
<1> QED BY <1>1, RunInvHolds, PTL

\* Without concurrent readers a run that ended has no unfinished item.
THEOREM EndsWithAllCompleted ==
  ASSUME Readers = {}
  PROVE  Spec => []EndedMeansAllCompleted
<1>1. RunInv => EndedMeansAllCompleted
  BY DEF RunInv, PhaseInv, EndedMeansAllCompleted
<1> QED BY <1>1, RunInvHolds, PTL

\* What a step does to the set of RUNNING items: only StartItem adds to it.
LEMMA StartStep ==
  ASSUME Readers = {}, RunInv, [Next]_vars, NEW i \in Task,
         store.status[i] # "RUNNING", store'.status[i] = "RUNNING"
  PROVE  StartItem /\ i = chosen /\ phase' = "allocating" /\ chosen' = chosen
<1>1. RunInv'
  BY RunInvStep
<1>2. i = chosen' /\ phase' \in {"allocating", "working"}
  BY <1>1 DEF RunInv, OnlyChosenRuns
<1>4. ~AllocateWorkspace
  BY <1>2 DEF AllocateWorkspace, RunInv, PhaseInv
<1>5. ASSUME NEW s \in {"BLOCKED", "QUEUED"} PROVE ~AllocationNotGranted(s)
  <2> SUFFICES ASSUME AllocationNotGranted(s) PROVE FALSE
    OBVIOUS
  <2>1. /\ current \in Task /\ current = chosen
        /\ store.status[current] \in {"READY", "RUNNING"}
        /\ \A j \in Task : store.status[j] = "RUNNING" => j = current
        /\ store' = UpdateItem(store, current, s) /\ size' = size
    BY DEF AllocationNotGranted, Update, RunInv, PhaseInv, OnlyChosenRuns
  <2>2. \A j \in Task : store'.status[j] # "RUNNING"
    BY <2>1, ActiveStep
  <2> QED BY <2>2
<1>6. StartItem
  BY <1>2, <1>4, <1>5
  DEF Next, Run, vars, AddTask, PlanComplete, SelectItem, CompleteItem, FinishRun,
      Update, RunInv, PhaseInv
<1> QED BY <1>1, <1>2, <1>6 DEF StartItem, Update, RunInv, PhaseInv

\* Without concurrent readers an item starts only if none of the items that
\* could start is more urgent, or as urgent and older.
THEOREM MostUrgentStarts ==
  ASSUME Readers = {}
  PROVE  Spec => StartsMostUrgent
<1> DEFINE Urgent ==
      \A i \in Task : store.status[i] # "RUNNING" /\ store'.status[i] = "RUNNING"
        => \A j \in Task : store.status[j] = "READY" => Before(store, i, j)
<1>1. RunInv /\ [Next]_vars => [Urgent]_vars
  <2> SUFFICES ASSUME RunInv, [Next]_vars, NEW i \in Task,
                      store.status[i] # "RUNNING", store'.status[i] = "RUNNING",
                      NEW j \in Task, store.status[j] = "READY"
               PROVE  Before(store, i, j)
    OBVIOUS
  <2>1. StartItem /\ i = chosen
    BY StartStep
  <2> QED BY <2>1 DEF StartItem, RunInv, PhaseInv, ReadyItems
<1> QED BY <1>1, RunInvHolds, PTL DEF Spec, StartsMostUrgent

-----------------------------------------------------------------------------
(* The undisturbed run implements SequentialPlan.  Planning maps to Plan,  *)
(* StartItem to Begin, CompleteItem to Finish and FinishRun to Close; the  *)
(* other steps change nothing the plan sees.                               *)

ActivePackage == IF phase \in {"allocating", "working"} THEN chosen ELSE NoTask
Planned == {i \in Task : store.status[i] # "ABSENT"}

LEMMA RefinementInit == Init => Contract!Init
  BY DEF Init, Contract!Init, EmptyQueue

LEMMA RefinementStep ==
  ASSUME Readers = {}, RunInv, [Next]_vars
  PROVE  Contract!Next \/ UNCHANGED Contract!planVars
<1> USE DEF RunInv, ReaderInv, TypeOK
<1>0. RunInv'
  BY RunInvStep
<1> SUFFICES \/ \E t \in Task, d \in SUBSET Task : Contract!Plan(t, d)
             \/ \E t \in Task : Contract!Begin(t)
             \/ Contract!Finish
             \/ Contract!Close
             \/ /\ Planned' = Planned /\ store'.deps = store.deps
                /\ ActivePackage' = ActivePackage /\ validated' = validated
                /\ (phase' = "ended") = (phase = "ended")
  BY DEF Contract!Next, Contract!planVars, Planned, ActivePackage
<1>1. ASSUME NEW d \in SUBSET Task, NEW w \in Weight, AddTask(d, w)
      PROVE  Contract!Plan(size + 1, d) /\ size + 1 \in Task
  <2>1. /\ size + 1 \in Task
        /\ store'.deps = [store.deps EXCEPT ![size + 1] = d]
        /\ \A j \in Task : store'.status[j] = "ABSENT" <=> size + 1 < j
    BY <1>1, AddStep
  <2>2. \A j \in Task : store.status[j] = "ABSENT" <=> size < j
    BY DEF PlanInv
  <2>3. size \in Nat /\ \A j \in Task : j \in Nat /\ j \in 1..MaxItems
    BY MaxItemsAssumption DEF Task
  <2>4. Planned' = Planned \cup {size + 1} /\ size + 1 \notin Planned
    BY <2>1, <2>2, <2>3 DEF Planned
  <2>5. d \subseteq Planned
    BY <1>1, <2>2, <2>3 DEF AddTask, Planned
  <2>6. phase = "adding" /\ phase' = "adding" /\ validated = {} /\ validated' = {}
    BY <1>1 DEF AddTask, PhaseInv
  <2> QED BY <2>1, <2>4, <2>5, <2>6 DEF Contract!Plan, Planned
<1>2. ASSUME store' = store, validated' = validated,
             ActivePackage' = ActivePackage, (phase' = "ended") = (phase = "ended")
      PROVE  /\ Planned' = Planned /\ store'.deps = store.deps
             /\ ActivePackage' = ActivePackage /\ validated' = validated
             /\ (phase' = "ended") = (phase = "ended")
  BY <1>2 DEF Planned
<1>3. CASE PlanComplete \/ UNCHANGED vars
  BY <1>2, <1>3 DEF PlanComplete, vars, ActivePackage
<1>4. CASE SelectItem
  <2>1. phase' \in {"starting", "finishing"}
    <3>1. phase' \in {"starting", "working", "finishing"}
      BY <1>4 DEF SelectItem
    <3>2. phase' = "working" => chosen' = NoTask
      BY <1>4 DEF SelectItem
    <3> QED BY <1>0, <3>1, <3>2, TaskNumbers DEF PhaseInv
  <2> QED BY <1>2, <1>4, <2>1 DEF SelectItem, ActivePackage
<1>5. CASE StartItem
  <2>1. /\ chosen \in Task /\ store.status[chosen] = "READY"
        /\ \A j \in Task : store.status[j] # "RUNNING"
    BY <1>5 DEF StartItem, PhaseInv, ReadyItems, OnlyChosenRuns
  <2>2. store' = UpdateItem(store, chosen, "RUNNING") /\ size' = size
    BY <1>5 DEF StartItem, Update
  <2>3. store'.deps = store.deps /\ Planned' = Planned /\ Present(store, chosen)
    BY <1>0, <2>1, <2>2, ActiveStep DEF PlanInv, Planned
  <2>4. phase = "starting" /\ phase' = "allocating" /\ chosen' = chosen /\ validated' = validated
    BY <1>5, <2>3 DEF StartItem, Update
  <2>5. chosen \in Planned \ validated
    BY <2>1 DEF Planned, CompletedIffValidated
  <2>6. store.deps[chosen] \subseteq validated
    BY <2>1 DEF DependenciesFirst, DependenciesCompleted, CompletedIffValidated, Queue
  <2>7. Contract!Begin(chosen)
    BY <2>3, <2>4, <2>5, <2>6 DEF Contract!Begin, Planned
  <2> QED BY <2>1, <2>7
<1>6. ASSUME NEW s \in {"RUNNING", "BLOCKED", "QUEUED"},
             phase \in {"allocating", "working"}, phase' \in {"allocating", "working"},
             store' = UpdateItem(store, chosen, s), size' = size,
             chosen' = chosen, validated' = validated
      PROVE  /\ Planned' = Planned /\ store'.deps = store.deps
             /\ ActivePackage' = ActivePackage /\ validated' = validated
             /\ (phase' = "ended") = (phase = "ended")
  <2>1. /\ chosen \in Task /\ store.status[chosen] \in {"READY", "RUNNING"}
        /\ \A j \in Task : store.status[j] = "RUNNING" => j = chosen
    BY <1>6 DEF PhaseInv, OnlyChosenRuns
  <2>2. store'.deps = store.deps
    BY <1>6, <2>1, ActiveStep
  <2>3. Planned' = Planned
    BY <1>0, <1>6 DEF Planned, PlanInv
  <2> QED BY <1>6, <2>2, <2>3 DEF ActivePackage
<1>7. CASE AllocateWorkspace
  <2>1. phase' = "working"
    BY <1>0, <1>7 DEF AllocateWorkspace, Update, PhaseInv
  <2> QED BY <1>6, <1>7, <2>1 DEF AllocateWorkspace, Update
<1>8. ASSUME NEW s \in {"BLOCKED", "QUEUED"}, AllocationNotGranted(s)
      PROVE  /\ Planned' = Planned /\ store'.deps = store.deps
             /\ ActivePackage' = ActivePackage /\ validated' = validated
             /\ (phase' = "ended") = (phase = "ended")
  <2>1. phase' = "working" /\ current = chosen
    BY <1>0, <1>8 DEF AllocationNotGranted, Update, PhaseInv
  <2> QED BY <1>6, <1>8, <2>1 DEF AllocationNotGranted, Update
<1>9. CASE CompleteItem
  <2>1. /\ current \in Task /\ current = chosen /\ package = chosen
        /\ store.status[current] \in {"READY", "RUNNING"}
        /\ \A j \in Task : store.status[j] = "RUNNING" => j = current
    BY <1>9 DEF CompleteItem, PhaseInv, OnlyChosenRuns
  <2>2. store' = UpdateItem(store, current, "COMPLETED") /\ size' = size
    BY <1>9, <2>1, TaskNumbers DEF CompleteItem, Update
  <2>3. store'.deps = store.deps /\ Planned' = Planned /\ Present(store, current)
    BY <1>0, <2>1, <2>2, ActiveStep DEF PlanInv, Planned
  <2>4. phase = "working" /\ phase' = "selecting" /\ validated' = validated \cup {chosen}
    BY <1>9, <2>1, <2>3, TaskNumbers DEF CompleteItem, Update
  <2> QED BY <2>1, <2>3, <2>4, TaskNumbers DEF Contract!Finish, Planned
<1>10. CASE FinishRun
  <2>1. Unfinished(store) = {}
    BY <1>10 DEF FinishRun, PhaseInv
  <2>2. store' = store
    BY <1>10, <2>1 DEF FinishRun, Unfinished, Present, NoTask
  <2>3. Planned = validated
    BY <2>1 DEF Planned, Unfinished, CompletedIffValidated
  <2> QED BY <1>10, <2>2, <2>3 DEF FinishRun, Contract!Close, Planned
<1> QED
  BY <1>1, <1>3, <1>4, <1>5, <1>7, <1>8, <1>9, <1>10 DEF Next, Run

\* Without concurrent readers the run and its queue implement SequentialPlan.
THEOREM Refinement ==
  ASSUME Readers = {}
  PROVE  Spec => ImplementsSequentialPlan
<1>1. RunInv /\ [Next]_vars => [Contract!Next]_(Contract!planVars)
  BY RefinementStep
<1> QED
  BY <1>1, RunInvHolds, RefinementInit, PTL
  DEF Spec, ImplementsSequentialPlan, Contract!Spec
=============================================================================
