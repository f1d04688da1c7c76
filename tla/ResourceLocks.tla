---------------------------- MODULE ResourceLocks ---------------------------
(***************************************************************************)
(* The ResourceRegistry and the WorkspaceAllocator (packages/resources),   *)
(* used by one thread per queue item: the run that works on the item       *)
(* (runtime/resources.py).                                                 *)
(*                                                                         *)
(* acquire_lock() looks for an active lock and then inserts its own; the   *)
(* registry has no mutex, so a thread switch may fall between the two.     *)
(* SwitchInside says whether it may.  A lock id is fresh for every lock    *)
(* and an item takes each of its three locks once, so the lock of an item  *)
(* and a kind stands for its id.                                           *)
(***************************************************************************)
EXTENDS Integers

CONSTANTS
  Items,         \* queue items
  Repos,         \* target repositories
  RepoOf,        \* the repository of each item's task package
  NoItem,
  SwitchInside   \* may a thread switch fall inside acquire_lock?

ASSUME RepoAssumption == RepoOf \in [Items -> Repos] /\ NoItem \notin Items
ASSUME SwitchAssumption == SwitchInside \in BOOLEAN

\* The order in which allocate_workspace takes the locks.
Kind == 1..3
RepoLock == 1
WorkspaceLock == 2
PathLock == 3

\* Wrong: the repository's lock is keyed by the item, and excludes nobody.
ResourcePerItem(i, k) == <<i, k>>

\* Wrong: the repository is locked last.
ResourceRepoLast(i, k) == IF k = PathLock THEN RepoOf[i] ELSE <<i, k>>

\* workspace_id and worktree_path are derived from the queue item's id.
Resource(i, k) == IF k = RepoLock THEN RepoOf[i] ELSE <<i, k>>

VARIABLES
  lock,        \* status of the lock of each item and kind
  workspace,   \* status of the workspace of each item
  pc,          \* where the item's thread is
  at           \* the kind the thread is acquiring or releasing

lockVars == <<lock, workspace, pc, at>>

LockStatus == {"NONE", "ACQUIRED", "RELEASED"}
WorkspaceStatus == {"NONE", "ALLOCATED", "ACTIVE", "RELEASED"}
Pc == {"finding", "inserting", "saving", "activating", "working",
       "releasing", "closing", "done", "refused", "failed"}

LocksInit ==
  /\ lock = [i \in Items |-> [k \in Kind |-> "NONE"]]
  /\ workspace = [i \in Items |-> "NONE"]
  /\ pc = [i \in Items |-> "finding"]
  /\ at = [i \in Items |-> RepoLock]

ActiveElsewhere(i, k) ==
  \E j \in Items \ {i} : Resource(j, k) = Resource(i, k) /\ lock[j][k] = "ACQUIRED"

Goto(i, p) == pc' = [pc EXCEPT ![i] = p]

\* Without switches inside acquire_lock the others wait for the insertion.
Scheduled(i) == SwitchInside \/ \A j \in Items \ {i} : pc[j] # "inserting"

\* Wrong: the lock that was found is ignored.
FindActiveLockIgnored(i) ==
  /\ pc[i] = "finding" /\ Scheduled(i)
  /\ Goto(i, "inserting")
  /\ UNCHANGED <<lock, workspace, at>>

\* acquire_lock: find_active_lock, and the ValueError that ends the run.
FindActiveLock(i) ==
  /\ pc[i] = "finding" /\ Scheduled(i)
  /\ Goto(i, IF ActiveElsewhere(i, at[i]) THEN "refused" ELSE "inserting")
  /\ UNCHANGED <<lock, workspace, at>>

\* Wrong: one lock too many.
InsertLockPastEnd(i) ==
  /\ pc[i] = "inserting" /\ Scheduled(i)
  /\ lock' = [lock EXCEPT ![i][at[i]] = "ACQUIRED"]
  /\ Goto(i, "finding") /\ at' = [at EXCEPT ![i] = at[i] + 1]
  /\ UNCHANGED workspace

\* Wrong: the path is not locked.
InsertLockNotPath(i) ==
  /\ pc[i] = "inserting" /\ Scheduled(i)
  /\ lock' = [lock EXCEPT ![i][at[i]] = "ACQUIRED"]
  /\ IF at[i] < WorkspaceLock
     THEN Goto(i, "finding") /\ at' = [at EXCEPT ![i] = at[i] + 1]
     ELSE Goto(i, "saving") /\ UNCHANGED at
  /\ UNCHANGED workspace

InsertLock(i) ==
  /\ pc[i] = "inserting" /\ Scheduled(i)
  /\ lock' = [lock EXCEPT ![i][at[i]] = "ACQUIRED"]
  /\ IF at[i] < PathLock
     THEN Goto(i, "finding") /\ at' = [at EXCEPT ![i] = at[i] + 1]
     ELSE Goto(i, "saving") /\ UNCHANGED at
  /\ UNCHANGED workspace

SaveWorkspace(i) ==
  /\ pc[i] = "saving" /\ Scheduled(i)
  /\ workspace' = [workspace EXCEPT ![i] = "ALLOCATED"]
  /\ Goto(i, "activating")
  /\ UNCHANGED <<lock, at>>

MarkWorkspaceActive(i) ==
  /\ pc[i] = "activating" /\ Scheduled(i)
  /\ workspace' = [workspace EXCEPT ![i] = "ACTIVE"]
  /\ Goto(i, "working")
  /\ UNCHANGED <<lock, at>>

\* Wrong: the first of lock_ids is skipped.
ReleaseWorkspaceNotRepo(i) ==
  /\ pc[i] = "working" /\ Scheduled(i)
  /\ at' = [at EXCEPT ![i] = WorkspaceLock]
  /\ Goto(i, "releasing")
  /\ UNCHANGED <<lock, workspace>>

\* QA passed: release_workspace goes through lock_ids in order.
ReleaseWorkspace(i) ==
  /\ pc[i] = "working" /\ Scheduled(i)
  /\ at' = [at EXCEPT ![i] = RepoLock]
  /\ Goto(i, "releasing")
  /\ UNCHANGED <<lock, workspace>>

ReleaseLock(i) ==
  /\ pc[i] = "releasing" /\ Scheduled(i)
  /\ lock' = [lock EXCEPT ![i][at[i]] = "RELEASED"]
  /\ IF at[i] < PathLock
     THEN at' = [at EXCEPT ![i] = at[i] + 1] /\ UNCHANGED pc
     ELSE Goto(i, "closing") /\ UNCHANGED at
  /\ UNCHANGED workspace

UpdateWorkspace(i) ==
  /\ pc[i] = "closing" /\ Scheduled(i)
  /\ workspace' = [workspace EXCEPT ![i] = "RELEASED"]
  /\ Goto(i, "done")
  /\ UNCHANGED <<lock, at>>

\* An exception of an agent, of a publisher or of the registry of another
\* package ends the run; no handler releases the workspace.
RunFails(i) ==
  /\ pc[i] = "working" /\ Scheduled(i)
  /\ Goto(i, "failed")
  /\ UNCHANGED <<lock, workspace, at>>

Step(i) ==
  \/ FindActiveLock(i) \/ InsertLock(i) \/ SaveWorkspace(i)
  \/ MarkWorkspaceActive(i) \/ ReleaseWorkspace(i) \/ ReleaseLock(i)
  \/ UpdateWorkspace(i)

LocksNext == \E i \in Items : Step(i) \/ RunFails(i)

LocksSpec == LocksInit /\ [][LocksNext]_lockVars

\* Every thread is scheduled again and again until its run ends.
FairLocksSpec == LocksSpec /\ \A i \in Items : WF_lockVars(Step(i))

-----------------------------------------------------------------------------
\* Type invariant of the registry and the threads.
LocksTypeOK ==
  /\ lock \in [Items -> [Kind -> LockStatus]]
  /\ workspace \in [Items -> WorkspaceStatus]
  /\ pc \in [Items -> Pc]
  /\ at \in [Items -> Kind]

\* A repository has at most one active lock (README: "evitar mas de una task
\* simultanea por repo").
RepoExclusive ==
  \A i, j \in Items : /\ lock[i][RepoLock] = "ACQUIRED"
                      /\ lock[j][RepoLock] = "ACQUIRED"
                      /\ RepoOf[i] = RepoOf[j]
                      => i = j

\* A workspace in use is covered by all three of its locks, from the moment
\* allocate_workspace saves it until release_workspace begins.
WorkspaceIsLocked ==
  \A i \in Items : workspace[i] \in {"ALLOCATED", "ACTIVE"}
                     /\ pc[i] \notin {"releasing", "closing"}
                   => \A k \in Kind : lock[i][k] = "ACQUIRED"

\* An item that is refused a lock is left with none: the repository lock,
\* the only one another item can hold, is the first to be asked for.
RefusedHoldsNothing ==
  \A i \in Items : pc[i] = "refused"
    => workspace[i] = "NONE" /\ \A k \in Kind : lock[i][k] = "NONE"

\* A RELEASED workspace has no active lock.
ReleasedIsUnlocked ==
  \A i \in Items : workspace[i] = "RELEASED"
                     => \A k \in Kind : lock[i][k] # "ACQUIRED"

\* A lock is given back unless its run fails.
LocksAreReleased ==
  \A i \in Items : lock[i][RepoLock] = "ACQUIRED"
                     ~> lock[i][RepoLock] = "RELEASED" \/ pc[i] = "failed"

\* The item that holds the repository's lock.
Holders(r) == {i \in Items : RepoOf[i] = r /\ lock[i][RepoLock] = "ACQUIRED"}
Owner(r) == IF Holders(r) = {} THEN NoItem ELSE CHOOSE i \in Holders(r) : TRUE

Mutex == INSTANCE RepoMutex WITH owner <- [r \in Repos |-> Owner(r)]

\* With undivided acquire_lock calls the registry implements RepoMutex.
ImplementsRepoMutex == Mutex!Spec
=============================================================================
