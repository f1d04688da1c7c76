------------------------- MODULE ResourceLocksProofs ------------------------
(***************************************************************************)
(* Theorems about ResourceLocks for any items and repositories: what holds *)
(* wherever threads switch, and, for undivided acquire_lock calls, mutual  *)
(* exclusion and the refinement of RepoMutex.                              *)
(***************************************************************************)
EXTENDS ResourceLocks, TLAPS

\* What each program point of a thread knows of its locks and its workspace.
Holds(i, s) == \A k \in Kind : lock[i][k] = s

PointInv(i) ==
  /\ pc[i] \in {"finding", "inserting"} =>
       /\ workspace[i] = "NONE"
       /\ \A k \in Kind : lock[i][k] = IF k < at[i] THEN "ACQUIRED" ELSE "NONE"
  /\ pc[i] = "refused" => workspace[i] = "NONE" /\ Holds(i, "NONE")
  /\ pc[i] = "saving" => workspace[i] = "NONE" /\ Holds(i, "ACQUIRED")
  /\ pc[i] = "activating" => workspace[i] = "ALLOCATED" /\ Holds(i, "ACQUIRED")
  /\ pc[i] \in {"working", "failed"} => workspace[i] = "ACTIVE" /\ Holds(i, "ACQUIRED")
  /\ pc[i] = "releasing" =>
       /\ workspace[i] = "ACTIVE"
       /\ \A k \in Kind : lock[i][k] = IF k < at[i] THEN "RELEASED" ELSE "ACQUIRED"
  /\ pc[i] = "closing" => workspace[i] = "ACTIVE" /\ Holds(i, "RELEASED")
  /\ pc[i] = "done" => workspace[i] = "RELEASED" /\ Holds(i, "RELEASED")

LockInv == LocksTypeOK /\ \A i \in Items : PointInv(i)

\* Only the repository's lock can be held by another item.
LEMMA OnlyRepoContended ==
  ASSUME NEW i \in Items, NEW k \in Kind, ActiveElsewhere(i, k)
  PROVE  k = RepoLock
<1>1. PICK j \in Items \ {i} : Resource(j, k) = Resource(i, k)
  BY DEF ActiveElsewhere
<1>2. k # RepoLock => <<j, k>> = <<i, k>>
  BY <1>1 DEF Resource
<1> QED BY <1>1, <1>2

LEMMA LockInvInit == LocksInit => LockInv
  BY DEF LocksInit, LockInv, LocksTypeOK, PointInv, LockStatus, WorkspaceStatus, Pc, Kind,
         RepoLock

LEMMA LockInvStep == LockInv /\ [LocksNext]_lockVars => LockInv'
<1> SUFFICES ASSUME LockInv, [LocksNext]_lockVars PROVE LockInv'
  OBVIOUS
<1> USE DEF LockInv, LocksTypeOK, Kind, RepoLock, PathLock
<1>1. ASSUME NEW i \in Items, FindActiveLock(i) PROVE LockInv'
  <2>1. ActiveElsewhere(i, at[i]) => at[i] = 1
    BY OnlyRepoContended
  <2>2. LocksTypeOK'
    BY <1>1 DEF FindActiveLock, Goto, Pc
  <2>3. PointInv(i)'
    BY <1>1, <2>1 DEF FindActiveLock, Goto, PointInv, Holds
  <2>4. ASSUME NEW j \in Items \ {i} PROVE PointInv(j)'
    BY <1>1 DEF FindActiveLock, Goto, PointInv, Holds
  <2> QED BY <2>2, <2>3, <2>4
<1>2. ASSUME NEW i \in Items, InsertLock(i) PROVE LockInv'
  <2>1. LocksTypeOK'
    BY <1>2 DEF InsertLock, Goto, Pc, LockStatus
  <2>2. PointInv(i)'
    BY <1>2 DEF InsertLock, Goto, PointInv, Holds
  <2>3. ASSUME NEW j \in Items \ {i} PROVE PointInv(j)'
    BY <1>2 DEF InsertLock, Goto, PointInv, Holds
  <2> QED BY <2>1, <2>2, <2>3
<1>3. ASSUME NEW i \in Items, SaveWorkspace(i) PROVE LockInv'
  BY <1>3 DEF SaveWorkspace, Goto, PointInv, Holds, Pc, WorkspaceStatus
<1>4. ASSUME NEW i \in Items, MarkWorkspaceActive(i) PROVE LockInv'
  BY <1>4 DEF MarkWorkspaceActive, Goto, PointInv, Holds, Pc, WorkspaceStatus
<1>5. ASSUME NEW i \in Items, ReleaseWorkspace(i) PROVE LockInv'
  BY <1>5 DEF ReleaseWorkspace, Goto, PointInv, Holds, Pc
<1>6. ASSUME NEW i \in Items, ReleaseLock(i) PROVE LockInv'
  <2>1. LocksTypeOK'
    BY <1>6 DEF ReleaseLock, Goto, Pc, LockStatus
  <2>2. PointInv(i)'
    BY <1>6 DEF ReleaseLock, Goto, PointInv, Holds
  <2>3. ASSUME NEW j \in Items \ {i} PROVE PointInv(j)'
    BY <1>6 DEF ReleaseLock, Goto, PointInv, Holds
  <2> QED BY <2>1, <2>2, <2>3
<1>7. ASSUME NEW i \in Items, UpdateWorkspace(i) PROVE LockInv'
  BY <1>7 DEF UpdateWorkspace, Goto, PointInv, Holds, Pc, WorkspaceStatus
<1>8. ASSUME NEW i \in Items, RunFails(i) PROVE LockInv'
  BY <1>8 DEF RunFails, Goto, PointInv, Holds, Pc
<1>9. CASE UNCHANGED lockVars
  BY <1>9 DEF lockVars, PointInv, Holds
<1> QED
  BY <1>1, <1>2, <1>3, <1>4, <1>5, <1>6, <1>7, <1>8, <1>9 DEF LocksNext, Step

LEMMA LockInvHolds == LocksSpec => []LockInv
  BY LockInvInit, LockInvStep, PTL DEF LocksSpec

\* The registry and its threads keep their types.
THEOREM TypeCorrect == LocksSpec => []LocksTypeOK
<1>1. LockInv => LocksTypeOK
  BY DEF LockInv
<1> QED BY <1>1, LockInvHolds, PTL

\* Wherever threads switch, a workspace in use has its three locks.
THEOREM WorkspaceLocked == LocksSpec => []WorkspaceIsLocked
<1>1. LockInv => WorkspaceIsLocked
  BY DEF LockInv, LocksTypeOK, Pc, WorkspaceIsLocked, PointInv, Holds
<1> QED BY <1>1, LockInvHolds, PTL

\* Wherever threads switch, an item that was refused a lock holds none.
THEOREM RefusalLeaksNothing == LocksSpec => []RefusedHoldsNothing
<1>1. LockInv => RefusedHoldsNothing
  BY DEF LockInv, RefusedHoldsNothing, PointInv, Holds
<1> QED BY <1>1, LockInvHolds, PTL

\* Wherever threads switch, a RELEASED workspace has no active lock.
THEOREM ReleasedUnlocked == LocksSpec => []ReleasedIsUnlocked
<1>1. LockInv => ReleasedIsUnlocked
  BY DEF LockInv, LocksTypeOK, Pc, ReleasedIsUnlocked, PointInv, Holds
<1> QED BY <1>1, LockInvHolds, PTL

-----------------------------------------------------------------------------
(* Undivided acquire_lock calls. *)

\* A thread that found the repository free still finds it free when it
\* inserts its lock, and is alone between the two.
MutexInv ==
  /\ LockInv
  /\ RepoExclusive
  /\ \A i \in Items : pc[i] = "inserting" =>
       /\ \A j \in Items \ {i} : pc[j] # "inserting"
       /\ at[i] = RepoLock => ~ActiveElsewhere(i, RepoLock)

LEMMA MutexInvStep ==
  ASSUME ~SwitchInside, MutexInv, [LocksNext]_lockVars
  PROVE  MutexInv'
<1>0. LockInv'
  BY LockInvStep DEF MutexInv
<1> USE DEF MutexInv, LockInv, LocksTypeOK, Kind, RepoLock, PathLock
<1> DEFINE Alone == \A i \in Items : pc[i] = "inserting" =>
                      /\ \A j \in Items \ {i} : pc[j] # "inserting"
                      /\ at[i] = RepoLock => ~ActiveElsewhere(i, RepoLock)
<1> SUFFICES RepoExclusive' /\ Alone'
  BY <1>0
<1>1. ASSUME NEW i \in Items, FindActiveLock(i) PROVE RepoExclusive' /\ Alone'
  BY <1>1 DEF FindActiveLock, Goto, Scheduled, RepoExclusive, ActiveElsewhere, Resource
<1>2. ASSUME NEW i \in Items, InsertLock(i) PROVE RepoExclusive' /\ Alone'
  <2>1. CASE at[i] = RepoLock
    <3>1. \A j \in Items \ {i} : RepoOf[j] = RepoOf[i] => lock[j][RepoLock] # "ACQUIRED"
      BY <1>2, <2>1 DEF InsertLock, ActiveElsewhere, Resource
    <3> QED BY <1>2, <2>1, <3>1
            DEF InsertLock, Goto, Scheduled, RepoExclusive
  <2>2. CASE at[i] # RepoLock
    <3>1. \A j \in Items : lock'[j][RepoLock] = lock[j][RepoLock]
      BY <1>2, <2>2 DEF InsertLock
    <3> QED BY <1>2, <3>1 DEF InsertLock, Goto, Scheduled, RepoExclusive
  <2> QED BY <2>1, <2>2
<1>3. ASSUME NEW i \in Items,
             SaveWorkspace(i) \/ MarkWorkspaceActive(i) \/ ReleaseWorkspace(i)
               \/ UpdateWorkspace(i) \/ RunFails(i)
      PROVE  RepoExclusive' /\ Alone'
  BY <1>3 DEF SaveWorkspace, MarkWorkspaceActive, ReleaseWorkspace, UpdateWorkspace,
              RunFails, Goto, Scheduled, RepoExclusive
<1>4. ASSUME NEW i \in Items, ReleaseLock(i) PROVE RepoExclusive' /\ Alone'
  BY <1>4 DEF ReleaseLock, Goto, Scheduled, RepoExclusive
<1>5. CASE UNCHANGED lockVars
  BY <1>5 DEF lockVars, RepoExclusive, ActiveElsewhere
<1> QED BY <1>1, <1>2, <1>3, <1>4, <1>5 DEF LocksNext, Step

LEMMA MutexInvHolds ==
  ASSUME ~SwitchInside
  PROVE  LocksSpec => []MutexInv
<1>1. LocksInit => MutexInv
  <2>1. LocksInit => RepoExclusive
    BY DEF LocksInit, RepoExclusive, Kind, RepoLock
  <2>2. LocksInit => \A i \in Items : pc[i] # "inserting"
    BY DEF LocksInit
  <2> QED BY <2>1, <2>2, LockInvInit DEF MutexInv
<1>2. MutexInv /\ [LocksNext]_lockVars => MutexInv'
  BY MutexInvStep
<1> QED BY <1>1, <1>2, PTL DEF LocksSpec

\* Undivided acquire_lock calls give a repository to one item at a time.
THEOREM RepoMutuallyExclusive ==
  ASSUME ~SwitchInside
  PROVE  LocksSpec => []RepoExclusive
<1>1. MutexInv => RepoExclusive
  BY DEF MutexInv
<1> QED BY <1>1, MutexInvHolds, PTL

\* Under mutual exclusion the owner of a repository is the item with its lock.
LEMMA OwnerIsHolder ==
  ASSUME RepoExclusive, NEW i \in Items, lock[i][RepoLock] = "ACQUIRED"
  PROVE  Owner(RepoOf[i]) = i
  BY DEF RepoExclusive, Owner, Holders

LEMMA FreeHasNoOwner ==
  ASSUME NEW r \in Repos, \A i \in Items : RepoOf[i] = r => lock[i][RepoLock] # "ACQUIRED"
  PROVE  Owner(r) = NoItem
  BY DEF Owner, Holders

\* A step that leaves the repository locks alone leaves their owners alone.
LEMMA SameOwners ==
  ASSUME \A i \in Items : lock'[i][RepoLock] = "ACQUIRED" <=> lock[i][RepoLock] = "ACQUIRED"
  PROVE  [r \in Repos |-> Owner(r)]' = [r \in Repos |-> Owner(r)]
<1>1. ASSUME NEW r \in Repos PROVE Owner(r)' = Owner(r)
  <2>1. Holders(r)' = Holders(r)
    BY DEF Holders
  <2> QED BY <2>1 DEF Owner
<1> QED BY <1>1

LEMMA MutexStep ==
  ASSUME MutexInv, MutexInv', [LocksNext]_lockVars
  PROVE  Mutex!Next \/ [r \in Repos |-> Owner(r)]' = [r \in Repos |-> Owner(r)]
<1> USE DEF MutexInv, LockInv, LocksTypeOK, Kind, RepoLock, PathLock
<1> DEFINE Same == [r \in Repos |-> Owner(r)]' = [r \in Repos |-> Owner(r)]
<1>1. ASSUME NEW i \in Items, InsertLock(i), at[i] = RepoLock PROVE Mutex!Next
  <2> DEFINE R == RepoOf[i]
  <2>1. R \in Repos
    BY RepoAssumption
  <2>2. Owner(R) = NoItem
    <3>1. \A j \in Items : RepoOf[j] = R => lock[j][RepoLock] # "ACQUIRED"
      BY <1>1 DEF InsertLock, ActiveElsewhere, Resource, PointInv
    <3> QED BY <2>1, <3>1, FreeHasNoOwner
  <2>3. lock'[i][RepoLock] = "ACQUIRED"
    BY <1>1 DEF InsertLock
  <2>4. Owner(R)' = i
    BY <2>3 DEF Owner, Holders, RepoExclusive
  <2>5. ASSUME NEW q \in Repos, q # R PROVE Owner(q)' = Owner(q)
    <3>1. Holders(q)' = Holders(q)
      BY <1>1, <2>5 DEF InsertLock, Holders
    <3> QED BY <3>1 DEF Owner
  <2>6. Mutex!Reserve(i, R)
    BY <2>1, <2>2, <2>4, <2>5 DEF Mutex!Reserve
  <2> QED BY <2>1, <2>6 DEF Mutex!Next
<1>2. ASSUME NEW i \in Items, InsertLock(i), at[i] # RepoLock PROVE Same
  BY <1>2, SameOwners DEF InsertLock
<1>3. ASSUME NEW i \in Items, ReleaseLock(i), at[i] = RepoLock PROVE Mutex!Next
  <2> DEFINE R == RepoOf[i]
  <2>1. R \in Repos
    BY RepoAssumption
  <2>2. lock[i][RepoLock] = "ACQUIRED" /\ lock'[i][RepoLock] = "RELEASED"
    BY <1>3 DEF ReleaseLock, PointInv
  <2>3. Owner(R) = i
    BY <2>2, OwnerIsHolder
  <2>4. Owner(R)' = NoItem
    <3>1. \A j \in Items : RepoOf[j] = R => lock'[j][RepoLock] # "ACQUIRED"
      BY <1>3, <2>2 DEF ReleaseLock, RepoExclusive
    <3> QED BY <3>1 DEF Owner, Holders
  <2>5. ASSUME NEW q \in Repos, q # R PROVE Owner(q)' = Owner(q)
    <3>1. Holders(q)' = Holders(q)
      BY <1>3, <2>5 DEF ReleaseLock, Holders
    <3> QED BY <3>1 DEF Owner
  <2>6. Mutex!GiveBack(R)
    BY <2>1, <2>3, <2>4, <2>5, RepoAssumption DEF Mutex!GiveBack
  <2> QED BY <2>1, <2>6 DEF Mutex!Next
<1>4. ASSUME NEW i \in Items, ReleaseLock(i), at[i] # RepoLock PROVE Same
  BY <1>4, SameOwners DEF ReleaseLock
<1>5. ASSUME lock' = lock PROVE Same
  BY <1>5, SameOwners
<1> QED
  BY <1>1, <1>2, <1>3, <1>4, <1>5
  DEF LocksNext, Step, lockVars, FindActiveLock, SaveWorkspace, MarkWorkspaceActive,
      ReleaseWorkspace, UpdateWorkspace, RunFails

\* Undivided acquire_lock calls make the registry implement RepoMutex.
THEOREM Refinement ==
  ASSUME ~SwitchInside
  PROVE  LocksSpec => ImplementsRepoMutex
<1>1. LocksInit => Mutex!Init
  BY DEF LocksInit, Mutex!Init, Owner, Holders, Kind, RepoLock
<1>2. MutexInv /\ MutexInv' /\ [LocksNext]_lockVars => [Mutex!Next]_([r \in Repos |-> Owner(r)])
  BY MutexStep
<1> QED
  BY <1>1, <1>2, MutexInvHolds, PTL DEF LocksSpec, ImplementsRepoMutex, Mutex!Spec
=============================================================================
