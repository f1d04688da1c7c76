--------------------------- MODULE CapabilitySlots --------------------------
(***************************************************************************)
(* The CapabilityRegistry (packages/capabilities), asked for a slot of the *)
(* role and a slot of the model before every Kilo execution and given them *)
(* back in the finally of execute_kilo_step (runtime/kilo.py).  One thread *)
(* per run.                                                                *)
(*                                                                         *)
(* A request that is WAITING or DENIED changes nothing in the registry and *)
(* is never queued: the step is skipped.  request_allocation() copies the  *)
(* capacities, decides, and writes used_slots + 1 from its copies;         *)
(* release_allocation() reads and writes one capacity after the other.     *)
(* Another thread may run between those steps; switched says that one has. *)
(***************************************************************************)
EXTENDS Integers, FiniteSets

CONSTANTS
  Threads,
  Roles, Models,
  ModelOf,       \* the model-router's choice for each role
  MaxSlots,      \* max_slots of each capacity
  NoRole

Capacities == Roles \cup Models

ASSUME ThreadsAssumption == IsFiniteSet(Threads)
ASSUME RolesAssumption == /\ ModelOf \in [Roles -> Models]
                          /\ Roles \cap Models = {}
                          /\ NoRole \notin Roles
ASSUME SlotsAssumption == MaxSlots \in [Capacities -> Nat \ {0}]

\* _resolve_request_capacities: the role's capacity, then the model's.
Needs(r) == {r, ModelOf[r]}
Needed(r, n) == IF n = 1 THEN r ELSE ModelOf[r]

VARIABLES
  used,      \* used_slots of each capacity
  holds,     \* the role of each thread's entry in _active_allocations
  pc,
  role,      \* the role of the step each thread executes
  seen,      \* the thread's copies of the capacities
  at,        \* the capacity the thread is writing: 1 the role's, 2 the model's
  switched   \* history: a thread ran while another was inside a registry call

slotVars == <<used, holds, pc, role, seen, at, switched>>

Pc == {"idle", "granting", "registering", "executing", "reading", "returning",
       "aborted"}

NoCopies == [c \in Capacities |-> 0]     \* the call has returned

SlotsInit ==
  /\ used = [c \in Capacities |-> 0]
  /\ holds = [t \in Threads |-> NoRole]
  /\ pc = [t \in Threads |-> "idle"]
  /\ role = [t \in Threads |-> NoRole]
  /\ seen = [t \in Threads |-> NoCopies]
  /\ at = [t \in Threads |-> 1]
  /\ switched = FALSE

Between == {"idle", "executing", "aborted"}    \* outside of registry calls

\* t runs: the other threads stand still where they are.
Turn(t) == switched' = (switched \/ \E u \in Threads \ {t} : pc[u] \notin Between)

Goto(t, p) == pc' = [pc EXCEPT ![t] = p]

\* Wrong: the model's capacity is not checked.
RequestRoleOnly(t, r) ==
  /\ pc[t] = "idle" /\ Turn(t)
  /\ used[r] < MaxSlots[r]
  /\ seen' = [seen EXCEPT ![t] = used]
  /\ role' = [role EXCEPT ![t] = r]
  /\ at' = [at EXCEPT ![t] = 1]
  /\ Goto(t, "granting")
  /\ UNCHANGED <<used, holds>>

\* evaluate_allocation_request on the copies: GRANTED.
Request(t, r) ==
  /\ pc[t] = "idle" /\ Turn(t)
  /\ \A c \in Needs(r) : used[c] < MaxSlots[c]
  /\ seen' = [seen EXCEPT ![t] = used]
  /\ role' = [role EXCEPT ![t] = r]
  /\ at' = [at EXCEPT ![t] = 1]
  /\ Goto(t, "granting")
  /\ UNCHANGED <<used, holds>>

Advance(t, again, next) ==
  IF at[t] = 1 THEN at' = [at EXCEPT ![t] = 2] /\ Goto(t, again)
               ELSE at' = [at EXCEPT ![t] = 1] /\ Goto(t, next)

TakeSlot(t) ==
  /\ pc[t] = "granting" /\ Turn(t)
  /\ LET c == Needed(role[t], at[t])
     IN  used' = [used EXCEPT ![c] = seen[t][c] + 1]
  /\ Advance(t, "granting", "registering")
  /\ UNCHANGED <<holds, role, seen>>

RegisterAllocation(t) ==
  /\ pc[t] = "registering" /\ Turn(t)
  /\ holds' = [holds EXCEPT ![t] = role[t]]
  /\ Goto(t, "executing")
  /\ seen' = [seen EXCEPT ![t] = NoCopies]
  /\ UNCHANGED <<used, role, at>>

\* An exception after the grant and before the try: the queue item is gone,
\* or the execution request does not validate.  The allocation stays active.
Abort(t) ==
  /\ pc[t] = "executing" /\ Turn(t)
  /\ Goto(t, "aborted")
  /\ UNCHANGED <<used, holds, role, seen, at>>

\* release_allocation pops the allocation ...
PopAllocation(t) ==
  /\ pc[t] = "executing" /\ Turn(t)
  /\ holds' = [holds EXCEPT ![t] = NoRole]
  /\ Goto(t, "reading")
  /\ UNCHANGED <<used, role, seen, at>>

\* ... and gives back the slots of its capacities in turn.
ReadSlot(t) ==
  /\ pc[t] = "reading" /\ Turn(t)
  /\ LET c == Needed(role[t], at[t])
     IN  seen' = [seen EXCEPT ![t][c] = used[c]]
  /\ Goto(t, "returning")
  /\ UNCHANGED <<used, holds, role, at>>

\* Wrong: no floor.
OneLessUnbounded(n) == n - 1

OneLess(n) == IF n > 0 THEN n - 1 ELSE 0

\* Wrong: the model's slot is kept.
ReturnSlotOfRole(t) ==
  /\ pc[t] = "returning" /\ Turn(t)
  /\ used' = [used EXCEPT ![role[t]] = OneLess(seen[t][role[t]])]
  /\ Goto(t, "idle")
  /\ UNCHANGED <<holds, role, seen, at>>

ReturnSlot(t) ==
  /\ pc[t] = "returning" /\ Turn(t)
  /\ LET c == Needed(role[t], at[t])
     IN  used' = [used EXCEPT ![c] = OneLess(seen[t][c])]
  /\ Advance(t, "reading", "idle")
  /\ seen' = [seen EXCEPT ![t] = NoCopies]
  /\ UNCHANGED <<holds, role>>

SlotsNext ==
  \E t \in Threads :
    \/ \E r \in Roles : Request(t, r)
    \/ TakeSlot(t) \/ RegisterAllocation(t) \/ Abort(t)
    \/ PopAllocation(t) \/ ReadSlot(t) \/ ReturnSlot(t)

SlotsSpec == SlotsInit /\ [][SlotsNext]_slotVars

-----------------------------------------------------------------------------
\* Type invariant of the registry and the threads.
SlotsTypeOK ==
  /\ used \in [Capacities -> Nat]
  /\ holds \in [Threads -> Roles \cup {NoRole}]
  /\ pc \in [Threads -> Pc]
  /\ role \in [Threads -> Roles \cup {NoRole}]
  /\ seen \in [Threads -> [Capacities -> Nat]]
  /\ at \in [Threads -> 1..2]
  /\ switched \in BOOLEAN

HoldersOf(c) == {t \in Threads : holds[t] # NoRole /\ c \in Needs(holds[t])}

\* No more allocations are active than a capacity has slots (README: "cada rol
\* operativo arranca con max_concurrent_tasks=1", "si no hay slots, queda
\* WAITING").
NotOversubscribed ==
  \A c \in Capacities : Cardinality(HoldersOf(c)) <= MaxSlots[c]

\* As long as registry calls were not divided, evaluate_allocation_request keeps
\* every capacity within its slots, aborted executions included.
SlotsRespected == ~ switched => NotOversubscribed

Quiet == \A t \in Threads : pc[t] \in Between

\* As long as registry calls were not divided, used_slots is the number of
\* active allocations between them (request_allocation, release_allocation).
UsedMatchesActive ==
  ~ switched /\ Quiet => \A c \in Capacities : used[c] = Cardinality(HoldersOf(c))

\* No race loses the only slot of a capacity for good: once every execution is
\* over, it is free again if its allocations were released (release_allocation
\* with its floor at zero).
SlotsComeBack ==
  (\A t \in Threads : pc[t] \in {"idle", "aborted"})
    => \A c \in Capacities : MaxSlots[c] = 1 /\ HoldersOf(c) = {} => used[c] = 0
=============================================================================
