------------------------------ MODULE Snapshots -----------------------------
(***************************************************************************)
(* Operational persistence: the registries in memory, the snapshots in     *)
(* Postgres (packages/persistence), restarts and rehydration (app/core/    *)
(* persistence.py, app/main.py, routes/persistence.py).                    *)
(*                                                                         *)
(* Every change of an object replaces it in memory and then saves it: the  *)
(* next version is computed and inserted under a UNIQUE constraint, and an *)
(* error is counted and swallowed.  An object is the number of its last    *)
(* change; 0 is an object that does not exist, and of the capability       *)
(* registry, which is stored as one object, the seed.                      *)
(***************************************************************************)
EXTENDS Naturals, Sequences, FiniteSets

CONSTANTS
  Threads,       \* runs and requests
  Objects,       \* queues, sessions, locks, workspaces, ...
  Slots,         \* one of them: what the CapabilityRegistry holds
  Writers,       \* the threads that change each object
  Registries,    \* the registries: sets of objects that are restored together
  MaxChanges,    \* bound: changes
  MaxFaults      \* bound: failing statements and restarts

ASSUME StorageAssumption ==
  /\ IsFiniteSet(Threads) /\ Slots \in Objects
  /\ Writers \in [Objects -> SUBSET Threads]
  /\ UNION Registries = Objects
  /\ MaxChanges \in Nat /\ MaxFaults \in Nat

Idle == [phase |-> "idle", object |-> Slots, value |-> 0, version |-> 0]

VARIABLES
  memory,      \* the registries
  store,       \* the snapshots of each object, in the order of their versions
  thread,      \* what each thread is saving
  phase,       \* "serving", or the startup: "seeding", "restoring"
  pending,     \* registries that a rehydration has still to restore
  read,        \* what it has read of the registry at hand
  changes,     \* number of changes
  faults,
  degraded,    \* error_count # 0 for some repository
  seeded,      \* the seed of this process was saved
  overtaken,   \* a rehydration served beside the threads since the restart
  acked        \* the newest change of each object whose save succeeded

storageVars == <<memory, store, thread, phase, pending, read, changes, faults,
                 degraded, seeded, overtaken, acked>>
ghosts == <<seeded, overtaken, acked>>

Nothing == [o \in {} |-> 0]

StorageInit ==
  /\ memory = [o \in Objects |-> 0]
  /\ store = [o \in Objects |-> <<>>]
  /\ thread = [t \in Threads |-> Idle]
  /\ phase = "seeding" /\ pending = {} /\ read = Nothing
  /\ changes = 0 /\ faults = 0 /\ degraded = FALSE
  /\ seeded = FALSE /\ overtaken = FALSE
  /\ acked = [o \in Objects |-> 0]

-----------------------------------------------------------------------------
\* list_latest_snapshots keeps the highest version of every entity.
Latest(o) == IF store[o] = <<>> THEN 0 ELSE store[o][Len(store[o])]

\* Postgres fails a statement.
Fault == faults < MaxFaults /\ faults' = faults + 1

Value(o, value) == IF o = Slots THEN memory[o] ELSE value

\* A registry replaces the object; the save that follows carries it.
Change(t, o) ==
  /\ phase = "serving" /\ thread[t].phase = "idle" /\ t \in Writers[o]
  /\ changes < MaxChanges /\ changes' = changes + 1
  /\ memory' = [memory EXCEPT ![o] = changes + 1]
  /\ thread' = [thread EXCEPT ![t] = [phase |-> "changed", object |-> o,
                                      value |-> changes + 1, version |-> 0]]
  /\ UNCHANGED <<store, phase, pending, read, faults, degraded, ghosts>>

\* save_snapshot, first statement: the next version.  The payload was made just
\* before: the object itself, or all of what the CapabilityRegistry holds by now.
ReadVersion(t) ==
  LET o == thread[t].object IN
  /\ thread[t].phase = "changed"
  /\ thread' = [thread EXCEPT ![t].phase = "saving",
                              ![t].value = Value(o, thread[t].value),
                              ![t].version = Len(store[o]) + 1]
  /\ UNCHANGED <<memory, store, phase, pending, read, changes, faults, degraded,
                 ghosts>>

Larger(a, b) == IF a > b THEN a ELSE b

\* ... last statement: the insertion, if nobody inserted that version before.
Insert(t) ==
  LET o == thread[t].object IN
  /\ thread[t].phase = "saving" /\ thread[t].version = Len(store[o]) + 1
  /\ store' = [store EXCEPT ![o] = Append(@, thread[t].value)]
  /\ acked' = [acked EXCEPT ![o] = Larger(acked[o], thread[t].value)]
  /\ thread' = [thread EXCEPT ![t] = Idle]
  /\ UNCHANGED <<memory, phase, pending, read, changes, faults, degraded, seeded,
                 overtaken>>

\* Wrong: the error is not counted.
SaveFailsUnnoticed(t) ==
  LET o == thread[t].object IN
  /\ \/ thread[t].phase \in {"changed", "saving"} /\ Fault
     \/ /\ thread[t].phase = "saving" /\ thread[t].version <= Len(store[o])
        /\ UNCHANGED faults
  /\ thread' = [thread EXCEPT ![t] = Idle]
  /\ UNCHANGED <<memory, store, phase, pending, read, changes, degraded, ghosts>>

\* The UNIQUE constraint or Postgres fails the save: counted, and swallowed by
\* the registry, whose thread goes on.
SaveFails(t) ==
  LET o == thread[t].object IN
  /\ \/ thread[t].phase \in {"changed", "saving"} /\ Fault
     \/ /\ thread[t].phase = "saving" /\ thread[t].version <= Len(store[o])
        /\ UNCHANGED faults
  /\ degraded' = TRUE
  /\ thread' = [thread EXCEPT ![t] = Idle]
  /\ UNCHANGED <<memory, store, phase, pending, read, changes, ghosts>>

-----------------------------------------------------------------------------
\* Wrong: the capability registry is only connected.
SeedUnsaved ==
  /\ phase = "seeding" /\ phase' = "restoring"
  /\ seeded' = TRUE /\ pending' = Registries
  /\ UNCHANGED <<memory, store, thread, read, changes, faults, degraded, overtaken,
                 acked>>

\* configure_operational_persistence: connecting the CapabilityRegistry saves
\* its seed.  Nothing else runs yet, so only Postgres can fail it.
Seed ==
  /\ phase = "seeding" /\ phase' = "restoring" /\ pending' = Registries
  /\ \/ /\ store' = [store EXCEPT ![Slots] = Append(@, memory[Slots])]
        /\ acked' = [acked EXCEPT ![Slots] = memory[Slots]]
        /\ seeded' = TRUE
        /\ UNCHANGED <<faults, degraded>>
     \/ /\ Fault /\ degraded' = TRUE /\ seeded' = FALSE
        /\ UNCHANGED <<store, acked>>
  /\ UNCHANGED <<memory, thread, read, changes, overtaken>>

\* POST /persistence/rehydrate, beside the runs.
Rehydrate ==
  /\ phase = "serving" /\ pending = {} /\ ~ overtaken
  /\ pending' = Registries /\ overtaken' = TRUE
  /\ UNCHANGED <<memory, store, thread, phase, read, changes, faults, degraded,
                 seeded, acked>>

\* rehydrate_registries reads the lists of a registry one after the other ...
ReadList(r, o) ==
  /\ r \in pending /\ o \in r \ DOMAIN read /\ DOMAIN read \subseteq r
  /\ read' = [p \in DOMAIN read \cup {o} |-> IF p = o THEN Latest(o) ELSE read[p]]
  /\ UNCHANGED <<memory, store, thread, phase, pending, changes, faults, degraded,
                 ghosts>>

\* ... a failing one leaves this registry as it is ...
ReadFails(r) ==
  /\ r \in pending /\ DOMAIN read \subseteq r /\ DOMAIN read # r
  /\ Fault /\ degraded' = TRUE
  /\ pending' = pending \ {r} /\ read' = Nothing
  /\ UNCHANGED <<memory, store, thread, phase, changes, ghosts>>

\* ... and with all of them the registry is replaced.
Restore(r) ==
  /\ r \in pending /\ DOMAIN read = r
  /\ memory' = [o \in Objects |-> IF o \in r THEN read[o] ELSE memory[o]]
  /\ pending' = pending \ {r} /\ read' = Nothing
  /\ UNCHANGED <<store, thread, phase, changes, faults, degraded, ghosts>>

\* The lifespan is over and the application serves requests.
Serve ==
  /\ phase = "restoring" /\ pending = {}
  /\ phase' = "serving"
  /\ UNCHANGED <<memory, store, thread, pending, read, changes, faults, degraded,
                 ghosts>>

\* The process dies and starts again: threads, memory and error counts are gone.
Restart ==
  /\ Fault
  /\ memory' = [o \in Objects |-> 0]
  /\ thread' = [t \in Threads |-> Idle]
  /\ phase' = "seeding" /\ pending' = {} /\ read' = Nothing
  /\ degraded' = FALSE /\ seeded' = FALSE /\ overtaken' = FALSE
  /\ UNCHANGED <<store, changes, acked>>

StorageNext ==
  \/ \E t \in Threads : \/ \E o \in Objects : Change(t, o)
                        \/ ReadVersion(t) \/ Insert(t) \/ SaveFails(t)
  \/ Seed \/ Rehydrate \/ Serve \/ Restart
  \/ \E r \in Registries : ReadFails(r) \/ Restore(r) \/ \E o \in r : ReadList(r, o)

StorageSpec == StorageInit /\ [][StorageNext]_storageVars

-----------------------------------------------------------------------------
Change0 == 0..MaxChanges

\* Type invariant of memory, storage and threads.
StorageTypeOK ==
  /\ memory \in [Objects -> Change0] /\ acked \in [Objects -> Change0]
  /\ \A o \in Objects : \A v \in DOMAIN store[o] : store[o][v] \in Change0
  /\ \A t \in Threads : /\ thread[t].phase \in {"idle", "changed", "saving"}
                        /\ thread[t].object \in Objects
                        /\ thread[t].value \in Change0
                        /\ thread[t].version \in Nat
  /\ phase \in {"seeding", "restoring", "serving"}
  /\ pending \subseteq Registries /\ DOMAIN read \subseteq Objects
  /\ changes \in Change0 /\ faults \in 0..MaxFaults
  /\ {degraded, seeded, overtaken} \subseteq BOOLEAN

Own == {o \in Objects \ {Slots} : Cardinality(Writers[o]) = 1}

\* An object of one thread: whatever fails, and however often the process
\* restarts or rehydrates, storage never goes back behind an acknowledged save.
AckedIsDurable == \A o \in Own : Latest(o) = acked[o]

\* Unless health says degraded, or a rehydration worked beside the runs, a crash
\* at this point loses no change of such an object but the one being saved.
OnlyLastChangeAtRisk ==
  phase = "serving" /\ ~ degraded /\ ~ overtaken =>
    \A o \in Own : \/ Latest(o) = memory[o]
                   \/ \E t \in Writers[o] : /\ thread[t].phase # "idle"
                                            /\ thread[t].object = o

\* A crash costs at most the change being saved, as long as health is ok, and
\* never an acknowledged one (save_snapshot, rehydrate_registries).
CrashCostsOneChange == AckedIsDurable /\ OnlyLastChangeAtRisk

\* A process starts with all slots free although the allocations of the runs
\* that died were stored: the seed is the newest version when it is read back.
SlotsStartFree ==
  phase = "restoring" /\ seeded => memory[Slots] = 0
=============================================================================
