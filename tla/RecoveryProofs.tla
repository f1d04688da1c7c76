---------------------------- MODULE RecoveryProofs --------------------------
(***************************************************************************)
(* Theorems about what Lummevia does when something went wrong.            *)
(*                                                                         *)
(* Snapshots, for any threads, objects and registries and any number of    *)
(* changes and faults: what an acknowledged save is worth after failures   *)
(* and restarts.                                                           *)
(*                                                                         *)
(* Supervision, for any number of tasks, threads of requests and mishaps:  *)
(* who is watched, how often a silence is recovered from, and that the     *)
(* sessions tell the work.                                                 *)
(***************************************************************************)
EXTENDS Snapshots, Supervision, FiniteSetTheorems, TLAPS

-----------------------------------------------------------------------------
Phases == {"idle", "changed", "saving"}

(* What a thread is saving, as far as the theorems look at it. *)
IsSave(save) ==
  /\ DOMAIN save = {"phase", "object", "value", "version"}
  /\ save.phase \in Phases /\ save.object \in Objects
  /\ save.value \in Change0 /\ save.version \in Nat

(* Types: StorageTypeOK, and the domains it leaves open. *)
StorageTyped ==
  /\ memory \in [Objects -> Change0] /\ acked \in [Objects -> Change0]
  /\ store \in [Objects -> Seq(Change0)]
  /\ DOMAIN thread = Threads /\ \A t \in Threads : IsSave(thread[t])
  /\ phase \in {"seeding", "restoring", "serving"}
  /\ pending \subseteq Registries /\ DOMAIN read \subseteq Objects
  /\ \A o \in DOMAIN read : read[o] \in Change0
  /\ changes \in Change0 /\ faults \in 0..MaxFaults
  /\ {degraded, seeded, overtaken} \subseteq BOOLEAN

(* A save is made while the process serves, by a writer of the object. *)
SavesAreServed ==
  \A t \in Threads : thread[t].phase # "idle" =>
    phase = "serving" /\ t \in Writers[thread[t].object]

Saves(t, o) == thread[t].phase # "idle" /\ thread[t].object = o

(* What is stored of an object of one thread is its newest acknowledged      *)
(* change, and what the thread is saving is no older.                        *)
OwnInOrder ==
  \A o \in Own :
    /\ acked[o] <= changes /\ Latest(o) = acked[o]
    /\ \A t \in Threads : Saves(t, o) =>
         acked[o] <= thread[t].value /\ thread[t].value <= changes

(* What a restart has done to the objects of one thread so far. *)
OwnRestored ==
  /\ phase = "seeding" => pending = {} /\ DOMAIN read = {}
  /\ phase = "serving" /\ ~ overtaken => pending = {}
  /\ \A o \in Own :
       /\ phase = "restoring" /\ o \in DOMAIN read => read[o] = Latest(o)
       /\ phase = "restoring" /\ ~ degraded =>
            memory[o] = Latest(o) \/ \E r \in pending : o \in r
       /\ phase = "serving" /\ ~ overtaken =>
            \A t \in Threads : Saves(t, o) => thread[t].value = memory[o]

(* What it has done to the slots. *)
SlotsSeeded ==
  /\ phase = "seeding" => memory[Slots] = 0
  /\ phase = "restoring" /\ seeded =>
       /\ memory[Slots] = 0 /\ Latest(Slots) = 0
       /\ Slots \in DOMAIN read => read[Slots] = 0

StorageInv == /\ StorageTyped /\ SavesAreServed /\ OwnInOrder
        /\ OwnRestored /\ OnlyLastChangeAtRisk /\ SlotsSeeded

-----------------------------------------------------------------------------
(* An object of one thread has one writer. *)
LEMMA OneWriter ==
  ASSUME NEW o \in Own, NEW t \in Writers[o], NEW u \in Writers[o]
  PROVE  t = u
<1>1. Writers[o] \subseteq Threads /\ IsFiniteSet(Threads)
  BY StorageAssumption DEF Own
<1>2. IsFiniteSet(Writers[o])
  BY <1>1, FS_Subset
<1>3. Cardinality(Writers[o]) = 1
  BY DEF Own
<1>4. PICK w : Writers[o] = {w}
  BY <1>2, <1>3, FS_Singleton
<1> QED BY <1>4

LEMMA OwnObject == Own \subseteq Objects /\ Slots \notin Own
  BY DEF Own

LEMMA ChangeNat == Change0 \subseteq Nat /\ 0 \in Change0
  BY StorageAssumption DEF Change0

(* The last of a sequence is what was appended. *)
LEMMA LastAppended ==
  ASSUME NEW s \in Seq(Change0), NEW v \in Change0
  PROVE  /\ Append(s, v) \in Seq(Change0) /\ Append(s, v) # <<>>
         /\ Append(s, v)[Len(Append(s, v))] = v
  OBVIOUS

LEMMA IdleSave == IsSave(Idle) /\ Idle.phase = "idle"
  BY StorageAssumption, ChangeNat DEF IsSave, Idle, Phases

-----------------------------------------------------------------------------
LEMMA InitTyped == StorageInit => StorageInv
<1> SUFFICES ASSUME StorageInit PROVE StorageInv
  OBVIOUS
<1>1. StorageTyped
  <2>1. /\ memory \in [Objects -> Change0] /\ acked \in [Objects -> Change0]
        /\ store \in [Objects -> Seq(Change0)]
    BY ChangeNat DEF StorageInit
  <2>2. DOMAIN thread = Threads /\ \A t \in Threads : IsSave(thread[t])
    BY IdleSave DEF StorageInit
  <2>3. changes \in Change0 /\ faults \in 0..MaxFaults
    BY ChangeNat, StorageAssumption DEF StorageInit
  <2> QED BY <2>1, <2>2, <2>3 DEF StorageInit, StorageTyped, Nothing
<1>2. SavesAreServed /\ OwnInOrder
  BY IdleSave, OwnObject, ChangeNat
  DEF StorageInit, SavesAreServed, OwnInOrder, Latest, Saves
<1>3. OwnRestored /\ OnlyLastChangeAtRisk /\ SlotsSeeded
  BY StorageAssumption
  DEF StorageInit, OwnRestored, OnlyLastChangeAtRisk, SlotsSeeded, Nothing
<1> QED BY <1>1, <1>2, <1>3 DEF StorageInv

(* A change is newer than all of the object that is stored. *)
LEMMA ChangeStep ==
  ASSUME StorageInv, NEW t \in Threads, NEW o \in Objects, Change(t, o)
  PROVE  StorageInv'
<1> DEFINE save == [phase |-> "changed", object |-> o, value |-> changes + 1,
                    version |-> 0]
<1>1. /\ changes + 1 \in Change0 /\ changes \in Nat /\ changes' = changes + 1
      /\ phase = "serving" /\ phase' = "serving" /\ t \in Writers[o]
      /\ thread[t].phase = "idle"
  BY StorageAssumption DEF Change, StorageInv, StorageTyped, Change0
<1>2. IsSave(save) /\ save.phase # "idle" /\ save.object = o
      /\ save.value = changes + 1
  BY <1>1, ChangeNat DEF IsSave, Phases
<1> HIDE DEF save
<1>3. /\ DOMAIN thread' = Threads /\ thread'[t] = save
      /\ \A u \in Threads \ {t} : thread'[u] = thread[u]
  BY DEF Change, StorageInv, StorageTyped, save
<1>4. /\ memory' \in [Objects -> Change0] /\ memory'[o] = changes + 1
      /\ \A p \in Objects \ {o} : memory'[p] = memory[p]
  BY <1>1 DEF Change, StorageInv, StorageTyped
<1>5. UNCHANGED <<store, pending, read, faults, degraded, seeded, overtaken, acked>>
  BY DEF Change, ghosts
<1>6. \A p \in Objects : Latest(p)' = Latest(p)
  BY <1>5 DEF Latest
<1>7. StorageTyped'
  BY <1>1, <1>2, <1>3, <1>4, <1>5 DEF StorageInv, StorageTyped
<1>8. SavesAreServed'
  BY <1>1, <1>2, <1>3 DEF StorageInv, SavesAreServed
<1>9. \A u \in Threads, p \in Objects :
        Saves(u, p)' => \/ u = t /\ p = o
                        \/ u # t /\ Saves(u, p)
  <2> TAKE u \in Threads, p \in Objects
  <2>1. CASE u = t
    BY <2>1, <1>2, <1>3 DEF Saves
  <2>2. CASE u # t
    BY <2>2, <1>3 DEF Saves
  <2> QED BY <2>1, <2>2
<1>10. \A u \in Threads, p \in Own : u # t /\ Saves(u, p) => p # o
  BY <1>1, OneWriter DEF StorageInv, SavesAreServed, Saves
<1>11. OwnInOrder'
  <2> SUFFICES ASSUME NEW p \in Own'
               PROVE  /\ acked'[p] <= changes' /\ Latest(p)' = acked'[p]
                      /\ \A u \in Threads : Saves(u, p)' =>
                           acked'[p] <= thread'[u].value /\ thread'[u].value <= changes'
    BY DEF OwnInOrder
  <2>1. p \in Own /\ p \in Objects
    BY DEF Own
  <2>2. acked[p] \in Nat /\ acked[p] <= changes /\ Latest(p) = acked[p]
    BY <2>1, ChangeNat DEF StorageInv, StorageTyped, OwnInOrder
  <2>3. acked'[p] <= changes' /\ Latest(p)' = acked'[p]
    BY <2>1, <2>2, <1>1, <1>5, <1>6
  <2>4. ASSUME NEW u \in Threads, Saves(u, p)'
        PROVE  acked'[p] <= thread'[u].value /\ thread'[u].value <= changes'
    <3>1. CASE u = t
      BY <3>1, <2>2, <1>1, <1>2, <1>3, <1>5
    <3>2. CASE u # t
      <4>1. Saves(u, p)
        BY <3>2, <2>4, <2>1, <1>9
      <4>2. thread[u].value \in Nat /\ thread[u].value <= changes
        BY <4>1, <2>1, ChangeNat DEF StorageInv, StorageTyped, IsSave, OwnInOrder
      <4>3. acked[p] <= thread[u].value
        BY <4>1, <2>1 DEF StorageInv, OwnInOrder
      <4> QED BY <4>2, <4>3, <3>2, <1>1, <1>3, <1>5
    <3> QED BY <3>1, <3>2
  <2> QED BY <2>3, <2>4
<1>12. OwnRestored'
  <2>1. /\ pending' = pending /\ (~ overtaken' => pending' = {})
    BY <1>1, <1>5 DEF StorageInv, OwnRestored
  <2>2. ASSUME NEW p \in Own, ~ overtaken, NEW u \in Threads, Saves(u, p)'
        PROVE  thread'[u].value = memory'[p]
    <3>1. CASE u = t /\ p = o
      BY <3>1, <1>2, <1>3, <1>4
    <3>2. CASE u # t /\ Saves(u, p)
      <4>1. thread[u].value = memory[p] /\ p # o /\ p \in Objects
        BY <3>2, <2>2, <1>1, <1>10, OwnObject DEF StorageInv, OwnRestored
      <4> QED BY <4>1, <3>2, <1>3, <1>4
    <3> QED BY <3>1, <3>2, <2>2, <1>9, OwnObject
  <2>3. Own' = Own
    BY DEF Own
  <2> QED BY <2>1, <2>2, <2>3, <1>1, <1>5 DEF OwnRestored
<1>13. OnlyLastChangeAtRisk'
  <2> SUFFICES ASSUME ~ degraded, ~ overtaken, NEW p \in Own
               PROVE  \/ Latest(p)' = memory'[p]
                      \/ \E u \in Writers[p] : Saves(u, p)'
    BY <1>1, <1>5 DEF OnlyLastChangeAtRisk, Own, Saves
  <2>1. CASE p = o
    BY <2>1, <1>1, <1>2, <1>3 DEF Saves
  <2>2. CASE p # o
    <3>1. Writers[p] \subseteq Threads /\ p \in Objects
      BY OwnObject, StorageAssumption
    <3>2. Latest(p) = memory[p] \/ \E u \in Writers[p] : Saves(u, p)
      BY <1>1 DEF StorageInv, OnlyLastChangeAtRisk, Saves
    <3>3. CASE Latest(p) = memory[p]
      BY <3>3, <3>1, <2>2, <1>4, <1>6
    <3>4. ASSUME NEW u \in Writers[p], Saves(u, p)
          PROVE  Saves(u, p)'
      BY <3>4, <3>1, <1>1, <1>3 DEF Saves
    <3> QED BY <3>2, <3>3, <3>4
  <2> QED BY <2>1, <2>2
<1>14. SlotsSeeded'
  BY <1>1 DEF SlotsSeeded
<1> QED BY <1>7, <1>8, <1>11, <1>12, <1>13, <1>14 DEF StorageInv

(* The version is read: the save is of the same object and, unless that is *)
(* the slots, of the same change. *)
LEMMA ReadVersionStep ==
  ASSUME StorageInv, NEW t \in Threads, ReadVersion(t)
  PROVE  StorageInv'
<1> DEFINE o == thread[t].object
<1>1. /\ IsSave(thread[t]) /\ thread[t].phase = "changed" /\ o \in Objects
      /\ store[o] \in Seq(Change0) /\ memory[o] \in Change0
  BY DEF ReadVersion, StorageInv, StorageTyped, IsSave
<1>2. thread' = [thread EXCEPT ![t] = [thread[t] EXCEPT !.phase = "saving",
                                         !.value = Value(o, thread[t].value),
                                         !.version = Len(store[o]) + 1]]
  BY DEF ReadVersion
<1>3. UNCHANGED <<memory, store, phase, pending, read, changes, faults, degraded,
                  seeded, overtaken, acked>>
  BY DEF ReadVersion, ghosts
<1>4. /\ DOMAIN thread' = Threads
      /\ \A u \in Threads \ {t} : thread'[u] = thread[u]
  BY <1>2 DEF StorageInv, StorageTyped
<1>5. DOMAIN thread'[t] = DOMAIN thread[t]
  BY <1>2 DEF StorageInv, StorageTyped
<1>6. /\ thread'[t].phase = "saving" /\ thread'[t].object = o
      /\ thread'[t].value = Value(o, thread[t].value)
      /\ thread'[t].version = Len(store[o]) + 1
  BY <1>1, <1>2 DEF StorageInv, StorageTyped, IsSave
<1>7. Value(o, thread[t].value) \in Change0
  BY <1>1 DEF Value, IsSave
<1>8. IsSave(thread'[t])
  BY <1>1, <1>5, <1>6, <1>7 DEF IsSave, Phases
<1> HIDE DEF o
<1>9. \A p \in Objects : Latest(p)' = Latest(p)
  BY <1>3 DEF Latest
<1>10. \A u \in Threads, p \in Own :
         /\ Saves(u, p)' <=> Saves(u, p)
         /\ Saves(u, p) => thread'[u].value = thread[u].value
  <2> TAKE u \in Threads, p \in Own
  <2>1. CASE u = t
    BY <2>1, <1>1, <1>6, OwnObject DEF Saves, Value, o
  <2>2. CASE u # t
    BY <2>2, <1>4 DEF Saves
  <2> QED BY <2>1, <2>2
<1>11. Own' = Own
  BY DEF Own
<1>12. StorageTyped'
  BY <1>3, <1>4, <1>8 DEF StorageInv, StorageTyped
<1>13. SavesAreServed'
  BY <1>1, <1>3, <1>4, <1>6 DEF StorageInv, SavesAreServed, o
<1>14. OwnInOrder'
  BY <1>3, <1>9, <1>10, <1>11, OwnObject DEF StorageInv, OwnInOrder
<1>15. OwnRestored'
  BY <1>3, <1>9, <1>10, <1>11, OwnObject DEF StorageInv, OwnRestored
<1>16. OnlyLastChangeAtRisk'
  <2>1. \A p \in Own : Writers[p] \subseteq Threads
    BY OwnObject, StorageAssumption
  <2> QED BY <2>1, <1>3, <1>9, <1>10, <1>11, OwnObject
          DEF StorageInv, OnlyLastChangeAtRisk, Saves
<1>17. SlotsSeeded'
  BY <1>3, <1>9, StorageAssumption DEF StorageInv, SlotsSeeded
<1> QED BY <1>12, <1>13, <1>14, <1>15, <1>16, <1>17 DEF StorageInv

(* An insertion acknowledges the save: the object is stored as it is in memory. *)
LEMMA InsertStep ==
  ASSUME StorageInv, NEW t \in Threads, Insert(t)
  PROVE  StorageInv'
<1> PICK o, v : o = thread[t].object /\ v = thread[t].value
  OBVIOUS
<1>1. /\ o \in Objects /\ v \in Change0 /\ thread[t].phase # "idle"
      /\ store[o] \in Seq(Change0) /\ acked[o] \in Change0 /\ v \in Nat /\ acked[o] \in Nat
  BY ChangeNat DEF Insert, StorageInv, StorageTyped, IsSave
<1>2. phase = "serving" /\ t \in Writers[o]
  BY <1>1 DEF StorageInv, SavesAreServed
<1>3. /\ UNCHANGED <<memory, phase, pending, read, changes, faults, degraded, seeded,
                     overtaken>>
      /\ store' = [store EXCEPT ![o] = Append(@, v)]
      /\ acked' = [acked EXCEPT ![o] = Larger(acked[o], v)]
      /\ thread' = [thread EXCEPT ![t] = Idle]
  BY DEF Insert
<1>4. /\ DOMAIN thread' = Threads /\ thread'[t] = Idle
      /\ \A u \in Threads \ {t} : thread'[u] = thread[u]
  BY <1>3 DEF StorageInv, StorageTyped
<1>5. Larger(acked[o], v) \in Change0
  BY <1>1 DEF Larger
<1>6. /\ acked' \in [Objects -> Change0] /\ acked'[o] = Larger(acked[o], v)
      /\ \A p \in Objects \ {o} : acked'[p] = acked[p]
  BY <1>1, <1>3, <1>5 DEF StorageInv, StorageTyped
<1>7. /\ store' \in [Objects -> Seq(Change0)] /\ store'[o] = Append(store[o], v)
      /\ \A p \in Objects \ {o} : store'[p] = store[p]
  BY <1>1, <1>3, LastAppended DEF StorageInv, StorageTyped
<1>8. Latest(o)' = v
  <2>1. PICK s : s = Append(store[o], v)
    OBVIOUS
  <2>2. s # <<>> /\ s[Len(s)] = v
    BY <2>1, <1>1, LastAppended
  <2>3. store'[o] = s
    BY <2>1, <1>7
  <2> QED BY <2>2, <2>3 DEF Latest
<1>9. \A p \in Objects \ {o} : Latest(p)' = Latest(p)
  BY <1>7 DEF Latest
<1>10. \A u \in Threads, p \in Objects : Saves(u, p)' => u # t /\ Saves(u, p)
  BY <1>4, IdleSave DEF Saves
<1>11. \A u \in Threads, p \in Own : u # t /\ Saves(u, p) => p # o
  BY <1>2, OneWriter DEF StorageInv, SavesAreServed, Saves
<1>12. Own' = Own
  BY DEF Own
<1>13. StorageTyped'
  BY <1>3, <1>4, <1>6, <1>7, IdleSave DEF StorageInv, StorageTyped
<1>14. SavesAreServed'
  BY <1>3, <1>4, IdleSave DEF StorageInv, SavesAreServed
<1>15. OwnInOrder'
  <2> SUFFICES ASSUME NEW p \in Own
               PROVE  /\ acked'[p] <= changes' /\ Latest(p)' = acked'[p]
                      /\ \A u \in Threads : Saves(u, p)' =>
                           acked'[p] <= thread'[u].value /\ thread'[u].value <= changes'
    BY <1>12 DEF OwnInOrder
  <2>1. CASE p = o
    <3>1. \A u \in Threads : ~ Saves(u, p)'
      BY <2>1, <1>10, <1>11, OwnObject
    <3>2. acked[o] <= v /\ v <= changes
      BY <2>1, <1>1 DEF StorageInv, OwnInOrder, Saves
    <3>3. acked'[p] = v
      BY <2>1, <3>2, <1>1, <1>6 DEF Larger
    <3> QED BY <3>1, <3>2, <3>3, <2>1, <1>3, <1>8
  <2>2. CASE p # o
    <3>1. /\ p \in Objects /\ acked'[p] = acked[p] /\ Latest(p)' = Latest(p)
      BY <2>2, <1>6, <1>9, OwnObject
    <3>2. acked[p] <= changes /\ Latest(p) = acked[p]
      BY DEF StorageInv, OwnInOrder
    <3>3. ASSUME NEW u \in Threads, Saves(u, p)'
          PROVE  acked[p] <= thread'[u].value /\ thread'[u].value <= changes
      BY <3>1, <3>3, <1>4, <1>10 DEF StorageInv, OwnInOrder
    <3> QED BY <3>1, <3>2, <3>3, <1>3
  <2> QED BY <2>1, <2>2
<1>16. OwnRestored'
  <2>1. ASSUME NEW p \in Own, ~ overtaken, NEW u \in Threads, Saves(u, p)'
        PROVE  thread'[u].value = memory'[p]
    BY <2>1, <1>2, <1>3, <1>4, <1>10, OwnObject DEF StorageInv, OwnRestored
  <2> QED BY <2>1, <1>2, <1>3, <1>12 DEF StorageInv, OwnRestored
<1>17. OnlyLastChangeAtRisk'
  <2> SUFFICES ASSUME ~ degraded, ~ overtaken, NEW p \in Own
               PROVE  \/ Latest(p)' = memory'[p]
                      \/ \E u \in Writers[p] : Saves(u, p)'
    BY <1>3, <1>12 DEF OnlyLastChangeAtRisk, Saves
  <2>1. CASE p = o
    <3>1. v = memory[o]
      BY <2>1, <1>1, <1>2 DEF StorageInv, OwnRestored, Saves
    <3> QED BY <3>1, <2>1, <1>3, <1>8
  <2>2. CASE p # o
    <3>1. Writers[p] \subseteq Threads /\ p \in Objects
      BY OwnObject, StorageAssumption
    <3>2. Latest(p) = memory[p] \/ \E u \in Writers[p] : Saves(u, p)
      BY <1>2 DEF StorageInv, OnlyLastChangeAtRisk, Saves
    <3>3. ASSUME NEW u \in Writers[p], Saves(u, p)
          PROVE  Saves(u, p)'
      BY <3>3, <3>1, <2>2, <1>4 DEF Saves
    <3> QED BY <3>1, <3>2, <3>3, <2>2, <1>3, <1>9
  <2> QED BY <2>1, <2>2
<1>18. SlotsSeeded'
  BY <1>2, <1>3 DEF SlotsSeeded
<1> QED BY <1>13, <1>14, <1>15, <1>16, <1>17, <1>18 DEF StorageInv

(* A failing save changes nothing, and health says so. *)
LEMMA SaveFailsStep ==
  ASSUME StorageInv, NEW t \in Threads, SaveFails(t)
  PROVE  StorageInv'
<1>1. /\ UNCHANGED <<memory, store, phase, pending, read, changes, seeded, overtaken,
                     acked>>
      /\ degraded' = TRUE /\ faults' \in 0..MaxFaults
      /\ thread' = [thread EXCEPT ![t] = Idle]
  BY StorageAssumption DEF SaveFails, ghosts, Fault, StorageInv, StorageTyped
<1>2. /\ DOMAIN thread' = Threads /\ thread'[t] = Idle
      /\ \A u \in Threads \ {t} : thread'[u] = thread[u]
  BY <1>1 DEF StorageInv, StorageTyped
<1>3. thread[t].phase # "idle"
  BY DEF SaveFails
<1>4. phase = "serving"
  BY <1>3 DEF StorageInv, SavesAreServed
<1>5. \A p \in Objects : Latest(p)' = Latest(p)
  BY <1>1 DEF Latest
<1>6. \A u \in Threads, p \in Objects : Saves(u, p)' => u # t /\ Saves(u, p)
  BY <1>2, IdleSave DEF Saves
<1>7. Own' = Own
  BY DEF Own
<1>8. StorageTyped'
  BY <1>1, <1>2, IdleSave DEF StorageInv, StorageTyped
<1>9. SavesAreServed'
  BY <1>1, <1>2, IdleSave DEF StorageInv, SavesAreServed
<1>10. OwnInOrder'
  BY <1>1, <1>2, <1>5, <1>6, <1>7, OwnObject DEF StorageInv, OwnInOrder
<1>11. OwnRestored'
  BY <1>1, <1>2, <1>4, <1>6, <1>7, OwnObject DEF StorageInv, OwnRestored
<1>12. OnlyLastChangeAtRisk' /\ SlotsSeeded'
  BY <1>1, <1>4 DEF OnlyLastChangeAtRisk, SlotsSeeded
<1> QED BY <1>8, <1>9, <1>10, <1>11, <1>12 DEF StorageInv

-----------------------------------------------------------------------------
(* The threads and the objects of one thread, when only a restart goes on. *)
LEMMA OwnKept ==
  ASSUME StorageInv, UNCHANGED <<thread, changes>>,
         \A o \in Own : acked'[o] = acked[o] /\ Latest(o)' = Latest(o)
  PROVE  OwnInOrder' /\ \A t, o : Saves(t, o)' <=> Saves(t, o)
<1>1. Own' = Own /\ \A t, o : Saves(t, o)' <=> Saves(t, o)
  BY DEF Own, Saves
<1> QED BY <1>1 DEF StorageInv, OwnInOrder

(* While the process starts, nothing is being saved. *)
LEMMA StartingIsQuiet ==
  ASSUME StorageInv, phase # "serving", UNCHANGED thread
  PROVE  /\ SavesAreServed'
         /\ \A t \in Threads : \A o : ~ Saves(t, o) /\ ~ Saves(t, o)'
<1>1. \A t \in Threads : thread[t].phase = "idle"
  BY DEF StorageInv, SavesAreServed
<1> QED BY <1>1 DEF SavesAreServed, Saves

(* The seed is an object of its own; every object is in a registry to restore. *)
LEMMA SeedStep == ASSUME StorageInv, Seed PROVE StorageInv'
<1>1. /\ phase = "seeding" /\ phase' = "restoring" /\ pending' = Registries
      /\ UNCHANGED <<memory, thread, read, changes, overtaken>>
  BY DEF Seed
<1>2. /\ Slots \in Objects /\ memory[Slots] = 0 /\ DOMAIN read = {}
      /\ store[Slots] \in Seq(Change0) /\ 0 \in Change0
      /\ \A o \in Own : \E r \in Registries : o \in r
  BY <1>1, StorageAssumption, ChangeNat, OwnObject
  DEF StorageInv, StorageTyped, OwnRestored, SlotsSeeded
<1>3. /\ acked' \in [Objects -> Change0] /\ store' \in [Objects -> Seq(Change0)]
      /\ \A o \in Own : acked'[o] = acked[o] /\ store'[o] = store[o]
      /\ faults' \in 0..MaxFaults /\ {degraded', seeded'} \subseteq BOOLEAN
      /\ seeded' => store'[Slots] = Append(store[Slots], 0)
  <2>1. CASE /\ store' = [store EXCEPT ![Slots] = Append(@, memory[Slots])]
             /\ acked' = [acked EXCEPT ![Slots] = memory[Slots]]
             /\ seeded' = TRUE /\ UNCHANGED <<faults, degraded>>
    <3>1. Append(store[Slots], 0) \in Seq(Change0)
      BY <1>2, LastAppended
    <3>2. acked' \in [Objects -> Change0] /\ store' \in [Objects -> Seq(Change0)]
      BY <2>1, <3>1, <1>2 DEF StorageInv, StorageTyped
    <3>3. \A o \in Own : acked'[o] = acked[o] /\ store'[o] = store[o]
      BY <2>1, OwnObject DEF StorageInv, StorageTyped
    <3>4. store'[Slots] = Append(store[Slots], 0)
      BY <2>1, <1>2 DEF StorageInv, StorageTyped
    <3>5. faults' \in 0..MaxFaults /\ {degraded', seeded'} \subseteq BOOLEAN
      BY <2>1 DEF StorageInv, StorageTyped
    <3> QED BY <3>2, <3>3, <3>4, <3>5
  <2>2. CASE /\ Fault /\ degraded' = TRUE /\ seeded' = FALSE
             /\ UNCHANGED <<store, acked>>
    <3>1. faults' \in 0..MaxFaults
      BY <2>2, StorageAssumption DEF Fault, StorageInv, StorageTyped
    <3>2. ~ seeded' /\ {degraded', seeded'} \subseteq BOOLEAN
      BY <2>2
    <3> QED BY <3>1, <3>2, <2>2 DEF StorageInv, StorageTyped
  <2> QED BY <2>1, <2>2 DEF Seed
<1>4. \A o \in Own : Latest(o)' = Latest(o)
  BY <1>3 DEF Latest
<1>5. seeded' => Latest(Slots)' = 0
  <2>1. PICK s : s = Append(store[Slots], 0)
    OBVIOUS
  <2>2. s # <<>> /\ s[Len(s)] = 0
    BY <2>1, <1>2, LastAppended
  <2>3. seeded' => store'[Slots] = s
    BY <2>1, <1>3
  <2> QED BY <2>2, <2>3 DEF Latest
<1>6. StorageTyped'
  BY <1>1, <1>3 DEF StorageInv, StorageTyped
<1>7. SavesAreServed'
  BY <1>1, StartingIsQuiet
<1>8. OwnInOrder'
  BY <1>1, <1>3, <1>4, OwnKept
<1>9. OwnRestored'
  BY <1>1, <1>2 DEF OwnRestored, Own
<1>10. OnlyLastChangeAtRisk' /\ SlotsSeeded'
  BY <1>1, <1>2, <1>5 DEF OnlyLastChangeAtRisk, SlotsSeeded
<1> QED BY <1>6, <1>7, <1>8, <1>9, <1>10 DEF StorageInv

LEMMA RehydrateStep == ASSUME StorageInv, Rehydrate PROVE StorageInv'
<1>1. /\ phase = "serving" /\ phase' = "serving" /\ overtaken' = TRUE
      /\ pending' = Registries
      /\ UNCHANGED <<memory, store, thread, read, changes, faults, degraded, seeded,
                     acked>>
  BY DEF Rehydrate
<1>2. \A o \in Objects : Latest(o)' = Latest(o)
  BY <1>1 DEF Latest
<1>3. StorageTyped' /\ SavesAreServed'
  BY <1>1 DEF StorageInv, StorageTyped, SavesAreServed
<1>4. OwnInOrder'
  BY <1>1, <1>2, OwnKept, OwnObject
<1>5. OwnRestored' /\ OnlyLastChangeAtRisk' /\ SlotsSeeded'
  BY <1>1 DEF OwnRestored, OnlyLastChangeAtRisk, SlotsSeeded
<1> QED BY <1>3, <1>4, <1>5 DEF StorageInv

(* What has been read stays the newest version while nothing is saved. *)
LEMMA ReadListStep ==
  ASSUME StorageInv, NEW r \in Registries, NEW o \in r, ReadList(r, o)
  PROVE  StorageInv'
<1>1. /\ UNCHANGED <<memory, store, thread, phase, pending, changes, faults, degraded,
                     seeded, overtaken, acked>>
      /\ r \in pending /\ o \in Objects
      /\ DOMAIN read' = DOMAIN read \cup {o} /\ o \notin DOMAIN read
      /\ read'[o] = Latest(o) /\ \A p \in DOMAIN read : read'[p] = read[p]
  BY StorageAssumption DEF ReadList, ghosts
<1>2. \A p \in Objects : Latest(p)' = Latest(p)
  BY <1>1 DEF Latest
<1>3. Latest(o) \in Change0
  BY <1>1, ChangeNat DEF Latest, StorageInv, StorageTyped
<1>4. Own' = Own
  BY DEF Own
<1>5. StorageTyped'
  BY <1>1, <1>3 DEF StorageInv, StorageTyped
<1>6. SavesAreServed'
  BY <1>1 DEF StorageInv, SavesAreServed
<1>7. OwnInOrder' /\ \A t, p : Saves(t, p)' <=> Saves(t, p)
  BY <1>1, <1>2, OwnKept, OwnObject
<1>8. OwnRestored'
  <2>1. phase # "seeding"
    BY <1>1 DEF StorageInv, OwnRestored
  <2>2. ASSUME NEW p \in Own, phase = "restoring", p \in DOMAIN read'
        PROVE  read'[p] = Latest(p)'
    BY <2>2, <1>1, <1>2, OwnObject DEF StorageInv, OwnRestored
  <2>3. ASSUME NEW p \in Own, phase = "restoring", ~ degraded
        PROVE  memory'[p] = Latest(p)' \/ \E q \in pending' : p \in q
    BY <2>3, <1>1, <1>2, OwnObject DEF StorageInv, OwnRestored
  <2>4. ASSUME NEW p \in Own, phase = "serving", ~ overtaken
        PROVE  \A t \in Threads : Saves(t, p)' => thread'[t].value = memory'[p]
    BY <2>4, <1>1, <1>7 DEF StorageInv, OwnRestored
  <2>5. phase = "serving" /\ ~ overtaken => pending' = {}
    BY <1>1 DEF StorageInv, OwnRestored
  <2> QED BY <2>1, <2>2, <2>3, <2>4, <2>5, <1>1, <1>4 DEF OwnRestored
<1>9. OnlyLastChangeAtRisk'
  BY <1>1, <1>2, <1>4, OwnObject DEF StorageInv, OnlyLastChangeAtRisk
<1>10. SlotsSeeded'
  BY <1>1, <1>2, StorageAssumption DEF StorageInv, SlotsSeeded
<1> QED BY <1>5, <1>6, <1>7, <1>8, <1>9, <1>10 DEF StorageInv

(* A registry that was not read is left as it is, and health says so. *)
LEMMA ReadFailsStep ==
  ASSUME StorageInv, NEW r \in Registries, ReadFails(r)
  PROVE  StorageInv'
<1>1. /\ UNCHANGED <<memory, store, thread, phase, changes, seeded, overtaken, acked>>
      /\ r \in pending /\ pending' = pending \ {r} /\ DOMAIN read' = {}
      /\ degraded' = TRUE /\ faults' \in 0..MaxFaults
  BY StorageAssumption DEF ReadFails, ghosts, Fault, Nothing, StorageInv, StorageTyped
<1>2. \A o \in Objects : Latest(o)' = Latest(o)
  BY <1>1 DEF Latest
<1>3. Own' = Own
  BY DEF Own
<1>4. StorageTyped'
  BY <1>1 DEF StorageInv, StorageTyped
<1>5. SavesAreServed'
  BY <1>1 DEF StorageInv, SavesAreServed
<1>6. OwnInOrder' /\ \A t, o : Saves(t, o)' <=> Saves(t, o)
  BY <1>1, <1>2, OwnKept, OwnObject
<1>7. OwnRestored'
  BY <1>1, <1>3, <1>6 DEF StorageInv, OwnRestored
<1>8. OnlyLastChangeAtRisk' /\ SlotsSeeded'
  BY <1>1, <1>2, StorageAssumption DEF StorageInv, OnlyLastChangeAtRisk, SlotsSeeded
<1> QED BY <1>4, <1>5, <1>6, <1>7, <1>8 DEF StorageInv

(* A restored registry is what was stored. *)
LEMMA RestoreStep ==
  ASSUME StorageInv, NEW r \in Registries, Restore(r)
  PROVE  StorageInv'
<1>1. /\ UNCHANGED <<store, thread, phase, changes, faults, degraded, seeded, overtaken,
                     acked>>
      /\ r \in pending /\ pending' = pending \ {r} /\ DOMAIN read' = {}
      /\ DOMAIN read = r
      /\ memory' = [o \in Objects |-> IF o \in r THEN read[o] ELSE memory[o]]
  BY DEF Restore, ghosts, Nothing
<1>2. \A o \in Objects : Latest(o)' = Latest(o)
  BY <1>1 DEF Latest
<1>3. Own' = Own
  BY DEF Own
<1>4. phase # "seeding" /\ (phase = "serving" => overtaken)
  BY <1>1 DEF StorageInv, OwnRestored
<1>5. StorageTyped'
  <2>1. memory' \in [Objects -> Change0]
    BY <1>1 DEF StorageInv, StorageTyped
  <2> QED BY <2>1, <1>1 DEF StorageInv, StorageTyped
<1>6. SavesAreServed'
  BY <1>1 DEF StorageInv, SavesAreServed
<1>7. OwnInOrder'
  BY <1>1, <1>2, OwnKept, OwnObject
<1>8. ASSUME NEW o \in Own, phase = "restoring", ~ degraded
      PROVE  memory'[o] = Latest(o)' \/ \E q \in pending' : o \in q
  <2>1. CASE o \in r
    BY <2>1, <1>1, <1>2, <1>8, OwnObject DEF StorageInv, OwnRestored
  <2>2. CASE o \notin r
    <3>1. memory'[o] = memory[o] /\ Latest(o)' = Latest(o)
      BY <2>2, <1>1, <1>2, OwnObject
    <3>2. memory[o] = Latest(o) \/ \E q \in pending : o \in q
      BY <1>8 DEF StorageInv, OwnRestored
    <3> QED BY <3>1, <3>2, <2>2, <1>1
  <2> QED BY <2>1, <2>2
<1>9. OwnRestored'
  BY <1>1, <1>3, <1>4, <1>8 DEF OwnRestored
<1>10. OnlyLastChangeAtRisk'
  BY <1>1, <1>4 DEF OnlyLastChangeAtRisk
<1>11. SlotsSeeded'
  BY <1>1, <1>2, <1>4, StorageAssumption DEF StorageInv, SlotsSeeded
<1> QED BY <1>5, <1>6, <1>7, <1>9, <1>10, <1>11 DEF StorageInv

(* The application serves what was restored. *)
LEMMA ServeStep == ASSUME StorageInv, Serve PROVE StorageInv'
<1>1. /\ UNCHANGED <<memory, store, thread, pending, read, changes, faults, degraded,
                     seeded, overtaken, acked>>
      /\ phase = "restoring" /\ phase' = "serving" /\ pending = {}
  BY DEF Serve, ghosts
<1>2. \A o \in Objects : Latest(o)' = Latest(o)
  BY <1>1 DEF Latest
<1>3. Own' = Own
  BY DEF Own
<1>4. StorageTyped'
  BY <1>1 DEF StorageInv, StorageTyped
<1>5. SavesAreServed' /\ \A t \in Threads : \A o : ~ Saves(t, o)'
  BY <1>1, StartingIsQuiet
<1>6. OwnInOrder'
  BY <1>1, <1>2, OwnKept, OwnObject
<1>7. OwnRestored'
  BY <1>1, <1>5 DEF OwnRestored
<1>8. OnlyLastChangeAtRisk'
  BY <1>1, <1>2, <1>3, OwnObject DEF StorageInv, OwnRestored, OnlyLastChangeAtRisk
<1>9. SlotsSeeded'
  BY <1>1 DEF SlotsSeeded
<1> QED BY <1>4, <1>5, <1>6, <1>7, <1>8, <1>9 DEF StorageInv

(* A restart forgets memory and threads, not the storage. *)
LEMMA RestartStep == ASSUME StorageInv, Restart PROVE StorageInv'
<1>1. /\ UNCHANGED <<store, changes, acked>>
      /\ memory' = [o \in Objects |-> 0] /\ thread' = [t \in Threads |-> Idle]
      /\ phase' = "seeding" /\ pending' = {} /\ DOMAIN read' = {}
      /\ degraded' = FALSE /\ seeded' = FALSE /\ overtaken' = FALSE
      /\ faults' \in 0..MaxFaults
  BY StorageAssumption DEF Restart, Fault, Nothing, StorageInv, StorageTyped
<1>2. \A o \in Objects : Latest(o)' = Latest(o)
  BY <1>1 DEF Latest
<1>3. Own' = Own
  BY DEF Own
<1>4. StorageTyped'
  <2>1. memory' \in [Objects -> Change0]
    BY <1>1, ChangeNat
  <2>2. DOMAIN thread' = Threads /\ \A t \in Threads : IsSave(thread'[t])
    BY <1>1, IdleSave
  <2> QED BY <2>1, <2>2, <1>1 DEF StorageInv, StorageTyped
<1>5. \A t \in Threads : thread'[t].phase = "idle"
  BY <1>1, IdleSave
<1>6. SavesAreServed'
  BY <1>5 DEF SavesAreServed
<1>7. OwnInOrder'
  BY <1>1, <1>2, <1>3, <1>5, OwnObject DEF StorageInv, OwnInOrder, Saves
<1>8. OwnRestored' /\ OnlyLastChangeAtRisk'
  BY <1>1 DEF OwnRestored, OnlyLastChangeAtRisk
<1>9. SlotsSeeded'
  BY <1>1, StorageAssumption DEF SlotsSeeded
<1> QED BY <1>4, <1>6, <1>7, <1>8, <1>9 DEF StorageInv

-----------------------------------------------------------------------------
LEMMA StorageNextStep == StorageInv /\ [StorageNext]_storageVars => StorageInv'
<1> SUFFICES ASSUME StorageInv, [StorageNext]_storageVars PROVE StorageInv'
  OBVIOUS
<1>1. CASE UNCHANGED storageVars
  BY <1>1 DEF storageVars, StorageInv, StorageTyped, SavesAreServed, OwnInOrder, OwnRestored,
     SlotsSeeded, OnlyLastChangeAtRisk, Latest, Saves, Own
<1>2. ASSUME NEW t \in Threads, NEW o \in Objects, Change(t, o) PROVE StorageInv'
  BY <1>2, ChangeStep
<1>3. ASSUME NEW t \in Threads, ReadVersion(t) \/ Insert(t) \/ SaveFails(t) PROVE StorageInv'
  BY <1>3, ReadVersionStep, InsertStep, SaveFailsStep
<1>4. CASE Seed \/ Rehydrate \/ Serve \/ Restart
  BY <1>4, SeedStep, RehydrateStep, ServeStep, RestartStep
<1>5. ASSUME NEW r \in Registries, ReadFails(r) \/ Restore(r) PROVE StorageInv'
  BY <1>5, ReadFailsStep, RestoreStep
<1>6. ASSUME NEW r \in Registries, NEW o \in r, ReadList(r, o) PROVE StorageInv'
  BY <1>6, ReadListStep
<1> QED BY <1>1, <1>2, <1>3, <1>4, <1>5, <1>6 DEF StorageNext

LEMMA StorageInvariant == StorageSpec => []StorageInv
<1> QED BY InitTyped, StorageNextStep, PTL DEF StorageSpec

LEMMA StorageInvImplies ==
  StorageInv => StorageTypeOK /\ AckedIsDurable /\ OnlyLastChangeAtRisk /\ SlotsStartFree
<1> SUFFICES ASSUME StorageInv
             PROVE  StorageTypeOK /\ AckedIsDurable /\ OnlyLastChangeAtRisk /\ SlotsStartFree
  OBVIOUS
<1>1. \A o \in Objects : \A v \in DOMAIN store[o] : store[o][v] \in Change0
  BY DEF StorageInv, StorageTyped
<1>2. StorageTypeOK
  BY <1>1 DEF StorageInv, StorageTyped, IsSave, Phases, StorageTypeOK
<1>3. AckedIsDurable /\ OnlyLastChangeAtRisk /\ SlotsStartFree
  BY DEF StorageInv, OwnInOrder, AckedIsDurable, SlotsSeeded, SlotsStartFree
<1> QED BY <1>2, <1>3

\* Memory, storage and threads keep their types.
THEOREM SnapshotsTyped == StorageSpec => []StorageTypeOK
  BY StorageInvariant, StorageInvImplies, PTL

\* Whatever statements fail, however often the process restarts and whichever
\* rehydrations overlap: the newest stored version of an object of one thread is
\* its newest acknowledged save (save_snapshot, list_latest_snapshots).
THEOREM AcknowledgedSurvives == StorageSpec => []AckedIsDurable
  BY StorageInvariant, StorageInvImplies, PTL

\* While health is ok and no rehydration overlapped the runs since the restart, a
\* crash costs such an object no change but the one being saved
\* (rehydrate_registries, error_count of the repositories).
THEOREM CrashLosesOneChange == StorageSpec => []OnlyLastChangeAtRisk
  BY StorageInvariant, StorageInvImplies, PTL

\* The two together: what a crash can cost at most.
THEOREM CrashIsCheap == StorageSpec => []CrashCostsOneChange
<1>1. StorageInv => CrashCostsOneChange
  BY StorageInvImplies DEF CrashCostsOneChange
<1> QED BY <1>1, StorageInvariant, PTL

\* The slots that dead runs had allocated and stored are free after a restart
\* whose seed was saved (configure_operational_persistence).
THEOREM SlotsFreeAfterRestart == StorageSpec => []SlotsStartFree
  BY StorageInvariant, StorageInvImplies, PTL

-----------------------------------------------------------------------------
ActionType == {"RETRY", "MARK_DEAD_LETTER"}
Count == 1..Len(watchdogs)
Steps == Over \cup KiloSteps \cup {"activating now", "dev now", "qa now"}
           \cup {"starting", "opening", "verdict", "passing"}
ItemDog(w) == watchdogs[w].type = "TaskQueueItem"
SessionDog(w) == watchdogs[w].type = "TaskExecutionSession"

(* ActionType: TypeOK with the actions as a sequence. *)
Typed ==
  /\ step \in Steps
  /\ task \in 0..Tasks /\ current \in 0..task /\ reworked \in BOOLEAN
  /\ items \in [Task -> ItemStatus]
  /\ sessions \in [Task -> [status : SessionStatus, attempts : Nat]]
  /\ watchdogs \in Seq(Watchdog)
  /\ actions \in Seq(Seq(ActionType)) /\ Len(actions) = Len(watchdogs)
  /\ silences \in 0..mishaps /\ mishaps \in 0..MaxMishaps /\ calls \in 0..MaxCalls
  /\ call \in [Requests -> {"idle", "detecting", "cancelling"}]
  /\ listed \in [Requests -> SUBSET Count] /\ heard \subseteq Count

(* The session that is open belongs to the task of the step. *)
Position ==
  /\ step \in {"activating", "activating now"} => task = 1 /\ current = 0
  /\ step \in {"dev", "qa", "dev now", "qa now", "verdict", "passing", "starting", "ended"}
       => current = task
  /\ step \notin {"starting", "crashed"} => task > 0
  /\ step = "ended" => task = Tasks

(* Every item started and every session opened has its watchdog, and only    *)
(* they; it is ACTIVE only while they are worked on.                         *)
Watched ==
  /\ \A t \in 1..task : \E w \in Count : ItemDog(w) /\ watchdogs[w].task = t
  /\ \A t \in 1..current : \E w \in Count : SessionDog(w) /\ watchdogs[w].task = t
  /\ \A w \in Count :
       /\ ItemDog(w) => watchdogs[w].task <= task
       /\ SessionDog(w) => watchdogs[w].task <= current
       /\ ItemDog(w) /\ watchdogs[w].status = "ACTIVE" =>
            watchdogs[w].task = task /\ step \notin {"passing", "starting", "ended"}
       /\ SessionDog(w) /\ watchdogs[w].status = "ACTIVE" =>
            watchdogs[w].task = task /\ step \notin {"starting", "ended"}
       /\ ItemDog(w) \/ SessionDog(w) =>
            \/ watchdogs[w].status # "COMPLETED"
            \/ watchdogs[w].task # task \/ step \notin {"dev now", "qa now"}

(* A watchdog that is stuck may be recovered by every request once more;     *)
(* any other only by those that listed it when it was.                       *)
Pending(w) == {c \in Requests : call[c] = "detecting" /\ w \in listed[c]}

Owed(w) == IF IsStuck(w) THEN Cardinality(Requests) ELSE Cardinality(Pending(w))

Recovered ==
  \A w \in Count : Len(actions[w]) + Owed(w) <= silences * Cardinality(Requests)

(* What is done of the tasks before the current one, and of that one. *)
Done ==
  \A t \in Task :
    /\ sessions[t].status \in {"COMPLETED", "CANCELLED"} => items[t] = "COMPLETED"
    /\ t < task \/ (t = task /\ step \in {"starting", "ended"}) =>
         sessions[t].status \in {"COMPLETED", "CANCELLED"}
    /\ t = task /\ step = "passing" => items[t] = "COMPLETED"
    /\ t > current => sessions[t] = [status |-> "NONE", attempts |-> 0]

IInv == Typed /\ Position /\ Watched /\ Recovered /\ Done /\ AttemptsAddUp

-----------------------------------------------------------------------------
(* The same targets are watched, in the same order. *)
Same(d, e) ==
  /\ e \in Seq(Watchdog) /\ Len(e) = Len(d)
  /\ \A w \in 1..Len(d) :
       e[w].type = d[w].type /\ e[w].task = d[w].task /\ e[w].retried = d[w].retried

LEMMA RequestCount == Cardinality(Requests) \in Nat
BY SupervisionAssumption, FS_CardinalityType

LEMMA ExecutionSteps ==
  /\ {Executing[k] : k \in KiloSteps} = {"activating now", "dev now", "qa now"}
  /\ KiloOf("activating now") = "activating" /\ KiloOf("dev now") = "dev"
  /\ KiloOf("qa now") = "qa"
<1>1. /\ Executing["activating"] = "activating now" /\ Executing["dev"] = "dev now"
      /\ Executing["qa"] = "qa now"
  BY DEF Executing
<1>2. KiloSteps = {"activating", "dev", "qa"}
  BY DEF KiloSteps
<1> QED
  BY <1>1, <1>2 DEF KiloOf

(* What one write of a watchdog changes. *)
LEMMA OneDog ==
  ASSUME NEW d \in Watchdog, NEW s \in WatchdogStatus
  PROVE  /\ Ended(d, s) \in Watchdog /\ Ended(d, s).status = s
         /\ Ended(d, s).type = d.type /\ Ended(d, s).task = d.task
         /\ Ended(d, s).retried = d.retried
BY DEF Watchdog, Ended

LEMMA OneCopy ==
  ASSUME NEW d \in Watchdog, NEW s \in WatchdogStatus, NEW fresh \in BOOLEAN
  PROVE  /\ EndedCopy(d, s, fresh) \in Watchdog /\ EndedCopy(d, s, fresh).status = s
         /\ EndedCopy(d, s, fresh).type = d.type /\ EndedCopy(d, s, fresh).task = d.task
         /\ EndedCopy(d, s, fresh).retried = d.retried
BY DEF Watchdog, EndedCopy

LEMMA OneBeat ==
  ASSUME NEW d \in Watchdog
  PROVE  /\ Beating(d) \in Watchdog /\ Beating(d).status = "ACTIVE" /\ Beating(d).fresh
         /\ Beating(d).type = d.type /\ Beating(d).task = d.task
         /\ Beating(d).retried = d.retried
BY DEF Watchdog, WatchdogStatus, Beating

LEMMA OneSilence ==
  ASSUME NEW d \in Watchdog
  PROVE  /\ Silent(d) \in Watchdog /\ Silent(d).status = d.status
         /\ Silent(d).type = d.type /\ Silent(d).task = d.task
         /\ Silent(d).retried = d.retried
BY DEF Watchdog, Silent

LEMMA OneStuck ==
  ASSUME NEW w, watchdogs[w] \in Watchdog
  PROVE  /\ StuckCopy(w) \in Watchdog /\ StuckCopy(w).status = "STUCK"
         /\ StuckCopy(w).type = watchdogs[w].type /\ StuckCopy(w).task = watchdogs[w].task
         /\ StuckCopy(w).retried = watchdogs[w].retried
<1> PICK d : d = watchdogs[w] OBVIOUS
<1>1. StuckCopy(w) = [d EXCEPT !.status = "STUCK", !.fresh = FALSE] /\ d \in Watchdog
  BY DEF StuckCopy
<1> QED
  BY <1>1 DEF Watchdog, WatchdogStatus

(* A write of each watchdog keeps the targets.                              *)
LEMMA Dogs ==
  ASSUME NEW d \in Seq(Watchdog), NEW e \in [DOMAIN d -> Watchdog],
         \A w \in 1..Len(d) :
            /\ e[w] \in Watchdog
            /\ e[w].type = d[w].type /\ e[w].task = d[w].task /\ e[w].retried = d[w].retried
  PROVE  Same(d, e)
<1>1. DOMAIN d = 1..Len(d) /\ Len(d) \in Nat
  OBVIOUS
<1>2. e \in [1..Len(d) -> Watchdog]
  BY <1>1
<1>3. e \in Seq(Watchdog) /\ Len(e) = Len(d)
  BY <1>1, <1>2
<1> QED
  BY <1>3 DEF Same

(* What heartbeats, completions, cancellations, detections and the time that *)
(* passes do to the list of watchdogs.                                       *)
LEMMA Beaten ==
  ASSUME NEW d \in Seq(Watchdog), NEW type, NEW t, NEW e, e = Beats(type, t, d)
  PROVE  /\ Same(d, e)
         /\ \A w \in 1..Len(d) :
              /\ w \in Watching(type, t) => e[w] = Beating(d[w])
              /\ w \notin Watching(type, t) => e[w] = d[w]
<1>1. e = [w \in DOMAIN d |->
              IF w \in Watching(type, t) THEN Beating(d[w]) ELSE d[w]]
  BY DEF Beats
<1>2. ASSUME NEW w \in 1..Len(d)
      PROVE  /\ e[w] \in Watchdog
             /\ e[w].type = d[w].type /\ e[w].task = d[w].task
             /\ e[w].retried = d[w].retried
             /\ IF w \in Watching(type, t) THEN e[w] = Beating(d[w]) ELSE e[w] = d[w]
  <2>1. d[w] \in Watchdog /\ w \in DOMAIN d
    OBVIOUS
  <2> QED
    BY <1>1, <2>1, OneBeat
<1>3. e \in [DOMAIN d -> Watchdog]
  <2> DEFINE new(w) == IF w \in Watching(type, t) THEN Beating(d[w]) ELSE d[w]
  <2>0. \A w \in DOMAIN d : d[w] \in Watchdog
    OBVIOUS
  <2>1. \A w \in DOMAIN d : new(w) \in Watchdog
    BY <2>0, OneBeat
  <2>2. e = [w \in DOMAIN d |-> new(w)]
    BY <1>1
  <2> HIDE DEF new
  <2> QED
    BY <2>1, <2>2
<1>4. Same(d, e)
  BY <1>2, <1>3, Dogs
<1> QED
  BY <1>2, <1>4

LEMMA CompletedDogs ==
  ASSUME watchdogs \in Seq(Watchdog), NEW type, NEW t, NEW e,
         e = Completes(type, t, watchdogs)
  PROVE  /\ Same(watchdogs, e)
         /\ \A w \in Count :
              IF watchdogs[w].type = type /\ watchdogs[w].task = t
              THEN e[w].status = "COMPLETED" ELSE e[w] = watchdogs[w]
<1> DEFINE new(w) == IF w \in Watching(type, t) THEN Ended(watchdogs[w], "COMPLETED")
                 ELSE watchdogs[w]
<1>1. e = [w \in DOMAIN watchdogs |-> new(w)]
  BY DEF Completes
<1>2. ASSUME NEW w \in Count
      PROVE  /\ new(w) \in Watchdog
             /\ new(w).type = watchdogs[w].type /\ new(w).task = watchdogs[w].task
             /\ new(w).retried = watchdogs[w].retried
             /\ IF w \in Watching(type, t) THEN new(w).status = "COMPLETED"
                ELSE new(w) = watchdogs[w]
  <2>1. watchdogs[w] \in Watchdog /\ "COMPLETED" \in WatchdogStatus
    BY DEF Count, WatchdogStatus
  <2> QED
    BY <2>1, OneDog
<1>3. \A w \in Count :
     IF watchdogs[w].type = type /\ watchdogs[w].task = t THEN new(w).status = "COMPLETED"
     ELSE new(w) = watchdogs[w]
  BY <1>2 DEF Count, Watching
<1>4. DOMAIN watchdogs = Count
  BY DEF Count
<1> HIDE DEF new
<1>5. e \in [DOMAIN watchdogs -> Watchdog] /\ \A w \in Count : e[w] = new(w)
  BY <1>1, <1>2, <1>4
<1>6. Same(watchdogs, e)
  BY <1>2, <1>5, Dogs DEF Count
<1> QED
  BY <1>3, <1>5, <1>6

LEMMA CancelledDogs ==
  ASSUME watchdogs \in Seq(Watchdog), NEW c, MarkCancelled(c)
  PROVE  /\ Same(watchdogs, watchdogs')
         /\ \A w \in Count :
              IF w \in Newest(c) THEN watchdogs'[w].status = "CANCELLED"
              ELSE watchdogs'[w] = watchdogs[w]
<1> PICK e : e = watchdogs'
  OBVIOUS
<1> DEFINE new(w) == IF w \in Newest(c)
                     THEN EndedCopy(watchdogs[w], "CANCELLED", w \in heard)
                     ELSE watchdogs[w]
<1>1. e = [w \in DOMAIN watchdogs |-> new(w)]
  BY DEF MarkCancelled
<1>2. ASSUME NEW w \in Count
      PROVE  /\ new(w) \in Watchdog
             /\ new(w).type = watchdogs[w].type /\ new(w).task = watchdogs[w].task
             /\ new(w).retried = watchdogs[w].retried
             /\ IF w \in Newest(c) THEN new(w).status = "CANCELLED"
                ELSE new(w) = watchdogs[w]
  <2>1. watchdogs[w] \in Watchdog /\ "CANCELLED" \in WatchdogStatus
    BY DEF Count, WatchdogStatus
  <2>2. (w \in heard) \in BOOLEAN
    OBVIOUS
  <2> QED
    BY <2>1, <2>2, OneCopy
<1>3. \A w \in Count :
     IF w \in Newest(c) THEN new(w).status = "CANCELLED"
     ELSE new(w) = watchdogs[w]
  BY <1>2 DEF Count
<1>4. DOMAIN watchdogs = Count
  BY DEF Count
<1> HIDE DEF new
<1>5. e \in [DOMAIN watchdogs -> Watchdog] /\ \A w \in Count : e[w] = new(w)
  BY <1>1, <1>2, <1>4
<1>6. Same(watchdogs, e)
  BY <1>2, <1>5, Dogs DEF Count
<1> QED
  BY <1>3, <1>5, <1>6

LEMMA StuckDogs ==
  ASSUME watchdogs \in Seq(Watchdog), NEW c, MarkStuck(c)
  PROVE  /\ Same(watchdogs, watchdogs')
         /\ \A w \in Count :
              IF w \in Newest(c) THEN watchdogs'[w].status = "STUCK"
              ELSE watchdogs'[w] = watchdogs[w]
<1> PICK e : e = watchdogs'
  OBVIOUS
<1> DEFINE new(w) == IF w \in Newest(c) THEN StuckCopy(w) ELSE watchdogs[w]
<1>1. e = [w \in DOMAIN watchdogs |-> new(w)]
  BY DEF MarkStuck
<1>2. ASSUME NEW w \in Count
      PROVE  /\ new(w) \in Watchdog
             /\ new(w).type = watchdogs[w].type /\ new(w).task = watchdogs[w].task
             /\ new(w).retried = watchdogs[w].retried
             /\ IF w \in Newest(c) THEN new(w).status = "STUCK" ELSE new(w) = watchdogs[w]
  <2>1. watchdogs[w] \in Watchdog
    BY DEF Count, WatchdogStatus
  <2> QED
    BY <2>1, OneStuck
<1>3. \A w \in Count :
     IF w \in Newest(c) THEN new(w).status = "STUCK"
     ELSE new(w) = watchdogs[w]
  BY <1>2 DEF Count
<1>4. DOMAIN watchdogs = Count
  BY DEF Count
<1> HIDE DEF new
<1>5. e \in [DOMAIN watchdogs -> Watchdog] /\ \A w \in Count : e[w] = new(w)
  BY <1>1, <1>2, <1>4
<1>6. Same(watchdogs, e)
  BY <1>2, <1>5, Dogs DEF Count
<1> QED
  BY <1>3, <1>5, <1>6

LEMMA SilencedDogs ==
  ASSUME watchdogs \in Seq(Watchdog), Silence
  PROVE  /\ Same(watchdogs, watchdogs')
         /\ \A w \in Count : watchdogs'[w].status = watchdogs[w].status
<1> PICK e : e = watchdogs'
  OBVIOUS
<1> DEFINE new(w) == Silent(watchdogs[w])
<1>1. e = [w \in DOMAIN watchdogs |-> new(w)]
  BY DEF Silence
<1>2. ASSUME NEW w \in Count
      PROVE  /\ new(w) \in Watchdog
             /\ new(w).type = watchdogs[w].type /\ new(w).task = watchdogs[w].task
             /\ new(w).retried = watchdogs[w].retried
             /\ new(w).status = watchdogs[w].status
  <2>1. watchdogs[w] \in Watchdog
    BY DEF Count, WatchdogStatus
  <2> QED
    BY <2>1, OneSilence
<1>3. \A w \in Count : new(w).status = watchdogs[w].status
  BY <1>2 DEF Count
<1>4. DOMAIN watchdogs = Count
  BY DEF Count
<1> HIDE DEF new
<1>5. e \in [DOMAIN watchdogs -> Watchdog] /\ \A w \in Count : e[w] = new(w)
  BY <1>1, <1>2, <1>4
<1>6. Same(watchdogs, e)
  BY <1>2, <1>5, Dogs DEF Count
<1> QED
  BY <1>3, <1>5, <1>6

LEMMA Appended ==
  ASSUME watchdogs \in Seq(Watchdog), NEW type \in TargetType, NEW t \in Task,
         NEW r \in 0..1, NEW e, e = Registered(type, t, r)
  PROVE  /\ e \in Seq(Watchdog) /\ Len(e) = Len(watchdogs) + 1
         /\ \A w \in Count : e[w] = watchdogs[w]
         /\ e[Len(e)] = NewWatchdog(type, t, r)
<1>1. NewWatchdog(type, t, r) \in Watchdog
  BY DEF NewWatchdog, Watchdog, WatchdogStatus
<1> QED
  BY <1>1 DEF Registered, Count

-----------------------------------------------------------------------------
(* What a step that watches the same targets preserves. *)
LEMMA SameExecutions ==
  ASSUME watchdogs \in Seq(Watchdog), Same(watchdogs, watchdogs'), NEW t
  PROVE  Attempts(t)' = Attempts(t)
<1>1. /\ DOMAIN watchdogs = 1..Len(watchdogs) /\ DOMAIN watchdogs' = 1..Len(watchdogs)
      /\ Len(watchdogs) \in Nat
  BY DEF Same
<1>2. ASSUME NEW type PROVE Watching(type, t)' = Watching(type, t)
  BY <1>1 DEF Watching, Same
<1>3. Executions(t)' = Executions(t)
  BY <1>2 DEF Executions
<1>4. \A w \in Executions(t) : watchdogs'[w].retried = watchdogs[w].retried
  BY <1>1 DEF Executions, Watching, Same
<1> QED
  BY <1>3, <1>4 DEF Attempts

LEMMA CountKept ==
  ASSUME Typed, AttemptsAddUp, Same(watchdogs, watchdogs'),
         \A t \in Task : sessions'[t].attempts = sessions[t].attempts
  PROVE  AttemptsAddUp'
BY SameExecutions DEF AttemptsAddUp, Typed

LEMMA PendingCount ==
  ASSUME NEW w
  PROVE  /\ IsFiniteSet(Pending(w)) /\ Cardinality(Pending(w)) \in Nat
         /\ Cardinality(Pending(w)) <= Cardinality(Requests)
<1>1. Pending(w) \subseteq Requests
  BY DEF Pending
<1> QED
  BY <1>1, FS_Subset, FS_CardinalityType, SupervisionAssumption

(* No new silence, and no watchdog that becomes stuck: nothing more is owed. *)
LEMMA BudgetKept ==
  ASSUME Typed, Recovered, Len(watchdogs') = Len(watchdogs),
         actions' = actions, silences' = silences,
         \A w \in Count : IsStuck(w)' => IsStuck(w),
         \A w \in Count : IsStuck(w) \/ Pending(w)' = Pending(w),
         \A w \in Count : Pending(w)' \subseteq Requests
  PROVE  Recovered'
<1> SUFFICES ASSUME NEW w \in Count
             PROVE  (Len(actions[w]) + Owed(w) <= silences * Cardinality(Requests))'
  BY DEF Recovered, Count
<1>1. Len(actions[w]) + Owed(w) <= silences * Cardinality(Requests)
  BY DEF Recovered
<1>2. Len(actions[w]) \in Nat
  BY DEF Typed, Count
<1> DEFINE N == Cardinality(Requests)
           P == Cardinality(Pending(w))
           Q == Cardinality(Pending(w))'
<1>3. P \in Nat /\ P <= N /\ N \in Nat
  BY PendingCount, RequestCount
<1>4. Q \in Nat /\ Q <= N
  <2>1. Pending(w)' \subseteq Requests
    OBVIOUS
  <2> QED
    BY <2>1, FS_Subset, FS_CardinalityType, SupervisionAssumption
<1>5. Owed(w) = IF IsStuck(w) THEN N ELSE P
  BY DEF Owed
<1>6. Owed(w)' = IF IsStuck(w)' THEN N ELSE Q
  BY DEF Owed
<1>7. ~ IsStuck(w) => Q = P
  OBVIOUS
<1> HIDE DEF N, P, Q
<1>8. Owed(w)' <= Owed(w) /\ Owed(w) \in Nat /\ Owed(w)' \in Nat
  BY <1>3, <1>4, <1>5, <1>6, <1>7
<1>9. silences * N \in Nat
  BY <1>3 DEF Typed
<1> QED
  BY <1>1, <1>2, <1>8, <1>9 DEF N

-----------------------------------------------------------------------------
LEMMA Numbers ==
  Tasks \in Nat /\ Tasks >= 1 /\ MaxMishaps \in Nat /\ MaxCalls \in Nat
BY SupervisionAssumption

(* A write of one session leaves the others alone. *)
LEMMA OneSession ==
  ASSUME Typed, NEW t \in Task, NEW status \in SessionStatus, NEW n \in Nat,
         ToSession(t, status, n)
  PROVE  /\ sessions' \in [Task -> [status : SessionStatus, attempts : Nat]]
         /\ sessions'[t] = [status |-> status, attempts |-> n]
         /\ sessions'[t].status = status /\ sessions'[t].attempts = n
         /\ \A u \in Task \ {t} : sessions'[u] = sessions[u]
<1>1. [status |-> status, attempts |-> n] \in [status : SessionStatus, attempts : Nat]
  OBVIOUS
<1> PICK r : r = [status |-> status, attempts |-> n] OBVIOUS
<1>2. sessions' = [sessions EXCEPT ![t] = r]
      /\ sessions \in [Task -> [status : SessionStatus, attempts : Nat]]
  BY DEF ToSession, Typed
<1> QED
  BY <1>1, <1>2

LEMMA InitStep == Init => IInv
<1> SUFFICES ASSUME Init PROVE IInv
  OBVIOUS
<1>1. Len(watchdogs) = 0 /\ Len(actions) = 0 /\ Count = {} /\ DOMAIN watchdogs = {}
  BY DEF Init, Count
<1>2. Typed
  <2>1. sessions \in [Task -> [status : SessionStatus, attempts : Nat]]
    BY DEF Init, SessionStatus
  <2>2. /\ items \in [Task -> ItemStatus] /\ step \in Steps /\ reworked \in BOOLEAN
    BY DEF Init, ItemStatus, Steps
  <2>5. task \in 0..Tasks /\ current \in 0..task
    BY Numbers DEF Init, NoTask
  <2>3. /\ watchdogs \in Seq(Watchdog) /\ actions \in Seq(Seq(ActionType))
        /\ Len(actions) = Len(watchdogs)
    BY DEF Init
  <2>4. /\ silences \in 0..mishaps /\ mishaps \in 0..MaxMishaps /\ calls \in 0..MaxCalls
        /\ call \in [Requests -> {"idle", "detecting", "cancelling"}]
        /\ listed \in [Requests -> SUBSET Count] /\ heard \subseteq Count
    BY Numbers DEF Init
  <2> QED
    BY <2>1, <2>2, <2>3, <2>4, <2>5 DEF Typed
<1>3. Position /\ Recovered
  BY <1>1 DEF Init, Position, Recovered
<1>4. Watched
  BY <1>1, SupervisionAssumption DEF Init, Watched, NoTask
<1>5. Done
  BY SupervisionAssumption DEF Init, Done, NoTask, Task
<1>6. AttemptsAddUp
  <2>1. \A t \in Task : Attempts(t) = {}
    BY <1>1 DEF Attempts, Executions, Watching
  <2> QED
    BY <2>1, FS_EmptySet DEF AttemptsAddUp, Init
<1> QED
  BY <1>2, <1>3, <1>4, <1>5, <1>6 DEF IInv

(* Steps of the run that write no watchdog. *)
LEMMA SameItself ==
  ASSUME Typed, watchdogs' = watchdogs
  PROVE  Same(watchdogs, watchdogs')
BY DEF Same, Typed

LEMMA BudgetUnchanged ==
  ASSUME Typed, Recovered, UNCHANGED <<watchdogs, actions, silences, call, listed>>
  PROVE  Recovered'
<1>1. \A w : IsStuck(w)' = IsStuck(w) /\ Pending(w)' = Pending(w)
  BY DEF IsStuck, Pending
<1>2. \A w : Owed(w)' = Owed(w)
  BY <1>1 DEF Owed
<1> QED
  BY <1>2 DEF Recovered, Count

LEMMA StatusUnchanged ==
  ASSUME Watched, UNCHANGED <<step, task, current, watchdogs>>
  PROVE  Watched'
<1>1. Count' = Count /\ \A w : ItemDog(w)' = ItemDog(w) /\ SessionDog(w)' = SessionDog(w)
  BY DEF Count, ItemDog, SessionDog
<1> QED
  BY <1>1 DEF Watched

LEMMA ResumeStep == ASSUME IInv, ResumeSession PROVE IInv'
<1> USE DEF IInv
<1>1. task \in Task /\ current = task /\ sessions[task].attempts \in Nat
  BY DEF Typed, Position, ResumeSession, Task
<1>2. /\ sessions' = [sessions EXCEPT ![task] =
           [status |-> "RUNNING", attempts |-> sessions[task].attempts]]
      /\ step = "opening" /\ step' = "dev"
      /\ UNCHANGED <<task, reworked, items, current, watchdogs, actions, Supervised, mishaps>>
  BY DEF ResumeSession, ToSession, Goto
<1>3. Typed'
  BY <1>1, <1>2 DEF Typed, Steps, KiloSteps, SessionStatus, Supervised, Count
<1>4. Position'
  BY <1>1, <1>2 DEF Position
<1>5. Watched'
  <2>1. \A w \in Count : ~ (step' \in {"dev now", "qa now", "passing", "starting", "ended"})
    BY <1>2
  <2> QED
    BY <1>2, <2>1 DEF Watched, Count, ItemDog, SessionDog
<1>6. Recovered'
  BY <1>2, BudgetUnchanged DEF Supervised
<1>7. Done'
  BY <1>1, <1>2 DEF Done, Typed
<1>8. AttemptsAddUp'
  BY <1>1, <1>2, CountKept, SameItself DEF Typed
<1> QED
  BY <1>3, <1>4, <1>5, <1>6, <1>7, <1>8

LEMMA QuietStep ==
  ASSUME IInv, SkipExecution \/ EndRun \/ RunFails
  PROVE  IInv'
<1> USE DEF IInv
<1>1. UNCHANGED <<task, reworked, items, sessions, current, watchdogs, actions, Supervised>>
  BY DEF SkipExecution, EndRun, RunFails
<1>2. \/ step = "activating" /\ step' = "opening"
      \/ step = "dev" /\ step' = "qa"
      \/ step = "qa" /\ step' = "verdict"
      \/ step = "starting" /\ step' = "ended" /\ task = Tasks
      \/ step' = "crashed"
  BY DEF SkipExecution, EndRun, RunFails, Goto, KiloSteps, AfterKilo
<1>3. Typed'
  <2>1. mishaps' \in Nat /\ mishaps <= mishaps' /\ mishaps' <= MaxMishaps
    BY Numbers DEF SkipExecution, EndRun, RunFails, Typed
  <2>2. step' \in Steps
    BY <1>2 DEF Steps, KiloSteps, Over
  <2>3. silences' \in 0..mishaps' /\ mishaps' \in 0..MaxMishaps
    BY <1>1, <2>1, Numbers DEF Supervised, Typed
  <2> QED
    BY <1>1, <2>2, <2>3 DEF Typed, Supervised, Count
<1>4. Position'
  <2>1. task \in Nat /\ task' = task /\ current' = current
    BY <1>1, Numbers DEF Typed
  <2>2. CASE step' = "crashed"
    BY <2>2 DEF Position
  <2>3. CASE step = "starting" /\ step' = "ended" /\ task = Tasks
    BY <2>1, <2>3, Numbers DEF Position
  <2>4. CASE step = "activating" /\ step' = "opening"
    BY <2>1, <2>4 DEF Position
  <2> QED
    BY <1>2, <2>1, <2>2, <2>3, <2>4 DEF Position
<1>5. Watched'
  BY <1>1, <1>2 DEF Watched, Count, ItemDog, SessionDog
<1>6. Recovered'
  BY <1>1, BudgetUnchanged DEF Supervised
<1>7. Done'
  BY <1>1, <1>2 DEF Done, Typed
<1>8. AttemptsAddUp'
  BY <1>1, CountKept, SameItself
<1> QED
  BY <1>3, <1>4, <1>5, <1>6, <1>7, <1>8

LEMMA BeginDetectionStep ==
  ASSUME IInv, NEW c \in Requests, BeginDetection(c)
  PROVE  IInv'
<1> USE DEF IInv
<1>1. /\ UNCHANGED <<run, watchdogs, actions, silences, mishaps, heard>>
      /\ call' = [call EXCEPT ![c] = "detecting"]
      /\ listed' = [listed EXCEPT ![c] = {w \in DOMAIN watchdogs : IsStuck(w)}]
      /\ calls' = calls + 1 /\ calls < MaxCalls /\ call[c] = "idle"
  BY DEF BeginDetection
<1>2. Typed'
  <2>1. {w \in DOMAIN watchdogs : IsStuck(w)} \subseteq Count
    BY DEF Typed, Count
  <2>2. listed' \in [Requests -> SUBSET Count]
    BY <1>1, <2>1 DEF Typed
  <2>3. call' \in [Requests -> {"idle", "detecting", "cancelling"}]
    BY <1>1 DEF Typed
  <2>4. calls' \in 0..MaxCalls
    BY <1>1, Numbers DEF Typed
  <2> QED
    BY <1>1, <2>2, <2>3, <2>4 DEF Typed, run, Count
<1>3. Position' /\ Watched' /\ Done'
  <2>1. UNCHANGED <<step, task, items, sessions, current, watchdogs>>
    BY <1>1 DEF run
  <2>2. Position' /\ Done'
    BY <2>1 DEF Position, Done
  <2>3. Watched'
    BY <2>1, StatusUnchanged
  <2> QED
    BY <2>2, <2>3
<1>4. Recovered'
  <2>1. \A w \in Count : IsStuck(w)' = IsStuck(w)
    BY <1>1 DEF IsStuck
  <2>2. \A w \in Count : IsStuck(w) \/ Pending(w)' = Pending(w)
    BY <1>1 DEF Pending, Typed
  <2>3. \A w \in Count : Pending(w)' \subseteq Requests
    BY DEF Pending
  <2> QED
    BY <1>1, <2>1, <2>2, <2>3, BudgetKept
<1>5. AttemptsAddUp'
  BY <1>1, CountKept, SameItself DEF run
<1> QED
  BY <1>2, <1>3, <1>4, <1>5

LEMMA BeginCancelStep ==
  ASSUME IInv, NEW c \in Requests, BeginCancel(c)
  PROVE  IInv'
<1> USE DEF IInv
<1>1. /\ UNCHANGED <<step, task, reworked, items, current, watchdogs, actions, silences,
                     mishaps>>
      /\ call' = [call EXCEPT ![c] = "cancelling"]
      /\ listed' = [listed EXCEPT ![c] = DOMAIN watchdogs]
      /\ heard' = {w \in DOMAIN watchdogs : watchdogs[w].fresh}
      /\ calls' = calls + 1 /\ calls < MaxCalls /\ call[c] = "idle"
  BY DEF BeginCancel
<1>2. \/ sessions' = sessions
      \/ /\ step = "ended" /\ task \in Task /\ sessions[task].attempts \in Nat
         /\ sessions' \in [Task -> [status : SessionStatus, attempts : Nat]]
         /\ sessions'[task].status = "CANCELLED"
         /\ sessions'[task].attempts = sessions[task].attempts
         /\ \A t \in Task \ {task} : sessions'[t] = sessions[t]
  <2>1. CASE step # "ended"
    BY <2>1 DEF BeginCancel
  <2>2. CASE step = "ended"
    <3>1. /\ ToSession(task, "CANCELLED", sessions[task].attempts)
          /\ task \in Task /\ sessions[task].attempts \in Nat
      BY <2>2, Numbers DEF BeginCancel, Position, Typed, Task
    <3>2. "CANCELLED" \in SessionStatus
      BY DEF SessionStatus
    <3> QED
      BY <2>2, <3>1, <3>2, OneSession
  <2> QED
    BY <2>1, <2>2
<1>3. Typed'
  <2>1. listed' \in [Requests -> SUBSET Count] /\ heard' \subseteq Count
    BY <1>1 DEF Typed, Count
  <2>2. sessions' \in [Task -> [status : SessionStatus, attempts : Nat]]
    BY <1>2 DEF Typed
  <2>3. call' \in [Requests -> {"idle", "detecting", "cancelling"}]
    BY <1>1 DEF Typed
  <2>4. calls' \in 0..MaxCalls
    BY <1>1, Numbers DEF Typed
  <2> QED
    BY <1>1, <2>1, <2>2, <2>3, <2>4 DEF Typed, Count
<1>4. Position' /\ Watched'
  BY <1>1, StatusUnchanged DEF Position
<1>5. Done'
  BY <1>1, <1>2 DEF Done, Typed
<1>6. Recovered'
  <2>1. \A w \in Count : IsStuck(w)' = IsStuck(w)
    BY <1>1 DEF IsStuck
  <2>2. \A w \in Count : Pending(w)' = Pending(w)
    BY <1>1 DEF Pending, Typed
  <2>3. \A w \in Count : Pending(w)' \subseteq Requests
    BY DEF Pending
  <2> QED
    BY <1>1, <2>1, <2>2, <2>3, BudgetKept
<1>7. AttemptsAddUp'
  <2>1. \A t \in Task : sessions'[t].attempts = sessions[t].attempts
    BY <1>2
  <2> QED
    BY <1>1, <2>1, CountKept, SameItself
<1> QED
  BY <1>3, <1>4, <1>5, <1>6, <1>7

-----------------------------------------------------------------------------
(* Steps of the run that register a watchdog. *)
Grown(type, t, r) ==
  /\ watchdogs' \in Seq(Watchdog) /\ Len(watchdogs') = Len(watchdogs) + 1
  /\ \A w \in Count :
       /\ watchdogs'[w].type = watchdogs[w].type
       /\ watchdogs'[w].task = watchdogs[w].task
       /\ watchdogs'[w].retried = watchdogs[w].retried
  /\ LET new == watchdogs'[Len(watchdogs) + 1]
     IN  /\ new.type = type /\ new.task = t /\ new.retried = r
         /\ new.status = "ACTIVE" /\ new.fresh = TRUE

LEMMA DogTask ==
  ASSUME Typed, NEW w \in Count
  PROVE  watchdogs[w] \in Watchdog /\ watchdogs[w].task \in Task /\ watchdogs[w].task \in Nat
<1>1. watchdogs[w] \in Watchdog
  BY DEF Typed, Count
<1>2. watchdogs[w].task \in Task
  BY <1>1 DEF Watchdog
<1> QED
  BY <1>1, <1>2, Numbers DEF Task

LEMMA GrownBy ==
  ASSUME Typed, NEW type \in TargetType, NEW t \in Task, NEW r \in 0..1,
         watchdogs' = Registered(type, t, r)
  PROVE  Grown(type, t, r) /\ \A w \in Count : watchdogs'[w] = watchdogs[w]
<1> PICK e : e = Registered(type, t, r) OBVIOUS
<1>1. /\ e \in Seq(Watchdog) /\ Len(e) = Len(watchdogs) + 1
      /\ \A w \in Count : e[w] = watchdogs[w]
      /\ e[Len(e)] = NewWatchdog(type, t, r)
  BY Appended DEF Typed
<1>2. watchdogs' = e
  OBVIOUS
<1> QED
  BY <1>1, <1>2 DEF Grown, NewWatchdog

LEMMA LessOwed ==
  ASSUME NEW a, NEW b \in Nat, NEW o \in Nat, NEW p \in Nat, NEW k, a = b,
         b + o <= k, p <= o, k \in Nat
  PROVE  a + p <= k
OBVIOUS

(* Nothing is owed for a watchdog that was just registered. *)
LEMMA BudgetGrown ==
  ASSUME Typed, Recovered, NEW type, NEW t, NEW r, Grown(type, t, r),
         actions' = Append(actions, <<>>), UNCHANGED <<silences, call, listed>>,
         \A w \in Count : IsStuck(w)' => IsStuck(w)
  PROVE  Recovered'
<1> PICK n : n = Len(watchdogs) + 1
  OBVIOUS
<1>1. /\ Len(actions) \in Nat /\ Len(actions) = Len(watchdogs)
      /\ actions' \in Seq(Seq(ActionType)) /\ Len(actions') = n
      /\ \A w \in Count : actions'[w] = actions[w] /\ Len(actions[w]) \in Nat
      /\ actions'[n] = <<>>
  BY DEF Typed, Count
<1>2. Count' = Count \cup {n}
  BY <1>1 DEF Count, Grown
<1>3. silences * Cardinality(Requests) \in Nat
  BY RequestCount DEF Typed
<1>4. ASSUME NEW w \in Count
      PROVE  Len(actions'[w]) + Owed(w)' <= silences * Cardinality(Requests)
  <2>1. Len(actions[w]) + Owed(w) <= silences * Cardinality(Requests)
    BY DEF Recovered
  <2>2. Pending(w)' = Pending(w)
    BY DEF Pending
  <2>3. Owed(w)' <= Owed(w) /\ Owed(w) \in Nat /\ Owed(w)' \in Nat
    BY <2>2, PendingCount, RequestCount DEF Owed
  <2>4. Len(actions'[w]) = Len(actions[w]) /\ Len(actions[w]) \in Nat
    BY <1>1
  <2> QED
    BY <1>3, <2>1, <2>3, <2>4, LessOwed
<1>5. Len(actions'[n]) + Owed(n)' <= silences * Cardinality(Requests)
  <2>1. ~ IsStuck(n)'
    BY DEF IsStuck, Grown
  <2>2. Pending(n)' = {}
    <3>1. \A c \in Requests : n \notin listed[c]
      BY <1>1 DEF Typed, Count
    <3> QED
      BY <3>1 DEF Pending
  <2>3. Owed(n)' = 0
    BY <2>1, <2>2, FS_EmptySet DEF Owed
  <2> QED
    BY <1>1, <1>3, <2>3
<1>6. \A w \in Count \cup {n} : Len(actions'[w]) + Owed(w)' <= silences * Cardinality(Requests)
  BY <1>4, <1>5
<1> QED
  BY <1>2, <1>6 DEF Recovered

(* A watchdog of an item or a session is of no execution, and the executions *)
(* recorded so far are older than it.                                        *)
LEMMA CountGrown ==
  ASSUME Typed, NEW type, NEW t, NEW r, Grown(type, t, r), type # "KiloExecution",
         NEW u
  PROVE  Attempts(u)' = Attempts(u)
<1> PICK n : n = Len(watchdogs) + 1
  OBVIOUS
<1>1. /\ DOMAIN watchdogs = 1..Len(watchdogs) /\ DOMAIN watchdogs' = 1..n
      /\ Len(watchdogs) \in Nat
  BY DEF Grown, Typed
<1>2. Watching("KiloExecution", u)' = Watching("KiloExecution", u)
  BY <1>1 DEF Watching, Grown, Count
<1>3. Watching("TaskExecutionSession", u) \subseteq Watching("TaskExecutionSession", u)'
  BY <1>1 DEF Watching, Grown, Count
<1>4. Watching("TaskExecutionSession", u)' \subseteq
        Watching("TaskExecutionSession", u) \cup {n}
  BY <1>1 DEF Watching, Grown, Count
<1>5. \A w \in Watching("KiloExecution", u) : ~ (n < w)
  BY <1>1 DEF Watching
<1>6. Executions(u)' = Executions(u)
  BY <1>2, <1>3, <1>4, <1>5 DEF Executions
<1>7. \A w \in Executions(u) : watchdogs'[w].retried = watchdogs[w].retried
  BY <1>1 DEF Executions, Watching, Grown, Count
<1> QED
  BY <1>6, <1>7 DEF Attempts

LEMMA StartItemStep == ASSUME IInv, StartItem PROVE IInv'
<1> USE DEF IInv
<1>1. /\ step = "starting" /\ task < Tasks /\ task' = task + 1
      /\ items' = [items EXCEPT ![task + 1] = "RUNNING"]
      /\ watchdogs' = Registered("TaskQueueItem", task + 1, 0)
      /\ actions' = Append(actions, <<>>)
      /\ step' = IF task = 0 THEN "activating" ELSE "opening"
      /\ UNCHANGED <<reworked, sessions, current, Supervised, mishaps>>
  BY DEF StartItem, Goto, NoTask
<1>2. /\ task \in Nat /\ task + 1 \in Task /\ current = task /\ task' \in 0..Tasks
      /\ Len(watchdogs) \in Nat
  BY <1>1, Numbers DEF Typed, Position, Task
<1>3. Grown("TaskQueueItem", task + 1, 0) /\ \A w \in Count : watchdogs'[w] = watchdogs[w]
  BY <1>1, <1>2, GrownBy DEF TargetType
<1>4. Typed'
  <2>1. actions' \in Seq(Seq(ActionType)) /\ Len(actions') = Len(watchdogs')
    BY <1>1, <1>3 DEF Typed, Grown
  <2>2. Count \subseteq Count'
    BY <1>2, <1>3 DEF Grown, Count
  <2>3. listed' \in [Requests -> SUBSET Count'] /\ heard' \subseteq Count'
    BY <1>1, <2>2 DEF Typed, Supervised
  <2>4. items' \in [Task -> ItemStatus] /\ current' \in 0..task'
    BY <1>1, <1>2 DEF Typed, ItemStatus
  <2>5. step' \in Steps
    BY <1>1 DEF Steps, KiloSteps
  <2> QED
    BY <1>1, <1>2, <1>3, <2>1, <2>3, <2>4, <2>5 DEF Typed, Supervised, Grown
<1>5. Position'
  BY <1>1, <1>2 DEF Position
<1>6. Watched'
  <2> PICK n : n = Len(watchdogs) + 1
    OBVIOUS
  <2>1. Count' = Count \cup {n} /\ n \notin Count
    BY <1>2, <1>3 DEF Grown, Count
  <2>2. ItemDog(n)' /\ ~ SessionDog(n)' /\ watchdogs'[n].task = task + 1
    BY <1>3 DEF Grown, ItemDog, SessionDog
  <2>3. \A w \in Count : /\ ItemDog(w)' = ItemDog(w) /\ SessionDog(w)' = SessionDog(w)
                         /\ watchdogs'[w] = watchdogs[w]
    BY <1>3 DEF ItemDog, SessionDog
  <2>4. \A t \in 1..(task + 1) : t \in 1..task \/ t = task + 1
    BY <1>2
  <2>5. \A t \in 1..task' : \E w \in Count' : ItemDog(w)' /\ watchdogs'[w].task = t
    BY <1>1, <2>1, <2>2, <2>3, <2>4 DEF Watched
  <2>6. \A t \in 1..current' : \E w \in Count' : SessionDog(w)' /\ watchdogs'[w].task = t
    BY <1>1, <2>1, <2>3 DEF Watched
  <2>7. ASSUME NEW w \in Count
        PROVE  /\ ItemDog(w) => watchdogs[w].task <= task' /\ watchdogs[w].status # "ACTIVE"
               /\ SessionDog(w) => watchdogs[w].task <= current /\ watchdogs[w].status # "ACTIVE"
    <3>1. watchdogs[w].task \in Nat
      BY DogTask
    <3> QED
      BY <1>1, <1>2, <3>1 DEF Watched
  <2>8. step' \notin {"passing", "starting", "ended", "dev now", "qa now"}
    BY <1>1
  <2>9. \A w \in Count' :
       /\ ItemDog(w)' => watchdogs'[w].task <= task'
       /\ SessionDog(w)' => watchdogs'[w].task <= current'
       /\ ItemDog(w)' /\ watchdogs'[w].status = "ACTIVE" => watchdogs'[w].task = task'
       /\ SessionDog(w)' /\ watchdogs'[w].status = "ACTIVE" => watchdogs'[w].task = task'
    BY <1>1, <1>2, <2>1, <2>2, <2>3, <2>7
  <2> QED
    BY <2>5, <2>6, <2>8, <2>9 DEF Watched
<1>7. Recovered'
  <2>1. \A w \in Count : IsStuck(w)' = IsStuck(w)
    BY <1>3 DEF IsStuck
  <2> QED
    BY <1>1, <1>3, <2>1, BudgetGrown DEF Supervised
<1>8. Done'
  BY <1>1, <1>2 DEF Done, Typed, Task
<1>9. AttemptsAddUp'
  BY <1>1, <1>3, CountGrown DEF AttemptsAddUp
<1> QED
  BY <1>4, <1>5, <1>6, <1>7, <1>8, <1>9

LEMMA OpenSessionStep == ASSUME IInv, OpenSession PROVE IInv'
<1> USE DEF IInv
<1>1. /\ step = "opening" /\ current # task /\ current' = task /\ step' = "dev"
      /\ ToSession(task, "RUNNING", 0)
      /\ watchdogs' = Registered("TaskExecutionSession", task, 0)
      /\ actions' = Append(actions, <<>>)
      /\ UNCHANGED <<task, reworked, items, Supervised, mishaps>>
  BY DEF OpenSession, Goto
<1>2. /\ task \in Task /\ task \in Nat /\ current \in Nat /\ current < task
      /\ Len(watchdogs) \in Nat /\ "RUNNING" \in SessionStatus
  BY <1>1, Numbers DEF Typed, Position, Task, SessionStatus
<1>3. /\ Grown("TaskExecutionSession", task, 0)
      /\ \A w \in Count : watchdogs'[w] = watchdogs[w]
  BY <1>1, <1>2, GrownBy DEF TargetType
<1>4. /\ sessions' \in [Task -> [status : SessionStatus, attempts : Nat]]
      /\ sessions'[task].status = "RUNNING" /\ sessions'[task].attempts = 0
      /\ \A u \in Task \ {task} : sessions'[u] = sessions[u]
  BY <1>1, <1>2, OneSession
<1>5. sessions[task].attempts = 0
  BY <1>2 DEF Done
<1>6. Typed'
  <2>1. actions' \in Seq(Seq(ActionType)) /\ Len(actions') = Len(watchdogs')
    BY <1>1, <1>3 DEF Typed, Grown
  <2>2. Count \subseteq Count'
    BY <1>2, <1>3 DEF Grown, Count
  <2>3. listed' \in [Requests -> SUBSET Count'] /\ heard' \subseteq Count'
    BY <1>1, <2>2 DEF Typed, Supervised
  <2>4. current' \in 0..task' /\ step' \in Steps
    BY <1>1, <1>2 DEF Steps, KiloSteps
  <2> QED
    BY <1>1, <1>3, <1>4, <2>1, <2>3, <2>4 DEF Typed, Supervised, Grown
<1>7. Position'
  BY <1>1, <1>2 DEF Position
<1>8. Watched'
  <2> PICK n : n = Len(watchdogs) + 1
    OBVIOUS
  <2>1. Count' = Count \cup {n} /\ n \notin Count
    BY <1>2, <1>3 DEF Grown, Count
  <2>2. SessionDog(n)' /\ ~ ItemDog(n)' /\ watchdogs'[n].task = task
    BY <1>3 DEF Grown, ItemDog, SessionDog
  <2>3. \A w \in Count : /\ ItemDog(w)' = ItemDog(w) /\ SessionDog(w)' = SessionDog(w)
                         /\ watchdogs'[w] = watchdogs[w]
    BY <1>3 DEF ItemDog, SessionDog
  <2>4. \A t \in 1..task : t \in 1..current \/ t = task
    <3>1. current + 1 = task
      <4>1. CASE current + 1 < task
        <5>1. current + 1 \in Task /\ current + 1 > current
          BY <4>1, <1>2, Numbers DEF Task
        <5>2. sessions[current + 1].status = "NONE"
          BY <5>1 DEF Done
        <5>3. sessions[current + 1].status \in {"COMPLETED", "CANCELLED"}
          BY <5>1, <4>1 DEF Done
        <5> QED
          BY <5>2, <5>3
      <4> QED
        BY <4>1, <1>2
    <3> QED
      BY <3>1, <1>2
  <2>5. \A t \in 1..task' : \E w \in Count' : ItemDog(w)' /\ watchdogs'[w].task = t
    BY <1>1, <2>1, <2>3 DEF Watched
  <2>6. \A t \in 1..current' : \E w \in Count' : SessionDog(w)' /\ watchdogs'[w].task = t
    BY <1>1, <2>1, <2>2, <2>3, <2>4 DEF Watched
  <2>7. ASSUME NEW w \in Count
        PROVE  /\ ItemDog(w) => watchdogs[w].task <= task
               /\ SessionDog(w) => watchdogs[w].task <= current'
    <3>1. watchdogs[w].task \in Nat
      BY DogTask
    <3> QED
      BY <1>1, <1>2, <3>1 DEF Watched
  <2>8. \A w \in Count : (ItemDog(w) \/ SessionDog(w)) /\ watchdogs[w].status = "ACTIVE"
           => watchdogs[w].task = task
    BY DEF Watched
  <2>9. \A w \in Count' :
       /\ ItemDog(w)' => watchdogs'[w].task <= task'
       /\ SessionDog(w)' => watchdogs'[w].task <= current'
       /\ ItemDog(w)' /\ watchdogs'[w].status = "ACTIVE" => watchdogs'[w].task = task'
       /\ SessionDog(w)' /\ watchdogs'[w].status = "ACTIVE" => watchdogs'[w].task = task'
    BY <1>1, <1>2, <2>1, <2>2, <2>3, <2>7, <2>8
  <2> QED
    BY <1>1, <2>5, <2>6, <2>9 DEF Watched
<1>9. Recovered'
  <2>1. \A w \in Count : IsStuck(w)' = IsStuck(w)
    BY <1>3 DEF IsStuck
  <2> QED
    BY <1>1, <1>3, <2>1, BudgetGrown DEF Supervised
<1>10. Done'
  <2>1. step' = "dev" /\ task' = task /\ items' = items /\ current' = task
    BY <1>1
  <2> QED
    BY <1>2, <1>4, <2>1 DEF Done, Typed
<1>11. AttemptsAddUp'
  <2>1. \A t \in Task : Attempts(t)' = Attempts(t)
    BY <1>3, CountGrown
  <2>2. \A t \in Task : sessions'[t].attempts = sessions[t].attempts
    BY <1>4, <1>5
  <2> QED
    BY <2>1, <2>2 DEF AttemptsAddUp
<1> QED
  BY <1>6, <1>7, <1>8, <1>9, <1>10, <1>11

-----------------------------------------------------------------------------
(* Steps that write watchdogs and register none. *)
LEMMA StatusKept ==
  ASSUME Typed, Watched, Same(watchdogs, watchdogs'),
         UNCHANGED <<step, task, current>>,
         \A w \in Count : \/ watchdogs'[w].status = watchdogs[w].status
                          \/ watchdogs'[w].status \in {"STUCK", "CANCELLED"}
  PROVE  Watched'
<1>1. Count' = Count
  BY DEF Same, Count
<1>2. \A w \in Count : /\ ItemDog(w)' = ItemDog(w) /\ SessionDog(w)' = SessionDog(w)
                       /\ watchdogs'[w].task = watchdogs[w].task
  BY DEF Same, Count, ItemDog, SessionDog
<1>3. \A t \in 1..task : \E w \in Count : ItemDog(w)' /\ watchdogs'[w].task = t
  BY <1>2 DEF Watched
<1>4. \A t \in 1..current : \E w \in Count : SessionDog(w)' /\ watchdogs'[w].task = t
  BY <1>2 DEF Watched
<1>5. ASSUME NEW w \in Count
      PROVE  /\ watchdogs'[w].status = "ACTIVE" => watchdogs[w].status = "ACTIVE"
             /\ watchdogs'[w].status = "COMPLETED" => watchdogs[w].status = "COMPLETED"
  OBVIOUS
<1>6. \A w \in Count :
       /\ ItemDog(w)' => watchdogs'[w].task <= task
       /\ SessionDog(w)' => watchdogs'[w].task <= current
       /\ ItemDog(w)' /\ watchdogs'[w].status = "ACTIVE" =>
            watchdogs'[w].task = task /\ step \notin {"passing", "starting", "ended"}
       /\ SessionDog(w)' /\ watchdogs'[w].status = "ACTIVE" =>
            watchdogs'[w].task = task /\ step \notin {"starting", "ended"}
       /\ ItemDog(w)' \/ SessionDog(w)' =>
            \/ watchdogs'[w].status # "COMPLETED"
            \/ watchdogs'[w].task # task \/ step \notin {"dev now", "qa now"}
  BY <1>2, <1>5 DEF Watched
<1> QED
  BY <1>1, <1>3, <1>4, <1>6 DEF Watched

LEMMA SilenceStep == ASSUME IInv, Silence PROVE IInv'
<1> USE DEF IInv
<1>1. /\ silences' = silences + 1 /\ mishaps' = mishaps + 1 /\ mishaps < MaxMishaps
      /\ heard' = {} /\ UNCHANGED <<run, actions, calls, call, listed>>
  BY DEF Silence
<1>2. /\ Same(watchdogs, watchdogs')
      /\ \A w \in Count : watchdogs'[w].status = watchdogs[w].status
  BY SilencedDogs DEF Typed
<1>3. Typed'
  <2>1. Count' = Count /\ watchdogs' \in Seq(Watchdog) /\ Len(watchdogs') = Len(watchdogs)
    BY <1>2 DEF Same, Count
  <2>2. silences' \in 0..mishaps' /\ mishaps' \in 0..MaxMishaps
    BY <1>1, Numbers DEF Typed
  <2> QED
    BY <1>1, <2>1, <2>2 DEF Typed, run
<1>4. Position' /\ Done'
  BY <1>1 DEF Position, Done, run
<1>5. Watched'
  BY <1>1, <1>2, StatusKept DEF run
<1>6. Recovered'
  <2> SUFFICES ASSUME NEW w \in Count
               PROVE  Len(actions[w]) + Owed(w)' <= (silences + 1) * Cardinality(Requests)
    BY <1>1, <1>2 DEF Recovered, Count, Same
  <2>1. Len(actions[w]) + Owed(w) <= silences * Cardinality(Requests)
    BY DEF Recovered
  <2>2. Pending(w)' = Pending(w)
    BY <1>1 DEF Pending
  <2>3. Owed(w) \in Nat /\ Owed(w)' \in Nat /\ Owed(w)' <= Cardinality(Requests)
    BY <2>2, PendingCount, RequestCount DEF Owed
  <2>4. Len(actions[w]) \in Nat
    BY DEF Typed, Count
  <2>5. (silences + 1) * Cardinality(Requests)
          = silences * Cardinality(Requests) + Cardinality(Requests)
        /\ silences * Cardinality(Requests) \in Nat
    <3>1. silences \in Nat
      BY DEF Typed
    <3> QED
      BY <3>1, RequestCount
  <2> QED
    BY <2>1, <2>3, <2>4, <2>5, RequestCount
<1>7. AttemptsAddUp'
  BY <1>1, <1>2, CountKept DEF run
<1> QED
  BY <1>3, <1>4, <1>5, <1>6, <1>7

(* What a request has left to write after one round. *)
LEMMA Rest ==
  ASSUME Typed, NEW c \in Requests, Written(c)
  PROVE  /\ listed' \in [Requests -> SUBSET Count] /\ Newest(c) \subseteq listed[c]
         /\ call' \in [Requests -> {"idle", "detecting", "cancelling"}]
         /\ listed'[c] = listed[c] \ Newest(c)
         /\ call'[c] = IF listed[c] = Newest(c) THEN "idle" ELSE call[c]
         /\ \A d \in Requests \ {c} : call'[d] = call[d] /\ listed'[d] = listed[d]
<1> DEFINE left == listed[c] \ Newest(c)
           doing == IF listed[c] = Newest(c) THEN "idle" ELSE call[c]
<1>1. listed' = [listed EXCEPT ![c] = left] /\ call' = [call EXCEPT ![c] = doing]
  BY DEF Written
<1>2. left \subseteq Count /\ doing \in {"idle", "detecting", "cancelling"}
  BY DEF Typed
<1>3. Newest(c) \subseteq listed[c]
  BY DEF Newest
<1> HIDE DEF left, doing
<1>4. /\ listed' \in [Requests -> SUBSET Count] /\ listed'[c] = left
      /\ call' \in [Requests -> {"idle", "detecting", "cancelling"}] /\ call'[c] = doing
      /\ \A d \in Requests \ {c} : call'[d] = call[d] /\ listed'[d] = listed[d]
  BY <1>1, <1>2 DEF Typed
<1> QED
  BY <1>3, <1>4 DEF left, doing

LEMMA MarkCancelledStep ==
  ASSUME IInv, NEW c \in Requests, MarkCancelled(c)
  PROVE  IInv'
<1> USE DEF IInv
<1>1. /\ call[c] = "cancelling" /\ Written(c) /\ UNCHANGED <<run, actions, silences, mishaps, calls>>
      /\ heard' \subseteq heard
  BY DEF MarkCancelled
<1>2. /\ Same(watchdogs, watchdogs')
      /\ \A w \in Count : IF w \in Newest(c) THEN watchdogs'[w].status = "CANCELLED"
                          ELSE watchdogs'[w] = watchdogs[w]
  BY CancelledDogs DEF Typed
<1>3. Count' = Count /\ watchdogs' \in Seq(Watchdog) /\ Len(watchdogs') = Len(watchdogs)
  BY <1>2 DEF Same, Count
<1>4. Typed'
  BY <1>1, <1>3, Rest DEF Typed, run
<1>5. Position' /\ Done'
  BY <1>1 DEF Position, Done, run
<1>6. Watched'
  BY <1>1, <1>2, StatusKept DEF run
<1>7. Recovered'
  <2>1. \A w \in Count : IsStuck(w)' => IsStuck(w)
    BY <1>2 DEF IsStuck
  <2>2. \A w \in Count : Pending(w)' = Pending(w)
    BY <1>1, Rest DEF Pending
  <2>3. \A w \in Count : Pending(w)' \subseteq Requests
    BY DEF Pending
  <2> QED
    BY <1>1, <1>3, <2>1, <2>2, <2>3, BudgetKept
<1>8. AttemptsAddUp'
  BY <1>1, <1>2, CountKept DEF run
<1> QED
  BY <1>4, <1>5, <1>6, <1>7, <1>8

LEMMA MarkStuckStep ==
  ASSUME IInv, NEW c \in Requests, MarkStuck(c)
  PROVE  IInv'
<1> USE DEF IInv
<1>1. call[c] = "detecting" /\ Written(c) /\ UNCHANGED <<run, silences, mishaps, calls, heard>>
  BY DEF MarkStuck
<1>2. /\ Same(watchdogs, watchdogs')
      /\ \A w \in Count : IF w \in Newest(c) THEN watchdogs'[w].status = "STUCK"
                          ELSE watchdogs'[w] = watchdogs[w]
  BY StuckDogs DEF Typed
<1>3. Count' = Count /\ watchdogs' \in Seq(Watchdog) /\ Len(watchdogs') = Len(watchdogs)
  BY <1>2 DEF Same, Count
<1>4. /\ actions' \in Seq(Seq(ActionType)) /\ Len(actions') = Len(actions)
      /\ \A w \in Count : /\ Len(actions[w]) \in Nat
                          /\ Len(actions'[w]) = IF w \in Newest(c) THEN Len(actions[w]) + 1
                                                ELSE Len(actions[w])
  <2> DEFINE new(w) == IF w \in Newest(c) THEN Append(actions[w], Recovery(w))
                       ELSE actions[w]
  <2> PICK a : a = actions' OBVIOUS
  <2>1. DOMAIN actions = Count /\ Len(actions) \in Nat /\ Len(watchdogs) = Len(actions)
        /\ \A w \in Count : actions[w] \in Seq(ActionType)
    BY DEF Typed, Count
  <2>2. \A w \in Count : Recovery(w) \in ActionType
    BY DEF Recovery, ActionType
  <2>3. \A w \in Count : /\ new(w) \in Seq(ActionType) /\ Len(actions[w]) \in Nat
                         /\ Len(new(w)) = IF w \in Newest(c) THEN Len(actions[w]) + 1
                                          ELSE Len(actions[w])
    BY <2>1, <2>2
  <2>4. a = [w \in Count |-> new(w)]
    BY <2>1 DEF MarkStuck
  <2> HIDE DEF new
  <2>5. a \in [1..Len(actions) -> Seq(ActionType)]
    BY <2>1, <2>3, <2>4 DEF Count
  <2>6. a \in Seq(Seq(ActionType)) /\ Len(a) = Len(actions)
    BY <2>1, <2>5
  <2> QED
    BY <2>3, <2>4, <2>6
<1>5. Typed'
  BY <1>1, <1>3, <1>4, Rest DEF Typed, run
<1>6. Position' /\ Done'
  BY <1>1 DEF Position, Done, run
<1>7. Watched'
  BY <1>1, <1>2, StatusKept DEF run
<1>8. Recovered'
  <2> SUFFICES ASSUME NEW w \in Count
               PROVE  Len(actions'[w]) + Owed(w)' <= silences * Cardinality(Requests)
    BY <1>1, <1>3 DEF Recovered
  <2>1. Len(actions[w]) + Owed(w) <= silences * Cardinality(Requests)
    BY DEF Recovered
  <2>2. silences * Cardinality(Requests) \in Nat
    BY RequestCount DEF Typed
  <2>3. CASE w \notin Newest(c)
    <3>1. Pending(w)' = Pending(w)
      BY <1>1, <2>3, Rest DEF Pending
    <3>2. IsStuck(w)' = IsStuck(w)
      BY <1>2, <2>3 DEF IsStuck
    <3>3. Owed(w)' = Owed(w)
      BY <3>1, <3>2 DEF Owed
    <3> QED
      BY <1>4, <2>1, <2>3, <3>3
  <2>4. CASE w \in Newest(c)
    <3>1. c \in Pending(w) /\ Pending(w)' = Pending(w) \ {c}
      BY <1>1, <2>4, Rest DEF Pending
    <3>2. ~ IsStuck(w)'
      BY <1>2, <2>4 DEF IsStuck
    <3>3. Cardinality(Pending(w) \ {c}) = Cardinality(Pending(w)) - 1
      BY <3>1, PendingCount, FS_RemoveElement
    <3>4. /\ Cardinality(Pending(w) \ {c}) \in Nat
          /\ Owed(w)' = Cardinality(Pending(w) \ {c})
      <4>1. IsFiniteSet(Pending(w) \ {c})
        BY <3>1, PendingCount, FS_RemoveElement
      <4> QED
        BY <3>1, <3>2, <4>1, FS_CardinalityType DEF Owed
    <3>5. Owed(w) \in Nat /\ Owed(w) >= Cardinality(Pending(w))
      BY PendingCount, RequestCount DEF Owed
    <3>6. Owed(w)' + 1 <= Owed(w) /\ Owed(w)' \in Nat
      BY <3>3, <3>4, <3>5, PendingCount
    <3>7. Len(actions'[w]) = Len(actions[w]) + 1 /\ Len(actions[w]) \in Nat
      BY <1>4, <2>4
    <3> QED
      BY <2>1, <2>2, <3>5, <3>6, <3>7
  <2> QED
    BY <2>3, <2>4
<1>9. AttemptsAddUp'
  BY <1>1, <1>2, CountKept DEF run
<1> QED
  BY <1>5, <1>6, <1>7, <1>8, <1>9

-----------------------------------------------------------------------------
(* Steps of the run that write watchdogs. *)
LEMMA BeginExecutionStep == ASSUME IInv, BeginExecution PROVE IInv'
<1> USE DEF IInv
<1>1. /\ step \in KiloSteps /\ step' = Executing[step]
      /\ watchdogs' = Beats("TaskQueueItem", task,
                        Beats("TaskExecutionSession", current, watchdogs))
      /\ UNCHANGED <<task, reworked, items, sessions, current, actions, Supervised, mishaps>>
  BY DEF BeginExecution, Goto
<1>2. \/ step = "activating" /\ step' = "activating now"
      \/ step = "dev" /\ step' = "dev now"
      \/ step = "qa" /\ step' = "qa now"
  <2>1. /\ Executing["activating"] = "activating now" /\ Executing["dev"] = "dev now"
        /\ Executing["qa"] = "qa now"
    BY DEF Executing
  <2>2. step \in {"activating", "dev", "qa"}
    BY <1>1 DEF KiloSteps
  <2> QED
    BY <1>1, <2>1, <2>2
<1>3. /\ Len(watchdogs) \in Nat /\ DOMAIN watchdogs = 1..Len(watchdogs)
      /\ watchdogs \in Seq(Watchdog)
  BY DEF Typed
<1> PICK one : one = Beats("TaskExecutionSession", current, watchdogs) OBVIOUS
<1>4. /\ Same(watchdogs, one)
      /\ \A w \in Count : IF SessionDog(w) /\ watchdogs[w].task = current
                          THEN one[w] = Beating(watchdogs[w])
                          ELSE one[w] = watchdogs[w]
  <2>1. Same(watchdogs, one)
    BY <1>3, Beaten
  <2>2. ASSUME NEW w \in 1..Len(watchdogs)
        PROVE  /\ w \in Watching("TaskExecutionSession", current) =>
                    one[w] = Beating(watchdogs[w])
               /\ w \notin Watching("TaskExecutionSession", current) => one[w] = watchdogs[w]
    BY <1>3, Beaten
  <2> QED
    BY <1>3, <2>1, <2>2 DEF Count, SessionDog, Watching
<1>5. /\ Same(one, watchdogs')
      /\ \A w \in Count : IF ItemDog(w) /\ watchdogs[w].task = task
                          THEN watchdogs'[w] = Beating(one[w])
                          ELSE watchdogs'[w] = one[w]
  <2> PICK two : two = Beats("TaskQueueItem", task, one) OBVIOUS
  <2>1. one \in Seq(Watchdog) /\ Len(one) = Len(watchdogs)
    BY <1>4 DEF Same
  <2>2. /\ Same(one, two)
        /\ \A w \in Count : IF ItemDog(w) /\ watchdogs[w].task = task
                          THEN two[w] = Beating(one[w])
                          ELSE two[w] = one[w]
    <3>1. Same(one, two)
      BY <2>1, Beaten
    <3>2. ASSUME NEW w \in 1..Len(one)
          PROVE  /\ w \in Watching("TaskQueueItem", task) => two[w] = Beating(one[w])
                 /\ w \notin Watching("TaskQueueItem", task) => two[w] = one[w]
      BY <2>1, Beaten
    <3> QED
      BY <1>3, <2>1, <3>1, <3>2 DEF Count, ItemDog, Watching
  <2>3. watchdogs' = two
    BY <1>1
  <2> QED
    BY <2>2, <2>3
<1>6. Same(watchdogs, watchdogs')
  BY <1>4, <1>5 DEF Same
<1>7. \A w \in Count :
        LET beats == \/ SessionDog(w) /\ watchdogs[w].task = current
                     \/ ItemDog(w) /\ watchdogs[w].task = task
        IN  /\ beats => watchdogs'[w].status = "ACTIVE" /\ watchdogs'[w].fresh
            /\ ~ beats => watchdogs'[w] = watchdogs[w]
  <2> SUFFICES ASSUME NEW w \in Count
               PROVE  LET beats == \/ SessionDog(w) /\ watchdogs[w].task = current
                                   \/ ItemDog(w) /\ watchdogs[w].task = task
                      IN  /\ beats => watchdogs'[w].status = "ACTIVE" /\ watchdogs'[w].fresh
                          /\ ~ beats => watchdogs'[w] = watchdogs[w]
    OBVIOUS
  <2>1. watchdogs[w] \in Watchdog /\ one[w] \in Watchdog
    BY <1>3, <1>4 DEF Same, Count
  <2>2. /\ Beating(watchdogs[w]).status = "ACTIVE" /\ Beating(watchdogs[w]).fresh
        /\ Beating(one[w]).status = "ACTIVE" /\ Beating(one[w]).fresh
    BY <2>1, OneBeat
  <2> QED
    BY <1>4, <1>5, <2>2 DEF SessionDog, ItemDog
<1>8. Count' = Count /\ watchdogs' \in Seq(Watchdog) /\ Len(watchdogs') = Len(watchdogs)
  BY <1>6 DEF Same, Count
<1>9. Typed'
  <2>1. step' \in Steps
    BY <1>2 DEF Steps
  <2> QED
    BY <1>1, <1>8, <2>1 DEF Typed, Supervised
<1>10. Position'
  BY <1>1, <1>2 DEF Position
<1>11. Watched'
  <2>1. \A w \in Count : /\ ItemDog(w)' = ItemDog(w) /\ SessionDog(w)' = SessionDog(w)
                         /\ watchdogs'[w].task = watchdogs[w].task
    BY <1>6 DEF Same, Count, ItemDog, SessionDog
  <2>2. \A t \in 1..task : \E w \in Count : ItemDog(w)' /\ watchdogs'[w].task = t
    BY <2>1 DEF Watched
  <2>3. \A t \in 1..current : \E w \in Count : SessionDog(w)' /\ watchdogs'[w].task = t
    BY <2>1 DEF Watched
  <2>4. step' \notin {"passing", "starting", "ended"}
    BY <1>2
  <2>5. \A w \in Count :
       /\ ItemDog(w)' => watchdogs'[w].task <= task
       /\ SessionDog(w)' => watchdogs'[w].task <= current
    BY <2>1 DEF Watched
  <2>6. ASSUME NEW w \in Count, ItemDog(w) \/ SessionDog(w)
        PROVE  /\ watchdogs'[w].status = "ACTIVE" => watchdogs[w].task = task
               /\ \/ watchdogs'[w].status # "COMPLETED"
                  \/ watchdogs[w].task # task \/ step' \notin {"dev now", "qa now"}
    <3>1. current = task \/ (step' = "activating now" /\ current = 0)
      BY <1>2 DEF Position
    <3>2. watchdogs[w].task # 0 /\ watchdogs[w].task \in Nat
      BY DogTask, Numbers DEF Task
    <3>3. CASE watchdogs'[w] = watchdogs[w]
      BY <1>2, <1>7, <2>6, <3>1, <3>2, <3>3 DEF Watched
    <3>4. CASE SessionDog(w) /\ watchdogs[w].task = current
      BY <1>2, <1>7, <3>1, <3>2, <3>4
    <3>5. CASE ItemDog(w) /\ watchdogs[w].task = task
      BY <1>2, <1>7, <3>1, <3>2, <3>5
    <3> QED
      BY <1>7, <3>3, <3>4, <3>5
  <2> QED
    BY <1>1, <1>8, <2>1, <2>2, <2>3, <2>4, <2>5, <2>6 DEF Watched
<1>12. Recovered'
  <2>1. \A w \in Count : IsStuck(w)' => IsStuck(w)
    BY <1>7 DEF IsStuck
  <2>2. \A w \in Count : Pending(w)' = Pending(w)
    BY <1>1 DEF Pending, Supervised
  <2>3. \A w \in Count : Pending(w)' \subseteq Requests
    BY DEF Pending
  <2> QED
    BY <1>1, <1>8, <2>1, <2>2, <2>3, BudgetKept DEF Supervised
<1>13. Done'
  BY <1>1, <1>2 DEF Done
<1>14. AttemptsAddUp'
  BY <1>1, <1>6, CountKept
<1> QED
  BY <1>9, <1>10, <1>11, <1>12, <1>13, <1>14

(* QaFails, CompleteItem and CompleteSession complete the watchdogs of an     *)
(* item or a session of the current task.                                    *)
LEMMA CompletesKept ==
  ASSUME IInv, NEW type \in {"TaskQueueItem", "TaskExecutionSession"},
         watchdogs' = Completes(type, task, watchdogs),
         UNCHANGED <<task, current, actions, silences, call, listed>>
  PROVE  /\ Count' = Count /\ watchdogs' \in Seq(Watchdog)
         /\ Len(watchdogs') = Len(watchdogs)
         /\ Same(watchdogs, watchdogs') /\ Recovered'
         /\ \A w \in Count :
              /\ ItemDog(w)' = ItemDog(w) /\ SessionDog(w)' = SessionDog(w)
              /\ watchdogs'[w].task = watchdogs[w].task
              /\ IF watchdogs[w].type = type /\ watchdogs[w].task = task
                 THEN watchdogs'[w].status = "COMPLETED"
                 ELSE watchdogs'[w] = watchdogs[w]
         /\ \A t \in 1..task : \E w \in Count : ItemDog(w)' /\ watchdogs'[w].task = t
         /\ \A t \in 1..current : \E w \in Count : SessionDog(w)' /\ watchdogs'[w].task = t
<1> USE DEF IInv
<1> PICK e : e = Completes(type, task, watchdogs) OBVIOUS
<1>1. /\ Same(watchdogs, e)
      /\ \A w \in Count : IF watchdogs[w].type = type /\ watchdogs[w].task = task
                          THEN e[w].status = "COMPLETED" ELSE e[w] = watchdogs[w]
  BY CompletedDogs DEF Typed
<1>2. watchdogs' = e
  OBVIOUS
<1>3. /\ Count' = Count /\ watchdogs' \in Seq(Watchdog)
      /\ Len(watchdogs') = Len(watchdogs) /\ Same(watchdogs, watchdogs')
  BY <1>1, <1>2 DEF Same, Count
<1>4. \A w \in Count :
        /\ ItemDog(w)' = ItemDog(w) /\ SessionDog(w)' = SessionDog(w)
        /\ watchdogs'[w].task = watchdogs[w].task
  BY <1>3 DEF Same, Count, ItemDog, SessionDog
<1>5. Recovered'
  <2>1. \A w \in Count : IsStuck(w)' => IsStuck(w)
    BY <1>1, <1>2 DEF IsStuck
  <2>2. \A w \in Count : Pending(w)' = Pending(w)
    BY DEF Pending
  <2>3. \A w \in Count : Pending(w)' \subseteq Requests
    BY DEF Pending
  <2> QED
    BY <1>3, <2>1, <2>2, <2>3, BudgetKept
<1>6. /\ \A t \in 1..task : \E w \in Count : ItemDog(w)' /\ watchdogs'[w].task = t
      /\ \A t \in 1..current : \E w \in Count : SessionDog(w)' /\ watchdogs'[w].task = t
  BY <1>4 DEF Watched
<1> QED
  BY <1>1, <1>2, <1>3, <1>4, <1>5, <1>6

LEMMA QaFailsStep == ASSUME IInv, QaFails PROVE IInv'
<1> USE DEF IInv
<1>1. /\ step = "verdict" /\ step' = "opening" /\ reworked' = TRUE
      /\ ToSession(task, "WAITING_REVIEW", sessions[task].attempts)
      /\ watchdogs' = Completes("TaskExecutionSession", task, watchdogs)
      /\ UNCHANGED <<task, items, current, actions, Supervised, mishaps>>
  BY DEF QaFails, Goto
<1>2. /\ task \in Task /\ current = task /\ sessions[task].attempts \in Nat
      /\ "WAITING_REVIEW" \in SessionStatus
  BY <1>1, Numbers DEF Typed, Position, Task, SessionStatus
<1>3. /\ sessions' \in [Task -> [status : SessionStatus, attempts : Nat]]
      /\ sessions'[task].status = "WAITING_REVIEW"
      /\ sessions'[task].attempts = sessions[task].attempts
      /\ \A t \in Task \ {task} : sessions'[t] = sessions[t]
  BY <1>1, <1>2, OneSession
<1>4. /\ Count' = Count /\ watchdogs' \in Seq(Watchdog)
      /\ Len(watchdogs') = Len(watchdogs)
      /\ Same(watchdogs, watchdogs') /\ Recovered'
      /\ \A w \in Count :
           /\ ItemDog(w)' = ItemDog(w) /\ SessionDog(w)' = SessionDog(w)
           /\ watchdogs'[w].task = watchdogs[w].task
           /\ IF SessionDog(w) /\ watchdogs[w].task = task
              THEN watchdogs'[w].status = "COMPLETED"
              ELSE watchdogs'[w] = watchdogs[w]
      /\ \A t \in 1..task : \E w \in Count : ItemDog(w)' /\ watchdogs'[w].task = t
      /\ \A t \in 1..current : \E w \in Count : SessionDog(w)' /\ watchdogs'[w].task = t
  BY <1>1, CompletesKept DEF Supervised, SessionDog
<1>5. Typed'
  BY <1>1, <1>3, <1>4 DEF Typed, Supervised, Steps
<1>6. Position'
  BY <1>1, <1>2, Numbers DEF Position, Task
<1>7. Watched'
  BY <1>1, <1>4 DEF Watched
<1>8. Done'
  BY <1>1, <1>2, <1>3 DEF Done
<1>9. AttemptsAddUp'
  <2>1. \A t \in Task : sessions'[t].attempts = sessions[t].attempts
    BY <1>3
  <2> QED
    BY <1>4, <2>1, CountKept
<1> QED
  BY <1>4, <1>5, <1>6, <1>7, <1>8, <1>9

LEMMA CompleteItemStep == ASSUME IInv, CompleteItem PROVE IInv'
<1> USE DEF IInv
<1>1. /\ step = "verdict" /\ step' = "passing"
      /\ items' = [items EXCEPT ![task] = "COMPLETED"]
      /\ watchdogs' = Completes("TaskQueueItem", task, watchdogs)
      /\ UNCHANGED <<task, reworked, sessions, current, actions, Supervised, mishaps>>
  BY DEF CompleteItem, Goto
<1>2. task \in Task /\ current = task
  BY <1>1, Numbers DEF Typed, Position, Task
<1>3. /\ Count' = Count /\ watchdogs' \in Seq(Watchdog)
      /\ Len(watchdogs') = Len(watchdogs)
      /\ Same(watchdogs, watchdogs') /\ Recovered'
      /\ \A w \in Count :
           /\ ItemDog(w)' = ItemDog(w) /\ SessionDog(w)' = SessionDog(w)
           /\ watchdogs'[w].task = watchdogs[w].task
           /\ IF ItemDog(w) /\ watchdogs[w].task = task
              THEN watchdogs'[w].status = "COMPLETED"
              ELSE watchdogs'[w] = watchdogs[w]
      /\ \A t \in 1..task : \E w \in Count : ItemDog(w)' /\ watchdogs'[w].task = t
      /\ \A t \in 1..current : \E w \in Count : SessionDog(w)' /\ watchdogs'[w].task = t
  BY <1>1, CompletesKept DEF Supervised, ItemDog
<1>4. Typed'
  <2>1. items' \in [Task -> ItemStatus] /\ step' \in Steps
    BY <1>1 DEF Typed, ItemStatus, Steps
  <2> QED
    BY <1>1, <1>3, <2>1 DEF Typed, Supervised
<1>5. Position'
  BY <1>1, <1>2, Numbers DEF Position, Task
<1>6. Watched'
  BY <1>1, <1>3 DEF Watched
<1>7. Done'
  BY <1>1, <1>2 DEF Done, Typed
<1>8. AttemptsAddUp'
  BY <1>1, <1>3, CountKept
<1> QED
  BY <1>3, <1>4, <1>5, <1>6, <1>7, <1>8

LEMMA CompleteSessionStep == ASSUME IInv, CompleteSession PROVE IInv'
<1> USE DEF IInv
<1>1. /\ step = "passing" /\ step' = "starting"
      /\ ToSession(task, "COMPLETED", sessions[task].attempts)
      /\ watchdogs' = Completes("TaskExecutionSession", task, watchdogs)
      /\ UNCHANGED <<task, reworked, items, current, actions, Supervised, mishaps>>
  BY DEF CompleteSession, Goto
<1>2. /\ task \in Task /\ current = task /\ sessions[task].attempts \in Nat
      /\ "COMPLETED" \in SessionStatus
  BY <1>1, Numbers DEF Typed, Position, Task, SessionStatus
<1>3. /\ sessions' \in [Task -> [status : SessionStatus, attempts : Nat]]
      /\ sessions'[task].status = "COMPLETED"
      /\ sessions'[task].attempts = sessions[task].attempts
      /\ \A t \in Task \ {task} : sessions'[t] = sessions[t]
  BY <1>1, <1>2, OneSession
<1>4. /\ Count' = Count /\ watchdogs' \in Seq(Watchdog)
      /\ Len(watchdogs') = Len(watchdogs)
      /\ Same(watchdogs, watchdogs') /\ Recovered'
      /\ \A w \in Count :
           /\ ItemDog(w)' = ItemDog(w) /\ SessionDog(w)' = SessionDog(w)
           /\ watchdogs'[w].task = watchdogs[w].task
           /\ IF SessionDog(w) /\ watchdogs[w].task = task
              THEN watchdogs'[w].status = "COMPLETED"
              ELSE watchdogs'[w] = watchdogs[w]
      /\ \A t \in 1..task : \E w \in Count : ItemDog(w)' /\ watchdogs'[w].task = t
      /\ \A t \in 1..current : \E w \in Count : SessionDog(w)' /\ watchdogs'[w].task = t
  BY <1>1, CompletesKept DEF Supervised, SessionDog
<1>5. Typed'
  BY <1>1, <1>3, <1>4 DEF Typed, Supervised, Steps
<1>6. Position'
  BY <1>1, <1>2, Numbers DEF Position, Task
<1>7. Watched'
  BY <1>1, <1>4 DEF Watched
<1>8. Done'
  BY <1>1, <1>2, <1>3 DEF Done
<1>9. AttemptsAddUp'
  <2>1. \A t \in Task : sessions'[t].attempts = sessions[t].attempts
    BY <1>3
  <2> QED
    BY <1>4, <2>1, CountKept
<1> QED
  BY <1>4, <1>5, <1>6, <1>7, <1>8, <1>9

LEMMA Working ==
  ASSUME Typed, Position, step \notin {"starting", "crashed"}
  PROVE  /\ task \in Task /\ task \in Nat /\ task >= 1 /\ task \in 1..task
         /\ current \in Nat /\ Len(watchdogs) \in Nat
<1>1. /\ task \in Nat /\ task <= Tasks /\ current \in Nat /\ Len(watchdogs) \in Nat
  BY Numbers DEF Typed
<1>2. task > 0
  BY DEF Position
<1> QED
  BY <1>1, <1>2, Numbers DEF Task

(* An execution that is over gets a watchdog; the session beats.             *)
LEMMA RecordDogs ==
  ASSUME IInv, NEW r \in 0..1, RecordExecution(r)
  PROVE  /\ Grown("KiloExecution", task, r)
         /\ \A w \in Count :
              LET beats == SessionDog(w) /\ watchdogs[w].task = current
              IN  /\ beats => watchdogs'[w].status = "ACTIVE" /\ watchdogs'[w].fresh
                  /\ ~ beats => watchdogs'[w] = watchdogs[w]
<1> USE DEF IInv
<1>1. task \in Task /\ watchdogs \in Seq(Watchdog) /\ Len(watchdogs) \in Nat
  <2>1. step \in {"activating now", "dev now", "qa now"}
    BY ExecutionSteps DEF RecordExecution
  <2> QED
    BY <2>1, Working DEF Typed
<1> PICK dogs : dogs = Registered("KiloExecution", task, r) OBVIOUS
<1> PICK n : n = Len(watchdogs) + 1 OBVIOUS
<1>2. /\ dogs \in Seq(Watchdog) /\ Len(dogs) = n
      /\ \A w \in Count : dogs[w] = watchdogs[w]
      /\ dogs[n] = NewWatchdog("KiloExecution", task, r)
  BY <1>1, Appended DEF TargetType
<1> PICK e : e = Beats("TaskExecutionSession", current, dogs) OBVIOUS
<1>3. watchdogs' = e
  BY DEF RecordExecution
<1>4. Same(dogs, e)
  BY <1>2, Beaten
<1>5. ASSUME NEW w \in 1..Len(dogs)
      PROVE  /\ w \in Watching("TaskExecutionSession", current) => e[w] = Beating(dogs[w])
             /\ w \notin Watching("TaskExecutionSession", current) => e[w] = dogs[w]
  BY <1>2, Beaten
<1>6. n \notin Watching("TaskExecutionSession", current) /\ n \in 1..Len(dogs)
  BY <1>1, <1>2 DEF Watching
<1>7. e[n] = NewWatchdog("KiloExecution", task, r)
  BY <1>2, <1>5, <1>6
<1>8. ASSUME NEW w \in Count
      PROVE  /\ w \in 1..Len(dogs) /\ e[w].type = watchdogs[w].type
             /\ e[w].task = watchdogs[w].task /\ e[w].retried = watchdogs[w].retried
             /\ SessionDog(w) /\ watchdogs[w].task = current => e[w] = Beating(watchdogs[w])
             /\ ~ (SessionDog(w) /\ watchdogs[w].task = current) => e[w] = watchdogs[w]
  <2>1. w \in 1..Len(dogs) /\ dogs[w] = watchdogs[w]
    BY <1>1, <1>2 DEF Count
  <2>2. w \in Watching("TaskExecutionSession", current)
          <=> SessionDog(w) /\ watchdogs[w].task = current
    BY <1>1 DEF Watching, Count, SessionDog
  <2> QED
    BY <1>4, <1>5, <2>1, <2>2 DEF Same
<1>9. Grown("KiloExecution", task, r)
  <2>1. e \in Seq(Watchdog) /\ Len(e) = n
    BY <1>2, <1>4 DEF Same
  <2> QED
    BY <1>3, <1>7, <1>8, <2>1 DEF Grown, NewWatchdog
<1>10. ASSUME NEW w \in Count
       PROVE  LET beats == SessionDog(w) /\ watchdogs[w].task = current
              IN  /\ beats => e[w].status = "ACTIVE" /\ e[w].fresh
                  /\ ~ beats => e[w] = watchdogs[w]
  <2>1. Beating(watchdogs[w]).status = "ACTIVE" /\ Beating(watchdogs[w]).fresh
    BY DogTask, OneBeat
  <2> QED
    BY <1>8, <2>1
<1> QED
  BY <1>3, <1>9, <1>10

(* It counts, once and once for every repeated attempt, for its own session. *)
LEMMA RecordedCount ==
  ASSUME IInv, NEW r \in 0..1, NEW k \in Task, k = task, Grown("KiloExecution", k, r)
  PROVE  /\ \A t \in Task \ {k} : Attempts(t)' = Attempts(t)
         /\ current = 0 => Attempts(k)' = Attempts(k)
         /\ current = k => Cardinality(Attempts(k))' = Cardinality(Attempts(k)) + r + 1
<1> USE DEF IInv
<1> PICK n : n = Len(watchdogs) + 1 OBVIOUS
<1>1. /\ DOMAIN watchdogs = 1..Len(watchdogs) /\ DOMAIN watchdogs' = 1..n
      /\ Len(watchdogs) \in Nat /\ k \in Nat /\ Count = 1..Len(watchdogs)
  BY Numbers DEF Grown, Typed, Task, Count
<1>2. \A t \in Task :
        Watching("TaskExecutionSession", t)' = Watching("TaskExecutionSession", t)
  BY <1>1 DEF Watching, Grown, Count
<1>3. \A t \in Task \ {k} :
        Watching("KiloExecution", t)' = Watching("KiloExecution", t)
  BY <1>1 DEF Watching, Grown, Count
<1>4. Watching("KiloExecution", k)' = Watching("KiloExecution", k) \cup {n}
  BY <1>1 DEF Watching, Grown, Count
<1>5. \A t \in Task : \A w \in Executions(t) : watchdogs'[w].retried = watchdogs[w].retried
  BY <1>1 DEF Executions, Watching, Grown, Count
<1>6. \A t \in Task \ {k} : Attempts(t)' = Attempts(t)
  <2> SUFFICES ASSUME NEW t \in Task \ {k} PROVE Attempts(t)' = Attempts(t)
    OBVIOUS
  <2>1. Executions(t)' = Executions(t)
    BY <1>2, <1>3 DEF Executions
  <2> QED
    BY <1>5, <2>1 DEF Attempts
<1>7. ASSUME current = 0 PROVE Attempts(k)' = Attempts(k)
  <2>1. Watching("TaskExecutionSession", k) = {}
    <3>1. \A w \in Count : SessionDog(w) => watchdogs[w].task <= 0
      BY <1>7 DEF Watched
    <3> QED
      BY <1>1, <3>1, Numbers DEF Watching, SessionDog, Task
  <2>2. Executions(k) = {} /\ Executions(k)' = {}
    BY <1>1, <1>2, <2>1 DEF Executions
  <2> QED
    BY <2>2 DEF Attempts
<1>8. ASSUME current = k
      PROVE  Cardinality(Attempts(k))' = Cardinality(Attempts(k)) + r + 1
  <2> PICK A, B : A = Attempts(k) /\ B = Attempts(k)' OBVIOUS
  <2>1. \E v \in Watching("TaskExecutionSession", k) : v < n
    <3>1. \E w \in Count : SessionDog(w) /\ watchdogs[w].task = k
      <4>1. k \in 1..current
        BY <1>8, Numbers DEF Task
      <4> QED
        BY <4>1 DEF Watched
    <3> QED
      BY <1>1, <3>1 DEF Watching, SessionDog
  <2>2. Executions(k)' = Executions(k) \cup {n}
    <3>1. Watching("TaskExecutionSession", k)' = Watching("TaskExecutionSession", k)
      BY <1>2
    <3> QED
      BY <1>4, <2>1, <3>1 DEF Executions
  <2>3. watchdogs'[n].retried = r /\ n \notin Executions(k)
    BY <1>1 DEF Grown, Executions, Watching
  <2>4. B = A \cup {a \in {n} \X (0..1) : a[2] <= r}
    BY <1>5, <2>2, <2>3 DEF Attempts
  <2>5. \A a \in A : a[1] # n
    BY <2>3 DEF Attempts
  <2>6. IsFiniteSet(A) /\ Cardinality(A) \in Nat
    <3>1. A \subseteq Count \X (0..1)
      BY <1>1 DEF Attempts, Executions, Watching
    <3>2. IsFiniteSet(1..Len(watchdogs)) /\ IsFiniteSet(0..1)
      <4>1. Len(watchdogs) \in Int /\ 0 \in Int /\ 1 \in Int
        BY <1>1
      <4> QED
        BY <4>1, FS_Interval
    <3>3. IsFiniteSet(Count \X (0..1))
      BY <1>1, <3>2, FS_Product
    <3> QED
      BY <3>1, <3>3, FS_Subset, FS_CardinalityType
  <2>7. CASE r = 0
    <3>1. B = A \cup {<<n, 0>>} /\ <<n, 0>> \notin A
      BY <2>4, <2>5, <2>7
    <3>2. Cardinality(B) = Cardinality(A) + 1
      BY <2>6, <3>1, FS_AddElement
    <3> QED
      BY <2>6, <2>7, <3>2
  <2>8. CASE r = 1
    <3> PICK x, y : x = <<n, 0>> /\ y = <<n, 1>> OBVIOUS
    <3> PICK C : C = A \cup {x} OBVIOUS
    <3>1. B = C \cup {y} /\ x \notin A /\ y \notin C
      BY <2>4, <2>5, <2>8
    <3>2. IsFiniteSet(C) /\ Cardinality(C) = Cardinality(A) + 1
      BY <2>6, <3>1, FS_AddElement
    <3>3. Cardinality(C \cup {y}) = Cardinality(C) + 1
      BY <3>1, <3>2, FS_AddElement
    <3> QED
      BY <2>6, <2>8, <3>1, <3>2, <3>3
  <2> QED
    BY <2>7, <2>8
<1> QED
  BY <1>6, <1>7, <1>8

LEMMA RecordExecutionStep ==
  ASSUME IInv, NEW r \in 0..1, RecordExecution(r)
  PROVE  IInv'
<1> USE DEF IInv
<1>1. /\ mishaps + r <= MaxMishaps /\ mishaps' = mishaps + r
      /\ actions' = Append(actions, <<>>)
      /\ IF current = 0 THEN UNCHANGED sessions
         ELSE ToSession(current, "RUNNING", sessions[current].attempts + r + 1)
      /\ UNCHANGED <<task, reworked, items, current, Supervised>>
  BY DEF RecordExecution, NoTask, AttemptsAfter
<1>2. \/ step = "activating now" /\ step' = "opening"
      \/ step = "dev now" /\ step' = "qa"
      \/ step = "qa now" /\ step' = "verdict"
  <2>1. step \in {"activating now", "dev now", "qa now"} /\ step' = AfterKilo[KiloOf(step)]
    BY ExecutionSteps DEF RecordExecution, Goto
  <2>2. /\ AfterKilo["activating"] = "opening" /\ AfterKilo["dev"] = "qa"
        /\ AfterKilo["qa"] = "verdict"
    BY DEF AfterKilo
  <2> QED
    BY <2>1, <2>2, ExecutionSteps
<1>3. /\ task \in Task /\ task \in Nat /\ current \in Nat /\ Len(watchdogs) \in Nat
      /\ \/ step' = "opening" /\ current = 0
         \/ step' \in {"qa", "verdict"} /\ current = task
  <2>1. step \notin {"starting", "crashed"}
    BY <1>2
  <2> QED
    BY <1>2, <2>1, Working DEF Position
<1>4. /\ Grown("KiloExecution", task, r)
      /\ \A w \in Count :
           LET beats == SessionDog(w) /\ watchdogs[w].task = current
           IN  /\ beats => watchdogs'[w].status = "ACTIVE" /\ watchdogs'[w].fresh
               /\ ~ beats => watchdogs'[w] = watchdogs[w]
  BY RecordDogs
<1>5. /\ sessions' \in [Task -> [status : SessionStatus, attempts : Nat]]
      /\ current = 0 => sessions' = sessions
      /\ current = task =>
           /\ sessions'[task].status = "RUNNING"
           /\ sessions'[task].attempts = sessions[task].attempts + r + 1
           /\ \A t \in Task \ {task} : sessions'[t] = sessions[t]
  <2>1. CASE current = 0
    <3>1. current # task
      BY <1>3, <2>1, Numbers DEF Task
    <3> QED
      BY <1>1, <2>1, <3>1 DEF Typed
  <2>2. CASE current # 0
    <3>1. current = task
      BY <1>3, <2>2
    <3>2. sessions[task].attempts + r + 1 \in Nat /\ "RUNNING" \in SessionStatus
      BY <1>3 DEF Typed, SessionStatus
    <3>3. ToSession(task, "RUNNING", sessions[task].attempts + r + 1)
      BY <1>1, <2>2, <3>1
    <3> PICK m : m = sessions[task].attempts + r + 1
      OBVIOUS
    <3>4. /\ sessions' \in [Task -> [status : SessionStatus, attempts : Nat]]
          /\ sessions'[task].status = "RUNNING" /\ sessions'[task].attempts = m
          /\ \A t \in Task \ {task} : sessions'[t] = sessions[t]
      <4>1. m \in Nat /\ ToSession(task, "RUNNING", m) /\ "RUNNING" \in SessionStatus
        BY <3>2, <3>3
      <4>2. task \in Task /\ Typed
        BY <1>3
      <4> QED
        BY ONLY <4>1, <4>2, OneSession
    <3> QED
      BY <2>2, <3>4
  <2> QED
    BY <2>1, <2>2
<1>6. Typed'
  <2>1. actions' \in Seq(Seq(ActionType)) /\ Len(actions') = Len(watchdogs')
    BY <1>1, <1>4 DEF Typed, Grown
  <2>2. Count \subseteq Count'
    BY <1>3, <1>4 DEF Grown, Count
  <2>3. listed' \in [Requests -> SUBSET Count'] /\ heard' \subseteq Count'
    BY <1>1, <2>2 DEF Typed, Supervised
  <2>4. silences' \in 0..mishaps' /\ mishaps' \in 0..MaxMishaps
    BY <1>1, Numbers DEF Typed, Supervised
  <2>5. step' \in Steps
    BY <1>2 DEF Steps, KiloSteps
  <2> QED
    BY <1>1, <1>4, <1>5, <2>1, <2>3, <2>4, <2>5 DEF Typed, Supervised, Grown
<1>7. Position'
  BY <1>1, <1>2, <1>3, Numbers DEF Position, Task
<1>8. Watched'
  <2> PICK n : n = Len(watchdogs) + 1 OBVIOUS
  <2>1. Count' = Count \cup {n} /\ n \notin Count
    BY <1>3, <1>4 DEF Grown, Count
  <2>2. ~ ItemDog(n)' /\ ~ SessionDog(n)'
    BY <1>4 DEF Grown, ItemDog, SessionDog
  <2>3. \A w \in Count : /\ ItemDog(w)' = ItemDog(w) /\ SessionDog(w)' = SessionDog(w)
                         /\ watchdogs'[w].task = watchdogs[w].task
    BY <1>4 DEF ItemDog, SessionDog, Grown
  <2>4. \A t \in 1..task' : \E w \in Count' : ItemDog(w)' /\ watchdogs'[w].task = t
    BY <1>1, <2>1, <2>3 DEF Watched
  <2>5. \A t \in 1..current' : \E w \in Count' : SessionDog(w)' /\ watchdogs'[w].task = t
    BY <1>1, <2>1, <2>3 DEF Watched
  <2>6. step' \notin {"passing", "starting", "ended", "dev now", "qa now"}
    BY <1>2
  <2>7. ASSUME NEW w \in Count
        PROVE  /\ ItemDog(w) => watchdogs[w].task <= task
               /\ SessionDog(w) => watchdogs[w].task <= current
               /\ (ItemDog(w) \/ SessionDog(w)) /\ watchdogs'[w].status = "ACTIVE"
                    => watchdogs[w].task = task
    <3>1. ItemDog(w) => ~ SessionDog(w)
      BY DEF ItemDog, SessionDog
    <3>2. watchdogs[w].task # 0
      BY DogTask, Numbers DEF Task
    <3>3. CASE SessionDog(w) /\ watchdogs[w].task = current
      BY <1>3, <3>1, <3>2, <3>3 DEF Watched
    <3>4. CASE ~ (SessionDog(w) /\ watchdogs[w].task = current)
      BY <1>4, <3>4 DEF Watched
    <3> QED
      BY <3>3, <3>4
  <2>8. \A w \in Count' :
       /\ ItemDog(w)' => watchdogs'[w].task <= task'
       /\ SessionDog(w)' => watchdogs'[w].task <= current'
       /\ ItemDog(w)' /\ watchdogs'[w].status = "ACTIVE" => watchdogs'[w].task = task'
       /\ SessionDog(w)' /\ watchdogs'[w].status = "ACTIVE" => watchdogs'[w].task = task'
    BY <1>1, <2>1, <2>2, <2>3, <2>7
  <2> QED
    BY <2>4, <2>5, <2>6, <2>8 DEF Watched
<1>9. Recovered'
  <2>1. \A w \in Count : IsStuck(w)' => IsStuck(w)
    BY <1>4 DEF IsStuck
  <2> QED
    BY <1>1, <1>4, <2>1, BudgetGrown DEF Supervised
<1>10. Done'
  <2>1. task' = task /\ items' = items /\ current' = current
    BY <1>1
  <2>2. CASE current = 0
    <3>1. sessions' = sessions /\ step' = "opening"
      BY <1>3, <1>5, <2>2, Numbers DEF Task
    <3> QED
      BY <1>2, <2>1, <3>1 DEF Done
  <2>3. CASE current = task
    <3>1. /\ step' \notin {"starting", "ended", "passing"} /\ task \in Nat
          /\ sessions'[task].status = "RUNNING"
          /\ \A t \in Task \ {task} : sessions'[t] = sessions[t]
      BY <1>2, <1>3, <1>5, <2>3
    <3>2. \A t \in Task : t < task \/ t > current => t # task
      BY <1>3, <2>3, Numbers DEF Task
    <3> QED
      BY <2>1, <3>1, <3>2 DEF Done
  <2> QED
    BY <1>3, <2>2, <2>3
<1>11. AttemptsAddUp'
  <2> PICK k : k = task
    OBVIOUS
  <2>1. /\ \A t \in Task \ {k} : Attempts(t)' = Attempts(t)
        /\ current = 0 => Attempts(k)' = Attempts(k)
        /\ current = k => Cardinality(Attempts(k))' = Cardinality(Attempts(k)) + r + 1
    BY <1>3, <1>4, RecordedCount
  <2>2. \A t \in Task : sessions'[t].attempts = Cardinality(Attempts(t))'
    <3>1. CASE current = 0
      <4>1. \A t \in Task : Attempts(t)' = Attempts(t)
        BY <2>1, <3>1
      <4> QED
        BY <1>5, <3>1, <4>1 DEF AttemptsAddUp
    <3>2. CASE current = task
      <4>1. k \in Task /\ Cardinality(Attempts(k))' = sessions'[k].attempts
        BY <1>3, <1>5, <2>1, <3>2 DEF AttemptsAddUp
      <4>2. \A t \in Task \ {k} : Attempts(t)' = Attempts(t) /\ sessions'[t] = sessions[t]
        BY <1>5, <2>1, <3>2
      <4> QED
        BY <4>1, <4>2 DEF AttemptsAddUp
    <3> QED
      BY <1>3, <3>1, <3>2
  <2> QED
    BY <2>2 DEF AttemptsAddUp
<1> QED
  BY <1>6, <1>7, <1>8, <1>9, <1>10, <1>11

-----------------------------------------------------------------------------
(* Every step of the run and of the requests. *)
LEMMA NextStep == IInv /\ [Next]_vars => IInv'
<1> SUFFICES ASSUME IInv, [Next]_vars PROVE IInv'
  OBVIOUS
<1>1. CASE Run
  BY <1>1, StartItemStep, OpenSessionStep, ResumeStep, BeginExecutionStep, QuietStep,
     RecordExecutionStep, QaFailsStep, CompleteItemStep, CompleteSessionStep DEF Run
<1>2. CASE Silence
  BY <1>2, SilenceStep
<1>3. CASE \E c \in Requests : Request(c)
  BY <1>3, BeginDetectionStep, BeginCancelStep, MarkStuckStep, MarkCancelledStep DEF Request
<1>4. CASE UNCHANGED vars
  <2>1. /\ Count' = Count /\ \A w : Owed(w)' = Owed(w) /\ ItemDog(w)' = ItemDog(w)
                                    /\ SessionDog(w)' = SessionDog(w)
    BY <1>4 DEF vars, Count, Owed, IsStuck, Pending, ItemDog, SessionDog
  <2>2. \A t : Attempts(t)' = Attempts(t)
    BY <1>4 DEF vars, Attempts, Executions, Watching
  <2> QED
    BY <1>4, <2>1, <2>2
       DEF IInv, Typed, Position, Watched, Recovered, Done, AttemptsAddUp, vars, run
<1> QED
  BY <1>1, <1>2, <1>3, <1>4 DEF Next

LEMMA Invariant == Spec => []IInv
BY InitStep, NextStep, PTL DEF Spec

LEMMA InvariantImplies ==
  IInv => /\ TypeOK /\ WatchedWhileWorked /\ RecoveredOncePerSilence /\ SessionsTellTheWork
<1> SUFFICES ASSUME IInv
             PROVE  TypeOK /\ WatchedWhileWorked /\ RecoveredOncePerSilence /\ SessionsTellTheWork
  OBVIOUS
<1> USE DEF IInv
<1>1. /\ DOMAIN watchdogs = Count /\ DOMAIN actions = Count /\ Len(watchdogs) \in Nat
  BY DEF Typed, Count
<1>2. TypeOK
  <2>1. actions \in [Count -> Seq(ActionType)]
    BY <1>1 DEF Typed, Count
  <2> QED
    BY <1>1, <2>1, ExecutionSteps DEF Typed, TypeOK, ActionType, Steps
<1>3. WorkIsWatched
  <2> SUFFICES ASSUME step \in {"dev now", "qa now"}
               PROVE  /\ \E w \in Watching("TaskQueueItem", task) :
                            watchdogs[w].status # "COMPLETED"
                      /\ \E w \in Watching("TaskExecutionSession", task) :
                            watchdogs[w].status # "COMPLETED"
    BY DEF WorkIsWatched
  <2>1. current = task /\ task \in 1..task
    BY Working DEF Position
  <2>2. \A w \in Count : (ItemDog(w) \/ SessionDog(w)) /\ watchdogs[w].task = task
           => watchdogs[w].status # "COMPLETED"
    BY DEF Watched
  <2>3. PICK w \in Count : ItemDog(w) /\ watchdogs[w].task = task
    BY <2>1 DEF Watched
  <2>4. PICK v \in Count : SessionDog(v) /\ watchdogs[v].task = task
    BY <2>1 DEF Watched
  <2> QED
    BY <1>1, <2>2, <2>3, <2>4 DEF Watching, ItemDog, SessionDog
<1>4. EndedIsNotWatched
  <2> SUFFICES ASSUME step = "ended", NEW w \in Count, watchdogs[w].type # "KiloExecution"
               PROVE  watchdogs[w].status # "ACTIVE"
    BY <1>1 DEF EndedIsNotWatched
  <2>1. ItemDog(w) \/ SessionDog(w)
    <3>1. watchdogs[w].type \in TargetType
      BY DogTask DEF Watchdog
    <3> QED
      BY <3>1 DEF TargetType, ItemDog, SessionDog
  <2> QED
    BY <2>1 DEF Watched
<1>5. RecoveredOncePerSilence
  <2> SUFFICES ASSUME NEW w \in Count
               PROVE  Len(actions[w]) <= silences * Cardinality(Requests)
    BY <1>1 DEF RecoveredOncePerSilence
  <2>1. Len(actions[w]) + Owed(w) <= silences * Cardinality(Requests)
    BY DEF Recovered
  <2>2. Owed(w) \in Nat
    BY PendingCount, RequestCount DEF Owed
  <2>3. Len(actions[w]) \in Nat /\ silences * Cardinality(Requests) \in Nat
    BY RequestCount DEF Typed, Count
  <2> QED
    BY <2>1, <2>2, <2>3
<1>6. SessionsFollowItems
  <2> SUFFICES ASSUME NEW t \in Task, step = "ended"
               PROVE  sessions[t].status \in {"COMPLETED", "CANCELLED"}
    BY DEF SessionsFollowItems, Done
  <2>1. t < task \/ t = task
    BY Numbers DEF Position, Task
  <2> QED
    BY <2>1 DEF Done
<1> QED
  BY <1>2, <1>3, <1>4, <1>5, <1>6 DEF WatchedWhileWorked, SessionsTellTheWork

(* Type correctness: the registry holds one row of actions per watchdog, and  *)
(* a request only has watchdogs left to write that exist (registry.py).      *)
THEOREM SupervisionTyped == Spec => []TypeOK
BY Invariant, InvariantImplies, PTL

(* Heartbeats, completions, detections and cancellations of any number of    *)
(* requests leave the item and the session of a running execution watched,   *)
(* and nothing watched when the run has ended (heartbeat_watchdog,           *)
(* complete_queue_item_watchdog, finalize_session_health).                   *)
THEOREM WorkWatched == Spec => []WatchedWhileWorked
BY Invariant, InvariantImplies, PTL

(* However many requests overlap in detect_stuck, each recovers a watchdog    *)
(* at most once for every time the run fell silent.                          *)
THEOREM RecoveryBounded == Spec => []RecoveredOncePerSilence
BY Invariant, InvariantImplies, PTL

(* Sessions are completed with their items, all of them when the run ends,   *)
(* and count every attempt of every execution recorded for them              *)
(* (update_task_execution_session, record_kilo_execution_for_session).       *)
THEOREM SessionsCount == Spec => []SessionsTellTheWork
BY Invariant, InvariantImplies, PTL
=============================================================================
