------------------------ MODULE CapabilitySlotsProofs -----------------------
(***************************************************************************)
(* Theorems about CapabilitySlots for any threads, roles, models and slot  *)
(* counts: the types; as long as calls were not divided, that no capacity  *)
(* is oversubscribed and used_slots counts the active allocations; that no *)
(* race loses the only slot of a capacity.                                 *)
(***************************************************************************)
EXTENDS CapabilitySlots, FiniteSetTheorems, TLAPS

\* The slots a thread has taken and not yet given back.
Taken(t, c) ==
  \/ pc[t] = "granting" /\ at[t] = 2 /\ c = role[t]
  \/ pc[t] \in {"registering", "executing", "aborted"} /\ c \in Needs(role[t])
  \/ pc[t] \in {"reading", "returning"} /\ at[t] = 1 /\ c \in Needs(role[t])
  \/ pc[t] \in {"reading", "returning"} /\ at[t] = 2 /\ c = ModelOf[role[t]]

TakenBy(c) == {t \in Threads : Taken(t, c)}

\* The allocation is registered while the step executes.
HoldInv ==
  \A t \in Threads :
    /\ pc[t] # "idle" => role[t] \in Roles
    /\ holds[t] = IF pc[t] \in {"executing", "aborted"} THEN role[t] ELSE NoRole
    /\ pc[t] \in {"registering", "executing"} => at[t] = 1

BaseInv == SlotsTypeOK /\ HoldInv

LEMMA NeededType ==
  ASSUME NEW r \in Roles, NEW n \in 1..2
  PROVE  /\ Needed(r, n) \in Capacities /\ Needed(r, n) \in Needs(r)
         /\ Needs(r) \subseteq Capacities
         /\ r # ModelOf[r]
  BY RolesAssumption DEF Needed, Needs, Capacities

LEMMA BaseInvInit == SlotsInit => BaseInv
<1> SUFFICES ASSUME SlotsInit PROVE BaseInv
  OBVIOUS
<1>1. switched \in BOOLEAN
  BY DEF SlotsInit
<1>2. used \in [Capacities -> Nat] /\ at \in [Threads -> 1..2]
  BY DEF SlotsInit
<1>3. /\ holds \in [Threads -> Roles \cup {NoRole}]
      /\ pc \in [Threads -> Pc]
      /\ role \in [Threads -> Roles \cup {NoRole}]
      /\ seen \in [Threads -> [Capacities -> Nat]]
  BY DEF SlotsInit, NoCopies, Pc
<1>4. HoldInv
  BY DEF SlotsInit, HoldInv
<1> QED BY <1>1, <1>2, <1>3, <1>4 DEF BaseInv, SlotsTypeOK

LEMMA BaseInvStep == BaseInv /\ [SlotsNext]_slotVars => BaseInv'
<1> SUFFICES ASSUME BaseInv, [SlotsNext]_slotVars PROVE BaseInv'
  OBVIOUS
<1>0. switched' \in BOOLEAN
  BY DEF BaseInv, SlotsTypeOK, SlotsNext, Request, TakeSlot, RegisterAllocation, Abort,
         PopAllocation, ReadSlot, ReturnSlot, Turn, slotVars
<1> USE <1>0 DEF BaseInv, SlotsTypeOK, HoldInv, Pc, Goto, Advance, NoCopies
<1>1. ASSUME NEW t \in Threads, NEW r \in Roles, Request(t, r) PROVE BaseInv'
  BY <1>1 DEF Request
<1>2. ASSUME NEW t \in Threads, TakeSlot(t) PROVE BaseInv'
  <2>1. Needed(role[t], at[t]) \in Capacities /\ seen[t] \in [Capacities -> Nat]
    BY <1>2, NeededType DEF TakeSlot
  <2>2. used' \in [Capacities -> Nat]
    BY <1>2, <2>1 DEF TakeSlot
  <2>3. SlotsTypeOK'
    <3>1. at' \in [Threads -> 1..2]
      BY <1>2 DEF TakeSlot
    <3>2. pc' \in [Threads -> Pc]
      BY <1>2 DEF TakeSlot
    <3> QED BY <1>2, <2>2, <3>1, <3>2 DEF TakeSlot
  <2>4. HoldInv'
    BY <1>2 DEF TakeSlot
  <2> QED BY <2>3, <2>4
<1>3. ASSUME NEW t \in Threads, RegisterAllocation(t) PROVE BaseInv'
  BY <1>3 DEF RegisterAllocation
<1>4. ASSUME NEW t \in Threads, Abort(t) PROVE BaseInv'
  BY <1>4 DEF Abort
<1>5. ASSUME NEW t \in Threads, PopAllocation(t) PROVE BaseInv'
  BY <1>5 DEF PopAllocation
<1>6. ASSUME NEW t \in Threads, ReadSlot(t) PROVE BaseInv'
  <2>1. Needed(role[t], at[t]) \in Capacities
    BY <1>6, NeededType DEF ReadSlot
  <2>2. seen' \in [Threads -> [Capacities -> Nat]]
    BY <1>6, <2>1 DEF ReadSlot
  <2> QED BY <1>6, <2>2 DEF ReadSlot
<1>7. ASSUME NEW t \in Threads, ReturnSlot(t) PROVE BaseInv'
  <2>1. Needed(role[t], at[t]) \in Capacities /\ seen[t] \in [Capacities -> Nat]
    BY <1>7, NeededType DEF ReturnSlot
  <2>2. used' \in [Capacities -> Nat]
    BY <1>7, <2>1 DEF ReturnSlot, OneLess
  <2>3. SlotsTypeOK'
    <3>1. at' \in [Threads -> 1..2]
      BY <1>7 DEF ReturnSlot
    <3>2. pc' \in [Threads -> Pc]
      BY <1>7 DEF ReturnSlot
    <3> QED BY <1>7, <2>2, <3>1, <3>2 DEF ReturnSlot
  <2>4. HoldInv'
    BY <1>7 DEF ReturnSlot
  <2> QED BY <2>3, <2>4
<1>8. CASE UNCHANGED slotVars
  BY <1>8 DEF slotVars
<1> QED BY <1>1, <1>2, <1>3, <1>4, <1>5, <1>6, <1>7, <1>8 DEF SlotsNext

\* The registry and its threads keep their types.
THEOREM TypeCorrect == SlotsSpec => []SlotsTypeOK
<1>1. BaseInv => SlotsTypeOK
  BY DEF BaseInv
<1> QED BY <1>1, BaseInvInit, BaseInvStep, PTL DEF SlotsSpec

-----------------------------------------------------------------------------
(* Capacities of one slot, threads that switch anywhere: a slot in use is  *)
(* always one that some thread has still to give back.                     *)

OneSlot == {c \in Capacities : MaxSlots[c] = 1}

SlotIsTaken(c) == used[c] \in 0..1 /\ (used[c] = 1 => \E t \in Threads : Taken(t, c))

OneSlotInv ==
  /\ BaseInv
  /\ \A t \in Threads, c \in OneSlot : seen[t][c] \in 0..1
  /\ \A c \in OneSlot : SlotIsTaken(c)
  /\ \A t \in Threads : pc[t] = "granting"
                          => \A c \in Needs(role[t]) \cap OneSlot : seen[t][c] = 0

LEMMA OneSlotInvInit == SlotsInit => OneSlotInv
  BY BaseInvInit DEF SlotsInit, OneSlotInv, SlotIsTaken, OneSlot, NoCopies

\* A thread that neither takes nor returns a slot, and keeps those it has.
LEMMA SameTaken ==
  ASSUME OneSlotInv, BaseInv', used' = used, NEW t \in Threads,
         \A u \in Threads \ {t} : pc'[u] = pc[u] /\ role'[u] = role[u] /\ at'[u] = at[u],
         \A c \in Capacities : Taken(t, c) => Taken(t, c)'
  PROVE  \A c \in OneSlot : SlotIsTaken(c)'
<1> SUFFICES ASSUME NEW c \in OneSlot, used[c] = 1
             PROVE  \E u \in Threads : Taken(u, c)'
  BY DEF OneSlotInv, SlotIsTaken
<1>1. PICK u \in Threads : Taken(u, c)
  BY DEF OneSlotInv, SlotIsTaken
<1>2. CASE u = t
  BY <1>1, <1>2 DEF OneSlot
<1>3. CASE u # t
  BY <1>1, <1>3 DEF Taken
<1> QED BY <1>2, <1>3

LEMMA OneSlotInvStep ==
  ASSUME OneSlotInv, [SlotsNext]_slotVars
  PROVE  OneSlotInv'
<1>0. BaseInv'
  BY BaseInvStep DEF OneSlotInv
<1> USE DEF OneSlotInv, BaseInv, SlotsTypeOK, HoldInv, Goto, Advance
<1> DEFINE S == \A t \in Threads, c \in OneSlot : seen[t][c] \in 0..1
           U == \A c \in OneSlot : SlotIsTaken(c)
           G == \A t \in Threads : pc[t] = "granting"
                                   => \A c \in Needs(role[t]) \cap OneSlot : seen[t][c] = 0
<1> SUFFICES S' /\ U' /\ G'
  BY <1>0
<1>1. ASSUME NEW t \in Threads, NEW r \in Roles, Request(t, r) PROVE S' /\ U' /\ G'
  <2>1. \A c \in Needs(r) \cap OneSlot : c \in Capacities /\ used[c] = 0
    BY <1>1, NeededType DEF Request, OneSlot
  <2>2. \A c \in Capacities : ~Taken(t, c)
    BY <1>1 DEF Request, Taken
  <2>3. U'
    BY <1>0, <1>1, <2>2, SameTaken DEF Request
  <2>4. \A c \in OneSlot : used[c] \in 0..1
    BY DEF SlotIsTaken
  <2> QED BY <1>1, <2>1, <2>3, <2>4 DEF Request
<1>2. ASSUME NEW t \in Threads, TakeSlot(t) PROVE S' /\ U' /\ G'
  <2> DEFINE n == Needed(role[t], at[t])
  <2>1. n \in Capacities /\ n \in Needs(role[t])
    BY <1>2, NeededType DEF TakeSlot
  <2>2. used' = [used EXCEPT ![n] = seen[t][n] + 1]
    BY <1>2 DEF TakeSlot
  <2>3. \A c \in Capacities : c = n => Taken(t, c)'
    <3>1. CASE at[t] = 1
      BY <1>2, <3>1 DEF TakeSlot, Taken, Needed
    <3>2. CASE at[t] = 2
      BY <1>2, <3>2 DEF TakeSlot, Taken, Needed, Needs
    <3> QED BY <3>1, <3>2
  <2>4. \A c \in Capacities : Taken(t, c) => Taken(t, c)'
    BY <1>2 DEF TakeSlot, Taken, Needed, Needs
  <2>5. ASSUME NEW c \in OneSlot, c # n
        PROVE  SlotIsTaken(c)'
    <3>1. c \in Capacities /\ used'[c] = used[c] /\ SlotIsTaken(c)
      BY <2>2, <2>5 DEF OneSlot
    <3>2. ASSUME NEW u \in Threads, Taken(u, c) PROVE Taken(u, c)'
      <4>1. CASE u = t
        BY <2>4, <3>1, <3>2, <4>1
      <4>2. CASE u # t
        BY <1>2, <3>2, <4>2 DEF TakeSlot, Taken
      <4> QED BY <4>1, <4>2
    <3> QED BY <3>1, <3>2 DEF SlotIsTaken
  <2>6. ASSUME NEW c \in OneSlot, c = n
        PROVE  SlotIsTaken(c)'
    <3>1. seen[t][c] = 0 /\ used'[c] = 1
      BY <1>2, <2>1, <2>2, <2>6 DEF TakeSlot
    <3> QED BY <2>1, <2>3, <2>6, <3>1 DEF SlotIsTaken
  <2>7. U'
    BY <2>5, <2>6 DEF OneSlot
  <2> QED BY <1>2, <2>7 DEF TakeSlot
<1>3. ASSUME NEW t \in Threads, RegisterAllocation(t) PROVE S' /\ U' /\ G'
  <2>1. \A c \in Capacities : Taken(t, c) => Taken(t, c)'
    BY <1>3 DEF RegisterAllocation, Taken
  <2>2. U'
    BY <1>0, <1>3, <2>1, SameTaken DEF RegisterAllocation
  <2> QED BY <1>3, <2>2 DEF RegisterAllocation, NoCopies, OneSlot
<1>4. ASSUME NEW t \in Threads, Abort(t) PROVE S' /\ U' /\ G'
  <2>1. \A c \in Capacities : Taken(t, c) => Taken(t, c)'
    BY <1>4 DEF Abort, Taken
  <2>2. U'
    BY <1>0, <1>4, <2>1, SameTaken DEF Abort
  <2> QED BY <1>4, <2>2 DEF Abort
<1>5. ASSUME NEW t \in Threads, PopAllocation(t) PROVE S' /\ U' /\ G'
  <2>1. \A c \in Capacities : Taken(t, c) => Taken(t, c)'
    BY <1>5 DEF PopAllocation, Taken
  <2>2. U'
    BY <1>0, <1>5, <2>1, SameTaken DEF PopAllocation
  <2> QED BY <1>5, <2>2 DEF PopAllocation
<1>6. ASSUME NEW t \in Threads, ReadSlot(t) PROVE S' /\ U' /\ G'
  <2>1. \A c \in Capacities : Taken(t, c) => Taken(t, c)'
    BY <1>6 DEF ReadSlot, Taken
  <2>2. U'
    BY <1>0, <1>6, <2>1, SameTaken DEF ReadSlot
  <2>3. Needed(role[t], at[t]) \in Capacities
    BY <1>6, NeededType DEF ReadSlot
  <2>4. \A c \in OneSlot : used[c] \in 0..1
    BY DEF SlotIsTaken
  <2> QED BY <1>6, <2>2, <2>3, <2>4 DEF ReadSlot, OneSlot
<1>7. ASSUME NEW t \in Threads, ReturnSlot(t) PROVE S' /\ U' /\ G'
  <2> DEFINE n == Needed(role[t], at[t])
  <2>1. n \in Capacities
    BY <1>7, NeededType DEF ReturnSlot
  <2>2. used' = [used EXCEPT ![n] = OneLess(seen[t][n])]
    BY <1>7 DEF ReturnSlot
  <2>3. \A c \in Capacities \ {n} : Taken(t, c) => Taken(t, c)'
    BY <1>7, RolesAssumption DEF ReturnSlot, Taken, Needed, Needs
  <2>4. ASSUME NEW c \in OneSlot, c # n
        PROVE  SlotIsTaken(c)'
    <3>1. c \in Capacities \ {n} /\ used'[c] = used[c] /\ SlotIsTaken(c)
      BY <2>2, <2>4 DEF OneSlot
    <3>2. ASSUME NEW u \in Threads, Taken(u, c) PROVE Taken(u, c)'
      <4>1. CASE u = t
        BY <2>3, <3>1, <3>2, <4>1
      <4>2. CASE u # t
        BY <1>7, <3>2, <4>2 DEF ReturnSlot, Taken
      <4> QED BY <4>1, <4>2
    <3> QED BY <3>1, <3>2 DEF SlotIsTaken
  <2>5. ASSUME NEW c \in OneSlot, c = n
        PROVE  SlotIsTaken(c)'
    <3>1. seen[t][c] \in 0..1
      OBVIOUS
    <3>2. used'[c] = 0
      BY <2>1, <2>2, <2>5, <3>1 DEF OneLess
    <3> QED BY <3>2 DEF SlotIsTaken
  <2>6. U'
    BY <2>4, <2>5 DEF OneSlot
  <2>7. S'
    BY <1>7 DEF ReturnSlot, NoCopies, OneSlot
  <2> QED BY <1>7, <2>6, <2>7 DEF ReturnSlot
<1>8. CASE UNCHANGED slotVars
  BY <1>8 DEF slotVars, Taken, SlotIsTaken
<1> QED BY <1>1, <1>2, <1>3, <1>4, <1>5, <1>6, <1>7, <1>8 DEF SlotsNext

\* Threads that switch anywhere lose no only slot: a slot whose allocations were
\* all released is free.
THEOREM NoSlotLost == SlotsSpec => []SlotsComeBack
<1>1. OneSlotInv => SlotsComeBack
  <2> SUFFICES ASSUME OneSlotInv,
                      \A t \in Threads : pc[t] \in {"idle", "aborted"},
                      NEW c \in OneSlot, HoldersOf(c) = {}
               PROVE  used[c] = 0
    BY DEF SlotsComeBack, OneSlot
  <2>1. \A t \in Threads : ~Taken(t, c)
    BY RolesAssumption DEF OneSlotInv, BaseInv, HoldInv, Taken, HoldersOf
  <2> QED BY <2>1 DEF OneSlotInv, SlotIsTaken
<1>2. OneSlotInv /\ [SlotsNext]_slotVars => OneSlotInv'
  BY OneSlotInvStep
<1> QED BY <1>1, <1>2, OneSlotInvInit, PTL DEF SlotsSpec

-----------------------------------------------------------------------------
(* As long as registry calls were not divided, used_slots counts the slots *)
(* that are taken.                                                         *)

Counted ==
  /\ \A t \in Threads : pc[t] \notin Between
                          => \A u \in Threads \ {t} : pc[u] \in Between
  /\ \A c \in Capacities : used[c] = Cardinality(TakenBy(c)) /\ used[c] <= MaxSlots[c]
  /\ \A t \in Threads : pc[t] = "granting" =>
       \A c \in Needs(role[t]) : ~Taken(t, c) => seen[t][c] = used[c] /\ used[c] < MaxSlots[c]
  /\ \A t \in Threads : pc[t] = "returning" =>
       LET n == Needed(role[t], at[t]) IN seen[t][n] = used[n]

CountInv == BaseInv /\ (~ switched => Counted)

LEMMA TakenByFinite ==
  ASSUME NEW c
  PROVE  IsFiniteSet(TakenBy(c)) /\ Cardinality(TakenBy(c)) \in Nat
  BY ThreadsAssumption, FS_Subset, FS_CardinalityType DEF TakenBy

LEMMA CountInvInit == SlotsInit => CountInv
<1> SUFFICES ASSUME SlotsInit PROVE CountInv
  OBVIOUS
<1>1. BaseInv
  BY BaseInvInit
<1>2. \A c \in Capacities : TakenBy(c) = {}
  BY DEF SlotsInit, TakenBy, Taken
<1>3. \A c \in Capacities : used[c] = Cardinality(TakenBy(c)) /\ used[c] <= MaxSlots[c]
  <2>1. \A c \in Capacities : used[c] = 0
    BY DEF SlotsInit
  <2>2. \A c \in Capacities : Cardinality(TakenBy(c)) = 0
    BY <1>2, FS_EmptySet
  <2> QED BY <2>1, <2>2, SlotsAssumption
<1> QED BY <1>1, <1>3 DEF SlotsInit, CountInv, Counted, Between

\* A step of one thread that takes and returns nothing.
LEMMA SameTakenBy ==
  ASSUME NEW t \in Threads, BaseInv,
         \A u \in Threads \ {t} : pc'[u] = pc[u] /\ role'[u] = role[u] /\ at'[u] = at[u],
         \A c \in Capacities : Taken(t, c)' <=> Taken(t, c)
  PROVE  \A c \in Capacities : TakenBy(c)' = TakenBy(c)
<1> SUFFICES ASSUME NEW c \in Capacities
             PROVE  \A u \in Threads : Taken(u, c)' <=> Taken(u, c)
  BY DEF TakenBy
<1> TAKE u \in Threads
<1>1. CASE u # t
  BY <1>1 DEF Taken
<1> QED BY <1>1

LEMMA CountInvStep ==
  ASSUME CountInv, [SlotsNext]_slotVars
  PROVE  CountInv'
<1>0. BaseInv'
  BY BaseInvStep DEF CountInv
<1> SUFFICES ASSUME ~ switched' PROVE Counted'
  BY <1>0 DEF CountInv
<1>9. BaseInv /\ Counted
  BY DEF CountInv, SlotsNext, Request, TakeSlot, RegisterAllocation, Abort, PopAllocation,
         ReadSlot, ReturnSlot, Turn, slotVars
<1> USE <1>9 DEF Counted, BaseInv, SlotsTypeOK, HoldInv, Goto, Advance
<1> DEFINE
  X == \A t \in Threads : pc[t] \notin Between => \A u \in Threads \ {t} : pc[u] \in Between
  C == \A c \in Capacities : used[c] = Cardinality(TakenBy(c)) /\ used[c] <= MaxSlots[c]
  G == \A t \in Threads : pc[t] = "granting" =>
         \A c \in Needs(role[t]) : ~Taken(t, c) => seen[t][c] = used[c] /\ used[c] < MaxSlots[c]
  R == \A t \in Threads : pc[t] = "returning" =>
         LET n == Needed(role[t], at[t]) IN seen[t][n] = used[n]
<1> SUFFICES X' /\ C' /\ G' /\ R'
  OBVIOUS
<1>10. \A t \in Threads : Turn(t) => \A u \in Threads \ {t} : pc[u] \in Between
  BY DEF Turn
<1>1. ASSUME NEW t \in Threads, NEW r \in Roles, Request(t, r) PROVE X' /\ C' /\ G' /\ R'
  <2>1. \A c \in Capacities : Taken(t, c)' <=> Taken(t, c)
    BY <1>1 DEF Request, Taken
  <2>2. \A c \in Capacities : TakenBy(c)' = TakenBy(c)
    BY <1>1, <2>1, SameTakenBy DEF Request
  <2>3. \A u \in Threads \ {t} : pc'[u] \in Between
    BY <1>1, <1>10 DEF Request
  <2>4. \A c \in Needs(role'[t]) : seen'[t][c] = used'[c] /\ used'[c] < MaxSlots[c]
    BY <1>1 DEF Request
  <2> QED BY <1>1, <2>2, <2>3, <2>4 DEF Request, Between
<1>2. ASSUME NEW t \in Threads, TakeSlot(t) PROVE X' /\ C' /\ G' /\ R'
  <2> DEFINE n == Needed(role[t], at[t])
  <2>0. \A u \in Threads \ {t} : pc[u] \in Between /\ pc'[u] \in Between
    BY <1>2, <1>10 DEF TakeSlot
  <2>1. n \in Capacities /\ n \in Needs(role[t]) /\ role[t] \in Roles
    BY <1>2, NeededType DEF TakeSlot
  <2>2. ~Taken(t, n)
    BY <1>2, <2>1, RolesAssumption DEF TakeSlot, Taken, Needed, Capacities
  <2>3. seen[t][n] = used[n] /\ used[n] < MaxSlots[n]
    BY <1>2, <2>1, <2>2 DEF TakeSlot
  <2>4. used' = [used EXCEPT ![n] = used[n] + 1]
    BY <1>2, <2>3 DEF TakeSlot
  <2>5. \A c \in Capacities : Taken(t, c)' <=> Taken(t, c) \/ c = n
    BY <1>2, <2>1, RolesAssumption DEF TakeSlot, Taken, Needed, Needs
  <2>6. \A c \in Capacities, u \in Threads \ {t} : Taken(u, c)' <=> Taken(u, c)
    BY <1>2 DEF TakeSlot, Taken
  <2>7. \A c \in Capacities : c = n => TakenBy(c)' = TakenBy(c) \cup {t} /\ t \notin TakenBy(c)
    BY <2>2, <2>5, <2>6 DEF TakenBy
  <2>8. \A c \in Capacities : c # n => TakenBy(c)' = TakenBy(c)
    BY <2>5, <2>6 DEF TakenBy
  <2>9. C'
    <3>1. ASSUME NEW c \in Capacities
          PROVE  used'[c] = Cardinality(TakenBy(c)') /\ used'[c] <= MaxSlots[c]
      <4>1. CASE c = n
        <5>1. TakenBy(c)' = TakenBy(c) \cup {t} /\ t \notin TakenBy(c)
          BY <2>7, <4>1
        <5>2. Cardinality(TakenBy(c) \cup {t}) = Cardinality(TakenBy(c)) + 1
          <6>1. IsFiniteSet(TakenBy(c))
            BY TakenByFinite
          <6> HIDE DEF C, n
          <6> QED BY <5>1, <6>1, FS_AddElement, Zenon
        <5>3. Cardinality(TakenBy(c)') = used[c] + 1
          BY <5>1, <5>2
        <5>4. used[c] \in Nat /\ used[c] < MaxSlots[c] /\ MaxSlots[c] \in Nat
          BY <2>3, <4>1, SlotsAssumption
        <5>5. used'[c] = used[c] + 1
          BY <2>4, <4>1
        <5> QED BY <5>3, <5>4, <5>5
      <4>2. CASE c # n
        BY <2>4, <2>8, <4>2
      <4> QED BY <4>1, <4>2
    <3> QED BY <3>1
  <2>10. G'
    <3>1. ASSUME NEW c \in Needs(role[t]), ~Taken(t, c)', pc'[t] = "granting"
          PROVE  seen[t][c] = used'[c] /\ used'[c] < MaxSlots[c]
      <4>1. c \in Capacities /\ c # n /\ ~Taken(t, c)
        BY <2>1, <2>5, <3>1, NeededType
      <4> QED BY <1>2, <2>4, <4>1, <3>1 DEF TakeSlot
    <3>2. \A u \in Threads \ {t} : pc'[u] # "granting"
      BY <2>0 DEF Between
    <3> QED BY <1>2, <3>1, <3>2 DEF TakeSlot
  <2>11. R' /\ X'
    BY <1>2, <2>0 DEF TakeSlot, Between
  <2> QED BY <2>9, <2>10, <2>11
<1>3. ASSUME NEW t \in Threads, RegisterAllocation(t) PROVE X' /\ C' /\ G' /\ R'
  <2>1. \A c \in Capacities : Taken(t, c)' <=> Taken(t, c)
    BY <1>3 DEF RegisterAllocation, Taken
  <2>2. \A c \in Capacities : TakenBy(c)' = TakenBy(c)
    BY <1>3, <2>1, SameTakenBy DEF RegisterAllocation
  <2>4. \A u \in Threads \ {t} : pc[u] \in Between
    BY <1>3, <1>10 DEF RegisterAllocation
  <2> QED BY <1>3, <2>1, <2>2, <2>4 DEF RegisterAllocation, Between
<1>4. ASSUME NEW t \in Threads, Abort(t) PROVE X' /\ C' /\ G' /\ R'
  <2>1. \A c \in Capacities : Taken(t, c)' <=> Taken(t, c)
    BY <1>4 DEF Abort, Taken
  <2>2. \A c \in Capacities : TakenBy(c)' = TakenBy(c)
    BY <1>4, <2>1, SameTakenBy DEF Abort
  <2>4. \A u \in Threads \ {t} : pc[u] \in Between
    BY <1>4, <1>10 DEF Abort
  <2> QED BY <1>4, <2>1, <2>2, <2>4 DEF Abort, Between
<1>5. ASSUME NEW t \in Threads, PopAllocation(t) PROVE X' /\ C' /\ G' /\ R'
  <2>1. \A c \in Capacities : Taken(t, c)' <=> Taken(t, c)
    BY <1>5 DEF PopAllocation, Taken
  <2>2. \A c \in Capacities : TakenBy(c)' = TakenBy(c)
    BY <1>5, <2>1, SameTakenBy DEF PopAllocation
  <2>4. \A u \in Threads \ {t} : pc[u] \in Between
    BY <1>5, <1>10 DEF PopAllocation
  <2> QED BY <1>5, <2>1, <2>2, <2>4 DEF PopAllocation, Between
<1>6. ASSUME NEW t \in Threads, ReadSlot(t) PROVE X' /\ C' /\ G' /\ R'
  <2>1. \A c \in Capacities : Taken(t, c)' <=> Taken(t, c)
    BY <1>6 DEF ReadSlot, Taken
  <2>2. \A c \in Capacities : TakenBy(c)' = TakenBy(c)
    BY <1>6, <2>1, SameTakenBy DEF ReadSlot
  <2>3. Needed(role[t], at[t]) \in Capacities
    BY <1>6, NeededType DEF ReadSlot
  <2>4. \A u \in Threads \ {t} : pc[u] \in Between
    BY <1>6, <1>10 DEF ReadSlot
  <2> QED BY <1>6, <2>1, <2>2, <2>3, <2>4 DEF ReadSlot, Between
<1>7. ASSUME NEW t \in Threads, ReturnSlot(t) PROVE X' /\ C' /\ G' /\ R'
  <2> DEFINE n == Needed(role[t], at[t])
  <2>0. \A u \in Threads \ {t} : pc[u] \in Between /\ pc'[u] \in Between
    BY <1>7, <1>10 DEF ReturnSlot
  <2>1. n \in Capacities /\ role[t] \in Roles /\ seen[t][n] = used[n]
    BY <1>7, NeededType DEF ReturnSlot
  <2>2. Taken(t, n)
    BY <1>7, <2>1 DEF ReturnSlot, Taken, Needed, Needs
  <2>3. \A c \in Capacities : Taken(t, c)' <=> Taken(t, c) /\ c # n
    BY <1>7, <2>1, RolesAssumption DEF ReturnSlot, Taken, Needed, Needs
  <2>4. \A c \in Capacities, u \in Threads \ {t} : Taken(u, c)' <=> Taken(u, c)
    BY <1>7 DEF ReturnSlot, Taken
  <2>5. \A c \in Capacities : c = n => TakenBy(c)' = TakenBy(c) \ {t} /\ t \in TakenBy(c)
    BY <2>2, <2>3, <2>4 DEF TakenBy
  <2>6. \A c \in Capacities : c # n => TakenBy(c)' = TakenBy(c)
    BY <2>3, <2>4 DEF TakenBy
  <2>7. C'
    <3>1. ASSUME NEW c \in Capacities
          PROVE  used'[c] = Cardinality(TakenBy(c)') /\ used'[c] <= MaxSlots[c]
      <4>1. CASE c = n
        <5>1. /\ Cardinality(TakenBy(c)') = Cardinality(TakenBy(c)) - 1
              /\ Cardinality(TakenBy(c)') \in Nat
          <6>1. TakenBy(c)' = TakenBy(c) \ {t} /\ t \in TakenBy(c)
            BY <2>5, <4>1
          <6>2. IsFiniteSet(TakenBy(c))
            BY TakenByFinite
          <6>3. /\ IsFiniteSet(TakenBy(c) \ {t})
                /\ Cardinality(TakenBy(c) \ {t}) = Cardinality(TakenBy(c)) - 1
            <7> HIDE DEF C, n
            <7> QED BY <6>1, <6>2, FS_RemoveElement, Zenon
          <6>4. Cardinality(TakenBy(c) \ {t}) \in Nat
            BY <6>3, FS_CardinalityType
          <6> QED BY <6>1, <6>3, <6>4
        <5>2. used'[c] = OneLess(used[c])
          BY <1>7, <2>1, <4>1 DEF ReturnSlot
        <5>3. used[c] = Cardinality(TakenBy(c)) /\ used[c] <= MaxSlots[c] /\ used[c] \in Nat
          OBVIOUS
        <5> QED BY <5>1, <5>2, <5>3, SlotsAssumption DEF OneLess
      <4>2. CASE c # n
        <5>1. used'[c] = used[c]
          BY <1>7, <4>2 DEF ReturnSlot
        <5> QED BY <2>6, <4>2, <5>1
      <4> QED BY <4>1, <4>2
    <3> QED BY <3>1
  <2>8. X' /\ G' /\ R'
    BY <1>7, <2>0 DEF ReturnSlot, Between
  <2> QED BY <2>7, <2>8
<1>8. CASE UNCHANGED slotVars
  BY <1>8 DEF slotVars, TakenBy, Taken
<1> QED BY <1>1, <1>2, <1>3, <1>4, <1>5, <1>6, <1>7, <1>8 DEF SlotsNext

LEMMA CountInvHolds == SlotsSpec => []CountInv
<1>1. CountInv /\ [SlotsNext]_slotVars => CountInv'
  BY CountInvStep
<1> QED BY <1>1, CountInvInit, PTL DEF SlotsSpec

\* An active allocation's slots are taken.
LEMMA HoldersTake ==
  ASSUME BaseInv, NEW c \in Capacities
  PROVE  HoldersOf(c) \subseteq TakenBy(c)
  BY DEF BaseInv, HoldInv, HoldersOf, TakenBy, Taken

\* As long as registry calls were not divided, no capacity has more active
\* allocations than slots.
THEOREM NeverOversubscribed == SlotsSpec => []SlotsRespected
<1>1. CountInv => SlotsRespected
  <2> SUFFICES ASSUME BaseInv, Counted, NEW c \in Capacities
               PROVE  Cardinality(HoldersOf(c)) <= MaxSlots[c]
    BY DEF SlotsRespected, NotOversubscribed, CountInv
  <2>1. Cardinality(HoldersOf(c)) <= Cardinality(TakenBy(c))
    BY HoldersTake, TakenByFinite, FS_Subset
  <2>2. Cardinality(HoldersOf(c)) \in Nat /\ MaxSlots[c] \in Nat
    BY HoldersTake, TakenByFinite, FS_Subset, FS_CardinalityType, SlotsAssumption
  <2> QED BY <2>1, <2>2, TakenByFinite DEF Counted
<1> QED BY <1>1, CountInvHolds, PTL

\* As long as registry calls were not divided, used_slots counts the active
\* allocations between them.
THEOREM UsedCountsActive == SlotsSpec => []UsedMatchesActive
<1>1. CountInv => UsedMatchesActive
  <2> SUFFICES ASSUME BaseInv, Counted, Quiet, NEW c \in Capacities
               PROVE  used[c] = Cardinality(HoldersOf(c))
    BY DEF UsedMatchesActive, CountInv
  <2>1. TakenBy(c) = HoldersOf(c)
    BY RolesAssumption
    DEF BaseInv, HoldInv, HoldersOf, TakenBy, Taken, Quiet, Between
  <2> QED BY <2>1 DEF Counted
<1> QED BY <1>1, CountInvHolds, PTL
=============================================================================
