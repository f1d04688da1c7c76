------------------------------ MODULE RepoMutex -----------------------------
(***************************************************************************)
(* What resource locks are for: a repository has at most one task at a     *)
(* time, and gets another only after the first gave it back.               *)
(***************************************************************************)
CONSTANTS Items, Repos, NoItem

VARIABLE owner         \* the item each repository is reserved for, or NoItem

Init == owner = [r \in Repos |-> NoItem]

Reserve(i, r) == /\ owner[r] = NoItem
                 /\ owner' = [owner EXCEPT ![r] = i]

GiveBack(r) == /\ owner[r] # NoItem
               /\ owner' = [owner EXCEPT ![r] = NoItem]

Next == \E r \in Repos : GiveBack(r) \/ \E i \in Items : Reserve(i, r)

Spec == Init /\ [][Next]_owner
=============================================================================
