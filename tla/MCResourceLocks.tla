--------------------------- MODULE MCResourceLocks --------------------------
(* Small instances of ResourceLocks: items that share their repositories. *)
EXTENDS ResourceLocks, TLC

CONSTANTS i1, i2, i3, i4, shared, other

TwoItems == {i1, i2}
FourItems == {i1, i2, i3, i4}
TwoRepos == {shared, other}
BothShare == (i1 :> shared) @@ (i2 :> shared)
ThreeAndOne == BothShare @@ (i3 :> shared) @@ (i4 :> other)
=============================================================================
