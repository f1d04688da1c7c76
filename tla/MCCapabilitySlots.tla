-------------------------- MODULE MCCapabilitySlots -------------------------
(* A small instance of CapabilitySlots: DEV and QA share the lite model.    *)
EXTENDS CapabilitySlots, TLC

CONSTANTS t1, t2, DEV, QA, lite

TwoThreads == {t1, t2}
TwoRoles == {DEV, QA}
OneModel == {lite}
SharedModel == (DEV :> lite) @@ (QA :> lite)
OneSlotEach == [c \in Capacities |-> 1]
=============================================================================
