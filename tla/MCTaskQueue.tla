----------------------------- MODULE MCTaskQueue ----------------------------
(* Small instances of TaskQueue. *)
EXTENDS TaskQueue, TLC

CONSTANT r1, r2

OneReader == {r1}
NoReaders == {}
=============================================================================
