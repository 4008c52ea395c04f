---------------------------- MODULE MCTaskQueue ----------------------------
(* TLC instance of TaskQueue. *)
EXTENDS TaskQueue, TLC
=============================================================================
