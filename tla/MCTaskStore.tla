----------------------------- MODULE MCTaskStore -----------------------------
(* Instances of TaskStore: one task, since tasks do not meet in it. *)
EXTENDS TaskStore
=============================================================================
