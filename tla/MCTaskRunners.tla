--------------------------- MODULE MCTaskRunners ---------------------------
(***************************************************************************)
(* Small instances of TaskRunners for TLC: a few coroutines per task.      *)
(* Those that handlers create are interchangeable.                         *)
(***************************************************************************)
EXTENDS TaskRunners, TLC

RunnerSymmetry == Permutations(Runner \ {First})
=============================================================================
