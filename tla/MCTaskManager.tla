---------------------------- MODULE MCTaskManager ----------------------------
(* Small instances of TaskManager.                                          *)
EXTENDS TaskManager

RunnerSymmetry == Permutations(Runner)
=============================================================================
