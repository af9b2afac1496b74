--------------------------- MODULE MCProcessManager ---------------------------
(* Instances of ProcessManager for TLC. *)
EXTENDS ProcessManager, TLC

CONSTANTS gateway, crawler, t1, t2, closer

MCRest == SetToSeq(Service \ {gateway})

Symmetric == Permutations(Request)
=============================================================================
