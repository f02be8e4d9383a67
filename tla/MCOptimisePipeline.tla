--------------------------- MODULE MCOptimisePipeline ---------------------------
(* Three paths, more files than the channel holds. *)
EXTENDS OptimisePipeline

CONSTANTS a, b, c, a1, a2, b1, b2, c1

MCFilesOf == [p \in {a, b, c} |-> IF p = a THEN {a1, a2} ELSE IF p = b THEN {b1, b2} ELSE {c1}]
=============================================================================
