------------------------------ MODULE MCGcStartup ------------------------------
(***************************************************************************)
(* lib is there from the start or built on the way, new references it and  *)
(* is built under a lock file.                                             *)
(***************************************************************************)
EXTENDS GcStartup

CONSTANTS lib, new, newlock, b1, b2

MCPath == {lib, new}
MCRefs == [p \in MCPath |-> IF p = new THEN {lib} ELSE {}]
MCGoal == [c \in {b1, b2} |-> IF c = b1 THEN {lib, new} ELSE {new}]
MCLockOf == [p \in {new} |-> newlock]
===============================================================================
