------------------------------ MODULE MCGcDelete ------------------------------
(***************************************************************************)
(* Small stores for GcDelete.                                              *)
(*                                                                         *)
(* Shared: app and out both reference lib, and new will reference lib.     *)
(* Cycle: out references drv and keep-outputs has drv keep out; both       *)
(* builders may wait for out, and one of them for new, which has no row in *)
(* the snapshot and will reference out; tmp is a build directory.          *)
(***************************************************************************)
EXTENDS GcDelete

CONSTANTS app, lib, drv, out, new, tmp, b1, b2

SharedNode == {app, out, lib}
SharedPath == SharedNode \cup {new}
SharedEdge == [n \in SharedNode |-> IF n = lib THEN {} ELSE {lib}]
SharedRefs == [p \in SharedPath |-> IF p = lib THEN {} ELSE {lib}]
SharedGoal == [c \in {b1, b2} |-> IF c = b1 THEN {app, new} ELSE {lib}]

CycleNode == {out, drv}
CyclePath == CycleNode \cup {new, tmp}
CycleEdge == [n \in CycleNode |-> IF n = out THEN {drv} ELSE {out}]
CycleRefs == [p \in CyclePath |->
                CASE p = new -> {out} [] p = out -> {drv} [] OTHER -> {}]
CycleGoal == [c \in {b1, b2} |-> IF c = b1 THEN {out, new} ELSE {out}]

\* A build directory on disk is tried with nothing but the scan left to do.
CycleStart ==
    /\ protectedUnknown = {}
    /\ tmp \in onDisk => /\ unknown = {tmp} /\ new \notin onDisk /\ alive = Node
                         /\ \A c \in Client : held[c] = {}

CycleInit == Init /\ CycleStart

CycleSpec == CycleInit /\ [][Next]_vars /\ Fairness
===============================================================================
