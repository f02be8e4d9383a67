--------------------------- MODULE MCDeletionOrder ---------------------------
(***************************************************************************)
(* Every graph of three nodes with every multiplicity up to two, every     *)
(* root set.  --chunk-size 0 (taken as 1) and 2, --max-freed 1 and none.   *)
(***************************************************************************)
EXTENDS DeletionOrder

MCSize == <<1, 0, 2>>
===============================================================================
