------------------------------- MODULE MCRootScan -------------------------------
(***************************************************************************)
(* Three processes at the profile, or a scan when they are done, with one *)
(* process to look at under the canonical name of the store.  known        *)
(* and other have a node, odd only an entry, gone has neither.             *)
(***************************************************************************)
EXTENDS RootScan

CONSTANTS d1, d2, s1, a1, a2, exe, known, other, odd, gone

MCMode == [d \in {d1, d2} |-> IF d = d1 THEN "older" ELSE "old"]
MCGenPath == [g \in Gen |-> IF g = 1 THEN known ELSE other]

\* Either half: the profile without a scan, or a scan with the processes done.
MCInit ==
    /\ ScanInit
    /\ \/ /\ scanPc = "off"
          /\ auto = {} /\ result = [a \in AutoLink |-> Absent] /\ uses = [e \in Slot |-> Absent]
       \/ /\ scanPc = "idle" /\ at = [p \in Proc |-> "done"]
          /\ lockName = NoInode /\ aged = {} /\ gens = {1} /\ current = 1
          /\ \A e \in Slot : uses[e] \in {known, Absent}

MCSpec == MCInit /\ [][ScanNext]_rootVars /\ Fairness
===============================================================================
