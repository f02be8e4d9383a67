------------------------------ MODULE MCStoreLinks ------------------------------
(* Three files of one content, two of them siblings, and entries of every kind,
   damaged ones of another size (torn) and of the same (bad) among them. *)
EXTENDS StoreLinks, TLC

CONSTANTS
    f1, f2, f3, d, root, i1, i2, i3, spare, torn, bad, same, short, wrong

MCFile      == {f1, f2, f3}
MCInode     == {i1, i2, i3, spare, torn, bad}
MCParentOf  == [f \in MCFile |-> IF f = f3 THEN root ELSE d]
MCContentOf == [i \in MCInode |-> CASE i = torn -> short [] i = bad -> wrong [] OTHER -> same]
MCSizeOf    == [c \in {same, short, wrong} |-> IF c = short THEN 0 ELSE 1]

\* f1 and f2 may share an inode already; the entry may be missing, one of the
\* files', one no file uses, or damaged.
MCInit ==
    /\ Init
    /\ at[f1] \in {i1, i2} /\ at[f2] \in {i1, i2} /\ at[f3] = i3
    /\ link[same] \in {NoInode, spare, torn, bad, at[f1], at[f2]}
    /\ link[short] = NoInode /\ link[wrong] = NoInode

Siblings == Permutations({f1, f2}) \cup Permutations({i1, i2})

MCSpec == MCInit /\ [][Next]_vars

\* Collections run beside the first run of the optimiser or between the two, and a
\* damaged entry is followed through the first only.
MCBound == runs = 2 => gc = "idle" /\ damage = {}
=============================================================================
