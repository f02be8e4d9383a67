------------------------------ MODULE MCLoadGraph ------------------------------
(***************************************************************************)
(* Three paths.  Either any references and no derivations, or an output    *)
(* out of a derivation drv that references lib, with any derivers and      *)
(* output maps of the three.                                               *)
(***************************************************************************)
EXTENDS LoadGraph

CONSTANTS drv, out, lib

MCDatabases ==
    LET three == {drv, out, lib} IN
    { [valid |-> three, refs |-> R, deriver |-> [p \in three |-> NoDeriver],
       outputs |-> {}, trace |-> {}] : R \in SUBSET (three \X three) }
    \cup
    { [valid |-> V, refs |-> {<<out, lib>>} \cap (V \X V),
       deriver |-> [p \in V |-> IF p \in D THEN drv ELSE NoDeriver],
       outputs |-> O \cap (V \X three), trace |-> T] :
        V \in { W \in SUBSET three : out \in W => lib \in W },
        D \in SUBSET {out, lib}, O \in SUBSET {<<drv, out>>, <<drv, lib>>},
        T \in SUBSET {<<drv, out>>, <<lib, out>>} }

MCListed(rows) == FoldSet(LAMBDA row, list : Append(list, row), <<>>, rows)

MCInit == db \in MCDatabases /\ LoadInit

MCSpec == MCInit /\ [][LoadNext]_allVars /\ LoadFairness
===============================================================================
