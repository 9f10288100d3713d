---------------------------- MODULE MCOutputCache ----------------------------
(***************************************************************************)
(* The output cache with four transactions, of two, one, one and no outputs.*)
(***************************************************************************)
EXTENDS OutputCache

CONSTANTS t1, t2, t3, t4

MCTxs == {t1, t2, t3, t4}

MCOutputsOf ==
    [t \in MCTxs |-> CASE t = t1 -> 2 [] t = t2 -> 1 [] t = t3 -> 1 [] t = t4 -> 0]
=============================================================================
