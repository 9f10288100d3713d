------------------------------ MODULE MCDataBase ------------------------------
(***************************************************************************)
(* A small block tree for DataBase:                                        *)
(*                                                                         *)
(*      genesis -- root -+- left  -- bad                                   *)
(*                       +- right                                          *)
(*                                                                         *)
(* The branches share the transaction "both", which spends the coinbase of *)
(* root; "wl" in left and "wt" in right spend the same output of it, and   *)
(* "ur" in right, which comes right after it, spends the other one.  "wt"  *)
(* also spends "ur".  "bad" spends the coinbase of root again, so it is    *)
(* invalid.                                                                *)
(***************************************************************************)
EXTENDS DataBase

Tree == [genesis |-> <<"genesis">>,
         root |-> <<"genesis", "root">>,
         left |-> <<"genesis", "root", "left">>,
         bad |-> <<"genesis", "root", "left", "bad">>,
         right |-> <<"genesis", "root", "right">>]

TreeTxs == [genesis |-> <<"cg">>,
            root |-> <<"croot">>,
            left |-> <<"cl", "both", "wl">>,
            bad |-> <<"cb", "again">>,
            right |-> <<"cr", "both", "ur", "wt">>]

TreeInputs == [cg |-> <<>>, croot |-> <<>>, cl |-> <<>>, cb |-> <<>>, cr |-> <<>>,
               both |-> <<<<"croot", 0>>>>,
               wl |-> <<<<"both", 1>>>>,
               ur |-> <<<<"both", 0>>>>,
               wt |-> <<<<"both", 1>>, <<"ur", 0>>>>,
               again |-> <<<<"croot", 0>>>>]

MCTxs == DOMAIN TreeInputs

MCOutputsOf == [tx \in MCTxs |-> IF tx = "both" THEN 2 ELSE 1]

AllBlocks == DOMAIN Tree
=============================================================================
