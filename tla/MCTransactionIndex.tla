-------------------------- MODULE MCTransactionIndex --------------------------
(***************************************************************************)
(* The transaction index with blocks of one, two and one transactions.     *)
(***************************************************************************)
EXTENDS TransactionIndex

CONSTANTS b1, b2, b3

MCBlocks == {b1, b2, b3}
MCSizeOf == [b \in MCBlocks |-> IF b = b2 THEN 2 ELSE 1]
=============================================================================
