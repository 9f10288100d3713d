------------------------------- MODULE MCStore -------------------------------
(***************************************************************************)
(* The store with the two databases that it always has.                    *)
(***************************************************************************)
EXTENDS Store

DatabaseFiles == <<"blocks", "transactions">>
=============================================================================
