---------------------------- MODULE BlockDatabase ----------------------------
(***************************************************************************)
(* block_database (src/src/databases/block_database.cpp): the state of     *)
(* each stored block and the candidate and confirmed indexes.              *)
(*                                                                         *)
(* The methods are operators on a store [blk, index, ok, assert]: blk maps *)
(* each stored block to its state byte (validation and confirmation bits)  *)
(* and to whether its transactions are associated; index holds the two     *)
(* indexes, sequences of blocks by height; ok is FALSE when a method has   *)
(* returned false, assert when an assertion of the code does not hold.     *)
(***************************************************************************)
EXTENDS Integers, SequencesExt

CONSTANT Blocks

Indexes == {"candidate", "confirmed"}

BlockStates ==
    [validation : {"none", "failed", "valid"},
     confirmation : {"missing", "candidate", "confirmed"},
     associated : BOOLEAN]

EmptyStore ==
    [blk |-> <<>>, index |-> [i \in Indexes |-> <<>>], ok |-> TRUE, assert |-> TRUE]

(* block_database::top.                                                    *)
Top(index) == Len(index) - 1

At(index, height) == index[height + 1]

NewHeader == [validation |-> "none", confirmation |-> "candidate", associated |-> FALSE]

(* store(header, height, time): "New headers are only accepted in the      *)
(* candidate state."                                                       *)
StoreHeader(st, b) ==
    [st EXCEPT !.blk = [c \in DOMAIN st.blk \cup {b} |-> IF c = b THEN NewHeader ELSE st.blk[c]]]

(* update_transactions: the state byte is unchanged.                       *)
UpdateTransactions(st, b) ==
    IF b \notin DOMAIN st.blk THEN [st EXCEPT !.ok = FALSE]
    ELSE [st EXCEPT !.blk[b].associated = TRUE]

(* "May only validate or invalidate an unvalidated block."                 *)
MayValidate(state) == state.validation = "none"

(* Mutant: the confirmation bits are not preserved.                        *)
ValidateOnly(st, b, valid) ==
    IF b \notin DOMAIN st.blk THEN [st EXCEPT !.ok = FALSE]
    ELSE [st EXCEPT !.blk[b].validation = IF valid THEN "valid" ELSE "failed",
                    !.blk[b].confirmation = "missing",
                    !.assert = @ /\ MayValidate(st.blk[b])]

(* validate.                                                               *)
Validate(st, b, valid) ==
    IF b \notin DOMAIN st.blk THEN [st EXCEPT !.ok = FALSE]
    ELSE [st EXCEPT !.blk[b].validation = IF valid THEN "valid" ELSE "failed",
                    !.assert = @ /\ MayValidate(st.blk[b])]

(* The four assertions of update_confirmation_state.                       *)
MayConfirm(state, positive, name) ==
    /\ positive /\ name = "confirmed" => state.validation = "valid"
    /\ positive /\ name = "candidate" => state.validation # "failed"
    /\ ~positive => state.confirmation = name

(* Mutant: a demotion leaves the state as it was.                          *)
UpdateConfirmationOneWay(st, b, positive, name) ==
    [st EXCEPT !.blk[b].confirmation = IF positive THEN name ELSE @,
               !.assert = @ /\ MayConfirm(st.blk[b], positive, name)]

(* update_confirmation_state, applied to the state byte of b.              *)
UpdateConfirmation(st, b, positive, name) ==
    [st EXCEPT !.blk[b].confirmation = IF positive THEN name ELSE "missing",
               !.assert = @ /\ MayConfirm(st.blk[b], positive, name)]

(* promote(hash, height, candidate) and push_link.                         *)
Promote(st, b, height, name) ==
    IF height # Len(st.index[name]) \/ b \notin DOMAIN st.blk
    THEN [st EXCEPT !.ok = FALSE]
    ELSE [UpdateConfirmation(st, b, TRUE, name) EXCEPT !.index[name] = Append(@, b)]

(* demote(hash, height, candidate) and pop_link.                           *)
Demote(st, b, height, name) ==
    IF height + 1 # Len(st.index[name]) \/ b \notin DOMAIN st.blk
    THEN [st EXCEPT !.ok = FALSE]
    ELSE [UpdateConfirmation(st, b, FALSE, name) EXCEPT !.index[name] = Front(@)]
=============================================================================
