------------------------- MODULE TransactionDatabase -------------------------
(***************************************************************************)
(* transaction_database (src/src/databases/transaction_database.cpp): the  *)
(* metadata of the stored transactions and the spender of each output.     *)
(*                                                                         *)
(* The methods are operators on a table [tx, cache, ok]: tx maps each      *)
(* stored transaction to its record, cache is the output cache and ok is   *)
(* FALSE once a method has returned false.  A method that fails part way   *)
(* leaves what it has written: the loops of the code (While) pass on the   *)
(* table.  A transaction's file offset stands for the transaction, and     *)
(* a coinbase has no inputs.  median_time_past is left out.                *)
(***************************************************************************)
EXTENDS UnspentOutputs, SequencesExt

CONSTANTS
    InputsOf,       \* Txs -> Seq(Points): the outputs a transaction spends
    Unconfirmed,    \* transaction_result::unconfirmed (a position)
    Deconfirmed,    \* transaction_result::deconfirmed (a position)
    Unverified,     \* rule_fork::unverified (a height)
    NotSpent        \* output::validation::not_spent (a height)

ASSUME TransactionAssumption ==
    /\ InputsOf \in [Txs -> Seq(Txs \X Nat)]
    /\ Unconfirmed \in Nat /\ Deconfirmed \in Nat /\ Unconfirmed # Deconfirmed
    /\ Unverified \in Nat /\ NotSpent \in Nat /\ Unverified < NotSpent

Outputs(t) == 0..(OutputsOf[t] - 1)

EmptyTable == [tx |-> <<>>, cache |-> EmptyCache, ok |-> TRUE]

(* A loop over a list that ends at the first failure: the table after its  *)
(* first i elements, for all of them.                                      *)
While(op(_, _), table, list) ==
    LET after[i \in 0..Len(list)] ==
            IF i = 0 THEN table
            ELSE LET db == after[i - 1] IN IF db.ok THEN op(db, list[i]) ELSE db
    IN  after[Len(list)]

Failed(db) == [db EXCEPT !.ok = FALSE]

-----------------------------------------------------------------------------
(* Store.                                                                  *)

NewRecord(t, height) ==
    [height |-> height, position |-> Unconfirmed, candidate |-> FALSE,
     outputs |-> [i \in Outputs(t) |-> [candidateSpent |-> FALSE, spender |-> NotSpent]]]

(* storize: nothing is written if the transaction exists.                  *)
Storize(db, t, height) ==
    IF t \in DOMAIN db.tx THEN db
    ELSE [db EXCEPT !.tx = [s \in DOMAIN db.tx \cup {t} |->
                               IF s = t THEN NewRecord(t, height) ELSE db.tx[s]]]

(* store(tx, forks).                                                       *)
StoreUnconfirmed(db, t, forks) ==
    Storize([db EXCEPT !.cache = AddTx(@, t, forks, FALSE)], t, forks)

(* store(transactions).                                                    *)
StoreAll(db, txs) ==
    While(LAMBDA d, t : Storize(d, t, Unverified), db, txs)

-----------------------------------------------------------------------------
(* Candidate and uncandidate.                                              *)

HasOutput(db, point) ==
    point[1] \in DOMAIN db.tx /\ point[2] < OutputsOf[point[1]]

(* Mutant: an output that is marked already, or not, is refused.           *)
CandidateSpendStrict(db, point, positive) ==
    IF \/ ~HasOutput(db, point)
       \/ db.tx[point[1]].outputs[point[2]].candidateSpent = positive
    THEN Failed(db)
    ELSE [db EXCEPT !.tx[point[1]].outputs[point[2]].candidateSpent = positive]

(* candidate_spend.                                                        *)
CandidateSpend(db, point, positive) ==
    IF ~HasOutput(db, point) THEN Failed(db)
    ELSE [db EXCEPT !.tx[point[1]].outputs[point[2]].candidateSpent = positive]

(* Mutant: uncandidate does not unspend.                                   *)
CandidateTxOneWay(db, t, positive) ==
    LET spends == IF positive
                  THEN While(LAMBDA d, p : CandidateSpend(d, p, positive), db, InputsOf[t])
                  ELSE db
    IN  IF ~spends.ok THEN spends
        ELSE [spends EXCEPT !.tx[t].candidate = positive]

(* Spends or unspends the previous outputs, then candidize.                *)
CandidateTx(db, t, positive) ==
    LET spends == While(LAMBDA d, p : CandidateSpend(d, p, positive), db, InputsOf[t])
    IN  IF ~spends.ok THEN spends
        ELSE [spends EXCEPT !.tx[t].candidate = positive]

CandidateAll(db, txs, positive) ==
    While(LAMBDA d, t : CandidateTx(d, t, positive), db, txs)

-----------------------------------------------------------------------------
(* Confirm and unconfirm.                                                  *)

(* Mutant: a deconfirmed previous output is refused, too.                  *)
ConfirmedSpendStrict(db, point, height) ==
    LET prevout == db.tx[point[1]]
    IN  IF \/ ~HasOutput(db, point)
           \/ prevout.position \in {Unconfirmed, Deconfirmed}
           \/ prevout.height > height
        THEN Failed(db)
        ELSE [db EXCEPT !.tx[point[1]].outputs[point[2]].spender =
                 IF height = Unverified THEN NotSpent ELSE height]

(* confirmed_spend: unverified as the height stands for not spent.         *)
ConfirmedSpend(db, point, height) ==
    LET prevout == db.tx[point[1]]
    IN  IF \/ ~HasOutput(db, point)
           \/ prevout.position = Unconfirmed
           \/ prevout.height > height
        THEN Failed(db)
        ELSE [db EXCEPT !.tx[point[1]].outputs[point[2]].spender =
                 IF height = Unverified THEN NotSpent ELSE height]

(* Mutant: unconfirm does not unspend.                                     *)
ConfirmTxOneWay(db, t, height, position) ==
    LET spends == While(LAMBDA d, p : ConfirmedSpend(d, p, height), db,
                        IF position \in {0, Deconfirmed} THEN <<>> ELSE InputsOf[t])
    IN  IF ~spends.ok THEN spends
        ELSE [spends EXCEPT !.tx[t].height = height,
                            !.tx[t].position = position,
                            !.tx[t].candidate = FALSE]

(* confirm(link, height, time, position): the spends, except for the       *)
(* first transaction of a block, then confirmize.                          *)
ConfirmTx(db, t, height, position) ==
    LET spends == While(LAMBDA d, p : ConfirmedSpend(d, p, height), db,
                        IF position = 0 THEN <<>> ELSE InputsOf[t])
    IN  IF ~spends.ok THEN spends
        ELSE [spends EXCEPT !.tx[t].height = height,
                            !.tx[t].position = position,
                            !.tx[t].candidate = FALSE]

(* The loop of data_base::confirm over the links of a block.               *)
ConfirmLinks(db, txs, height) ==
    While(LAMBDA d, i : ConfirmTx(d, txs[i], height, i - 1), db,
          [i \in DOMAIN txs |-> i])

(* confirm(block, height, time).                                           *)
ConfirmAll(db, txs, height) ==
    LET Step(d, i) ==
            LET done == ConfirmTx(d, txs[i], height, i - 1)
            IN  IF ~done.ok THEN done
                ELSE [done EXCEPT !.cache = AddTx(@, txs[i], height, TRUE)]
    IN  While(Step, db, [i \in DOMAIN txs |-> i])

(* Mutant: the cache keeps what is deconfirmed.                            *)
UnconfirmAllCached(db, txs) ==
    While(LAMBDA d, t : ConfirmTx(d, t, Unverified, Deconfirmed), db, txs)

(* Mutant: the height of a deconfirmed transaction is not_spent.           *)
UnconfirmAllNotSpent(db, txs) ==
    While(LAMBDA d, t : ConfirmTx(d, t, NotSpent, Deconfirmed), db, txs)

(* unconfirm(block).                                                       *)
UnconfirmAll(db, txs) ==
    LET Step(d, t) ==
            LET done == ConfirmTx(d, t, Unverified, Deconfirmed)
            IN  IF ~done.ok THEN done
                ELSE [done EXCEPT !.cache = RemoveTx(@, t)]
    IN  While(Step, db, txs)

-----------------------------------------------------------------------------
(* Queries.                                                                *)

HasPosition(record) == record.position \notin {Unconfirmed, Deconfirmed}

(* get_output(point, fork_height) returns true.                            *)
OutputFound(db, point) ==
    \/ Cached(db.cache, point)
    \/ HasOutput(db, point) /\ db.tx[point[1]].height # 0

(* What get_output then writes to the metadata of the point.               *)
Prevout(db, point, fork) ==
    LET record == db.tx[point[1]]
        output == record.outputs[point[2]]
    IN  IF Cached(db.cache, point) THEN CachedPrevout(db.cache, point, fork)
        ELSE [height |-> record.height,
              candidate |-> record.candidate,
              candidateSpent |-> output.candidateSpent,
              confirmed |-> HasPosition(record) /\ record.height <= fork,
              confirmedSpent |-> output.spender # NotSpent /\ output.spender <= fork]

(* get_block_metadata(tx, forks, fork_height): is_cataloged, of a stored   *)
(* transaction; bip34 is active.                                           *)
BlockCataloged(db, t, fork) ==
    /\ t \in DOMAIN db.tx
    /\ db.tx[t].position # Unconfirmed
    /\ fork <= db.tx[t].height

(* get_pool_metadata(tx, forks): is_cataloged.                             *)
PoolCataloged(db, t) ==
    t \in DOMAIN db.tx /\ db.tx[t].position # Unconfirmed
=============================================================================
