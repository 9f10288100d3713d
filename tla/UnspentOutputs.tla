---------------------------- MODULE UnspentOutputs ----------------------------
(***************************************************************************)
(* unspent_outputs (src/src/unspent_outputs.cpp) and its entries,          *)
(* unspent_transaction: a cache of the unspent outputs of the newest       *)
(* transactions, circular by age.  The bimap of the code relates a         *)
(* transaction to the sequence number of its insertion; here it is a       *)
(* function from the cached transactions to their entries.                 *)
(*                                                                         *)
(* The methods are operators on a cache c: OutputCache checks them by      *)
(* themselves, TransactionDatabase uses them.  The hit counters and the    *)
(* median time past are left out.                                          *)
(***************************************************************************)
EXTENDS Integers, Sequences, FiniteSets, Functions

CONSTANTS
    Txs,            \* transactions
    OutputsOf,      \* Txs -> Nat: the number of their outputs
    CacheCapacity,  \* capacity_
    MaxSequence     \* the largest value of sequence_ (max_uint32 in the code)

ASSUME CacheAssumption ==
    /\ OutputsOf \in [Txs -> Nat]
    /\ CacheCapacity \in Nat
    /\ MaxSequence \in Nat

(* One index past the outputs of each transaction is a point, too.         *)
Points == UNION {{t} \X (0..OutputsOf[t]) : t \in Txs}

EmptyCache == [map |-> <<>>, sequence |-> 0]

-----------------------------------------------------------------------------
(* unspent_transaction(tx, height, median_time_past, confirmed).           *)
Entry(tx, height, confirmed, sequence) ==
    [height |-> height, confirmed |-> confirmed,
     outputs |-> 0..(OutputsOf[tx] - 1), sequence |-> sequence]

Without(map, tx) == Restrict(map, DOMAIN map \ {tx})

(* unspent_.right.begin().                                                 *)
Oldest(map) ==
    CHOOSE tx \in DOMAIN map :
        \A other \in DOMAIN map : map[tx].sequence <= map[other].sequence

Disabled == CacheCapacity = 0

(* Mutant: sequence_ wraps around without clearing the cache.              *)
RoomNoClear(c) ==
    IF Cardinality(DOMAIN c.map) >= CacheCapacity
    THEN Without(c.map, Oldest(c.map)) ELSE c.map

(* The entries left when add() has made room for one more.                 *)
Room(c) ==
    LET map == IF c.sequence = MaxSequence THEN <<>> ELSE c.map
    IN  IF Cardinality(DOMAIN map) >= CacheCapacity
        THEN Without(map, Oldest(map)) ELSE map

(* A transaction that is cached already keeps its entry: the insert of a   *)
(* bimap does nothing then, but the oldest entry is gone all the same.     *)
AddTx(c, tx, height, confirmed) ==
    LET room == Room(c)
        sequence == (c.sequence + 1) % (MaxSequence + 1)
        entry == Entry(tx, height, confirmed, sequence)
    IN  IF Disabled \/ OutputsOf[tx] = 0 THEN c
        ELSE [sequence |-> sequence,
              map |-> [t \in DOMAIN room \cup {tx} |->
                          IF t \in DOMAIN room THEN room[t] ELSE entry]]

(* remove(tx_hash).                                                        *)
RemoveTx(c, tx) == [c EXCEPT !.map = Without(@, tx)]

(* Mutant: a fully spent transaction stays in the cache.                   *)
RemovePointKeeps(c, point) ==
    IF point[1] \notin DOMAIN c.map THEN c
    ELSE [c EXCEPT !.map[point[1]].outputs = @ \ {point[2]}]

(* remove(point): the entry goes with its last output.                     *)
RemovePoint(c, point) ==
    LET tx == point[1]
        left == c.map[tx].outputs \ {point[2]}
    IN  IF tx \notin DOMAIN c.map THEN c
        ELSE IF left = {} THEN RemoveTx(c, tx)
        ELSE [c EXCEPT !.map[tx].outputs = left]

(* populate(point, fork_height) returns true.                              *)
Cached(c, point) ==
    /\ point[1] \in DOMAIN c.map
    /\ point[2] \in c.map[point[1]].outputs

(* What populate then writes to the metadata of the point.                 *)
CachedPrevout(c, point, fork) ==
    LET entry == c.map[point[1]]
    IN  [height |-> entry.height, candidate |-> FALSE, candidateSpent |-> FALSE,
         confirmedSpent |-> FALSE,
         confirmed |-> entry.confirmed /\ entry.height <= fork]
=============================================================================
