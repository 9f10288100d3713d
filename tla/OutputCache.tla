----------------------------- MODULE OutputCache -----------------------------
(***************************************************************************)
(* The output cache as a component of its own: mutex_ makes each method of *)
(* unspent_outputs one step.                                               *)
(***************************************************************************)
EXTENDS UnspentOutputs

CONSTANT Heights    \* heights (or forks) a transaction is added with

ASSUME HeightsAssumption == Heights \subseteq Nat

VARIABLES
    cache,      \* [map, sequence]: unspent_ and sequence_
    older,      \* history: pairs of cached transactions, the first was inserted first
    spent       \* history: points removed since their transaction came in

cacheVars == <<cache, older, spent>>

CacheInit ==
    /\ cache = EmptyCache
    /\ older = {}
    /\ spent = {}

StillCached(pairs) == {p \in pairs : {p[1], p[2]} \subseteq DOMAIN cache'.map}

Add(tx, height, confirmed) ==
    LET entered == ~Disabled /\ OutputsOf[tx] > 0 /\ tx \notin DOMAIN Room(cache)
        others == {p \in older : tx \notin {p[1], p[2]}}
        newest == {<<t, tx>> : t \in DOMAIN Room(cache)}
    IN  /\ cache' = AddTx(cache, tx, height, confirmed)
        /\ older' = StillCached(IF entered THEN others \cup newest ELSE older)
        /\ spent' = IF entered THEN {p \in spent : p[1] # tx} ELSE spent

Drop(tx) ==
    /\ cache' = RemoveTx(cache, tx)
    /\ older' = StillCached(older)
    /\ UNCHANGED spent

Spend(point) ==
    /\ cache' = RemovePoint(cache, point)
    /\ older' = StillCached(older)
    /\ spent' = spent \cup {point}

CacheNext ==
    \/ \E tx \in Txs, height \in Heights, confirmed \in BOOLEAN :
          Add(tx, height, confirmed)
    \/ \E tx \in Txs : Drop(tx)
    \/ \E point \in Points : Spend(point)

CacheSpec == CacheInit /\ [][CacheNext]_cacheVars

-----------------------------------------------------------------------------
(* The cache never exceeds its capacity, and the sequence numbers, the     *)
(* least of which it evicts, are in the order of insertion, also when      *)
(* sequence_ wraps around (unspent_outputs.cpp, add).                      *)
CircularByAge ==
    /\ Cardinality(DOMAIN cache.map) <= CacheCapacity
    /\ \A t, u \in DOMAIN cache.map :
          /\ <<t, u>> \in older <=> cache.map[t].sequence < cache.map[u].sequence
          /\ t # u => <<t, u>> \in older \/ <<u, t>> \in older

(* An entry has exactly the outputs of its transaction that were not      *)
(* removed as spent since it came in, so that a spent one is not reported  *)
(* as unspent, and an entry with none left takes no room                   *)
(* (unspent_outputs.cpp, remove and populate; unspent_transaction.cpp).    *)
SpentStaysOut ==
    \A tx \in DOMAIN cache.map :
        /\ cache.map[tx].outputs =
              {i \in 0..(OutputsOf[tx] - 1) : <<tx, i>> \notin spent}
        /\ cache.map[tx].outputs # {}
=============================================================================
