----------------------------- MODULE MCHashTable -----------------------------
(* An instance of HashTable for TLC.                                       *)
EXTENDS HashTable

CONSTANTS k3, b1, b2

(* Two keys collide, the last one has a bucket of its own.                 *)
TwoBuckets == [k \in Keys |-> IF k = k3 THEN b2 ELSE b1]
=============================================================================
