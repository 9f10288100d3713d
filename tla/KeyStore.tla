------------------------------- MODULE KeyStore -------------------------------
(***************************************************************************)
(* What hash_table promises to the databases built on it: a store of       *)
(* elements by key in which storing and finding each happen at one moment, *)
(* elements are never removed, and finding a key gives the newest element  *)
(* stored under it (src/include/bitcoin/database/primitives/hash_table.hpp)*)
(***************************************************************************)
CONSTANTS Threads, Keys, Links, NotFound, NoAnswer

VARIABLES
    stored,     \* the elements stored under each key
    newest,     \* the last of them, or NotFound
    answer      \* what a thread that is finding will be or was told

vars == <<stored, newest, answer>>

Init ==
    /\ stored = [k \in Keys |-> {}]
    /\ newest = [k \in Keys |-> NotFound]
    /\ answer = [t \in Threads |-> NoAnswer]

(* An element that is under no key yet is stored.                          *)
Store(k, l) ==
    /\ \A j \in Keys : l \notin stored[j]
    /\ stored' = [stored EXCEPT ![k] = @ \cup {l}]
    /\ newest' = [newest EXCEPT ![k] = l]
    /\ UNCHANGED answer

Find(t, k) ==
    /\ answer[t] = NoAnswer
    /\ answer' = [answer EXCEPT ![t] = newest[k]]
    /\ UNCHANGED <<stored, newest>>

Done(t) ==
    /\ answer[t] # NoAnswer
    /\ answer' = [answer EXCEPT ![t] = NoAnswer]
    /\ UNCHANGED <<stored, newest>>

Next ==
    \/ \E k \in Keys, l \in Links : Store(k, l)
    \/ \E t \in Threads : Done(t) \/ \E k \in Keys : Find(t, k)

Spec == Init /\ [][Next]_vars
=============================================================================
