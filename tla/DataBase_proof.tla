---------------------------- MODULE DataBase_proof ----------------------------
(***************************************************************************)
(* Proofs about data_base, for any tree of blocks and any transactions.    *)
(*                                                                         *)
(* First its chains: both indexes stay chains from genesis, the state of a *)
(* block agrees with them but where one of them has demoted what the other *)
(* holds, only a pop of such a block or of a confirmed one fails an        *)
(* assertion, and a reorganization that succeeds leaves the chain it was   *)
(* asked for.  Whether a loop over the transactions of a block succeeds is *)
(* arbitrary there.                                                        *)
(*                                                                         *)
(* Then what is kept about transactions, with a second invariant, Books:   *)
(* what each loop over the transactions of a block leaves in the table,    *)
(* that no such loop fails, and that the table, the marks, the cache and   *)
(* the payments agree with the two chains.                                 *)
(*                                                                         *)
(* At the end the cache of unspent outputs on its own, in any use of it.   *)
(***************************************************************************)
EXTENDS DataBase, OutputCache, SequenceTheorems, FiniteSetTheorems, WellFoundedInduction, TLAPS

(* The store is a record of its four parts.                                *)
IsStore(st) ==
    /\ st = [blk |-> st.blk, index |-> st.index, ok |-> st.ok, assert |-> st.assert]
    /\ DOMAIN st.blk \subseteq Blocks
    /\ st.blk \in [DOMAIN st.blk -> BlockStates]
    /\ st.index \in [Indexes -> Seq(Blocks)]
    /\ st.ok \in BOOLEAN /\ st.assert \in BOOLEAN

CallType ==
    [name : Indexes \cup {"none", "failed"}, fork : Int, popping : BOOLEAN, height : Int,
     incoming : Seq(Blocks), target : Seq(Blocks)]

TypeInv ==
    /\ debug \in BOOLEAN
    /\ IsStore(store) /\ store.ok /\ store.assert
    /\ call \in CallType
    /\ aborted \in BOOLEAN /\ displaced \subseteq DOMAIN blk

(* What is in an index is stored, and what is valid is associated.         *)
StoredInv ==
    /\ ToSet(cand) \cup ToSet(conf) \subseteq DOMAIN blk
    /\ \A b \in DOMAIN blk : blk[b].validation = "valid" => blk[b].associated
    /\ conf # <<>> => cand # <<>>

(* Where reorganize() c is between two steps: the index has the target up  *)
(* to c.height, and what is still to be pushed is the rest of it.          *)
Located(st, c) ==
    /\ \E b \in Blocks : c.target = Chain[b]
    /\ c.height \in 1..Len(c.target)
    /\ c.height <= Len(st.index[c.name])
    /\ \A i \in 1..c.height : st.index[c.name][i] = c.target[i]
    /\ c.incoming = SubSeq(c.target, c.height + 1, Len(c.target))
    /\ c.popping => c.height = c.fork + 1
    /\ ~c.popping => c.height = Len(st.index[c.name])

(* It goes on only while there is something to pop or to push.             *)
InCall(st, c) ==
    c.name \in Indexes =>
        /\ Located(st, c)
        /\ c.popping => c.height < Len(st.index[c.name])
        /\ ~c.popping => c.height < Len(c.target)

CallInv == InCall(store, call)

(* Headers to be pushed have not failed.                                   *)
InHeaders(st, c) ==
    c.name = "candidate" =>
        \A i \in (c.height + 1)..Len(c.target) :
            c.target[i] \in DOMAIN st.blk => st.blk[c.target[i]].validation # "failed"

HeadersInv == InHeaders(store, call)

(* Blocks to be pushed are stored and valid, and in a debug build they are *)
(* candidates: what the confirmed chain holds there is.                    *)
InBlocks(st, c) ==
    c.name = "confirmed" =>
        \A i \in 1..Len(c.target) :
            /\ c.target[i] \in DOMAIN st.blk
            /\ st.blk[c.target[i]].validation = "valid"
            /\ debug => c.target[i] \in ToSet(st.index["candidate"])

BlocksInv == InBlocks(store, call)

(* In a debug build that goes on, every confirmed block is a candidate and *)
(* its state says that it is confirmed: no pop has displaced it.           *)
Settled(st) ==
    \A c \in ToSet(st.index["confirmed"]) :
        c \in ToSet(st.index["candidate"]) /\ st.blk[c].confirmation = "confirmed"

SettledInv == debug /\ ~aborted => Settled(store)

Inv ==
    /\ TypeInv
    /\ ChainsLinked
    /\ StoredInv
    /\ StateMatchesIndex
    /\ SettledInv
    /\ CallInv
    /\ HeadersInv
    /\ BlocksInv

-----------------------------------------------------------------------------
(* Chains of blocks.                                                       *)

(* Every nonempty set of naturals has a least element.                     *)
LEMMA Least == ASSUME NEW T, T \subseteq Nat, T # {}
               PROVE  \E n \in T : \A m \in T : n <= m
<1>1. PICK n \in T : \A m \in T : ~(<<m, n>> \in OpToRel(<, Nat))
    BY WFMin, NatLessThanWellFounded, Zenon
<1>2. ASSUME NEW m \in T PROVE n <= m
    <2>1. ~(m < n)
        BY <1>1 DEF OpToRel
    <2> QED BY <2>1
<1> QED BY <1>2

(* A chain is a nonempty sequence of blocks that ends with its block.      *)
LEMMA ChainOf == ASSUME NEW b \in Blocks
                 PROVE  /\ Chain[b] \in Seq(Blocks)
                        /\ Len(Chain[b]) \in Nat \ {0}
                        /\ Chain[b][Len(Chain[b])] = b
                        /\ Height(b) = Len(Chain[b]) - 1
<1>1. Chain[b] \in Seq(Blocks) /\ Chain[b] # <<>>
    BY ChainAssumption
<1> QED BY <1>1, ChainAssumption, EmptySeq DEF Height, Last

(* Without its last block, a chain is the chain of the parent.             *)
LEMMA ParentChain == ASSUME NEW b \in Blocks, Len(Chain[b]) > 1
                     PROVE  /\ Parent(b) \in Blocks
                            /\ Parent(b) = Chain[b][Len(Chain[b]) - 1]
                            /\ Chain[Parent(b)] = Front(Chain[b])
                            /\ Len(Chain[Parent(b)]) = Len(Chain[b]) - 1
                            /\ \A i \in 1..(Len(Chain[b]) - 1) : Chain[Parent(b)][i] = Chain[b][i]
<1>1. Chain[b] \in Seq(Blocks) /\ Len(Chain[b]) \in Nat /\ Height(b) = Len(Chain[b]) - 1
    BY ChainOf
<1>2. Parent(b) = Chain[b][Len(Chain[b]) - 1] /\ Parent(b) \in Blocks
    BY <1>1, ElementOfSeq DEF Parent
<1>3. Chain[Parent(b)] = Front(Chain[b])
    <2>1. Height(b) > 0
        BY <1>1
    <2> QED BY <2>1, ChainAssumption, Zenon
<1>4. /\ Len(Front(Chain[b])) = Len(Chain[b]) - 1
      /\ \A i \in 1..(Len(Chain[b]) - 1) : Front(Chain[b])[i] = Chain[b][i]
    BY <1>1 DEF Front
<1> QED BY <1>2, <1>3, <1>4

(* The blocks of a chain up to one of them are the chain of that one.      *)
LEMMA ChainPrefix == ASSUME NEW b \in Blocks, NEW i \in 1..Len(Chain[b])
                     PROVE  /\ Chain[b][i] \in Blocks
                            /\ Len(Chain[Chain[b][i]]) = i
                            /\ \A j \in 1..i : Chain[Chain[b][i]][j] = Chain[b][j]
<1> DEFINE Holds(c, k) == /\ Len(Chain[Chain[c][k]]) = k
                          /\ \A j \in 1..k : Chain[Chain[c][k]][j] = Chain[c][j]
           T == {n \in Nat : \E c \in Blocks : \E k \in 1..Len(Chain[c]) :
                                Len(Chain[c]) - k = n /\ ~Holds(c, k)}
<1>1. T = {}
    <2> SUFFICES ASSUME T # {} PROVE FALSE
        OBVIOUS
    <2> PICK n \in T : \A m \in T : n <= m
        BY Least
    <2> PICK c \in Blocks : \E k \in 1..Len(Chain[c]) : Len(Chain[c]) - k = n /\ ~Holds(c, k)
        OBVIOUS
    <2> PICK k \in 1..Len(Chain[c]) : Len(Chain[c]) - k = n /\ ~Holds(c, k)
        OBVIOUS
    <2>1. Len(Chain[c]) \in Nat /\ n \in Nat
        BY ChainOf
    <2>2. k # Len(Chain[c])
        BY ChainOf
    <2>3. Len(Chain[c]) > 1 /\ k <= Len(Chain[c]) - 1
        <3> HIDE DEF Holds, T
        <3> PICK len \in Nat : len = Len(Chain[c])
            BY <2>1
        <3>1. k \in 1..len /\ k # len
            BY <2>2
        <3>2. len > 1 /\ k <= len - 1
            BY <3>1
        <3> QED BY <3>2
    <2> PICK p \in Blocks : p = Parent(c)
        BY <2>3, ParentChain
    <2>4. Len(Chain[p]) = Len(Chain[c]) - 1 /\ \A j \in 1..(Len(Chain[c]) - 1) : Chain[p][j] = Chain[c][j]
        BY <2>3, ParentChain
    <2>5. k \in 1..Len(Chain[p]) /\ Len(Chain[p]) - k = n - 1 /\ n - 1 \in Nat
        BY <2>1, <2>3, <2>4
    <2>6. Holds(p, k)
        <3> SUFFICES ASSUME ~Holds(p, k) PROVE FALSE
            OBVIOUS
        <3> HIDE DEF Holds
        <3>1. n - 1 \in T
            BY <2>5
        <3> HIDE DEF T
        <3>2. n <= n - 1
            BY <3>1
        <3> QED BY <2>1, <3>2
    <2>7. Chain[p][k] = Chain[c][k]
        BY <2>4, <2>5
    <2>8. ASSUME NEW j \in 1..k PROVE Chain[p][j] = Chain[c][j]
        <3>1. j \in 1..(Len(Chain[c]) - 1)
            <4> HIDE DEF Holds, T
            <4> QED BY <2>1, <2>3
        <3> QED BY <2>4, <3>1
    <2> QED BY <2>6, <2>7, <2>8
<1>2. Len(Chain[b]) \in Nat /\ Len(Chain[b]) - i \in Nat /\ Chain[b] \in Seq(Blocks)
    BY ChainOf
<1>3. Holds(b, i)
    <2> HIDE DEF Holds
    <2> QED BY <1>1, <1>2
<1> QED BY <1>2, <1>3, ElementOfSeq

(* Two nonempty sequences with the same first element share it, and part   *)
(* right above Shared, unless one of them ends there.                      *)
LEMMA SharedPrefix ==
    ASSUME NEW s \in Seq(Blocks), NEW t \in Seq(Blocks), s # <<>>, t # <<>>, s[1] = t[1]
    PROVE  /\ Shared(s, t) \in Nat
           /\ Shared(s, t) + 1 \in 1..Len(s) /\ Shared(s, t) + 1 <= Len(t)
           /\ \A i \in 1..(Shared(s, t) + 1) : s[i] = t[i]
           /\ Shared(s, t) + 1 < Len(s) /\ Shared(s, t) + 1 < Len(t) =>
                 s[Shared(s, t) + 2] # t[Shared(s, t) + 2]
<1> DEFINE Agree(n) == n <= Len(t) /\ \A i \in 1..n : s[i] = t[i]
           C == {n \in 0..Len(s) : Agree(n)}
<1>1. Len(s) \in Nat \ {0} /\ Len(t) \in Nat \ {0}
    BY EmptySeq
<1>2. \E n \in C : \A m \in C : n >= m
    <2> DEFINE T == {k \in Nat : \E n \in C : k = Len(s) - n}
    <2>1. 0 \in C
        BY <1>1
    <2> HIDE DEF Agree
    <2>2. ASSUME NEW n \in C PROVE Len(s) - n \in T
        BY <1>1
    <2>3. T # {}
        BY <2>1, <2>2
    <2> PICK k \in T : \A m \in T : k <= m
        BY <2>3, Least
    <2> PICK n \in C : k = Len(s) - n
        OBVIOUS
    <2>4. ASSUME NEW m \in C PROVE n >= m
        <3>1. k <= Len(s) - m
            BY <2>2
        <3> QED BY <3>1, <1>1
    <2> QED BY <2>4
<1> PICK n : n = Max(C)
    OBVIOUS
<1>3. n \in C /\ \A m \in C : n >= m
    <2> HIDE DEF C
    <2> QED BY <1>2 DEF Max
<1>4. Shared(s, t) = n - 1
    BY DEF Shared
<1>5. n \in Nat /\ n >= 1
    <2>1. 1 \in C
        BY <1>1
    <2> QED BY <2>1, <1>1, <1>3
<1>6. ASSUME n < Len(s), n < Len(t), s[n + 1] = t[n + 1] PROVE FALSE
    <2>1. ASSUME NEW i \in 1..(n + 1) PROVE s[i] = t[i]
        BY <1>3, <1>5, <1>6
    <2>2. n + 1 \in C
        BY <2>1, <1>1, <1>5, <1>6
    <2> HIDE DEF C
    <2>3. n >= n + 1
        BY <2>2, <1>3
    <2> QED BY <2>3, <1>5
<1>7. Shared(s, t) \in Nat /\ Shared(s, t) + 1 = n /\ Shared(s, t) + 2 = n + 1
    BY <1>4, <1>5
<1>8. n \in 1..Len(s) /\ n <= Len(t) /\ \A i \in 1..n : s[i] = t[i]
    BY <1>1, <1>3, <1>5
<1> HIDE DEF C
<1> QED BY <1>6, <1>7, <1>8

(* In an index that is a chain, the block at each height has that height,  *)
(* and its chain is the index up to there.                                 *)
Linked(s) == s # <<>> => s = Chain[Last(s)]

(* What Linked says of each place.                                         *)
LEMMA LinkedAt == ASSUME NEW s \in Seq(Blocks), Linked(s), NEW i \in 1..Len(s)
                  PROVE  /\ s[i] \in Blocks
                         /\ Len(Chain[s[i]]) = i
                         /\ \A j \in 1..i : Chain[s[i]][j] = s[j]
<1>1. Len(s) \in Nat /\ s # <<>> /\ Len(s) \in 1..Len(s)
    BY EmptySeq
<1>2. Last(s) \in Blocks /\ s = Chain[Last(s)]
    BY <1>1, ElementOfSeq DEF Linked, Last
<1> PICK b \in Blocks : s = Chain[b]
    BY <1>2
<1> QED BY ChainPrefix

(* So no block is in it twice.                                             *)
LEMMA LinkedDistinct == ASSUME NEW s \in Seq(Blocks), Linked(s),
                               NEW i \in 1..Len(s), NEW j \in 1..Len(s), s[i] = s[j]
                        PROVE  i = j
BY LinkedAt

(* Popping leaves a chain.                                                 *)
LEMMA LinkedFront == ASSUME NEW s \in Seq(Blocks), Linked(s), s # <<>>
                     PROVE  /\ Front(s) \in Seq(Blocks) /\ Len(Front(s)) = Len(s) - 1
                            /\ \A i \in 1..(Len(s) - 1) : Front(s)[i] = s[i]
                            /\ Linked(Front(s))
<1>1. Len(s) \in Nat \ {0}
    BY EmptySeq
<1>2. /\ Front(s) \in Seq(Blocks) /\ Len(Front(s)) = Len(s) - 1
      /\ \A i \in 1..(Len(s) - 1) : Front(s)[i] = s[i]
    <2>1. Front(s) \in Seq(Blocks)
        BY <1>1 DEF Front
    <2>2. Len(Front(s)) = Len(s) - 1
        BY <1>1 DEF Front
    <2>3. ASSUME NEW i \in 1..(Len(s) - 1) PROVE Front(s)[i] = s[i]
        BY <1>1 DEF Front
    <2> QED BY <2>1, <2>2, <2>3
<1>3. ASSUME Front(s) # <<>> PROVE Front(s) = Chain[Last(Front(s))]
    <2>1. Len(Front(s)) # 0
        BY <1>2, <1>3, EmptySeq
    <2> PICK n \in Nat \ {0} : n = Len(s) - 1
        BY <1>1, <1>2, <2>1
    <2>2. n \in 1..Len(s) /\ n \in 1..n
        BY <1>1
    <2>3. Last(Front(s)) = s[n]
        BY <1>2, <2>2 DEF Last
    <2>4. s[n] \in Blocks /\ Len(Chain[s[n]]) = n /\ \A j \in 1..n : Chain[s[n]][j] = s[j]
        BY <2>2, LinkedAt
    <2>5. Chain[s[n]] \in Seq(Blocks)
        BY <2>4, ChainOf
    <2>6. Len(Front(s)) = n /\ \A j \in 1..n : Front(s)[j] = Chain[s[n]][j]
        BY <1>2, <2>4
    <2>7. Front(s) = Chain[s[n]]
        <3> PICK f \in Seq(Blocks) : f = Front(s)
            BY <1>2
        <3> PICK c \in Seq(Blocks) : c = Chain[s[n]]
            BY <2>5
        <3>1. Len(f) = Len(c) /\ \A j \in 1..Len(f) : f[j] = c[j]
            BY <2>4, <2>6
        <3>2. \A p, q \in Seq(Blocks) : Len(p) = Len(q) /\ (\A j \in 1..Len(p) : p[j] = q[j]) => p = q
            BY SeqEqual
        <3> QED BY <3>1, <3>2, Zenon
    <2> QED BY <2>3, <2>7
<1> QED BY <1>2, <1>3 DEF Linked

(* Pushing the next block of a chain leaves a chain.                       *)
LEMMA LinkedAppend == ASSUME NEW s \in Seq(Blocks), NEW b \in Blocks,
                             Len(Chain[b]) = Len(s) + 1,
                             \A i \in 1..Len(s) : s[i] = Chain[b][i]
                      PROVE  /\ Append(s, b) = Chain[b]
                             /\ Append(s, b) \in Seq(Blocks)
                             /\ Len(Append(s, b)) = Len(s) + 1
                             /\ Append(s, b)[Len(s) + 1] = b
                             /\ \A i \in 1..Len(s) : Append(s, b)[i] = s[i]
                             /\ Linked(Append(s, b))
<1>1. /\ Append(s, b) \in Seq(Blocks) /\ Len(Append(s, b)) = Len(s) + 1 /\ Len(s) \in Nat
      /\ Append(s, b)[Len(s) + 1] = b /\ \A i \in 1..Len(s) : Append(s, b)[i] = s[i]
    BY AppendProperties
<1>2. Chain[b] \in Seq(Blocks) /\ Chain[b][Len(s) + 1] = b
    BY ChainOf
<1>3. ASSUME NEW i \in 1..(Len(s) + 1) PROVE Append(s, b)[i] = Chain[b][i]
    BY <1>1, <1>2
<1>4. Append(s, b) = Chain[b]
    BY <1>1, <1>2, <1>3, SeqEqual
<1>5. Last(Append(s, b)) = b
    BY <1>1 DEF Last
<1> QED BY <1>1, <1>4, <1>5 DEF Linked

-----------------------------------------------------------------------------
(* What the methods of block_database do to a store.                       *)

(* The blocks of st other than b are as before.                            *)
Rest(st, new, b) ==
    /\ \A c \in DOMAIN st.blk : c # b => new.blk[c] = st.blk[c]
    /\ DOMAIN new.blk = DOMAIN st.blk \cup {b}

HeaderStored(st, b, new) ==
    /\ IsStore(new) /\ new.index = st.index /\ new.assert = st.assert
    /\ Rest(st, new, b)
    /\ new.blk[b] = NewHeader

(* store(header): a new candidate without transactions.                    *)
LEMMA StoreHeaderDoes ==
    ASSUME NEW st, IsStore(st), NEW b \in Blocks, b \notin DOMAIN st.blk,
           NEW new, new = StoreHeader(st, b)
    PROVE  HeaderStored(st, b, new)
<1> DEFINE all == [c \in DOMAIN st.blk \cup {b} |-> IF c = b THEN NewHeader ELSE st.blk[c]]
<1>1. NewHeader \in BlockStates
    BY DEF BlockStates, NewHeader
<1>2. /\ DOMAIN all = DOMAIN st.blk \cup {b} /\ all[b] = NewHeader
      /\ \A c \in DOMAIN st.blk : c # b => all[c] = st.blk[c]
      /\ all \in [DOMAIN all -> BlockStates]
    BY <1>1 DEF IsStore
<1> HIDE DEF all
<1>3. new = [blk |-> all, index |-> st.index, ok |-> st.ok, assert |-> st.assert]
    <2>1. new = [st EXCEPT !.blk = all]
        BY DEF StoreHeader, all
    <2> QED BY <2>1 DEF IsStore
<1>4. new.blk = all /\ new.index = st.index /\ new.ok = st.ok /\ new.assert = st.assert
    BY <1>3
<1>5. IsStore(new)
    BY <1>2, <1>3, <1>4 DEF IsStore
<1> QED BY <1>2, <1>4, <1>5 DEF HeaderStored, Rest

Associated(st, b, new) ==
    /\ IsStore(new) /\ new.index = st.index /\ new.assert = st.assert
    /\ Rest(st, new, b)
    /\ new.blk[b] = [st.blk[b] EXCEPT !.associated = TRUE]

(* update_transactions: the state byte is unchanged.                       *)
LEMMA UpdateTransactionsDoes ==
    ASSUME NEW st, IsStore(st), NEW b \in DOMAIN st.blk,
           NEW new, new = UpdateTransactions(st, b)
    PROVE  Associated(st, b, new)
<1> DEFINE all == [st.blk EXCEPT ![b] = [st.blk[b] EXCEPT !.associated = TRUE]]
<1>1. new = [blk |-> all, index |-> st.index, ok |-> st.ok, assert |-> st.assert]
    BY DEF IsStore, UpdateTransactions
<1>2. /\ DOMAIN all = DOMAIN st.blk /\ all[b] = [st.blk[b] EXCEPT !.associated = TRUE]
      /\ \A c \in DOMAIN st.blk : c # b => all[c] = st.blk[c]
      /\ all \in [DOMAIN all -> BlockStates]
    BY DEF IsStore, BlockStates
<1>3. new.blk = all /\ new.index = st.index /\ new.ok = st.ok /\ new.assert = st.assert
    BY <1>1
<1> HIDE DEF all
<1>4. IsStore(new)
    BY <1>1, <1>2, <1>3 DEF IsStore
<1> QED BY <1>2, <1>3, <1>4 DEF Associated, Rest

Validated(st, b, verdict, new) ==
    /\ IsStore(new) /\ new.index = st.index
    /\ new.assert = (st.assert /\ MayValidate(st.blk[b]))
    /\ Rest(st, new, b)
    /\ new.blk[b] = [st.blk[b] EXCEPT !.validation = verdict]

(* validate: the confirmation bits are unchanged.                          *)
LEMMA ValidateDoes ==
    ASSUME NEW st, IsStore(st), NEW b \in DOMAIN st.blk, NEW valid \in BOOLEAN,
           NEW new, new = Validate(st, b, valid)
    PROVE  Validated(st, b, IF valid THEN "valid" ELSE "failed", new)
<1> DEFINE all == [st.blk EXCEPT ![b] =
                      [st.blk[b] EXCEPT !.validation = IF valid THEN "valid" ELSE "failed"]]
<1>1. new = [blk |-> all, index |-> st.index, ok |-> st.ok,
             assert |-> (st.assert /\ MayValidate(st.blk[b]))]
    BY DEF IsStore, Validate
<1>2. /\ DOMAIN all = DOMAIN st.blk
      /\ all[b] = [st.blk[b] EXCEPT !.validation = IF valid THEN "valid" ELSE "failed"]
      /\ \A c \in DOMAIN st.blk : c # b => all[c] = st.blk[c]
      /\ all \in [DOMAIN all -> BlockStates]
    BY DEF IsStore, BlockStates
<1>3. /\ new.blk = all /\ new.index = st.index /\ new.ok = st.ok
      /\ new.assert = (st.assert /\ MayValidate(st.blk[b]))
    BY <1>1
<1> HIDE DEF all
<1>4. IsStore(new)
    BY <1>1, <1>2, <1>3 DEF IsStore
<1> QED BY <1>2, <1>3, <1>4 DEF Validated, Rest

(* A store with other states of its blocks and another verdict.            *)
LEMMA StoreWith ==
    ASSUME NEW st, IsStore(st), NEW all, NEW may \in BOOLEAN
    PROVE  [st EXCEPT !.blk = all, !.assert = may] =
              [blk |-> all, index |-> st.index, ok |-> st.ok, assert |-> may]
<1> DEFINE mid == [st EXCEPT !.blk = all]
<1>1. mid = [blk |-> all, index |-> st.index, ok |-> st.ok, assert |-> st.assert]
    BY DEF IsStore
<1>2. [st EXCEPT !.blk = all, !.assert = may] = [mid EXCEPT !.assert = may]
    OBVIOUS
<1> HIDE DEF mid
<1>3. mid.blk = all /\ mid.index = st.index /\ mid.ok = st.ok
    BY <1>1
<1> QED BY <1>1, <1>2, <1>3

(* The assertions of a promotion.                                          *)
Promotable(state, name) ==
    /\ name = "confirmed" => state.validation = "valid"
    /\ name = "candidate" => state.validation # "failed"

Promoted(st, b, name, new) ==
    /\ IsStore(new)
    /\ new.index = [st.index EXCEPT ![name] = Append(st.index[name], b)]
    /\ new.assert = (st.assert /\ Promotable(st.blk[b], name))
    /\ Rest(st, new, b)
    /\ new.blk[b] = [st.blk[b] EXCEPT !.confirmation = name]

(* promote, at the height of the index: the block is pushed.               *)
LEMMA PromoteDoes ==
    ASSUME NEW st, IsStore(st), NEW b \in DOMAIN st.blk, NEW name \in Indexes,
           NEW new, new = Promote(st, b, Len(st.index[name]), name)
    PROVE  Promoted(st, b, name, new)
<1> DEFINE all == [st.blk EXCEPT ![b] = [st.blk[b] EXCEPT !.confirmation = name]]
           may == st.assert /\ Promotable(st.blk[b], name)
           index == [st.index EXCEPT ![name] = Append(st.index[name], b)]
           mid == [st EXCEPT !.blk = all, !.assert = may]
<1>1. st.index[name] \in Seq(Blocks)
    BY DEF IsStore
<1>2. new = [mid EXCEPT !.index[name] = Append(st.index[name], b)]
    BY DEF Promote, UpdateConfirmation, MayConfirm, Promotable
<1>3. /\ DOMAIN all = DOMAIN st.blk /\ all[b] = [st.blk[b] EXCEPT !.confirmation = name]
      /\ \A c \in DOMAIN st.blk : c # b => all[c] = st.blk[c]
      /\ all \in [DOMAIN all -> BlockStates]
    <2>1. st.blk \in [DOMAIN st.blk -> BlockStates] /\ st.blk[b] \in BlockStates
        BY DEF IsStore
    <2>2. [st.blk[b] EXCEPT !.confirmation = name] \in BlockStates
        BY <2>1 DEF BlockStates, Indexes
    <2> QED BY <2>1, <2>2
<1>4. Append(st.index[name], b) \in Seq(Blocks)
    BY <1>1, AppendProperties DEF IsStore
<1>5. index \in [Indexes -> Seq(Blocks)]
    BY <1>4 DEF IsStore
<1>6. may \in BOOLEAN
    OBVIOUS
<1> HIDE DEF all, may
<1>7. mid = [blk |-> all, index |-> st.index, ok |-> st.ok, assert |-> may]
    BY <1>6, StoreWith
<1> HIDE DEF mid
<1>8. new = [blk |-> all, index |-> index, ok |-> st.ok, assert |-> may]
    BY <1>2, <1>7 DEF IsStore
<1> HIDE DEF index
<1>9. new.blk = all /\ new.index = index /\ new.ok = st.ok /\ new.assert = may
    BY <1>8
<1>10. IsStore(new)
    BY <1>3, <1>5, <1>6, <1>8, <1>9 DEF IsStore
<1> QED BY <1>3, <1>9, <1>10 DEF Promoted, Rest, may, index

Demoted(st, b, name, new) ==
    /\ IsStore(new)
    /\ new.index = [st.index EXCEPT ![name] = Front(st.index[name])]
    /\ new.assert = (st.assert /\ st.blk[b].confirmation = name)
    /\ Rest(st, new, b)
    /\ new.blk[b] = [st.blk[b] EXCEPT !.confirmation = "missing"]

(* demote, at the top of the index: the block is popped.                   *)
LEMMA DemoteDoes ==
    ASSUME NEW st, IsStore(st), NEW b \in DOMAIN st.blk, NEW name \in Indexes, st.index[name] # <<>>,
           NEW new, new = Demote(st, b, Top(st.index[name]), name)
    PROVE  Demoted(st, b, name, new)
<1> DEFINE all == [st.blk EXCEPT ![b] = [st.blk[b] EXCEPT !.confirmation = "missing"]]
           may == st.assert /\ st.blk[b].confirmation = name
           index == [st.index EXCEPT ![name] = Front(st.index[name])]
           mid == [st EXCEPT !.blk = all, !.assert = may]
<1>1. st.index[name] \in Seq(Blocks) /\ Len(st.index[name]) \in Nat \ {0}
    BY EmptySeq DEF IsStore
<1>2. new = [mid EXCEPT !.index[name] = Front(st.index[name])]
    BY <1>1 DEF Demote, Top, UpdateConfirmation, MayConfirm
<1>3. /\ DOMAIN all = DOMAIN st.blk /\ all[b] = [st.blk[b] EXCEPT !.confirmation = "missing"]
      /\ \A c \in DOMAIN st.blk : c # b => all[c] = st.blk[c]
      /\ all \in [DOMAIN all -> BlockStates]
    <2>1. st.blk \in [DOMAIN st.blk -> BlockStates] /\ st.blk[b] \in BlockStates
        BY DEF IsStore
    <2>2. [st.blk[b] EXCEPT !.confirmation = "missing"] \in BlockStates
        BY <2>1 DEF BlockStates, Indexes
    <2> QED BY <2>1, <2>2
<1>4. Front(st.index[name]) \in Seq(Blocks)
    BY <1>1 DEF Front
<1>5. index \in [Indexes -> Seq(Blocks)]
    BY <1>4 DEF IsStore
<1>6. may \in BOOLEAN
    OBVIOUS
<1> HIDE DEF all, may
<1>7. mid = [blk |-> all, index |-> st.index, ok |-> st.ok, assert |-> may]
    BY <1>6, StoreWith
<1> HIDE DEF mid
<1>8. new = [blk |-> all, index |-> index, ok |-> st.ok, assert |-> may]
    BY <1>2, <1>7 DEF IsStore
<1> HIDE DEF index
<1>9. new.blk = all /\ new.index = index /\ new.ok = st.ok /\ new.assert = may
    BY <1>8
<1>10. IsStore(new)
    BY <1>3, <1>5, <1>6, <1>8, <1>9 DEF IsStore
<1> QED BY <1>3, <1>9, <1>10 DEF Demoted, Rest, may, index

-----------------------------------------------------------------------------
(* A good store: both indexes are chains of stored blocks, and what is     *)
(* valid is associated.                                                    *)
Good(st) ==
    /\ IsStore(st)
    /\ \A name \in Indexes : Linked(st.index[name]) /\ ToSet(st.index[name]) \subseteq DOMAIN st.blk
    /\ \A c \in DOMAIN st.blk : st.blk[c].validation = "valid" => st.blk[c].associated
    /\ st.index["confirmed"] # <<>> => st.index["candidate"] # <<>>

(* The states of all blocks but those of S agree with the indexes, but for *)
(* the blocks of dis, that one index has demoted and the other holds.      *)
Matches(st, dis, c) ==
    /\ st.blk[c].confirmation = "missing" <=>
          \/ c \notin ToSet(st.index["candidate"]) /\ c \notin ToSet(st.index["confirmed"])
          \/ c \in dis
    /\ st.blk[c].confirmation = "candidate" => c \in ToSet(st.index["candidate"])
    /\ st.blk[c].confirmation = "confirmed" => c \in ToSet(st.index["confirmed"])
    /\ c \in ToSet(st.index["confirmed"]) => st.blk[c].validation = "valid" /\ st.blk[c].associated

Matching(st, dis, S) == \A c \in DOMAIN st.blk \ S : Matches(st, dis, c)

(* The blocks of an index, by their places.                                *)
LEMMA Members == ASSUME NEW s \in Seq(Blocks)
                 PROVE  \A c : c \in ToSet(s) <=> \E i \in 1..Len(s) : s[i] = c
BY LenProperties DEF ToSet

(* What a push adds to the blocks of an index.                             *)
LEMMA MembersAppend == ASSUME NEW s \in Seq(Blocks), NEW b \in Blocks
                       PROVE  ToSet(Append(s, b)) = ToSet(s) \cup {b}
<1> PICK t \in Seq(Blocks) : t = Append(s, b)
    BY AppendProperties
<1>1. Len(t) = Len(s) + 1 /\ t[Len(s) + 1] = b /\ Len(s) \in Nat /\ \A i \in 1..Len(s) : t[i] = s[i]
    BY AppendProperties
<1>2. ASSUME NEW c \in ToSet(t) PROVE c \in ToSet(s) \cup {b}
    <2> PICK i \in 1..Len(t) : t[i] = c
        BY Members
    <2>1. CASE i = Len(s) + 1
        BY <2>1, <1>1
    <2>2. CASE i \in 1..Len(s)
        BY <2>2, <1>1, Members
    <2> QED BY <1>1, <2>1, <2>2
<1>3. ASSUME NEW c \in ToSet(s) PROVE c \in ToSet(t)
    <2> PICK i \in 1..Len(s) : s[i] = c
        BY Members
    <2>1. i \in 1..Len(t) /\ t[i] = c
        BY <1>1
    <2> QED BY <2>1, Members
<1>4. b \in ToSet(t)
    <2>1. Len(s) + 1 \in 1..Len(t)
        BY <1>1
    <2> QED BY <1>1, <2>1, Members
<1> QED BY <1>2, <1>3, <1>4

(* What a pop takes from the blocks of a chain.                            *)
LEMMA MembersFront == ASSUME NEW s \in Seq(Blocks), Linked(s), s # <<>>
                      PROVE  ToSet(Front(s)) = ToSet(s) \ {Last(s)} /\ Last(s) \in ToSet(s)
<1> PICK t \in Seq(Blocks) : t = Front(s)
    BY LinkedFront
<1>1. Len(t) = Len(s) - 1 /\ \A i \in 1..(Len(s) - 1) : t[i] = s[i]
    BY LinkedFront
<1>2. Len(s) \in Nat \ {0}
    BY EmptySeq
<1>3. ASSUME NEW c \in ToSet(t) PROVE c \in ToSet(s) \ {Last(s)}
    <2> PICK i \in 1..Len(t) : t[i] = c
        BY Members
    <2>1. i \in 1..Len(s) /\ s[i] = c /\ i # Len(s)
        BY <1>1, <1>2
    <2>2. Len(s) \in 1..Len(s)
        BY <1>2
    <2>3. s[Len(s)] # c
        BY <2>1, <2>2, LinkedDistinct
    <2> QED BY <2>1, <2>3, Members DEF Last
<1>4. ASSUME NEW c \in ToSet(s), c # Last(s) PROVE c \in ToSet(t)
    <2> PICK i \in 1..Len(s) : s[i] = c
        BY Members
    <2>1. i # Len(s)
        BY <1>4 DEF Last
    <2>2. i \in 1..Len(t) /\ t[i] = c
        BY <2>1, <1>1, <1>2
    <2> QED BY <2>2, Members
<1>5. Last(s) \in ToSet(s)
    BY <1>2, Members DEF Last
<1> QED BY <1>3, <1>4, <1>5

(* push_link of the next block of a chain keeps the store good.            *)
LEMMA PushGood ==
    ASSUME NEW st, Good(st), NEW b \in DOMAIN st.blk, NEW name \in Indexes,
           Len(Chain[b]) = Len(st.index[name]) + 1,
           \A i \in 1..Len(st.index[name]) : st.index[name][i] = Chain[b][i],
           name = "confirmed" => st.index["candidate"] # <<>>,
           NEW new, new = Promote(st, b, Len(st.index[name]), name)
    PROVE  Good(new)
<1>1. IsStore(st) /\ b \in Blocks /\ st.index \in [Indexes -> Seq(Blocks)] /\ st.index[name] \in Seq(Blocks)
    BY DEF Good, IsStore
<1>2. /\ IsStore(new)
      /\ new.index = [st.index EXCEPT ![name] = Append(st.index[name], b)]
      /\ DOMAIN new.blk = DOMAIN st.blk
      /\ \A c \in DOMAIN st.blk : c # b => new.blk[c] = st.blk[c]
      /\ new.blk[b] = [st.blk[b] EXCEPT !.confirmation = name]
    <2>1. Promoted(st, b, name, new)
        BY <1>1, PromoteDoes
    <2> QED BY <2>1 DEF Promoted, Rest
<1>3. Linked(Append(st.index[name], b)) /\ Append(st.index[name], b) # <<>>
    BY <1>1, LinkedAppend, AppendProperties
<1>4. ToSet(Append(st.index[name], b)) = ToSet(st.index[name]) \cup {b}
    BY <1>1, MembersAppend
<1>5. /\ new.index[name] = Append(st.index[name], b)
      /\ \A other \in Indexes : other # name => new.index[other] = st.index[other]
    BY <1>1, <1>2
<1>6. ASSUME NEW other \in Indexes
      PROVE  Linked(new.index[other]) /\ ToSet(new.index[other]) \subseteq DOMAIN new.blk
    BY <1>2, <1>3, <1>4, <1>5 DEF Good
<1>7. ASSUME NEW c \in DOMAIN new.blk, new.blk[c].validation = "valid"
      PROVE  new.blk[c].associated
    <2>1. st.blk[c] \in BlockStates
        BY <1>1, <1>2 DEF IsStore
    <2>2. new.blk[c].validation = st.blk[c].validation /\ new.blk[c].associated = st.blk[c].associated
        BY <1>2, <2>1 DEF BlockStates
    <2> QED BY <1>2, <1>7, <2>2 DEF Good
<1>8. new.index["confirmed"] # <<>> => new.index["candidate"] # <<>>
    BY <1>3, <1>5 DEF Good, Indexes
<1> QED BY <1>2, <1>6, <1>7, <1>8 DEF Good

(* The assertions of promote hold.                                         *)
LEMMA PushAsserts ==
    ASSUME NEW st, Good(st), NEW b \in DOMAIN st.blk, NEW name \in Indexes,
           name = "confirmed" => st.blk[b].validation = "valid",
           name = "candidate" => st.blk[b].validation # "failed",
           NEW new, new = Promote(st, b, Len(st.index[name]), name)
    PROVE  new.assert = st.assert
<1>1. IsStore(st) /\ b \in Blocks
    BY DEF Good, IsStore
<1>2. new.assert = (st.assert /\ Promotable(st.blk[b], name))
    <2>1. Promoted(st, b, name, new)
        BY <1>1, PromoteDoes
    <2> QED BY <2>1 DEF Promoted
<1> QED BY <1>1, <1>2 DEF Promotable, IsStore

(* promote makes the state of the block agree.                             *)
LEMMA PushMatching ==
    ASSUME NEW st, Good(st), NEW b \in DOMAIN st.blk, NEW name \in Indexes,
           NEW dis, Matching(st, dis, {b}),
           name = "confirmed" => st.blk[b].validation = "valid",
           b \in ToSet(st.index["confirmed"]) => st.blk[b].validation = "valid",
           NEW new, new = Promote(st, b, Len(st.index[name]), name)
    PROVE  Matching(new, dis \ {b}, {})
<1>1. IsStore(st) /\ b \in Blocks /\ st.index \in [Indexes -> Seq(Blocks)] /\ st.index[name] \in Seq(Blocks)
    BY DEF Good, IsStore
<1>2. /\ new.index = [st.index EXCEPT ![name] = Append(st.index[name], b)]
      /\ DOMAIN new.blk = DOMAIN st.blk
      /\ \A c \in DOMAIN st.blk : c # b => new.blk[c] = st.blk[c]
      /\ new.blk[b] = [st.blk[b] EXCEPT !.confirmation = name]
    <2>1. Promoted(st, b, name, new)
        BY <1>1, PromoteDoes
    <2> QED BY <2>1 DEF Promoted, Rest
<1>3. ToSet(Append(st.index[name], b)) = ToSet(st.index[name]) \cup {b}
    BY <1>1, MembersAppend
<1>4. /\ ToSet(new.index[name]) = ToSet(st.index[name]) \cup {b}
      /\ \A other \in Indexes : other # name => ToSet(new.index[other]) = ToSet(st.index[other])
    BY <1>1, <1>2, <1>3
<1>5. /\ st.blk[b] \in BlockStates
      /\ new.blk[b].confirmation = name /\ new.blk[b].validation = st.blk[b].validation
      /\ new.blk[b].associated = st.blk[b].associated
    BY <1>1, <1>2 DEF IsStore, BlockStates
<1>6. st.blk[b].validation = "valid" => st.blk[b].associated
    BY DEF Good
<1>7. ASSUME NEW c \in DOMAIN new.blk PROVE Matches(new, dis \ {b}, c)
    <2>1. /\ c \in ToSet(new.index["confirmed"]) <=>
                c \in ToSet(st.index["confirmed"]) \/ (name = "confirmed" /\ c = b)
          /\ c \in ToSet(new.index["candidate"]) <=>
                c \in ToSet(st.index["candidate"]) \/ (name = "candidate" /\ c = b)
        BY <1>4 DEF Indexes
    <2>2. CASE c = b
        BY <2>1, <2>2, <1>5, <1>6 DEF Indexes, Matches
    <2>3. CASE c # b
        <3>1. new.blk[c] = st.blk[c] /\ Matches(st, dis, c)
            BY <1>2, <2>3 DEF Matching
        <3> QED BY <2>1, <2>3, <3>1 DEF Matches
    <2> QED BY <2>2, <2>3
<1> QED BY <1>7 DEF Matching

(* pop_link keeps the store good.                                          *)
LEMMA PopGood ==
    ASSUME NEW st, Good(st), NEW name \in Indexes, st.index[name] # <<>>,
           name = "candidate" => Len(st.index["candidate"]) > 1,
           NEW new, new = Demote(st, Last(st.index[name]), Top(st.index[name]), name)
    PROVE  Good(new)
<1>0. /\ IsStore(st) /\ st.index \in [Indexes -> Seq(Blocks)] /\ st.index[name] \in Seq(Blocks)
      /\ Linked(st.index[name]) /\ ToSet(st.index[name]) \subseteq DOMAIN st.blk
    BY DEF Good, IsStore
<1> PICK s \in Seq(Blocks) : s = st.index[name]
    BY <1>0
<1>1. Last(s) \in ToSet(s) /\ ToSet(Front(s)) = ToSet(s) \ {Last(s)} /\ Linked(Front(s))
    BY <1>0, MembersFront, LinkedFront
<1> PICK b \in DOMAIN st.blk : b = Last(s)
    BY <1>0, <1>1
<1>2. /\ IsStore(new)
      /\ new.index = [st.index EXCEPT ![name] = Front(s)]
      /\ DOMAIN new.blk = DOMAIN st.blk
      /\ \A c \in DOMAIN st.blk : c # b => new.blk[c] = st.blk[c]
      /\ new.blk[b] = [st.blk[b] EXCEPT !.confirmation = "missing"]
    <2>1. Demoted(st, b, name, new)
        BY <1>0, DemoteDoes
    <2> QED BY <2>1 DEF Demoted, Rest
<1>3. /\ new.index[name] = Front(s)
      /\ \A other \in Indexes : other # name => new.index[other] = st.index[other]
    BY <1>0, <1>2
<1>4. ASSUME NEW other \in Indexes
      PROVE  Linked(new.index[other]) /\ ToSet(new.index[other]) \subseteq DOMAIN new.blk
    BY <1>0, <1>1, <1>2, <1>3 DEF Good
<1>5. ASSUME NEW c \in DOMAIN new.blk, new.blk[c].validation = "valid"
      PROVE  new.blk[c].associated
    <2>1. st.blk[c] \in BlockStates
        BY <1>0, <1>2 DEF IsStore
    <2>2. new.blk[c].validation = st.blk[c].validation /\ new.blk[c].associated = st.blk[c].associated
        BY <1>2, <2>1 DEF BlockStates
    <2> QED BY <1>2, <1>5, <2>2 DEF Good
<1>6. name = "candidate" => Front(s) # <<>>
    <2>1. name = "candidate" => Len(Front(s)) > 0
        BY <1>0, LinkedFront
    <2> QED BY <2>1
<1>7. new.index["confirmed"] # <<>> => new.index["candidate"] # <<>>
    <2>1. CASE name = "candidate"
        BY <1>3, <1>6, <2>1
    <2>2. CASE name = "confirmed"
        BY <1>0, <1>3, <2>2 DEF Good, Indexes
    <2> QED BY <2>1, <2>2 DEF Indexes
<1> QED BY <1>2, <1>4, <1>5, <1>7 DEF Good

(* Where a demotion by an index leaves what is displaced.                  *)
Demoting(dis, b, other) == IF b \in ToSet(other) THEN dis \cup {b} ELSE dis \ {b}

OtherIndex(name) == IF name = "candidate" THEN "confirmed" ELSE "candidate"

(* demote makes the state of the block missing, whatever the other index   *)
(* holds; its assertion is that the state named the index.                 *)
LEMMA PopMatching ==
    ASSUME NEW st, Good(st), NEW dis, Matching(st, dis, {}), NEW name \in Indexes, st.index[name] # <<>>,
           NEW new, new = Demote(st, Last(st.index[name]), Top(st.index[name]), name)
    PROVE  /\ Matching(new, Demoting(dis, Last(st.index[name]), st.index[OtherIndex(name)]), {})
           /\ new.assert = (st.assert /\ st.blk[Last(st.index[name])].confirmation = name)
<1>0. /\ IsStore(st) /\ st.index \in [Indexes -> Seq(Blocks)] /\ st.index[name] \in Seq(Blocks)
      /\ Linked(st.index[name]) /\ ToSet(st.index[name]) \subseteq DOMAIN st.blk
    BY DEF Good, IsStore
<1> PICK s \in Seq(Blocks) : s = st.index[name]
    BY <1>0
<1>1. Last(s) \in ToSet(s) /\ ToSet(Front(s)) = ToSet(s) \ {Last(s)}
    BY <1>0, MembersFront
<1> PICK b \in DOMAIN st.blk : b = Last(s)
    BY <1>0, <1>1
<1>2. /\ new.index = [st.index EXCEPT ![name] = Front(s)]
      /\ new.assert = (st.assert /\ st.blk[b].confirmation = name)
      /\ DOMAIN new.blk = DOMAIN st.blk
      /\ \A c \in DOMAIN st.blk : c # b => new.blk[c] = st.blk[c]
      /\ new.blk[b] = [st.blk[b] EXCEPT !.confirmation = "missing"]
    <2>1. Demoted(st, b, name, new)
        BY <1>0, DemoteDoes
    <2> QED BY <2>1 DEF Demoted, Rest
<1>3. /\ ToSet(new.index[name]) = ToSet(s) \ {b}
      /\ ToSet(new.index[OtherIndex(name)]) = ToSet(st.index[OtherIndex(name)])
    BY <1>0, <1>1, <1>2 DEF OtherIndex, Indexes
<1>4. /\ st.blk[b] \in BlockStates /\ new.blk[b].confirmation = "missing"
      /\ new.blk[b].validation = st.blk[b].validation
      /\ new.blk[b].associated = st.blk[b].associated
    BY <1>0, <1>2 DEF IsStore, BlockStates
<1> PICK now : now = Demoting(dis, b, st.index[OtherIndex(name)])
    OBVIOUS
<1>5. now = IF b \in ToSet(st.index[OtherIndex(name)]) THEN dis \cup {b} ELSE dis \ {b}
    BY DEF Demoting
<1>6. ASSUME NEW c \in DOMAIN new.blk PROVE Matches(new, now, c)
    <2>1. /\ c # b => (c \in now <=> c \in dis)
          /\ b \in now <=> b \in ToSet(st.index[OtherIndex(name)])
        BY <1>5
    <2>2. /\ c # b => /\ c \in ToSet(new.index["confirmed"]) <=> c \in ToSet(st.index["confirmed"])
                      /\ c \in ToSet(new.index["candidate"]) <=> c \in ToSet(st.index["candidate"])
          /\ c \in ToSet(new.index["confirmed"]) => c \in ToSet(st.index["confirmed"])
          /\ b \notin ToSet(new.index[name])
        BY <1>3 DEF OtherIndex, Indexes
    <2>3. Matches(st, dis, c)
        BY <1>2 DEF Matching
    <2>4. CASE c = b
        <3>1. (b \notin ToSet(new.index["candidate"]) /\ b \notin ToSet(new.index["confirmed"])) <=>
                  b \notin ToSet(st.index[OtherIndex(name)])
            BY <1>3, <2>2 DEF OtherIndex, Indexes
        <3>2. c \in ToSet(new.index["confirmed"]) =>
                  new.blk[c].validation = "valid" /\ new.blk[c].associated
            BY <1>4, <2>2, <2>3, <2>4 DEF Matches
        <3> QED BY <1>4, <2>1, <2>4, <3>1, <3>2 DEF Matches
    <2>5. CASE c # b
        <3>1. new.blk[c] = st.blk[c]
            BY <1>2, <2>5
        <3> QED BY <2>1, <2>2, <2>3, <2>5, <3>1 DEF Matches
    <2> QED BY <2>4, <2>5
<1>7. Matching(new, now, {})
    BY <1>6 DEF Matching
<1> QED BY <1>2, <1>7

(* A new header: its state agrees once it is in the candidate index.       *)
LEMMA HeaderGood ==
    ASSUME NEW st, Good(st), NEW b \in Blocks, b \notin DOMAIN st.blk,
           NEW new, new = StoreHeader(st, b)
    PROVE  /\ Good(new) /\ b \in DOMAIN new.blk /\ new.blk[b] = NewHeader
           /\ new.index = st.index /\ new.assert = st.assert
           /\ Rest(st, new, b)
<1>1. IsStore(st)
    BY DEF Good
<1>2. HeaderStored(st, b, new)
    BY <1>1, StoreHeaderDoes
<1>3. /\ IsStore(new) /\ new.index = st.index /\ new.assert = st.assert /\ Rest(st, new, b)
      /\ new.blk[b] = NewHeader
      /\ DOMAIN new.blk = DOMAIN st.blk \cup {b}
      /\ \A c \in DOMAIN st.blk : c # b => new.blk[c] = st.blk[c]
    BY <1>2 DEF HeaderStored, Rest
<1>4. Good(new)
    <2>1. ASSUME NEW c \in DOMAIN new.blk, new.blk[c].validation = "valid" PROVE new.blk[c].associated
        BY <1>3, <2>1 DEF Good, NewHeader
    <2> QED BY <1>3, <2>1 DEF Good
<1> QED BY <1>3, <1>4

(* The states of the other blocks agree as before.                         *)
LEMMA HeaderMatching ==
    ASSUME NEW st, NEW b, NEW new, new.index = st.index, Rest(st, new, b),
           NEW dis, Matching(st, dis, {})
    PROVE  Matching(new, dis, {b})
BY DEF Matching, Matches, Rest

(* update_transactions: nothing that is checked of a block is lost.        *)
LEMMA AssociateGood ==
    ASSUME NEW st, Good(st), NEW b \in DOMAIN st.blk, NEW new, new = UpdateTransactions(st, b),
           NEW dis
    PROVE  /\ Good(new) /\ DOMAIN new.blk = DOMAIN st.blk
           /\ new.index = st.index /\ new.assert = st.assert
           /\ \A c \in DOMAIN st.blk : new.blk[c].validation = st.blk[c].validation
           /\ new.blk[b].associated
           /\ Matching(st, dis, {}) => Matching(new, dis, {})
           /\ Settled(st) => Settled(new)
<1>1. IsStore(st) /\ st.blk \in [DOMAIN st.blk -> BlockStates]
    BY DEF Good, IsStore
<1>2. Associated(st, b, new)
    BY <1>1, UpdateTransactionsDoes
<1>3. /\ IsStore(new) /\ new.index = st.index /\ new.assert = st.assert
      /\ new.blk[b] = [st.blk[b] EXCEPT !.associated = TRUE]
      /\ DOMAIN new.blk = DOMAIN st.blk
      /\ \A c \in DOMAIN st.blk : c # b => new.blk[c] = st.blk[c]
    BY <1>2 DEF Associated, Rest
<1>4. ASSUME NEW c \in DOMAIN st.blk
      PROVE  /\ new.blk[c].validation = st.blk[c].validation
             /\ new.blk[c].confirmation = st.blk[c].confirmation
             /\ c = b \/ st.blk[c].associated => new.blk[c].associated
    <2>1. st.blk[c] \in BlockStates
        BY <1>1
    <2> QED BY <1>3, <2>1 DEF BlockStates
<1>5. Good(new)
    BY <1>3, <1>4 DEF Good
<1>6. (Matching(st, dis, {}) => Matching(new, dis, {})) /\ (Settled(st) => Settled(new))
    <2>1. Matching(st, dis, {}) => Matching(new, dis, {})
        BY <1>3, <1>4 DEF Matching, Matches
    <2>2. Settled(st) => Settled(new)
        BY <1>3, <1>4 DEF Settled, Good, Indexes
    <2> QED BY <2>1, <2>2
<1> QED BY <1>3, <1>4, <1>5, <1>6

(* validate of a block that is associated and not validated.               *)
LEMMA ValidateGood ==
    ASSUME NEW st, Good(st), NEW b \in DOMAIN st.blk, NEW verdict \in {"valid", "failed"},
           st.blk[b].validation = "none", st.blk[b].associated,
           NEW new, Validated(st, b, verdict, new), NEW dis
    PROVE  /\ Good(new) /\ DOMAIN new.blk = DOMAIN st.blk
           /\ new.index = st.index /\ new.assert = st.assert
           /\ new.blk[b].validation = verdict
           /\ Matching(st, dis, {}) => Matching(new, dis, {})
           /\ Settled(st) => Settled(new)
<1>1. IsStore(st) /\ st.blk \in [DOMAIN st.blk -> BlockStates] /\ st.assert \in BOOLEAN
    BY DEF Good, IsStore
<1>2. /\ IsStore(new) /\ new.index = st.index /\ new.assert = (st.assert /\ MayValidate(st.blk[b]))
      /\ new.blk[b] = [st.blk[b] EXCEPT !.validation = verdict]
      /\ DOMAIN new.blk = DOMAIN st.blk
      /\ \A c \in DOMAIN st.blk : c # b => new.blk[c] = st.blk[c]
    BY DEF Validated, Rest
<1>3. new.assert = st.assert
    BY <1>1, <1>2 DEF MayValidate
<1>4. ASSUME NEW c \in DOMAIN st.blk
      PROVE  /\ new.blk[c].confirmation = st.blk[c].confirmation
             /\ new.blk[c].associated = st.blk[c].associated
             /\ new.blk[c].validation = IF c = b THEN verdict ELSE st.blk[c].validation
    <2>1. st.blk[c] \in BlockStates
        BY <1>1
    <2> QED BY <1>2, <2>1 DEF BlockStates
<1>5. Good(new)
    BY <1>2, <1>4 DEF Good
<1>6. (Matching(st, dis, {}) => Matching(new, dis, {})) /\ (Settled(st) => Settled(new))
    <2>1. Matching(st, dis, {}) => Matching(new, dis, {})
        BY <1>2, <1>4 DEF Matching, Matches
    <2>2. Settled(st) => Settled(new)
        BY <1>2, <1>4 DEF Settled, Good, Indexes
    <2> QED BY <2>1, <2>2
<1> QED BY <1>2, <1>3, <1>4, <1>5, <1>6

(* A store with other results of its methods.                              *)
LEMMA StoreCleared ==
    ASSUME NEW st, IsStore(st), NEW yes \in BOOLEAN
    PROVE  [st EXCEPT !.ok = yes, !.assert = yes] =
              [blk |-> st.blk, index |-> st.index, ok |-> yes, assert |-> yes]
<1> DEFINE mid == [st EXCEPT !.ok = yes]
<1>1. mid = [blk |-> st.blk, index |-> st.index, ok |-> yes, assert |-> st.assert]
    BY DEF IsStore
<1>2. [st EXCEPT !.ok = yes, !.assert = yes] = [mid EXCEPT !.assert = yes]
    OBVIOUS
<1> HIDE DEF mid
<1>3. mid.blk = st.blk /\ mid.index = st.index /\ mid.ok = yes
    BY <1>1
<1> QED BY <1>1, <1>2, <1>3

(* The end of a critical section.                                          *)
LEMMA WriteDoes ==
    ASSUME NEW new, IsStore(new), NEW newTable, Write(new, newTable)
    PROVE  /\ IsStore(store') /\ store'.blk = new.blk /\ store'.index = new.index
           /\ store'.ok /\ store'.assert
           /\ aborted' = (debug /\ ~new.assert) /\ debug' = debug
<1>1. aborted' = (debug /\ ~new.assert) /\ debug' = debug
    BY DEF Write
<1> PICK yes \in BOOLEAN : yes = TRUE
    OBVIOUS
<1>2. store' = [new EXCEPT !.ok = yes, !.assert = yes]
    BY Zenon DEF Write
<1>3. store' = [blk |-> new.blk, index |-> new.index, ok |-> yes, assert |-> yes]
    BY <1>2, StoreCleared, Zenon
<1>4. store'.blk = new.blk /\ store'.index = new.index /\ store'.ok = yes /\ store'.assert = yes
    BY <1>3
<1>5. IsStore(store')
    BY <1>3, <1>4 DEF IsStore
<1>6. store'.ok /\ store'.assert
    BY <1>4
<1> QED BY <1>1, <1>4, <1>5, <1>6

(* The invariant in the terms of the lemmas: all but what is about a       *)
(* reorganization in progress.                                             *)
Sound ==
    /\ debug \in BOOLEAN /\ call \in CallType
    /\ Good(store) /\ store.ok /\ store.assert
    /\ Matching(store, displaced, {})
    /\ aborted \in BOOLEAN /\ displaced \subseteq DOMAIN store.blk
    /\ debug /\ ~aborted => Settled(store)

(* What StateMatchesIndex says, in a debug build that goes on and else.    *)
LEMMA StateIs ==
    ASSUME IsStore(store)
    PROVE  StateMatchesIndex <=>
              /\ Matching(store, displaced, {})
              /\ debug /\ ~aborted =>
                    \A c \in DOMAIN blk : c \in ToSet(conf) => blk[c].confirmation = "confirmed"
<1> DEFINE held(c) == {i \in Indexes : c \in ToSet(store.index[i])}
           States(c) ==
              /\ blk[c].confirmation = "missing" <=> held(c) = {} \/ c \in displaced
              /\ blk[c].confirmation # "missing" => blk[c].confirmation \in held(c)
              /\ "confirmed" \in held(c) => blk[c].validation = "valid" /\ blk[c].associated
           Says(c) == "confirmed" \in held(c) /\ debug /\ ~aborted => blk[c].confirmation = "confirmed"
<1>1. StateMatchesIndex <=> \A c \in DOMAIN blk : States(c) /\ Says(c)
    BY DEF StateMatchesIndex
<1>2. ASSUME NEW c \in DOMAIN blk
      PROVE  /\ States(c) <=> Matches(store, displaced, c)
             /\ "confirmed" \in held(c) <=> c \in ToSet(conf)
    <2>1. /\ "candidate" \in held(c) <=> c \in ToSet(store.index["candidate"])
          /\ "confirmed" \in held(c) <=> c \in ToSet(store.index["confirmed"])
          /\ held(c) \subseteq {"candidate", "confirmed"}
        BY DEF Indexes
    <2> HIDE DEF held
    <2>2. blk[c].confirmation \in {"missing", "candidate", "confirmed"} /\ blk = store.blk
        BY DEF blk, IsStore, BlockStates
    <2>3. held(c) = {} <=> "candidate" \notin held(c) /\ "confirmed" \notin held(c)
        BY <2>1
    <2> QED BY <2>1, <2>2, <2>3 DEF Matches, conf
<1> HIDE DEF held, States
<1>3. (\A c \in DOMAIN blk : States(c)) <=> Matching(store, displaced, {})
    BY <1>2 DEF Matching, blk
<1> QED BY <1>1, <1>2, <1>3

(* It is the first part of Inv.                                            *)
LEMMA SoundIs == Sound <=> TypeInv /\ ChainsLinked /\ StoredInv /\ StateMatchesIndex /\ SettledInv
<1>1. (\A name \in Indexes : Linked(store.index[name])) <=> ChainsLinked
    BY DEF ChainsLinked, Linked, Indexes, cand, conf
<1>2. (\A name \in Indexes : ToSet(store.index[name]) \subseteq DOMAIN store.blk) <=>
         ToSet(cand) \cup ToSet(conf) \subseteq DOMAIN blk
    BY DEF Indexes, cand, conf, blk
<1>3. ASSUME IsStore(store), debug /\ ~aborted => Settled(store)
      PROVE  StateMatchesIndex <=> Matching(store, displaced, {})
    BY <1>3, StateIs DEF Settled, blk, conf
<1> QED BY <1>1, <1>2, <1>3 DEF Sound, Good, TypeInv, StoredInv, SettledInv, cand, conf, blk

(* A critical section that leaves a good store.                            *)
LEMMA WriteSound ==
    ASSUME Sound, NEW new, Good(new), Matching(new, displaced', {}), displaced' \subseteq DOMAIN new.blk,
           debug /\ new.assert => Settled(new),
           NEW newTable, Write(new, newTable), call' \in CallType
    PROVE  /\ Sound' /\ store'.blk = new.blk /\ store'.index = new.index /\ debug' = debug
           /\ ~aborted /\ (debug => new.assert) => aborted' = aborted
<1>1. /\ IsStore(store') /\ store'.blk = new.blk /\ store'.index = new.index
      /\ store'.ok /\ store'.assert
      /\ aborted' = (debug /\ ~new.assert) /\ debug' = debug
    BY WriteDoes DEF Good
<1>2. Good(store')
    BY <1>1 DEF Good
<1>3. aborted' \in BOOLEAN /\ (~aborted' => (debug => new.assert))
    BY <1>1 DEF Sound
<1>4. Matching(store', displaced', {})
    BY <1>1 DEF Matching, Matches
<1>5. debug /\ ~aborted' => Settled(store')
    BY <1>1, <1>3 DEF Settled
<1>6. Good(store)' /\ Matching(store, displaced, {})' /\ (debug /\ ~aborted => Settled(store))'
    BY <1>1, <1>2, <1>4, <1>5
<1>7. ~aborted /\ (debug => new.assert) => aborted' = aborted
    BY <1>1 DEF Sound
<1> QED BY <1>1, <1>3, <1>6, <1>7 DEF Sound

(* The same, of one that leaves what is displaced and fails no assertion.  *)
LEMMA WriteKeeps ==
    ASSUME Sound, ~aborted, displaced' = displaced,
           NEW new, Good(new), DOMAIN store.blk \subseteq DOMAIN new.blk,
           Matching(new, displaced, {}), new.assert, debug => Settled(new),
           NEW newTable, Write(new, newTable), call' \in CallType
    PROVE  /\ Sound' /\ store'.blk = new.blk /\ store'.index = new.index /\ debug' = debug
           /\ aborted' = aborted
<1>1. Matching(new, displaced', {}) /\ displaced' \subseteq DOMAIN new.blk
    BY DEF Sound
<1> QED BY <1>1, WriteSound

-----------------------------------------------------------------------------
(* What a push and a pop leave, in the terms of the invariant.             *)

(* All but one index, and the validation of every block, are as before.    *)
Keeps(st, new, name) ==
    /\ \A other \in Indexes : other # name => new.index[other] = st.index[other]
    /\ DOMAIN new.blk = DOMAIN st.blk
    /\ \A c \in DOMAIN st.blk : new.blk[c].validation = st.blk[c].validation

(* promote at the height of the index.                                     *)
LEMMA PushKeeps ==
    ASSUME NEW st, IsStore(st), NEW b \in DOMAIN st.blk, NEW name \in Indexes,
           NEW new, new = Promote(st, b, Len(st.index[name]), name)
    PROVE  Keeps(st, new, name) /\ new.index[name] = Append(st.index[name], b)
<1>1. /\ new.index = [st.index EXCEPT ![name] = Append(st.index[name], b)]
      /\ DOMAIN new.blk = DOMAIN st.blk
      /\ \A c \in DOMAIN st.blk : c # b => new.blk[c] = st.blk[c]
      /\ new.blk[b] = [st.blk[b] EXCEPT !.confirmation = name]
    <2>1. Promoted(st, b, name, new)
        BY PromoteDoes
    <2> QED BY <2>1 DEF Promoted, Rest
<1>2. st.blk[b] \in BlockStates /\ st.index \in [Indexes -> Seq(Blocks)]
    BY DEF IsStore
<1>3. new.blk[b].validation = st.blk[b].validation
    BY <1>1, <1>2 DEF BlockStates
<1> QED BY <1>1, <1>2, <1>3 DEF Keeps

(* demote at the top of the index.                                         *)
LEMMA PopKeeps ==
    ASSUME NEW st, IsStore(st), NEW name \in Indexes, st.index[name] # <<>>,
           NEW b \in DOMAIN st.blk, NEW new, new = Demote(st, b, Top(st.index[name]), name)
    PROVE  Keeps(st, new, name) /\ new.index[name] = Front(st.index[name])
<1>1. /\ new.index = [st.index EXCEPT ![name] = Front(st.index[name])]
      /\ DOMAIN new.blk = DOMAIN st.blk
      /\ \A c \in DOMAIN st.blk : c # b => new.blk[c] = st.blk[c]
      /\ new.blk[b] = [st.blk[b] EXCEPT !.confirmation = "missing"]
    <2>1. Demoted(st, b, name, new)
        BY DemoteDoes
    <2> QED BY <2>1 DEF Demoted, Rest
<1>2. st.blk[b] \in BlockStates /\ st.index \in [Indexes -> Seq(Blocks)]
    BY DEF IsStore
<1>3. new.blk[b].validation = st.blk[b].validation
    BY <1>1, <1>2 DEF BlockStates
<1> QED BY <1>1, <1>2, <1>3 DEF Keeps

-----------------------------------------------------------------------------
(* The loops of reorganize().                                              *)

(* No reorganization is left.                                              *)
LEMMA NoCallType == /\ NoCall \in CallType /\ FailedCall \in CallType
                    /\ NoCall.name \notin Indexes /\ FailedCall.name \notin Indexes
                    /\ NoCall # FailedCall
<1>1. <<>> \in Seq(Blocks)
    OBVIOUS
<1>2. NoCall \in CallType /\ NoCall.name = "none"
    BY <1>1 DEF NoCall, CallType
<1>3. FailedCall \in CallType /\ FailedCall.name = "failed"
    BY <1>2 DEF FailedCall, CallType
<1> QED BY <1>2, <1>3 DEF Indexes

(* Same call, but maybe done with popping.                                 *)
Same(c, d) ==
    /\ d.name = c.name /\ d.fork = c.fork /\ d.height = c.height
    /\ d.incoming = c.incoming /\ d.target = c.target

Continued(c, top, d) ==
    \/ d = NoCall /\ ~(c.popping /\ top > c.fork) /\ c.incoming = <<>>
    \/ /\ d \in CallType /\ Same(c, d)
       /\ d.popping = (c.popping /\ top > c.fork)
       /\ d.popping \/ d.incoming # <<>>

(* The end of pop_above, of push_all, or another round.                    *)
LEMMA ContinueDoes ==
    ASSUME NEW c \in CallType, NEW top \in Int, NEW d, d = Continue(c, top)
    PROVE  Continued(c, top, d)
<1> PICK more \in BOOLEAN : more = (c.popping /\ top > c.fork)
    OBVIOUS
<1> DEFINE next == [c EXCEPT !.popping = more]
<1>1. d = IF next.popping \/ next.incoming # <<>> THEN next ELSE NoCall
    BY DEF Continue
<1>2. next \in CallType /\ next.popping = more /\ Same(c, next)
    BY DEF CallType, Same
<1> HIDE DEF next
<1>3. CASE next.popping \/ next.incoming # <<>>
    BY <1>1, <1>2, <1>3 DEF Continued
<1>4. CASE ~(next.popping \/ next.incoming # <<>>)
    BY <1>1, <1>2, <1>4 DEF Continued, Same
<1> QED BY <1>3, <1>4

(* What is left of a sequence is empty only if the index is all of it.     *)
LEMMA RestEmpty ==
    ASSUME NEW t \in Seq(Blocks), NEW n \in 1..Len(t)
    PROVE  SubSeq(t, n + 1, Len(t)) = <<>> <=> n = Len(t)
<1>1. Len(t) \in Nat
    OBVIOUS
<1>2. SubSeq(t, n + 1, Len(t)) \in Seq(Blocks) /\ Len(SubSeq(t, n + 1, Len(t))) = Len(t) - n
    BY <1>1, SubSeqProperties
<1> PICK r \in Seq(Blocks) : r = SubSeq(t, n + 1, Len(t))
    BY <1>2
<1>3. r = <<>> <=> Len(r) = 0
    BY EmptySeq
<1> QED BY <1>1, <1>2, <1>3

(* reorganize() ends with its target, or it is in the middle of it.        *)
LEMMA ContinueLocated ==
    ASSUME NEW st, IsStore(st), NEW c \in CallType, c.name \in Indexes, Located(st, c),
           NEW top \in Int, c.popping => top = Len(st.index[c.name]) - 1,
           NEW d, d = Continue(c, top)
    PROVE  /\ d \in CallType
           /\ InCall(st, d)
           /\ d = NoCall => st.index[c.name] = c.target
           /\ d # NoCall => Same(c, d)
           /\ d.popping => c.popping
<1> PICK s \in Seq(Blocks) : s = st.index[c.name]
    BY DEF IsStore
<1> PICK t \in Seq(Blocks) : t = c.target
    BY DEF CallType
<1> PICK n \in 1..Len(t) : n = c.height
    BY DEF Located
<1> PICK fork \in Int : fork = c.fork
    BY DEF CallType
<1>0. Len(s) \in Nat /\ Len(t) \in Nat
    OBVIOUS
<1>1. /\ n <= Len(s) /\ \A i \in 1..n : s[i] = t[i]
      /\ c.incoming = SubSeq(t, n + 1, Len(t))
      /\ c.popping => n = fork + 1 /\ top = Len(s) - 1
      /\ ~c.popping => n = Len(s)
    BY DEF Located
<1>2. c.incoming = <<>> <=> n = Len(t)
    BY <1>1, RestEmpty
<1>3. Continued(c, top, d)
    BY ContinueDoes
<1>4. CASE d = NoCall
    <2>1. ~(c.popping /\ top > fork) /\ c.incoming = <<>>
        BY <1>3, <1>4, NoCallType DEF Continued, Same
    <2>2. n = Len(s) /\ n = Len(t)
        <3>1. CASE c.popping
            <4>1. ~(top > fork) /\ n = fork + 1 /\ top = Len(s) - 1
                BY <1>1, <2>1, <3>1, Zenon
            <4>2. Len(s) <= n
                BY <1>0, <4>1
            <4> QED BY <1>0, <1>1, <1>2, <2>1, <4>2
        <3>2. CASE ~c.popping
            BY <1>1, <1>2, <2>1, <3>2
        <3> QED BY <3>1, <3>2
    <2>3. s = t
        BY <1>1, <2>2, SeqEqual
    <2>4. d.popping = FALSE
        BY <1>4 DEF NoCall
    <2> QED BY <1>4, <2>3, <2>4, NoCallType DEF InCall
<1>5. CASE d # NoCall
    <2>1. /\ d \in CallType /\ Same(c, d)
          /\ d.popping = (c.popping /\ top > fork)
          /\ d.popping \/ d.incoming # <<>>
        BY <1>3, <1>5 DEF Continued
    <2>2. /\ d.name = c.name /\ d.fork = fork /\ d.height = n
          /\ d.incoming = c.incoming /\ d.target = t
        BY <2>1 DEF Same
    <2>3. CASE d.popping
        <3>1. c.popping /\ top > fork /\ top = Len(s) - 1
            BY <2>1, <2>3
        <3>2. n < Len(s)
            BY <1>0, <1>1, <3>1
        <3>3. Located(st, d)
            BY <1>1, <2>2, <2>3, <3>1 DEF Located
        <3> QED BY <1>5, <2>1, <2>2, <2>3, <3>1, <3>2, <3>3 DEF InCall
    <2>4. CASE ~d.popping
        <3>1. n # Len(t)
            BY <1>2, <2>1, <2>2, <2>4
        <3>2. n = Len(s)
            <4>1. CASE c.popping
                <5>1. ~(top > fork) /\ n = fork + 1 /\ top = Len(s) - 1
                    BY <1>1, <2>1, <2>4, <4>1, Zenon
                <5>2. Len(s) <= n
                    BY <1>0, <5>1
                <5>3. n \in Nat /\ Len(s) \in Nat /\ n <= Len(s)
                    BY <1>0, <1>1
                <5> QED BY <5>2, <5>3
            <4>2. CASE ~c.popping
                BY <1>1, <4>2
            <4> QED BY <4>1, <4>2
        <3>3. Located(st, d)
            BY <1>1, <2>2, <2>4, <3>2 DEF Located
        <3>4. n < Len(t)
            BY <1>0, <3>1
        <3> QED BY <1>5, <2>1, <2>2, <2>4, <3>3, <3>4 DEF InCall
    <2> QED BY <2>3, <2>4
<1> QED BY <1>4, <1>5

-----------------------------------------------------------------------------
(* The steps.  What each of them leaves is stated as: the store is sound,  *)
(* and so is where reorganize() is.                                        *)

InProgress == CallInv /\ HeadersInv /\ BlocksInv

(* The invariant, in these terms.                                          *)
LEMMA InvIs == Inv <=> Sound /\ InProgress
BY SoundIs DEF Inv, InProgress

(* Between calls there is nothing to say of reorganize().                  *)
LEMMA NotInProgress == ASSUME call'.name \notin Indexes
                       PROVE  InProgress'
BY DEF InProgress, CallInv, HeadersInv, BlocksInv, InCall, InHeaders, InBlocks, Indexes

(* A call that must be alone leaves it so.                                 *)
LEMMA IdleCall == ASSUME Idle
                  PROVE  call.name \notin Indexes
BY NoCallType DEF Idle

(* A step of another thread that keeps the indexes and the validation of   *)
(* every block does not disturb reorganize().                              *)
LEMMA Undisturbed ==
    ASSUME Sound, InProgress, call' = call, debug' = debug,
           store'.index = store.index, DOMAIN store'.blk = DOMAIN store.blk,
           \A c \in DOMAIN store.blk : store'.blk[c].validation = store.blk[c].validation
    PROVE  InProgress'
<1>1. CallInv'
    BY DEF InProgress, CallInv, InCall, Located
<1>2. HeadersInv'
    BY DEF InProgress, HeadersInv, InHeaders
<1>3. BlocksInv'
    BY DEF InProgress, BlocksInv, InBlocks
<1> QED BY <1>1, <1>2, <1>3 DEF InProgress

(* A step that writes nothing of this.                                     *)
LEMMA StillSound == ASSUME Sound, call' \in CallType, UNCHANGED <<debug, store, aborted, displaced>>
                    PROVE  Sound'
BY DEF Sound, Good, Matching, Matches, Settled, IsStore

(* store(tx), which only writes the transaction table.                     *)
LEMMA StoreTxKeeps == ASSUME Sound, InProgress, NEW t, StoreTx(t)
                      PROVE  Sound' /\ InProgress' /\ call' = call /\ aborted' = aborted
<1> PICK new : new = StoreUnconfirmed(table, t, Forks)
    OBVIOUS
<1>1. Write(store, new) /\ call' = call /\ ~aborted /\ displaced' = displaced
    BY DEF StoreTx
<1>2. /\ Good(store) /\ Matching(store, displaced, {}) /\ store.assert
      /\ debug => Settled(store)
      /\ call' \in CallType
    BY <1>1 DEF Sound
<1>3. Sound' /\ store'.blk = store.blk /\ store'.index = store.index /\ debug' = debug /\ aborted' = aborted
    BY <1>1, <1>2, WriteKeeps
<1> QED BY <1>1, <1>3, Undisturbed

(* catalog(tx), which only writes the payment index.                       *)
LEMMA CatalogTxKeeps == ASSUME Sound, InProgress, NEW t, CatalogTx(t)
                        PROVE  Sound' /\ InProgress' /\ call' = call /\ aborted' = aborted
<1>1. UNCHANGED <<debug, store, call, aborted, displaced>>
    BY DEF CatalogTx
<1>2. Sound'
    BY <1>1, StillSound DEF Sound
<1> QED BY <1>1, <1>2, Undisturbed

(* update(block), which may run while a chain is reorganized.              *)
LEMMA UpdateKeeps == ASSUME Sound, InProgress, NEW b \in Blocks, Update(b)
                     PROVE  Sound' /\ InProgress' /\ call' = call /\ aborted' = aborted
<1> PICK new : new = UpdateTransactions(store, b)
    OBVIOUS
<1> PICK newTable : newTable = StoreAll(table, TxsOf[b])
    OBVIOUS
<1>1. Write(new, newTable) /\ call' = call /\ b \in DOMAIN store.blk /\ ~aborted /\ displaced' = displaced
    BY DEF Update, blk
<1>2. /\ Good(new) /\ DOMAIN new.blk = DOMAIN store.blk
      /\ new.index = store.index /\ new.assert = store.assert
      /\ \A c \in DOMAIN store.blk : new.blk[c].validation = store.blk[c].validation
      /\ Matching(store, displaced, {}) => Matching(new, displaced, {})
      /\ Settled(store) => Settled(new)
    <2>1. Good(store) /\ b \in DOMAIN store.blk
        BY <1>1 DEF Sound
    <2> QED BY <2>1, AssociateGood
<1>3. Matching(new, displaced, {}) /\ new.assert /\ (debug => Settled(new)) /\ call' \in CallType
    BY <1>1, <1>2 DEF Sound
<1>4. Sound' /\ store'.blk = new.blk /\ store'.index = new.index /\ debug' = debug /\ aborted' = aborted
    BY <1>1, <1>2, <1>3, WriteKeeps
<1> QED BY <1>1, <1>2, <1>4, Undisturbed

(* A store that is as good as the one that is there.                       *)
Kept(new) ==
    /\ Good(new) /\ Matching(new, displaced, {}) /\ new.assert
    /\ debug => Settled(new)
    /\ DOMAIN store.blk \subseteq DOMAIN new.blk

(* A step of a call that must be alone and that leaves a good store.       *)
LEMMA AloneKeeps ==
    ASSUME Sound, Idle, call' = call, displaced' = displaced,
           NEW new, Kept(new), NEW newTable, Write(new, newTable)
    PROVE  Sound' /\ InProgress' /\ aborted' = aborted
<1>1. call' \in CallType /\ ~aborted
    BY DEF Sound, Idle
<1>2. Sound' /\ aborted' = aborted
    BY <1>1, WriteKeeps DEF Kept
<1>3. call'.name \notin Indexes
    BY IdleCall
<1> QED BY <1>2, <1>3, NotInProgress

(* invalidate(header) and candidate(block) of an associated block that is  *)
(* not validated.                                                          *)
LEMMA ValidateKeeps ==
    ASSUME Sound, Idle, call' = call, displaced' = displaced, NEW b \in DOMAIN blk, NEW valid \in BOOLEAN,
           blk[b].associated, blk[b].validation = "none",
           NEW new, new = Validate(store, b, valid), NEW newTable, Write(new, newTable)
    PROVE  Sound' /\ InProgress' /\ aborted' = aborted
<1> PICK verdict \in {"valid", "failed"} : verdict = IF valid THEN "valid" ELSE "failed"
    OBVIOUS
<1>1. b \in DOMAIN store.blk /\ store.blk[b].associated /\ store.blk[b].validation = "none"
    BY DEF blk
<1>2. Validated(store, b, verdict, new)
    <2>1. IsStore(store)
        BY DEF Sound, Good
    <2> QED BY <1>1, <2>1, ValidateDoes
<1>3. /\ Good(new) /\ new.assert = store.assert /\ DOMAIN new.blk = DOMAIN store.blk
      /\ Matching(store, displaced, {}) => Matching(new, displaced, {})
      /\ Settled(store) => Settled(new)
    <2>1. Good(store)
        BY DEF Sound
    <2> QED BY <1>1, <1>2, <2>1, ValidateGood
<1>4. Kept(new)
    BY <1>3 DEF Sound, Idle, Kept
<1> QED BY <1>3, <1>4, AloneKeeps

(* A block of the candidate chain is stored.                               *)
LEMMA OrganizedStored == ASSUME Sound, NEW b \in Blocks, Organized(b)
                         PROVE  b \in DOMAIN blk /\ b \in ToSet(store.index["candidate"])
BY DEF Sound, Good, Organized, cand, blk, Indexes

(* invalidate(header).                                                     *)
LEMMA InvalidateKeeps == ASSUME Sound, InProgress, NEW b \in Blocks, Invalidate(b)
                         PROVE  Sound' /\ InProgress' /\ aborted' = aborted
<1>1. Acceptable(b) \in BOOLEAN
    BY Zenon DEF Acceptable
<1> PICK valid \in BOOLEAN : valid = Acceptable(b)
    BY <1>1, Zenon
<1> PICK new : new = Validate(store, b, valid)
    OBVIOUS
<1>2. /\ Write(new, table) /\ call' = call /\ displaced' = displaced
      /\ Idle /\ blk[b].associated /\ blk[b].validation = "none"
    BY Zenon DEF Invalidate
<1>3. b \in DOMAIN blk
    BY OrganizedStored, Zenon DEF Invalidate
<1> QED BY <1>2, <1>3, ValidateKeeps, Zenon

(* candidate(block).                                                       *)
LEMMA CandidateKeeps == ASSUME Sound, InProgress, NEW b \in Blocks, Candidate(b)
                        PROVE  Sound' /\ InProgress' /\ aborted' = aborted
<1> PICK valid \in BOOLEAN : valid = TRUE
    OBVIOUS
<1> PICK new : new = Validate(store, b, valid)
    OBVIOUS
<1>1. /\ \E newTable : Write(new, newTable)
      /\ call' = call /\ displaced' = displaced
      /\ Idle /\ blk[b].associated /\ blk[b].validation = "none"
    BY Zenon DEF Candidate
<1> PICK newTable : Write(new, newTable)
    BY <1>1, Zenon
<1>2. b \in DOMAIN blk
    BY OrganizedStored, Zenon DEF Candidate
<1> QED BY <1>1, <1>2, ValidateKeeps, Zenon

(* What is pushed to the confirmed index of a settled store: a candidate.  *)
LEMMA PushSettled ==
    ASSUME NEW st, Good(st), Settled(st), NEW b \in DOMAIN st.blk, b \in ToSet(st.index["candidate"]),
           NEW new, new = Promote(st, b, Len(st.index["confirmed"]), "confirmed")
    PROVE  Settled(new)
<1>1. /\ IsStore(st) /\ b \in Blocks /\ st.index["confirmed"] \in Seq(Blocks)
      /\ ToSet(st.index["confirmed"]) \subseteq DOMAIN st.blk
      /\ "confirmed" \in Indexes /\ "candidate" \in Indexes
    BY DEF Good, IsStore, Indexes
<1>2. /\ new.index = [st.index EXCEPT !["confirmed"] = Append(st.index["confirmed"], b)]
      /\ \A c \in DOMAIN st.blk : c # b => new.blk[c] = st.blk[c]
      /\ new.blk[b] = [st.blk[b] EXCEPT !.confirmation = "confirmed"]
    <2>1. Promoted(st, b, "confirmed", new)
        BY <1>1, PromoteDoes
    <2> QED BY <2>1 DEF Promoted, Rest
<1>3. ToSet(Append(st.index["confirmed"], b)) = ToSet(st.index["confirmed"]) \cup {b}
    BY <1>1, MembersAppend
<1>4. /\ ToSet(new.index["confirmed"]) = ToSet(st.index["confirmed"]) \cup {b}
      /\ new.index["candidate"] = st.index["candidate"]
    BY <1>1, <1>2, <1>3 DEF IsStore
<1>5. new.blk[b].confirmation = "confirmed"
    BY <1>1, <1>2 DEF IsStore, BlockStates
<1>6. ASSUME NEW c \in ToSet(new.index["confirmed"])
      PROVE  c \in ToSet(new.index["candidate"]) /\ new.blk[c].confirmation = "confirmed"
    <2>1. CASE c = b
        BY <1>4, <1>5, <2>1
    <2>2. CASE c # b
        BY <1>1, <1>2, <1>4, <2>2 DEF Settled
    <2> QED BY <2>1, <2>2
<1> QED BY <1>6 DEF Settled

(* confirm(hash, height) of the next candidate.                            *)
LEMMA ConfirmKeeps == ASSUME Sound, InProgress, NEW b \in Blocks, Confirm(b)
                      PROVE  Sound' /\ InProgress' /\ aborted' = aborted
<1> PICK confirmed : confirmed = ConfirmLinks(table, Links(b), Height(b))
    OBVIOUS
<1>1. /\ Write(IF confirmed.ok THEN Promote(store, b, Height(b), "confirmed") ELSE store, confirmed)
      /\ displaced' = IF confirmed.ok THEN displaced \ {b} ELSE displaced
      /\ call' = call /\ Idle /\ conf # <<>> /\ Organized(b) /\ Follows(conf, b, Height(b))
      /\ blk[b].validation = "valid"
    BY DEF Confirm
<1>2. /\ Good(store) /\ Matching(store, displaced, {}) /\ store.assert /\ ~aborted
      /\ debug => Settled(store)
    BY <1>1 DEF Sound, Idle
<1>3. CASE ~confirmed.ok
    <2>1. Write(store, confirmed) /\ displaced' = displaced
        BY <1>1, <1>3
    <2>2. Kept(store)
        BY <1>2 DEF Kept
    <2> QED BY <1>1, <2>1, <2>2, AloneKeeps
<1>4. CASE confirmed.ok
    <2> PICK s \in Seq(Blocks) : s = store.index["confirmed"]
        BY <1>2 DEF Good, IsStore, Indexes
    <2>1. s # <<>> /\ Linked(s) /\ Len(s) \in Nat \ {0}
        BY <1>1, <1>2, EmptySeq DEF conf, Good, Indexes
    <2>2. Len(s) = Height(b) /\ Height(b) = Len(Chain[b]) - 1 /\ Len(Chain[b]) \in Nat
        BY <1>1, ChainOf DEF Follows, conf
    <2>3. Last(s) = Parent(b) /\ Len(Chain[b]) > 1 /\ Len(Chain[b]) = Len(s) + 1
        BY <1>1, <2>1, <2>2 DEF Follows, conf
    <2>4. s = Chain[Parent(b)]
        BY <2>1, <2>3 DEF Linked
    <2>5. \A i \in 1..Len(s) : s[i] = Chain[b][i]
        <3>1. \A i \in 1..(Len(Chain[b]) - 1) : Chain[Parent(b)][i] = Chain[b][i]
            BY <2>3, ParentChain
        <3> QED BY <2>2, <2>4, <3>1
    <2>6. /\ b \in DOMAIN store.blk /\ b \in ToSet(store.index["candidate"])
          /\ store.blk[b].validation = "valid"
        BY <1>1, OrganizedStored DEF blk
    <2> PICK new : new = Promote(store, b, Len(s), "confirmed")
        OBVIOUS
    <2>7. Write(new, confirmed)
        BY <1>1, <1>4, <2>2
    <2>8. Good(new)
        <3>1. store.index["candidate"] # <<>>
            BY <1>2, <2>1 DEF Good
        <3> QED BY <1>2, <2>3, <2>5, <2>6, <3>1, PushGood DEF Indexes
    <2>9. Matching(new, displaced \ {b}, {}) /\ new.assert
        <3>1. Matching(store, displaced, {b})
            BY <1>2 DEF Matching
        <3>2. new = Promote(store, b, Len(store.index["confirmed"]), "confirmed")
            OBVIOUS
        <3>3. "confirmed" \in Indexes /\ Good(store)
            BY <1>2 DEF Indexes
        <3>4. Matching(new, displaced \ {b}, {})
            BY <2>6, <3>1, <3>2, <3>3, PushMatching
        <3>5. new.assert = store.assert
            BY <2>6, <3>2, <3>3, PushAsserts
        <3> QED BY <1>2, <3>4, <3>5
    <2>10. debug => Settled(new)
        BY <1>2, <2>6, PushSettled
    <2>11. displaced' = displaced \ {b} /\ displaced' \subseteq DOMAIN new.blk /\ call' \in CallType
        <3>1. DOMAIN new.blk = DOMAIN store.blk
            BY <1>2, <2>6, PushKeeps DEF Keeps, Good, Indexes
        <3> QED BY <1>1, <1>4, <3>1 DEF Sound
    <2>12. Sound' /\ aborted' = aborted
        <3>1. Matching(new, displaced', {}) /\ (debug /\ new.assert => Settled(new))
            BY <2>9, <2>10, <2>11
        <3> QED BY <1>2, <2>7, <2>8, <2>9, <2>11, <3>1, WriteSound
    <2>13. call'.name \notin Indexes
        BY <1>1, IdleCall
    <2> QED BY <2>12, <2>13, NotInProgress
<1> QED BY <1>3, <1>4

(* The store once the header of block b is on top of the candidate index,  *)
(* that was as the confirmed one.                                          *)
HeaderAdded(b, new) ==
    /\ Kept(new)
    /\ b \in DOMAIN new.blk /\ new.blk[b].validation = "none"
    /\ new.index["confirmed"] = conf
    /\ new.index["candidate"] = Append(conf, b)
    /\ Height(b) = Len(conf) /\ Len(Chain[b]) = Len(conf) + 1 /\ conf \in Seq(Blocks)
    /\ \A i \in 1..Len(conf) : conf[i] = Chain[b][i]

(* push(block): the header is stored and pushed to the candidate index.    *)
LEMMA PushCandidate ==
    ASSUME Sound, ~aborted, NEW b \in Blocks, b \notin DOMAIN blk, cand = Front(Chain[b]), conf = cand,
           NEW stored, stored = Promote(StoreHeader(store, b), b, Height(b), "candidate")
    PROVE  HeaderAdded(b, stored)
<1>1. /\ Good(store) /\ Matching(store, displaced, {}) /\ store.assert /\ IsStore(store)
      /\ debug => Settled(store)
    BY DEF Sound, Good
<1> PICK s \in Seq(Blocks) : s = conf
    BY <1>1 DEF IsStore, Indexes, conf
<1>2. s = store.index["candidate"] /\ s = store.index["confirmed"] /\ s = Front(Chain[b])
    BY DEF cand, conf
<1>3. Height(b) = Len(s) /\ Len(Chain[b]) = Len(s) + 1 /\ \A i \in 1..Len(s) : s[i] = Chain[b][i]
    <2>1. Chain[b] \in Seq(Blocks) /\ Len(Chain[b]) \in Nat \ {0} /\ Height(b) = Len(Chain[b]) - 1
        BY ChainOf
    <2> PICK t \in Seq(Blocks) : t = Chain[b]
        BY <2>1
    <2>2. Len(Front(t)) = Len(t) - 1
        BY <2>1 DEF Front
    <2>3. ASSUME NEW i \in 1..(Len(t) - 1) PROVE Front(t)[i] = t[i]
        BY <2>1 DEF Front
    <2> QED BY <1>2, <2>1, <2>2, <2>3
<1> PICK header : header = StoreHeader(store, b)
    OBVIOUS
<1>4. b \notin DOMAIN store.blk
    BY DEF blk
<1>5. /\ Good(header) /\ b \in DOMAIN header.blk /\ header.blk[b] = NewHeader
      /\ header.index = store.index /\ header.assert = store.assert
    <2>1. Good(header) /\ b \in DOMAIN header.blk
        BY <1>1, <1>4, HeaderGood
    <2>2. header.blk[b] = NewHeader
        BY <1>1, <1>4, HeaderGood
    <2>3. header.index = store.index
        BY <1>1, <1>4, HeaderGood
    <2>4. header.assert = store.assert
        BY <1>1, <1>4, HeaderGood
    <2> QED BY <2>1, <2>2, <2>3, <2>4
<1>15. Rest(store, header, b)
    BY <1>1, <1>4, HeaderGood
<1>0. Matching(header, displaced, {b})
    BY <1>1, <1>5, <1>15, HeaderMatching
<1>6. stored = Promote(header, b, Len(header.index["candidate"]), "candidate")
    BY <1>2, <1>3, <1>5
<1>7. Good(stored)
    BY <1>2, <1>3, <1>5, <1>6, PushGood DEF Indexes
<1>8. ToSet(store.index["confirmed"]) \subseteq DOMAIN store.blk /\ b \notin ToSet(header.index["confirmed"])
    BY <1>1, <1>4, <1>5 DEF Good, Indexes
<1>9. header.blk[b].validation = "none"
    BY <1>5 DEF NewHeader
<1>10. Matching(stored, displaced, {}) /\ stored.assert
    <2>1. Matching(stored, displaced \ {b}, {})
        BY <1>0, <1>1, <1>5, <1>6, <1>8, <1>9, PushMatching DEF Indexes
    <2>2. displaced \ {b} = displaced
        BY <1>4 DEF Sound
    <2>3. stored.assert = header.assert
        BY <1>5, <1>6, <1>9, PushAsserts DEF Indexes
    <2> QED BY <1>1, <1>5, <2>1, <2>2, <2>3
<1>11. Keeps(header, stored, "candidate") /\ stored.index["candidate"] = Append(header.index["candidate"], b)
    <2>1. IsStore(header) /\ b \in DOMAIN header.blk
        BY <1>5 DEF Good
    <2>2. "candidate" \in Indexes
        BY DEF Indexes
    <2> QED BY <1>6, <2>1, <2>2, PushKeeps
<1>12. /\ stored.index["confirmed"] = header.index["confirmed"]
       /\ DOMAIN stored.blk = DOMAIN header.blk /\ stored.blk[b].validation = header.blk[b].validation
    BY <1>5, <1>11 DEF Keeps, Indexes
<1>13. ASSUME debug PROVE Settled(stored)
    <2>1. Promoted(header, b, "candidate", stored)
        BY <1>5, <1>6, PromoteDoes DEF Good, Indexes
    <2>2. ASSUME NEW c \in ToSet(store.index["confirmed"])
          PROVE  stored.blk[c] = store.blk[c]
        BY <1>5, <1>8, <1>15, <2>1, <2>2 DEF Promoted, Rest
    <2>3. ToSet(stored.index["candidate"]) = ToSet(store.index["confirmed"]) \cup {b}
        <3>1. ToSet(Append(s, b)) = ToSet(s) \cup {b}
            BY MembersAppend
        <3> QED BY <1>2, <1>5, <1>11, <3>1
    <2> QED BY <1>1, <1>5, <1>12, <1>13, <2>2, <2>3 DEF Settled
<1>14. DOMAIN store.blk \subseteq DOMAIN stored.blk
    BY <1>12, <1>15 DEF Rest
<1>16. Kept(stored)
    BY <1>7, <1>10, <1>13, <1>14 DEF Kept
<1> QED BY <1>2, <1>3, <1>5, <1>9, <1>11, <1>12, <1>16 DEF HeaderAdded

(* push(block): the block is validated and pushed to the confirmed index.  *)
LEMMA PushConfirmed ==
    ASSUME Sound, NEW b \in Blocks, b \notin DOMAIN blk,
           NEW linked, HeaderAdded(b, linked), linked.blk[b].associated,
           NEW valid, Validated(linked, b, "valid", valid),
           NEW final, final = Promote(valid, b, Height(b), "confirmed")
    PROVE  Kept(final)
<1>0. /\ Good(linked) /\ Matching(linked, displaced, {}) /\ linked.assert
      /\ debug => Settled(linked)
      /\ DOMAIN store.blk \subseteq DOMAIN linked.blk
      /\ b \in DOMAIN linked.blk /\ linked.blk[b].validation = "none"
      /\ linked.index["confirmed"] = conf /\ linked.index["candidate"] = Append(conf, b)
      /\ Height(b) = Len(conf) /\ Len(Chain[b]) = Len(conf) + 1 /\ conf \in Seq(Blocks)
      /\ \A i \in 1..Len(conf) : conf[i] = Chain[b][i]
    BY DEF HeaderAdded, Kept
<1>1. /\ Good(valid) /\ DOMAIN valid.blk = DOMAIN linked.blk
      /\ valid.index = linked.index /\ valid.assert = linked.assert
      /\ valid.blk[b].validation = "valid"
      /\ Matching(linked, displaced, {}) => Matching(valid, displaced, {})
      /\ Settled(linked) => Settled(valid)
    BY <1>0, ValidateGood
<1>2. b \in ToSet(Append(conf, b)) /\ Append(conf, b) # <<>>
    BY <1>0, MembersAppend, AppendProperties
<1>3. final = Promote(valid, b, Len(valid.index["confirmed"]), "confirmed")
    BY <1>0, <1>1
<1>4. Good(final)
    <2> PICK s \in Seq(Blocks) : s = conf
        BY <1>0
    <2>1. /\ Good(valid) /\ b \in DOMAIN valid.blk /\ "confirmed" \in Indexes
          /\ valid.index["confirmed"] = s /\ valid.index["candidate"] # <<>>
        BY <1>0, <1>1, <1>2 DEF Indexes
    <2>2. Len(Chain[b]) = Len(s) + 1 /\ \A i \in 1..Len(s) : s[i] = Chain[b][i]
        BY <1>0
    <2> QED BY <1>3, <2>1, <2>2, PushGood
<1>5. Matching(valid, displaced, {b})
    BY <1>0, <1>1 DEF Matching
<1>6. b \in DOMAIN valid.blk /\ b \in ToSet(valid.index["candidate"]) /\ "confirmed" \in Indexes
    BY <1>0, <1>1, <1>2 DEF Indexes
<1>7. Matching(final, displaced, {}) /\ final.assert
    <2>1. Good(valid) /\ valid.blk[b].validation = "valid" /\ valid.assert
        BY <1>0, <1>1
    <2>2. Matching(final, displaced \ {b}, {})
        BY <1>3, <1>5, <1>6, <2>1, PushMatching
    <2>3. displaced \ {b} = displaced
        BY DEF Sound, blk
    <2>4. final.assert = valid.assert
        BY <1>3, <1>6, <2>1, PushAsserts
    <2> QED BY <2>1, <2>2, <2>3, <2>4
<1>8. debug => Settled(final)
    BY <1>0, <1>1, <1>3, <1>6, PushSettled
<1>9. DOMAIN final.blk = DOMAIN valid.blk
    BY <1>1, <1>3, <1>6, PushKeeps DEF Keeps, Good
<1> QED BY <1>0, <1>1, <1>4, <1>7, <1>8, <1>9 DEF Kept

(* push(block), of the whole.                                              *)
LEMMA PushKeepsInv == ASSUME Sound, InProgress, NEW b \in Blocks, Push(b)
                      PROVE  Sound' /\ InProgress' /\ aborted' = aborted
<1> PICK stored : stored = Promote(StoreHeader(store, b), b, Height(b), "candidate")
    OBVIOUS
<1> PICK linked : linked = UpdateTransactions(stored, b)
    OBVIOUS
<1> PICK yes \in BOOLEAN : yes = TRUE
    OBVIOUS
<1> PICK valid : valid = Validate(linked, b, yes)
    OBVIOUS
<1> PICK final : final = Promote(valid, b, Height(b), "confirmed")
    OBVIOUS
<1> PICK confirmed : confirmed = ConfirmAll(StoreAll(table, TxsOf[b]), TxsOf[b], Height(b))
    OBVIOUS
<1>1. /\ Idle /\ call' = call /\ displaced' = displaced
      /\ b \notin DOMAIN blk /\ conf = cand /\ conf = Front(Chain[b])
      /\ Write(IF confirmed.ok THEN final ELSE linked, confirmed)
    BY Zenon DEF Push
<1>2. HeaderAdded(b, stored)
    BY <1>1, PushCandidate DEF Idle
<1>3. HeaderAdded(b, linked) /\ linked.blk[b].associated
    <2>1. Kept(stored) /\ Good(stored) /\ b \in DOMAIN stored.blk
        BY <1>2 DEF HeaderAdded, Kept
    <2>2. /\ Good(linked) /\ DOMAIN linked.blk = DOMAIN stored.blk
          /\ linked.index = stored.index /\ linked.assert = stored.assert
          /\ \A c \in DOMAIN stored.blk : linked.blk[c].validation = stored.blk[c].validation
          /\ linked.blk[b].associated
          /\ Matching(stored, displaced, {}) => Matching(linked, displaced, {})
          /\ Settled(stored) => Settled(linked)
        BY <2>1, AssociateGood
    <2>3. Kept(linked)
        BY <2>1, <2>2 DEF Kept
    <2> QED BY <1>2, <2>1, <2>2, <2>3 DEF HeaderAdded
<1>5. Validated(linked, b, "valid", valid)
    <2>1. IsStore(linked) /\ b \in DOMAIN linked.blk
        BY <1>3 DEF HeaderAdded, Kept, Good
    <2>2. Validated(linked, b, IF yes THEN "valid" ELSE "failed", valid)
        BY <2>1, ValidateDoes
    <2> QED BY <2>2
<1>6. Kept(final)
    BY <1>1, <1>3, <1>5, PushConfirmed
<1>7. CASE confirmed.ok
    <2>1. Write(final, confirmed)
        BY <1>1, <1>7
    <2> QED BY <1>1, <1>6, <2>1, AloneKeeps
<1>8. CASE ~confirmed.ok
    <2>1. Write(linked, confirmed) /\ Kept(linked)
        BY <1>1, <1>3, <1>8 DEF HeaderAdded
    <2> QED BY <1>1, <2>1, AloneKeeps
<1> QED BY <1>7, <1>8

(* A stop and a start leave the block database as it was.                  *)
LEMMA RestartKeeps == ASSUME Sound, InProgress, Restart
                      PROVE  Sound' /\ InProgress' /\ aborted' = aborted
<1>1. UNCHANGED <<debug, store, aborted, displaced>> /\ call' = NoCall
    BY DEF Restart
<1>2. Sound'
    BY <1>1, NoCallType, StillSound
<1> QED BY <1>1, <1>2, NoCallType, NotInProgress

-----------------------------------------------------------------------------
(* reorganize(), step by step.                                             *)

(* The call is begun: pop_above and push_all of an index.                  *)
LEMMA ReorganizeBegins ==
    ASSUME Sound, NEW name \in Indexes, NEW fork \in Int, NEW b \in Blocks,
           Reorganize(name, fork, Chain[b]),
           fork + 1 \in 1..Len(Chain[b]), fork + 1 <= Len(store.index[name]),
           \A i \in 1..(fork + 1) : store.index[name][i] = Chain[b][i]
    PROVE  /\ call' \in CallType
           /\ InCall(store, call')
           /\ call'.name \in Indexes =>
                 call'.name = name /\ call'.height = fork + 1 /\ call'.target = Chain[b]
<1> PICK t \in Seq(Blocks) : t = Chain[b]
    BY ChainOf
<1> PICK s \in Seq(Blocks) : s = store.index[name]
    BY DEF Sound, Good, IsStore
<1> PICK yes \in BOOLEAN : yes = TRUE
    OBVIOUS
<1> PICK n \in Int : n = fork + 1
    OBVIOUS
<1> PICK rest : rest = SubSeq(t, n + 1, Len(t))
    OBVIOUS
<1> DEFINE c == [name |-> name, fork |-> fork, popping |-> yes, height |-> n,
                 incoming |-> rest, target |-> t]
<1>1. n + 1 = fork + 2
    OBVIOUS
<1>2. call' = Continue(c, Top(s))
    BY <1>1, Zenon DEF Reorganize
<1>3. rest \in Seq(Blocks)
    BY SubSeqProperties
<1>4. c \in CallType
    BY <1>3 DEF CallType
<1>5. /\ c.name = name /\ c.fork = fork /\ c.popping = yes /\ c.height = n
      /\ c.incoming = rest /\ c.target = t
    OBVIOUS
<1> HIDE DEF c
<1>6. Located(store, c)
    BY <1>5 DEF Located
<1>7. Top(s) \in Int /\ Top(s) = Len(store.index[c.name]) - 1 /\ IsStore(store)
    BY <1>5 DEF Top, Sound, Good
<1>8. /\ call' \in CallType
      /\ InCall(store, call')
      /\ call' # NoCall => Same(c, call')
    BY <1>2, <1>4, <1>5, <1>6, <1>7, ContinueLocated
<1> QED BY <1>5, <1>8, NoCallType DEF Same

(* Two chains that are not empty begin with genesis.                       *)
LEMMA SameGenesis == ASSUME NEW s \in Seq(Blocks), Linked(s), s # <<>>, NEW b \in Blocks
                     PROVE  s[1] = Chain[b][1]
<1>1. Last(s) \in Blocks /\ s = Chain[Last(s)]
    BY EmptySeq, ElementOfSeq DEF Linked, Last
<1> PICK x \in Blocks : s = Chain[x]
    BY <1>1
<1>2. Chain[x][1] = Chain[b][1]
    BY ChainAssumption, Zenon
<1> QED BY <1>2

(* Where two chains agree up to a fork point they share.                   *)
LEMMA SharedFork ==
    ASSUME NEW s \in Seq(Blocks), NEW t \in Seq(Blocks), s # <<>>, t # <<>>, s[1] = t[1],
           NEW fork \in 0..Shared(s, t)
    PROVE  /\ fork + 1 \in 1..Len(s) /\ fork + 1 \in 1..Len(t)
           /\ \A i \in 1..(fork + 1) : s[i] = t[i]
<1>1. /\ Shared(s, t) \in Nat
      /\ Shared(s, t) + 1 \in 1..Len(s) /\ Shared(s, t) + 1 <= Len(t)
      /\ \A i \in 1..(Shared(s, t) + 1) : s[i] = t[i]
    BY SharedPrefix
<1> PICK shared \in Nat : shared = Shared(s, t)
    BY <1>1
<1>2. fork \in 0..shared /\ Len(s) \in Nat /\ Len(t) \in Nat
    OBVIOUS
<1> QED BY <1>1, <1>2

(* reorganize() of headers begins.                                         *)
LEMMA BeginHeadersKeeps == ASSUME Sound, InProgress, NEW b \in Blocks, BeginHeaders(b)
                           PROVE  Sound' /\ InProgress' /\ aborted' = aborted
<1> PICK s \in Seq(Blocks) : s = store.index["candidate"]
    BY DEF Sound, Good, IsStore, Indexes
<1> PICK t \in Seq(Blocks) : t = Chain[b]
    BY ChainOf
<1>1. s # <<>> /\ Linked(s) /\ t # <<>>
    BY ChainOf, EmptySeq DEF BeginHeaders, conf, Sound, Good, Indexes
<1>2. s[1] = t[1]
    BY <1>1, SameGenesis
<1>3. /\ \E fork \in 0..Shared(s, t) :
            /\ \A i \in (fork + 2)..Len(t) :
                  t[i] \in DOMAIN store.blk => store.blk[t[i]].validation # "failed"
            /\ Reorganize("candidate", fork, Chain[b])
      /\ UNCHANGED <<debug, store, aborted, displaced>>
    BY DEF BeginHeaders, cand, blk
<1> PICK fork \in 0..Shared(s, t) :
            /\ \A i \in (fork + 2)..Len(t) :
                  t[i] \in DOMAIN store.blk => store.blk[t[i]].validation # "failed"
            /\ Reorganize("candidate", fork, Chain[b])
    BY <1>3
<1>4. /\ fork + 1 \in 1..Len(s) /\ fork + 1 \in 1..Len(t) /\ fork \in Int
      /\ \A i \in 1..(fork + 1) : s[i] = t[i]
    BY <1>1, <1>2, SharedFork
<1> PICK n \in Nat : n = fork + 1
    BY <1>4
<1>5. n \in 1..Len(t) /\ n <= Len(s) /\ \A i \in 1..n : s[i] = t[i]
    BY <1>4
<1>6. /\ call' \in CallType
      /\ InCall(store, call')
      /\ call'.name \in Indexes =>
            call'.name = "candidate" /\ call'.height = n /\ call'.target = t
    BY <1>4, <1>5, ReorganizeBegins DEF Indexes
<1>7. Sound' /\ CallInv'
    BY <1>3, <1>6, StillSound DEF CallInv, InCall, Located
<1>8. HeadersInv'
    <2>1. store' = store
        BY <1>3
    <2> SUFFICES ASSUME call'.name = "candidate" PROVE InHeaders(store, call)'
        BY DEF HeadersInv, InHeaders
    <2>2. call'.height = n /\ call'.target = t
        BY <1>6 DEF Indexes
    <2>3. (n + 1)..Len(t) = (fork + 2)..Len(t)
        BY <1>4
    <2> QED BY <2>1, <2>2, <2>3 DEF InHeaders
<1>9. BlocksInv'
    BY <1>6 DEF BlocksInv, InBlocks, Indexes
<1> QED BY <1>3, <1>7, <1>8, <1>9 DEF InProgress

(* The blocks of the chain of b, in an index that holds b.                 *)
LEMMA AncestorsIn ==
    ASSUME NEW s \in Seq(Blocks), Linked(s), NEW b \in ToSet(s), NEW i \in 1..Len(Chain[b])
    PROVE  Chain[b][i] \in ToSet(s)
<1> PICK j \in 1..Len(s) : s[j] = b
    BY Members
<1>1. Len(Chain[b]) = j /\ \A k \in 1..j : Chain[b][k] = s[k]
    BY LinkedAt
<1>2. i \in 1..Len(s) /\ s[i] = Chain[b][i]
    BY <1>1
<1> QED BY <1>2, Members

(* reorganize() of blocks begins.                                          *)
LEMMA BeginBlocksKeeps == ASSUME Sound, InProgress, NEW b \in Blocks, BeginBlocks(b)
                          PROVE  Sound' /\ InProgress' /\ aborted' = aborted
<1> PICK s \in Seq(Blocks) : s = store.index["candidate"]
    BY DEF Sound, Good, IsStore, Indexes
<1> PICK u \in Seq(Blocks) : u = store.index["confirmed"]
    BY DEF Sound, Good, IsStore, Indexes
<1> PICK t \in Seq(Blocks) : t = Chain[b]
    BY ChainOf
<1>1. /\ u # <<>> /\ t # <<>> /\ Linked(s) /\ Linked(u)
      /\ ToSet(s) \subseteq DOMAIN store.blk /\ ToSet(u) \subseteq DOMAIN store.blk
    BY ChainOf, EmptySeq DEF BeginBlocks, conf, Sound, Good, Indexes
<1>2. u[1] = t[1]
    BY <1>1, SameGenesis
<1>3. /\ ~aborted /\ b \in ToSet(s) \cup ToSet(u)
      /\ AncestorsValid(b) /\ store.blk[b].validation = "valid"
      /\ \E fork \in 0..Shared(u, t) : Reorganize("confirmed", fork, Chain[b])
      /\ UNCHANGED <<debug, store, aborted, displaced>>
    BY DEF BeginBlocks, cand, conf, blk, Idle
<1> PICK fork \in 0..Shared(u, t) : Reorganize("confirmed", fork, Chain[b])
    BY <1>3
<1>4. /\ fork + 1 \in 1..Len(u) /\ fork + 1 \in 1..Len(t) /\ fork \in Int
      /\ \A i \in 1..(fork + 1) : u[i] = t[i]
    BY <1>1, <1>2, SharedFork
<1> PICK n \in Nat : n = fork + 1
    BY <1>4
<1>5. n \in 1..Len(t) /\ n <= Len(u) /\ \A i \in 1..n : u[i] = t[i]
    BY <1>4
<1>6. ASSUME NEW i \in 1..Len(t) PROVE store.blk[t[i]].validation = "valid"
    <2>1. Height(b) = Len(t) - 1 /\ t[Len(t)] = b
        BY ChainOf
    <2>2. CASE i = Len(t)
        BY <1>3, <2>1, <2>2
    <2>3. CASE i # Len(t)
        <3>1. i \in 1..Height(b)
            BY <2>1, <2>3
        <3> QED BY <1>3, <3>1 DEF AncestorsValid, blk
    <2> QED BY <2>2, <2>3
<1>7. ASSUME NEW i \in 1..Len(t)
      PROVE  t[i] \in DOMAIN store.blk /\ (debug => t[i] \in ToSet(s))
    <2>1. b \in ToSet(s) => t[i] \in ToSet(s)
        BY <1>1, AncestorsIn
    <2>2. b \in ToSet(u) => t[i] \in ToSet(u)
        BY <1>1, AncestorsIn
    <2>3. debug => ToSet(u) \subseteq ToSet(s)
        BY <1>3 DEF Sound, Settled
    <2> QED BY <1>1, <1>3, <2>1, <2>2, <2>3
<1>8. /\ call' \in CallType
      /\ InCall(store, call')
      /\ call'.name \in Indexes =>
            call'.name = "confirmed" /\ call'.height = n /\ call'.target = t
    BY <1>4, <1>5, ReorganizeBegins DEF Indexes
<1>9. Sound' /\ CallInv'
    BY <1>3, <1>8, StillSound DEF CallInv, InCall, Located
<1>10. HeadersInv'
    BY <1>8 DEF HeadersInv, InHeaders, Indexes
<1>11. BlocksInv'
    <2>1. store' = store /\ debug' = debug
        BY <1>3
    <2> SUFFICES ASSUME call'.name = "confirmed" PROVE InBlocks(store, call)'
        BY DEF BlocksInv, InBlocks
    <2>2. call'.target = t
        BY <1>8 DEF Indexes
    <2> QED BY <1>6, <1>7, <2>1, <2>2 DEF InBlocks
<1> QED BY <1>3, <1>9, <1>10, <1>11 DEF InProgress

(* A step of reorganize() that fails ends it and leaves the store.         *)
LEMMA FailureKeeps == ASSUME Sound, ~aborted, displaced' = displaced,
                             NEW newTable, Write(store, newTable), call' = FailedCall
                      PROVE  Sound' /\ InProgress' /\ aborted' = aborted /\ call' # NoCall
<1>1. call' \in CallType /\ call'.name \notin Indexes /\ call' # NoCall
    BY NoCallType
<1>2. Good(store) /\ Matching(store, displaced, {}) /\ store.assert /\ (debug => Settled(store))
    BY DEF Sound
<1> QED BY <1>1, <1>2, WriteKeeps, NotInProgress

(* Where a call is depends on the indexes only.                            *)
LEMMA InCallSame ==
    ASSUME NEW st, NEW new, st.index = new.index, NEW c, InCall(new, c)
    PROVE  InCall(st, c)
BY DEF InCall, Located

(* pop_header and pop_block: what is left of the index, and the call.      *)
LEMMA PopCall ==
    ASSUME Sound, CallInv, NEW name \in Indexes, call.name = name, call.popping,
           NEW new, IsStore(new), new.index[name] = Front(store.index[name]),
           call' = AfterPop(Top(store.index[name]) - 1)
    PROVE  /\ call' \in CallType
           /\ InCall(new, call')
           /\ call' = NoCall => new.index[name] = call.target
           /\ call' # NoCall => Same(call, call')
<1> PICK s \in Seq(Blocks) : s = store.index[name]
    BY DEF Sound, Good, IsStore
<1>1. Located(store, call) /\ call.height < Len(s) /\ call \in CallType
    BY DEF CallInv, InCall, Sound
<1> PICK n \in Nat : n = call.height
    BY <1>1 DEF Located, CallType
<1>2. s # <<>> /\ Linked(s) /\ Len(s) \in Nat
    BY <1>1, EmptySeq DEF Sound, Good
<1>3. Len(Front(s)) = Len(s) - 1 /\ \A i \in 1..(Len(s) - 1) : Front(s)[i] = s[i]
    BY <1>2, LinkedFront
<1>4. Located(new, call)
    <2>1. n <= Len(Front(s))
        BY <1>1, <1>2, <1>3
    <2>2. \A i \in 1..n : Front(s)[i] = s[i]
        BY <1>2, <1>3, <2>1
    <2> QED BY <1>1, <2>1, <2>2 DEF Located
<1>7. Top(s) - 1 \in Int
    <2>1. Len(s) \in Nat
        BY <1>2
    <2> QED BY <2>1 DEF Top
<1> PICK top \in Int : top = Top(s) - 1
    BY <1>7, Zenon
<1>5. top = Len(new.index[call.name]) - 1
    BY <1>2, <1>3 DEF Top
<1>6. call' = Continue(call, top)
    BY DEF AfterPop
<1> QED BY <1>1, <1>4, <1>5, <1>6, ContinueLocated

(* A block of one chain that is higher than another is not in that one.    *)
LEMMA HigherIsOut == ASSUME NEW u \in Seq(Blocks), Linked(u), NEW b \in Blocks, Len(Chain[b]) > Len(u)
                     PROVE  b \notin ToSet(u)
<1> SUFFICES ASSUME b \in ToSet(u) PROVE FALSE
    OBVIOUS
<1> PICK j \in 1..Len(u) : u[j] = b
    BY Members
<1>1. Len(Chain[b]) = j
    BY LinkedAt
<1> QED BY <1>1

(* The last block of a chain.                                              *)
LEMMA LastOf == ASSUME NEW s \in Seq(Blocks), Linked(s), s # <<>>
                PROVE  /\ Last(s) \in Blocks /\ Len(Chain[Last(s)]) = Len(s) /\ s = Chain[Last(s)]
                       /\ Last(s) \in ToSet(s)
<1>1. Len(s) \in 1..Len(s)
    BY EmptySeq
<1>2. s = Chain[Last(s)] /\ Last(s) = s[Len(s)]
    BY DEF Linked, Last
<1> QED BY <1>1, <1>2, LinkedAt, Members

(* What is displaced by a pop is stored.                                   *)
LEMMA DemotingStored ==
    ASSUME NEW all, NEW dis, dis \subseteq all, NEW b \in all, NEW other
    PROVE  Demoting(dis, b, other) \subseteq all
BY DEF Demoting

(* A pop of a settled store whose assertion holds leaves it settled.       *)
LEMMA PopSettled ==
    ASSUME NEW st, Good(st), Settled(st), NEW name \in Indexes, st.index[name] # <<>>,
           NEW new, new = Demote(st, Last(st.index[name]), Top(st.index[name]), name), new.assert
    PROVE  Settled(new)
<1>1. /\ IsStore(st) /\ st.index \in [Indexes -> Seq(Blocks)] /\ st.index[name] \in Seq(Blocks)
      /\ Linked(st.index[name]) /\ ToSet(st.index[name]) \subseteq DOMAIN st.blk
      /\ ToSet(st.index["confirmed"]) \subseteq DOMAIN st.blk
    BY DEF Good, IsStore, Indexes
<1> PICK s \in Seq(Blocks) : s = st.index[name]
    BY <1>1
<1>2. Last(s) \in ToSet(s) /\ ToSet(Front(s)) = ToSet(s) \ {Last(s)}
    BY <1>1, MembersFront
<1> PICK b \in DOMAIN st.blk : b = Last(s)
    BY <1>1, <1>2
<1>3. Demoted(st, b, name, new)
    BY <1>1, DemoteDoes
<1>4. /\ new.index[name] = Front(s)
      /\ new.index[OtherIndex(name)] = st.index[OtherIndex(name)]
      /\ \A c \in DOMAIN st.blk : c # b => new.blk[c] = st.blk[c]
      /\ st.blk[b].confirmation = name
    <2>1. /\ new.index = [st.index EXCEPT ![name] = Front(s)]
          /\ new.assert = (st.assert /\ st.blk[b].confirmation = name)
          /\ \A c \in DOMAIN st.blk : c # b => new.blk[c] = st.blk[c]
        BY <1>3 DEF Demoted, Rest
    <2>2. OtherIndex(name) # name
        BY DEF OtherIndex, Indexes
    <2>3. st.blk[b].confirmation = name
        BY <2>1
    <2> QED BY <1>1, <2>1, <2>2, <2>3 DEF OtherIndex, Indexes
<1>5. ASSUME NEW c \in ToSet(new.index["confirmed"])
      PROVE  c \in ToSet(new.index["candidate"]) /\ new.blk[c].confirmation = "confirmed"
    <2>1. CASE name = "confirmed"
        <3>1. c \in ToSet(st.index["confirmed"]) /\ c # b
            BY <1>2, <1>4, <2>1
        <3>2. new.index["candidate"] = st.index["candidate"]
            BY <1>4, <2>1 DEF OtherIndex
        <3> QED BY <1>1, <1>4, <3>1, <3>2 DEF Settled
    <2>2. CASE name = "candidate"
        <3>1. c \in ToSet(st.index["confirmed"])
            BY <1>4, <2>2 DEF OtherIndex
        <3>2. c \in ToSet(s) /\ st.blk[c].confirmation = "confirmed"
            BY <2>2, <3>1 DEF Settled
        <3>3. c # b
            BY <1>4, <2>2, <3>2
        <3> QED BY <1>1, <1>2, <1>4, <2>2, <3>1, <3>2, <3>3
    <2> QED BY <2>1, <2>2 DEF Indexes
<1> QED BY <1>5 DEF Settled

(* pop_header and pop_block, when they succeed: the store is sound, and    *)
(* an assertion has failed only if the state did not name the index.       *)
LEMMA PopSound ==
    ASSUME Sound, CallInv, ~aborted, NEW name \in Indexes, call.name = name, call.popping,
           name = "candidate" => Len(store.index["candidate"]) > 1,
           NEW b, b = Last(store.index[name]),
           NEW new, new = Demote(store, b, Top(store.index[name]), name),
           NEW newTable, Write(new, newTable), call' = AfterPop(Top(store.index[name]) - 1),
           displaced' = Demoting(displaced, b, store.index[OtherIndex(name)])
    PROVE  /\ Sound' /\ CallInv' /\ debug' = debug
           /\ call' = NoCall => store'.index[name] = call.target
           /\ call' # NoCall => Same(call, call')
           /\ store'.index[OtherIndex(name)] = store.index[OtherIndex(name)]
           /\ DOMAIN store'.blk = DOMAIN store.blk
           /\ \A c \in DOMAIN store.blk : store'.blk[c].validation = store.blk[c].validation
           /\ b \in ToSet(store.index[name]) /\ b \in DOMAIN store.blk
           /\ aborted' # aborted => debug /\ store.blk[b].confirmation # name
<1> PICK s \in Seq(Blocks) : s = store.index[name]
    BY DEF Sound, Good, IsStore
<1>1. /\ Good(store) /\ IsStore(store) /\ Linked(s) /\ ToSet(s) \subseteq DOMAIN store.blk
      /\ Matching(store, displaced, {}) /\ store.assert /\ displaced \subseteq DOMAIN store.blk
      /\ debug => Settled(store)
    BY DEF Sound, Good
<1>2. s # <<>>
    <2>1. call.height < Len(s) /\ call.height \in Nat
        BY DEF CallInv, InCall, Located
    <2> QED BY <2>1, EmptySeq
<1>3. b \in ToSet(s) /\ b \in DOMAIN store.blk
    BY <1>1, <1>2, LastOf
<1>4. Good(new)
    BY <1>1, <1>2, PopGood
<1>5. /\ Matching(new, Demoting(displaced, b, store.index[OtherIndex(name)]), {})
      /\ new.assert = (store.assert /\ store.blk[b].confirmation = name)
    BY <1>1, <1>2, PopMatching
<1>6. debug /\ new.assert => Settled(new)
    BY <1>1, <1>2, PopSettled
<1>7. Keeps(store, new, name) /\ new.index[name] = Front(s)
    BY <1>1, <1>2, <1>3, PopKeeps
<1>8. /\ call' \in CallType
      /\ InCall(new, call')
      /\ call' = NoCall => new.index[name] = call.target
      /\ call' # NoCall => Same(call, call')
    <2>1. IsStore(new)
        BY <1>4 DEF Good
    <2> QED BY <1>7, <2>1, PopCall
<1>9. DOMAIN new.blk = DOMAIN store.blk
    BY <1>7 DEF Keeps
<1>10. displaced' \subseteq DOMAIN new.blk
    BY <1>1, <1>3, <1>9, DemotingStored
<1>11. /\ Sound' /\ store'.blk = new.blk /\ store'.index = new.index /\ debug' = debug
       /\ ~aborted /\ (debug => new.assert) => aborted' = aborted
    <2>1. Matching(new, displaced', {})
        BY <1>5
    <2> QED BY <1>4, <1>6, <1>8, <1>10, <2>1, WriteSound
<1>12. CallInv'
    <2>1. InCall(new, call') /\ store'.index = new.index
        BY <1>8, <1>11
    <2>2. InCall(store', call')
        BY <2>1, InCallSame
    <2> QED BY <2>2 DEF CallInv
<1>13. aborted' # aborted => debug /\ store.blk[b].confirmation # name
    BY <1>1, <1>5, <1>11
<1>14. /\ new.index[OtherIndex(name)] = store.index[OtherIndex(name)]
       /\ DOMAIN new.blk = DOMAIN store.blk
       /\ \A c \in DOMAIN store.blk : new.blk[c].validation = store.blk[c].validation
    BY <1>7 DEF Keeps, OtherIndex, Indexes
<1> QED BY <1>3, <1>8, <1>11, <1>12, <1>13, <1>14

(* What a failed assertion tells: pop_header has come to a header of a     *)
(* block that is confirmed, or that was popped from the confirmed chain.   *)
Asserted ==
    aborted' # aborted =>
        /\ call.name = "candidate" /\ call.popping
        /\ Last(cand) \in ToSet(conf) \cup displaced

(* pop_header, when it succeeds.                                           *)
LEMMA HeaderPopped ==
    ASSUME Sound, InProgress, ~aborted, call.name = "candidate", call.popping,
           NEW s, s = store.index["candidate"],
           NEW new, new = Demote(store, Last(s), Top(s), "candidate"),
           NEW newTable, Write(new, newTable), call' = AfterPop(Top(s) - 1),
           displaced' = Demoting(displaced, Last(s), store.index["confirmed"])
    PROVE  /\ Sound' /\ InProgress' /\ Asserted
           /\ call' = NoCall => store'.index["candidate"] = call.target
<1>1. CallInv /\ HeadersInv /\ "candidate" \in Indexes
    BY DEF InProgress, Indexes
<1>2. Len(s) > 1
    <2>1. call.height < Len(s) /\ call.height \in 1..Len(call.target) /\ s \in Seq(Blocks)
        BY <1>1 DEF CallInv, InCall, Located, Sound, Good, IsStore
    <2> QED BY <2>1
<1> PICK b : b = Last(s)
    OBVIOUS
<1>3. displaced' = Demoting(displaced, b, store.index[OtherIndex("candidate")])
    BY DEF OtherIndex
<1>4. /\ Sound' /\ CallInv' /\ debug' = debug
      /\ call' = NoCall => store'.index["candidate"] = call.target
      /\ call' # NoCall => Same(call, call')
      /\ DOMAIN store'.blk = DOMAIN store.blk
      /\ \A c \in DOMAIN store.blk : store'.blk[c].validation = store.blk[c].validation
      /\ b \in ToSet(s) /\ b \in DOMAIN store.blk
      /\ aborted' # aborted => debug /\ store.blk[b].confirmation # "candidate"
    BY <1>1, <1>2, <1>3, PopSound
<1>5. HeadersInv'
    <2> SUFFICES ASSUME call'.name = "candidate" PROVE InHeaders(store, call)'
        BY DEF HeadersInv, InHeaders
    <2>1. call'.height = call.height /\ call'.target = call.target
        BY <1>4, NoCallType DEF Same, Indexes
    <2>2. InHeaders(store, call)
        BY <1>1 DEF HeadersInv
    <2> QED BY <1>4, <2>1, <2>2 DEF InHeaders
<1>6. BlocksInv'
    BY <1>4, NoCallType DEF BlocksInv, InBlocks, Same, Indexes
<1>7. Asserted
    <2> SUFFICES ASSUME store.blk[b].confirmation # "candidate"
                 PROVE  b \in ToSet(store.index["confirmed"]) \cup displaced
        BY <1>4 DEF Asserted, cand, conf
    <2>1. Matches(store, displaced, b) /\ store.blk[b] \in BlockStates
        BY <1>4 DEF Sound, Matching, Good, IsStore
    <2> QED BY <1>4, <2>1 DEF Matches, BlockStates
<1> QED BY <1>4, <1>5, <1>6, <1>7 DEF InProgress

(* pop_header.                                                             *)
LEMMA PopHeaderKeeps ==
    ASSUME Sound, InProgress, PopHeader
    PROVE  /\ Sound' /\ InProgress' /\ Asserted
           /\ call' = NoCall => store'.index[call.name] = call.target
<1> PICK s : s = store.index["candidate"]
    OBVIOUS
<1>1. /\ call.name = "candidate" /\ call.popping /\ ~aborted
      /\ \E newTable :
            /\ Write(IF newTable.ok THEN Demote(store, Last(s), Top(s), "candidate") ELSE store, newTable)
            /\ call' = IF newTable.ok THEN AfterPop(Top(s) - 1) ELSE FailedCall
            /\ displaced' = IF newTable.ok THEN Displaced(Last(s), conf) ELSE displaced
    BY Zenon DEF PopHeader, Popping, cand
<1> PICK newTable :
            /\ Write(IF newTable.ok THEN Demote(store, Last(s), Top(s), "candidate") ELSE store, newTable)
            /\ call' = IF newTable.ok THEN AfterPop(Top(s) - 1) ELSE FailedCall
            /\ displaced' = IF newTable.ok THEN Displaced(Last(s), conf) ELSE displaced
    BY <1>1
<1>2. CASE ~newTable.ok
    <2>1. Write(store, newTable) /\ call' = FailedCall /\ displaced' = displaced
        BY <1>2
    <2> QED BY <1>1, <2>1, FailureKeeps DEF Asserted
<1>3. CASE newTable.ok
    <2> PICK new : new = Demote(store, Last(s), Top(s), "candidate")
        OBVIOUS
    <2>1. /\ Write(new, newTable) /\ call' = AfterPop(Top(s) - 1)
          /\ displaced' = Demoting(displaced, Last(s), store.index["confirmed"])
        BY <1>3 DEF Displaced, Demoting, conf
    <2> QED BY <1>1, <2>1, HeaderPopped
<1> QED BY <1>2, <1>3

(* pop_block, when it succeeds.                                            *)
LEMMA BlockPopped ==
    ASSUME Sound, InProgress, ~aborted, call.name = "confirmed", call.popping,
           NEW u, u = store.index["confirmed"],
           NEW new, new = Demote(store, Last(u), Top(u), "confirmed"),
           NEW newTable, Write(new, newTable), call' = AfterPop(Top(u) - 1),
           displaced' = Demoting(displaced, Last(u), store.index["candidate"])
    PROVE  /\ Sound' /\ InProgress' /\ aborted' = aborted
           /\ call' = NoCall => store'.index["confirmed"] = call.target
<1>1. CallInv /\ InBlocks(store, call) /\ "confirmed" \in Indexes /\ (debug => Settled(store))
    BY DEF InProgress, BlocksInv, Indexes, Sound
<1> PICK b : b = Last(u)
    OBVIOUS
<1>2. displaced' = Demoting(displaced, b, store.index[OtherIndex("confirmed")])
    BY DEF OtherIndex
<1>3. /\ Sound' /\ CallInv' /\ debug' = debug
      /\ call' = NoCall => store'.index["confirmed"] = call.target
      /\ call' # NoCall => Same(call, call')
      /\ store'.index["candidate"] = store.index["candidate"]
      /\ DOMAIN store'.blk = DOMAIN store.blk
      /\ \A c \in DOMAIN store.blk : store'.blk[c].validation = store.blk[c].validation
      /\ b \in ToSet(u)
      /\ aborted' # aborted => debug /\ store.blk[b].confirmation # "confirmed"
    <2>1. OtherIndex("confirmed") = "candidate" /\ "confirmed" # "candidate"
        BY DEF OtherIndex
    <2> QED BY <1>1, <1>2, <2>1, PopSound
<1>4. aborted' = aborted
    BY <1>1, <1>3 DEF Settled
<1>5. HeadersInv'
    BY <1>3, NoCallType DEF HeadersInv, InHeaders, Same, Indexes
<1>6. BlocksInv'
    <2> SUFFICES ASSUME call'.name = "confirmed" PROVE InBlocks(store, call)'
        BY DEF BlocksInv, InBlocks
    <2>1. call'.target = call.target
        BY <1>3, NoCallType DEF Same, Indexes
    <2> QED BY <1>1, <1>3, <2>1 DEF InBlocks
<1> QED BY <1>3, <1>4, <1>5, <1>6 DEF InProgress

(* pop_block.                                                              *)
LEMMA PopBlockKeeps ==
    ASSUME Sound, InProgress, PopBlock
    PROVE  /\ Sound' /\ InProgress' /\ aborted' = aborted
           /\ call' = NoCall => store'.index[call.name] = call.target
<1> PICK u : u = store.index["confirmed"]
    OBVIOUS
<1>1. /\ call.name = "confirmed" /\ call.popping /\ ~aborted
      /\ \E newTable :
            /\ Write(IF newTable.ok THEN Demote(store, Last(u), Top(u), "confirmed") ELSE store, newTable)
            /\ call' = IF newTable.ok THEN AfterPop(Top(u) - 1) ELSE FailedCall
            /\ displaced' = IF newTable.ok THEN Displaced(Last(u), cand) ELSE displaced
    BY Zenon DEF PopBlock, Popping, conf
<1> PICK newTable :
            /\ Write(IF newTable.ok THEN Demote(store, Last(u), Top(u), "confirmed") ELSE store, newTable)
            /\ call' = IF newTable.ok THEN AfterPop(Top(u) - 1) ELSE FailedCall
            /\ displaced' = IF newTable.ok THEN Displaced(Last(u), cand) ELSE displaced
    BY <1>1
<1>2. CASE ~newTable.ok
    <2>1. Write(store, newTable) /\ call' = FailedCall /\ displaced' = displaced
        BY <1>2
    <2> QED BY <1>1, <2>1, FailureKeeps
<1>3. CASE newTable.ok
    <2> PICK new : new = Demote(store, Last(u), Top(u), "confirmed")
        OBVIOUS
    <2>1. /\ Write(new, newTable) /\ call' = AfterPop(Top(u) - 1)
          /\ displaced' = Demoting(displaced, Last(u), store.index["candidate"])
        BY <1>3 DEF Displaced, Demoting, cand
    <2> QED BY <1>1, <2>1, BlockPopped
<1> QED BY <1>2, <1>3

(* Block b is next for the index c of height h: it is the target's, and    *)
(* the index is its chain up to it.                                        *)
NextIs(b, c, h) ==
    /\ b \in Blocks /\ c \in Seq(Blocks) /\ h = Len(c)
    /\ h + 1 \in 1..Len(call.target) /\ b = call.target[h + 1]
    /\ Len(Chain[b]) = Len(c) + 1
    /\ \A i \in 1..Len(c) : c[i] = Chain[b][i]

(* The next header or block to push is the next of the target.             *)
LEMMA NextPushed ==
    ASSUME Sound, CallInv, NEW name \in Indexes, call.name = name, ~call.popping
    PROVE  NextIs(Head(call.incoming), store.index[name], call.height)
<1> PICK s : s = store.index[name]
    OBVIOUS
<1> PICK b : b = Head(call.incoming)
    OBVIOUS
<1>1. s \in Seq(Blocks) /\ Len(s) \in Nat /\ call.target \in Seq(Blocks)
    BY DEF Sound, Good, IsStore, CallType
<1> PICK t \in Seq(Blocks) : t = call.target
    BY <1>1
<1> PICK n \in Nat : n = Len(s)
    BY <1>1
<1>2. /\ \E c \in Blocks : t = Chain[c]
      /\ n \in 1..Len(t) /\ n < Len(t) /\ call.height = n
      /\ \A i \in 1..n : s[i] = t[i]
      /\ call.incoming = SubSeq(t, n + 1, Len(t))
    BY DEF CallInv, InCall, Located
<1> PICK c \in Blocks : t = Chain[c]
    BY <1>2
<1>3. b = t[n + 1] /\ n + 1 \in 1..Len(t)
    BY <1>2, SubSeqProperties
<1>4. b \in Blocks /\ Len(Chain[b]) = n + 1 /\ \A j \in 1..(n + 1) : Chain[b][j] = t[j]
    <2> PICK m \in 1..Len(Chain[c]) : m = n + 1
        BY <1>3
    <2>1. /\ Chain[c][m] \in Blocks /\ Len(Chain[Chain[c][m]]) = m
          /\ \A j \in 1..m : Chain[Chain[c][m]][j] = Chain[c][j]
        BY ChainPrefix
    <2>2. b = Chain[c][m]
        BY <1>3
    <2> QED BY <2>1, <2>2
<1>5. call.height = n /\ \A i \in 1..n : s[i] = t[i]
    BY <1>2
<1>6. \A i \in 1..n : s[i] = Chain[b][i]
    BY <1>4, <1>5
<1>7. /\ b \in Blocks /\ s \in Seq(Blocks) /\ call.height = Len(s)
      /\ call.height + 1 \in 1..Len(call.target) /\ b = call.target[call.height + 1]
      /\ Len(Chain[b]) = Len(s) + 1
      /\ \A i \in 1..Len(s) : s[i] = Chain[b][i]
    BY <1>1, <1>3, <1>4, <1>5, <1>6
<1>8. NextIs(b, s, call.height)
    BY <1>7 DEF NextIs
<1> QED BY <1>8

(* The same of the confirmed index.                                        *)
LEMMA NextConfirmed ==
    ASSUME Sound, CallInv, call.name = "confirmed", ~call.popping
    PROVE  NextIs(Head(call.incoming), store.index["confirmed"], call.height)
<1>1. "confirmed" \in Indexes
    BY DEF Indexes
<1> QED BY <1>1, NextPushed, ZenonT(20)

(* The same, of an index and a block given by equations.                   *)
LEMMA NextIncoming ==
    ASSUME Sound, CallInv, NEW name \in Indexes, call.name = name, ~call.popping,
           NEW s, s = store.index[name], NEW b, b = Head(call.incoming)
    PROVE  /\ b \in Blocks /\ s \in Seq(Blocks) /\ call.height = Len(s)
           /\ call.height + 1 \in 1..Len(call.target) /\ b = call.target[call.height + 1]
           /\ Len(Chain[b]) = Len(s) + 1
           /\ \A i \in 1..Len(s) : s[i] = Chain[b][i]
<1>1. NextIs(Head(call.incoming), store.index[name], call.height)
    BY NextPushed
<1>2. NextIs(b, s, call.height)
    BY <1>1
<1> QED BY <1>2 DEF NextIs

(* What is left of a sequence, by its places.                              *)
LEMMA RestOf ==
    ASSUME NEW t \in Seq(Blocks), NEW m \in 1..(Len(t) + 1), NEW r, r = SubSeq(t, m, Len(t))
    PROVE  /\ r \in Seq(Blocks) /\ Len(r) = Len(t) + 1 - m
           /\ \A i \in 1..(Len(t) + 1 - m) : r[i] = t[m + i - 1]
<1>1. Len(t) \in Nat /\ m \in Int
    OBVIOUS
<1> PICK len \in Nat : len = Len(t)
    BY <1>1
<1>2. \A i \in m..len : t[i] \in Blocks
    BY ElementOfSeq
<1>3. /\ r \in Seq(Blocks) /\ Len(r) = IF m <= len THEN len - m + 1 ELSE 0
      /\ \A i \in 1..(len - m + 1) : r[i] = t[m + i - 1]
    BY <1>2, SubSeqProperties
<1> QED BY <1>3

(* What is left after the next has been pushed.                            *)
LEMMA TailOfRest ==
    ASSUME NEW t \in Seq(Blocks), NEW n \in Nat, n + 1 \in 1..Len(t)
    PROVE  /\ SubSeq(t, n + 2, Len(t)) \in Seq(Blocks)
           /\ Tail(SubSeq(t, n + 1, Len(t))) = SubSeq(t, n + 2, Len(t))
<1> PICK r : r = SubSeq(t, n + 1, Len(t))
    OBVIOUS
<1> PICK rest : rest = SubSeq(t, n + 2, Len(t))
    OBVIOUS
<1> PICK len \in Nat : len = Len(t)
    OBVIOUS
<1> PICK m \in 1..(len + 1) : m = n + 1
    OBVIOUS
<1> PICK k \in 1..(len + 1) : k = n + 2
    OBVIOUS
<1>1. r \in Seq(Blocks) /\ Len(r) = len + 1 - m /\ \A i \in 1..(len + 1 - m) : r[i] = t[m + i - 1]
    BY RestOf
<1>2. rest \in Seq(Blocks) /\ Len(rest) = len + 1 - k /\ \A i \in 1..(len + 1 - k) : rest[i] = t[k + i - 1]
    BY RestOf
<1>3. r # <<>>
    <2>1. Len(r) # 0
        BY <1>1
    <2> QED BY <1>1, <2>1, EmptySeq
<1> PICK u \in Seq(Blocks) : u = Tail(r)
    BY <1>1, <1>3, HeadTailProperties
<1>4. Len(u) = Len(r) - 1 /\ \A i \in 1..Len(u) : u[i] = r[i + 1]
    BY <1>1, <1>3, HeadTailProperties
<1>5. Len(u) = Len(rest)
    BY <1>1, <1>2, <1>4
<1>6. ASSUME NEW i \in 1..Len(u) PROVE u[i] = rest[i]
    <2>1. i + 1 \in 1..(len + 1 - m) /\ i \in 1..(len + 1 - k) /\ m + (i + 1) - 1 = k + i - 1
        BY <1>1, <1>2, <1>4
    <2>2. u[i] = r[i + 1] /\ r[i + 1] = t[m + (i + 1) - 1] /\ rest[i] = t[k + i - 1]
        BY <1>1, <1>2, <1>4, <2>1
    <2> QED BY <2>1, <2>2
<1>7. Tail(r) = rest
    BY <1>2, <1>5, <1>6, SeqEqual
<1> QED BY <1>2, <1>7

(* push_header and push_block: the index has one more, and the call one    *)
(* less to push.                                                           *)
LEMMA PushCall ==
    ASSUME Sound, CallInv, NEW name \in Indexes, call.name = name, ~call.popping,
           NEW b, b = Head(call.incoming),
           NEW new, IsStore(new), new.index[name] = Append(store.index[name], b),
           call' = AfterPush
    PROVE  /\ call' \in CallType
           /\ InCall(new, call')
           /\ call' = NoCall => new.index[name] = call.target
           /\ call' # NoCall =>
                 /\ call'.name = name /\ ~call'.popping
                 /\ call'.height = call.height + 1 /\ call'.target = call.target
<1> PICK s \in Seq(Blocks) : s = store.index[name]
    BY DEF Sound, Good, IsStore
<1> PICK t \in Seq(Blocks) : t = call.target
    BY DEF Sound, CallType
<1> PICK n \in Nat : n = call.height
    BY NextIncoming
<1>1. /\ b \in Blocks /\ n = Len(s) /\ n + 1 \in 1..Len(t) /\ b = t[n + 1]
    BY NextIncoming
<1>2. /\ Append(s, b) \in Seq(Blocks) /\ Len(Append(s, b)) = n + 1
      /\ Append(s, b)[n + 1] = b /\ \A i \in 1..n : Append(s, b)[i] = s[i]
    BY <1>1, AppendProperties
<1>3. call \in CallType /\ Located(store, call)
    BY DEF Sound, CallInv, InCall
<1>4. call.incoming = SubSeq(t, n + 1, Len(t)) /\ \A i \in 1..n : s[i] = t[i]
    BY <1>3 DEF Located
<1> PICK rest : rest = SubSeq(t, n + 2, Len(t))
    OBVIOUS
<1>5. rest \in Seq(Blocks) /\ Tail(call.incoming) = rest
    <2> PICK r : r = call.incoming
        OBVIOUS
    <2>1. r = SubSeq(t, n + 1, Len(t))
        BY <1>4
    <2>2. rest \in Seq(Blocks) /\ Tail(r) = rest
        <3>1. n + 1 \in 1..Len(t)
            BY <1>1
        <3>2. /\ SubSeq(t, n + 2, Len(t)) \in Seq(Blocks)
              /\ Tail(SubSeq(t, n + 1, Len(t))) = SubSeq(t, n + 2, Len(t))
            BY <3>1, TailOfRest
        <3> QED BY <2>1, <3>2
    <2> QED BY <2>2
<1> PICK m \in Int : m = n + 1
    OBVIOUS
<1> DEFINE mid == [call EXCEPT !.incoming = rest]
           c == [mid EXCEPT !.height = m]
<1>6. call' = Continue(c, n)
    BY <1>5 DEF AfterPush
<1>7. mid \in CallType /\ mid.incoming = rest /\ mid.height = n /\ mid.target = t /\ mid.name = name /\ ~mid.popping
    BY <1>3, <1>5 DEF CallType
<1> HIDE DEF mid
<1>8. c \in CallType /\ c.incoming = rest /\ c.height = m /\ c.target = t /\ c.name = name /\ ~c.popping
    BY <1>7 DEF CallType
<1> HIDE DEF c
<1>9. Located(new, c)
    <2>1. \E x \in Blocks : t = Chain[x]
        BY <1>3 DEF Located
    <2>2. \A i \in 1..m : Append(s, b)[i] = t[i]
        BY <1>1, <1>2, <1>4
    <2>3. m \in 1..Len(t) /\ m = Len(Append(s, b)) /\ m <= m /\ rest = SubSeq(t, m + 1, Len(t))
        <3>1. m + 1 = n + 2
            OBVIOUS
        <3> QED BY <1>1, <1>2, <3>1
    <2> PICK w : w = new.index[name]
        OBVIOUS
    <2>4. w = Append(s, b)
        OBVIOUS
    <2>5. m <= Len(w) /\ m = Len(w) /\ \A i \in 1..m : w[i] = t[i]
        BY <2>2, <2>3, <2>4
    <2> QED BY <1>8, <2>1, <2>3, <2>5 DEF Located
<1>10. /\ call' \in CallType
       /\ InCall(new, call')
       /\ call' = NoCall => new.index[name] = t
       /\ call' # NoCall => Same(c, call')
       /\ call'.popping => c.popping
    <2>1. n \in Int /\ ~c.popping /\ c.name \in Indexes
        BY <1>8
    <2> PICK d : d = call'
        OBVIOUS
    <2>2. d = Continue(c, n) /\ c \in CallType
        BY <1>6, <1>8
    <2>3. /\ d \in CallType
          /\ InCall(new, d)
          /\ d = NoCall => new.index[c.name] = c.target
          /\ d # NoCall => Same(c, d)
          /\ d.popping => c.popping
        BY <1>9, <2>1, <2>2, ContinueLocated
    <2> QED BY <1>8, <2>3
<1> QED BY <1>8, <1>10 DEF Same

(* The store with the header to be pushed, new or not.                     *)
Ready(st, b, stored) ==
    /\ Good(stored) /\ b \in DOMAIN stored.blk /\ stored.blk[b].validation # "failed"
    /\ stored.index = st.index /\ stored.assert = st.assert
    /\ DOMAIN stored.blk = DOMAIN st.blk \cup {b}
    /\ \A c \in DOMAIN st.blk : stored.blk[c] = st.blk[c]

(* push_header stores a new header, and leaves a known one that has not    *)
(* failed.                                                                 *)
LEMMA HeaderReady ==
    ASSUME NEW st, Good(st), NEW b \in Blocks,
           b \in DOMAIN st.blk => st.blk[b].validation # "failed",
           NEW stored, stored = IF b \in DOMAIN st.blk THEN st ELSE StoreHeader(st, b)
    PROVE  Ready(st, b, stored)
<1>1. CASE b \in DOMAIN st.blk
    <2>1. stored = st
        BY <1>1
    <2> QED BY <1>1, <2>1 DEF Ready
<1>2. CASE b \notin DOMAIN st.blk
    <2>1. stored = StoreHeader(st, b)
        BY <1>2
    <2>2. /\ Good(stored) /\ b \in DOMAIN stored.blk /\ stored.blk[b] = NewHeader
          /\ stored.index = st.index /\ stored.assert = st.assert
          /\ Rest(st, stored, b)
        BY <1>2, <2>1, HeaderGood
    <2>3. stored.blk[b].validation # "failed"
        BY <2>2 DEF NewHeader
    <2>4. /\ DOMAIN stored.blk = DOMAIN st.blk \cup {b}
          /\ \A c \in DOMAIN st.blk : stored.blk[c] = st.blk[c]
        BY <1>2, <2>2 DEF Rest
    <2> QED BY <2>2, <2>3, <2>4 DEF Ready
<1> QED BY <1>1, <1>2

(* The states of the other blocks agree there as before, and that of the   *)
(* header if it is confirmed.                                              *)
LEMMA ReadyMatching ==
    ASSUME NEW st, Good(st), NEW dis, Matching(st, dis, {}), NEW b, NEW stored, Ready(st, b, stored)
    PROVE  /\ Matching(stored, dis, {b})
           /\ b \in ToSet(stored.index["confirmed"]) => stored.blk[b].validation = "valid"
<1>1. /\ stored.index = st.index /\ DOMAIN stored.blk = DOMAIN st.blk \cup {b}
      /\ \A c \in DOMAIN st.blk : stored.blk[c] = st.blk[c]
      /\ ToSet(st.index["confirmed"]) \subseteq DOMAIN st.blk
    BY DEF Ready, Good, Indexes
<1>2. Matching(stored, dis, {b})
    BY <1>1 DEF Matching, Matches
<1>3. ASSUME b \in ToSet(st.index["confirmed"]) PROVE stored.blk[b].validation = "valid"
    <2>1. b \in DOMAIN st.blk /\ stored.blk[b] = st.blk[b]
        BY <1>1, <1>3
    <2>2. Matches(st, dis, b)
        BY <2>1 DEF Matching
    <2> QED BY <1>3, <2>1, <2>2 DEF Matches
<1> QED BY <1>1, <1>2, <1>3

(* What push_header is about to push.                                      *)
LEMMA NextHeader ==
    ASSUME Sound, InProgress, call.name = "candidate", ~call.popping, NEW b, b = Head(call.incoming)
    PROVE  /\ b \in Blocks
           /\ b \in DOMAIN store.blk => store.blk[b].validation # "failed"
           /\ call.height = Len(store.index["candidate"])
<1> PICK s : s = store.index["candidate"]
    OBVIOUS
<1>1. CallInv /\ InHeaders(store, call) /\ "candidate" \in Indexes
    BY DEF InProgress, HeadersInv, Indexes
<1>2. /\ b \in Blocks /\ s \in Seq(Blocks) /\ call.height = Len(s)
      /\ call.height + 1 \in 1..Len(call.target) /\ b = call.target[call.height + 1]
    BY <1>1, NextIncoming
<1> PICK n \in Nat : n = Len(s)
    BY <1>2
<1>3. n + 1 \in (n + 1)..Len(call.target)
    BY <1>2
<1> QED BY <1>1, <1>2, <1>3 DEF InHeaders

(* A header that is pushed is not confirmed in a settled store: that holds *)
(* candidates, and the header is higher than all of them.                  *)
LEMMA HeaderSettled ==
    ASSUME NEW st, Good(st), Settled(st), NEW b, NEW stored, Ready(st, b, stored),
           b \in Blocks, Len(Chain[b]) > Len(st.index["candidate"]),
           NEW new, new = Promote(stored, b, Len(stored.index["candidate"]), "candidate")
    PROVE  Settled(new)
<1>1. /\ Good(stored) /\ IsStore(stored) /\ b \in DOMAIN stored.blk
      /\ stored.index = st.index
      /\ \A c \in DOMAIN st.blk : stored.blk[c] = st.blk[c]
      /\ st.index["candidate"] \in Seq(Blocks) /\ Linked(st.index["candidate"])
      /\ ToSet(st.index["confirmed"]) \subseteq DOMAIN st.blk
      /\ "candidate" \in Indexes
    BY DEF Ready, Good, IsStore, Indexes
<1> PICK s \in Seq(Blocks) : s = st.index["candidate"]
    BY <1>1
<1>2. b \notin ToSet(s)
    BY <1>1, HigherIsOut
<1>3. Promoted(stored, b, "candidate", new)
    BY <1>1, PromoteDoes
<1>4. /\ new.index["candidate"] = Append(s, b)
      /\ new.index["confirmed"] = st.index["confirmed"]
      /\ \A c \in DOMAIN stored.blk : c # b => new.blk[c] = stored.blk[c]
    BY <1>1, <1>3 DEF Promoted, Rest, IsStore, Indexes
<1>5. ToSet(new.index["candidate"]) = ToSet(s) \cup {b}
    BY <1>1, <1>4, MembersAppend
<1>6. ASSUME NEW c \in ToSet(new.index["confirmed"])
      PROVE  c \in ToSet(new.index["candidate"]) /\ new.blk[c].confirmation = "confirmed"
    <2>1. c \in ToSet(s) /\ st.blk[c].confirmation = "confirmed" /\ c \in DOMAIN st.blk
        BY <1>1, <1>4 DEF Settled
    <2>2. c # b /\ stored.blk[c] = st.blk[c] /\ c \in DOMAIN stored.blk
        BY <1>1, <1>2, <2>1 DEF Ready
    <2> QED BY <1>4, <1>5, <2>1, <2>2
<1> QED BY <1>6 DEF Settled

(* push_header, when verify_push succeeds.                                 *)
LEMMA HeaderPushed ==
    ASSUME Sound, InProgress, ~aborted, call.name = "candidate", ~call.popping,
           NEW b, b = Head(call.incoming), displaced' = displaced \ {b},
           NEW stored, Ready(store, b, stored),
           NEW new, new = Promote(stored, b, Len(stored.index["candidate"]), "candidate"),
           NEW newTable, Write(new, newTable), call' = AfterPush
    PROVE  /\ Sound' /\ InProgress' /\ aborted' = aborted
           /\ call' = NoCall => store'.index["candidate"] = call.target
<1> PICK s : s = store.index["candidate"]
    OBVIOUS
<1>1. /\ Good(store) /\ Matching(store, displaced, {}) /\ store.assert
      /\ displaced \subseteq DOMAIN store.blk
      /\ debug => Settled(store)
      /\ "candidate" \in Indexes /\ "confirmed" \in Indexes
    BY DEF Sound, Indexes
<1>2. CallInv /\ InHeaders(store, call)
    BY DEF InProgress, HeadersInv
<1>3. /\ b \in Blocks /\ s \in Seq(Blocks) /\ call.height = Len(s)
      /\ Len(Chain[b]) = Len(s) + 1
      /\ \A i \in 1..Len(s) : s[i] = Chain[b][i]
    BY <1>1, <1>2, NextIncoming
<1> PICK n \in Nat : n = Len(s)
    BY <1>3
<1> PICK t : t = call.target
    OBVIOUS
<1>4. \A i \in (n + 1)..Len(t) : t[i] \in DOMAIN store.blk => store.blk[t[i]].validation # "failed"
    BY <1>2, <1>3 DEF InHeaders
<1>5. /\ Good(stored) /\ b \in DOMAIN stored.blk /\ stored.blk[b].validation # "failed"
      /\ stored.index = store.index /\ stored.assert = store.assert
      /\ DOMAIN stored.blk = DOMAIN store.blk \cup {b}
      /\ \A c \in DOMAIN store.blk : stored.blk[c] = store.blk[c]
    BY DEF Ready
<1>6. stored.index["candidate"] = s
    BY <1>5
<1>7. Good(new)
    BY <1>1, <1>3, <1>5, <1>6, PushGood
<1>8. new.assert
    <2>1. new.assert = stored.assert
        BY <1>1, <1>5, PushAsserts
    <2> QED BY <1>1, <1>5, <2>1
<1>9. Matching(new, displaced \ {b}, {})
    <2>1. /\ Matching(stored, displaced, {b})
          /\ b \in ToSet(stored.index["confirmed"]) => stored.blk[b].validation = "valid"
        BY <1>1, ReadyMatching
    <2> QED BY <1>1, <1>5, <2>1, PushMatching
<1>10. Keeps(stored, new, "candidate") /\ new.index["candidate"] = Append(s, b)
    <2>1. IsStore(stored)
        BY <1>5 DEF Good
    <2>2. b \in DOMAIN stored.blk /\ "candidate" \in Indexes
        BY <1>1, <1>5
    <2>3. Keeps(stored, new, "candidate") /\ new.index["candidate"] = Append(stored.index["candidate"], b)
        BY <2>1, <2>2, PushKeeps
    <2> QED BY <1>6, <2>3
<1>11. /\ call' \in CallType
       /\ InCall(new, call')
       /\ call' = NoCall => new.index["candidate"] = call.target
       /\ call' # NoCall =>
             /\ call'.name = "candidate" /\ ~call'.popping
             /\ call'.height = call.height + 1 /\ call'.target = call.target
    <2>1. IsStore(new)
        BY <1>7 DEF Good
    <2> QED BY <1>1, <1>2, <1>10, <2>1, PushCall
<1>12. debug => Settled(new)
    <2>1. Len(Chain[b]) > Len(store.index["candidate"])
        BY <1>3
    <2> QED BY <1>1, <1>3, <2>1, HeaderSettled
<1>13. /\ Sound' /\ store'.blk = new.blk /\ store'.index = new.index /\ debug' = debug
       /\ aborted' = aborted
    <2>1. Matching(new, displaced', {}) /\ displaced' \subseteq DOMAIN new.blk
        BY <1>1, <1>5, <1>9, <1>10 DEF Keeps
    <2> QED BY <1>7, <1>8, <1>11, <1>12, <2>1, WriteSound
<1>14. CallInv'
    BY <1>11, <1>13 DEF CallInv, InCall, Located
<1>15. HeadersInv'
    <2> SUFFICES ASSUME call'.name = "candidate" PROVE InHeaders(store, call)'
        BY DEF HeadersInv, InHeaders
    <2>1. call'.height = n + 1 /\ call'.target = t
        BY <1>3, <1>11, NoCallType DEF Indexes
    <2>2. /\ DOMAIN store'.blk = DOMAIN stored.blk
          /\ \A c \in DOMAIN stored.blk : store'.blk[c].validation = stored.blk[c].validation
        <3>1. store'.blk = new.blk
            BY <1>13
        <3>2. /\ DOMAIN new.blk = DOMAIN stored.blk
              /\ \A c \in DOMAIN stored.blk : new.blk[c].validation = stored.blk[c].validation
            BY <1>10 DEF Keeps
        <3> QED BY <3>1, <3>2
    <2>3. ASSUME NEW i \in (n + 2)..Len(t), t[i] \in DOMAIN store'.blk
          PROVE  store'.blk[t[i]].validation # "failed"
        <3>1. i \in (n + 1)..Len(t)
            OBVIOUS
        <3>2. stored.blk[t[i]].validation # "failed"
            BY <1>4, <1>5, <2>2, <2>3, <3>1
        <3> QED BY <2>2, <2>3, <3>2
    <2>4. call'.height + 1 = n + 2
        BY <2>1
    <2> QED BY <2>1, <2>3, <2>4 DEF InHeaders
<1>16. BlocksInv'
    BY <1>11, NoCallType DEF BlocksInv, InBlocks, Indexes
<1> QED BY <1>11, <1>13, <1>14, <1>15, <1>16 DEF InProgress

(* push_header.                                                            *)
LEMMA PushHeaderKeeps ==
    ASSUME Sound, InProgress, PushHeader
    PROVE  /\ Sound' /\ InProgress' /\ aborted' = aborted
           /\ call' = NoCall => store'.index[call.name] = call.target
<1> PICK b : b = Head(call.incoming)
    OBVIOUS
<1> PICK stored : stored = IF b \in DOMAIN blk THEN store ELSE StoreHeader(store, b)
    OBVIOUS
<1> PICK new : new = Promote(stored, b, call.height, "candidate")
    OBVIOUS
<1>1. /\ call.name = "candidate" /\ ~call.popping /\ ~aborted
      /\ \/ Write(new, table) /\ call' = AfterPush /\ displaced' = displaced \ {b}
         \/ Write(store, table) /\ call' = FailedCall /\ displaced' = displaced
    <2>1. /\ call.name = "candidate" /\ ~call.popping /\ ~aborted
          /\ displaced' = IF debug => Follows(cand, b, call.height) THEN displaced \ {b} ELSE displaced
          /\ Write(IF debug => Follows(cand, b, call.height) THEN new ELSE store, table)
          /\ call' = IF debug => Follows(cand, b, call.height) THEN AfterPush ELSE FailedCall
        BY Zenon DEF PushHeader, Pushing
    <2>2. CASE debug => Follows(cand, b, call.height)
        BY <2>1, <2>2
    <2>3. CASE ~(debug => Follows(cand, b, call.height))
        BY <2>1, <2>3
    <2> QED BY <2>1, <2>2, <2>3
<1>2. CASE Write(store, table) /\ call' = FailedCall /\ displaced' = displaced
    BY <1>1, <1>2, FailureKeeps
<1>3. CASE Write(new, table) /\ call' = AfterPush /\ displaced' = displaced \ {b}
    <2>1. /\ b \in Blocks
          /\ b \in DOMAIN store.blk => store.blk[b].validation # "failed"
          /\ call.height = Len(store.index["candidate"])
        BY <1>1, NextHeader
    <2>2. stored = IF b \in DOMAIN store.blk THEN store ELSE StoreHeader(store, b)
        BY DEF blk
    <2>3. Ready(store, b, stored)
        BY <2>1, <2>2, HeaderReady DEF Sound
    <2>4. new = Promote(stored, b, Len(stored.index["candidate"]), "candidate")
        BY <2>1, <2>3 DEF Ready
    <2> QED BY <1>1, <1>3, <2>3, <2>4, HeaderPushed
<1> QED BY <1>1, <1>2, <1>3

(* push_block, when its transactions are confirmed.                        *)
LEMMA BlockPushed ==
    ASSUME Sound, InProgress, ~aborted, call.name = "confirmed", ~call.popping,
           NEW b, b = Head(call.incoming), displaced' = displaced \ {b},
           NEW new, new = Promote(store, b, Len(store.index["confirmed"]), "confirmed"),
           NEW newTable, Write(new, newTable), call' = AfterPush
    PROVE  /\ Sound' /\ InProgress' /\ aborted' = aborted
           /\ call' = NoCall => store'.index["confirmed"] = call.target
<1> PICK u : u = store.index["confirmed"]
    OBVIOUS
<1> PICK s \in Seq(Blocks) : s = store.index["candidate"]
    BY DEF Sound, Good, IsStore, Indexes
<1>1. /\ Good(store) /\ IsStore(store) /\ store.assert
      /\ Matching(store, displaced, {}) /\ displaced \subseteq DOMAIN store.blk
      /\ debug => Settled(store)
      /\ "candidate" \in Indexes /\ "confirmed" \in Indexes
    BY DEF Sound, Good, Indexes
<1>2. CallInv /\ InBlocks(store, call)
    BY DEF InProgress, BlocksInv
<1>3. /\ b \in Blocks /\ u \in Seq(Blocks) /\ call.height = Len(u)
      /\ call.height + 1 \in 1..Len(call.target) /\ b = call.target[call.height + 1]
      /\ Len(Chain[b]) = Len(u) + 1
      /\ \A i \in 1..Len(u) : u[i] = Chain[b][i]
    <2>1. NextIs(b, u, call.height)
        BY <1>2, NextConfirmed
    <2> QED BY <2>1 DEF NextIs
<1> PICK t \in Seq(Blocks) : t = call.target
    BY DEF Sound, CallType
<1>4. \A i \in 1..Len(t) :
          /\ t[i] \in DOMAIN store.blk /\ store.blk[t[i]].validation = "valid"
          /\ debug => t[i] \in ToSet(s)
    BY <1>2 DEF InBlocks
<1>5. b \in DOMAIN store.blk /\ store.blk[b].validation = "valid" /\ (debug => b \in ToSet(s))
    BY <1>3, <1>4
<1>6. s # <<>>
    <2>1. u # <<>>
        <3>1. call.height \in 1..Len(call.target)
            BY <1>1, <1>2 DEF CallInv, InCall, Located
        <3> QED BY <1>3, <3>1, EmptySeq
    <2> QED BY <1>1, <2>1 DEF Good
<1>7. Good(new)
    BY <1>1, <1>3, <1>5, <1>6, PushGood
<1>8. new.assert
    <2>1. new.assert = store.assert
        BY <1>1, <1>5, PushAsserts
    <2> QED BY <1>1, <2>1
<1>9. Matching(new, displaced \ {b}, {}) /\ (debug => Settled(new))
    <2>1. Matching(store, displaced, {b})
        BY <1>1 DEF Matching
    <2>2. Matching(new, displaced \ {b}, {})
        BY <1>1, <1>5, <2>1, PushMatching
    <2> QED BY <1>1, <1>5, <2>2, PushSettled
<1>10. Keeps(store, new, "confirmed") /\ new.index["confirmed"] = Append(u, b)
    BY <1>1, <1>5, PushKeeps
<1>11. /\ call' \in CallType
       /\ InCall(new, call')
       /\ call' = NoCall => new.index["confirmed"] = call.target
       /\ call' # NoCall =>
             /\ call'.name = "confirmed" /\ ~call'.popping
             /\ call'.height = call.height + 1 /\ call'.target = call.target
    <2>1. IsStore(new)
        BY <1>7 DEF Good
    <2> QED BY <1>1, <1>2, <1>10, <2>1, PushCall
<1>12. /\ Sound' /\ store'.blk = new.blk /\ store'.index = new.index /\ debug' = debug
       /\ aborted' = aborted
    <2>1. Matching(new, displaced', {}) /\ displaced' \subseteq DOMAIN new.blk
        BY <1>1, <1>9, <1>10 DEF Keeps
    <2> QED BY <1>7, <1>8, <1>9, <1>11, <2>1, WriteSound
<1>13. CallInv'
    BY <1>11, <1>12 DEF CallInv, InCall, Located
<1>14. HeadersInv'
    BY <1>11, NoCallType DEF HeadersInv, InHeaders, Indexes
<1>15. BlocksInv'
    <2> SUFFICES ASSUME call'.name = "confirmed" PROVE InBlocks(store, call)'
        BY DEF BlocksInv, InBlocks
    <2>1. ~call'.popping /\ call'.target = t
        BY <1>11, NoCallType DEF Indexes
    <2>2. /\ store'.index["candidate"] = s /\ DOMAIN store'.blk = DOMAIN store.blk
          /\ \A c \in DOMAIN store.blk : store'.blk[c].validation = store.blk[c].validation
        BY <1>1, <1>10, <1>12 DEF Keeps
    <2> QED BY <1>4, <1>12, <2>1, <2>2 DEF InBlocks
<1> QED BY <1>11, <1>12, <1>13, <1>14, <1>15 DEF InProgress

(* push_block.                                                             *)
LEMMA PushBlockKeeps ==
    ASSUME Sound, InProgress, PushBlock
    PROVE  /\ Sound' /\ InProgress' /\ aborted' = aborted
           /\ call' = NoCall => store'.index[call.name] = call.target
<1> PICK b : b = Head(call.incoming)
    OBVIOUS
<1> PICK new : new = Promote(store, b, call.height, "confirmed")
    OBVIOUS
<1>1. /\ call.name = "confirmed" /\ ~call.popping /\ ~aborted
      /\ \E newTable : \/ Write(new, newTable) /\ call' = AfterPush /\ displaced' = displaced \ {b}
                       \/ Write(store, newTable) /\ call' = FailedCall /\ displaced' = displaced
    <2> DEFINE verified == debug => Follows(conf, b, call.height)
               confirmed == IF verified THEN ConfirmAll(table, TxsOf[b], call.height) ELSE table
               done == verified /\ confirmed.ok
    <2>1. /\ call.name = "confirmed" /\ ~call.popping /\ ~aborted
          /\ displaced' = IF done THEN displaced \ {b} ELSE displaced
          /\ Write(IF done THEN new ELSE store, confirmed)
          /\ call' = IF done THEN AfterPush ELSE FailedCall
        BY Zenon DEF PushBlock, Pushing
    <2> HIDE DEF confirmed, done
    <2>2. CASE done
        BY <2>1, <2>2
    <2>3. CASE ~done
        BY <2>1, <2>3
    <2> QED BY <2>1, <2>2, <2>3
<1> PICK newTable : \/ Write(new, newTable) /\ call' = AfterPush /\ displaced' = displaced \ {b}
                    \/ Write(store, newTable) /\ call' = FailedCall /\ displaced' = displaced
    BY <1>1
<1>2. CASE Write(store, newTable) /\ call' = FailedCall /\ displaced' = displaced
    BY <1>1, <1>2, FailureKeeps
<1>3. CASE Write(new, newTable) /\ call' = AfterPush /\ displaced' = displaced \ {b}
    <2>1. call.height = Len(store.index["confirmed"])
        BY <1>1, NextIncoming DEF InProgress, Indexes
    <2>2. new = Promote(store, b, Len(store.index["confirmed"]), "confirmed")
        BY <2>1
    <2> QED BY <1>1, <1>3, <2>2, BlockPushed
<1> QED BY <1>2, <1>3

-----------------------------------------------------------------------------
(* The store is empty and nothing is in progress.                          *)
LEMMA InitInv == Init => Inv
<1> SUFFICES ASSUME Init PROVE Sound /\ InProgress
    BY InvIs
<1>1. /\ store = EmptyStore /\ call = NoCall /\ aborted \in BOOLEAN /\ debug \in BOOLEAN
      /\ displaced = {}
    BY DEF Init
<1>2. InProgress
    BY <1>1, NoCallType DEF InProgress, CallInv, HeadersInv, BlocksInv, InCall, InHeaders, InBlocks, Indexes
<1> PICK yes \in BOOLEAN : yes = TRUE
    OBVIOUS
<1> DEFINE none == [i \in Indexes |-> <<>>]
<1>3. store = [blk |-> <<>>, index |-> none, ok |-> yes, assert |-> yes]
    BY <1>1, Zenon DEF EmptyStore
<1>4. store.blk = <<>> /\ store.index = none /\ store.ok = yes /\ store.assert = yes
    BY <1>3
<1>5. none \in [Indexes -> Seq(Blocks)] /\ \A i \in Indexes : none[i] = <<>>
    OBVIOUS
<1>6. DOMAIN <<>> = {} /\ <<>> \in [{} -> BlockStates] /\ ToSet(<<>>) = {}
    BY DEF ToSet
<1> HIDE DEF none
<1>7. IsStore(store)
    BY <1>3, <1>4, <1>5, <1>6 DEF IsStore
<1>8. Good(store)
    BY <1>4, <1>5, <1>6, <1>7 DEF Good, Linked, Indexes
<1>9. Matching(store, displaced, {})
    BY <1>4, <1>6 DEF Matching
<1>10. Settled(store)
    BY <1>4, <1>5, <1>6 DEF Settled, Indexes
<1>11. call \in CallType /\ displaced \subseteq DOMAIN store.blk
    BY <1>1, NoCallType
<1> QED BY <1>1, <1>2, <1>4, <1>8, <1>9, <1>10, <1>11 DEF Sound

(* A reorganization that ends with success ends with its target.           *)
Ends == call.name \in Indexes /\ call' = NoCall /\ ~Restart => store'.index[call.name] = call.target

(* Every step keeps the invariant, ends a reorganization as it should, and *)
(* fails an assertion only where one may.                                  *)
LEMMA NextKeeps == ASSUME Inv, [Next]_vars
                   PROVE  Inv' /\ Ends /\ Asserted
<1>0. Sound /\ InProgress
    BY InvIs
<1> SUFFICES Sound' /\ InProgress' /\ Ends /\ Asserted
    <2>1. Sound' /\ InProgress' => Inv'
        BY InvIs, PTL
    <2> QED BY <2>1
<1>1. ASSUME NEW b \in Blocks, Push(b) PROVE Sound' /\ InProgress' /\ Ends /\ Asserted
    <2>1. call.name \notin Indexes
        BY <1>1, IdleCall DEF Push
    <2> QED BY <1>0, <1>1, <2>1, PushKeepsInv DEF Ends, Asserted
<1>2. ASSUME NEW b \in Blocks, Update(b) PROVE Sound' /\ InProgress' /\ Ends /\ Asserted
    BY <1>0, <1>2, UpdateKeeps, NoCallType DEF Ends, Asserted
<1>3. ASSUME NEW b \in Blocks, Invalidate(b) PROVE Sound' /\ InProgress' /\ Ends /\ Asserted
    <2>1. call.name \notin Indexes
        BY <1>3, IdleCall, Zenon DEF Invalidate
    <2> QED BY <1>0, <1>3, <2>1, InvalidateKeeps DEF Ends, Asserted
<1>4. ASSUME NEW b \in Blocks, Candidate(b) PROVE Sound' /\ InProgress' /\ Ends /\ Asserted
    <2>1. call.name \notin Indexes
        BY <1>4, IdleCall, Zenon DEF Candidate
    <2> QED BY <1>0, <1>4, <2>1, CandidateKeeps DEF Ends, Asserted
<1>5. ASSUME NEW b \in Blocks, Confirm(b) PROVE Sound' /\ InProgress' /\ Ends /\ Asserted
    <2>1. call.name \notin Indexes
        BY <1>5, IdleCall DEF Confirm
    <2> QED BY <1>0, <1>5, <2>1, ConfirmKeeps DEF Ends, Asserted
<1>6. ASSUME NEW b \in Blocks, BeginBlocks(b) PROVE Sound' /\ InProgress' /\ Ends /\ Asserted
    <2>1. call.name \notin Indexes
        BY <1>6, IdleCall DEF BeginBlocks
    <2> QED BY <1>0, <1>6, <2>1, BeginBlocksKeeps DEF Ends, Asserted
<1>7. ASSUME NEW b \in Blocks, BeginHeaders(b) PROVE Sound' /\ InProgress' /\ Ends /\ Asserted
    <2>1. call.name \notin Indexes
        BY <1>7, IdleCall DEF BeginHeaders
    <2> QED BY <1>0, <1>7, <2>1, BeginHeadersKeeps DEF Ends, Asserted
<1>8. ASSUME NEW t \in Pool, StoreTx(t) PROVE Sound' /\ InProgress' /\ Ends /\ Asserted
    BY <1>0, <1>8, StoreTxKeeps, NoCallType DEF Ends, Asserted
<1>9. ASSUME NEW t \in Pool, CatalogTx(t) PROVE Sound' /\ InProgress' /\ Ends /\ Asserted
    BY <1>0, <1>9, CatalogTxKeeps, NoCallType DEF Ends, Asserted
<1>10. CASE PopHeader
    BY <1>0, <1>10, PopHeaderKeeps DEF Ends
<1>11. CASE PushHeader
    BY <1>0, <1>11, PushHeaderKeeps DEF Ends, Asserted
<1>12. CASE PopBlock
    BY <1>0, <1>12, PopBlockKeeps DEF Ends, Asserted
<1>13. CASE PushBlock
    BY <1>0, <1>13, PushBlockKeeps DEF Ends, Asserted
<1>14. CASE Restart
    BY <1>0, <1>14, RestartKeeps DEF Ends, Asserted
<1>15. CASE UNCHANGED vars
    <2>1. UNCHANGED <<debug, store, call, aborted, displaced>>
        BY <1>15 DEF vars
    <2>2. Sound'
        BY <1>0, <2>1, StillSound DEF Sound
    <2>3. InProgress'
        BY <1>0, <2>1, Undisturbed
    <2> QED BY <2>1, <2>2, <2>3, NoCallType DEF Ends, Asserted
<1> QED BY <1>1, <1>2, <1>3, <1>4, <1>5, <1>6, <1>7, <1>8, <1>9, <1>10, <1>11, <1>12, <1>13, <1>14,
          <1>15 DEF Next

(* The invariant holds in every state.                                     *)
LEMMA InvAlways == Spec => []Inv
<1>1. Inv /\ [Next]_vars => Inv'
    BY NextKeeps
<1> QED BY InitInv, <1>1, PTL DEF Spec

(* For any tree of blocks, both indexes are chains from genesis after      *)
(* every step: a pop or a push of a reorganization, a step of another      *)
(* thread between two of them, a failure, or a restart in the middle       *)
(* (data_base.cpp, pop_above, push_all).                                   *)
THEOREM ChainsStayLinked == Spec => []ChainsLinked
<1>1. Inv => ChainsLinked
    BY DEF Inv
<1> QED BY InvAlways, <1>1, PTL

(* In any build, the state of every block agrees with the two indexes that *)
(* share it, but where one of them has demoted what the other holds, and   *)
(* what is confirmed is valid (block_database.cpp, promote, demote).       *)
THEOREM StatesAgree == Spec => []StateMatchesIndex
<1>1. Inv => StateMatchesIndex
    BY DEF Inv
<1> QED BY InvAlways, <1>1, PTL

(* The only step that fails an assertion on the state of a block is        *)
(* pop_header of a header whose block is confirmed, or was popped from the *)
(* confirmed chain (block_database.cpp, update_validation_state,           *)
(* update_confirmation_state).                                             *)
THEOREM OnlyPopsOfConfirmedAssert == Spec => AssertionsHold
<1>1. Inv /\ [Next]_vars => Inv'
    BY NextKeeps
<1>2. Inv /\ [Next]_vars =>
         [aborted' # aborted =>
             /\ call.name = "candidate" /\ call.popping
             /\ Last(cand) \in ToSet(conf) \cup displaced]_vars
    BY NextKeeps DEF Asserted
<1> QED BY InitInv, <1>1, <1>2, PTL DEF Spec, AssertionsHold

(* A reorganization that returns success leaves the chain it was asked     *)
(* for, whatever other threads do between its steps (data_base.cpp,        *)
(* reorganize, pop_above, push_all).                                       *)
THEOREM ReorganizationReachesTarget == Spec => TargetReached
<1>1. Inv /\ [Next]_vars => Inv'
    BY NextKeeps
<1>2. Inv /\ [Next]_vars =>
         [call.name \in Indexes /\ call' = NoCall /\ ~Restart =>
             store'.index[call.name] = call.target]_vars
    BY NextKeeps DEF Ends
<1> QED BY InitInv, <1>1, <1>2, PTL DEF Spec, TargetReached
-----------------------------------------------------------------------------
(* Loops over data.  Least gives induction, with sets in the place of      *)
(* predicates, and so the recursive functions behind While.                *)

(* Induction up to n, for the numbers of a set.                            *)
LEMMA UpTo == ASSUME NEW n \in Nat, NEW P, 0 \in P, \A i \in 1..n : i - 1 \in P => i \in P
              PROVE  \A i \in 0..n : i \in P
<1> DEFINE T == {i \in 0..n : i \notin P}
<1>1. CASE T # {}
    <2>0. T \subseteq Nat
        OBVIOUS
    <2> PICK m \in T : \A k \in T : m <= k
        <3> HIDE DEF T
        <3> QED BY <1>1, <2>0, Least
    <2>1. m \in 1..n /\ m - 1 \in 0..n
        OBVIOUS
    <2>2. m - 1 \notin T
        BY <2>1
    <2> QED BY <2>1, <2>2
<1> QED BY <1>1

(* What holds before a loop and is kept by each round holds after it.      *)
LEMMA LoopHolds == ASSUME NEW n \in Nat, NEW f, NEW K, f[0] \in K[0],
                          \A i \in 1..n : f[i - 1] \in K[i - 1] => f[i] \in K[i]
                   PROVE  f[n] \in K[n]
<1> DEFINE P == {i \in 0..n : f[i] \in K[i]}
<1>1. 0 \in P /\ \A i \in 1..n : i - 1 \in P => i \in P
    OBVIOUS
<1> HIDE DEF P
<1>2. \A i \in 0..n : i \in P
    BY <1>1, UpTo, Zenon
<1>3. n \in P
    BY <1>2
<1> QED BY <1>3 DEF P

(* The recursive function of a loop exists: round i takes K[i - 1] to K[i]. *)
IsRun(f, n, start, F) == f = [i \in 0..n |-> IF i = 0 THEN start ELSE F[i][f[i - 1]]]

LEMMA LoopExists ==
    ASSUME NEW n \in Nat, NEW K, NEW F, NEW start \in K[0],
           \A i \in 1..n : \A e \in K[i - 1] : F[i][e] \in K[i]
    PROVE  \E f : IsRun(f, n, start, F) /\ \A i \in 0..n : f[i] \in K[i]
<1> DEFINE Round(f, i) == f[i] = IF i = 0 THEN start ELSE F[i][f[i - 1]]
           Upto(m) == \E f : /\ f = [i \in 0..m |-> f[i]]
                             /\ \A i \in 0..m : Round(f, i) /\ f[i] \in K[i]
           P == {m \in 0..n : Upto(m)}
<1>1. 0 \in P
    <2> DEFINE f == [i \in 0..0 |-> start]
    <2>1. f = [i \in 0..0 |-> f[i]] /\ f[0] = start /\ \A i \in 0..0 : i = 0
        OBVIOUS
    <2> HIDE DEF f
    <2>2. Upto(0)
        BY <2>1
    <2> QED BY <2>2
<1>2. ASSUME NEW m \in 1..n, m - 1 \in P PROVE m \in P
    <2> PICK f : /\ f = [i \in 0..(m - 1) |-> f[i]]
                 /\ \A i \in 0..(m - 1) : Round(f, i) /\ f[i] \in K[i]
        BY <1>2
    <2> DEFINE g == [i \in 0..m |-> IF i = m THEN F[m][f[m - 1]] ELSE f[i]]
    <2>1. g = [i \in 0..m |-> g[i]]
        OBVIOUS
    <2>2. ASSUME NEW i \in 0..m PROVE Round(g, i)
        BY SMTT(20)
    <2>3. ASSUME NEW i \in 0..m PROVE g[i] \in K[i]
        <3>1. f[m - 1] \in K[m - 1]
            OBVIOUS
        <3>2. CASE i = m
            BY <3>1, <3>2
        <3>3. CASE i # m
            BY <3>3
        <3> QED BY <3>2, <3>3
    <2> HIDE DEF g
    <2>4. Upto(m)
        BY <2>1, <2>2, <2>3
    <2>5. m \in 0..n
        OBVIOUS
    <2> HIDE DEF Upto
    <2> QED BY <2>4, <2>5
<1> HIDE DEF P
<1>3. \A m \in 0..n : m \in P
    BY <1>1, <1>2, UpTo, Zenon
<1>4. n \in P
    BY <1>3
<1>5. PICK f : f = [i \in 0..n |-> f[i]] /\ \A i \in 0..n : Round(f, i) /\ f[i] \in K[i]
    BY <1>4 DEF P
<1>6. f = [i \in 0..n |-> IF i = 0 THEN start ELSE F[i][f[i - 1]]]
    BY <1>5
<1> QED BY <1>5, <1>6 DEF IsRun

-----------------------------------------------------------------------------
(* The transaction table.                                                  *)

Flags == BOOLEAN
Marks == [candidateSpent : Flags, spender : Nat]
Rows(t) == [height : HeightValues, position : Nat, candidate : Flags, outputs : [Outputs(t) -> Marks]]
AnyRow == UNION {Rows(t) : t \in Txs}
Entries == [height : Nat, confirmed : Flags, outputs : SUBSET Nat, sequence : Nat]
Caches == [map : UNION {[S -> Entries] : S \in SUBSET Txs}, sequence : Nat]

Tables ==
    {d \in [tx : UNION {[S -> AnyRow] : S \in SUBSET Txs}, cache : Caches, ok : BOOLEAN] :
        \A t \in DOMAIN d.tx : d.tx[t] \in Rows(t)}

(* What a table is.                                                        *)
LEMMA TableIs ==
    ASSUME NEW d \in Tables
    PROVE  /\ d = [tx |-> d.tx, cache |-> d.cache, ok |-> d.ok]
           /\ DOMAIN d.tx \subseteq Txs
           /\ d.tx = [t \in DOMAIN d.tx |-> d.tx[t]]
           /\ \A t \in DOMAIN d.tx : d.tx[t] \in Rows(t)
           /\ d.cache \in Caches
           /\ d.ok \in BOOLEAN
<1>1. /\ d \in [tx : UNION {[S -> AnyRow] : S \in SUBSET Txs}, cache : Caches, ok : BOOLEAN]
      /\ \A t \in DOMAIN d.tx : d.tx[t] \in Rows(t)
    BY DEF Tables
<1>2. PICK S \in SUBSET Txs : d.tx \in [S -> AnyRow]
    BY <1>1
<1> QED BY <1>1, <1>2

(* A table from its parts.                                                 *)
LEMMA TableOf ==
    ASSUME NEW S \in SUBSET Txs, NEW f, f = [t \in S |-> f[t]], \A t \in S : f[t] \in Rows(t),
           NEW c \in Caches, NEW k \in BOOLEAN
    PROVE  [tx |-> f, cache |-> c, ok |-> k] \in Tables
<1>1. \A t \in S : f[t] \in AnyRow
    BY DEF AnyRow
<1>2. f \in [S -> AnyRow]
    BY <1>1
<1>3. f \in UNION {[R -> AnyRow] : R \in SUBSET Txs}
    BY <1>2
<1>4. [tx |-> f, cache |-> c, ok |-> k]
          \in [tx : UNION {[R -> AnyRow] : R \in SUBSET Txs}, cache : Caches, ok : BOOLEAN]
    BY <1>3
<1>5. DOMAIN f = S
    OBVIOUS
<1> QED BY <1>4, <1>5 DEF Tables

(* A table with one row replaced.                                          *)
SetRow(d, t, r) == [d EXCEPT !.tx = [@ EXCEPT ![t] = r]]

RowSet(d, t, r, n) ==
    /\ n \in Tables /\ n.ok = d.ok /\ n.cache = d.cache
    /\ DOMAIN n.tx = DOMAIN d.tx
    /\ n.tx[t] = r
    /\ \A s \in DOMAIN d.tx : s # t => n.tx[s] = d.tx[s]

LEMMA SetRowDoes ==
    ASSUME NEW d \in Tables, NEW t \in DOMAIN d.tx, NEW r \in Rows(t)
    PROVE  RowSet(d, t, r, SetRow(d, t, r))
<1> DEFINE f == [d.tx EXCEPT ![t] = r]
           n == [tx |-> f, cache |-> d.cache, ok |-> d.ok]
<1>1. /\ d = [tx |-> d.tx, cache |-> d.cache, ok |-> d.ok]
      /\ DOMAIN d.tx \subseteq Txs
      /\ d.tx = [s \in DOMAIN d.tx |-> d.tx[s]]
      /\ \A s \in DOMAIN d.tx : d.tx[s] \in Rows(s)
      /\ d.cache \in Caches
      /\ d.ok \in BOOLEAN
    BY TableIs
<1>2. DOMAIN f = DOMAIN d.tx /\ f[t] = r /\ \A s \in DOMAIN d.tx : s # t => f[s] = d.tx[s]
    BY <1>1
<1>3. SetRow(d, t, r) = n
    BY <1>1 DEF SetRow
<1>4. f = [s \in DOMAIN d.tx |-> f[s]]
    BY <1>1
<1>5. \A s \in DOMAIN d.tx : f[s] \in Rows(s)
    <2> HIDE DEF f
    <2> QED BY <1>1, <1>2
<1> HIDE DEF f
<1>6. n \in Tables
    BY <1>1, <1>4, <1>5, TableOf
<1>7. n.tx = f /\ n.cache = d.cache /\ n.ok = d.ok
    OBVIOUS
<1> HIDE DEF n
<1>8. RowSet(d, t, r, n)
    BY <1>2, <1>6, <1>7 DEF RowSet
<1> QED BY <1>3, <1>8

(* A table with another result.                                            *)
LEMMA SetOkDoes ==
    ASSUME NEW d \in Tables, NEW k \in BOOLEAN
    PROVE  /\ [d EXCEPT !.ok = k] = [tx |-> d.tx, cache |-> d.cache, ok |-> k]
           /\ [d EXCEPT !.ok = k] \in Tables
<1>1. d = [tx |-> d.tx, cache |-> d.cache, ok |-> d.ok]
    BY TableIs
<1>2. [d EXCEPT !.ok = k] = [tx |-> d.tx, cache |-> d.cache, ok |-> k]
    BY <1>1
<1>3. [tx |-> d.tx, cache |-> d.cache, ok |-> k] \in Tables
    BY TableIs, TableOf
<1> QED BY <1>2, <1>3

LEMMA FailedDoes ==
    ASSUME NEW d \in Tables
    PROVE  /\ Failed(d) \in Tables /\ ~Failed(d).ok
           /\ Failed(d).tx = d.tx /\ Failed(d).cache = d.cache
<1> PICK no \in BOOLEAN : no = FALSE
    OBVIOUS
<1>1. Failed(d) = [d EXCEPT !.ok = no]
    BY Zenon DEF Failed
<1>2. Failed(d) = [tx |-> d.tx, cache |-> d.cache, ok |-> no] /\ Failed(d) \in Tables
    BY <1>1, SetOkDoes, Zenon
<1> QED BY <1>2

(* Heights, of a record.                                                   *)
LEMMA HeightsAreNat == /\ HeightValues \subseteq Nat
                       /\ Unverified \in HeightValues /\ Forks \in HeightValues
                       /\ \A b \in Blocks : Height(b) \in HeightValues
<1>1. ASSUME NEW b \in Blocks PROVE Height(b) \in Nat
    BY ChainOf
<1> QED BY <1>1, TransactionAssumption, ChainAssumption DEF HeightValues

-----------------------------------------------------------------------------
(* Candidate marks.                                                        *)

(* Row r is row q of transaction t with the mark set to v if t is of T,    *)
(* and the marks of the outputs of P; where the loop has failed, some are. *)
MarkedRow(t, q, r, done, T, P, v) ==
    /\ r.height = q.height
    /\ r.position = q.position
    /\ r.candidate = q.candidate \/ (t \in T /\ r.candidate = v)
    /\ done /\ t \in T => r.candidate = v
    /\ \A i \in Outputs(t) :
          /\ r.outputs[i].spender = q.outputs[i].spender
          /\ \/ r.outputs[i].candidateSpent = q.outputs[i].candidateSpent
             \/ <<t, i>> \in P /\ r.outputs[i].candidateSpent = v
          /\ done /\ <<t, i>> \in P => r.outputs[i].candidateSpent = v

(* Table e is d with the marks of T and P set to v.                        *)
Marking(d, e, T, P, v) ==
    /\ e \in Tables
    /\ DOMAIN e.tx = DOMAIN d.tx
    /\ e.cache = d.cache
    /\ e.ok <=> \A p \in P : HasOutput(d, p)
    /\ \A t \in DOMAIN d.tx : MarkedRow(t, d.tx[t], e.tx[t], e.ok, T, P, v)

Markings(d, T, P, v) == {e \in Tables : Marking(d, e, T, P, v)}

(* Before the loop.                                                        *)
LEMMA MarkingStart == ASSUME NEW d \in Tables, d.ok, NEW v
                      PROVE  d \in Markings(d, {}, {}, v)
<1> PICK none : none = {}
    OBVIOUS
<1>1. ASSUME NEW t \in DOMAIN d.tx PROVE MarkedRow(t, d.tx[t], d.tx[t], d.ok, none, none, v)
    <2> PICK q : q = d.tx[t]
        OBVIOUS
    <2>1. t \notin none /\ \A i : <<t, i>> \notin none
        OBVIOUS
    <2>2. MarkedRow(t, q, q, d.ok, none, none, v)
        BY <2>1, Zenon DEF MarkedRow
    <2> QED BY <2>2
<1>2. \A p \in none : HasOutput(d, p)
    OBVIOUS
<1>3. Marking(d, d, none, none, v)
    BY <1>1, <1>2 DEF Marking
<1> QED BY <1>3 DEF Markings

(* After a failure nothing more is written.                                *)
LEMMA MarkingStopped ==
    ASSUME NEW d, NEW T, NEW P, NEW v, NEW e \in Markings(d, T, P, v), ~e.ok, NEW U, NEW Q,
           T \subseteq U, P \subseteq Q
    PROVE  e \in Markings(d, U, Q, v)
<1>1. e \in Tables /\ Marking(d, e, T, P, v)
    BY DEF Markings
<1>2. ASSUME NEW t \in DOMAIN d.tx PROVE MarkedRow(t, d.tx[t], e.tx[t], e.ok, U, Q, v)
    BY <1>1 DEF MarkedRow, Marking
<1>3. ~\A p \in Q : HasOutput(d, p)
    BY <1>1 DEF Marking
<1>4. Marking(d, e, U, Q, v)
    BY <1>1, <1>2, <1>3 DEF Marking
<1> QED BY <1>1, <1>4 DEF Markings

(* candidate_spend, of an output that there is.                            *)
SpendMarked(e, t, k, v, n) ==
    /\ n \in Tables /\ n.ok = e.ok /\ n.cache = e.cache
    /\ DOMAIN n.tx = DOMAIN e.tx
    /\ \A s \in DOMAIN e.tx : s # t => n.tx[s] = e.tx[s]
    /\ n.tx[t].height = e.tx[t].height
    /\ n.tx[t].position = e.tx[t].position
    /\ n.tx[t].candidate = e.tx[t].candidate
    /\ \A i \in Outputs(t) :
          /\ n.tx[t].outputs[i].spender = e.tx[t].outputs[i].spender
          /\ n.tx[t].outputs[i].candidateSpent =
                IF i = k THEN v ELSE e.tx[t].outputs[i].candidateSpent

LEMMA CandidateSpendDoes ==
    ASSUME NEW e \in Tables, NEW t \in DOMAIN e.tx, NEW k \in Outputs(t), NEW v \in Flags
    PROVE  SpendMarked(e, t, k, v, CandidateSpend(e, <<t, k>>, v))
<1> DEFINE row == e.tx[t]
           mark == [candidateSpent |-> v, spender |-> row.outputs[k].spender]
           new == [height |-> row.height, position |-> row.position, candidate |-> row.candidate,
                   outputs |-> [row.outputs EXCEPT ![k] = mark]]
           n == CandidateSpend(e, <<t, k>>, v)
<1>1. /\ e = [tx |-> e.tx, cache |-> e.cache, ok |-> e.ok]
      /\ e.tx = [s \in DOMAIN e.tx |-> e.tx[s]]
      /\ row \in Rows(t) /\ t \in Txs
    BY TableIs
<1>2. OutputsOf[t] \in Nat
    BY <1>1, CacheAssumption
<1>3. row.outputs[k] = [candidateSpent |-> row.outputs[k].candidateSpent, spender |-> row.outputs[k].spender]
    BY <1>1 DEF Rows, Marks
<1>4. new \in Rows(t)
    BY <1>1, <1>3 DEF Rows, Marks
<1>5. HasOutput(e, <<t, k>>)
    BY <1>2 DEF HasOutput, Outputs
<1>6. n = [e EXCEPT !.tx[t].outputs[k].candidateSpent = v]
    BY <1>5 DEF CandidateSpend
<1>7. [row EXCEPT !.outputs[k].candidateSpent = v] = new
    BY <1>1, <1>3 DEF Rows, Marks
<1>8. n = SetRow(e, t, new)
    BY <1>1, <1>6, <1>7 DEF SetRow
<1>9. /\ \A i \in Outputs(t) : new.outputs[i] = IF i = k THEN mark ELSE row.outputs[i]
      /\ new.height = row.height /\ new.position = row.position /\ new.candidate = row.candidate
    BY <1>1 DEF Rows
<1> HIDE DEF new, n
<1>10. RowSet(e, t, new, n)
    BY <1>4, <1>8, SetRowDoes
<1> QED BY <1>9, <1>10 DEF n, RowSet, SpendMarked

(* The elements of a list up to a place.                                   *)
Firsts(s, n) == {s[j] : j \in 1..n}

LEMMA FirstsAre ==
    ASSUME NEW S, NEW s \in Seq(S)
    PROVE  /\ Firsts(s, 0) = {}
           /\ \A i \in 1..Len(s) : Firsts(s, i) = Firsts(s, i - 1) \cup {s[i]}
           /\ Firsts(s, Len(s)) = ToSet(s)
<1>1. Firsts(s, 0) = {}
    BY DEF Firsts
<1>2. ASSUME NEW i \in 1..Len(s) PROVE Firsts(s, i) = Firsts(s, i - 1) \cup {s[i]}
    BY DEF Firsts
<1>3. DOMAIN s = 1..Len(s)
    OBVIOUS
<1>4. Firsts(s, Len(s)) = ToSet(s)
    BY <1>3 DEF Firsts, ToSet
<1> QED BY <1>1, <1>2, <1>4

(* What a set of transactions spends.                                      *)
LEMMA SpendsAre ==
    ASSUME NEW T, NEW t
    PROVE  Spends({}) = {} /\ Spends(T \cup {t}) = Spends(T) \cup ToSet(InputsOf[t])
BY DEF Spends

(* candidate_spend of one more previous output.                            *)
LEMMA MarkPoint ==
    ASSUME NEW d, NEW T, NEW P, NEW v \in Flags, NEW e \in Markings(d, T, P, v), e.ok,
           NEW p \in Txs \X Nat
    PROVE  CandidateSpend(e, p, v) \in Markings(d, T, P \cup {p}, v)
<1>0. e \in Tables /\ Marking(d, e, T, P, v)
    BY DEF Markings
<1>1. /\ DOMAIN e.tx = DOMAIN d.tx /\ e.cache = d.cache /\ \A q \in P : HasOutput(d, q)
      /\ \A t \in DOMAIN d.tx : MarkedRow(t, d.tx[t], e.tx[t], e.ok, T, P, v)
    BY <1>0 DEF Marking
<1>2. HasOutput(e, p) <=> HasOutput(d, p)
    BY <1>1 DEF HasOutput
<1>3. CASE ~HasOutput(e, p)
    <2> PICK n : n = Failed(e)
        OBVIOUS
    <2>1. CandidateSpend(e, p, v) = n
        BY <1>3 DEF CandidateSpend
    <2>2. n \in Tables /\ ~n.ok /\ n.tx = e.tx /\ n.cache = e.cache
        BY <1>0, FailedDoes
    <2>3. ASSUME NEW t \in DOMAIN d.tx PROVE MarkedRow(t, d.tx[t], n.tx[t], n.ok, T, P \cup {p}, v)
        BY <1>1, <2>2 DEF MarkedRow
    <2>4. Marking(d, n, T, P \cup {p}, v)
        BY <1>1, <1>2, <1>3, <2>2, <2>3 DEF Marking
    <2> QED BY <2>1, <2>2, <2>4 DEF Markings
<1>4. CASE HasOutput(e, p)
    <2> PICK t \in Txs, k \in Nat : p = <<t, k>>
        OBVIOUS
    <2>1. t \in DOMAIN e.tx /\ k \in Outputs(t)
        BY <1>4, CacheAssumption DEF HasOutput, Outputs
    <2> PICK n : n = CandidateSpend(e, p, v)
        OBVIOUS
    <2>2. SpendMarked(e, t, k, v, n)
        BY <1>0, <2>1, CandidateSpendDoes
    <2>3. ASSUME NEW s \in DOMAIN d.tx, s # t PROVE MarkedRow(s, d.tx[s], n.tx[s], n.ok, T, P \cup {p}, v)
        <3>1. \A i : <<s, i>> # p
            BY <2>3
        <3>2. MarkedRow(s, d.tx[s], e.tx[s], e.ok, T, P, v) /\ n.tx[s] = e.tx[s]
            BY <1>1, <2>2, <2>3 DEF SpendMarked
        <3>3. n.ok = e.ok
            BY <2>2 DEF SpendMarked
        <3> QED BY <3>1, <3>2, <3>3 DEF MarkedRow
    <2>4. MarkedRow(t, d.tx[t], n.tx[t], n.ok, T, P \cup {p}, v)
        <3>1. \A i : <<t, i>> = p <=> i = k
            OBVIOUS
        <3>2. MarkedRow(t, d.tx[t], e.tx[t], e.ok, T, P, v)
            BY <1>1, <2>1
        <3>3. /\ n.ok = e.ok
              /\ n.tx[t].height = e.tx[t].height
              /\ n.tx[t].position = e.tx[t].position
              /\ n.tx[t].candidate = e.tx[t].candidate
              /\ \A i \in Outputs(t) :
                    /\ n.tx[t].outputs[i].spender = e.tx[t].outputs[i].spender
                    /\ i = k => n.tx[t].outputs[i].candidateSpent = v
                    /\ i # k => n.tx[t].outputs[i].candidateSpent = e.tx[t].outputs[i].candidateSpent
            BY <2>2 DEF SpendMarked
        <3> QED BY <3>1, <3>2, <3>3 DEF MarkedRow
    <2>5. \A s \in DOMAIN d.tx : MarkedRow(s, d.tx[s], n.tx[s], n.ok, T, P \cup {p}, v)
        BY <2>3, <2>4
    <2>6. Marking(d, n, T, P \cup {p}, v)
        BY <1>1, <1>2, <1>4, <2>2, <2>5 DEF Marking, SpendMarked
    <2> QED BY <2>2, <2>6 DEF Markings, SpendMarked
<1> QED BY <1>3, <1>4

(* candidize.                                                              *)
Candidize(e, t, v) == [e EXCEPT !.tx[t].candidate = v]

LEMMA CandidizeDoes ==
    ASSUME NEW e \in Tables, NEW t \in DOMAIN e.tx, NEW v \in Flags
    PROVE  RowSet(e, t, [e.tx[t] EXCEPT !.candidate = v], Candidize(e, t, v))
<1> DEFINE new == [e.tx[t] EXCEPT !.candidate = v]
<1>1. /\ e = [tx |-> e.tx, cache |-> e.cache, ok |-> e.ok]
      /\ e.tx = [s \in DOMAIN e.tx |-> e.tx[s]]
      /\ e.tx[t] \in Rows(t)
    BY TableIs
<1>2. new \in Rows(t)
    BY <1>1 DEF Rows
<1>3. Candidize(e, t, v) = SetRow(e, t, new)
    BY <1>1 DEF SetRow, Candidize
<1> HIDE DEF new
<1>4. RowSet(e, t, new, SetRow(e, t, new))
    BY <1>2, SetRowDoes
<1> QED BY <1>3, <1>4 DEF new

LEMMA MarkTx ==
    ASSUME NEW d, NEW T, NEW P, NEW v \in Flags, NEW e \in Markings(d, T, P, v), e.ok,
           NEW t \in DOMAIN d.tx
    PROVE  Candidize(e, t, v) \in Markings(d, T \cup {t}, P, v)
<1>0. e \in Tables /\ Marking(d, e, T, P, v)
    BY DEF Markings
<1> PICK n : n = Candidize(e, t, v)
    OBVIOUS
<1>1. /\ DOMAIN e.tx = DOMAIN d.tx /\ e.cache = d.cache /\ \A q \in P : HasOutput(d, q)
      /\ \A s \in DOMAIN d.tx : MarkedRow(s, d.tx[s], e.tx[s], e.ok, T, P, v)
    BY <1>0 DEF Marking
<1> PICK q : q = e.tx[t]
    OBVIOUS
<1> PICK r : r = [q EXCEPT !.candidate = v]
    OBVIOUS
<1>2. RowSet(e, t, r, n)
    BY <1>0, <1>1, CandidizeDoes
<1>3. q \in Rows(t)
    BY <1>0, <1>1, TableIs
<1>4. r.height = q.height /\ r.position = q.position /\ r.candidate = v /\ r.outputs = q.outputs
    BY <1>3 DEF Rows
<1>5. ASSUME NEW s \in DOMAIN d.tx, s # t PROVE MarkedRow(s, d.tx[s], n.tx[s], n.ok, T \cup {t}, P, v)
    <2>1. MarkedRow(s, d.tx[s], e.tx[s], e.ok, T, P, v) /\ n.tx[s] = e.tx[s]
        BY <1>1, <1>2, <1>5 DEF RowSet
    <2> QED BY <1>2, <1>5, <2>1 DEF MarkedRow, RowSet
<1>6. MarkedRow(t, d.tx[t], n.tx[t], n.ok, T \cup {t}, P, v)
    <2>1. MarkedRow(t, d.tx[t], e.tx[t], e.ok, T, P, v)
        BY <1>1
    <2>2. n.tx[t] = r /\ n.ok = e.ok
        BY <1>2 DEF RowSet
    <2> PICK old : old = d.tx[t]
        OBVIOUS
    <2>3. MarkedRow(t, old, q, TRUE, T, P, v)
        BY <2>1
    <2>4. MarkedRow(t, old, r, TRUE, T \cup {t}, P, v)
        <3>1. t \in T \cup {t}
            OBVIOUS
        <3>2. r.height = old.height /\ r.position = old.position
            BY <1>4, <2>3 DEF MarkedRow
        <3>3. ASSUME NEW i \in Outputs(t)
              PROVE  /\ r.outputs[i].spender = old.outputs[i].spender
                     /\ \/ r.outputs[i].candidateSpent = old.outputs[i].candidateSpent
                        \/ <<t, i>> \in P /\ r.outputs[i].candidateSpent = v
                     /\ <<t, i>> \in P => r.outputs[i].candidateSpent = v
            BY <1>4, <2>3 DEF MarkedRow
        <3> QED BY <1>4, <3>1, <3>2, <3>3, Zenon DEF MarkedRow
    <2> QED BY <2>2, <2>4
<1>7. \A s \in DOMAIN d.tx : MarkedRow(s, d.tx[s], n.tx[s], n.ok, T \cup {t}, P, v)
    BY <1>5, <1>6
<1>8. Marking(d, n, T \cup {t}, P, v)
    BY <1>1, <1>2, <1>7 DEF Marking, RowSet
<1> QED BY <1>2, <1>8 DEF Markings, RowSet

(* candidate or uncandidate of one more transaction: the loop over its     *)
(* previous outputs, then candidize.                                       *)
LEMMA CandidateTxDoes ==
    ASSUME NEW d, NEW T, NEW P, NEW v \in Flags, NEW e \in Markings(d, T, P, v), e.ok,
           NEW t \in Txs, t \in DOMAIN d.tx
    PROVE  CandidateTx(e, t, v) \in Markings(d, T \cup {t}, P \cup ToSet(InputsOf[t]), v)
<1> DEFINE list == InputsOf[t]
           n == Len(list)
           Step(x, i) == IF x.ok THEN CandidateSpend(x, list[i], v) ELSE x
           K == [i \in 0..n |-> Markings(d, T, P \cup Firsts(list, i), v)]
           F == [i \in 1..n |-> [x \in K[i - 1] |-> Step(x, i)]]
           Eq(f) == f = [i \in 0..n |-> IF i = 0 THEN e ELSE Step(f[i - 1], i)]
           after == CHOOSE f : Eq(f)
<1>1. CandidateTx(e, t, v) = IF ~after[n].ok THEN after[n] ELSE Candidize(after[n], t, v)
    BY DEF CandidateTx, Candidize, While
<1>2. list \in Seq(Txs \X Nat) /\ n \in Nat /\ \A i \in 1..n : list[i] \in Txs \X Nat
    BY TransactionAssumption
<1> HIDE DEF list
<1>3. /\ Firsts(list, 0) = {} /\ Firsts(list, n) = ToSet(list)
      /\ \A i \in 1..n : Firsts(list, i) = Firsts(list, i - 1) \cup {list[i]}
    BY <1>2, FirstsAre
<1> HIDE DEF n
<1>4. \A i \in 0..n : K[i] = Markings(d, T, P \cup Firsts(list, i), v)
    OBVIOUS
<1> HIDE DEF K
<1>5. e \in K[0]
    <2>1. P \cup Firsts(list, 0) = P
        BY <1>3
    <2> QED BY <1>2, <1>4, <2>1
<1>6. ASSUME NEW i \in 1..n, NEW x \in K[i - 1] PROVE Step(x, i) \in K[i]
    <2> PICK Q : Q = P \cup Firsts(list, i - 1)
        OBVIOUS
    <2>1. x \in Markings(d, T, Q, v) /\ list[i] \in Txs \X Nat
        BY <1>2, <1>4
    <2>2. K[i] = Markings(d, T, Q \cup {list[i]}, v)
        <3>1. Q \cup {list[i]} = P \cup Firsts(list, i)
            BY <1>3
        <3>2. K[i] = Markings(d, T, P \cup Firsts(list, i), v)
            BY <1>2, <1>4
        <3> QED BY <3>1, <3>2
    <2>3. CASE x.ok
        BY <2>1, <2>2, <2>3, MarkPoint
    <2>4. CASE ~x.ok
        BY <2>1, <2>2, <2>4, MarkingStopped
    <2> QED BY <2>3, <2>4
<1> HIDE DEF Step
<1>7. after[n] \in K[n]
    <2>1. \A i \in 1..n : \A x \in K[i - 1] : F[i][x] = Step(x, i)
        OBVIOUS
    <2> HIDE DEF F
    <2>2. \A i \in 1..n : \A x \in K[i - 1] : F[i][x] \in K[i]
        BY <1>6, <2>1
    <2>3. PICK f : IsRun(f, n, e, F) /\ \A i \in 0..n : f[i] \in K[i]
        BY <1>2, <1>5, <2>2, LoopExists, Zenon
    <2>4. Eq(f)
        <3>1. ASSUME NEW i \in 1..n PROVE F[i][f[i - 1]] = Step(f[i - 1], i)
            BY <1>2, <2>1, <2>3
        <3>2. ASSUME NEW i \in 0..n PROVE f[i] = IF i = 0 THEN e ELSE Step(f[i - 1], i)
            <4>1. f[i] = IF i = 0 THEN e ELSE F[i][f[i - 1]]
                BY <2>3 DEF IsRun
            <4>2. CASE i # 0
                BY <1>2, <3>1, <4>1, <4>2
            <4> QED BY <4>1, <4>2
        <3>3. f = [i \in 0..n |-> f[i]]
            BY <2>3 DEF IsRun
        <3> QED BY <3>2, <3>3
    <2>5. Eq(after)
        <3> HIDE DEF Eq
        <3> QED BY <2>4, Zenon
    <2> HIDE DEF after
    <2>6. after[0] = e /\ \A i \in 1..n : after[i] = Step(after[i - 1], i)
        BY <1>2, <2>5
    <2>7. ASSUME NEW i \in 1..n, after[i - 1] \in K[i - 1] PROVE after[i] \in K[i]
        BY <1>6, <2>6, <2>7
    <2>8. after[0] \in K[0]
        BY <1>5, <2>6
    <2> QED BY <1>2, <2>7, <2>8, LoopHolds, Zenon
<1> PICK done : done = after[n]
    OBVIOUS
<1>8. done \in Markings(d, T, P \cup ToSet(list), v)
    <2>1. K[n] = Markings(d, T, P \cup ToSet(list), v)
        BY <1>2, <1>3, <1>4
    <2> QED BY <1>7, <2>1
<1> HIDE DEF after
<1>9. CASE done.ok
    <2>1. CandidateTx(e, t, v) = Candidize(done, t, v)
        BY <1>1, <1>9
    <2>2. CandidateTx(e, t, v) \in Markings(d, T \cup {t}, P \cup ToSet(list), v)
        BY <1>8, <1>9, <2>1, MarkTx
    <2> QED BY <2>2 DEF list
<1>10. CASE ~done.ok
    <2>1. CandidateTx(e, t, v) = done
        BY <1>1, <1>10
    <2> QED BY <1>8, <1>10, <2>1, MarkingStopped DEF list
<1> QED BY <1>9, <1>10

(* candidate(block) and uncandidate: the loop over the transactions.       *)
LEMMA CandidateAllDoes ==
    ASSUME NEW d \in Tables, d.ok, NEW v \in Flags, NEW txs \in Seq(Txs), ToSet(txs) \subseteq DOMAIN d.tx
    PROVE  CandidateAll(d, txs, v) \in Markings(d, ToSet(txs), Spends(ToSet(txs)), v)
<1> DEFINE n == Len(txs)
           Step(x, i) == IF x.ok THEN CandidateTx(x, txs[i], v) ELSE x
           K == [i \in 0..n |-> Markings(d, Firsts(txs, i), Spends(Firsts(txs, i)), v)]
           F == [i \in 1..n |-> [x \in K[i - 1] |-> Step(x, i)]]
           Eq(f) == f = [i \in 0..n |-> IF i = 0 THEN d ELSE Step(f[i - 1], i)]
           after == CHOOSE f : Eq(f)
<1>1. CandidateAll(d, txs, v) = after[n]
    BY DEF CandidateAll, While
<1>2. n \in Nat /\ \A i \in 1..n : txs[i] \in Txs /\ txs[i] \in DOMAIN d.tx
    BY DEF ToSet
<1>3. /\ Firsts(txs, 0) = {} /\ Firsts(txs, n) = ToSet(txs)
      /\ \A i \in 1..n : Firsts(txs, i) = Firsts(txs, i - 1) \cup {txs[i]}
    BY FirstsAre
<1> HIDE DEF n
<1>4. \A i \in 0..n : K[i] = Markings(d, Firsts(txs, i), Spends(Firsts(txs, i)), v)
    OBVIOUS
<1> HIDE DEF K
<1>5. d \in K[0]
    <2>1. Spends({}) = {}
        BY SpendsAre
    <2>2. K[0] = Markings(d, Firsts(txs, 0), Spends(Firsts(txs, 0)), v)
        BY <1>2, <1>4
    <2> QED BY <1>3, <2>1, <2>2, MarkingStart
<1>6. ASSUME NEW i \in 1..n, NEW x \in K[i - 1] PROVE Step(x, i) \in K[i]
    <2> PICK T : T = Firsts(txs, i - 1)
        OBVIOUS
    <2> PICK t \in Txs : t = txs[i]
        BY <1>2
    <2>1. x \in Markings(d, T, Spends(T), v) /\ t \in DOMAIN d.tx
        BY <1>2, <1>4
    <2>2. K[i] = Markings(d, T \cup {t}, Spends(T) \cup ToSet(InputsOf[t]), v)
        <3>1. Spends(T \cup {t}) = Spends(T) \cup ToSet(InputsOf[t])
            BY SpendsAre
        <3>2. Firsts(txs, i) = T \cup {t}
            BY <1>3
        <3>3. K[i] = Markings(d, Firsts(txs, i), Spends(Firsts(txs, i)), v)
            BY <1>2, <1>4
        <3> QED BY <3>1, <3>2, <3>3
    <2>3. CASE x.ok
        BY <2>1, <2>2, <2>3, CandidateTxDoes
    <2>4. CASE ~x.ok
        BY <2>1, <2>2, <2>4, MarkingStopped
    <2> QED BY <2>3, <2>4
<1> HIDE DEF Step
<1>7. after[n] \in K[n]
    <2>1. \A i \in 1..n : \A x \in K[i - 1] : F[i][x] = Step(x, i)
        OBVIOUS
    <2> HIDE DEF F
    <2>2. \A i \in 1..n : \A x \in K[i - 1] : F[i][x] \in K[i]
        BY <1>6, <2>1
    <2>3. PICK f : IsRun(f, n, d, F) /\ \A i \in 0..n : f[i] \in K[i]
        BY <1>2, <1>5, <2>2, LoopExists, Zenon
    <2>4. Eq(f)
        <3>1. ASSUME NEW i \in 1..n PROVE F[i][f[i - 1]] = Step(f[i - 1], i)
            BY <1>2, <2>1, <2>3
        <3>2. ASSUME NEW i \in 0..n PROVE f[i] = IF i = 0 THEN d ELSE Step(f[i - 1], i)
            <4>1. f[i] = IF i = 0 THEN d ELSE F[i][f[i - 1]]
                BY <2>3 DEF IsRun
            <4>2. CASE i # 0
                BY <1>2, <3>1, <4>1, <4>2
            <4> QED BY <4>1, <4>2
        <3>3. f = [i \in 0..n |-> f[i]]
            BY <2>3 DEF IsRun
        <3> QED BY <3>2, <3>3
    <2>5. Eq(after)
        <3> HIDE DEF Eq
        <3> QED BY <2>4, Zenon
    <2> HIDE DEF after
    <2>6. after[0] = d /\ \A i \in 1..n : after[i] = Step(after[i - 1], i)
        BY <1>2, <2>5
    <2>7. ASSUME NEW i \in 1..n, after[i - 1] \in K[i - 1] PROVE after[i] \in K[i]
        BY <1>6, <2>6, <2>7
    <2>8. after[0] \in K[0]
        BY <1>5, <2>6
    <2> QED BY <1>2, <2>7, <2>8, LoopHolds, Zenon
<1>8. K[n] = Markings(d, ToSet(txs), Spends(ToSet(txs)), v)
    BY <1>2, <1>3, <1>4
<1> QED BY <1>1, <1>7, <1>8

-----------------------------------------------------------------------------
(* Stored transactions.                                                    *)

(* Table e is d with new rows for the transactions of T.                   *)
Storing(d, e, T, h) ==
    /\ e \in Tables /\ e.ok = d.ok /\ e.cache = d.cache
    /\ DOMAIN e.tx = DOMAIN d.tx \cup T
    /\ \A t \in DOMAIN d.tx : e.tx[t] = d.tx[t]
    /\ \A t \in T \ DOMAIN d.tx : e.tx[t] = NewRecord(t, h)

Storings(d, T, h) == {e \in Tables : Storing(d, e, T, h)}

(* A new row.                                                              *)
LEMMA NewRecordIs ==
    ASSUME NEW t \in Txs, NEW h \in HeightValues
    PROVE  /\ NewRecord(t, h) \in Rows(t)
           /\ NewRecord(t, h).height = h /\ NewRecord(t, h).position = Unconfirmed
           /\ ~NewRecord(t, h).candidate
           /\ \A i \in Outputs(t) : /\ ~NewRecord(t, h).outputs[i].candidateSpent
                                    /\ NewRecord(t, h).outputs[i].spender = NotSpent
<1> PICK no \in Flags : no = FALSE
    BY DEF Flags
<1> DEFINE mark == [candidateSpent |-> no, spender |-> NotSpent]
           marks == [i \in Outputs(t) |-> mark]
           row == [height |-> h, position |-> Unconfirmed, candidate |-> no, outputs |-> marks]
<1>1. NewRecord(t, h) = row
    BY Zenon DEF NewRecord
<1>2. mark \in Marks /\ mark.candidateSpent = no /\ mark.spender = NotSpent
    BY TransactionAssumption DEF Marks
<1> HIDE DEF mark
<1>3. marks \in [Outputs(t) -> Marks] /\ \A i \in Outputs(t) : marks[i] = mark
    BY <1>2
<1> HIDE DEF marks
<1>4. /\ row \in Rows(t) /\ row.height = h /\ row.position = Unconfirmed /\ row.candidate = no
      /\ row.outputs = marks
    BY <1>3, TransactionAssumption DEF Rows
<1> HIDE DEF row
<1> QED BY <1>1, <1>2, <1>3, <1>4

(* storize.                                                                *)
LEMMA StorizeDoes ==
    ASSUME NEW d, NEW h \in HeightValues, NEW T, NEW e \in Storings(d, T, h), NEW t \in Txs
    PROVE  Storize(e, t, h) \in Storings(d, T \cup {t}, h)
<1>1. e \in Tables /\ Storing(d, e, T, h)
    BY DEF Storings
<1>2. CASE t \in DOMAIN e.tx
    <2>1. Storize(e, t, h) = e
        BY <1>2 DEF Storize
    <2>2. Storing(d, e, T \cup {t}, h)
        BY <1>1, <1>2 DEF Storing
    <2> QED BY <1>1, <2>1, <2>2 DEF Storings
<1>3. CASE t \notin DOMAIN e.tx
    <2> PICK row \in Rows(t) : row = NewRecord(t, h)
        BY NewRecordIs
    <2> DEFINE all == [s \in DOMAIN e.tx \cup {t} |-> IF s = t THEN row ELSE e.tx[s]]
               n == [tx |-> all, cache |-> e.cache, ok |-> e.ok]
    <2>1. /\ e = [tx |-> e.tx, cache |-> e.cache, ok |-> e.ok]
          /\ DOMAIN e.tx \subseteq Txs
          /\ e.tx = [s \in DOMAIN e.tx |-> e.tx[s]]
          /\ \A s \in DOMAIN e.tx : e.tx[s] \in Rows(s)
          /\ e.cache \in Caches
          /\ e.ok \in BOOLEAN
        BY <1>1, TableIs
    <2>2. Storize(e, t, h) = [e EXCEPT !.tx = all]
        BY <1>3 DEF Storize
    <2>3. /\ DOMAIN all = DOMAIN e.tx \cup {t} /\ all[t] = row
          /\ \A s \in DOMAIN e.tx : all[s] = e.tx[s]
          /\ all = [s \in DOMAIN e.tx \cup {t} |-> all[s]]
        BY <1>3
    <2> HIDE DEF all
    <2>4. Storize(e, t, h) = n
        BY <2>1, <2>2
    <2>5. n \in Tables
        <3> PICK S \in SUBSET Txs : S = DOMAIN e.tx \cup {t}
            BY <2>1
        <3>1. \A s \in S : all[s] \in Rows(s)
            BY <2>1, <2>3
        <3> QED BY <2>1, <2>3, <3>1, TableOf
    <2>6. n.tx = all /\ n.cache = e.cache /\ n.ok = e.ok
        OBVIOUS
    <2> HIDE DEF n
    <2>7. Storing(d, n, T \cup {t}, h)
        <3>1. /\ e.ok = d.ok /\ e.cache = d.cache /\ DOMAIN e.tx = DOMAIN d.tx \cup T
              /\ \A s \in DOMAIN d.tx : e.tx[s] = d.tx[s]
              /\ \A s \in T \ DOMAIN d.tx : e.tx[s] = NewRecord(s, h)
            BY <1>1 DEF Storing
        <3>2. DOMAIN n.tx = DOMAIN d.tx \cup (T \cup {t})
            BY <2>3, <2>6, <3>1
        <3>3. \A s \in DOMAIN d.tx : n.tx[s] = d.tx[s]
            BY <2>3, <2>6, <3>1
        <3>4. ASSUME NEW s \in (T \cup {t}) \ DOMAIN d.tx PROVE n.tx[s] = NewRecord(s, h)
            BY <2>3, <2>6, <3>1
        <3> QED BY <2>5, <2>6, <3>1, <3>2, <3>3, <3>4 DEF Storing
    <2> QED BY <2>4, <2>5, <2>7 DEF Storings
<1> QED BY <1>2, <1>3

(* store(transactions).                                                    *)
LEMMA StoreAllDoes ==
    ASSUME NEW d \in Tables, d.ok, NEW txs \in Seq(Txs), Unverified \in HeightValues
    PROVE  StoreAll(d, txs) \in Storings(d, ToSet(txs), Unverified)
<1> DEFINE n == Len(txs)
           Step(x, i) == IF x.ok THEN Storize(x, txs[i], Unverified) ELSE x
           K == [i \in 0..n |-> Storings(d, Firsts(txs, i), Unverified)]
           F == [i \in 1..n |-> [x \in K[i - 1] |-> Step(x, i)]]
           Eq(f) == f = [i \in 0..n |-> IF i = 0 THEN d ELSE Step(f[i - 1], i)]
           after == CHOOSE f : Eq(f)
<1>1. StoreAll(d, txs) = after[n]
    BY DEF StoreAll, While
<1>2. n \in Nat /\ \A i \in 1..n : txs[i] \in Txs
    OBVIOUS
<1>3. /\ Firsts(txs, 0) = {} /\ Firsts(txs, n) = ToSet(txs)
      /\ \A i \in 1..n : Firsts(txs, i) = Firsts(txs, i - 1) \cup {txs[i]}
    BY FirstsAre
<1> HIDE DEF n
<1>4. \A i \in 0..n : K[i] = Storings(d, Firsts(txs, i), Unverified)
    OBVIOUS
<1> HIDE DEF K
<1>5. d \in K[0]
    <2>1. Storing(d, d, {}, Unverified)
        BY DEF Storing
    <2>2. K[0] = Storings(d, Firsts(txs, 0), Unverified)
        BY <1>2, <1>4
    <2> QED BY <1>3, <2>1, <2>2 DEF Storings
<1>6. ASSUME NEW i \in 1..n, NEW x \in K[i - 1] PROVE Step(x, i) \in K[i]
    <2> PICK T : T = Firsts(txs, i - 1)
        OBVIOUS
    <2> PICK t \in Txs : t = txs[i]
        BY <1>2
    <2>1. x \in Storings(d, T, Unverified) /\ x.ok
        <3>1. x \in Storings(d, T, Unverified)
            BY <1>2, <1>4
        <3> QED BY <3>1 DEF Storings, Storing
    <2>2. K[i] = Storings(d, T \cup {t}, Unverified)
        <3>1. K[i] = Storings(d, Firsts(txs, i), Unverified)
            BY <1>2, <1>4
        <3> QED BY <1>3, <3>1
    <2> QED BY <2>1, <2>2, StorizeDoes
<1> HIDE DEF Step
<1>7. after[n] \in K[n]
    <2>1. \A i \in 1..n : \A x \in K[i - 1] : F[i][x] = Step(x, i)
        OBVIOUS
    <2> HIDE DEF F
    <2>2. \A i \in 1..n : \A x \in K[i - 1] : F[i][x] \in K[i]
        BY <1>6, <2>1
    <2>3. PICK f : IsRun(f, n, d, F) /\ \A i \in 0..n : f[i] \in K[i]
        BY <1>2, <1>5, <2>2, LoopExists, Zenon
    <2>4. Eq(f)
        <3>1. ASSUME NEW i \in 1..n PROVE F[i][f[i - 1]] = Step(f[i - 1], i)
            BY <1>2, <2>1, <2>3
        <3>2. ASSUME NEW i \in 0..n PROVE f[i] = IF i = 0 THEN d ELSE Step(f[i - 1], i)
            <4>1. f[i] = IF i = 0 THEN d ELSE F[i][f[i - 1]]
                BY <2>3 DEF IsRun
            <4>2. CASE i # 0
                BY <1>2, <3>1, <4>1, <4>2
            <4> QED BY <4>1, <4>2
        <3>3. f = [i \in 0..n |-> f[i]]
            BY <2>3 DEF IsRun
        <3> QED BY <3>2, <3>3
    <2>5. Eq(after)
        <3> HIDE DEF Eq
        <3> QED BY <2>4, Zenon
    <2> HIDE DEF after
    <2>6. after[0] = d /\ \A i \in 1..n : after[i] = Step(after[i - 1], i)
        BY <1>2, <2>5
    <2>7. ASSUME NEW i \in 1..n, after[i - 1] \in K[i - 1] PROVE after[i] \in K[i]
        BY <1>6, <2>6, <2>7
    <2>8. after[0] \in K[0]
        BY <1>5, <2>6
    <2> QED BY <1>2, <2>7, <2>8, LoopHolds, Zenon
<1>8. K[n] = Storings(d, ToSet(txs), Unverified)
    BY <1>2, <1>3, <1>4
<1> QED BY <1>1, <1>7, <1>8

-----------------------------------------------------------------------------
(* The cache.                                                              *)

(* What a cache is.                                                        *)
LEMMA CacheIs ==
    ASSUME NEW c \in Caches
    PROVE  /\ c = [map |-> c.map, sequence |-> c.sequence]
           /\ DOMAIN c.map \subseteq Txs
           /\ \A t \in DOMAIN c.map : c.map[t] \in Entries
           /\ c.sequence \in Nat
<1>1. PICK S \in SUBSET Txs : c.map \in [S -> Entries]
    BY DEF Caches
<1> QED BY <1>1 DEF Caches

(* A cache from its parts.                                                 *)
LEMMA CacheOf ==
    ASSUME NEW S \in SUBSET Txs, NEW m, m = [t \in S |-> m[t]], \A t \in S : m[t] \in Entries,
           NEW k \in Nat
    PROVE  [map |-> m, sequence |-> k] \in Caches
<1>1. m \in [S -> Entries]
    OBVIOUS
<1> QED BY <1>1 DEF Caches

(* The entries left when add() has made room.                              *)
LEMMA RoomIs ==
    ASSUME NEW c \in Caches
    PROVE  /\ DOMAIN Room(c) \subseteq DOMAIN c.map
           /\ \A t \in DOMAIN Room(c) : Room(c)[t] = c.map[t]
<1> DEFINE map == IF c.sequence = MaxSequence THEN <<>> ELSE c.map
<1>1. DOMAIN map \subseteq DOMAIN c.map /\ \A t \in DOMAIN map : map[t] = c.map[t]
    <2>1. DOMAIN <<>> = {}
        OBVIOUS
    <2> QED BY <2>1
<1>2. Room(c) = map \/ \E x : Room(c) = Without(map, x)
    BY DEF Room
<1> HIDE DEF map
<1>3. CASE Room(c) = map
    BY <1>1, <1>3
<1>4. ASSUME NEW x, Room(c) = Without(map, x)
      PROVE  /\ DOMAIN Room(c) \subseteq DOMAIN c.map
             /\ \A t \in DOMAIN Room(c) : Room(c)[t] = c.map[t]
    BY <1>1, <1>4 DEF Without, Restrict
<1> QED BY <1>2, <1>3, <1>4

(* Every entry of n is one of c, or is of a transaction of T and says h    *)
(* and k.                                                                  *)
EntriesFrom(c, n, T, h, k) ==
    /\ n \in Caches
    /\ \A t \in DOMAIN n.map :
          \/ t \in DOMAIN c.map /\ n.map[t] = c.map[t]
          \/ t \in T /\ n.map[t].height = h /\ n.map[t].confirmed = k

(* add(tx).                                                                *)
LEMMA AddTxDoes ==
    ASSUME NEW c \in Caches, NEW t \in Txs, NEW h \in Nat, NEW k \in Flags
    PROVE  EntriesFrom(c, AddTx(c, t, h, k), {t}, h, k)
<1> DEFINE sequence == (c.sequence + 1) % (MaxSequence + 1)
           entry == Entry(t, h, k, sequence)
           room == Room(c)
           S == DOMAIN room \cup {t}
           map == [s \in S |-> IF s \in DOMAIN room THEN room[s] ELSE entry]
           n == [map |-> map, sequence |-> sequence]
<1>1. AddTx(c, t, h, k) = IF Disabled \/ OutputsOf[t] = 0 THEN c ELSE n
    BY DEF AddTx
<1>2. EntriesFrom(c, c, {t}, h, k)
    BY DEF EntriesFrom
<1>3. EntriesFrom(c, n, {t}, h, k)
    <2>1. /\ DOMAIN c.map \subseteq Txs
          /\ \A s \in DOMAIN c.map : c.map[s] \in Entries
          /\ c.sequence \in Nat
        BY CacheIs
    <2>2. sequence \in Nat
        BY <2>1, CacheAssumption
    <2> HIDE DEF sequence
    <2>3. entry \in Entries /\ entry.height = h /\ entry.confirmed = k
        <3>1. OutputsOf[t] \in Nat
            BY CacheAssumption
        <3>2. 0..(OutputsOf[t] - 1) \in SUBSET Nat
            BY <3>1
        <3> QED BY <2>2, <3>2 DEF Entry, Entries
    <2> HIDE DEF entry
    <2>4. DOMAIN room \subseteq DOMAIN c.map /\ \A s \in DOMAIN room : room[s] = c.map[s]
        BY RoomIs
    <2> HIDE DEF room
    <2>5. /\ map = [s \in S |-> map[s]] /\ DOMAIN map = S
          /\ \A s \in S : \/ s \in DOMAIN c.map /\ map[s] = c.map[s]
                          \/ s = t /\ map[s] = entry
        BY <2>4
    <2>6. S \in SUBSET Txs
        BY <2>1, <2>4
    <2> HIDE DEF map, S
    <2>7. \A s \in S : map[s] \in Entries
        BY <2>1, <2>3, <2>5
    <2>8. n \in Caches
        BY <2>2, <2>5, <2>6, <2>7, CacheOf
    <2> QED BY <2>3, <2>5, <2>8 DEF EntriesFrom
<1> HIDE DEF n
<1> QED BY <1>1, <1>2, <1>3

(* remove(tx_hash).                                                        *)
EntriesLeft(c, n, T) ==
    /\ n \in Caches
    /\ \A t \in DOMAIN n.map : t \in DOMAIN c.map \ T /\ n.map[t] = c.map[t]

LEMMA RemoveTxDoes ==
    ASSUME NEW c \in Caches, NEW t
    PROVE  EntriesLeft(c, RemoveTx(c, t), {t})
<1> DEFINE S == DOMAIN c.map \ {t}
           map == [s \in S |-> c.map[s]]
           n == [map |-> map, sequence |-> c.sequence]
<1>1. /\ c = [map |-> c.map, sequence |-> c.sequence]
      /\ DOMAIN c.map \subseteq Txs
      /\ \A s \in DOMAIN c.map : c.map[s] \in Entries
      /\ c.sequence \in Nat
    BY CacheIs
<1>2. RemoveTx(c, t) = n
    BY <1>1 DEF RemoveTx, Without, Restrict
<1>3. DOMAIN map = S /\ S \in SUBSET Txs /\ map = [s \in S |-> map[s]] /\ \A s \in S : map[s] = c.map[s]
    BY <1>1
<1>4. \A s \in S : s \in DOMAIN c.map /\ s # t
    OBVIOUS
<1> HIDE DEF map, S
<1>5. \A s \in S : map[s] \in Entries
    BY <1>1, <1>3, <1>4
<1>6. n \in Caches
    BY <1>1, <1>3, <1>5, CacheOf
<1>7. n.map = map
    OBVIOUS
<1>8. EntriesLeft(c, n, {t})
    BY <1>3, <1>4, <1>6, <1>7 DEF EntriesLeft
<1> QED BY <1>2, <1>8

(* A table with another cache.                                             *)
SetCache(d, c) == [d EXCEPT !.cache = c]

CacheSet(d, c, n) == n \in Tables /\ n.tx = d.tx /\ n.cache = c /\ n.ok = d.ok

LEMMA SetCacheDoes ==
    ASSUME NEW d \in Tables, NEW c \in Caches
    PROVE  CacheSet(d, c, SetCache(d, c))
<1>1. d = [tx |-> d.tx, cache |-> d.cache, ok |-> d.ok]
    BY TableIs
<1>2. SetCache(d, c) = [tx |-> d.tx, cache |-> c, ok |-> d.ok]
    BY <1>1 DEF SetCache
<1>3. [tx |-> d.tx, cache |-> c, ok |-> d.ok] \in Tables
    BY TableIs, TableOf
<1> QED BY <1>2, <1>3 DEF CacheSet

-----------------------------------------------------------------------------
(* Confirmed transactions.                                                 *)

(* The spender that confirmed_spend writes.                                *)
SpenderAt(h) == IF h = Unverified THEN NotSpent ELSE h

(* Row r is row q of transaction t, confirmed at height h and at its       *)
(* place if t is of T, and with the outputs of P spent at h.               *)
ConfirmedRow(t, q, r, T, P, h, place) ==
    /\ t \in T => r.height = h /\ r.position = place[t] /\ ~r.candidate
    /\ t \notin T => r.height = q.height /\ r.position = q.position /\ r.candidate = q.candidate
    /\ \A i \in Outputs(t) :
          /\ r.outputs[i].candidateSpent = q.outputs[i].candidateSpent
          /\ <<t, i>> \in P => r.outputs[i].spender = SpenderAt(h)
          /\ <<t, i>> \notin P => r.outputs[i].spender = q.outputs[i].spender

(* Table e is d with the transactions of T confirmed and P spent.          *)
Confirming(d, e, T, P, h, place) ==
    /\ e.ok
    /\ DOMAIN e.tx = DOMAIN d.tx
    /\ \A t \in DOMAIN d.tx : ConfirmedRow(t, d.tx[t], e.tx[t], T, P, h, place)

(* All such tables with one of the caches of C.                            *)
Confirmings(d, C, T, P, h, place) ==
    {e \in Tables : e.cache \in C /\ Confirming(d, e, T, P, h, place)}

(* What confirmed_spend asks of a previous output, in d or confirmed since *)
(* then.                                                                   *)
Spendable(d, p, T, h) ==
    /\ HasOutput(d, p)
    /\ p[1] \in T \/ (d.tx[p[1]].position # Unconfirmed /\ d.tx[p[1]].height <= h)

LEMMA ConfirmingStart ==
    ASSUME NEW d \in Tables, d.ok, NEW h, NEW place, NEW C, d.cache \in C
    PROVE  d \in Confirmings(d, C, {}, {}, h, place)
<1> PICK none : none = {}
    OBVIOUS
<1>1. ASSUME NEW t \in DOMAIN d.tx PROVE ConfirmedRow(t, d.tx[t], d.tx[t], none, none, h, place)
    <2> PICK q : q = d.tx[t]
        OBVIOUS
    <2>1. t \notin none /\ \A i : <<t, i>> \notin none
        OBVIOUS
    <2>2. ConfirmedRow(t, q, q, none, none, h, place)
        BY <2>1, Zenon DEF ConfirmedRow
    <2> QED BY <2>2
<1>2. Confirming(d, d, none, none, h, place)
    BY <1>1 DEF Confirming
<1> QED BY <1>2 DEF Confirmings

(* confirmed_spend, when it succeeds.                                      *)
SpendConfirmed(e, t, k, s, n) ==
    /\ n \in Tables /\ n.ok = e.ok /\ n.cache = e.cache
    /\ DOMAIN n.tx = DOMAIN e.tx
    /\ \A u \in DOMAIN e.tx : u # t => n.tx[u] = e.tx[u]
    /\ n.tx[t].height = e.tx[t].height
    /\ n.tx[t].position = e.tx[t].position
    /\ n.tx[t].candidate = e.tx[t].candidate
    /\ \A i \in Outputs(t) :
          /\ n.tx[t].outputs[i].candidateSpent = e.tx[t].outputs[i].candidateSpent
          /\ n.tx[t].outputs[i].spender = IF i = k THEN s ELSE e.tx[t].outputs[i].spender

LEMMA ConfirmedSpendDoes ==
    ASSUME NEW e \in Tables, NEW t \in DOMAIN e.tx, NEW k \in Outputs(t), NEW h \in Nat,
           e.tx[t].position # Unconfirmed, e.tx[t].height <= h
    PROVE  SpendConfirmed(e, t, k, SpenderAt(h), ConfirmedSpend(e, <<t, k>>, h))
<1> DEFINE row == e.tx[t]
           s == SpenderAt(h)
           mark == [candidateSpent |-> row.outputs[k].candidateSpent, spender |-> s]
           new == [height |-> row.height, position |-> row.position, candidate |-> row.candidate,
                   outputs |-> [row.outputs EXCEPT ![k] = mark]]
           n == ConfirmedSpend(e, <<t, k>>, h)
<1>1. /\ e = [tx |-> e.tx, cache |-> e.cache, ok |-> e.ok]
      /\ e.tx = [u \in DOMAIN e.tx |-> e.tx[u]]
      /\ row \in Rows(t) /\ t \in Txs
    BY TableIs
<1>2. OutputsOf[t] \in Nat
    BY <1>1, CacheAssumption
<1>3. row.outputs[k] = [candidateSpent |-> row.outputs[k].candidateSpent, spender |-> row.outputs[k].spender]
    BY <1>1 DEF Rows, Marks
<1>4. s \in Nat
    BY TransactionAssumption DEF SpenderAt
<1>5. HasOutput(e, <<t, k>>)
    BY <1>2 DEF HasOutput, Outputs
<1>6. row.height \in Nat
    BY <1>1, HeightsAreNat DEF Rows
<1>7. n = [e EXCEPT !.tx[t].outputs[k].spender = s]
    BY <1>5, <1>6 DEF ConfirmedSpend, SpenderAt
<1> HIDE DEF s
<1>8. new \in Rows(t)
    BY <1>1, <1>3, <1>4 DEF Rows, Marks
<1>9. [row EXCEPT !.outputs[k].spender = s] = new
    BY <1>1, <1>3 DEF Rows, Marks
<1>10. n = SetRow(e, t, new)
    BY <1>1, <1>7, <1>9 DEF SetRow
<1>11. /\ \A i \in Outputs(t) : new.outputs[i] = IF i = k THEN mark ELSE row.outputs[i]
       /\ new.height = row.height /\ new.position = row.position /\ new.candidate = row.candidate
    BY <1>1 DEF Rows
<1> HIDE DEF new, n
<1>12. RowSet(e, t, new, n)
    BY <1>8, <1>10, SetRowDoes
<1> QED BY <1>11, <1>12 DEF n, s, RowSet, SpendConfirmed

(* confirmed_spend of one more previous output.                            *)
LEMMA ConfirmPoint ==
    ASSUME NEW d \in Tables, NEW C, NEW T, NEW P, NEW h \in Nat, NEW place,
           NEW e \in Confirmings(d, C, T, P, h, place),
           \A t \in T : place[t] # Unconfirmed,
           NEW p \in Txs \X Nat, Spendable(d, p, T, h)
    PROVE  ConfirmedSpend(e, p, h) \in Confirmings(d, C, T, P \cup {p}, h, place)
<1>1. /\ e \in Tables /\ e.cache \in C /\ e.ok /\ DOMAIN e.tx = DOMAIN d.tx
      /\ \A t \in DOMAIN d.tx : ConfirmedRow(t, d.tx[t], e.tx[t], T, P, h, place)
    BY DEF Confirmings, Confirming
<1> PICK t \in Txs, k \in Nat : p = <<t, k>>
    OBVIOUS
<1>2. t \in DOMAIN d.tx /\ k \in Outputs(t)
    BY CacheAssumption DEF Spendable, HasOutput, Outputs
<1>3. ConfirmedRow(t, d.tx[t], e.tx[t], T, P, h, place)
    BY <1>1, <1>2
<1>4. e.tx[t].position # Unconfirmed /\ e.tx[t].height <= h
    <2>1. CASE t \in T
        BY <1>3, <2>1 DEF ConfirmedRow
    <2>2. CASE t \notin T
        BY <1>3, <2>2 DEF ConfirmedRow, Spendable
    <2> QED BY <2>1, <2>2
<1> PICK n : n = ConfirmedSpend(e, p, h)
    OBVIOUS
<1>5. SpendConfirmed(e, t, k, SpenderAt(h), n)
    BY <1>1, <1>2, <1>4, ConfirmedSpendDoes
<1>6. ASSUME NEW u \in DOMAIN d.tx, u # t PROVE ConfirmedRow(u, d.tx[u], n.tx[u], T, P \cup {p}, h, place)
    <2>1. \A i : <<u, i>> # p
        BY <1>6
    <2>2. ConfirmedRow(u, d.tx[u], e.tx[u], T, P, h, place) /\ n.tx[u] = e.tx[u]
        BY <1>1, <1>5, <1>6 DEF SpendConfirmed
    <2> QED BY <2>1, <2>2 DEF ConfirmedRow
<1>7. ConfirmedRow(t, d.tx[t], n.tx[t], T, P \cup {p}, h, place)
    <2>1. \A i : <<t, i>> = p <=> i = k
        OBVIOUS
    <2> QED BY <1>3, <1>5, <2>1 DEF ConfirmedRow, SpendConfirmed
<1>8. \A u \in DOMAIN d.tx : ConfirmedRow(u, d.tx[u], n.tx[u], T, P \cup {p}, h, place)
    BY <1>6, <1>7
<1> QED BY <1>1, <1>5, <1>8 DEF Confirmings, Confirming, SpendConfirmed

(* confirmize.                                                             *)
Confirmize(e, t, h, position) ==
    [e EXCEPT !.tx[t].height = h, !.tx[t].position = position, !.tx[t].candidate = FALSE]

LEMMA ConfirmizeDoes ==
    ASSUME NEW e \in Tables, NEW t \in DOMAIN e.tx, NEW h \in HeightValues, NEW position \in Nat,
           NEW no \in Flags, no = FALSE
    PROVE  RowSet(e, t, [height |-> h, position |-> position, candidate |-> no,
                         outputs |-> e.tx[t].outputs], Confirmize(e, t, h, position))
<1> DEFINE row == e.tx[t]
           row1 == [height |-> h, position |-> row.position, candidate |-> row.candidate,
                    outputs |-> row.outputs]
           row2 == [height |-> h, position |-> position, candidate |-> row.candidate,
                    outputs |-> row.outputs]
           new == [height |-> h, position |-> position, candidate |-> no, outputs |-> row.outputs]
           e1 == [e EXCEPT !.tx[t].height = h]
           e2 == [e1 EXCEPT !.tx[t].position = position]
           e3 == [e2 EXCEPT !.tx[t].candidate = no]
<1>1. Confirmize(e, t, h, position) = e3
    BY Zenon DEF Confirmize
<1>2. row \in Rows(t)
    BY TableIs
<1>3. row1 \in Rows(t) /\ row2 \in Rows(t) /\ new \in Rows(t)
    BY <1>2 DEF Rows
<1>4. e1 = SetRow(e, t, row1)
    <2>1. /\ e = [tx |-> e.tx, cache |-> e.cache, ok |-> e.ok]
          /\ e.tx = [u \in DOMAIN e.tx |-> e.tx[u]]
        BY TableIs
    <2>2. [row EXCEPT !.height = h] = row1
        BY <1>2 DEF Rows
    <2> QED BY <2>1, <2>2 DEF SetRow
<1>5. RowSet(e, t, row1, e1)
    BY <1>3, <1>4, SetRowDoes
<1> HIDE DEF e1
<1>6. e2 = SetRow(e1, t, row2)
    <2>1. /\ e1 = [tx |-> e1.tx, cache |-> e1.cache, ok |-> e1.ok]
          /\ e1.tx = [u \in DOMAIN e1.tx |-> e1.tx[u]]
        BY <1>5, TableIs DEF RowSet
    <2>2. e1.tx[t] = row1 /\ t \in DOMAIN e1.tx
        BY <1>5 DEF RowSet
    <2>3. [row1 EXCEPT !.position = position] = row2
        BY <1>3 DEF Rows
    <2> HIDE DEF row1, row2
    <2> QED BY <2>1, <2>2, <2>3 DEF SetRow
<1>7. RowSet(e1, t, row2, e2)
    BY <1>3, <1>5, <1>6, SetRowDoes DEF RowSet
<1> HIDE DEF e2
<1>8. e3 = SetRow(e2, t, new)
    <2>1. /\ e2 = [tx |-> e2.tx, cache |-> e2.cache, ok |-> e2.ok]
          /\ e2.tx = [u \in DOMAIN e2.tx |-> e2.tx[u]]
        BY <1>7, TableIs DEF RowSet
    <2>2. e2.tx[t] = row2 /\ t \in DOMAIN e2.tx
        BY <1>5, <1>7 DEF RowSet
    <2>3. [row2 EXCEPT !.candidate = no] = new
        BY <1>3 DEF Rows
    <2> HIDE DEF row2, new
    <2> QED BY <2>1, <2>2, <2>3 DEF SetRow
<1>9. RowSet(e2, t, new, e3)
    BY <1>3, <1>5, <1>7, <1>8, SetRowDoes DEF RowSet
<1> HIDE DEF e3, new, row1, row2
<1>10. RowSet(e, t, new, e3)
    BY <1>5, <1>7, <1>9 DEF RowSet
<1> QED BY <1>1, <1>10 DEF new

LEMMA ConfirmRow ==
    ASSUME NEW d \in Tables, NEW C, NEW T, NEW P, NEW h \in HeightValues, NEW place,
           NEW e \in Confirmings(d, C, T, P, h, place),
           NEW t \in DOMAIN d.tx, place[t] \in Nat
    PROVE  Confirmize(e, t, h, place[t]) \in Confirmings(d, C, T \cup {t}, P, h, place)
<1>1. /\ e \in Tables /\ e.cache \in C /\ e.ok /\ DOMAIN e.tx = DOMAIN d.tx
      /\ \A u \in DOMAIN d.tx : ConfirmedRow(u, d.tx[u], e.tx[u], T, P, h, place)
    BY DEF Confirmings, Confirming
<1> PICK no \in Flags : no = FALSE
    BY DEF Flags
<1> PICK r : r = [height |-> h, position |-> place[t], candidate |-> no, outputs |-> e.tx[t].outputs]
    OBVIOUS
<1> PICK n : n = Confirmize(e, t, h, place[t])
    OBVIOUS
<1>2. RowSet(e, t, r, n)
    BY <1>1, ConfirmizeDoes
<1>3. r.height = h /\ r.position = place[t] /\ ~r.candidate /\ r.outputs = e.tx[t].outputs
    OBVIOUS
<1>4. ASSUME NEW u \in DOMAIN d.tx, u # t PROVE ConfirmedRow(u, d.tx[u], n.tx[u], T \cup {t}, P, h, place)
    <2>1. ConfirmedRow(u, d.tx[u], e.tx[u], T, P, h, place) /\ n.tx[u] = e.tx[u]
        BY <1>1, <1>2, <1>4 DEF RowSet
    <2> QED BY <1>4, <2>1 DEF ConfirmedRow
<1>5. ConfirmedRow(t, d.tx[t], n.tx[t], T \cup {t}, P, h, place)
    <2>1. ConfirmedRow(t, d.tx[t], e.tx[t], T, P, h, place)
        BY <1>1
    <2>2. n.tx[t] = r
        BY <1>2 DEF RowSet
    <2> QED BY <1>3, <2>1, <2>2 DEF ConfirmedRow
<1>6. \A u \in DOMAIN d.tx : ConfirmedRow(u, d.tx[u], n.tx[u], T \cup {t}, P, h, place)
    BY <1>4, <1>5
<1> QED BY <1>1, <1>2, <1>6 DEF Confirmings, Confirming, RowSet

(* confirm(link): the loop over the previous outputs, then confirmize.     *)
LEMMA ConfirmTxDoes ==
    ASSUME NEW d \in Tables, NEW C, NEW T, NEW P, NEW h \in HeightValues, NEW place,
           NEW e \in Confirmings(d, C, T, P, h, place),
           \A u \in T : place[u] # Unconfirmed,
           NEW t \in Txs, t \in DOMAIN d.tx, place[t] \in Nat, place[t] = 0 => InputsOf[t] = <<>>,
           \A p \in ToSet(InputsOf[t]) : Spendable(d, p, T, h)
    PROVE  ConfirmTx(e, t, h, place[t]) \in
              Confirmings(d, C, T \cup {t}, P \cup ToSet(InputsOf[t]), h, place)
<1> DEFINE list == IF place[t] = 0 THEN <<>> ELSE InputsOf[t]
           n == Len(list)
           Step(x, i) == IF x.ok THEN ConfirmedSpend(x, list[i], h) ELSE x
           K == [i \in 0..n |-> Confirmings(d, C, T, P \cup Firsts(list, i), h, place)]
           F == [i \in 1..n |-> [x \in K[i - 1] |-> Step(x, i)]]
           Eq(f) == f = [i \in 0..n |-> IF i = 0 THEN e ELSE Step(f[i - 1], i)]
           after == CHOOSE f : Eq(f)
<1>1. ConfirmTx(e, t, h, place[t]) =
         IF ~after[n].ok THEN after[n] ELSE Confirmize(after[n], t, h, place[t])
    BY DEF ConfirmTx, Confirmize, While
<1>0. list = InputsOf[t]
    OBVIOUS
<1>2. /\ list \in Seq(Txs \X Nat) /\ n \in Nat
      /\ \A i \in 1..n : list[i] \in Txs \X Nat /\ Spendable(d, list[i], T, h)
    <2> HIDE DEF list
    <2>1. list \in Seq(Txs \X Nat)
        BY <1>0, TransactionAssumption
    <2>2. \A i \in 1..n : list[i] \in ToSet(list)
        BY <2>1 DEF ToSet
    <2> QED BY <1>0, <2>1, <2>2
<1> HIDE DEF list
<1>3. /\ Firsts(list, 0) = {} /\ Firsts(list, n) = ToSet(list)
      /\ \A i \in 1..n : Firsts(list, i) = Firsts(list, i - 1) \cup {list[i]}
    BY <1>2, FirstsAre
<1> HIDE DEF n
<1>4. \A i \in 0..n : K[i] = Confirmings(d, C, T, P \cup Firsts(list, i), h, place)
    OBVIOUS
<1> HIDE DEF K
<1>5. e \in K[0]
    <2>1. P \cup Firsts(list, 0) = P
        BY <1>3
    <2> QED BY <1>2, <1>4, <2>1
<1>6. ASSUME NEW i \in 1..n, NEW x \in K[i - 1] PROVE Step(x, i) \in K[i]
    <2> PICK Q : Q = P \cup Firsts(list, i - 1)
        OBVIOUS
    <2> PICK p \in Txs \X Nat : p = list[i]
        BY <1>2
    <2>0. /\ K[i - 1] = Confirmings(d, C, T, P \cup Firsts(list, i - 1), h, place)
          /\ K[i] = Confirmings(d, C, T, P \cup Firsts(list, i), h, place)
        BY <1>2, <1>4
    <2>1. x \in Confirmings(d, C, T, Q, h, place) /\ Spendable(d, p, T, h) /\ h \in Nat
        BY <1>2, <2>0, HeightsAreNat
    <2>2. K[i] = Confirmings(d, C, T, Q \cup {p}, h, place)
        <3>1. Q \cup {p} = P \cup Firsts(list, i)
            BY <1>3
        <3> QED BY <2>0, <3>1
    <2>3. x.ok
        BY <2>1 DEF Confirmings, Confirming
    <2>4. ConfirmedSpend(x, p, h) \in K[i]
        BY <2>1, <2>2, ConfirmPoint
    <2> QED BY <2>3, <2>4
<1> HIDE DEF Step
<1>7. after[n] \in K[n]
    <2>1. \A i \in 1..n : \A x \in K[i - 1] : F[i][x] = Step(x, i)
        OBVIOUS
    <2> HIDE DEF F
    <2>2. \A i \in 1..n : \A x \in K[i - 1] : F[i][x] \in K[i]
        BY <1>6, <2>1
    <2>3. PICK f : IsRun(f, n, e, F) /\ \A i \in 0..n : f[i] \in K[i]
        BY <1>2, <1>5, <2>2, LoopExists, Zenon
    <2>4. Eq(f)
        <3>1. ASSUME NEW i \in 1..n PROVE F[i][f[i - 1]] = Step(f[i - 1], i)
            BY <1>2, <2>1, <2>3
        <3>2. ASSUME NEW i \in 0..n PROVE f[i] = IF i = 0 THEN e ELSE Step(f[i - 1], i)
            <4>1. f[i] = IF i = 0 THEN e ELSE F[i][f[i - 1]]
                BY <2>3 DEF IsRun
            <4>2. CASE i # 0
                BY <1>2, <3>1, <4>1, <4>2
            <4> QED BY <4>1, <4>2
        <3>3. f = [i \in 0..n |-> f[i]]
            BY <2>3 DEF IsRun
        <3> QED BY <3>2, <3>3
    <2>5. Eq(after)
        <3> HIDE DEF Eq
        <3> QED BY <2>4, Zenon
    <2> HIDE DEF after
    <2>6. after[0] = e /\ \A i \in 1..n : after[i] = Step(after[i - 1], i)
        BY <1>2, <2>5
    <2>7. ASSUME NEW i \in 1..n, after[i - 1] \in K[i - 1] PROVE after[i] \in K[i]
        BY <1>6, <2>6, <2>7
    <2>8. after[0] \in K[0]
        BY <1>5, <2>6
    <2> QED BY <1>2, <2>7, <2>8, LoopHolds, Zenon
<1> PICK done : done = after[n]
    OBVIOUS
<1>8. done \in Confirmings(d, C, T, P \cup ToSet(list), h, place)
    <2>1. K[n] = Confirmings(d, C, T, P \cup ToSet(list), h, place)
        BY <1>2, <1>3, <1>4
    <2> QED BY <1>7, <2>1
<1> HIDE DEF after
<1>9. done.ok
    BY <1>8 DEF Confirmings, Confirming
<1>10. ConfirmTx(e, t, h, place[t]) = Confirmize(done, t, h, place[t])
    BY <1>1, <1>9
<1>11. ConfirmTx(e, t, h, place[t]) \in Confirmings(d, C, T \cup {t}, P \cup ToSet(list), h, place)
    <2> PICK Q : Q = P \cup ToSet(list)
        OBVIOUS
    <2>1. Confirmize(done, t, h, place[t]) \in Confirmings(d, C, T \cup {t}, Q, h, place)
        BY <1>8, ConfirmRow
    <2> QED BY <1>10, <2>1
<1> QED BY <1>0, <1>11


-----------------------------------------------------------------------------
(* Blocks of transactions, confirmed and deconfirmed.                      *)

(* The transactions of a list are stored, have places, and each spends     *)
(* what confirmed_spend accepts when those before it are confirmed.        *)
Confirmable(d, txs, h, place) ==
    \A i \in 1..Len(txs) :
        /\ txs[i] \in DOMAIN d.tx
        /\ place[txs[i]] \in Nat /\ place[txs[i]] # Unconfirmed
        /\ place[txs[i]] = 0 => InputsOf[txs[i]] = <<>>
        /\ \A p \in ToSet(InputsOf[txs[i]]) : Spendable(d, p, Firsts(txs, i - 1), h)

(* No other cache.                                                         *)
Only(c) == {c}

(* The caches that add() of the transactions of T, at height h, may leave. *)
Adding(c, T, h) ==
    {n \in Caches : \A t \in DOMAIN n.map : \/ t \in DOMAIN c.map /\ n.map[t] = c.map[t]
                                            \/ t \in T /\ n.map[t].height = h}

(* The caches that remove() of the transactions of T may leave.            *)
Removing(c, T) == {n \in Caches : EntriesLeft(c, n, T)}

LEMMA AddingStart == ASSUME NEW c \in Caches, NEW h PROVE c \in Adding(c, {}, h)
BY DEF Adding

LEMMA RemovingStart == ASSUME NEW c \in Caches PROVE c \in Removing(c, {})
BY DEF Removing, EntriesLeft

LEMMA AddingOne ==
    ASSUME NEW c, NEW T, NEW h \in Nat, NEW n \in Adding(c, T, h), NEW t \in Txs
    PROVE  AddTx(n, t, h, TRUE) \in Adding(c, T \cup {t}, h)
<1> PICK yes \in Flags : yes = TRUE
    BY DEF Flags
<1> PICK m : m = AddTx(n, t, h, yes)
    OBVIOUS
<1>1. AddTx(n, t, h, TRUE) = m
    BY Zenon
<1>2. n \in Caches
    BY DEF Adding
<1>3. EntriesFrom(n, m, {t}, h, yes)
    BY <1>2, AddTxDoes
<1>4. m \in Adding(c, T \cup {t}, h)
    <2>1. \A s \in DOMAIN n.map : \/ s \in DOMAIN c.map /\ n.map[s] = c.map[s]
                                  \/ s \in T /\ n.map[s].height = h
        BY DEF Adding
    <2>2. /\ m \in Caches
          /\ \A s \in DOMAIN m.map : \/ s \in DOMAIN n.map /\ m.map[s] = n.map[s]
                                     \/ s = t /\ m.map[s].height = h
        BY <1>3 DEF EntriesFrom
    <2>3. ASSUME NEW s \in DOMAIN m.map
          PROVE  \/ s \in DOMAIN c.map /\ m.map[s] = c.map[s]
                 \/ s \in T \cup {t} /\ m.map[s].height = h
        BY <2>1, <2>2
    <2> QED BY <2>2, <2>3 DEF Adding
<1> QED BY <1>1, <1>4

LEMMA RemovingOne ==
    ASSUME NEW c, NEW T, NEW n \in Removing(c, T), NEW t
    PROVE  RemoveTx(n, t) \in Removing(c, T \cup {t})
<1> PICK m : m = RemoveTx(n, t)
    OBVIOUS
<1>1. n \in Caches /\ EntriesLeft(c, n, T)
    BY DEF Removing
<1>2. EntriesLeft(n, m, {t})
    BY <1>1, RemoveTxDoes
<1>3. m \in Removing(c, T \cup {t})
    BY <1>1, <1>2 DEF Removing, EntriesLeft
<1> QED BY <1>3

LEMMA ConfirmingCached ==
    ASSUME NEW d, NEW C, NEW T, NEW P, NEW h, NEW place, NEW e \in Confirmings(d, C, T, P, h, place),
           NEW D, NEW c \in Caches, c \in D
    PROVE  SetCache(e, c) \in Confirmings(d, D, T, P, h, place)
<1> PICK n : n = SetCache(e, c)
    OBVIOUS
<1>1. e \in Tables /\ Confirming(d, e, T, P, h, place)
    BY DEF Confirmings
<1>2. n \in Tables /\ n.tx = e.tx /\ n.cache = c /\ n.ok = e.ok
    BY <1>1, SetCacheDoes DEF CacheSet
<1> QED BY <1>1, <1>2 DEF Confirmings, Confirming

(* The loop of data_base::confirm.                                         *)
LEMMA ConfirmLinksDoes ==
    ASSUME NEW d \in Tables, d.ok, NEW txs \in Seq(Txs), NEW h \in HeightValues, NEW place,
           Confirmable(d, txs, h, place),
           \A i \in 1..Len(txs) : place[txs[i]] = i - 1
    PROVE  ConfirmLinks(d, txs, h) \in
              Confirmings(d, Only(d.cache), ToSet(txs), Spends(ToSet(txs)), h, place)
<1> DEFINE list == [i \in DOMAIN txs |-> i]
           n == Len(list)
           Step(x, i) == IF x.ok THEN ConfirmTx(x, txs[list[i]], h, list[i] - 1) ELSE x
           C(i) == Only(d.cache)
           K == [i \in 0..n |-> Confirmings(d, C(i), Firsts(txs, i), Spends(Firsts(txs, i)), h, place)]
           F == [i \in 1..n |-> [x \in K[i - 1] |-> Step(x, i)]]
           Eq(f) == f = [i \in 0..n |-> IF i = 0 THEN d ELSE Step(f[i - 1], i)]
           after == CHOOSE f : Eq(f)
<1>1. ConfirmLinks(d, txs, h) = after[n]
    BY DEF ConfirmLinks, While
<1>0. Len(txs) \in Nat /\ n = Len(txs) /\ h \in Nat /\ d.cache \in Caches /\ \A i \in 1..n : list[i] = i
    <2>1. h \in Nat /\ d.cache \in Caches
        BY HeightsAreNat, TableIs
    <2>2. Len(txs) \in Nat /\ n = Len(txs) /\ \A i \in 1..n : list[i] = i
        OBVIOUS
    <2> QED BY <2>1, <2>2
<1> HIDE DEF list
<1>2. /\ n \in Nat
      /\ \A i \in 1..n : txs[i] \in Txs /\ txs[i] \in DOMAIN d.tx
    BY <1>0 DEF Confirmable
<1>3. /\ Firsts(txs, 0) = {} /\ Firsts(txs, n) = ToSet(txs)
      /\ \A i \in 1..n : Firsts(txs, i) = Firsts(txs, i - 1) \cup {txs[i]}
    BY <1>0, FirstsAre
<1>30. ASSUME NEW i \in 1..n
       PROVE  /\ place[txs[i]] \in Nat /\ place[txs[i]] = i - 1
              /\ place[txs[i]] = 0 => InputsOf[txs[i]] = <<>>
              /\ \A p \in ToSet(InputsOf[txs[i]]) : Spendable(d, p, Firsts(txs, i - 1), h)
              /\ \A u \in Firsts(txs, i - 1) : place[u] # Unconfirmed
    BY <1>0 DEF Confirmable, Firsts
<1> HIDE DEF n
<1>4. \A i \in 0..n : K[i] = Confirmings(d, C(i), Firsts(txs, i), Spends(Firsts(txs, i)), h, place)
    OBVIOUS
<1> HIDE DEF K
<1>5. d \in K[0]
    <2>1. Spends({}) = {}
        BY SpendsAre
    <2>2. K[0] = Confirmings(d, C(0), Firsts(txs, 0), Spends(Firsts(txs, 0)), h, place)
        BY <1>2, <1>4
    <2>3. d.cache \in C(0)
        BY <1>0, <1>3 DEF Only
    <2> HIDE DEF C
    <2>4. d \in Confirmings(d, C(0), {}, {}, h, place)
        BY <2>3, ConfirmingStart
    <2> QED BY <1>3, <2>1, <2>2, <2>4
<1>6. ASSUME NEW i \in 1..n, NEW x \in K[i - 1] PROVE Step(x, i) \in K[i]
    <2> PICK T : T = Firsts(txs, i - 1)
        OBVIOUS
    <2> PICK t \in Txs : t = txs[i]
        BY <1>2
    <2>0. /\ K[i - 1] = Confirmings(d, C(i - 1), Firsts(txs, i - 1), Spends(Firsts(txs, i - 1)), h, place)
          /\ K[i] = Confirmings(d, C(i), Firsts(txs, i), Spends(Firsts(txs, i)), h, place)
        BY <1>2, <1>4
    <2>1. /\ place[t] \in Nat /\ place[t] = i - 1 /\ t \in DOMAIN d.tx
          /\ place[t] = 0 => InputsOf[t] = <<>>
          /\ \A p \in ToSet(InputsOf[t]) : Spendable(d, p, T, h)
          /\ \A u \in T : place[u] # Unconfirmed
        BY <1>2, <1>30
    <2>2. Spends(T \cup {t}) = Spends(T) \cup ToSet(InputsOf[t]) /\ Firsts(txs, i) = T \cup {t}
        BY <1>3, SpendsAre
    <2>3. x \in Confirmings(d, C(i - 1), T, Spends(T), h, place)
        BY <2>0
    <2>4. K[i] = Confirmings(d, C(i), T \cup {t}, Spends(T) \cup ToSet(InputsOf[t]), h, place)
        BY <2>0, <2>2
    <2> PICK e : e = ConfirmTx(x, t, h, place[t])
        OBVIOUS
    <2>5. e \in Confirmings(d, C(i - 1), T \cup {t}, Spends(T) \cup ToSet(InputsOf[t]), h, place)
        <3> HIDE DEF C
        <3>1. \A u \in T : place[u] # Unconfirmed
            BY <2>1
        <3>2. t \in DOMAIN d.tx /\ place[t] \in Nat
            BY <2>1
        <3>3. place[t] = 0 => InputsOf[t] = <<>>
            BY <2>1
        <3>4. \A p \in ToSet(InputsOf[t]) : Spendable(d, p, T, h)
            BY <2>1
        <3>5. ConfirmTx(x, t, h, place[t]) \in
                  Confirmings(d, C(i - 1), T \cup {t}, Spends(T) \cup ToSet(InputsOf[t]), h, place)
            BY <2>3, <3>1, <3>2, <3>3, <3>4, ConfirmTxDoes, Zenon
        <3> QED BY <3>5
    <2>6. x.ok /\ e.ok /\ e.cache \in C(i - 1) /\ e.cache \in Caches
        BY <2>3, <2>5, TableIs DEF Confirmings, Confirming
    <2>7. Step(x, i) = e
        BY <1>0, <2>1, <2>6
    <2> QED BY <2>4, <2>5, <2>7
<1> HIDE DEF Step
<1>7. after[n] \in K[n]
    <2>1. \A i \in 1..n : \A x \in K[i - 1] : F[i][x] = Step(x, i)
        OBVIOUS
    <2> HIDE DEF F
    <2>2. \A i \in 1..n : \A x \in K[i - 1] : F[i][x] \in K[i]
        BY <1>6, <2>1
    <2>3. PICK f : IsRun(f, n, d, F) /\ \A i \in 0..n : f[i] \in K[i]
        BY <1>2, <1>5, <2>2, LoopExists, Zenon
    <2>4. Eq(f)
        <3>1. ASSUME NEW i \in 1..n PROVE F[i][f[i - 1]] = Step(f[i - 1], i)
            BY <1>2, <2>1, <2>3
        <3>2. ASSUME NEW i \in 0..n PROVE f[i] = IF i = 0 THEN d ELSE Step(f[i - 1], i)
            <4>1. f[i] = IF i = 0 THEN d ELSE F[i][f[i - 1]]
                BY <2>3 DEF IsRun
            <4>2. CASE i # 0
                BY <1>2, <3>1, <4>1, <4>2
            <4> QED BY <4>1, <4>2
        <3>3. f = [i \in 0..n |-> f[i]]
            BY <2>3 DEF IsRun
        <3> QED BY <3>2, <3>3
    <2>5. Eq(after)
        <3> HIDE DEF Eq
        <3> QED BY <2>4, Zenon
    <2> HIDE DEF after
    <2>6. after[0] = d /\ \A i \in 1..n : after[i] = Step(after[i - 1], i)
        BY <1>2, <2>5
    <2>7. ASSUME NEW i \in 1..n, after[i - 1] \in K[i - 1] PROVE after[i] \in K[i]
        BY <1>6, <2>6, <2>7
    <2>8. after[0] \in K[0]
        BY <1>5, <2>6
    <2> QED BY <1>2, <2>7, <2>8, LoopHolds, Zenon
<1>8. K[n] = Confirmings(d, Only(d.cache), ToSet(txs), Spends(ToSet(txs)), h, place)
    BY <1>2, <1>3, <1>4
<1> QED BY <1>1, <1>7, <1>8

(* confirm(block, height, time).                                           *)
LEMMA ConfirmAllDoes ==
    ASSUME NEW d \in Tables, d.ok, NEW txs \in Seq(Txs), NEW h \in HeightValues, NEW place,
           Confirmable(d, txs, h, place),
           \A i \in 1..Len(txs) : place[txs[i]] = i - 1
    PROVE  ConfirmAll(d, txs, h) \in
              Confirmings(d, Adding(d.cache, ToSet(txs), h), ToSet(txs), Spends(ToSet(txs)), h, place)
<1> DEFINE list == [i \in DOMAIN txs |-> i]
           n == Len(list)
           Step(x, i) == IF x.ok THEN LET done == ConfirmTx(x, txs[list[i]], h, list[i] - 1)
                                          IN  IF ~done.ok THEN done
                                              ELSE [done EXCEPT !.cache = AddTx(@, txs[list[i]], h, TRUE)] ELSE x
           C(i) == Adding(d.cache, Firsts(txs, i), h)
           K == [i \in 0..n |-> Confirmings(d, C(i), Firsts(txs, i), Spends(Firsts(txs, i)), h, place)]
           F == [i \in 1..n |-> [x \in K[i - 1] |-> Step(x, i)]]
           Eq(f) == f = [i \in 0..n |-> IF i = 0 THEN d ELSE Step(f[i - 1], i)]
           after == CHOOSE f : Eq(f)
<1>1. ConfirmAll(d, txs, h) = after[n]
    BY DEF ConfirmAll, While
<1>0. Len(txs) \in Nat /\ n = Len(txs) /\ h \in Nat /\ d.cache \in Caches /\ \A i \in 1..n : list[i] = i
    <2>1. h \in Nat /\ d.cache \in Caches
        BY HeightsAreNat, TableIs
    <2>2. Len(txs) \in Nat /\ n = Len(txs) /\ \A i \in 1..n : list[i] = i
        OBVIOUS
    <2> QED BY <2>1, <2>2
<1> HIDE DEF list
<1>2. /\ n \in Nat
      /\ \A i \in 1..n : txs[i] \in Txs /\ txs[i] \in DOMAIN d.tx
    BY <1>0 DEF Confirmable
<1>3. /\ Firsts(txs, 0) = {} /\ Firsts(txs, n) = ToSet(txs)
      /\ \A i \in 1..n : Firsts(txs, i) = Firsts(txs, i - 1) \cup {txs[i]}
    BY <1>0, FirstsAre
<1>30. ASSUME NEW i \in 1..n
       PROVE  /\ place[txs[i]] \in Nat /\ place[txs[i]] = i - 1
              /\ place[txs[i]] = 0 => InputsOf[txs[i]] = <<>>
              /\ \A p \in ToSet(InputsOf[txs[i]]) : Spendable(d, p, Firsts(txs, i - 1), h)
              /\ \A u \in Firsts(txs, i - 1) : place[u] # Unconfirmed
    BY <1>0 DEF Confirmable, Firsts
<1> HIDE DEF n
<1>4. \A i \in 0..n : K[i] = Confirmings(d, C(i), Firsts(txs, i), Spends(Firsts(txs, i)), h, place)
    OBVIOUS
<1> HIDE DEF K
<1>5. d \in K[0]
    <2>1. Spends({}) = {}
        BY SpendsAre
    <2>2. K[0] = Confirmings(d, C(0), Firsts(txs, 0), Spends(Firsts(txs, 0)), h, place)
        BY <1>2, <1>4
    <2>3. d.cache \in C(0)
        BY <1>0, <1>3, AddingStart
    <2> HIDE DEF C
    <2>4. d \in Confirmings(d, C(0), {}, {}, h, place)
        BY <2>3, ConfirmingStart
    <2> QED BY <1>3, <2>1, <2>2, <2>4
<1>6. ASSUME NEW i \in 1..n, NEW x \in K[i - 1] PROVE Step(x, i) \in K[i]
    <2> PICK T : T = Firsts(txs, i - 1)
        OBVIOUS
    <2> PICK t \in Txs : t = txs[i]
        BY <1>2
    <2>0. /\ K[i - 1] = Confirmings(d, C(i - 1), Firsts(txs, i - 1), Spends(Firsts(txs, i - 1)), h, place)
          /\ K[i] = Confirmings(d, C(i), Firsts(txs, i), Spends(Firsts(txs, i)), h, place)
        BY <1>2, <1>4
    <2>1. /\ place[t] \in Nat /\ place[t] = i - 1 /\ t \in DOMAIN d.tx
          /\ place[t] = 0 => InputsOf[t] = <<>>
          /\ \A p \in ToSet(InputsOf[t]) : Spendable(d, p, T, h)
          /\ \A u \in T : place[u] # Unconfirmed
        BY <1>2, <1>30
    <2>2. Spends(T \cup {t}) = Spends(T) \cup ToSet(InputsOf[t]) /\ Firsts(txs, i) = T \cup {t}
        BY <1>3, SpendsAre
    <2>3. x \in Confirmings(d, C(i - 1), T, Spends(T), h, place)
        BY <2>0
    <2>4. K[i] = Confirmings(d, C(i), T \cup {t}, Spends(T) \cup ToSet(InputsOf[t]), h, place)
        BY <2>0, <2>2
    <2> PICK e : e = ConfirmTx(x, t, h, place[t])
        OBVIOUS
    <2>5. e \in Confirmings(d, C(i - 1), T \cup {t}, Spends(T) \cup ToSet(InputsOf[t]), h, place)
        <3> HIDE DEF C
        <3>1. \A u \in T : place[u] # Unconfirmed
            BY <2>1
        <3>2. t \in DOMAIN d.tx /\ place[t] \in Nat
            BY <2>1
        <3>3. place[t] = 0 => InputsOf[t] = <<>>
            BY <2>1
        <3>4. \A p \in ToSet(InputsOf[t]) : Spendable(d, p, T, h)
            BY <2>1
        <3>5. ConfirmTx(x, t, h, place[t]) \in
                  Confirmings(d, C(i - 1), T \cup {t}, Spends(T) \cup ToSet(InputsOf[t]), h, place)
            BY <2>3, <3>1, <3>2, <3>3, <3>4, ConfirmTxDoes, Zenon
        <3> QED BY <3>5
    <2>6. x.ok /\ e.ok /\ e.cache \in C(i - 1) /\ e.cache \in Caches
        BY <2>3, <2>5, TableIs DEF Confirmings, Confirming
    <2> PICK c : c = AddTx(e.cache, t, h, TRUE)
        OBVIOUS
    <2>7. Step(x, i) = SetCache(e, c)
        BY <1>0, <2>1, <2>6 DEF SetCache
    <2>8. c \in C(i) /\ c \in Caches
        <3>1. c \in Adding(d.cache, T \cup {t}, h)
            BY <1>0, <2>6, AddingOne
        <3>2. c \in Caches
            BY <3>1 DEF Adding
        <3>3. C(i) = Adding(d.cache, T \cup {t}, h)
            BY <2>2
        <3> QED BY <3>1, <3>2, <3>3
    <2> HIDE DEF C
    <2>9. SetCache(e, c) \in Confirmings(d, C(i), T \cup {t}, Spends(T) \cup ToSet(InputsOf[t]), h, place)
        BY <2>5, <2>8, ConfirmingCached
    <2> QED BY <2>4, <2>7, <2>9
<1> HIDE DEF Step
<1>7. after[n] \in K[n]
    <2>1. \A i \in 1..n : \A x \in K[i - 1] : F[i][x] = Step(x, i)
        OBVIOUS
    <2> HIDE DEF F
    <2>2. \A i \in 1..n : \A x \in K[i - 1] : F[i][x] \in K[i]
        BY <1>6, <2>1
    <2>3. PICK f : IsRun(f, n, d, F) /\ \A i \in 0..n : f[i] \in K[i]
        BY <1>2, <1>5, <2>2, LoopExists, Zenon
    <2>4. Eq(f)
        <3>1. ASSUME NEW i \in 1..n PROVE F[i][f[i - 1]] = Step(f[i - 1], i)
            BY <1>2, <2>1, <2>3
        <3>2. ASSUME NEW i \in 0..n PROVE f[i] = IF i = 0 THEN d ELSE Step(f[i - 1], i)
            <4>1. f[i] = IF i = 0 THEN d ELSE F[i][f[i - 1]]
                BY <2>3 DEF IsRun
            <4>2. CASE i # 0
                BY <1>2, <3>1, <4>1, <4>2
            <4> QED BY <4>1, <4>2
        <3>3. f = [i \in 0..n |-> f[i]]
            BY <2>3 DEF IsRun
        <3> QED BY <3>2, <3>3
    <2>5. Eq(after)
        <3> HIDE DEF Eq
        <3> QED BY <2>4, Zenon
    <2> HIDE DEF after
    <2>6. after[0] = d /\ \A i \in 1..n : after[i] = Step(after[i - 1], i)
        BY <1>2, <2>5
    <2>7. ASSUME NEW i \in 1..n, after[i - 1] \in K[i - 1] PROVE after[i] \in K[i]
        BY <1>6, <2>6, <2>7
    <2>8. after[0] \in K[0]
        BY <1>5, <2>6
    <2> QED BY <1>2, <2>7, <2>8, LoopHolds, Zenon
<1>8. K[n] = Confirmings(d, Adding(d.cache, ToSet(txs), h), ToSet(txs), Spends(ToSet(txs)), h, place)
    BY <1>2, <1>3, <1>4
<1> QED BY <1>1, <1>7, <1>8

(* unconfirm(block).                                                       *)
LEMMA UnconfirmAllDoes ==
    ASSUME NEW d \in Tables, d.ok, NEW txs \in Seq(Txs), NEW h \in HeightValues, NEW place,
           Confirmable(d, txs, h, place),
           h = Unverified, \A i \in 1..Len(txs) : place[txs[i]] = Deconfirmed
    PROVE  UnconfirmAll(d, txs) \in
              Confirmings(d, Removing(d.cache, ToSet(txs)), ToSet(txs), Spends(ToSet(txs)), h, place)
<1> DEFINE list == txs
           n == Len(list)
           Step(x, i) == IF x.ok THEN LET done == ConfirmTx(x, txs[i], Unverified, Deconfirmed)
                                          IN  IF ~done.ok THEN done
                                              ELSE [done EXCEPT !.cache = RemoveTx(@, txs[i])] ELSE x
           C(i) == Removing(d.cache, Firsts(txs, i))
           K == [i \in 0..n |-> Confirmings(d, C(i), Firsts(txs, i), Spends(Firsts(txs, i)), h, place)]
           F == [i \in 1..n |-> [x \in K[i - 1] |-> Step(x, i)]]
           Eq(f) == f = [i \in 0..n |-> IF i = 0 THEN d ELSE Step(f[i - 1], i)]
           after == CHOOSE f : Eq(f)
<1>1. UnconfirmAll(d, txs) = after[n]
    BY DEF UnconfirmAll, While
<1>0. Len(txs) \in Nat /\ n = Len(txs) /\ h \in Nat /\ d.cache \in Caches
    <2>1. h \in Nat /\ d.cache \in Caches
        BY HeightsAreNat, TableIs
    <2>2. Len(txs) \in Nat /\ n = Len(txs)
        OBVIOUS
    <2> QED BY <2>1, <2>2
<1> HIDE DEF list
<1>2. /\ n \in Nat
      /\ \A i \in 1..n : txs[i] \in Txs /\ txs[i] \in DOMAIN d.tx
    BY <1>0 DEF Confirmable
<1>3. /\ Firsts(txs, 0) = {} /\ Firsts(txs, n) = ToSet(txs)
      /\ \A i \in 1..n : Firsts(txs, i) = Firsts(txs, i - 1) \cup {txs[i]}
    BY <1>0, FirstsAre
<1>30. ASSUME NEW i \in 1..n
       PROVE  /\ place[txs[i]] \in Nat /\ place[txs[i]] = Deconfirmed
              /\ place[txs[i]] = 0 => InputsOf[txs[i]] = <<>>
              /\ \A p \in ToSet(InputsOf[txs[i]]) : Spendable(d, p, Firsts(txs, i - 1), h)
              /\ \A u \in Firsts(txs, i - 1) : place[u] # Unconfirmed
    BY <1>0 DEF Confirmable, Firsts
<1> HIDE DEF n
<1>4. \A i \in 0..n : K[i] = Confirmings(d, C(i), Firsts(txs, i), Spends(Firsts(txs, i)), h, place)
    OBVIOUS
<1> HIDE DEF K
<1>5. d \in K[0]
    <2>1. Spends({}) = {}
        BY SpendsAre
    <2>2. K[0] = Confirmings(d, C(0), Firsts(txs, 0), Spends(Firsts(txs, 0)), h, place)
        BY <1>2, <1>4
    <2>3. d.cache \in C(0)
        BY <1>0, <1>3, RemovingStart
    <2> HIDE DEF C
    <2>4. d \in Confirmings(d, C(0), {}, {}, h, place)
        BY <2>3, ConfirmingStart
    <2> QED BY <1>3, <2>1, <2>2, <2>4
<1>6. ASSUME NEW i \in 1..n, NEW x \in K[i - 1] PROVE Step(x, i) \in K[i]
    <2> PICK T : T = Firsts(txs, i - 1)
        OBVIOUS
    <2> PICK t \in Txs : t = txs[i]
        BY <1>2
    <2>0. /\ K[i - 1] = Confirmings(d, C(i - 1), Firsts(txs, i - 1), Spends(Firsts(txs, i - 1)), h, place)
          /\ K[i] = Confirmings(d, C(i), Firsts(txs, i), Spends(Firsts(txs, i)), h, place)
        BY <1>2, <1>4
    <2>1. /\ place[t] \in Nat /\ place[t] = Deconfirmed /\ t \in DOMAIN d.tx
          /\ place[t] = 0 => InputsOf[t] = <<>>
          /\ \A p \in ToSet(InputsOf[t]) : Spendable(d, p, T, h)
          /\ \A u \in T : place[u] # Unconfirmed
        BY <1>2, <1>30
    <2>2. Spends(T \cup {t}) = Spends(T) \cup ToSet(InputsOf[t]) /\ Firsts(txs, i) = T \cup {t}
        BY <1>3, SpendsAre
    <2>3. x \in Confirmings(d, C(i - 1), T, Spends(T), h, place)
        BY <2>0
    <2>4. K[i] = Confirmings(d, C(i), T \cup {t}, Spends(T) \cup ToSet(InputsOf[t]), h, place)
        BY <2>0, <2>2
    <2> PICK e : e = ConfirmTx(x, t, h, place[t])
        OBVIOUS
    <2>5. e \in Confirmings(d, C(i - 1), T \cup {t}, Spends(T) \cup ToSet(InputsOf[t]), h, place)
        <3> HIDE DEF C
        <3> QED BY <2>1, <2>3, ConfirmTxDoes
    <2>6. x.ok /\ e.ok /\ e.cache \in C(i - 1) /\ e.cache \in Caches
        BY <2>3, <2>5, TableIs DEF Confirmings, Confirming
    <2> PICK c : c = RemoveTx(e.cache, t)
        OBVIOUS
    <2>7. Step(x, i) = SetCache(e, c)
        BY <1>0, <2>1, <2>6 DEF SetCache, list
    <2>8. c \in C(i) /\ c \in Caches
        <3>1. c \in Removing(d.cache, T \cup {t})
            BY <2>6, RemovingOne
        <3> QED BY <2>2, <3>1 DEF Removing
    <2> HIDE DEF C
    <2>9. SetCache(e, c) \in Confirmings(d, C(i), T \cup {t}, Spends(T) \cup ToSet(InputsOf[t]), h, place)
        BY <2>5, <2>8, ConfirmingCached
    <2> QED BY <2>4, <2>7, <2>9
<1> HIDE DEF Step
<1>7. after[n] \in K[n]
    <2>1. \A i \in 1..n : \A x \in K[i - 1] : F[i][x] = Step(x, i)
        OBVIOUS
    <2> HIDE DEF F
    <2>2. \A i \in 1..n : \A x \in K[i - 1] : F[i][x] \in K[i]
        BY <1>6, <2>1
    <2>3. PICK f : IsRun(f, n, d, F) /\ \A i \in 0..n : f[i] \in K[i]
        BY <1>2, <1>5, <2>2, LoopExists, Zenon
    <2>4. Eq(f)
        <3>1. ASSUME NEW i \in 1..n PROVE F[i][f[i - 1]] = Step(f[i - 1], i)
            BY <1>2, <2>1, <2>3
        <3>2. ASSUME NEW i \in 0..n PROVE f[i] = IF i = 0 THEN d ELSE Step(f[i - 1], i)
            <4>1. f[i] = IF i = 0 THEN d ELSE F[i][f[i - 1]]
                BY <2>3 DEF IsRun
            <4>2. CASE i # 0
                BY <1>2, <3>1, <4>1, <4>2
            <4> QED BY <4>1, <4>2
        <3>3. f = [i \in 0..n |-> f[i]]
            BY <2>3 DEF IsRun
        <3> QED BY <3>2, <3>3
    <2>5. Eq(after)
        <3> HIDE DEF Eq
        <3> QED BY <2>4, Zenon
    <2> HIDE DEF after
    <2>6. after[0] = d /\ \A i \in 1..n : after[i] = Step(after[i - 1], i)
        BY <1>2, <2>5
    <2>7. ASSUME NEW i \in 1..n, after[i - 1] \in K[i - 1] PROVE after[i] \in K[i]
        BY <1>6, <2>6, <2>7
    <2>8. after[0] \in K[0]
        BY <1>5, <2>6
    <2> QED BY <1>2, <2>7, <2>8, LoopHolds, Zenon
<1>8. K[n] = Confirmings(d, Removing(d.cache, ToSet(txs)), ToSet(txs), Spends(ToSet(txs)), h, place)
    BY <1>2, <1>3, <1>4
<1> QED BY <1>1, <1>7, <1>8

-----------------------------------------------------------------------------
(* Blocks and chains of transactions.                                      *)

(* What a block spends.                                                    *)
Inputs(b) == Spends(ToSet(TxsOf[b]))

LEMMA BlockTxs ==
    ASSUME NEW b \in Blocks
    PROVE  /\ TxsOf[b] \in Seq(Txs) /\ Len(TxsOf[b]) \in Nat \ {0}
           /\ \A i \in 1..Len(TxsOf[b]) : TxsOf[b][i] \in Txs
           /\ DOMAIN TxsOf[b] = 1..Len(TxsOf[b])
           /\ \A t : t \in ToSet(TxsOf[b]) <=> \E i \in 1..Len(TxsOf[b]) : t = TxsOf[b][i]
           /\ Height(b) \in Nat /\ Height(b) \in HeightValues /\ Height(b) < Unverified
           /\ Len(TxsOf[b]) <= Unconfirmed /\ Len(TxsOf[b]) <= Deconfirmed
           /\ InputsOf[TxsOf[b][1]] = <<>>
<1>1. TxsOf[b] \in Seq(Txs) /\ TxsOf[b] # <<>>
    BY ChainAssumption
<1> PICK txs \in Seq(Txs) : txs = TxsOf[b]
    BY <1>1
<1>2. Len(txs) \in Nat \ {0} /\ DOMAIN txs = 1..Len(txs) /\ \A i \in 1..Len(txs) : txs[i] \in Txs
    BY <1>1, EmptySeq
<1>3. \A t : t \in ToSet(txs) <=> \E i \in 1..Len(txs) : t = txs[i]
    BY <1>2 DEF ToSet
<1>4. Height(b) \in Nat /\ Height(b) \in HeightValues
    BY HeightsAreNat
<1> QED BY <1>2, <1>3, <1>4, LimitsAssumption

(* The transactions of a chain, by their places.                           *)
LEMMA ChainTxs ==
    ASSUME NEW c \in Seq(Blocks)
    PROVE  \A t : t \in TxsIn(c) <=>
              \E i \in 1..Len(c) : \E j \in 1..Len(TxsOf[c[i]]) : t = TxsOf[c[i]][j]
<1>1. DOMAIN c = 1..Len(c) /\ \A i \in 1..Len(c) : c[i] \in Blocks
    OBVIOUS
<1>2. ASSUME NEW t PROVE t \in TxsIn(c) <=> \E i \in 1..Len(c) : t \in ToSet(TxsOf[c[i]])
    BY <1>1 DEF TxsIn
<1>3. ASSUME NEW i \in 1..Len(c), NEW t
      PROVE  t \in ToSet(TxsOf[c[i]]) <=> \E j \in 1..Len(TxsOf[c[i]]) : t = TxsOf[c[i]][j]
    BY <1>1, BlockTxs
<1>4. ASSUME NEW t, NEW i \in 1..Len(c), t \in ToSet(TxsOf[c[i]])
      PROVE  \E k \in 1..Len(c) : \E j \in 1..Len(TxsOf[c[k]]) : t = TxsOf[c[k]][j]
    <2>1. PICK j \in 1..Len(TxsOf[c[i]]) : t = TxsOf[c[i]][j]
        BY <1>3, <1>4
    <2> QED BY <2>1
<1>5. ASSUME NEW t, NEW i \in 1..Len(c), NEW j \in 1..Len(TxsOf[c[i]]), t = TxsOf[c[i]][j]
      PROVE  t \in ToSet(TxsOf[c[i]])
    BY <1>3, <1>5
<1>6. ASSUME NEW t
      PROVE  t \in TxsIn(c) <=> \E i \in 1..Len(c) : \E j \in 1..Len(TxsOf[c[i]]) : t = TxsOf[c[i]][j]
    BY <1>2, <1>4, <1>5, Zenon
<1> QED BY <1>6

(* What a chain spends, by its places.                                     *)
LEMMA ChainInputs ==
    ASSUME NEW c \in Seq(Blocks)
    PROVE  \A p : p \in Spends(TxsIn(c)) <=> \E i \in 1..Len(c) : p \in Inputs(c[i])
<1>1. \A t : t \in TxsIn(c) <=> \E i \in 1..Len(c) : t \in ToSet(TxsOf[c[i]])
    <2>1. DOMAIN c = 1..Len(c)
        OBVIOUS
    <2> QED BY <2>1 DEF TxsIn
<1>2. \A T, p : p \in Spends(T) <=> \E t \in T : p \in ToSet(InputsOf[t])
    BY DEF Spends
<1> QED BY <1>1, <1>2 DEF Inputs

(* What is spent is an output, of a transaction.                           *)
LEMMA InputsArePoints ==
    ASSUME NEW b \in Blocks, NEW p \in Inputs(b)
    PROVE  /\ \E i \in 1..Len(TxsOf[b]) : p \in ToSet(InputsOf[TxsOf[b][i]])
           /\ p \in Txs \X Nat
<1>1. PICK t \in ToSet(TxsOf[b]) : p \in ToSet(InputsOf[t])
    BY DEF Inputs, Spends
<1>2. PICK i \in 1..Len(TxsOf[b]) : t = TxsOf[b][i]
    BY BlockTxs
<1>3. InputsOf[t] \in Seq(Txs \X Nat)
    BY <1>2, BlockTxs, TransactionAssumption
<1>4. p \in Txs \X Nat
    BY <1>1, <1>3 DEF ToSet
<1> QED BY <1>1, <1>2, <1>4

(* A block and the chain that it is the next of.                           *)
Extends(c, b) ==
    /\ c \in Seq(Blocks) /\ b \in Blocks
    /\ Len(Chain[b]) = Len(c) + 1
    /\ \A i \in 1..Len(c) : c[i] = Chain[b][i]

LEMMA ExtendsIs ==
    ASSUME NEW c, NEW b, Extends(c, b)
    PROVE  Front(Chain[b]) = c /\ Height(b) = Len(c) /\ Len(c) \in Nat
<1> PICK s \in Seq(Blocks) : s = Chain[b]
    BY ChainOf DEF Extends
<1>1. Len(s) \in Nat \ {0} /\ Height(b) = Len(s) - 1 /\ Len(c) = Len(s) - 1 /\ c \in Seq(Blocks)
    BY ChainOf DEF Extends
<1>2. Front(s) \in Seq(Blocks) /\ Len(Front(s)) = Len(s) - 1
    BY <1>1 DEF Front
<1>3. \A i \in 1..(Len(s) - 1) : Front(s)[i] = s[i]
    BY <1>1 DEF Front
<1>4. Front(s) = c
    BY <1>1, <1>2, <1>3, SeqEqual DEF Extends
<1> QED BY <1>1, <1>4

(* The chain with the block.                                               *)
Extended(c, b, n) ==
    /\ n \in Seq(Blocks) /\ Len(n) = Len(c) + 1 /\ n[Len(c) + 1] = b
    /\ \A i \in 1..Len(c) : n[i] = c[i]
    /\ TxsIn(n) = TxsIn(c) \cup ToSet(TxsOf[b])
    /\ Spends(TxsIn(n)) = Spends(TxsIn(c)) \cup Inputs(b)

LEMMA ExtendsAdds ==
    ASSUME NEW c, NEW b, Extends(c, b), NEW n, n = Append(c, b)
    PROVE  Extended(c, b, n)
<1>1. /\ n \in Seq(Blocks) /\ Len(n) = Len(c) + 1 /\ n[Len(c) + 1] = b /\ Len(c) \in Nat
      /\ \A i \in 1..Len(c) : n[i] = c[i]
    BY AppendProperties DEF Extends
<1>2. DOMAIN n = 1..(Len(c) + 1) /\ DOMAIN c = 1..Len(c)
    BY <1>1 DEF Extends
<1>3. ASSUME NEW t PROVE t \in TxsIn(n) <=> t \in TxsIn(c) \/ t \in ToSet(TxsOf[b])
    <2>1. t \in TxsIn(n) <=> \E i \in 1..(Len(c) + 1) : t \in ToSet(TxsOf[n[i]])
        BY <1>2 DEF TxsIn
    <2>2. t \in TxsIn(c) <=> \E i \in 1..Len(c) : t \in ToSet(TxsOf[c[i]])
        BY <1>2 DEF TxsIn
    <2> QED BY <1>1, <2>1, <2>2
<1>4. TxsIn(n) = TxsIn(c) \cup ToSet(TxsOf[b])
    BY <1>3
<1>5. \A T, U : Spends(T \cup U) = Spends(T) \cup Spends(U)
    BY DEF Spends
<1> QED BY <1>1, <1>4, <1>5 DEF Inputs, Extended

(* The verdict of validation, place by place.                              *)
LEMMA AcceptableIs ==
    ASSUME NEW c, NEW b, Extends(c, b), Acceptable(b), NEW txs, txs = TxsOf[b]
    PROVE  /\ \A i, j \in 1..Len(txs) : txs[i] = txs[j] => i = j
           /\ \A t \in ToSet(txs) : t \notin TxsIn(c)
           /\ \A p \in Inputs(b) : p \notin Spends(TxsIn(c))
           /\ \A i \in 1..Len(txs) : \A p \in ToSet(InputsOf[txs[i]]) :
                 /\ p \in Txs \X Nat /\ p[2] < OutputsOf[p[1]]
                 /\ p[1] \in TxsIn(c) \/ p[1] \in Firsts(txs, i - 1)
<1>0. b \in Blocks
    BY DEF Extends
<1>1. txs \in Seq(Txs) /\ DOMAIN txs = 1..Len(txs) /\ Len(txs) \in Nat
    BY <1>0, BlockTxs
<1>2. Front(Chain[b]) = c
    BY ExtendsIs
<1>3. ASSUME NEW i \in 1..Len(txs) PROVE ToSet(SubSeq(txs, 1, i - 1)) = Firsts(txs, i - 1)
    <2>1. /\ Len(SubSeq(txs, 1, i - 1)) = i - 1
          /\ \A j \in 1..(i - 1) : SubSeq(txs, 1, i - 1)[j] = txs[j]
        BY <1>1, SubSeqProperties
    <2>2. DOMAIN SubSeq(txs, 1, i - 1) = 1..(i - 1)
        BY <1>1, <2>1, SubSeqProperties
    <2> QED BY <2>1, <2>2 DEF ToSet, Firsts
<1>4. ASSUME NEW i \in 1..Len(txs)
      PROVE  /\ txs[i] \notin TxsIn(c) \cup Firsts(txs, i - 1)
             /\ \A p \in ToSet(InputsOf[txs[i]]) :
                   /\ p[1] \in TxsIn(c) \cup Firsts(txs, i - 1) /\ p[2] < OutputsOf[p[1]]
                   /\ p \notin Spends(TxsIn(c) \cup Firsts(txs, i - 1))
    <2> PICK before : before = TxsBefore(b, i)
        OBVIOUS
    <2>1. before = TxsIn(c) \cup Firsts(txs, i - 1)
        BY <1>2, <1>3 DEF TxsBefore
    <2>2. /\ txs[i] \notin before
          /\ \A p \in ToSet(InputsOf[txs[i]]) :
                p[1] \in before /\ p[2] < OutputsOf[p[1]] /\ p \notin Spends(before)
        BY <1>1 DEF Acceptable
    <2> QED BY <2>1, <2>2
<1>5. ASSUME NEW i \in 1..Len(txs), NEW j \in 1..Len(txs), txs[i] = txs[j] PROVE ~(i < j)
    <2>1. CASE i < j
        <3>1. txs[i] \in Firsts(txs, j - 1)
            BY <1>1, <2>1 DEF Firsts
        <3> QED BY <1>4, <1>5, <3>1
    <2> QED BY <2>1
<1>6. \A i, j \in 1..Len(txs) : txs[i] = txs[j] => i = j
    BY <1>1, <1>5
<1>7. \A t \in ToSet(txs) : t \notin TxsIn(c)
    BY <1>1, <1>4 DEF ToSet
<1>8. ASSUME NEW p \in Inputs(b) PROVE p \notin Spends(TxsIn(c))
    <2>1. PICK i \in 1..Len(txs) : p \in ToSet(InputsOf[txs[i]])
        BY <1>0, InputsArePoints
    <2>2. p \notin Spends(TxsIn(c) \cup Firsts(txs, i - 1))
        BY <1>4, <2>1
    <2> QED BY <2>2 DEF Spends
<1>9. ASSUME NEW i \in 1..Len(txs), NEW p \in ToSet(InputsOf[txs[i]]) PROVE p \in Txs \X Nat
    <2>1. InputsOf[txs[i]] \in Seq(Txs \X Nat)
        BY <1>1, TransactionAssumption
    <2> QED BY <2>1 DEF ToSet
<1> QED BY <1>4, <1>6, <1>7, <1>8, <1>9

-----------------------------------------------------------------------------
(* The confirmed chain in the transaction table.                           *)

(* The transactions of the chain are stored, confirmed where the chain has *)
(* them, and no others are.                                                *)
RowsOf(c, i, d) ==
    \A j \in 1..Len(TxsOf[c[i]]) :
        /\ TxsOf[c[i]][j] \in DOMAIN d.tx
        /\ d.tx[TxsOf[c[i]][j]].height = i - 1
        /\ d.tx[TxsOf[c[i]][j]].position = j - 1

ChainRows(c, d) ==
    /\ \A i \in 1..Len(c) : RowsOf(c, i, d)
    /\ \A t \in DOMAIN d.tx : t \notin TxsIn(c) =>
          d.tx[t].position = Unconfirmed \/ d.tx[t].position = Deconfirmed

(* What the chain spends is spent where it does, and nothing else is.      *)
SpendsOf(c, i, d) ==
    \A p \in Inputs(c[i]) :
        /\ p[1] \in DOMAIN d.tx /\ p[2] \in Outputs(p[1])
        /\ d.tx[p[1]].outputs[p[2]].spender = i - 1

ChainSpends(c, d) ==
    /\ \A i \in 1..Len(c) : SpendsOf(c, i, d)
    /\ \A t \in DOMAIN d.tx : \A k \in Outputs(t) :
          <<t, k>> \notin Spends(TxsIn(c)) => d.tx[t].outputs[k].spender = NotSpent

(* What the cache says is confirmed is so at that height.                  *)
CacheOn(c, k) ==
    \A t \in DOMAIN k.map : k.map[t].confirmed =>
        /\ k.map[t].height \in 0..(Len(c) - 1)
        /\ t \in ToSet(TxsOf[c[k.map[t].height + 1]])

OnChain(c, d) == ChainRows(c, d) /\ ChainSpends(c, d) /\ CacheOn(c, d.cache)

(* A transaction of the chain.                                             *)
HasRow(c, d, t) ==
    \E i \in 1..Len(c) : \E j \in 1..Len(TxsOf[c[i]]) :
        /\ t = TxsOf[c[i]][j]
        /\ t \in DOMAIN d.tx /\ d.tx[t].height = i - 1 /\ d.tx[t].position = j - 1

LEMMA RowOnChain ==
    ASSUME NEW c \in Seq(Blocks), NEW d, ChainRows(c, d), NEW t \in TxsIn(c)
    PROVE  HasRow(c, d, t)
<1>0. PICK i \in 1..Len(c) : \E j \in 1..Len(TxsOf[c[i]]) : t = TxsOf[c[i]][j]
    BY ChainTxs
<1>1. PICK j \in 1..Len(TxsOf[c[i]]) : t = TxsOf[c[i]][j]
    BY <1>0
<1>2. RowsOf(c, i, d)
    BY DEF ChainRows
<1> QED BY <1>1, <1>2 DEF RowsOf, HasRow

(* A block that validation accepted can be confirmed on its parent.        *)
LEMMA MayConfirmBlock ==
    ASSUME NEW d \in Tables, NEW c, NEW b, Extends(c, b), Acceptable(b), ChainRows(c, d),
           ToSet(TxsOf[b]) \subseteq DOMAIN d.tx
    PROVE  \E place : /\ \A i \in 1..Len(TxsOf[b]) : place[TxsOf[b][i]] = i - 1
                      /\ Confirmable(d, TxsOf[b], Height(b), place)
<1>0. b \in Blocks /\ c \in Seq(Blocks)
    BY DEF Extends
<1> PICK txs \in Seq(Txs) : txs = TxsOf[b]
    BY <1>0, BlockTxs
<1> PICK n \in Nat : n = Len(txs)
    OBVIOUS
<1>1. /\ \A t : t \in ToSet(txs) <=> \E i \in 1..n : t = txs[i]
      /\ n <= Unconfirmed /\ InputsOf[txs[1]] = <<>>
    <2>1. n <= Unconfirmed /\ InputsOf[txs[1]] = <<>>
        BY <1>0, BlockTxs
    <2>2. n = Len(txs) /\ DOMAIN txs = 1..n
        OBVIOUS
    <2>3. \A t : t \in ToSet(txs) <=> \E i \in 1..n : t = txs[i]
        BY <2>2 DEF ToSet
    <2> QED BY <2>1, <2>3
<1>2. Height(b) = Len(c) /\ Len(c) \in Nat
    BY ExtendsIs
<1>3. /\ \A i, j \in 1..n : txs[i] = txs[j] => i = j
      /\ \A i \in 1..n : \A p \in ToSet(InputsOf[txs[i]]) :
            /\ p \in Txs \X Nat /\ p[2] < OutputsOf[p[1]]
            /\ p[1] \in TxsIn(c) \/ p[1] \in Firsts(txs, i - 1)
    BY AcceptableIs
<1> DEFINE place == [t \in ToSet(txs) |-> (CHOOSE j \in 1..n : txs[j] = t) - 1]
<1>4. ASSUME NEW i \in 1..n PROVE place[txs[i]] = i - 1
    <2>1. txs[i] \in ToSet(txs)
        BY <1>1
    <2>2. (CHOOSE j \in 1..n : txs[j] = txs[i]) = i
        <3> DEFINE k == CHOOSE j \in 1..n : txs[j] = txs[i]
        <3>1. k \in 1..n /\ txs[k] = txs[i]
            OBVIOUS
        <3> HIDE DEF k
        <3>2. k = i
            BY <1>3, <3>1
        <3> QED BY <3>2 DEF k
    <2> QED BY <2>1, <2>2
<1> HIDE DEF place
<1>5. ASSUME NEW i \in 1..n, NEW p \in ToSet(InputsOf[txs[i]])
      PROVE  Spendable(d, p, Firsts(txs, i - 1), Height(b))
    <2>1. p \in Txs \X Nat /\ p[2] < OutputsOf[p[1]] /\ (p[1] \in TxsIn(c) \/ p[1] \in Firsts(txs, i - 1))
        BY <1>3
    <2>2. CASE p[1] \in Firsts(txs, i - 1)
        <3>1. p[1] \in ToSet(txs)
            BY <1>1, <2>2 DEF Firsts
        <3> QED BY <2>1, <2>2, <3>1 DEF Spendable, HasOutput
    <2>3. CASE p[1] \in TxsIn(c)
        <3> PICK t \in TxsIn(c) : t = p[1]
            BY <2>3
        <3>0. PICK m \in 1..Len(c) : \E j \in 1..Len(TxsOf[c[m]]) :
                 t \in DOMAIN d.tx /\ d.tx[t].height = m - 1 /\ d.tx[t].position = j - 1
            <4>1. HasRow(c, d, t)
                BY <1>0, RowOnChain
            <4> QED BY <4>1 DEF HasRow
        <3>1. PICK j \in 1..Len(TxsOf[c[m]]) :
                 t \in DOMAIN d.tx /\ d.tx[t].height = m - 1 /\ d.tx[t].position = j - 1
            BY <3>0
        <3>2. c[m] \in Blocks
            BY <1>0
        <3>3. Len(TxsOf[c[m]]) \in Nat /\ Len(TxsOf[c[m]]) <= Unconfirmed
            BY <3>2, BlockTxs
        <3>4. j - 1 # Unconfirmed /\ m - 1 <= Len(c)
            BY <1>2, <3>3, TransactionAssumption
        <3> QED BY <1>2, <2>1, <3>1, <3>4 DEF Spendable, HasOutput
    <2> QED BY <2>1, <2>2, <2>3
<1>6. ASSUME NEW i \in 1..n
      PROVE  /\ txs[i] \in DOMAIN d.tx
             /\ place[txs[i]] \in Nat /\ place[txs[i]] # Unconfirmed
             /\ place[txs[i]] = 0 => InputsOf[txs[i]] = <<>>
    <2>1. txs[i] \in DOMAIN d.tx
        BY <1>1
    <2>2. place[txs[i]] = i - 1
        BY <1>4
    <2>3. i - 1 \in Nat /\ i - 1 # Unconfirmed /\ (i - 1 = 0 => i = 1)
        BY <1>1, TransactionAssumption
    <2> QED BY <1>1, <2>1, <2>2, <2>3
<1>7. Confirmable(d, txs, Height(b), place)
    BY <1>5, <1>6 DEF Confirmable
<1> QED BY <1>4, <1>7

(* A row of a confirmed table.                                             *)
LEMMA ConfirmedRowIs ==
    ASSUME NEW d, NEW C, NEW T, NEW P, NEW h, NEW place,
           NEW e \in Confirmings(d, C, T, P, h, place), NEW t \in DOMAIN d.tx
    PROVE  /\ t \in DOMAIN e.tx
           /\ t \in T => e.tx[t].height = h /\ e.tx[t].position = place[t] /\ ~e.tx[t].candidate
           /\ t \notin T => /\ e.tx[t].height = d.tx[t].height /\ e.tx[t].position = d.tx[t].position
                            /\ e.tx[t].candidate = d.tx[t].candidate
           /\ \A k \in Outputs(t) :
                 /\ e.tx[t].outputs[k].candidateSpent = d.tx[t].outputs[k].candidateSpent
                 /\ <<t, k>> \in P => e.tx[t].outputs[k].spender = SpenderAt(h)
                 /\ <<t, k>> \notin P => e.tx[t].outputs[k].spender = d.tx[t].outputs[k].spender
<1>1. DOMAIN e.tx = DOMAIN d.tx /\ ConfirmedRow(t, d.tx[t], e.tx[t], T, P, h, place)
    BY DEF Confirmings, Confirming
<1> QED BY <1>1 DEF ConfirmedRow

LEMMA OtherRowStays ==
    ASSUME NEW d, NEW C, NEW T, NEW P, NEW h, NEW place,
           NEW e \in Confirmings(d, C, T, P, h, place), NEW t \in DOMAIN d.tx, t \notin T
    PROVE  t \in DOMAIN e.tx /\ e.tx[t].height = d.tx[t].height /\ e.tx[t].position = d.tx[t].position
BY ConfirmedRowIs

(* push_block and confirm: the rows of the longer chain.                   *)
LEMMA RowsPushed ==
    ASSUME NEW d, NEW c, NEW b, Extends(c, b), Acceptable(b), ChainRows(c, d),
           ToSet(TxsOf[b]) \subseteq DOMAIN d.tx,
           NEW place, \A i \in 1..Len(TxsOf[b]) : place[TxsOf[b][i]] = i - 1, NEW C,
           NEW e \in Confirmings(d, C, ToSet(TxsOf[b]), Inputs(b), Height(b), place)
    PROVE  ChainRows(Append(c, b), e)
<1> PICK n : n = Append(c, b)
    OBVIOUS
<1> PICK T : T = ToSet(TxsOf[b])
    OBVIOUS
<1>0. b \in Blocks /\ c \in Seq(Blocks) /\ Len(c) \in Nat
    BY DEF Extends
<1>1. /\ Len(n) = Len(c) + 1 /\ n[Len(c) + 1] = b /\ \A i \in 1..Len(c) : n[i] = c[i]
      /\ TxsIn(n) = TxsIn(c) \cup T
    <2>1. Extended(c, b, n)
        BY ExtendsAdds
    <2> QED BY <2>1 DEF Extended
<1>2. \A t \in T : t \notin TxsIn(c)
    BY AcceptableIs
<1>3. Height(b) = Len(c)
    BY ExtendsIs
<1>4. DOMAIN e.tx = DOMAIN d.tx
    BY DEF Confirmings, Confirming
<1>5. ASSUME NEW i \in 1..Len(c) PROVE RowsOf(n, i, e)
    <2>1. RowsOf(c, i, d) /\ n[i] = c[i]
        BY <1>1 DEF ChainRows
    <2> SUFFICES ASSUME NEW j \in 1..Len(TxsOf[c[i]])
                 PROVE  /\ TxsOf[c[i]][j] \in DOMAIN e.tx
                        /\ e.tx[TxsOf[c[i]][j]].height = i - 1
                        /\ e.tx[TxsOf[c[i]][j]].position = j - 1
        BY <2>1 DEF RowsOf
    <2> PICK t : t = TxsOf[c[i]][j]
        OBVIOUS
    <2>2. t \in DOMAIN d.tx /\ d.tx[t].height = i - 1 /\ d.tx[t].position = j - 1
        BY <2>1 DEF RowsOf
    <2>3. t \in TxsIn(c)
        BY <1>0, ChainTxs
    <2>4. t \notin T
        BY <1>2, <2>3
    <2>5. t \in DOMAIN e.tx /\ e.tx[t].height = d.tx[t].height /\ e.tx[t].position = d.tx[t].position
        BY <2>2, <2>4, OtherRowStays
    <2> QED BY <2>2, <2>5
<1>6. RowsOf(n, Len(c) + 1, e)
    <2> SUFFICES ASSUME NEW j \in 1..Len(TxsOf[b])
                 PROVE  /\ TxsOf[b][j] \in DOMAIN e.tx
                        /\ e.tx[TxsOf[b][j]].height = Len(c)
                        /\ e.tx[TxsOf[b][j]].position = j - 1
        BY <1>0, <1>1 DEF RowsOf
    <2> PICK t : t = TxsOf[b][j]
        OBVIOUS
    <2>1. t \in T
        BY <1>0, BlockTxs
    <2>2. t \in DOMAIN d.tx /\ place[t] = j - 1
        BY <2>1
    <2> QED BY <1>3, <2>1, <2>2, ConfirmedRowIs
<1>7. ASSUME NEW t \in DOMAIN e.tx, t \notin TxsIn(n)
      PROVE  e.tx[t].position = Unconfirmed \/ e.tx[t].position = Deconfirmed
    <2>1. t \in DOMAIN d.tx /\ t \notin TxsIn(c) /\ t \notin T
        BY <1>1, <1>4, <1>7
    <2>2. d.tx[t].position = Unconfirmed \/ d.tx[t].position = Deconfirmed
        BY <2>1 DEF ChainRows
    <2>3. e.tx[t].position = d.tx[t].position
        BY <2>1, ConfirmedRowIs
    <2> QED BY <2>2, <2>3
<1>8. \A i \in 1..Len(n) : RowsOf(n, i, e)
    BY <1>0, <1>1, <1>5, <1>6
<1>9. ChainRows(n, e)
    BY <1>7, <1>8 DEF ChainRows
<1> QED BY <1>9

(* What a block spends is stored where its chain is.                       *)
LEMMA InputsStored ==
    ASSUME NEW d, NEW c, NEW b, Extends(c, b), Acceptable(b), ChainRows(c, d),
           ToSet(TxsOf[b]) \subseteq DOMAIN d.tx, NEW p \in Inputs(b)
    PROVE  p[1] \in DOMAIN d.tx /\ p[2] \in Outputs(p[1]) /\ p = <<p[1], p[2]>> /\ HasOutput(d, p)
<1>0. b \in Blocks /\ c \in Seq(Blocks)
    BY DEF Extends
<1> PICK txs : txs = TxsOf[b]
    OBVIOUS
<1>1. PICK i \in 1..Len(txs) : p \in ToSet(InputsOf[txs[i]])
    BY <1>0, InputsArePoints
<1>2. p \in Txs \X Nat /\ p[2] < OutputsOf[p[1]] /\ (p[1] \in TxsIn(c) \/ p[1] \in Firsts(txs, i - 1))
    BY <1>1, AcceptableIs
<1>3. p[1] \in DOMAIN d.tx
    <2>1. CASE p[1] \in TxsIn(c)
        <3> PICK t \in TxsIn(c) : t = p[1]
            BY <2>1
        <3>1. HasRow(c, d, t)
            BY <1>0, RowOnChain
        <3> QED BY <3>1 DEF HasRow
    <2>2. CASE p[1] \in Firsts(txs, i - 1)
        <3>1. PICK j \in 1..(i - 1) : p[1] = txs[j]
            BY <2>2 DEF Firsts
        <3>2. Len(txs) \in Nat
            BY <1>0, BlockTxs
        <3>3. j \in 1..Len(txs)
            BY <3>2
        <3>4. txs[j] \in ToSet(TxsOf[b])
            BY <1>0, <3>3, BlockTxs
        <3> QED BY <3>1, <3>4
    <2> QED BY <1>2, <2>1, <2>2
<1>4. OutputsOf[p[1]] \in Nat
    BY <1>2, CacheAssumption
<1> QED BY <1>2, <1>3, <1>4 DEF Outputs, HasOutput

(* push_block and confirm: the spends of the longer chain.                 *)
LEMMA SpendsPushed ==
    ASSUME NEW d, NEW c, NEW b, Extends(c, b), Acceptable(b), ChainRows(c, d), ChainSpends(c, d),
           ToSet(TxsOf[b]) \subseteq DOMAIN d.tx, NEW place, NEW C,
           NEW e \in Confirmings(d, C, ToSet(TxsOf[b]), Inputs(b), Height(b), place)
    PROVE  ChainSpends(Append(c, b), e)
<1> PICK n : n = Append(c, b)
    OBVIOUS
<1> PICK P : P = Inputs(b)
    OBVIOUS
<1>0. b \in Blocks /\ c \in Seq(Blocks) /\ Len(c) \in Nat
    BY DEF Extends
<1>1. /\ Len(n) = Len(c) + 1 /\ n[Len(c) + 1] = b /\ \A i \in 1..Len(c) : n[i] = c[i]
      /\ Spends(TxsIn(n)) = Spends(TxsIn(c)) \cup P
    <2>1. Extended(c, b, n)
        BY ExtendsAdds
    <2> QED BY <2>1 DEF Extended
<1>2. \A p \in P : p \notin Spends(TxsIn(c))
    BY AcceptableIs
<1>3. SpenderAt(Height(b)) = Len(c)
    <2>1. Height(b) = Len(c) /\ Height(b) < Unverified
        BY <1>0, ExtendsIs, BlockTxs
    <2> QED BY <1>0, <2>1, TransactionAssumption DEF SpenderAt
<1>4. DOMAIN e.tx = DOMAIN d.tx
    BY DEF Confirmings, Confirming
<1>5. ASSUME NEW i \in 1..Len(c) PROVE SpendsOf(n, i, e)
    <2>1. SpendsOf(c, i, d) /\ n[i] = c[i] /\ c[i] \in Blocks
        BY <1>0, <1>1 DEF ChainSpends
    <2> SUFFICES ASSUME NEW p \in Inputs(c[i])
                 PROVE  /\ p[1] \in DOMAIN e.tx /\ p[2] \in Outputs(p[1])
                        /\ e.tx[p[1]].outputs[p[2]].spender = i - 1
        BY <2>1 DEF SpendsOf
    <2> PICK t \in Txs, k \in Nat : p = <<t, k>>
        <3>1. p \in Txs \X Nat
            BY <2>1, InputsArePoints
        <3> QED BY <3>1
    <2>2. t \in DOMAIN d.tx /\ k \in Outputs(t) /\ d.tx[t].outputs[k].spender = i - 1
        BY <2>1 DEF SpendsOf
    <2>3. p \in Spends(TxsIn(c))
        BY <1>0, ChainInputs
    <2>4. <<t, k>> \notin P
        BY <1>2, <2>3
    <2>5. e.tx[t].outputs[k].spender = d.tx[t].outputs[k].spender
        BY <2>2, <2>4, ConfirmedRowIs
    <2> QED BY <1>4, <2>2, <2>5
<1>6. SpendsOf(n, Len(c) + 1, e)
    <2> SUFFICES ASSUME NEW p \in P
                 PROVE  /\ p[1] \in DOMAIN e.tx /\ p[2] \in Outputs(p[1])
                        /\ e.tx[p[1]].outputs[p[2]].spender = Len(c)
        BY <1>0, <1>1 DEF SpendsOf
    <2> PICK t \in Txs, k \in Nat : p = <<t, k>>
        <3>1. p \in Txs \X Nat
            BY <1>0, InputsArePoints
        <3> QED BY <3>1
    <2>1. t \in DOMAIN d.tx /\ k \in Outputs(t)
        BY InputsStored
    <2>2. e.tx[t].outputs[k].spender = SpenderAt(Height(b))
        BY <2>1, ConfirmedRowIs
    <2> QED BY <1>3, <1>4, <2>1, <2>2
<1>7. ASSUME NEW t \in DOMAIN e.tx, NEW k \in Outputs(t), <<t, k>> \notin Spends(TxsIn(n))
      PROVE  e.tx[t].outputs[k].spender = NotSpent
    <2>1. t \in DOMAIN d.tx /\ <<t, k>> \notin Spends(TxsIn(c)) /\ <<t, k>> \notin P
        BY <1>1, <1>4, <1>7
    <2>2. d.tx[t].outputs[k].spender = NotSpent
        BY <2>1 DEF ChainSpends
    <2>3. e.tx[t].outputs[k].spender = d.tx[t].outputs[k].spender
        BY <2>1, ConfirmedRowIs
    <2> QED BY <2>2, <2>3
<1>8. \A i \in 1..Len(n) : SpendsOf(n, i, e)
    BY <1>0, <1>1, <1>5, <1>6
<1>9. ChainSpends(n, e)
    BY <1>7, <1>8 DEF ChainSpends
<1> QED BY <1>9

(* push_block and confirm: the cache.                                      *)
LEMMA CachePushed ==
    ASSUME NEW k, NEW c, NEW b, Extends(c, b), CacheOn(c, k),
           NEW n \in Adding(k, ToSet(TxsOf[b]), Height(b))
    PROVE  CacheOn(Append(c, b), n)
<1> PICK u : u = Append(c, b)
    OBVIOUS
<1>1. /\ Len(u) = Len(c) + 1 /\ u[Len(c) + 1] = b /\ \A i \in 1..Len(c) : u[i] = c[i]
      /\ Height(b) = Len(c) /\ Len(c) \in Nat
    BY ExtendsAdds, ExtendsIs DEF Extended
<1>2. ASSUME NEW t \in DOMAIN n.map, n.map[t].confirmed
      PROVE  n.map[t].height \in 0..(Len(u) - 1) /\ t \in ToSet(TxsOf[u[n.map[t].height + 1]])
    <2>1. \/ t \in DOMAIN k.map /\ n.map[t] = k.map[t]
          \/ t \in ToSet(TxsOf[b]) /\ n.map[t].height = Len(c)
        BY <1>1 DEF Adding
    <2>2. CASE t \in DOMAIN k.map /\ n.map[t] = k.map[t]
        <3>1. k.map[t].height \in 0..(Len(c) - 1) /\ t \in ToSet(TxsOf[c[k.map[t].height + 1]])
            BY <1>2, <2>2 DEF CacheOn
        <3> PICK h \in 0..(Len(c) - 1) : h = k.map[t].height
            BY <3>1
        <3>2. h \in 0..(Len(u) - 1) /\ u[h + 1] = c[h + 1]
            BY <1>1
        <3> QED BY <2>2, <3>1, <3>2
    <2>3. CASE t \in ToSet(TxsOf[b]) /\ n.map[t].height = Len(c)
        BY <1>1, <2>3
    <2> QED BY <2>1, <2>2, <2>3
<1>3. CacheOn(u, n)
    BY <1>2 DEF CacheOn
<1> QED BY <1>3

(* A block at the top of the confirmed chain can be deconfirmed.           *)
LEMMA MayUnconfirmBlock ==
    ASSUME NEW d \in Tables, NEW c, NEW b, Extends(c, b), Acceptable(b), ChainRows(Append(c, b), d)
    PROVE  \E place : /\ \A i \in 1..Len(TxsOf[b]) : place[TxsOf[b][i]] = Deconfirmed
                      /\ Confirmable(d, TxsOf[b], Unverified, place)
<1>0. b \in Blocks /\ c \in Seq(Blocks) /\ Len(c) \in Nat
    BY DEF Extends
<1> PICK u : u = Append(c, b)
    OBVIOUS
<1>1. Extended(c, b, u)
    BY ExtendsAdds
<1>2. u \in Seq(Blocks) /\ Len(u) = Len(c) + 1 /\ u[Len(c) + 1] = b
    BY <1>1 DEF Extended
<1> PICK txs \in Seq(Txs) : txs = TxsOf[b]
    BY <1>0, BlockTxs
<1>3. /\ \A i \in 1..Len(txs) : txs[i] \in ToSet(txs)
      /\ Len(txs) \in Nat \ {0} /\ Len(txs) <= Deconfirmed /\ Deconfirmed # Unconfirmed /\ Deconfirmed \in Nat
    BY <1>0, BlockTxs, TransactionAssumption
<1> DEFINE place == [t \in ToSet(txs) |-> Deconfirmed]
<1>4. \A i \in 1..Len(txs) : place[txs[i]] = Deconfirmed
    BY <1>3
<1> HIDE DEF place
<1>5. ASSUME NEW t \in TxsIn(u)
      PROVE  t \in DOMAIN d.tx /\ d.tx[t].position # Unconfirmed /\ d.tx[t].height <= Unverified
    <2>0. HasRow(u, d, t)
        BY <1>2, RowOnChain
    <2>1. PICK m \in 1..Len(u) : \E j \in 1..Len(TxsOf[u[m]]) :
             t \in DOMAIN d.tx /\ d.tx[t].height = m - 1 /\ d.tx[t].position = j - 1
        BY <2>0 DEF HasRow
    <2>2. PICK j \in 1..Len(TxsOf[u[m]]) :
             t \in DOMAIN d.tx /\ d.tx[t].height = m - 1 /\ d.tx[t].position = j - 1
        BY <2>1
    <2>3. u[m] \in Blocks
        BY <1>2
    <2>4. Len(TxsOf[u[m]]) \in Nat /\ Len(TxsOf[u[m]]) <= Unconfirmed
        BY <2>3, BlockTxs
    <2>5. j - 1 # Unconfirmed
        BY <2>4, TransactionAssumption
    <2>6. Height(b) = Len(c) /\ Height(b) < Unverified
        BY <1>0, ExtendsIs, BlockTxs
    <2>7. m - 1 <= Unverified
        BY <1>0, <1>2, <2>6, TransactionAssumption
    <2> QED BY <2>2, <2>5, <2>7
<1>6. ASSUME NEW i \in 1..Len(txs), NEW p \in ToSet(InputsOf[txs[i]])
      PROVE  Spendable(d, p, Firsts(txs, i - 1), Unverified)
    <2>1. p \in Txs \X Nat /\ p[2] < OutputsOf[p[1]] /\ (p[1] \in TxsIn(c) \/ p[1] \in Firsts(txs, i - 1))
        BY AcceptableIs
    <2>2. TxsIn(u) = TxsIn(c) \cup ToSet(txs)
        BY <1>1 DEF Extended
    <2>3. p[1] \in Firsts(txs, i - 1) => p[1] \in ToSet(txs)
        BY <1>3 DEF Firsts
    <2>4. p[1] \in TxsIn(u)
        BY <2>1, <2>2, <2>3
    <2>5. p[1] \in DOMAIN d.tx /\ d.tx[p[1]].position # Unconfirmed /\ d.tx[p[1]].height <= Unverified
        BY <1>5, <2>4
    <2> QED BY <2>1, <2>5 DEF Spendable, HasOutput
<1>7. ASSUME NEW i \in 1..Len(txs)
      PROVE  /\ txs[i] \in DOMAIN d.tx
             /\ place[txs[i]] \in Nat /\ place[txs[i]] # Unconfirmed
             /\ place[txs[i]] = 0 => InputsOf[txs[i]] = <<>>
    <2>1. txs[i] \in TxsIn(u)
        BY <1>1, <1>3 DEF Extended
    <2>2. txs[i] \in DOMAIN d.tx
        BY <1>5, <2>1
    <2>3. Deconfirmed # 0
        BY <1>3
    <2> QED BY <1>3, <1>4, <2>2, <2>3
<1>8. Confirmable(d, txs, Unverified, place)
    BY <1>6, <1>7 DEF Confirmable
<1> QED BY <1>4, <1>8

(* pop_block: the rows of the shorter chain.                               *)
LEMMA RowsPopped ==
    ASSUME NEW d, NEW c, NEW b, Extends(c, b), Acceptable(b), ChainRows(Append(c, b), d),
           NEW place, \A i \in 1..Len(TxsOf[b]) : place[TxsOf[b][i]] = Deconfirmed, NEW C,
           NEW e \in Confirmings(d, C, ToSet(TxsOf[b]), Inputs(b), Unverified, place)
    PROVE  ChainRows(c, e)
<1> PICK n : n = Append(c, b)
    OBVIOUS
<1> PICK T : T = ToSet(TxsOf[b])
    OBVIOUS
<1>0. b \in Blocks /\ c \in Seq(Blocks) /\ Len(c) \in Nat
    BY DEF Extends
<1>1. /\ Len(n) = Len(c) + 1 /\ n[Len(c) + 1] = b /\ \A i \in 1..Len(c) : n[i] = c[i]
      /\ TxsIn(n) = TxsIn(c) \cup T
    <2>1. Extended(c, b, n)
        BY ExtendsAdds
    <2> QED BY <2>1 DEF Extended
<1>2. \A t \in T : t \notin TxsIn(c)
    BY AcceptableIs
<1>4. DOMAIN e.tx = DOMAIN d.tx
    BY DEF Confirmings, Confirming
<1>5. ASSUME NEW i \in 1..Len(c) PROVE RowsOf(c, i, e)
    <2>1. RowsOf(n, i, d) /\ n[i] = c[i]
        BY <1>0, <1>1 DEF ChainRows
    <2> SUFFICES ASSUME NEW j \in 1..Len(TxsOf[c[i]])
                 PROVE  /\ TxsOf[c[i]][j] \in DOMAIN e.tx
                        /\ e.tx[TxsOf[c[i]][j]].height = i - 1
                        /\ e.tx[TxsOf[c[i]][j]].position = j - 1
        BY <2>1 DEF RowsOf
    <2> PICK t : t = TxsOf[c[i]][j]
        OBVIOUS
    <2>2. t \in DOMAIN d.tx /\ d.tx[t].height = i - 1 /\ d.tx[t].position = j - 1
        BY <2>1 DEF RowsOf
    <2>3. t \in TxsIn(c)
        BY <1>0, ChainTxs
    <2>4. t \notin T
        BY <1>2, <2>3
    <2>5. t \in DOMAIN e.tx /\ e.tx[t].height = d.tx[t].height /\ e.tx[t].position = d.tx[t].position
        BY <2>2, <2>4, OtherRowStays
    <2> QED BY <2>2, <2>5
<1>7. ASSUME NEW t \in DOMAIN e.tx, t \notin TxsIn(c)
      PROVE  e.tx[t].position = Unconfirmed \/ e.tx[t].position = Deconfirmed
    <2>1. t \in DOMAIN d.tx
        BY <1>4
    <2>2. CASE t \in T
        <3>0. PICK j \in 1..Len(TxsOf[b]) : t = TxsOf[b][j]
            <4>1. t \in ToSet(TxsOf[b]) /\ b \in Blocks
                BY <1>0, <2>2
            <4>2. TxsOf[b] \in Seq(Txs)
                BY <4>1, BlockTxs
            <4> QED BY <4>1, <4>2 DEF ToSet
        <3>1. place[t] = Deconfirmed
            BY <3>0
        <3> QED BY <2>1, <2>2, <3>1, ConfirmedRowIs
    <2>3. CASE t \notin T
        <3>1. d.tx[t].position = Unconfirmed \/ d.tx[t].position = Deconfirmed
            BY <1>1, <1>7, <2>1, <2>3 DEF ChainRows
        <3> QED BY <2>1, <2>3, <3>1, ConfirmedRowIs
    <2> QED BY <2>2, <2>3
<1> QED BY <1>5, <1>7 DEF ChainRows

(* pop_block: the spends of the shorter chain.                             *)
LEMMA SpendsPopped ==
    ASSUME NEW d, NEW c, NEW b, Extends(c, b), Acceptable(b), ChainSpends(Append(c, b), d),
           NEW place, NEW C,
           NEW e \in Confirmings(d, C, ToSet(TxsOf[b]), Inputs(b), Unverified, place)
    PROVE  ChainSpends(c, e)
<1> PICK n : n = Append(c, b)
    OBVIOUS
<1> PICK P : P = Inputs(b)
    OBVIOUS
<1>0. b \in Blocks /\ c \in Seq(Blocks) /\ Len(c) \in Nat
    BY DEF Extends
<1>1. /\ Len(n) = Len(c) + 1 /\ n[Len(c) + 1] = b /\ \A i \in 1..Len(c) : n[i] = c[i]
      /\ Spends(TxsIn(n)) = Spends(TxsIn(c)) \cup P
    <2>1. Extended(c, b, n)
        BY ExtendsAdds
    <2> QED BY <2>1 DEF Extended
<1>2. \A p \in P : p \notin Spends(TxsIn(c))
    BY AcceptableIs
<1>3. SpenderAt(Unverified) = NotSpent
    BY DEF SpenderAt
<1>4. DOMAIN e.tx = DOMAIN d.tx
    BY DEF Confirmings, Confirming
<1>5. ASSUME NEW i \in 1..Len(c) PROVE SpendsOf(c, i, e)
    <2>1. SpendsOf(n, i, d) /\ n[i] = c[i] /\ c[i] \in Blocks
        BY <1>0, <1>1 DEF ChainSpends
    <2> SUFFICES ASSUME NEW p \in Inputs(c[i])
                 PROVE  /\ p[1] \in DOMAIN e.tx /\ p[2] \in Outputs(p[1])
                        /\ e.tx[p[1]].outputs[p[2]].spender = i - 1
        BY <2>1 DEF SpendsOf
    <2> PICK t \in Txs, k \in Nat : p = <<t, k>>
        <3>1. p \in Txs \X Nat
            BY <2>1, InputsArePoints
        <3> QED BY <3>1
    <2>2. t \in DOMAIN d.tx /\ k \in Outputs(t) /\ d.tx[t].outputs[k].spender = i - 1
        BY <2>1 DEF SpendsOf
    <2>3. p \in Spends(TxsIn(c))
        BY <1>0, ChainInputs
    <2>4. <<t, k>> \notin P
        BY <1>2, <2>3
    <2>5. e.tx[t].outputs[k].spender = d.tx[t].outputs[k].spender
        BY <2>2, <2>4, ConfirmedRowIs
    <2> QED BY <1>4, <2>2, <2>5
<1>7. ASSUME NEW t \in DOMAIN e.tx, NEW k \in Outputs(t), <<t, k>> \notin Spends(TxsIn(c))
      PROVE  e.tx[t].outputs[k].spender = NotSpent
    <2>1. t \in DOMAIN d.tx
        BY <1>4
    <2>2. CASE <<t, k>> \in P
        BY <1>3, <2>1, <2>2, ConfirmedRowIs
    <2>3. CASE <<t, k>> \notin P
        <3>1. d.tx[t].outputs[k].spender = NotSpent
            BY <1>1, <1>7, <2>1, <2>3 DEF ChainSpends
        <3>2. e.tx[t].outputs[k].spender = d.tx[t].outputs[k].spender
            BY <2>1, <2>3, ConfirmedRowIs
        <3> QED BY <3>1, <3>2
    <2> QED BY <2>2, <2>3
<1> QED BY <1>5, <1>7 DEF ChainSpends

(* pop_block: the cache.                                                   *)
LEMMA CachePopped ==
    ASSUME NEW k, NEW c, NEW b, Extends(c, b), CacheOn(Append(c, b), k),
           NEW n \in Removing(k, ToSet(TxsOf[b]))
    PROVE  CacheOn(c, n)
<1> PICK u : u = Append(c, b)
    OBVIOUS
<1>0. Extended(c, b, u)
    BY ExtendsAdds
<1>1. /\ Len(u) = Len(c) + 1 /\ u[Len(c) + 1] = b /\ \A i \in 1..Len(c) : u[i] = c[i]
      /\ Len(c) \in Nat
    BY <1>0, ExtendsIs DEF Extended
<1>2. ASSUME NEW t \in DOMAIN n.map, n.map[t].confirmed
      PROVE  n.map[t].height \in 0..(Len(c) - 1) /\ t \in ToSet(TxsOf[c[n.map[t].height + 1]])
    <2>1. t \in DOMAIN k.map /\ t \notin ToSet(TxsOf[b]) /\ n.map[t] = k.map[t]
        BY DEF Removing, EntriesLeft
    <2>2. k.map[t].height \in 0..(Len(u) - 1) /\ t \in ToSet(TxsOf[u[k.map[t].height + 1]])
        BY <1>2, <2>1 DEF CacheOn
    <2> PICK h \in 0..(Len(u) - 1) : h = k.map[t].height
        BY <2>2
    <2>3. h # Len(c)
        BY <1>1, <2>1, <2>2
    <2>4. h \in 0..(Len(c) - 1) /\ u[h + 1] = c[h + 1]
        BY <1>1, <2>3
    <2> QED BY <2>1, <2>2, <2>4
<1> QED BY <1>2 DEF CacheOn

-----------------------------------------------------------------------------
(* What else the methods of transaction_database leave.                    *)

(* Table e has the transactions of d, and maybe more; a transaction is not *)
(* unconfirmed only if it was so or is of T; no mark is set.               *)
Grown(d, e, T) ==
    /\ e \in Tables /\ DOMAIN d.tx \subseteq DOMAIN e.tx
    /\ \A t \in DOMAIN e.tx :
          /\ e.tx[t].position # Unconfirmed =>
                t \in T \/ (t \in DOMAIN d.tx /\ d.tx[t].position # Unconfirmed)
          /\ e.tx[t].candidate => t \in DOMAIN d.tx /\ d.tx[t].candidate
          /\ \A k \in Outputs(t) : e.tx[t].outputs[k].candidateSpent =>
                t \in DOMAIN d.tx /\ d.tx[t].outputs[k].candidateSpent

LEMMA GrownTwice ==
    ASSUME NEW d, NEW e, NEW T, Grown(d, e, {}), NEW n, Grown(e, n, T)
    PROVE  Grown(d, n, T)
<1> PICK none : none = {}
    OBVIOUS
<1>1. Grown(d, e, none) /\ \A t : t \notin none
    OBVIOUS
<1>2. n \in Tables /\ DOMAIN d.tx \subseteq DOMAIN n.tx
    BY <1>1 DEF Grown
<1>3. ASSUME NEW t \in DOMAIN n.tx
      PROVE  /\ n.tx[t].position # Unconfirmed =>
                   t \in T \/ (t \in DOMAIN d.tx /\ d.tx[t].position # Unconfirmed)
             /\ n.tx[t].candidate => t \in DOMAIN d.tx /\ d.tx[t].candidate
             /\ \A k \in Outputs(t) : n.tx[t].outputs[k].candidateSpent =>
                   t \in DOMAIN d.tx /\ d.tx[t].outputs[k].candidateSpent
    BY <1>1 DEF Grown
<1> QED BY <1>2, <1>3 DEF Grown

(* The same rows.                                                          *)
LEMMA GrownSame ==
    ASSUME NEW d \in Tables, NEW e \in Tables, e.tx = d.tx, NEW T
    PROVE  Grown(d, e, T)
BY DEF Grown

(* confirm and unconfirm.                                                  *)
LEMMA GrownConfirming ==
    ASSUME NEW d, NEW C, NEW T, NEW P, NEW h, NEW place, NEW e \in Confirmings(d, C, T, P, h, place)
    PROVE  Grown(d, e, T)
<1>1. e \in Tables /\ DOMAIN e.tx = DOMAIN d.tx
    BY DEF Confirmings, Confirming
<1>2. ASSUME NEW t \in DOMAIN e.tx
      PROVE  /\ e.tx[t].position # Unconfirmed =>
                   t \in T \/ (t \in DOMAIN d.tx /\ d.tx[t].position # Unconfirmed)
             /\ e.tx[t].candidate => t \in DOMAIN d.tx /\ d.tx[t].candidate
             /\ \A k \in Outputs(t) : e.tx[t].outputs[k].candidateSpent =>
                   t \in DOMAIN d.tx /\ d.tx[t].outputs[k].candidateSpent
    <2>1. t \in DOMAIN d.tx /\ ConfirmedRow(t, d.tx[t], e.tx[t], T, P, h, place)
        BY <1>1 DEF Confirmings, Confirming
    <2>2. e.tx[t].position # Unconfirmed => t \in T \/ d.tx[t].position # Unconfirmed
        BY <2>1 DEF ConfirmedRow
    <2>3. e.tx[t].candidate => d.tx[t].candidate
        BY <2>1, Zenon DEF ConfirmedRow
    <2>4. \A k \in Outputs(t) : e.tx[t].outputs[k].candidateSpent => d.tx[t].outputs[k].candidateSpent
        BY <2>1, Zenon DEF ConfirmedRow
    <2> QED BY <2>1, <2>2, <2>3, <2>4
<1> QED BY <1>1, <1>2 DEF Grown

(* store.                                                                  *)
LEMMA GrownStoring ==
    ASSUME NEW d, NEW h \in HeightValues, NEW T \in SUBSET Txs, NEW e \in Storings(d, T, h)
    PROVE  Grown(d, e, {})
<1>1. /\ e \in Tables /\ DOMAIN e.tx = DOMAIN d.tx \cup T
      /\ \A t \in DOMAIN d.tx : e.tx[t] = d.tx[t]
      /\ \A t \in T \ DOMAIN d.tx : e.tx[t] = NewRecord(t, h)
    BY DEF Storings, Storing
<1> PICK none : none = {}
    OBVIOUS
<1>2. ASSUME NEW t \in DOMAIN e.tx
      PROVE  /\ e.tx[t].position # Unconfirmed =>
                   t \in none \/ (t \in DOMAIN d.tx /\ d.tx[t].position # Unconfirmed)
             /\ e.tx[t].candidate => t \in DOMAIN d.tx /\ d.tx[t].candidate
             /\ \A k \in Outputs(t) : e.tx[t].outputs[k].candidateSpent =>
                   t \in DOMAIN d.tx /\ d.tx[t].outputs[k].candidateSpent
    <2>1. CASE t \in DOMAIN d.tx
        BY <1>1, <2>1
    <2>2. CASE t \notin DOMAIN d.tx
        <3>1. t \in Txs /\ e.tx[t] = NewRecord(t, h)
            BY <1>1, <2>2
        <3>2. /\ NewRecord(t, h).position = Unconfirmed /\ ~NewRecord(t, h).candidate
              /\ \A k \in Outputs(t) : ~NewRecord(t, h).outputs[k].candidateSpent
            BY <3>1, NewRecordIs
        <3> QED BY <3>1, <3>2
    <2> QED BY <2>1, <2>2
<1>3. Grown(d, e, none)
    BY <1>1, <1>2 DEF Grown
<1> QED BY <1>3

(* The confirmed chain, when transactions are stored.                      *)
LEMMA OnChainStoring ==
    ASSUME NEW d, NEW h \in HeightValues, NEW T \in SUBSET Txs, NEW e \in Storings(d, T, h),
           NEW c, ChainRows(c, d), ChainSpends(c, d)
    PROVE  ChainRows(c, e) /\ ChainSpends(c, e)
<1>1. /\ e \in Tables /\ DOMAIN e.tx = DOMAIN d.tx \cup T
      /\ \A t \in DOMAIN d.tx : e.tx[t] = d.tx[t]
      /\ \A t \in T \ DOMAIN d.tx : e.tx[t] = NewRecord(t, h)
    BY DEF Storings, Storing
<1>2. ASSUME NEW t \in DOMAIN e.tx, t \notin DOMAIN d.tx
      PROVE  e.tx[t].position = Unconfirmed /\ \A k \in Outputs(t) : e.tx[t].outputs[k].spender = NotSpent
    <2>1. t \in Txs /\ e.tx[t] = NewRecord(t, h)
        BY <1>1, <1>2
    <2>2. /\ NewRecord(t, h).position = Unconfirmed
          /\ \A k \in Outputs(t) : NewRecord(t, h).outputs[k].spender = NotSpent
        BY <2>1, NewRecordIs
    <2> QED BY <2>1, <2>2
<1>3. ASSUME NEW i \in 1..Len(c) PROVE RowsOf(c, i, e) /\ SpendsOf(c, i, e)
    <2>1. RowsOf(c, i, d) /\ SpendsOf(c, i, d)
        BY DEF ChainRows, ChainSpends
    <2>2. RowsOf(c, i, e)
        BY <1>1, <2>1 DEF RowsOf
    <2>3. SpendsOf(c, i, e)
        BY <1>1, <2>1 DEF SpendsOf
    <2> QED BY <2>2, <2>3
<1>4. ASSUME NEW t \in DOMAIN e.tx, t \notin TxsIn(c)
      PROVE  e.tx[t].position = Unconfirmed \/ e.tx[t].position = Deconfirmed
    BY <1>1, <1>2, <1>4 DEF ChainRows
<1>5. ASSUME NEW t \in DOMAIN e.tx, NEW k \in Outputs(t), <<t, k>> \notin Spends(TxsIn(c))
      PROVE  e.tx[t].outputs[k].spender = NotSpent
    BY <1>1, <1>2, <1>5 DEF ChainSpends
<1> QED BY <1>3, <1>4, <1>5 DEF ChainRows, ChainSpends

(* The confirmed chain, when transactions are marked.                      *)
LEMMA OnChainMarking ==
    ASSUME NEW d, NEW T, NEW P, NEW v, NEW e \in Markings(d, T, P, v),
           NEW c, ChainRows(c, d), ChainSpends(c, d)
    PROVE  ChainRows(c, e) /\ ChainSpends(c, e)
<1>1. /\ DOMAIN e.tx = DOMAIN d.tx
      /\ \A t \in DOMAIN d.tx :
            /\ e.tx[t].height = d.tx[t].height /\ e.tx[t].position = d.tx[t].position
            /\ \A k \in Outputs(t) : e.tx[t].outputs[k].spender = d.tx[t].outputs[k].spender
    BY DEF Markings, Marking, MarkedRow
<1>2. ASSUME NEW i \in 1..Len(c) PROVE RowsOf(c, i, e)
    BY <1>1 DEF ChainRows, RowsOf
<1>3. ASSUME NEW i \in 1..Len(c) PROVE SpendsOf(c, i, e)
    BY <1>1 DEF ChainSpends, SpendsOf
<1> QED BY <1>1, <1>2, <1>3 DEF ChainRows, ChainSpends

(* Rows and cache are all that a chain is about.                           *)
LEMMA OnChainSame ==
    ASSUME NEW d, NEW e, e.tx = d.tx, NEW c, ChainRows(c, d), ChainSpends(c, d)
    PROVE  ChainRows(c, e) /\ ChainSpends(c, e)
<1>1. ChainRows(c, e)
    BY DEF ChainRows, RowsOf
<1>2. ChainSpends(c, e)
    BY DEF ChainSpends, SpendsOf
<1> QED BY <1>1, <1>2

(* store(transactions), with what it leaves.                               *)
BlockStored(c, d, e, b) ==
    /\ e \in Tables /\ e.ok /\ Grown(d, e, {})
    /\ OnChain(c, e)
    /\ ToSet(TxsOf[b]) \subseteq DOMAIN e.tx

LEMMA BlockStores ==
    ASSUME NEW d \in Tables, d.ok, NEW b \in Blocks, NEW c, OnChain(c, d),
           NEW e, e = StoreAll(d, TxsOf[b])
    PROVE  BlockStored(c, d, e, b)
<1> PICK txs \in Seq(Txs) : txs = TxsOf[b]
    BY BlockTxs
<1>0. \A t \in ToSet(txs) : t \in Txs
    BY DEF ToSet
<1> PICK T \in SUBSET Txs : T = ToSet(txs)
    BY <1>0
<1> PICK h \in HeightValues : h = Unverified
    BY HeightsAreNat
<1>1. e \in Storings(d, T, h)
    BY StoreAllDoes
<1>2. e \in Tables /\ e.ok /\ e.cache = d.cache /\ T \subseteq DOMAIN e.tx
    BY <1>1 DEF Storings, Storing
<1>3. Grown(d, e, {})
    BY <1>1, GrownStoring
<1>4. ChainRows(c, e) /\ ChainSpends(c, e)
    BY <1>1, OnChainStoring DEF OnChain
<1> QED BY <1>2, <1>3, <1>4 DEF BlockStored, OnChain

(* confirm(block) and the loop of data_base::confirm: they succeed.        *)
BlockConfirmed(c, d, e, b) ==
    /\ e \in Tables /\ e.ok /\ Grown(d, e, ToSet(TxsOf[b]))
    /\ OnChain(Append(c, b), e)

LEMMA BlockConfirms ==
    ASSUME NEW d \in Tables, d.ok, NEW c, NEW b, Extends(c, b), Acceptable(b), OnChain(c, d),
           ToSet(TxsOf[b]) \subseteq DOMAIN d.tx, NEW h, h = Height(b),
           NEW e, e = ConfirmAll(d, TxsOf[b], h) \/ e = ConfirmLinks(d, TxsOf[b], h)
    PROVE  BlockConfirmed(c, d, e, b)
<1>0. b \in Blocks /\ ChainRows(c, d) /\ ChainSpends(c, d) /\ CacheOn(c, d.cache)
    BY DEF Extends, OnChain
<1>1. PICK place : /\ \A i \in 1..Len(TxsOf[b]) : place[TxsOf[b][i]] = i - 1
                   /\ Confirmable(d, TxsOf[b], Height(b), place)
    BY <1>0, MayConfirmBlock
<1>2. TxsOf[b] \in Seq(Txs) /\ Height(b) \in HeightValues
    BY <1>0, BlockTxs
<1> PICK txs \in Seq(Txs) : txs = TxsOf[b]
    BY <1>2
<1> PICK C : C = Adding(d.cache, ToSet(txs), h)
    OBVIOUS
<1>3. \E D : D \subseteq C /\ e \in Confirmings(d, D, ToSet(txs), Spends(ToSet(txs)), h, place)
    <2>1. Confirmable(d, txs, h, place) /\ h \in HeightValues /\ \A i \in 1..Len(txs) : place[txs[i]] = i - 1
        BY <1>1, <1>2
    <2>2. CASE e = ConfirmAll(d, TxsOf[b], h)
        <3>1. e \in Confirmings(d, C, ToSet(txs), Spends(ToSet(txs)), h, place)
            BY <2>1, <2>2, ConfirmAllDoes
        <3> QED BY <3>1
    <2>3. CASE e = ConfirmLinks(d, TxsOf[b], h)
        <3>1. e \in Confirmings(d, Only(d.cache), ToSet(txs), Spends(ToSet(txs)), h, place)
            BY <2>1, <2>3, ConfirmLinksDoes
        <3>2. d.cache \in Caches
            BY TableIs
        <3>3. Only(d.cache) \subseteq C
            BY <3>2 DEF Only, Adding
        <3> QED BY <3>1, <3>3
    <2> QED BY <2>2, <2>3
<1>4. PICK D : D \subseteq C /\ e \in Confirmings(d, D, ToSet(txs), Spends(ToSet(txs)), h, place)
    BY <1>3
<1>5. e \in Confirmings(d, D, ToSet(TxsOf[b]), Inputs(b), Height(b), place)
    BY <1>4 DEF Inputs
<1>6. e \in Tables /\ e.ok /\ e.cache \in C
    BY <1>4 DEF Confirmings, Confirming
<1>7. ChainRows(Append(c, b), e)
    BY <1>0, <1>1, <1>5, RowsPushed
<1>8. ChainSpends(Append(c, b), e)
    BY <1>0, <1>5, SpendsPushed
<1>9. CacheOn(Append(c, b), e.cache)
    <2>1. e.cache \in Adding(d.cache, ToSet(TxsOf[b]), Height(b))
        BY <1>6
    <2> QED BY <1>0, <2>1, CachePushed
<1>10. Grown(d, e, ToSet(TxsOf[b]))
    BY <1>5, GrownConfirming
<1> QED BY <1>6, <1>7, <1>8, <1>9, <1>10 DEF BlockConfirmed, OnChain

(* unconfirm(block): it succeeds.                                          *)
BlockUnconfirmed(c, d, e, b) ==
    /\ e \in Tables /\ e.ok /\ Grown(d, e, ToSet(TxsOf[b]))
    /\ OnChain(c, e)

LEMMA BlockUnconfirms ==
    ASSUME NEW d \in Tables, d.ok, NEW c, NEW b, Extends(c, b), Acceptable(b), OnChain(Append(c, b), d),
           NEW e, e = UnconfirmAll(d, TxsOf[b])
    PROVE  BlockUnconfirmed(c, d, e, b)
<1> PICK u : u = Append(c, b)
    OBVIOUS
<1>0. b \in Blocks /\ ChainRows(u, d) /\ ChainSpends(u, d) /\ CacheOn(u, d.cache)
    BY DEF Extends, OnChain
<1>1. PICK place : /\ \A i \in 1..Len(TxsOf[b]) : place[TxsOf[b][i]] = Deconfirmed
                   /\ Confirmable(d, TxsOf[b], Unverified, place)
    BY <1>0, MayUnconfirmBlock
<1>2. TxsOf[b] \in Seq(Txs) /\ Unverified \in HeightValues
    BY <1>0, BlockTxs, HeightsAreNat
<1> PICK txs \in Seq(Txs) : txs = TxsOf[b]
    BY <1>2
<1> PICK h \in HeightValues : h = Unverified
    BY <1>2
<1> PICK C : C = Removing(d.cache, ToSet(txs))
    OBVIOUS
<1>3. Confirmable(d, txs, h, place) /\ \A i \in 1..Len(txs) : place[txs[i]] = Deconfirmed
    BY <1>1
<1>4. e \in Confirmings(d, C, ToSet(txs), Spends(ToSet(txs)), h, place)
    <2>1. UnconfirmAll(d, txs) \in
              Confirmings(d, Removing(d.cache, ToSet(txs)), ToSet(txs), Spends(ToSet(txs)), h, place)
        BY <1>3, UnconfirmAllDoes
    <2> QED BY <2>1
<1>5. e \in Confirmings(d, C, ToSet(TxsOf[b]), Inputs(b), Unverified, place)
    BY <1>4 DEF Inputs
<1>6. e \in Tables /\ e.ok /\ e.cache \in C
    BY <1>4 DEF Confirmings, Confirming
<1>7. ChainRows(c, e)
    BY <1>0, <1>1, <1>5, RowsPopped
<1>8. ChainSpends(c, e)
    BY <1>0, <1>5, SpendsPopped
<1>9. CacheOn(c, e.cache)
    <2>1. e.cache \in Removing(d.cache, ToSet(TxsOf[b]))
        BY <1>6
    <2> QED BY <1>0, <2>1, CachePopped
<1>10. Grown(d, e, ToSet(TxsOf[b]))
    BY <1>5, GrownConfirming
<1> QED BY <1>6, <1>7, <1>8, <1>9, <1>10 DEF BlockUnconfirmed, OnChain

(* store(tx, forks).                                                       *)
LEMMA TxStores ==
    ASSUME NEW d \in Tables, d.ok, NEW t \in Txs, NEW c, OnChain(c, d),
           NEW e, e = StoreUnconfirmed(d, t, Forks)
    PROVE  e \in Tables /\ e.ok /\ Grown(d, e, {}) /\ OnChain(c, e)
<1> PICK no \in Flags : no = FALSE
    BY DEF Flags
<1> PICK h \in HeightValues : h = Forks
    BY HeightsAreNat
<1>0. h \in Nat /\ d.cache \in Caches
    BY HeightsAreNat, TableIs
<1> PICK k : k = AddTx(d.cache, t, h, no)
    OBVIOUS
<1> PICK m : m = SetCache(d, k)
    OBVIOUS
<1>1. e = Storize(m, t, h)
    <2>1. e = Storize([d EXCEPT !.cache = AddTx(@, t, h, no)], t, h)
        BY Zenon DEF StoreUnconfirmed
    <2> QED BY <2>1 DEF SetCache
<1>2. EntriesFrom(d.cache, k, {t}, h, no)
    BY <1>0, AddTxDoes
<1>3. k \in Caches
    BY <1>2 DEF EntriesFrom
<1>4. m \in Tables /\ m.tx = d.tx /\ m.cache = k /\ m.ok = d.ok
    BY <1>3, SetCacheDoes DEF CacheSet
<1>5. m \in Storings(m, {}, h)
    <2>1. Storing(m, m, {}, h)
        BY <1>4 DEF Storing
    <2> QED BY <1>4, <2>1 DEF Storings
<1>6. e \in Storings(m, {t}, h)
    <2>1. e \in Storings(m, {} \cup {t}, h)
        BY <1>1, <1>5, StorizeDoes
    <2>2. {} \cup {t} = {t}
        OBVIOUS
    <2> QED BY <2>1, <2>2
<1>7. e \in Tables /\ e.ok = d.ok /\ e.cache = k
    BY <1>4, <1>6 DEF Storings, Storing
<1> PICK T \in SUBSET Txs : T = {t}
    OBVIOUS
<1>8. Grown(m, e, {})
    BY <1>6, GrownStoring
<1>9. Grown(d, m, {})
    BY <1>4, GrownSame
<1>10. Grown(d, e, {})
    BY <1>8, <1>9, GrownTwice
<1>11. ChainRows(c, m) /\ ChainSpends(c, m)
    BY <1>4, OnChainSame DEF OnChain
<1>12. ChainRows(c, e) /\ ChainSpends(c, e)
    BY <1>6, <1>11, OnChainStoring
<1>13. CacheOn(c, k)
    <2>1. ASSUME NEW s \in DOMAIN k.map, k.map[s].confirmed PROVE s \in DOMAIN d.cache.map /\ k.map[s] = d.cache.map[s]
        BY <1>2, <2>1 DEF EntriesFrom
    <2>2. CacheOn(c, d.cache)
        BY DEF OnChain
    <2> QED BY <2>1, <2>2 DEF CacheOn
<1> QED BY <1>7, <1>10, <1>12, <1>13 DEF OnChain

-----------------------------------------------------------------------------
(* The second invariant: what the transaction table and the payment index  *)
(* have to do with the chains.                                             *)

TxsOfBlocks(S) == UNION {ToSet(TxsOf[b]) : b \in S}

(* The transactions of an associated block are stored.                     *)
StoredIn(bl, d) == \A b \in DOMAIN bl : bl[b].associated => ToSet(TxsOf[b]) \subseteq DOMAIN d.tx

(* A valid block is acceptable, and its transactions are of A.             *)
ValidIn(bl, A) ==
    \A b \in DOMAIN bl : bl[b].validation = "valid" => Acceptable(b) /\ ToSet(TxsOf[b]) \subseteq A

(* The confirmed blocks are valid, in a release build, too.                *)
ConfirmedValid(bl, c) == \A i \in 1..Len(c) : bl[c[i]].validation = "valid"

(* A block that was marked is associated.                                  *)
MarkedIn(bl, m) == \A b \in m : b \in DOMAIN bl /\ bl[b].associated

(* Marks are of the blocks of U.                                           *)
MarksIn(d, U) ==
    \A t \in DOMAIN d.tx :
        /\ d.tx[t].candidate => t \in TxsOfBlocks(U)
        /\ \A k \in Outputs(t) :
              d.tx[t].outputs[k].candidateSpent => <<t, k>> \in Spends(TxsOfBlocks(U))

(* What was ever confirmed is of A.                                        *)
CatalogedIn(d, A) == \A t \in DOMAIN d.tx : d.tx[t].position # Unconfirmed => t \in A

(* Cataloged, or of a block that invalidate() made valid.                  *)
Known == payments \cup TxsOfBlocks(presumed)

TableInv ==
    /\ table \in Tables /\ table.ok
    /\ payments \subseteq Txs /\ marked \subseteq Blocks /\ presumed \subseteq Blocks
    /\ unsaved \in BOOLEAN

Books ==
    /\ TableInv
    /\ OnChain(store.index["confirmed"], table)
    /\ StoredIn(store.blk, table) /\ ValidIn(store.blk, Known)
    /\ ConfirmedValid(store.blk, store.index["confirmed"])
    /\ MarkedIn(store.blk, marked) /\ MarksIn(table, marked \cap ToSet(store.index["candidate"]))
    /\ CatalogedIn(table, Known)

(* The sets of transactions and of spends grow with the blocks.            *)
LEMMA MoreBlocks ==
    ASSUME NEW U, NEW V, U \subseteq V
    PROVE  TxsOfBlocks(U) \subseteq TxsOfBlocks(V) /\ Spends(TxsOfBlocks(U)) \subseteq Spends(TxsOfBlocks(V))
<1>1. TxsOfBlocks(U) \subseteq TxsOfBlocks(V)
    BY DEF TxsOfBlocks
<1> QED BY <1>1 DEF Spends

LEMMA MarksGrown ==
    ASSUME NEW d, NEW e, NEW T, Grown(d, e, T), NEW U, NEW V, MarksIn(d, U), U \subseteq V
    PROVE  MarksIn(e, V)
<1>1. TxsOfBlocks(U) \subseteq TxsOfBlocks(V) /\ Spends(TxsOfBlocks(U)) \subseteq Spends(TxsOfBlocks(V))
    BY MoreBlocks
<1>2. ASSUME NEW t \in DOMAIN e.tx, e.tx[t].candidate PROVE t \in TxsOfBlocks(V)
    BY <1>1, <1>2 DEF Grown, MarksIn
<1>3. ASSUME NEW t \in DOMAIN e.tx, NEW k \in Outputs(t), e.tx[t].outputs[k].candidateSpent
      PROVE  <<t, k>> \in Spends(TxsOfBlocks(V))
    BY <1>1, <1>3 DEF Grown, MarksIn
<1> QED BY <1>2, <1>3 DEF MarksIn

LEMMA CatalogedGrown ==
    ASSUME NEW d, NEW e, NEW T, Grown(d, e, T), NEW A, NEW B, CatalogedIn(d, A), A \subseteq B, T \subseteq B
    PROVE  CatalogedIn(e, B)
BY DEF Grown, CatalogedIn

(* The validation and the association of every block are kept, and a new   *)
(* block has neither.                                                      *)
KeptBlocks(bl, n) ==
    /\ DOMAIN bl \subseteq DOMAIN n
    /\ \A b \in DOMAIN bl : n[b].validation = bl[b].validation /\ (n[b].associated <=> bl[b].associated)
    /\ \A b \in DOMAIN n : b \notin DOMAIN bl => n[b].validation # "valid" /\ ~n[b].associated

LEMMA KeptTwice ==
    ASSUME NEW l, NEW m, NEW n, KeptBlocks(l, m), KeptBlocks(m, n)
    PROVE  KeptBlocks(l, n)
BY DEF KeptBlocks

LEMMA KeptSame == ASSUME NEW l PROVE KeptBlocks(l, l)
BY DEF KeptBlocks

LEMMA KeptIn ==
    ASSUME NEW bl, NEW n, KeptBlocks(bl, n), NEW d, NEW e, NEW T, Grown(d, e, T), StoredIn(bl, d),
           NEW A, NEW B, A \subseteq B, ValidIn(bl, A), NEW m, MarkedIn(bl, m)
    PROVE  StoredIn(n, e) /\ ValidIn(n, B) /\ MarkedIn(n, m)
<1>1. StoredIn(n, e)
    BY DEF KeptBlocks, Grown, StoredIn
<1>2. ValidIn(n, B)
    BY DEF KeptBlocks, ValidIn
<1>3. MarkedIn(n, m)
    BY DEF KeptBlocks, MarkedIn
<1> QED BY <1>1, <1>2, <1>3

LEMMA HeaderKept ==
    ASSUME NEW st, NEW b, b \notin DOMAIN st.blk, NEW new, HeaderStored(st, b, new)
    PROVE  KeptBlocks(st.blk, new.blk)
<1>1. new.blk[b].validation = "none" /\ ~new.blk[b].associated
    BY DEF HeaderStored, NewHeader
<1> QED BY <1>1 DEF HeaderStored, Rest, KeptBlocks

LEMMA PromotedKept ==
    ASSUME NEW st, IsStore(st), NEW b \in DOMAIN st.blk, NEW name, NEW new, Promoted(st, b, name, new)
    PROVE  KeptBlocks(st.blk, new.blk)
<1>1. st.blk[b] \in BlockStates /\ new.blk[b] = [st.blk[b] EXCEPT !.confirmation = name]
    BY DEF IsStore, Promoted
<1>2. new.blk[b].validation = st.blk[b].validation /\ new.blk[b].associated = st.blk[b].associated
    BY <1>1 DEF BlockStates
<1>3. DOMAIN new.blk = DOMAIN st.blk /\ \A c \in DOMAIN st.blk : c # b => new.blk[c] = st.blk[c]
    BY DEF Promoted, Rest
<1> QED BY <1>2, <1>3 DEF KeptBlocks

LEMMA DemotedKept ==
    ASSUME NEW st, IsStore(st), NEW b \in DOMAIN st.blk, NEW name, NEW new, Demoted(st, b, name, new)
    PROVE  KeptBlocks(st.blk, new.blk)
<1>1. st.blk[b] \in BlockStates /\ new.blk[b] = [st.blk[b] EXCEPT !.confirmation = "missing"]
    BY DEF IsStore, Demoted
<1>2. new.blk[b].validation = st.blk[b].validation /\ new.blk[b].associated = st.blk[b].associated
    BY <1>1 DEF BlockStates
<1>3. DOMAIN new.blk = DOMAIN st.blk /\ \A c \in DOMAIN st.blk : c # b => new.blk[c] = st.blk[c]
    BY DEF Demoted, Rest
<1> QED BY <1>2, <1>3 DEF KeptBlocks

(* The end of a critical section, for the transaction table.               *)
LEMMA WriteTable ==
    ASSUME NEW new, NEW e \in Tables, Write(new, e)
    PROVE  table' \in Tables /\ table'.ok /\ table'.tx = e.tx /\ table'.cache = e.cache
<1> PICK yes \in BOOLEAN : yes = TRUE
    OBVIOUS
<1>1. table' = [e EXCEPT !.ok = yes]
    BY Zenon DEF Write
<1>2. table' = [tx |-> e.tx, cache |-> e.cache, ok |-> yes] /\ table' \in Tables
    BY <1>1, SetOkDoes, Zenon
<1>3. table'.tx = e.tx /\ table'.cache = e.cache /\ table'.ok = yes
    BY <1>2
<1> QED BY <1>2, <1>3

(* What a critical section must leave.                                     *)
NewBooks(bl, cd, cf, e, m, A) ==
    /\ OnChain(cf, e)
    /\ StoredIn(bl, e) /\ ValidIn(bl, A) /\ ConfirmedValid(bl, cf)
    /\ MarkedIn(bl, m) /\ MarksIn(e, m \cap ToSet(cd))
    /\ CatalogedIn(e, A)

LEMMA NewBooksSame ==
    ASSUME NEW bl, NEW cd, NEW cf, NEW e, NEW m, NEW A, NewBooks(bl, cd, cf, e, m, A),
           NEW n, n.tx = e.tx, n.cache = e.cache
    PROVE  NewBooks(bl, cd, cf, n, m, A)
<1>1. OnChain(cf, n)
    BY OnChainSame DEF OnChain, NewBooks
<1>2. StoredIn(bl, n) /\ MarksIn(n, m \cap ToSet(cd)) /\ CatalogedIn(n, A)
    BY DEF NewBooks, StoredIn, MarksIn, CatalogedIn
<1> QED BY <1>1, <1>2 DEF NewBooks

LEMMA WriteBooks ==
    ASSUME NEW new, IsStore(new), NEW e \in Tables, Write(new, e),
           payments' \subseteq Txs /\ marked' \subseteq Blocks /\ presumed' \subseteq Blocks /\ unsaved' \in BOOLEAN,
           NewBooks(new.blk, new.index["candidate"], new.index["confirmed"], e, marked', Known')
    PROVE  Books'
<1>1. table' \in Tables /\ table'.ok /\ table'.tx = e.tx /\ table'.cache = e.cache
    BY WriteTable
<1>2. store'.blk = new.blk /\ store'.index = new.index
    BY WriteDoes
<1>3. NewBooks(new.blk, new.index["candidate"], new.index["confirmed"], table', marked', Known')
    BY <1>1, NewBooksSame
<1>4. NewBooks(store.blk, store.index["candidate"], store.index["confirmed"], table, marked, Known)'
    BY <1>2, <1>3
<1>5. TableInv'
    BY <1>1 DEF TableInv
<1> QED BY <1>4, <1>5 DEF Books, NewBooks

-----------------------------------------------------------------------------
(* The second invariant, step by step.                                     *)

(* A nonempty chain is its last block on the rest.                         *)
LEMMA LastExtends ==
    ASSUME NEW s \in Seq(Blocks), Linked(s), s # <<>>
    PROVE  Extends(Front(s), Last(s)) /\ s = Append(Front(s), Last(s))
<1>1. /\ Front(s) \in Seq(Blocks) /\ Len(Front(s)) = Len(s) - 1
      /\ \A i \in 1..(Len(s) - 1) : Front(s)[i] = s[i]
    BY LinkedFront
<1>2. Last(s) \in Blocks /\ Len(Chain[Last(s)]) = Len(s) /\ s = Chain[Last(s)]
    BY LastOf
<1> PICK f \in Seq(Blocks) : f = Front(s)
    BY <1>1
<1> PICK b \in Blocks : b = Last(s)
    BY <1>2
<1>3. Len(Chain[b]) = Len(f) + 1 /\ \A i \in 1..Len(f) : f[i] = Chain[b][i]
    BY <1>1, <1>2
<1>4. Append(f, b) = Chain[b]
    BY <1>3, LinkedAppend
<1> QED BY <1>2, <1>3, <1>4 DEF Extends

(* Nothing that is known is forgotten.                                     *)
LEMMA KnownGrows == ASSUME payments \subseteq payments', presumed \subseteq presumed'
                    PROVE  Known \subseteq Known'
<1>1. TxsOfBlocks(presumed) \subseteq TxsOfBlocks(presumed')
    BY MoreBlocks
<1> QED BY <1>1 DEF Known, TxsOfBlocks

(* The confirmed blocks, when validations are kept.                        *)
LEMMA ConfirmedKept ==
    ASSUME Good(store), NEW c, c = store.index["confirmed"], ConfirmedValid(store.blk, c),
           NEW n, KeptBlocks(store.blk, n)
    PROVE  ConfirmedValid(n, c)
<1>1. c \in Seq(Blocks) /\ ToSet(c) \subseteq DOMAIN store.blk
    BY DEF Good, IsStore, Indexes
<1>2. ASSUME NEW i \in 1..Len(c) PROVE n[c[i]].validation = "valid"
    <2>1. c[i] \in DOMAIN store.blk
        BY <1>1, Members
    <2> QED BY <2>1 DEF ConfirmedValid, KeptBlocks
<1> QED BY <1>2 DEF ConfirmedValid

LEMMA ConfirmedAppend ==
    ASSUME NEW n, NEW c \in Seq(Blocks), ConfirmedValid(n, c), NEW b \in Blocks, n[b].validation = "valid"
    PROVE  ConfirmedValid(n, Append(c, b))
<1>1. /\ Len(Append(c, b)) = Len(c) + 1 /\ Append(c, b)[Len(c) + 1] = b /\ Len(c) \in Nat
      /\ \A i \in 1..Len(c) : Append(c, b)[i] = c[i]
    BY AppendProperties
<1>2. ASSUME NEW i \in 1..(Len(c) + 1) PROVE n[Append(c, b)[i]].validation = "valid"
    <2>1. i \in 1..Len(c) \/ i = Len(c) + 1
        BY <1>1
    <2> QED BY <1>1, <2>1 DEF ConfirmedValid
<1> QED BY <1>1, <1>2 DEF ConfirmedValid

LEMMA ConfirmedFront ==
    ASSUME NEW n, NEW c \in Seq(Blocks), Linked(c), c # <<>>, ConfirmedValid(n, c)
    PROVE  ConfirmedValid(n, Front(c))
<1>1. Len(Front(c)) = Len(c) - 1 /\ \A i \in 1..(Len(c) - 1) : Front(c)[i] = c[i]
    BY LinkedFront
<1>2. Len(c) \in Nat
    OBVIOUS
<1> QED BY <1>1, <1>2 DEF ConfirmedValid

(* A step that sets no mark, and confirms only what is known.              *)
LEMMA GrownBooks ==
    ASSUME Books, NEW new, IsStore(new), NEW e, NEW T, Grown(table, e, T), Write(new, e),
           payments \subseteq payments' /\ payments' \subseteq Txs,
           presumed \subseteq presumed' /\ presumed' \subseteq Blocks, unsaved' \in BOOLEAN,
           marked' = marked, marked \cap ToSet(store.index["candidate"]) \subseteq ToSet(new.index["candidate"]),
           T \subseteq Known',
           OnChain(new.index["confirmed"], e), ConfirmedValid(new.blk, new.index["confirmed"]),
           StoredIn(new.blk, e), ValidIn(new.blk, Known'), MarkedIn(new.blk, marked)
    PROVE  Books'
<1>1. Known \subseteq Known'
    BY KnownGrows
<1>2. e \in Tables /\ marked' \subseteq Blocks
    BY DEF Grown, Books, TableInv
<1> PICK U : U = marked \cap ToSet(store.index["candidate"])
    OBVIOUS
<1> PICK V : V = marked' \cap ToSet(new.index["candidate"])
    OBVIOUS
<1>3. U \subseteq V /\ MarksIn(table, U)
    BY DEF Books
<1>4. MarksIn(e, V)
    BY <1>3, MarksGrown
<1> PICK A : A = Known
    OBVIOUS
<1> PICK B : B = Known'
    OBVIOUS
<1>5. CatalogedIn(table, A)
    BY DEF Books
<1>6. CatalogedIn(e, B)
    BY <1>1, <1>5, CatalogedGrown
<1>7. NewBooks(new.blk, new.index["candidate"], new.index["confirmed"], e, marked', Known')
    BY <1>4, <1>6 DEF NewBooks
<1> QED BY <1>2, <1>7, WriteBooks

(* One that keeps the validation and the association of every block.       *)
LEMMA KeptBooks ==
    ASSUME Books, NEW new, IsStore(new), KeptBlocks(store.blk, new.blk),
           NEW e, NEW T, Grown(table, e, T), Write(new, e), T \subseteq Known,
           payments' = payments, presumed' = presumed, unsaved' \in BOOLEAN,
           marked' = marked, marked \cap ToSet(store.index["candidate"]) \subseteq ToSet(new.index["candidate"]),
           OnChain(new.index["confirmed"], e), ConfirmedValid(new.blk, new.index["confirmed"])
    PROVE  Books'
<1>1. Known' = Known
    BY DEF Known, TxsOfBlocks
<1>2. payments \subseteq Txs /\ presumed \subseteq Blocks
    BY DEF Books, TableInv
<1> PICK A : A = Known
    OBVIOUS
<1>3. StoredIn(store.blk, table) /\ ValidIn(store.blk, A) /\ MarkedIn(store.blk, marked)
    BY DEF Books
<1>4. StoredIn(new.blk, e) /\ ValidIn(new.blk, A) /\ MarkedIn(new.blk, marked)
    BY <1>3, KeptIn
<1> QED BY <1>1, <1>2, <1>4, GrownBooks

(* store(tx).                                                              *)
LEMMA StoreTxBooks == ASSUME Sound, Books, NEW t \in Pool, StoreTx(t)
                      PROVE  Books'
<1> PICK e : e = StoreUnconfirmed(table, t, Forks)
    OBVIOUS
<1> PICK c : c = store.index["confirmed"]
    OBVIOUS
<1>1. Write(store, e) /\ UNCHANGED <<payments, unsaved, marked, presumed>>
    BY DEF StoreTx
<1>2. t \in Txs /\ table \in Tables /\ table.ok /\ OnChain(c, table) /\ unsaved \in BOOLEAN
    BY ChainAssumption DEF Books, TableInv
<1>3. Grown(table, e, {}) /\ OnChain(c, e)
    BY <1>2, TxStores
<1>4. IsStore(store) /\ KeptBlocks(store.blk, store.blk) /\ ConfirmedValid(store.blk, c)
    BY KeptSame DEF Sound, Good, Books
<1> PICK none : none = {}
    OBVIOUS
<1>5. Grown(table, e, none) /\ none \subseteq Known
    BY <1>3
<1> QED BY <1>1, <1>2, <1>3, <1>4, <1>5, KeptBooks

(* What nothing is written to stays.                                       *)
LEMMA SameBooks == ASSUME Books, UNCHANGED <<store, table, payments, unsaved, marked, presumed>>
                   PROVE  Books'
<1>1. Known' = Known
    BY DEF Known, TxsOfBlocks
<1>2. NewBooks(store.blk, store.index["candidate"], store.index["confirmed"], table, marked, Known)
    BY DEF Books, NewBooks
<1>3. NewBooks(store.blk, store.index["candidate"], store.index["confirmed"], table, marked, Known)'
    BY <1>1, <1>2
<1>4. TableInv'
    BY DEF Books, TableInv
<1> QED BY <1>3, <1>4 DEF Books, NewBooks

(* catalog(tx).                                                            *)
LEMMA CatalogTxBooks == ASSUME Books, NEW t \in Pool, CatalogTx(t)
                        PROVE  Books'
<1>1. payments' = payments \cup {t} /\ UNCHANGED <<store, table, unsaved, marked, presumed>>
    BY DEF CatalogTx
<1> PICK A : A = Known
    OBVIOUS
<1> PICK B : B = Known'
    OBVIOUS
<1>2. A \subseteq B
    BY <1>1, KnownGrows
<1>3. NewBooks(store.blk, store.index["candidate"], store.index["confirmed"], table, marked, A)
    BY DEF Books, NewBooks
<1>4. NewBooks(store.blk, store.index["candidate"], store.index["confirmed"], table, marked, B)
    <2>1. ValidIn(store.blk, B)
        BY <1>2, <1>3 DEF NewBooks, ValidIn
    <2>2. CatalogedIn(table, B)
        BY <1>2, <1>3 DEF NewBooks, CatalogedIn
    <2> QED BY <1>3, <2>1, <2>2 DEF NewBooks
<1>5. NewBooks(store.blk, store.index["candidate"], store.index["confirmed"], table, marked, Known)'
    BY <1>1, <1>4
<1>6. TableInv'
    BY <1>1, ChainAssumption DEF Books, TableInv
<1> QED BY <1>5, <1>6 DEF Books, NewBooks

(* The empty cache says nothing.                                           *)
LEMMA NothingCached == EmptyCache \in Caches /\ \A c : CacheOn(c, EmptyCache)
<1>1. EmptyCache.map = <<>> /\ EmptyCache.sequence = 0
    BY DEF EmptyCache
<1>2. DOMAIN <<>> = {} /\ <<>> \in [{} -> Entries]
    OBVIOUS
<1>3. <<>> \in UNION {[S -> Entries] : S \in SUBSET Txs}
    BY <1>2
<1>4. EmptyCache \in Caches
    BY <1>3 DEF Caches, EmptyCache
<1>5. \A c : CacheOn(c, EmptyCache)
    BY <1>1, <1>2 DEF CacheOn
<1> QED BY <1>4, <1>5

(* A stop and a start.                                                     *)
LEMMA RestartBooks == ASSUME Books, Restart
                      PROVE  Books'
<1>1. table' = SetCache(table, EmptyCache) /\ UNCHANGED <<store, payments, unsaved, marked, presumed>>
    BY DEF Restart, SetCache
<1>2. table \in Tables /\ table.ok
    BY DEF Books, TableInv
<1>3. CacheSet(table, EmptyCache, table')
    BY <1>1, <1>2, NothingCached, SetCacheDoes
<1>4. table' \in Tables /\ table'.tx = table.tx /\ table'.cache = EmptyCache /\ table'.ok
    BY <1>2, <1>3 DEF CacheSet
<1> PICK c : c = store.index["confirmed"]
    OBVIOUS
<1> PICK e : e = table'
    OBVIOUS
<1> PICK A : A = Known
    OBVIOUS
<1>5. OnChain(c, e)
    <2>1. ChainRows(c, table) /\ ChainSpends(c, table)
        BY DEF Books, OnChain
    <2>2. ChainRows(c, e) /\ ChainSpends(c, e)
        BY <1>4, <2>1, OnChainSame
    <2> QED BY <1>4, <2>2, NothingCached DEF OnChain
<1>6. Known' = A
    BY <1>1 DEF Known, TxsOfBlocks
<1>7. NewBooks(store.blk, store.index["candidate"], c, e, marked, A)
    BY <1>4, <1>5 DEF Books, NewBooks, StoredIn, MarksIn, CatalogedIn
<1>8. NewBooks(store.blk, store.index["candidate"], store.index["confirmed"], table, marked, Known)'
    BY <1>1, <1>6, <1>7
<1>9. TableInv'
    BY <1>1, <1>4 DEF Books, TableInv
<1> QED BY <1>8, <1>9 DEF Books, NewBooks

(* Nothing is stored at first.                                             *)
LEMMA InitBooks == Init => Books
<1> SUFFICES ASSUME Init PROVE Books
    OBVIOUS
<1>1. /\ store = EmptyStore /\ table = EmptyTable /\ payments = {} /\ marked = {} /\ presumed = {}
      /\ unsaved \in BOOLEAN
    BY DEF Init
<1> PICK yes \in BOOLEAN : yes = TRUE
    OBVIOUS
<1>2. table = [tx |-> <<>>, cache |-> EmptyCache, ok |-> yes]
    BY <1>1, Zenon DEF EmptyTable
<1>3. table.tx = <<>> /\ table.cache = EmptyCache /\ table.ok = yes
    BY <1>2
<1>4. DOMAIN <<>> = {} /\ {} \in SUBSET Txs /\ <<>> = [t \in {} |-> <<>>[t]]
    OBVIOUS
<1>5. table \in Tables
    <2>1. \A t \in {} : <<>>[t] \in Rows(t)
        OBVIOUS
    <2> QED BY <1>2, <1>4, <2>1, NothingCached, TableOf
<1>6. store.blk = <<>> /\ store.index["confirmed"] = <<>>
    BY <1>1 DEF EmptyStore, Indexes
<1>7. OnChain(<<>>, table)
    <2>1. Len(<<>>) = 0 /\ \A i \in 1..Len(<<>>) : FALSE
        OBVIOUS
    <2>2. ChainRows(<<>>, table) /\ ChainSpends(<<>>, table)
        BY <1>3, <1>4, <2>1 DEF ChainRows, ChainSpends
    <2> QED BY <1>3, <2>2, NothingCached DEF OnChain
<1>8. ConfirmedValid(store.blk, <<>>)
    BY DEF ConfirmedValid
<1> QED BY <1>1, <1>3, <1>4, <1>5, <1>6, <1>7, <1>8
    DEF Books, TableInv, StoredIn, ValidIn, MarkedIn, MarksIn, CatalogedIn

(* update(block): the transactions are stored before they are associated.  *)
LEMMA UpdateBooks == ASSUME Sound, Books, NEW b \in Blocks, Update(b)
                     PROVE  Books'
<1> PICK new : new = UpdateTransactions(store, b)
    OBVIOUS
<1> PICK e : e = StoreAll(table, TxsOf[b])
    OBVIOUS
<1> PICK c : c = store.index["confirmed"]
    OBVIOUS
<1>1. Write(new, e) /\ b \in DOMAIN store.blk /\ unsaved' \in BOOLEAN /\ UNCHANGED <<payments, marked, presumed>>
    BY DEF Update, blk
<1>2. /\ table \in Tables /\ table.ok /\ OnChain(c, table)
      /\ payments \subseteq Txs /\ presumed \subseteq Blocks
    BY DEF Books, TableInv
<1>3. BlockStored(c, table, e, b)
    BY <1>2, BlockStores
<1> PICK none : none = {}
    OBVIOUS
<1>4. Grown(table, e, none) /\ OnChain(c, e) /\ ToSet(TxsOf[b]) \subseteq DOMAIN e.tx /\ none \subseteq Known'
    BY <1>3 DEF BlockStored
<1>5. Associated(store, b, new)
    BY <1>1, UpdateTransactionsDoes DEF Sound, Good
<1>6. /\ IsStore(new) /\ new.index = store.index /\ DOMAIN new.blk = DOMAIN store.blk
      /\ new.blk[b] = [store.blk[b] EXCEPT !.associated = TRUE]
      /\ \A x \in DOMAIN store.blk : x # b => new.blk[x] = store.blk[x]
    BY <1>1, <1>5 DEF Associated, Rest
<1>7. ASSUME NEW x \in DOMAIN store.blk
      PROVE  /\ new.blk[x].validation = store.blk[x].validation
             /\ store.blk[x].associated => new.blk[x].associated
             /\ new.blk[x].associated => x = b \/ store.blk[x].associated
    <2>1. store.blk[x] \in BlockStates
        BY DEF Sound, Good, IsStore
    <2>2. CASE x = b
        BY <1>6, <2>1, <2>2 DEF BlockStates
    <2>3. CASE x # b
        BY <1>6, <2>3
    <2> QED BY <2>2, <2>3
<1>8. DOMAIN table.tx \subseteq DOMAIN e.tx
    BY <1>4 DEF Grown
<1>9. StoredIn(new.blk, e)
    BY <1>4, <1>6, <1>7, <1>8 DEF Books, StoredIn
<1>10. Known' = Known
    BY <1>1 DEF Known, TxsOfBlocks
<1>11. ValidIn(new.blk, Known')
    <2>1. ValidIn(new.blk, Known)
        BY <1>6, <1>7 DEF Books, ValidIn
    <2> QED BY <1>10, <2>1
<1>12. MarkedIn(new.blk, marked)
    BY <1>6, <1>7 DEF Books, MarkedIn
<1>13. ConfirmedValid(new.blk, c)
    <2>1. c \in Seq(Blocks) /\ ToSet(c) \subseteq DOMAIN store.blk
        BY DEF Sound, Good, IsStore, Indexes
    <2>2. ASSUME NEW i \in 1..Len(c) PROVE c[i] \in DOMAIN store.blk
        BY <2>1, Members
    <2> QED BY <1>7, <2>2 DEF Books, ConfirmedValid
<1>14. new.index["confirmed"] = c /\ new.index["candidate"] = store.index["candidate"]
    BY <1>6
<1> QED BY <1>1, <1>2, <1>4, <1>6, <1>9, <1>11, <1>12, <1>13, <1>14, GrownBooks

(* What validate leaves of the states of the blocks.                       *)
ValidatedBlocks(bl, b, verdict, n) ==
    /\ DOMAIN n = DOMAIN bl
    /\ n[b].validation = verdict
    /\ \A x \in DOMAIN bl :
          /\ n[x].associated <=> bl[x].associated
          /\ x # b => n[x].validation = bl[x].validation

LEMMA ValidatedIs ==
    ASSUME NEW st, IsStore(st), NEW b \in DOMAIN st.blk, NEW verdict, NEW new, Validated(st, b, verdict, new)
    PROVE  IsStore(new) /\ new.index = st.index /\ ValidatedBlocks(st.blk, b, verdict, new.blk)
<1>1. /\ IsStore(new) /\ new.index = st.index /\ DOMAIN new.blk = DOMAIN st.blk
      /\ new.blk[b] = [st.blk[b] EXCEPT !.validation = verdict]
      /\ \A x \in DOMAIN st.blk : x # b => new.blk[x] = st.blk[x]
    BY DEF Validated, Rest
<1>2. st.blk[b] \in BlockStates
    BY DEF IsStore
<1>3. new.blk[b].validation = verdict /\ new.blk[b].associated = st.blk[b].associated
    BY <1>1, <1>2 DEF BlockStates
<1> QED BY <1>1, <1>3 DEF ValidatedBlocks

(* The books, once a block is validated: if it is valid it is acceptable,  *)
(* and its transactions are known.                                         *)
LEMMA ValidatedIn ==
    ASSUME NEW bl, NEW b \in DOMAIN bl, NEW verdict, NEW n, ValidatedBlocks(bl, b, verdict, n),
           NEW d, NEW e, DOMAIN d.tx \subseteq DOMAIN e.tx, StoredIn(bl, d),
           NEW A, NEW B, A \subseteq B, ValidIn(bl, A),
           verdict = "valid" => Acceptable(b) /\ ToSet(TxsOf[b]) \subseteq B,
           NEW m, MarkedIn(bl, m)
    PROVE  StoredIn(n, e) /\ ValidIn(n, B) /\ MarkedIn(n, m)
<1>1. StoredIn(n, e)
    BY DEF ValidatedBlocks, StoredIn
<1>2. ValidIn(n, B)
    BY DEF ValidatedBlocks, ValidIn
<1>3. MarkedIn(n, m)
    BY DEF ValidatedBlocks, MarkedIn
<1> QED BY <1>1, <1>2, <1>3

(* A block that is being validated is not confirmed.                       *)
LEMMA ValidatedConfirmed ==
    ASSUME Good(store), NEW c, c = store.index["confirmed"], ConfirmedValid(store.blk, c),
           NEW b \in DOMAIN store.blk, store.blk[b].validation = "none",
           NEW verdict, NEW n, ValidatedBlocks(store.blk, b, verdict, n)
    PROVE  ConfirmedValid(n, c)
<1>1. c \in Seq(Blocks) /\ ToSet(c) \subseteq DOMAIN store.blk
    BY DEF Good, IsStore, Indexes
<1>2. ASSUME NEW i \in 1..Len(c) PROVE n[c[i]].validation = "valid"
    <2>1. c[i] \in DOMAIN store.blk
        BY <1>1, Members
    <2>2. store.blk[c[i]].validation = "valid"
        BY DEF ConfirmedValid
    <2> QED BY <2>1, <2>2 DEF ValidatedBlocks
<1> QED BY <1>2 DEF ConfirmedValid

(* invalidate(header, error).                                              *)
LEMMA InvalidateBooks == ASSUME Sound, Books, NEW b \in Blocks, Invalidate(b)
                         PROVE  Books'
<1>1. Acceptable(b) \in BOOLEAN
    BY Zenon DEF Acceptable
<1> PICK valid \in BOOLEAN : valid = Acceptable(b)
    BY <1>1, Zenon
<1> PICK new : new = Validate(store, b, valid)
    OBVIOUS
<1> PICK verdict : verdict = IF valid THEN "valid" ELSE "failed"
    OBVIOUS
<1> PICK c : c = store.index["confirmed"]
    OBVIOUS
<1>2. /\ Write(new, table) /\ store.blk[b].validation = "none"
      /\ presumed' = IF valid THEN presumed \cup {b} ELSE presumed
      /\ UNCHANGED <<payments, unsaved, marked>>
    BY Zenon DEF Invalidate, blk
<1>3. b \in DOMAIN store.blk /\ IsStore(store) /\ Good(store)
    BY OrganizedStored, Zenon DEF Invalidate, blk, Sound, Good
<1>4. Validated(store, b, verdict, new)
    BY <1>3, ValidateDoes
<1>5. IsStore(new) /\ new.index = store.index /\ ValidatedBlocks(store.blk, b, verdict, new.blk)
    BY <1>3, <1>4, ValidatedIs
<1>6. /\ table \in Tables /\ OnChain(c, table) /\ ConfirmedValid(store.blk, c)
      /\ payments \subseteq Txs /\ presumed \subseteq Blocks /\ unsaved \in BOOLEAN
    BY DEF Books, TableInv
<1>7. presumed \subseteq presumed' /\ presumed' \subseteq Blocks /\ (valid => b \in presumed')
    BY <1>2, <1>6
<1> PICK A : A = Known
    OBVIOUS
<1> PICK B : B = Known'
    OBVIOUS
<1>8. A \subseteq B
    BY <1>2, <1>7, KnownGrows
<1>9. verdict = "valid" => Acceptable(b) /\ ToSet(TxsOf[b]) \subseteq B
    <2> SUFFICES ASSUME verdict = "valid" PROVE Acceptable(b) /\ ToSet(TxsOf[b]) \subseteq B
        OBVIOUS
    <2>1. valid
        OBVIOUS
    <2>2. Acceptable(b)
        BY <2>1, Zenon
    <2>3. ToSet(TxsOf[b]) \subseteq TxsOfBlocks(presumed')
        BY <1>7, <2>1 DEF TxsOfBlocks
    <2>4. TxsOfBlocks(presumed') \subseteq B
        BY DEF Known, TxsOfBlocks
    <2> QED BY <2>2, <2>3, <2>4
<1>10. StoredIn(store.blk, table) /\ ValidIn(store.blk, A) /\ MarkedIn(store.blk, marked)
    BY DEF Books
<1>11. StoredIn(new.blk, table) /\ ValidIn(new.blk, B) /\ MarkedIn(new.blk, marked)
    <2>1. DOMAIN table.tx \subseteq DOMAIN table.tx
        OBVIOUS
    <2> QED BY <1>3, <1>5, <1>8, <1>9, <1>10, <2>1, ValidatedIn
<1>12. ConfirmedValid(new.blk, c)
    BY <1>2, <1>3, <1>5, <1>6, ValidatedConfirmed
<1> PICK none : none = {}
    OBVIOUS
<1>13. Grown(table, table, none) /\ none \subseteq B
    BY <1>6, GrownSame
<1>14. new.index["confirmed"] = c /\ new.index["candidate"] = store.index["candidate"]
    BY <1>5
<1>15. payments \subseteq payments' /\ payments' \subseteq Txs /\ unsaved' \in BOOLEAN /\ marked' = marked
    BY <1>2, <1>6
<1> QED BY <1>2, <1>5, <1>6, <1>7, <1>11, <1>12, <1>13, <1>14, <1>15, GrownBooks

-----------------------------------------------------------------------------
(* candidate(block).                                                       *)

(* catalog(block): what is not cataloged is known, as it was confirmed.    *)
LEMMA CatalogBlockKnows ==
    ASSUME Books, NEW b \in Blocks, CatalogBlock(b), presumed' = presumed
    PROVE  /\ payments \subseteq payments' /\ payments' \subseteq Txs
           /\ ToSet(TxsOf[b]) \subseteq Known'
<1> PICK T : T = ToSet(TxsOf[b])
    OBVIOUS
<1> PICK fork : fork = Shared(cand, conf)
    OBVIOUS
<1>1. payments' = payments \cup {t \in T : ~BlockCataloged(table, t, fork)}
    BY DEF CatalogBlock
<1>2. payments \subseteq payments' /\ payments' \subseteq Txs
    <2>1. ASSUME NEW t \in T PROVE t \in Txs
        <3>1. PICK i \in 1..Len(TxsOf[b]) : t = TxsOf[b][i]
            BY BlockTxs
        <3> QED BY <3>1, BlockTxs
    <2> QED BY <1>1, <2>1 DEF Books, TableInv
<1>3. Known \subseteq Known'
    BY <1>2, KnownGrows
<1>4. ASSUME NEW t \in T PROVE t \in Known'
    <2>1. CASE BlockCataloged(table, t, fork)
        BY <1>3, <2>1 DEF BlockCataloged, Books, CatalogedIn
    <2>2. CASE ~BlockCataloged(table, t, fork)
        BY <1>1, <2>2 DEF Known
    <2> QED BY <2>1, <2>2
<1> QED BY <1>2, <1>4

(* What a block spends is stored where the transactions of its chain are.  *)
LEMMA InputsHeld ==
    ASSUME NEW d, NEW c, NEW b, Extends(c, b), Acceptable(b), TxsIn(c) \subseteq DOMAIN d.tx,
           ToSet(TxsOf[b]) \subseteq DOMAIN d.tx, NEW p \in Inputs(b)
    PROVE  HasOutput(d, p)
<1>0. b \in Blocks
    BY DEF Extends
<1> PICK txs : txs = TxsOf[b]
    OBVIOUS
<1>1. PICK i \in 1..Len(txs) : p \in ToSet(InputsOf[txs[i]])
    BY <1>0, InputsArePoints
<1>2. p[2] < OutputsOf[p[1]] /\ (p[1] \in TxsIn(c) \/ p[1] \in Firsts(txs, i - 1))
    BY <1>1, AcceptableIs
<1>3. ASSUME p[1] \in Firsts(txs, i - 1) PROVE p[1] \in DOMAIN d.tx
    <2>1. PICK j \in 1..(i - 1) : p[1] = txs[j]
        BY <1>3 DEF Firsts
    <2>2. Len(txs) \in Nat
        BY <1>0, BlockTxs
    <2>3. j \in 1..Len(txs)
        BY <2>2
    <2>4. txs[j] \in ToSet(TxsOf[b])
        BY <1>0, <2>3, BlockTxs
    <2> QED BY <2>1, <2>4
<1> QED BY <1>2, <1>3 DEF HasOutput

(* A candidate on valid ancestors spends what is stored.                   *)
LEMMA CandidateInputs ==
    ASSUME Sound, Books, NEW b \in Blocks, Organized(b), AncestorsValid(b), Acceptable(b),
           store.blk[b].associated
    PROVE  /\ ToSet(TxsOf[b]) \subseteq DOMAIN table.tx
           /\ \A p \in Inputs(b) : HasOutput(table, p)
<1> PICK s \in Seq(Blocks) : s = Chain[b]
    BY ChainOf
<1> PICK q \in Seq(Blocks) : q = store.index["candidate"]
    BY DEF Sound, Good, IsStore, Indexes
<1>1. Len(s) \in Nat \ {0} /\ Height(b) = Len(s) - 1
    BY ChainOf
<1> PICK c : c = Front(s)
    OBVIOUS
<1>2. c \in Seq(Blocks) /\ Len(c) = Len(s) - 1 /\ \A i \in 1..(Len(s) - 1) : c[i] = s[i]
    <2>1. Front(s) \in Seq(Blocks) /\ Len(Front(s)) = Len(s) - 1
        BY <1>1 DEF Front
    <2>2. \A i \in 1..(Len(s) - 1) : Front(s)[i] = s[i]
        BY <1>1 DEF Front
    <2> QED BY <2>1, <2>2
<1>3. Extends(c, b)
    BY <1>1, <1>2 DEF Extends
<1>4. Linked(q) /\ ToSet(q) \subseteq DOMAIN store.blk /\ b \in ToSet(q)
    BY DEF Sound, Good, Indexes, Organized, cand
<1>5. PICK j \in 1..Len(q) : q[j] = b
    BY <1>4, Members
<1>6. Len(s) = j /\ \A i \in 1..j : s[i] = q[i]
    BY <1>4, <1>5, LinkedAt
<1>7. ASSUME NEW i \in 1..Len(c) PROVE ToSet(TxsOf[c[i]]) \subseteq DOMAIN table.tx
    <2>1. i \in 1..Height(b) /\ c[i] = s[i] /\ i \in 1..Len(q) /\ s[i] = q[i]
        BY <1>1, <1>2, <1>5, <1>6
    <2>2. c[i] \in DOMAIN store.blk
        BY <1>4, <2>1, Members
    <2>3. store.blk[c[i]].validation = "valid"
        BY <2>1 DEF AncestorsValid, blk
    <2>4. store.blk[c[i]].associated
        BY <2>2, <2>3 DEF Sound, Good
    <2> QED BY <2>2, <2>4 DEF Books, StoredIn
<1>8. TxsIn(c) \subseteq DOMAIN table.tx
    <2>1. DOMAIN c = 1..Len(c)
        BY <1>2
    <2> QED BY <1>7, <2>1 DEF TxsIn
<1>9. ToSet(TxsOf[b]) \subseteq DOMAIN table.tx
    BY <1>4 DEF Books, StoredIn
<1>10. ASSUME NEW p \in Inputs(b) PROVE HasOutput(table, p)
    BY <1>3, <1>8, <1>9, InputsHeld
<1> QED BY <1>9, <1>10

(* Marks, when those of T and of P are set: they are of the blocks of V.   *)
LEMMA MarksAdded ==
    ASSUME NEW d, NEW T, NEW P, NEW v, NEW e \in Markings(d, T, P, v),
           NEW U, NEW V, MarksIn(d, U), U \subseteq V,
           T \subseteq TxsOfBlocks(V), P \subseteq Spends(TxsOfBlocks(V))
    PROVE  MarksIn(e, V)
<1>1. TxsOfBlocks(U) \subseteq TxsOfBlocks(V) /\ Spends(TxsOfBlocks(U)) \subseteq Spends(TxsOfBlocks(V))
    BY MoreBlocks
<1>2. DOMAIN e.tx = DOMAIN d.tx /\ \A t \in DOMAIN d.tx : MarkedRow(t, d.tx[t], e.tx[t], e.ok, T, P, v)
    BY DEF Markings, Marking
<1>3. ASSUME NEW t \in DOMAIN e.tx, e.tx[t].candidate PROVE t \in TxsOfBlocks(V)
    <2>1. e.tx[t].candidate = d.tx[t].candidate \/ t \in T
        BY <1>2, Zenon DEF MarkedRow
    <2>2. ASSUME e.tx[t].candidate = d.tx[t].candidate PROVE t \in TxsOfBlocks(V)
        <3>1. d.tx[t].candidate
            BY <1>3, <2>2, Zenon
        <3> QED BY <1>1, <1>2, <3>1 DEF MarksIn
    <2> QED BY <2>1, <2>2
<1>4. ASSUME NEW t \in DOMAIN e.tx, NEW k \in Outputs(t), e.tx[t].outputs[k].candidateSpent
      PROVE  <<t, k>> \in Spends(TxsOfBlocks(V))
    <2>1. e.tx[t].outputs[k].candidateSpent = d.tx[t].outputs[k].candidateSpent \/ <<t, k>> \in P
        BY <1>2, Zenon DEF MarkedRow
    <2>2. ASSUME e.tx[t].outputs[k].candidateSpent = d.tx[t].outputs[k].candidateSpent
          PROVE  <<t, k>> \in Spends(TxsOfBlocks(V))
        <3>1. d.tx[t].outputs[k].candidateSpent
            BY <1>4, <2>2, Zenon
        <3> QED BY <1>1, <1>2, <3>1 DEF MarksIn
    <2> QED BY <2>1, <2>2
<1> QED BY <1>3, <1>4 DEF MarksIn

(* What else marking leaves.                                               *)
LEMMA CatalogedMarked ==
    ASSUME NEW d, NEW T, NEW P, NEW v, NEW e \in Markings(d, T, P, v), NEW A, NEW B, A \subseteq B, CatalogedIn(d, A)
    PROVE  CatalogedIn(e, B)
<1>1. DOMAIN e.tx = DOMAIN d.tx /\ \A t \in DOMAIN d.tx : e.tx[t].position = d.tx[t].position
    BY DEF Markings, Marking, MarkedRow
<1> QED BY <1>1 DEF CatalogedIn

LEMMA OnChainMarked ==
    ASSUME NEW d, NEW T, NEW P, NEW v, NEW e \in Markings(d, T, P, v), NEW c, OnChain(c, d)
    PROVE  OnChain(c, e)
<1>1. ChainRows(c, d) /\ ChainSpends(c, d) /\ CacheOn(c, d.cache)
    BY DEF OnChain
<1>2. ChainRows(c, e) /\ ChainSpends(c, e)
    BY <1>1, OnChainMarking
<1>3. e.cache = d.cache
    BY DEF Markings, Marking
<1> QED BY <1>1, <1>2, <1>3 DEF OnChain

(* Those of a block of V.                                                  *)
LEMMA BlockMarked ==
    ASSUME NEW d, NEW b, NEW v, NEW e \in Markings(d, ToSet(TxsOf[b]), Inputs(b), v),
           NEW U, NEW V, MarksIn(d, U), U \subseteq V, b \in V
    PROVE  MarksIn(e, V)
<1>1. ToSet(TxsOf[b]) \subseteq TxsOfBlocks(V)
    BY DEF TxsOfBlocks
<1>2. Inputs(b) \subseteq Spends(TxsOfBlocks(V))
    BY <1>1 DEF Inputs, Spends
<1> QED BY <1>1, <1>2, MarksAdded

(* Its transactions are of A.                                              *)
TxsAreIn(b, A) == ToSet(TxsOf[b]) \subseteq A

(* A block is marked, and the marks of the candidate chain q are owned.    *)
LEMMA MarksOwnedMore ==
    ASSUME NEW d, NEW b, NEW v, NEW e \in Markings(d, ToSet(TxsOf[b]), Inputs(b), v),
           NEW m, NEW q, MarksIn(d, m \cap ToSet(q)), b \in ToSet(q), NEW n, n = m \cup {b}
    PROVE  MarksIn(e, n \cap ToSet(q))
<1>1. m \cap ToSet(q) \subseteq n \cap ToSet(q) /\ b \in n \cap ToSet(q)
    OBVIOUS
<1>2. ASSUME NEW U, NEW V, MarksIn(d, U), U \subseteq V, b \in V PROVE MarksIn(e, V)
    BY <1>2, BlockMarked
<1> QED BY <1>1, <1>2, Zenon

(* A block is validated, and its transactions are cataloged or known.      *)
LEMMA ValidBlockIn ==
    ASSUME NEW bl, NEW b \in DOMAIN bl, NEW n, ValidatedBlocks(bl, b, "valid", n),
           NEW d, NEW e, DOMAIN e.tx = DOMAIN d.tx, StoredIn(bl, d),
           NEW A, NEW B, A \subseteq B, ValidIn(bl, A), Acceptable(b), TxsAreIn(b, B),
           NEW m, MarkedIn(bl, m)
    PROVE  StoredIn(n, e) /\ ValidIn(n, B) /\ MarkedIn(n, m)
<1> PICK verdict : verdict = "valid"
    OBVIOUS
<1>1. verdict = "valid" => Acceptable(b) /\ ToSet(TxsOf[b]) \subseteq B
    BY DEF TxsAreIn
<1>2. ValidatedBlocks(bl, b, verdict, n)
    OBVIOUS
<1> QED BY <1>1, <1>2, ValidatedIn

(* A block is validated and marked.                                        *)
LEMMA MarkedBooks ==
    ASSUME Sound, Books, NEW b \in DOMAIN store.blk, b \in ToSet(store.index["candidate"]), Acceptable(b),
           MarkedIn(store.blk, {b}), store.blk[b].validation = "none",
           NEW v, NEW e \in Markings(table, ToSet(TxsOf[b]), Inputs(b), v),
           NEW new, Validated(store, b, "valid", new), Write(new, e),
           payments \subseteq payments' /\ payments' \subseteq Txs /\ TxsAreIn(b, Known'),
           marked' = marked \cup {b}, UNCHANGED <<unsaved, presumed>>
    PROVE  Books'
<1> PICK c : c = store.index["confirmed"]
    OBVIOUS
<1>1. /\ OnChain(c, table) /\ ConfirmedValid(store.blk, c)
      /\ presumed \subseteq Blocks /\ marked \subseteq Blocks /\ unsaved \in BOOLEAN
    BY DEF Books, TableInv
<1>2. IsStore(store) /\ Good(store) /\ b \in Blocks
    BY DEF Sound, Good, IsStore
<1>3. Known \subseteq Known'
    BY KnownGrows
<1>4. e \in Tables /\ DOMAIN e.tx = DOMAIN table.tx
    BY DEF Markings, Marking
<1>5. IsStore(new) /\ new.index = store.index /\ ValidatedBlocks(store.blk, b, "valid", new.blk)
    BY <1>2, ValidatedIs
<1>6. ConfirmedValid(new.blk, c)
    BY <1>1, <1>2, <1>5, ValidatedConfirmed
<1>7. StoredIn(new.blk, e) /\ ValidIn(new.blk, Known') /\ MarkedIn(new.blk, marked)
    <2>1. StoredIn(store.blk, table) /\ ValidIn(store.blk, Known) /\ MarkedIn(store.blk, marked)
        BY DEF Books
    <2> QED BY <1>3, <1>4, <1>5, <2>1, ValidBlockIn
<1>8. MarkedIn(new.blk, marked')
    BY <1>5, <1>7 DEF MarkedIn, ValidatedBlocks
<1>9. MarksIn(e, marked' \cap ToSet(store.index["candidate"]))
    <2>1. MarksIn(table, marked \cap ToSet(store.index["candidate"]))
        BY DEF Books
    <2> QED BY <2>1, MarksOwnedMore
<1>10. CatalogedIn(e, Known')
    <2>1. CatalogedIn(table, Known)
        BY DEF Books
    <2> QED BY <1>3, <2>1, CatalogedMarked
<1>11. OnChain(c, e)
    BY <1>1, OnChainMarked
<1>12. NewBooks(new.blk, new.index["candidate"], new.index["confirmed"], e, marked', Known')
    BY <1>5, <1>6, <1>7, <1>8, <1>9, <1>10, <1>11 DEF NewBooks
<1>13. payments' \subseteq Txs /\ marked' \subseteq Blocks /\ presumed' \subseteq Blocks /\ unsaved' \in BOOLEAN
    BY <1>1, <1>2
<1> QED BY <1>4, <1>5, <1>12, <1>13, WriteBooks

(* candidate(block): it does not fail.                                     *)
LEMMA CandidateBooks == ASSUME Sound, Books, NEW b \in Blocks, Candidate(b)
                        PROVE  Books'
<1> PICK yes \in Flags : yes = TRUE
    BY DEF Flags
<1> PICK new : new = Validate(store, b, yes)
    OBVIOUS
<1> PICK e : e = CandidateAll(table, TxsOf[b], yes)
    OBVIOUS
<1>1. /\ Organized(b) /\ AncestorsValid(b) /\ Acceptable(b)
      /\ store.blk[b].associated /\ store.blk[b].validation = "none"
      /\ Write(new, e)
      /\ IF e.ok THEN CatalogBlock(b) ELSE UNCHANGED payments
      /\ marked' = marked \cup {b} /\ UNCHANGED <<unsaved, presumed>>
    BY Zenon DEF Candidate, blk
<1>2. b \in DOMAIN store.blk /\ b \in ToSet(store.index["candidate"]) /\ IsStore(store)
    BY <1>1, OrganizedStored DEF blk, Sound, Good
<1>3. table \in Tables /\ table.ok
    BY DEF Books, TableInv
<1>4. ToSet(TxsOf[b]) \subseteq DOMAIN table.tx /\ \A p \in Inputs(b) : HasOutput(table, p)
    BY <1>1, CandidateInputs
<1>5. e \in Markings(table, ToSet(TxsOf[b]), Inputs(b), yes)
    <2>1. TxsOf[b] \in Seq(Txs)
        BY BlockTxs
    <2> QED BY <1>3, <1>4, <2>1, CandidateAllDoes DEF Inputs
<1>6. e.ok
    <2>1. Marking(table, e, ToSet(TxsOf[b]), Inputs(b), yes)
        BY <1>5 DEF Markings
    <2> QED BY <1>4, <2>1 DEF Marking
<1>7. CatalogBlock(b)
    BY <1>1, <1>6
<1>8. payments \subseteq payments' /\ payments' \subseteq Txs /\ TxsAreIn(b, Known')
    BY <1>1, <1>7, CatalogBlockKnows DEF TxsAreIn
<1>9. Validated(store, b, "valid", new)
    <2>1. Validated(store, b, IF yes THEN "valid" ELSE "failed", new)
        BY <1>2, ValidateDoes DEF Flags
    <2> QED BY <2>1
<1>10. MarkedIn(store.blk, {b})
    BY <1>1, <1>2 DEF MarkedIn
<1> QED BY <1>1, <1>2, <1>5, <1>8, <1>9, <1>10, MarkedBooks

-----------------------------------------------------------------------------
(* Confirming a valid block: it succeeds.                                  *)
LEMMA ValidConfirms ==
    ASSUME Sound, Books, NEW b \in DOMAIN store.blk, store.blk[b].validation = "valid",
           NEW c, c = store.index["confirmed"], Extends(c, b), NEW h, h = Height(b),
           NEW e, e = ConfirmAll(table, TxsOf[b], h) \/ e = ConfirmLinks(table, TxsOf[b], h)
    PROVE  BlockConfirmed(c, table, e, b)
<1>1. store.blk[b].associated
    BY DEF Sound, Good
<1>2. Acceptable(b) /\ ToSet(TxsOf[b]) \subseteq DOMAIN table.tx
    BY <1>1 DEF Books, ValidIn, StoredIn
<1>3. table \in Tables /\ table.ok /\ OnChain(c, table)
    BY DEF Books, TableInv
<1> QED BY <1>2, <1>3, BlockConfirms

(* Its transactions are known.                                             *)
LEMMA ValidKnown ==
    ASSUME Books, NEW b \in DOMAIN store.blk, store.blk[b].validation = "valid"
    PROVE  ToSet(TxsOf[b]) \subseteq Known
BY DEF Books, ValidIn

(* And it is promoted.                                                     *)
LEMMA ConfirmedBooks ==
    ASSUME Sound, Books, NEW b \in DOMAIN store.blk, store.blk[b].validation = "valid",
           NEW c, c = store.index["confirmed"], Extends(c, b),
           NEW new, new = Promote(store, b, Len(c), "confirmed"),
           NEW e, BlockConfirmed(c, table, e, b), Write(new, e),
           UNCHANGED <<payments, presumed, marked>>, unsaved' \in BOOLEAN
    PROVE  Books'
<1>1. Good(store) /\ IsStore(store) /\ b \in Blocks /\ c \in Seq(Blocks) /\ ConfirmedValid(store.blk, c)
    BY DEF Sound, Good, IsStore, Books, Indexes
<1> PICK name \in Indexes : name = "confirmed"
    BY DEF Indexes
<1>2. Promoted(store, b, name, new)
    BY <1>1, PromoteDoes
<1>3. IsStore(new) /\ KeptBlocks(store.blk, new.blk)
    BY <1>1, <1>2, PromotedKept DEF Promoted
<1>4. new.index["confirmed"] = Append(c, b) /\ new.index["candidate"] = store.index["candidate"]
    BY <1>1, <1>2 DEF Promoted, IsStore, Indexes
<1>5. ConfirmedValid(new.blk, c)
    BY <1>1, <1>3, ConfirmedKept
<1>6. new.blk[b].validation = "valid"
    BY <1>3 DEF KeptBlocks
<1>7. ConfirmedValid(new.blk, new.index["confirmed"])
    BY <1>1, <1>4, <1>5, <1>6, ConfirmedAppend
<1>8. PICK T : T = ToSet(TxsOf[b])
    OBVIOUS
<1>9. Grown(table, e, T) /\ OnChain(new.index["confirmed"], e) /\ T \subseteq Known
    BY <1>4, <1>8, ValidKnown DEF BlockConfirmed
<1>10. marked \cap ToSet(store.index["candidate"]) \subseteq ToSet(new.index["candidate"])
    BY <1>4
<1> QED BY <1>3, <1>7, <1>9, <1>10, KeptBooks

(* confirm(hash, height): it does not fail.                                *)
LEMMA ConfirmBooks == ASSUME Sound, Books, NEW b \in Blocks, Confirm(b)
                      PROVE  Books'
<1> PICK e : e = ConfirmLinks(table, Links(b), Height(b))
    OBVIOUS
<1> PICK c \in Seq(Blocks) : c = store.index["confirmed"]
    BY DEF Sound, Good, IsStore, Indexes
<1>1. /\ Write(IF e.ok THEN Promote(store, b, Height(b), "confirmed") ELSE store, e)
      /\ c # <<>> /\ Organized(b) /\ Follows(c, b, Height(b))
      /\ store.blk[b].validation = "valid"
      /\ unsaved' = TRUE /\ UNCHANGED <<payments, marked, presumed>>
    BY DEF Confirm, conf, blk
<1>2. b \in DOMAIN store.blk
    BY <1>1, OrganizedStored DEF blk
<1>3. Links(b) = TxsOf[b]
    BY <1>1, <1>2 DEF Links, blk, Sound, Good
<1>4. Extends(c, b) /\ Len(c) = Height(b)
    <2>1. Linked(c) /\ Len(c) \in Nat \ {0}
        BY <1>1, EmptySeq DEF Sound, Good, Indexes
    <2>2. Len(c) = Height(b) /\ Height(b) = Len(Chain[b]) - 1 /\ Len(Chain[b]) \in Nat
        BY <1>1, ChainOf DEF Follows
    <2>3. Last(c) = Parent(b) /\ Len(Chain[b]) > 1 /\ Len(Chain[b]) = Len(c) + 1
        BY <1>1, <2>1, <2>2 DEF Follows
    <2>4. c = Chain[Parent(b)]
        BY <1>1, <2>3, <2>1 DEF Linked
    <2>5. \A i \in 1..Len(c) : c[i] = Chain[b][i]
        <3>1. \A i \in 1..(Len(Chain[b]) - 1) : Chain[Parent(b)][i] = Chain[b][i]
            BY <2>3, ParentChain
        <3> QED BY <2>2, <2>4, <3>1
    <2> QED BY <2>2, <2>3, <2>5, LinkedAppend DEF Extends
<1>5. BlockConfirmed(c, table, e, b)
    <2> PICK h : h = Height(b)
        OBVIOUS
    <2>1. e = ConfirmLinks(table, TxsOf[b], h)
        BY <1>3
    <2> QED BY <1>1, <1>2, <1>4, <2>1, ValidConfirms
<1>6. Write(Promote(store, b, Len(c), "confirmed"), e)
    BY <1>1, <1>4, <1>5 DEF BlockConfirmed
<1>7. unsaved' \in BOOLEAN
    BY <1>1
<1> QED BY <1>1, <1>2, <1>4, <1>5, <1>6, <1>7, ConfirmedBooks

(* push_block: it does not fail.                                           *)
LEMMA PushBlockDoes ==
    ASSUME Sound, InProgress, Books, PushBlock
    PROVE  Books' /\ call.name = "confirmed" /\ ~call.popping /\ call' = AfterPush
<1> PICK b : b = Head(call.incoming)
    OBVIOUS
<1> PICK c : c = store.index["confirmed"]
    OBVIOUS
<1> PICK h : h = call.height
    OBVIOUS
<1> DEFINE verified == debug => Follows(c, b, h)
           e == IF verified THEN ConfirmAll(table, TxsOf[b], h) ELSE table
           done == verified /\ e.ok
<1>1. /\ call.name = "confirmed" /\ ~call.popping
      /\ Write(IF done THEN Promote(store, b, h, "confirmed") ELSE store, e)
      /\ call' = IF done THEN AfterPush ELSE FailedCall
      /\ unsaved' = (unsaved /\ ~done) /\ UNCHANGED <<payments, marked, presumed>>
    BY Zenon DEF PushBlock, Pushing, conf
<1> HIDE DEF done, e
<1>2. /\ b \in Blocks /\ c \in Seq(Blocks) /\ h = Len(c)
      /\ h + 1 \in 1..Len(call.target) /\ b = call.target[h + 1]
      /\ Len(Chain[b]) = Len(c) + 1
      /\ \A i \in 1..Len(c) : c[i] = Chain[b][i]
    <2>1. CallInv
        BY DEF InProgress
    <2>2. NextIs(b, c, h)
        BY <1>1, <2>1, NextConfirmed
    <2> QED BY <2>2 DEF NextIs
<1>3. Extends(c, b)
    BY <1>2, LinkedAppend DEF Extends
<1>4. Height(b) = h /\ h \in Nat
    <2>1. Height(b) = Len(Chain[b]) - 1
        BY <1>2, ChainOf
    <2>2. Len(c) \in Nat
        BY <1>2
    <2> QED BY <1>2, <2>1, <2>2
<1>5. Follows(c, b, h)
    <2>1. ASSUME h > 0 PROVE Last(c) = Parent(b)
        <3>1. Last(c) = c[h] /\ Parent(b) = Chain[b][h] /\ h \in 1..Len(c)
            BY <1>2, <1>4, <2>1 DEF Last, Parent
        <3> QED BY <1>2, <3>1
    <2> QED BY <1>2, <2>1 DEF Follows
<1>6. b \in DOMAIN store.blk /\ store.blk[b].validation = "valid"
    BY <1>1, <1>2 DEF InProgress, BlocksInv, InBlocks
<1>7. e = ConfirmAll(table, TxsOf[b], h)
    BY <1>5 DEF e
<1>8. BlockConfirmed(c, table, e, b)
    BY <1>3, <1>4, <1>6, <1>7, ValidConfirms
<1>9. done
    BY <1>5, <1>8 DEF done, BlockConfirmed
<1>10. Write(Promote(store, b, Len(c), "confirmed"), e) /\ call' = AfterPush
    BY <1>1, <1>2, <1>9
<1>11. unsaved' \in BOOLEAN
    BY <1>1
<1>12. Books'
    BY <1>1, <1>3, <1>6, <1>8, <1>10, <1>11, ConfirmedBooks
<1> QED BY <1>1, <1>10, <1>12

(* The top of the confirmed chain is deconfirmed and demoted.              *)
LEMMA UnconfirmedBooks ==
    ASSUME Sound, Books, NEW c, c = store.index["confirmed"], c # <<>>, NEW b, b = Last(c),
           b \in DOMAIN store.blk, store.blk[b].validation = "valid",
           NEW new, new = Demote(store, b, Top(c), "confirmed"),
           NEW e, BlockUnconfirmed(Front(c), table, e, b), Write(new, e),
           UNCHANGED <<payments, presumed, marked>>, unsaved' \in BOOLEAN
    PROVE  Books'
<1>1. /\ Good(store) /\ IsStore(store) /\ c \in Seq(Blocks) /\ Linked(c)
      /\ ConfirmedValid(store.blk, c)
    BY DEF Sound, Good, IsStore, Books, Indexes
<1> PICK name \in Indexes : name = "confirmed"
    BY DEF Indexes
<1>2. Demoted(store, b, name, new)
    BY <1>1, DemoteDoes
<1>3. IsStore(new) /\ KeptBlocks(store.blk, new.blk)
    <2>1. KeptBlocks(store.blk, new.blk)
        BY <1>1, <1>2, DemotedKept
    <2> QED BY <1>2, <2>1 DEF Demoted
<1>4. new.index["confirmed"] = Front(c) /\ new.index["candidate"] = store.index["candidate"]
    BY <1>1, <1>2 DEF Demoted, IsStore, Indexes
<1>5. ConfirmedValid(new.blk, c)
    BY <1>1, <1>3, ConfirmedKept
<1>6. ConfirmedValid(new.blk, new.index["confirmed"])
    BY <1>1, <1>4, <1>5, ConfirmedFront
<1>7. PICK T : T = ToSet(TxsOf[b])
    OBVIOUS
<1>8. Grown(table, e, T) /\ OnChain(new.index["confirmed"], e) /\ T \subseteq Known
    BY <1>4, <1>7, ValidKnown DEF BlockUnconfirmed
<1>9. marked \cap ToSet(store.index["candidate"]) \subseteq ToSet(new.index["candidate"])
    BY <1>4
<1> QED BY <1>3, <1>6, <1>8, <1>9, KeptBooks

(* pop_block: it does not fail.                                            *)
LEMMA PopBlockDoes ==
    ASSUME Sound, InProgress, Books, PopBlock
    PROVE  /\ Books' /\ call.name = "confirmed" /\ call.popping
           /\ call' = AfterPop(Top(store.index["confirmed"]) - 1)
<1> PICK c \in Seq(Blocks) : c = store.index["confirmed"]
    BY DEF Sound, Good, IsStore, Indexes
<1> PICK b : b = Last(c)
    OBVIOUS
<1> PICK e : e = UnconfirmAll(table, Links(b))
    OBVIOUS
<1>1. /\ call.name = "confirmed" /\ call.popping
      /\ Write(IF e.ok THEN Demote(store, b, Top(c), "confirmed") ELSE store, e)
      /\ call' = IF e.ok THEN AfterPop(Top(c) - 1) ELSE FailedCall
      /\ unsaved' = (unsaved /\ ~e.ok) /\ UNCHANGED <<payments, marked, presumed>>
    BY Zenon DEF PopBlock, Popping, conf
<1>2. c # <<>> /\ Linked(c) /\ ToSet(c) \subseteq DOMAIN store.blk
    <2>1. call.height < Len(c) /\ call.height \in 1..Len(call.target)
        BY <1>1 DEF InProgress, CallInv, InCall, Located, Indexes
    <2>2. Len(c) # 0
        BY <2>1 DEF Sound, CallType
    <2> QED BY <2>2, EmptySeq DEF Sound, Good, Indexes
<1>3. Extends(Front(c), b) /\ c = Append(Front(c), b)
    BY <1>2, LastExtends
<1>4. b \in DOMAIN store.blk /\ store.blk[b].validation = "valid"
    <2>1. b = c[Len(c)] /\ Len(c) \in 1..Len(c)
        BY <1>2, EmptySeq DEF Last
    <2>2. b \in ToSet(c)
        BY <2>1, Members
    <2> QED BY <1>2, <2>1, <2>2 DEF Books, ConfirmedValid
<1>5. Acceptable(b) /\ Links(b) = TxsOf[b]
    <2>1. store.blk[b].associated
        BY <1>4 DEF Sound, Good
    <2> QED BY <1>4, <2>1 DEF Links, blk, Books, ValidIn
<1>6. BlockUnconfirmed(Front(c), table, e, b)
    <2> PICK f : f = Front(c)
        OBVIOUS
    <2>1. table \in Tables /\ table.ok /\ OnChain(Append(f, b), table) /\ Extends(f, b)
        BY <1>3 DEF Books, TableInv
    <2> QED BY <1>5, <2>1, BlockUnconfirms
<1>7. Write(Demote(store, b, Top(c), "confirmed"), e) /\ call' = AfterPop(Top(c) - 1)
    BY <1>1, <1>6 DEF BlockUnconfirmed
<1>8. unsaved' \in BOOLEAN
    BY <1>1
<1>9. Books'
    BY <1>1, <1>2, <1>4, <1>6, <1>7, <1>8, UnconfirmedBooks
<1> QED BY <1>1, <1>7, <1>9

(* push_header: it does not fail, and the table is as it was.              *)
LEMMA HeaderBooks ==
    ASSUME Sound, Books, NEW b \in Blocks, NEW stored, Ready(store, b, stored),
           b \notin DOMAIN store.blk => stored = StoreHeader(store, b),
           NEW new, new = Promote(stored, b, Len(stored.index["candidate"]), "candidate"),
           Write(new, table), UNCHANGED <<payments, presumed, marked>>, unsaved' \in BOOLEAN
    PROVE  Books'
<1> PICK c : c = store.index["confirmed"]
    OBVIOUS
<1> PICK q \in Seq(Blocks) : q = store.index["candidate"]
    BY DEF Sound, Good, IsStore, Indexes
<1>1. Good(store) /\ IsStore(store) /\ ConfirmedValid(store.blk, c) /\ OnChain(c, table) /\ table \in Tables
    BY DEF Sound, Good, Books, TableInv
<1>2. IsStore(stored) /\ b \in DOMAIN stored.blk /\ stored.index = store.index
    BY DEF Ready, Good
<1>3. KeptBlocks(store.blk, stored.blk)
    <2>1. CASE b \in DOMAIN store.blk
        BY <2>1 DEF Ready, KeptBlocks
    <2>2. CASE b \notin DOMAIN store.blk
        <3>1. HeaderStored(store, b, stored)
            BY <1>1, <2>2, StoreHeaderDoes
        <3> QED BY <2>2, <3>1, HeaderKept
    <2> QED BY <2>1, <2>2
<1> PICK name \in Indexes : name = "candidate"
    BY DEF Indexes
<1>4. Promoted(stored, b, name, new)
    BY <1>2, PromoteDoes
<1>5. IsStore(new) /\ KeptBlocks(stored.blk, new.blk)
    BY <1>2, <1>4, PromotedKept DEF Promoted
<1>6. KeptBlocks(store.blk, new.blk)
    BY <1>3, <1>5, KeptTwice
<1>7. new.index["confirmed"] = c /\ new.index["candidate"] = Append(q, b)
    BY <1>2, <1>4 DEF Promoted, IsStore, Indexes
<1>8. ConfirmedValid(new.blk, c)
    BY <1>1, <1>6, ConfirmedKept
<1>9. marked \cap ToSet(store.index["candidate"]) \subseteq ToSet(new.index["candidate"])
    BY <1>7, MembersAppend
<1> PICK none : none = {}
    OBVIOUS
<1>10. Grown(table, table, none) /\ none \subseteq Known
    <2>1. Grown(table, table, {})
        BY <1>1, GrownSame
    <2> QED BY <2>1
<1> QED BY <1>1, <1>5, <1>6, <1>7, <1>8, <1>9, <1>10, KeptBooks

LEMMA PushHeaderDoes ==
    ASSUME Sound, InProgress, Books, PushHeader
    PROVE  Books' /\ call' = AfterPush
<1> PICK b : b = Head(call.incoming)
    OBVIOUS
<1> PICK s : s = store.index["candidate"]
    OBVIOUS
<1> PICK h : h = call.height
    OBVIOUS
<1> PICK stored : stored = IF b \in DOMAIN store.blk THEN store ELSE StoreHeader(store, b)
    OBVIOUS
<1> DEFINE done == debug => Follows(s, b, h)
<1>1. /\ call.name = "candidate" /\ ~call.popping
      /\ Write(IF done THEN Promote(stored, b, h, "candidate") ELSE store, table)
      /\ call' = IF done THEN AfterPush ELSE FailedCall
      /\ unsaved' = (unsaved /\ ~done) /\ UNCHANGED <<payments, marked, presumed>>
    BY Zenon DEF PushHeader, Pushing, cand, blk
<1> HIDE DEF done
<1>2. /\ b \in Blocks /\ s \in Seq(Blocks) /\ h = Len(s)
      /\ Len(Chain[b]) = Len(s) + 1
      /\ \A i \in 1..Len(s) : s[i] = Chain[b][i]
    <2> PICK name \in Indexes : name = "candidate"
        BY DEF Indexes
    <2>1. s = store.index[name] /\ call.name = name
        BY <1>1
    <2> QED BY <1>1, <2>1, NextIncoming DEF InProgress
<1>3. Height(b) = h /\ h \in Nat
    <2>1. Height(b) = Len(Chain[b]) - 1
        BY <1>2, ChainOf
    <2>2. Len(s) \in Nat
        BY <1>2
    <2> QED BY <1>2, <2>1, <2>2
<1>4. Follows(s, b, h)
    <2>1. ASSUME h > 0 PROVE Last(s) = Parent(b)
        <3>1. Last(s) = s[h] /\ Parent(b) = Chain[b][h] /\ h \in 1..Len(s)
            BY <1>2, <1>3, <2>1 DEF Last, Parent
        <3> QED BY <1>2, <3>1
    <2> QED BY <1>2, <2>1 DEF Follows
<1>5. done
    BY <1>4 DEF done
<1>6. Ready(store, b, stored)
    <2>1. b \in DOMAIN store.blk => store.blk[b].validation # "failed"
        BY <1>1, NextHeader
    <2> QED BY <1>2, <2>1, HeaderReady DEF Sound
<1>7. Write(Promote(stored, b, Len(stored.index["candidate"]), "candidate"), table) /\ call' = AfterPush
    BY <1>1, <1>2, <1>5, <1>6 DEF Ready
<1>8. unsaved' \in BOOLEAN
    BY <1>1
<1>9. b \notin DOMAIN store.blk => stored = StoreHeader(store, b)
    OBVIOUS
<1>10. Books'
    BY <1>1, <1>2, <1>6, <1>7, <1>8, <1>9, HeaderBooks
<1> QED BY <1>7, <1>10

(* Marks, when those of T and of P are cleared: the others are of the      *)
(* blocks of V, and after a failure all are still of U.                    *)
LEMMA MarksCleared ==
    ASSUME NEW d, NEW T, NEW P, NEW v, ~v, NEW e \in Markings(d, T, P, v),
           NEW U, NEW V, MarksIn(d, U), e.ok \/ U = V,
           TxsOfBlocks(U) \subseteq TxsOfBlocks(V) \cup T,
           Spends(TxsOfBlocks(U)) \subseteq Spends(TxsOfBlocks(V)) \cup P
    PROVE  MarksIn(e, V)
<1>1. DOMAIN e.tx = DOMAIN d.tx /\ \A t \in DOMAIN d.tx : MarkedRow(t, d.tx[t], e.tx[t], e.ok, T, P, v)
    BY DEF Markings, Marking
<1>2. ASSUME NEW t \in DOMAIN e.tx, e.tx[t].candidate PROVE t \in TxsOfBlocks(V)
    <2>1. d.tx[t].candidate /\ (e.ok => t \notin T)
        BY <1>1, <1>2, Zenon DEF MarkedRow
    <2>2. t \in TxsOfBlocks(U)
        BY <1>1, <2>1 DEF MarksIn
    <2> QED BY <2>1, <2>2
<1>3. ASSUME NEW t \in DOMAIN e.tx, NEW k \in Outputs(t), e.tx[t].outputs[k].candidateSpent
      PROVE  <<t, k>> \in Spends(TxsOfBlocks(V))
    <2>1. d.tx[t].outputs[k].candidateSpent /\ (e.ok => <<t, k>> \notin P)
        BY <1>1, <1>3, Zenon DEF MarkedRow
    <2>2. <<t, k>> \in Spends(TxsOfBlocks(U))
        BY <1>1, <2>1 DEF MarksIn
    <2> QED BY <2>1, <2>2
<1> QED BY <1>2, <1>3 DEF MarksIn

(* Without one of its blocks, a set has all but what only that one has.    *)
LEMMA OneBlockLess ==
    ASSUME NEW U, NEW V, NEW b, U \subseteq V \cup {b}
    PROVE  /\ TxsOfBlocks(U) \subseteq TxsOfBlocks(V) \cup ToSet(TxsOf[b])
           /\ Spends(TxsOfBlocks(U)) \subseteq Spends(TxsOfBlocks(V)) \cup Inputs(b)
<1>1. TxsOfBlocks(U) \subseteq TxsOfBlocks(V) \cup ToSet(TxsOf[b])
    BY DEF TxsOfBlocks
<1> QED BY <1>1 DEF Spends, Inputs

(* The top b of the candidate chain is popped and no longer marked.        *)
LEMMA MarksPopped ==
    ASSUME NEW d, NEW T, NEW v, ~v, NEW e \in Markings(d, T, Spends(T), v), e.ok,
           NEW m, NEW q \in Seq(Blocks), Linked(q), q # <<>>, NEW b, b = Last(q),
           MarksIn(d, m \cap ToSet(q)), b \in m => T = ToSet(TxsOf[b])
    PROVE  MarksIn(e, (m \ {b}) \cap ToSet(Front(q)))
<1>1. PICK U : U = m \cap ToSet(q)
    OBVIOUS
<1>2. PICK V : V = (m \ {b}) \cap ToSet(Front(q))
    OBVIOUS
<1>3. PICK P : P = Spends(T)
    OBVIOUS
<1>4. \A c : c \in ToSet(Front(q)) <=> c \in ToSet(q) /\ c # b
    BY MembersFront
<1>5. TxsOfBlocks(U) \subseteq TxsOfBlocks(V) \cup T /\ Spends(TxsOfBlocks(U)) \subseteq Spends(TxsOfBlocks(V)) \cup P
    <2>1. CASE b \notin m
        <3>1. U = V
            BY <1>1, <1>2, <1>4, <2>1
        <3> QED BY <3>1
    <2>2. CASE b \in m
        <3>1. U \subseteq V \cup {b}
            BY <1>1, <1>2, <1>4
        <3>2. Inputs(b) = P
            BY <1>3, <2>2 DEF Inputs
        <3>3. /\ TxsOfBlocks(U) \subseteq TxsOfBlocks(V) \cup ToSet(TxsOf[b])
              /\ Spends(TxsOfBlocks(U)) \subseteq Spends(TxsOfBlocks(V)) \cup Inputs(b)
            BY <3>1, OneBlockLess
        <3> QED BY <2>2, <3>2, <3>3
    <2> QED BY <2>1, <2>2
<1>6. MarksIn(d, U) /\ e \in Markings(d, T, P, v)
    BY <1>1, <1>3
<1>7. MarksIn(e, V)
    BY <1>5, <1>6, MarksCleared
<1> QED BY <1>2, <1>7

(* What clearing marks leaves, whatever becomes of the candidate chain.    *)
LEMMA ClearedBooks ==
    ASSUME Sound, Books, NEW T, NEW P, NEW v, NEW e \in Markings(table, T, P, v),
           NEW new, IsStore(new), KeptBlocks(store.blk, new.blk),
           new.index["confirmed"] = store.index["confirmed"], Write(new, e),
           UNCHANGED <<payments, presumed>>, unsaved' \in BOOLEAN, marked' \subseteq marked,
           MarksIn(e, marked' \cap ToSet(new.index["candidate"]))
    PROVE  Books'
<1> PICK c : c = store.index["confirmed"]
    OBVIOUS
<1>1. /\ Good(store) /\ OnChain(c, table) /\ ConfirmedValid(store.blk, c)
      /\ presumed \subseteq Blocks /\ marked \subseteq Blocks /\ payments \subseteq Txs
    BY DEF Sound, Books, TableInv
<1>2. e \in Tables /\ DOMAIN e.tx = DOMAIN table.tx
    BY DEF Markings, Marking
<1>3. Known' = Known
    BY DEF Known, TxsOfBlocks
<1>4. StoredIn(new.blk, e) /\ ValidIn(new.blk, Known') /\ MarkedIn(new.blk, marked')
    <2>1. StoredIn(store.blk, table) /\ ValidIn(store.blk, Known) /\ MarkedIn(store.blk, marked)
        BY DEF Books
    <2>2. StoredIn(new.blk, e)
        BY <1>2, <2>1 DEF StoredIn, KeptBlocks
    <2>3. ValidIn(new.blk, Known)
        BY <2>1 DEF ValidIn, KeptBlocks
    <2>4. MarkedIn(new.blk, marked')
        BY <2>1 DEF MarkedIn, KeptBlocks
    <2> QED BY <1>3, <2>2, <2>3, <2>4
<1>5. ConfirmedValid(new.blk, c)
    BY <1>1, ConfirmedKept
<1>6. CatalogedIn(e, Known')
    <2>1. CatalogedIn(table, Known) /\ Known \subseteq Known'
        BY <1>3 DEF Books
    <2> QED BY <2>1, CatalogedMarked
<1>7. OnChain(c, e)
    BY <1>1, OnChainMarked
<1>8. NewBooks(new.blk, new.index["candidate"], new.index["confirmed"], e, marked', Known')
    BY <1>4, <1>5, <1>6, <1>7 DEF NewBooks
<1>9. payments' \subseteq Txs /\ marked' \subseteq Blocks /\ presumed' \subseteq Blocks /\ unsaved' \in BOOLEAN
    BY <1>1
<1> QED BY <1>2, <1>8, <1>9, WriteBooks

(* pop_header: it fails only where an input has no stored output.          *)
LEMMA PopHeaderDoes ==
    ASSUME Sound, InProgress, Books, PopHeader
    PROVE  /\ Books' /\ call.name = "candidate" /\ call.popping
           /\ \/ call' = AfterPop(Top(store.index["candidate"]) - 1)
              \/ \E point \in Spends(ToSet(Links(Last(cand)))) : ~HasOutput(table, point)
<1> PICK q \in Seq(Blocks) : q = store.index["candidate"]
    BY DEF Sound, Good, IsStore, Indexes
<1> PICK no \in Flags : no = FALSE
    BY DEF Flags
<1> PICK b : b = Last(q)
    OBVIOUS
<1> PICK links : links = Links(b)
    OBVIOUS
<1> PICK e : e = CandidateAll(table, links, no)
    OBVIOUS
<1> PICK T : T = ToSet(links)
    OBVIOUS
<1>1. /\ call.name = "candidate" /\ call.popping
      /\ Write(IF e.ok THEN Demote(store, b, Top(q), "candidate") ELSE store, e)
      /\ call' = IF e.ok THEN AfterPop(Top(q) - 1) ELSE FailedCall
      /\ marked' = IF e.ok THEN marked \ {b} ELSE marked
      /\ unsaved' = (unsaved /\ ~e.ok) /\ UNCHANGED <<payments, presumed>>
    BY Zenon DEF PopHeader, Popping, cand
<1>2. q # <<>> /\ Linked(q) /\ ToSet(q) \subseteq DOMAIN store.blk /\ Good(store) /\ IsStore(store)
    <2>1. call.height < Len(q) /\ call.height \in 1..Len(call.target)
        BY <1>1 DEF InProgress, CallInv, InCall, Located, Indexes
    <2>2. Len(q) # 0
        BY <2>1 DEF Sound, CallType
    <2> QED BY <2>2, EmptySeq DEF Sound, Good, Indexes
<1>3. b \in Blocks /\ b \in DOMAIN store.blk
    BY <1>2, LastOf
<1>4. links \in Seq(Txs) /\ T \subseteq DOMAIN table.tx /\ (b \in marked => T = ToSet(TxsOf[b]))
    <2>1. CASE store.blk[b].associated
        <3>1. links = TxsOf[b]
            BY <2>1 DEF Links, blk
        <3> QED BY <1>3, <2>1, <3>1, BlockTxs DEF Books, StoredIn
    <2>2. CASE ~store.blk[b].associated
        <3>1. links = <<>>
            BY <2>2 DEF Links, blk
        <3>2. T = {} /\ links \in Seq(Txs)
            BY <3>1 DEF ToSet
        <3>3. b \notin marked
            BY <2>2 DEF Books, MarkedIn
        <3> QED BY <3>2, <3>3
    <2> QED BY <2>1, <2>2
<1>5. table \in Tables /\ table.ok
    BY DEF Books, TableInv
<1>6. e \in Markings(table, T, Spends(T), no)
    BY <1>4, <1>5, CandidateAllDoes
<1>7. unsaved' \in BOOLEAN /\ marked' \subseteq marked
    BY <1>1
<1>8. MarksIn(table, marked \cap ToSet(q))
    BY DEF Books
<1>9. CASE e.ok
    <2> PICK new : new = Demote(store, b, Top(q), "candidate")
        OBVIOUS
    <2>1. Write(new, e) /\ call' = AfterPop(Top(q) - 1) /\ marked' = marked \ {b}
        BY <1>1, <1>9
    <2> PICK name \in Indexes : name = "candidate"
        BY DEF Indexes
    <2>2. Demoted(store, b, name, new)
        BY <1>2, <1>3, DemoteDoes
    <2>3. KeptBlocks(store.blk, new.blk)
        BY <1>2, <1>3, <2>2, DemotedKept
    <2>4. IsStore(new) /\ new.index["candidate"] = Front(q) /\ new.index["confirmed"] = store.index["confirmed"]
        BY <1>2, <2>2 DEF Demoted, IsStore, Indexes
    <2>5. MarksIn(e, (marked \ {b}) \cap ToSet(Front(q)))
        BY <1>2, <1>4, <1>6, <1>8, <1>9, MarksPopped
    <2>6. Books'
        BY <1>1, <1>6, <1>7, <2>1, <2>3, <2>4, <2>5, ClearedBooks
    <2> QED BY <1>1, <2>1, <2>6
<1>10. CASE ~e.ok
    <2>1. Write(store, e) /\ marked' = marked
        BY <1>1, <1>10
    <2>2. \E point \in Spends(T) : ~HasOutput(table, point)
        BY <1>6, <1>10 DEF Markings, Marking
    <2>3. Last(cand) = b /\ Spends(ToSet(Links(Last(cand)))) = Spends(T)
        BY DEF cand
    <2>4. MarksIn(e, marked' \cap ToSet(q))
        <3>1. PICK U : U = marked \cap ToSet(q)
            OBVIOUS
        <3>2. PICK P : P = Spends(T)
            OBVIOUS
        <3>3. MarksIn(table, U) /\ e \in Markings(table, T, P, no)
            BY <1>6, <1>8, <3>1, <3>2
        <3>4. /\ TxsOfBlocks(U) \subseteq TxsOfBlocks(U) \cup T
              /\ Spends(TxsOfBlocks(U)) \subseteq Spends(TxsOfBlocks(U)) \cup P
            OBVIOUS
        <3>5. MarksIn(e, U)
            BY <3>3, <3>4, MarksCleared
        <3> QED BY <2>1, <3>1, <3>5
    <2>5. KeptBlocks(store.blk, store.blk)
        BY KeptSame
    <2>6. Books'
        BY <1>1, <1>2, <1>6, <1>7, <2>1, <2>4, <2>5, ClearedBooks
    <2> QED BY <1>1, <2>2, <2>3, <2>6
<1> QED BY <1>9, <1>10

(* push(block): the four writes to the store, for the books.               *)
Pushed(st, b, final) ==
    /\ IsStore(final)
    /\ final.index["candidate"] = Append(st.index["candidate"], b)
    /\ final.index["confirmed"] = Append(st.index["confirmed"], b)
    /\ DOMAIN final.blk = DOMAIN st.blk \cup {b}
    /\ final.blk[b].validation = "valid"
    /\ \A x \in DOMAIN st.blk : /\ final.blk[x].validation = st.blk[x].validation
                                /\ final.blk[x].associated <=> st.blk[x].associated

(* The header is stored, promoted and associated.                          *)
Prepared(st, b, linked) ==
    /\ IsStore(linked)
    /\ linked.index["candidate"] = Append(st.index["candidate"], b)
    /\ linked.index["confirmed"] = st.index["confirmed"]
    /\ DOMAIN linked.blk = DOMAIN st.blk \cup {b}
    /\ \A x \in DOMAIN st.blk : /\ linked.blk[x].validation = st.blk[x].validation
                                /\ linked.blk[x].associated <=> st.blk[x].associated

LEMMA PreparedIs ==
    ASSUME NEW st, IsStore(st), NEW b \in Blocks, b \notin DOMAIN st.blk,
           NEW header, HeaderStored(st, b, header),
           NEW stored, Promoted(header, b, "candidate", stored),
           NEW linked, Associated(stored, b, linked)
    PROVE  Prepared(st, b, linked)
<1>1. /\ IsStore(header) /\ header.index = st.index /\ b \in DOMAIN header.blk
      /\ DOMAIN header.blk = DOMAIN st.blk \cup {b} /\ \A x \in DOMAIN st.blk : header.blk[x] = st.blk[x]
    BY DEF HeaderStored, Rest
<1> PICK name \in Indexes : name = "candidate"
    BY DEF Indexes
<1>2. Promoted(header, b, name, stored)
    OBVIOUS
<1>3. KeptBlocks(header.blk, stored.blk)
    BY <1>1, <1>2, PromotedKept
<1>4. /\ IsStore(stored) /\ DOMAIN stored.blk = DOMAIN header.blk
      /\ stored.index["candidate"] = Append(st.index["candidate"], b)
      /\ stored.index["confirmed"] = st.index["confirmed"]
    BY <1>1 DEF Promoted, Rest, IsStore, Indexes
<1>5. /\ IsStore(linked) /\ linked.index = stored.index /\ DOMAIN linked.blk = DOMAIN stored.blk
      /\ \A x \in DOMAIN stored.blk : x # b => linked.blk[x] = stored.blk[x]
    BY <1>1, <1>4 DEF Associated, Rest
<1>6. ASSUME NEW x \in DOMAIN st.blk
      PROVE  linked.blk[x].validation = st.blk[x].validation /\ (linked.blk[x].associated <=> st.blk[x].associated)
    <2>1. x # b /\ x \in DOMAIN header.blk /\ header.blk[x] = st.blk[x]
        BY <1>1
    <2>2. stored.blk[x].validation = st.blk[x].validation /\ (stored.blk[x].associated <=> st.blk[x].associated)
        BY <1>3, <2>1 DEF KeptBlocks
    <2>3. linked.blk[x] = stored.blk[x]
        BY <1>4, <1>5, <2>1
    <2> QED BY <2>2, <2>3
<1> QED BY <1>1, <1>4, <1>5, <1>6 DEF Prepared

(* It is validated and promoted again.                                     *)
LEMMA PushedIs ==
    ASSUME NEW st, NEW b, b \notin DOMAIN st.blk, NEW linked, Prepared(st, b, linked),
           NEW valid, Validated(linked, b, "valid", valid),
           NEW final, Promoted(valid, b, "confirmed", final)
    PROVE  Pushed(st, b, final)
<1>1. /\ IsStore(linked) /\ b \in DOMAIN linked.blk /\ DOMAIN linked.blk = DOMAIN st.blk \cup {b}
      /\ linked.index["candidate"] = Append(st.index["candidate"], b)
      /\ linked.index["confirmed"] = st.index["confirmed"]
    BY DEF Prepared
<1> PICK verdict : verdict = "valid"
    OBVIOUS
<1> PICK name \in Indexes : name = "confirmed"
    BY DEF Indexes
<1>2. Validated(linked, b, verdict, valid) /\ Promoted(valid, b, name, final)
    OBVIOUS
<1>3. IsStore(valid) /\ valid.index = linked.index /\ ValidatedBlocks(linked.blk, b, verdict, valid.blk)
    BY <1>1, <1>2, ValidatedIs
<1>4. b \in DOMAIN valid.blk /\ DOMAIN valid.blk = DOMAIN linked.blk /\ valid.blk[b].validation = "valid"
    BY <1>1, <1>3 DEF ValidatedBlocks
<1>5. KeptBlocks(valid.blk, final.blk)
    BY <1>2, <1>3, <1>4, PromotedKept
<1>6. /\ IsStore(final) /\ DOMAIN final.blk = DOMAIN valid.blk
      /\ final.index["confirmed"] = Append(st.index["confirmed"], b)
      /\ final.index["candidate"] = Append(st.index["candidate"], b)
    BY <1>1, <1>3, <1>4 DEF Promoted, Rest, IsStore, Indexes
<1>7. ASSUME NEW x \in DOMAIN st.blk
      PROVE  final.blk[x].validation = st.blk[x].validation /\ (final.blk[x].associated <=> st.blk[x].associated)
    <2>1. x # b /\ x \in DOMAIN linked.blk
        BY <1>1
    <2>2. linked.blk[x].validation = st.blk[x].validation /\ (linked.blk[x].associated <=> st.blk[x].associated)
        BY DEF Prepared
    <2>3. valid.blk[x].validation = linked.blk[x].validation /\ (valid.blk[x].associated <=> linked.blk[x].associated)
        BY <1>3, <2>1 DEF ValidatedBlocks
    <2>4. final.blk[x].validation = valid.blk[x].validation /\ (final.blk[x].associated <=> valid.blk[x].associated)
        BY <1>4, <1>5, <2>1 DEF KeptBlocks
    <2> QED BY <2>2, <2>3, <2>4
<1>8. final.blk[b].validation = "valid"
    BY <1>4, <1>5 DEF KeptBlocks
<1> QED BY <1>1, <1>4, <1>6, <1>7, <1>8 DEF Pushed

LEMMA PushDoes ==
    ASSUME NEW st, IsStore(st), NEW b \in Blocks, b \notin DOMAIN st.blk,
           NEW h, h = Len(st.index["candidate"]), h = Len(st.index["confirmed"]),
           NEW header, header = StoreHeader(st, b),
           NEW stored, stored = Promote(header, b, h, "candidate"),
           NEW linked, linked = UpdateTransactions(stored, b),
           NEW yes \in BOOLEAN, yes, NEW valid, valid = Validate(linked, b, yes),
           NEW final, final = Promote(valid, b, h, "confirmed")
    PROVE  Pushed(st, b, final)
<1>1. HeaderStored(st, b, header)
    BY StoreHeaderDoes
<1>2. IsStore(header) /\ header.index = st.index /\ b \in DOMAIN header.blk
    BY <1>1 DEF HeaderStored, Rest
<1>3. Promoted(header, b, "candidate", stored)
    BY <1>2, PromoteDoes DEF Indexes
<1>4. IsStore(stored) /\ b \in DOMAIN stored.blk
    BY <1>3 DEF Promoted, Rest
<1>5. Associated(stored, b, linked)
    BY <1>4, UpdateTransactionsDoes
<1>6. Prepared(st, b, linked)
    BY <1>1, <1>3, <1>5, PreparedIs
<1>7. IsStore(linked) /\ b \in DOMAIN linked.blk /\ linked.index["confirmed"] = st.index["confirmed"]
    BY <1>6 DEF Prepared
<1>8. Validated(linked, b, "valid", valid)
    <2>1. Validated(linked, b, IF yes THEN "valid" ELSE "failed", valid)
        BY <1>7, ValidateDoes
    <2> QED BY <2>1
<1>9. IsStore(valid) /\ b \in DOMAIN valid.blk /\ h = Len(valid.index["confirmed"])
    BY <1>7, <1>8 DEF Validated, Rest
<1>10. Promoted(valid, b, "confirmed", final)
    BY <1>9, PromoteDoes DEF Indexes
<1> QED BY <1>6, <1>8, <1>10, PushedIs

(* Books of a block that is pushed.                                        *)
LEMMA PushedIn ==
    ASSUME NEW st, NEW b, b \notin DOMAIN st.blk, NEW final, Pushed(st, b, final),
           NEW d, NEW e, NEW T, Grown(d, e, T), StoredIn(st.blk, d), TxsAreIn(b, DOMAIN e.tx),
           NEW A, NEW B, A \subseteq B, ValidIn(st.blk, A), Acceptable(b), TxsAreIn(b, B),
           NEW m, MarkedIn(st.blk, m)
    PROVE  StoredIn(final.blk, e) /\ ValidIn(final.blk, B) /\ MarkedIn(final.blk, m)
<1>1. DOMAIN d.tx \subseteq DOMAIN e.tx
    BY DEF Grown
<1>2. StoredIn(final.blk, e)
    BY <1>1 DEF Pushed, StoredIn, TxsAreIn
<1>3. ValidIn(final.blk, B)
    BY DEF Pushed, ValidIn, TxsAreIn
<1>4. MarkedIn(final.blk, m)
    BY DEF Pushed, MarkedIn
<1> QED BY <1>2, <1>3, <1>4

(* The confirmed blocks, with one that is pushed.                          *)
LEMMA PushedConfirmed ==
    ASSUME Good(store), NEW c, c = store.index["confirmed"], ConfirmedValid(store.blk, c),
           NEW b \in Blocks, NEW final, Pushed(store, b, final)
    PROVE  ConfirmedValid(final.blk, Append(c, b))
<1>1. c \in Seq(Blocks) /\ ToSet(c) \subseteq DOMAIN store.blk
    BY DEF Good, IsStore, Indexes
<1>2. ASSUME NEW i \in 1..Len(c) PROVE final.blk[c[i]].validation = "valid"
    <2>1. c[i] \in DOMAIN store.blk
        BY <1>1, Members
    <2> QED BY <2>1 DEF ConfirmedValid, Pushed
<1>3. ConfirmedValid(final.blk, c) /\ final.blk[b].validation = "valid"
    BY <1>2 DEF ConfirmedValid, Pushed
<1> QED BY <1>1, <1>3, ConfirmedAppend

(* The transactions are stored and confirmed: it succeeds.                 *)
LEMMA NewBlockConfirms ==
    ASSUME Books, NEW b \in Blocks, NEW c, c = store.index["confirmed"], Extends(c, b), Acceptable(b),
           NEW h, h = Height(b),
           NEW d, d = StoreAll(table, TxsOf[b]), NEW e, e = ConfirmAll(d, TxsOf[b], h)
    PROVE  /\ e \in Tables /\ e.ok /\ OnChain(Append(c, b), e)
           /\ Grown(table, e, ToSet(TxsOf[b])) /\ TxsAreIn(b, DOMAIN e.tx)
<1>1. table \in Tables /\ table.ok /\ OnChain(c, table)
    BY DEF Books, TableInv
<1>2. BlockStored(c, table, d, b)
    BY <1>1, BlockStores
<1>3. /\ d \in Tables /\ d.ok /\ Grown(table, d, {}) /\ OnChain(c, d)
      /\ ToSet(TxsOf[b]) \subseteq DOMAIN d.tx
    BY <1>2 DEF BlockStored
<1>4. BlockConfirmed(c, d, e, b)
    BY <1>3, BlockConfirms
<1>5. e \in Tables /\ e.ok /\ Grown(d, e, ToSet(TxsOf[b])) /\ OnChain(Append(c, b), e)
    BY <1>4 DEF BlockConfirmed
<1>6. Grown(table, e, {} \cup ToSet(TxsOf[b]))
    BY <1>3, <1>5, GrownTwice
<1>7. {} \cup ToSet(TxsOf[b]) = ToSet(TxsOf[b])
    OBVIOUS
<1>8. TxsAreIn(b, DOMAIN e.tx)
    BY <1>3, <1>5 DEF Grown, TxsAreIn
<1> QED BY <1>5, <1>6, <1>7, <1>8

(* push(block): it does not fail.                                          *)
LEMMA PushBooks == ASSUME Sound, Books, NEW b \in Blocks, Push(b)
                   PROVE  Books'
<1> PICK c \in Seq(Blocks) : c = store.index["confirmed"]
    BY DEF Sound, Good, IsStore, Indexes
<1> PICK h : h = Height(b)
    OBVIOUS
<1> PICK yes \in BOOLEAN : yes = TRUE
    OBVIOUS
<1>0. PICK header : header = StoreHeader(store, b)
    OBVIOUS
<1>1. PICK stored : stored = Promote(header, b, h, "candidate")
    OBVIOUS
<1>2. PICK linked : linked = UpdateTransactions(stored, b)
    OBVIOUS
<1>3. PICK valid : valid = Validate(linked, b, yes)
    OBVIOUS
<1>4. PICK final : final = Promote(valid, b, h, "confirmed")
    OBVIOUS
<1>5. PICK d : d = StoreAll(table, TxsOf[b])
    OBVIOUS
<1>6. PICK e : e = ConfirmAll(d, TxsOf[b], h)
    OBVIOUS
<1>7. /\ b \notin DOMAIN store.blk /\ store.index["candidate"] = c /\ c = Front(Chain[b]) /\ Acceptable(b)
      /\ ~aborted
      /\ Write(IF e.ok THEN final ELSE linked, e)
      /\ IF e.ok THEN CatalogBlock(b) ELSE UNCHANGED payments
      /\ unsaved' = ~e.ok /\ UNCHANGED <<marked, presumed>>
    BY <1>0, <1>1, <1>2, <1>3, <1>4, <1>5, <1>6, Zenon DEF Push, Idle, conf, cand, blk
<1>8. Extends(c, b) /\ h = Len(c)
    <2>1. /\ Height(b) = Len(conf) /\ Len(Chain[b]) = Len(conf) + 1 /\ conf \in Seq(Blocks)
          /\ \A i \in 1..Len(conf) : conf[i] = Chain[b][i]
        BY <1>7, PushCandidate DEF HeaderAdded, conf, cand, blk
    <2>2. conf = c
        BY DEF conf
    <2> QED BY <2>1, <2>2, LinkedAppend DEF Extends
<1>9. /\ e \in Tables /\ e.ok /\ OnChain(Append(c, b), e)
      /\ Grown(table, e, ToSet(TxsOf[b])) /\ TxsAreIn(b, DOMAIN e.tx)
    BY <1>5, <1>6, <1>7, <1>8, NewBlockConfirms
<1>10. Write(final, e) /\ CatalogBlock(b) /\ unsaved' \in BOOLEAN
    BY <1>7, <1>9
<1>11. Pushed(store, b, final)
    BY <1>0, <1>1, <1>2, <1>3, <1>4, <1>7, <1>8, PushDoes DEF Sound, Good
<1>12. payments \subseteq payments' /\ payments' \subseteq Txs /\ TxsAreIn(b, Known') /\ presumed' \subseteq Blocks
    <2>1. payments \subseteq payments' /\ payments' \subseteq Txs /\ TxsAreIn(b, Known')
        BY <1>7, <1>10, CatalogBlockKnows DEF TxsAreIn
    <2> QED BY <1>7, <2>1 DEF Books, TableInv
<1>13. StoredIn(final.blk, e) /\ ValidIn(final.blk, Known') /\ MarkedIn(final.blk, marked)
    <2>1. StoredIn(store.blk, table) /\ ValidIn(store.blk, Known) /\ MarkedIn(store.blk, marked)
        BY DEF Books
    <2>2. Known \subseteq Known'
        BY <1>7, <1>12, KnownGrows
    <2> QED BY <1>7, <1>9, <1>11, <1>12, <2>1, <2>2, PushedIn
<1>14. ConfirmedValid(final.blk, Append(c, b))
    BY <1>11, PushedConfirmed DEF Sound, Books
<1>15. /\ IsStore(final) /\ final.index["candidate"] = Append(c, b)
       /\ final.index["confirmed"] = Append(c, b)
    BY <1>7, <1>11 DEF Pushed
<1>16. marked \cap ToSet(store.index["candidate"]) \subseteq ToSet(final.index["candidate"])
    BY <1>7, <1>15, MembersAppend
<1>17. PICK T : T = ToSet(TxsOf[b])
    OBVIOUS
<1>18. Grown(table, e, T) /\ T \subseteq Known'
    BY <1>9, <1>12, <1>17 DEF TxsAreIn
<1> QED BY <1>7, <1>9, <1>10, <1>12, <1>13, <1>14, <1>15, <1>16, <1>18, GrownBooks

-----------------------------------------------------------------------------
(* The loops of reorganize() go on or end: they do not fail by themselves. *)
LEMMA ContinueNotFailed ==
    ASSUME NEW c, "name" \in DOMAIN c, c.name \in Indexes, NEW top
    PROVE  Continue(c, top) # FailedCall
<1> PICK more : more = (c.popping /\ top > c.fork)
    OBVIOUS
<1> DEFINE next == [c EXCEPT !.popping = more]
<1>1. Continue(c, top) = next \/ Continue(c, top) = NoCall
    BY Zenon DEF Continue
<1>2. next.name = c.name
    OBVIOUS
<1> HIDE DEF next
<1> QED BY <1>1, <1>2, NoCallType

LEMMA AfterNotFailed ==
    ASSUME call \in CallType, call.name \in Indexes
    PROVE  AfterPush # FailedCall /\ \A top : AfterPop(top) # FailedCall
<1>1. "name" \in DOMAIN call
    BY DEF CallType
<1> DEFINE c == [call EXCEPT !.incoming = Tail(@), !.height = @ + 1]
<1>2. "name" \in DOMAIN c /\ c.name = call.name
    BY DEF CallType
<1>3. AfterPush = Continue(c, call.height)
    BY DEF AfterPush
<1> HIDE DEF c
<1>4. AfterPush # FailedCall
    BY <1>2, <1>3, ContinueNotFailed
<1>5. ASSUME NEW top PROVE AfterPop(top) # FailedCall
    BY <1>1, ContinueNotFailed DEF AfterPop
<1> QED BY <1>4, <1>5

(* When a reorganization may fail.                                         *)
Fails ==
    /\ call.name = "confirmed" => call' # FailedCall
    /\ call.name = "candidate" /\ call' = FailedCall =>
          \E point \in Spends(ToSet(Links(Last(cand)))) : ~HasOutput(table, point)

LEMMA IdleFails == ASSUME Idle PROVE Fails
<1>1. call.name \notin Indexes
    BY IdleCall
<1> QED BY <1>1 DEF Fails, Indexes

LEMMA SameFails == ASSUME call' = call PROVE Fails
<1>1. FailedCall.name # "confirmed" /\ FailedCall.name # "candidate"
    BY NoCallType DEF Indexes
<1> QED BY <1>1 DEF Fails

(* Every step keeps the books, and fails only where it may.                *)
LEMMA NextBooks == ASSUME Inv, Books, [Next]_vars
                   PROVE  Books' /\ Fails
<1>0. Sound /\ InProgress /\ call \in CallType
    BY InvIs DEF Sound
<1>1. ASSUME NEW b \in Blocks, Push(b) PROVE Books' /\ Fails
    <2>1. Idle
        BY <1>1, Zenon DEF Push
    <2> QED BY <1>0, <1>1, <2>1, PushBooks, IdleFails
<1>2. ASSUME NEW b \in Blocks, Update(b) PROVE Books' /\ Fails
    <2>1. call' = call
        BY <1>2, Zenon DEF Update
    <2> QED BY <1>0, <1>2, <2>1, UpdateBooks, SameFails
<1>3. ASSUME NEW b \in Blocks, Invalidate(b) PROVE Books' /\ Fails
    <2>1. Idle
        BY <1>3, Zenon DEF Invalidate
    <2> QED BY <1>0, <1>3, <2>1, InvalidateBooks, IdleFails
<1>4. ASSUME NEW b \in Blocks, Candidate(b) PROVE Books' /\ Fails
    <2>1. Idle
        BY <1>4, Zenon DEF Candidate
    <2> QED BY <1>0, <1>4, <2>1, CandidateBooks, IdleFails
<1>5. ASSUME NEW b \in Blocks, Confirm(b) PROVE Books' /\ Fails
    <2>1. Idle
        BY <1>5, Zenon DEF Confirm
    <2> QED BY <1>0, <1>5, <2>1, ConfirmBooks, IdleFails
<1>6. ASSUME NEW b \in Blocks, BeginBlocks(b) PROVE Books' /\ Fails
    <2>1. Idle /\ UNCHANGED <<store, table, payments, unsaved, marked, presumed>>
        BY <1>6 DEF BeginBlocks
    <2> QED BY <2>1, SameBooks, IdleFails
<1>7. ASSUME NEW b \in Blocks, BeginHeaders(b) PROVE Books' /\ Fails
    <2>1. Idle /\ UNCHANGED <<store, table, payments, unsaved, marked, presumed>>
        BY <1>7 DEF BeginHeaders
    <2> QED BY <2>1, SameBooks, IdleFails
<1>8. ASSUME NEW t \in Pool, StoreTx(t) PROVE Books' /\ Fails
    <2>1. call' = call
        BY <1>8, Zenon DEF StoreTx
    <2> QED BY <1>0, <1>8, <2>1, StoreTxBooks, SameFails
<1>9. ASSUME NEW t \in Pool, CatalogTx(t) PROVE Books' /\ Fails
    <2>1. call' = call
        BY <1>9 DEF CatalogTx
    <2> QED BY <1>9, <2>1, CatalogTxBooks, SameFails
<1>10. CASE PopHeader
    <2>1. /\ Books' /\ call.name = "candidate"
          /\ \/ call' = AfterPop(Top(store.index["candidate"]) - 1)
             \/ \E point \in Spends(ToSet(Links(Last(cand)))) : ~HasOutput(table, point)
        BY <1>0, <1>10, PopHeaderDoes
    <2>2. call' = AfterPop(Top(store.index["candidate"]) - 1) => call' # FailedCall
        BY <1>0, <2>1, AfterNotFailed DEF Indexes
    <2> QED BY <2>1, <2>2 DEF Fails
<1>11. CASE PushHeader
    <2>1. Books' /\ call.name = "candidate" /\ call' = AfterPush
        BY <1>0, <1>11, PushHeaderDoes, Zenon DEF PushHeader, Pushing
    <2>2. call' # FailedCall
        BY <1>0, <2>1, AfterNotFailed DEF Indexes
    <2> QED BY <2>1, <2>2 DEF Fails
<1>12. CASE PopBlock
    <2>1. Books' /\ call.name = "confirmed" /\ call' = AfterPop(Top(store.index["confirmed"]) - 1)
        BY <1>0, <1>12, PopBlockDoes
    <2>2. call' # FailedCall
        BY <1>0, <2>1, AfterNotFailed DEF Indexes
    <2> QED BY <2>1, <2>2 DEF Fails
<1>13. CASE PushBlock
    <2>1. Books' /\ call.name = "confirmed" /\ call' = AfterPush
        BY <1>0, <1>13, PushBlockDoes
    <2>2. call' # FailedCall
        BY <1>0, <2>1, AfterNotFailed DEF Indexes
    <2> QED BY <2>1, <2>2 DEF Fails
<1>14. CASE Restart
    <2>1. call' # FailedCall
        BY <1>14, NoCallType DEF Restart
    <2> QED BY <1>14, <2>1, RestartBooks DEF Fails
<1>15. CASE UNCHANGED vars
    <2>1. call' = call /\ UNCHANGED <<store, table, payments, unsaved, marked, presumed>>
        BY <1>15 DEF vars
    <2> QED BY <2>1, SameBooks, SameFails
<1> QED BY <1>1, <1>2, <1>3, <1>4, <1>5, <1>6, <1>7, <1>8, <1>9, <1>10, <1>11, <1>12, <1>13, <1>14,
          <1>15 DEF Next

(* The two invariants hold in every state.                                 *)
LEMMA BooksAlways == Spec => [](Inv /\ Books)
<1>1. Init => Inv /\ Books
    BY InitInv, InitBooks
<1>2. Inv /\ Books /\ [Next]_vars => (Inv /\ Books)'
    BY NextKeeps, NextBooks
<1> QED BY <1>1, <1>2, PTL DEF Spec

(* A reorganization of blocks never fails, for any tree of blocks and any  *)
(* transactions in them, whatever other threads do between its steps and   *)
(* whatever the branches went through before (data_base.cpp, pop_block,    *)
(* push_block; transaction_database.cpp, confirmed_spend, confirm,         *)
(* unconfirm).                                                             *)
THEOREM BlockReorganizationsComplete == Spec => BlocksComplete
<1>1. Inv /\ Books /\ [Next]_vars => [call.name = "confirmed" => call' # FailedCall]_vars
    BY NextBooks DEF Fails
<1> QED BY BooksAlways, <1>1, PTL DEF Spec, BlocksComplete

(* A reorganization of headers fails only at a header whose block has an   *)
(* input with no stored output: verify_push never ends it, and neither     *)
(* does a mark that is set or missing (data_base.cpp, pop_header,          *)
(* push_header; transaction_database.cpp, candidate_spend).                *)
THEOREM HeaderReorganizationsComplete == Spec => HeadersComplete
<1>1. Inv /\ Books /\ [Next]_vars =>
         [call.name = "candidate" /\ call' = FailedCall =>
             \E point \in Spends(ToSet(Links(Last(cand)))) : ~HasOutput(table, point)]_vars
    BY NextBooks DEF Fails
<1> QED BY BooksAlways, <1>1, PTL DEF Spec, HeadersComplete

-----------------------------------------------------------------------------
(* What the books say of the properties.                                   *)

(* The first n blocks s of a chain, by their places.                       *)
Prefix(c, n, s) ==
    /\ \A t : t \in TxsIn(s) <=> \E i \in 1..n : \E j \in 1..Len(TxsOf[c[i]]) : t = TxsOf[c[i]][j]
    /\ \A p : p \in Spends(TxsIn(s)) <=> \E i \in 1..n : p \in Inputs(c[i])

LEMMA ChainUpTo ==
    ASSUME NEW c \in Seq(Blocks), NEW n \in 1..Len(c), NEW s, s = SubSeq(c, 1, n)
    PROVE  Prefix(c, n, s)
<1>1. s \in Seq(Blocks) /\ Len(s) = n /\ \A i \in 1..n : s[i] = c[i]
    BY SubSeqProperties
<1>2. \A t : t \in TxsIn(s) <=> \E i \in 1..Len(s) : \E j \in 1..Len(TxsOf[s[i]]) : t = TxsOf[s[i]][j]
    BY <1>1, ChainTxs
<1>3. \A p : p \in Spends(TxsIn(s)) <=> \E i \in 1..Len(s) : p \in Inputs(s[i])
    BY <1>1, ChainInputs
<1> QED BY <1>1, <1>2, <1>3 DEF Prefix

(* Where a transaction of the chain is in the table.                       *)
LEMMA RowAt ==
    ASSUME NEW c \in Seq(Blocks), NEW d, ChainRows(c, d), NEW i \in 1..Len(c),
           NEW j \in 1..Len(TxsOf[c[i]]), NEW t, t = TxsOf[c[i]][j]
    PROVE  /\ t \in DOMAIN d.tx /\ d.tx[t].height = i - 1
           /\ HasPosition(d.tx[t])
<1>1. t \in DOMAIN d.tx /\ d.tx[t].height = i - 1 /\ d.tx[t].position = j - 1
    BY DEF ChainRows, RowsOf
<1>2. c[i] \in Blocks
    BY ElementOfSeq
<1>3. Len(TxsOf[c[i]]) \in Nat /\ Len(TxsOf[c[i]]) <= Unconfirmed /\ Len(TxsOf[c[i]]) <= Deconfirmed
    BY <1>2, BlockTxs
<1>4. j - 1 # Unconfirmed /\ j - 1 # Deconfirmed
    BY <1>3, TransactionAssumption
<1> QED BY <1>1, <1>4 DEF HasPosition

(* A transaction is confirmed up to a block of the chain if the chain has  *)
(* it up to there.                                                         *)
LEMMA ConfirmedExact ==
    ASSUME NEW c \in Seq(Blocks), NEW d, ChainRows(c, d), NEW n \in 1..Len(c),
           NEW s, Prefix(c, n, s), NEW t \in DOMAIN d.tx
    PROVE  t \in TxsIn(s) <=> HasPosition(d.tx[t]) /\ d.tx[t].height <= n - 1
<1>1. t \in TxsIn(s) <=> \E i \in 1..n : \E j \in 1..Len(TxsOf[c[i]]) : t = TxsOf[c[i]][j]
    BY Zenon DEF Prefix
<1>2. Len(c) \in Nat
    OBVIOUS
<1>3. ASSUME t \in TxsIn(s) PROVE HasPosition(d.tx[t]) /\ d.tx[t].height <= n - 1
    <2> PICK i \in 1..n : \E j \in 1..Len(TxsOf[c[i]]) : t = TxsOf[c[i]][j]
        BY <1>1, <1>3
    <2> PICK j \in 1..Len(TxsOf[c[i]]) : t = TxsOf[c[i]][j]
        OBVIOUS
    <2>1. i \in 1..Len(c)
        BY <1>2
    <2>2. d.tx[t].height = i - 1 /\ HasPosition(d.tx[t])
        BY <2>1, RowAt
    <2> QED BY <2>2
<1>4. ASSUME HasPosition(d.tx[t]), d.tx[t].height <= n - 1 PROVE t \in TxsIn(s)
    <2>1. t \in TxsIn(c)
        BY <1>4 DEF ChainRows, HasPosition
    <2>2. HasRow(c, d, t)
        BY <2>1, RowOnChain
    <2> PICK i \in 1..Len(c) : \E j \in 1..Len(TxsOf[c[i]]) : t = TxsOf[c[i]][j] /\ d.tx[t].height = i - 1
        BY <2>2 DEF HasRow
    <2> PICK j \in 1..Len(TxsOf[c[i]]) : t = TxsOf[c[i]][j] /\ d.tx[t].height = i - 1
        OBVIOUS
    <2>3. i \in 1..n
        BY <1>2, <1>4
    <2> QED BY <1>1, <2>3
<1> QED BY <1>3, <1>4

(* And an output is spent if the chain spends it up to there.              *)
LEMMA SpentExact ==
    ASSUME NEW c \in Seq(Blocks), Linked(c), NEW d, ChainSpends(c, d), NEW n \in 1..Len(c),
           NEW s, Prefix(c, n, s), NEW t \in DOMAIN d.tx, NEW k \in Outputs(t),
           NEW v, v = d.tx[t].outputs[k].spender
    PROVE  <<t, k>> \in Spends(TxsIn(s)) <=> v # NotSpent /\ v <= n - 1
<1> PICK p : p = <<t, k>>
    OBVIOUS
<1>1. p \in Spends(TxsIn(s)) <=> \E i \in 1..n : p \in Inputs(c[i])
    BY Zenon DEF Prefix
<1>2. Len(c) \in Nat
    OBVIOUS
<1>3. ASSUME NEW i \in 1..Len(c), p \in Inputs(c[i]) PROVE v = i - 1 /\ v # NotSpent
    <2>1. SpendsOf(c, i, d)
        BY DEF ChainSpends
    <2>2. d.tx[p[1]].outputs[p[2]].spender = i - 1
        BY <1>3, <2>1 DEF SpendsOf
    <2>3. v = i - 1
        BY <2>2
    <2>4. c[i] \in Blocks /\ Height(c[i]) = i - 1
        <3>1. c[i] \in Blocks /\ Len(Chain[c[i]]) = i
            BY LinkedAt
        <3> QED BY <3>1 DEF Height
    <2>5. i - 1 < Unverified
        BY <2>4, LimitsAssumption
    <2> QED BY <2>3, <2>5, TransactionAssumption
<1>4. ASSUME p \in Spends(TxsIn(s)) PROVE v # NotSpent /\ v <= n - 1
    <2> PICK i \in 1..n : p \in Inputs(c[i])
        BY <1>1, <1>4
    <2>1. i \in 1..Len(c)
        BY <1>2
    <2>2. v = i - 1 /\ v # NotSpent
        BY <1>3, <2>1
    <2> QED BY <2>2
<1>5. ASSUME v # NotSpent, v <= n - 1 PROVE p \in Spends(TxsIn(s))
    <2>1. p \in Spends(TxsIn(c))
        BY <1>5 DEF ChainSpends
    <2> PICK i \in 1..Len(c) : p \in Inputs(c[i])
        BY <2>1, ChainInputs
    <2>2. v = i - 1
        BY <1>3
    <2>3. i \in 1..n
        BY <1>2, <1>5, <2>2
    <2> QED BY <1>1, <2>3
<1> QED BY <1>4, <1>5

(* get_output, without the cache.                                          *)
LEMMA UncachedOutput ==
    ASSUME NEW d, d.cache = EmptyCache, NEW t \in DOMAIN d.tx, NEW k \in Outputs(t), NEW fork
    PROVE  /\ OutputFound(d, <<t, k>>) <=> d.tx[t].height # 0 /\ k < OutputsOf[t]
           /\ Prevout(d, <<t, k>>, fork).confirmed <=> HasPosition(d.tx[t]) /\ d.tx[t].height <= fork
           /\ Prevout(d, <<t, k>>, fork).confirmedSpent <=>
                 /\ d.tx[t].outputs[k].spender # NotSpent
                 /\ d.tx[t].outputs[k].spender <= fork
<1> PICK p : p = <<t, k>>
    OBVIOUS
<1>1. p[1] = t /\ p[2] = k
    OBVIOUS
<1>2. ~Cached(d.cache, p)
    <2>1. DOMAIN EmptyCache.map = {}
        BY DEF EmptyCache
    <2> QED BY <2>1 DEF Cached
<1>3. OutputFound(d, p) <=> d.tx[t].height # 0 /\ k < OutputsOf[t]
    BY <1>1, <1>2 DEF OutputFound, HasOutput
<1>4. PICK a \in BOOLEAN : a <=> HasPosition(d.tx[t]) /\ d.tx[t].height <= fork
    OBVIOUS
<1>5. PICK b \in BOOLEAN : b <=> d.tx[t].outputs[k].spender # NotSpent /\ d.tx[t].outputs[k].spender <= fork
    OBVIOUS
<1>6. Prevout(d, p, fork) =
          [height |-> d.tx[t].height, candidate |-> d.tx[t].candidate,
           candidateSpent |-> d.tx[t].outputs[k].candidateSpent, confirmed |-> a, confirmedSpent |-> b]
    BY <1>1, <1>2, <1>4, <1>5 DEF Prevout
<1>7. Prevout(d, p, fork).confirmed = a /\ Prevout(d, p, fork).confirmedSpent = b
    BY <1>6
<1> QED BY <1>3, <1>4, <1>5, <1>7

(* An output above genesis is found.                                       *)
LEMMA AboveGenesisFound ==
    ASSUME NEW c \in Seq(Blocks), NEW d \in Tables, d.cache = EmptyCache, ChainRows(c, d), NEW n \in 1..Len(c),
           NEW s, Prefix(c, n, s), NEW first, Prefix(c, 1, first),
           NEW t \in TxsIn(s), t \notin TxsIn(first), NEW k \in Outputs(t)
    PROVE  t \in DOMAIN d.tx /\ OutputFound(d, <<t, k>>)
<1>1. PICK i \in 1..n : \E j \in 1..Len(TxsOf[c[i]]) : t = TxsOf[c[i]][j]
    BY Zenon DEF Prefix
<1>2. PICK j \in 1..Len(TxsOf[c[i]]) : t = TxsOf[c[i]][j]
    BY <1>1
<1>3. i \in 1..Len(c)
    OBVIOUS
<1>4. t \in DOMAIN d.tx /\ d.tx[t].height = i - 1
    BY <1>2, <1>3, RowAt
<1>5. i # 1
    <2> SUFFICES ASSUME i = 1 PROVE t \in TxsIn(first)
        OBVIOUS
    <2>1. i \in 1..1
        OBVIOUS
    <2> QED BY <1>2, <2>1, Zenon DEF Prefix
<1>6. d.tx[t].height # 0
    BY <1>4, <1>5
<1>7. k < OutputsOf[t]
    <2>1. OutputsOf[t] \in Nat
        BY <1>4, TableIs, CacheAssumption
    <2> QED BY <2>1 DEF Outputs
<1> QED BY <1>4, <1>6, <1>7, UncachedOutput

(* What get_output then says of it.                                        *)
LEMMA AnswerAt ==
    ASSUME NEW c \in Seq(Blocks), Linked(c), NEW d, d.cache = EmptyCache, ChainRows(c, d), ChainSpends(c, d),
           NEW n \in 1..Len(c), NEW s, Prefix(c, n, s), NEW fork, fork = n - 1,
           NEW t \in DOMAIN d.tx, NEW k \in Outputs(t)
    PROVE  /\ Prevout(d, <<t, k>>, fork).confirmed <=> t \in TxsIn(s)
           /\ Prevout(d, <<t, k>>, fork).confirmedSpent <=> <<t, k>> \in Spends(TxsIn(s))
<1>1. PICK v : v = d.tx[t].outputs[k].spender
    OBVIOUS
<1>2. /\ Prevout(d, <<t, k>>, fork).confirmed <=> HasPosition(d.tx[t]) /\ d.tx[t].height <= fork
      /\ Prevout(d, <<t, k>>, fork).confirmedSpent <=> v # NotSpent /\ v <= fork
    BY <1>1, UncachedOutput
<1>3. t \in TxsIn(s) <=> HasPosition(d.tx[t]) /\ d.tx[t].height <= n - 1
    BY ConfirmedExact
<1>4. <<t, k>> \in Spends(TxsIn(s)) <=> v # NotSpent /\ v <= n - 1
    BY <1>1, SpentExact
<1> QED BY <1>2, <1>3, <1>4

(* The answers of get_output.                                              *)
LEMMA AnswersExact == ASSUME Sound, Books PROVE UtxoExact
<1> PICK c \in Seq(Blocks) : c = store.index["confirmed"]
    BY DEF Sound, Good, IsStore, Indexes
<1> DEFINE db == [table EXCEPT !.cache = EmptyCache]
           stored == UNION {{t} \X Outputs(t) : t \in DOMAIN db.tx}
           found == {point \in stored : OutputFound(db, point)}
<1>1. conf = c /\ Linked(c) /\ Len(c) \in Nat /\ Top(c) = Len(c) - 1
    BY DEF Sound, Good, conf, Indexes, Top
<1>2. db \in Tables /\ db.tx = table.tx /\ db.cache = EmptyCache
    <2>1. CacheSet(table, EmptyCache, SetCache(table, EmptyCache))
        BY NothingCached, SetCacheDoes DEF Books, TableInv
    <2> QED BY <2>1 DEF CacheSet, SetCache
<1>3. ChainRows(c, db) /\ ChainSpends(c, db)
    <2>1. ChainRows(c, table) /\ ChainSpends(c, table)
        BY DEF Books, OnChain
    <2> QED BY <1>2, <2>1, OnChainSame
<1> HIDE DEF db
<1>4. \A p : p \in found <=> \E t \in DOMAIN db.tx : \E k \in Outputs(t) : p = <<t, k>> /\ OutputFound(db, p)
    OBVIOUS
<1> HIDE DEF found
<1>5. ASSUME NEW fork \in 0..Top(c), NEW s, s = SubSeq(c, 1, fork + 1), NEW first, first = SubSeq(c, 1, 1)
      PROVE  /\ \A t \in TxsIn(s) \ TxsIn(first) : {t} \X Outputs(t) \subseteq found
             /\ \A point \in found :
                   /\ Prevout(db, point, fork).confirmed <=> point[1] \in TxsIn(s)
                   /\ Prevout(db, point, fork).confirmedSpent <=> point \in Spends(TxsIn(s))
    <2> PICK n \in 1..Len(c) : n = fork + 1
        BY <1>1
    <2>1. Prefix(c, n, s) /\ Prefix(c, 1, first) /\ fork = n - 1
        <3>1. Prefix(c, n, s)
            BY <1>5, ChainUpTo
        <3> PICK one \in 1..Len(c) : one = 1
            BY <1>1
        <3>2. first = SubSeq(c, 1, one)
            BY <1>5
        <3>3. Prefix(c, one, first)
            BY <3>2, ChainUpTo
        <3> QED BY <3>1, <3>3
    <2>2. ASSUME NEW t \in TxsIn(s), t \notin TxsIn(first), NEW k \in Outputs(t)
          PROVE  <<t, k>> \in found
        <3>1. t \in DOMAIN db.tx /\ OutputFound(db, <<t, k>>)
            BY <1>2, <1>3, <2>1, <2>2, AboveGenesisFound
        <3> QED BY <1>4, <3>1
    <2>3. ASSUME NEW t \in DOMAIN db.tx, NEW k \in Outputs(t)
          PROVE  /\ Prevout(db, <<t, k>>, fork).confirmed <=> t \in TxsIn(s)
                 /\ Prevout(db, <<t, k>>, fork).confirmedSpent <=> <<t, k>> \in Spends(TxsIn(s))
        BY <1>1, <1>2, <1>3, <2>1, AnswerAt
    <2>4. ASSUME NEW t \in TxsIn(s) \ TxsIn(first) PROVE {t} \X Outputs(t) \subseteq found
        BY <2>2
    <2>5. ASSUME NEW point \in found
          PROVE  /\ Prevout(db, point, fork).confirmed <=> point[1] \in TxsIn(s)
                 /\ Prevout(db, point, fork).confirmedSpent <=> point \in Spends(TxsIn(s))
        <3> PICK t \in DOMAIN db.tx : \E k \in Outputs(t) : point = <<t, k>>
            BY <1>4
        <3> PICK k \in Outputs(t) : point = <<t, k>>
            OBVIOUS
        <3>1. point[1] = t
            OBVIOUS
        <3> QED BY <2>3, <3>1
    <2> QED BY <2>4, <2>5
<1>6. ASSUME NEW fork \in 0..Top(conf)
      PROVE  /\ \A t \in TxsIn(SubSeq(conf, 1, fork + 1)) \ TxsIn(SubSeq(conf, 1, 1)) :
                   {t} \X Outputs(t) \subseteq found
             /\ \A point \in found :
                   /\ Prevout(db, point, fork).confirmed <=> point[1] \in TxsIn(SubSeq(conf, 1, fork + 1))
                   /\ Prevout(db, point, fork).confirmedSpent <=>
                         point \in Spends(TxsIn(SubSeq(conf, 1, fork + 1)))
    <2>1. PICK s : s = SubSeq(c, 1, fork + 1)
        OBVIOUS
    <2>2. PICK first : first = SubSeq(c, 1, 1)
        OBVIOUS
    <2>3. fork \in 0..Top(c) /\ SubSeq(conf, 1, fork + 1) = s /\ SubSeq(conf, 1, 1) = first
        BY <1>1, <2>1, <2>2
    <2>4. /\ \A t \in TxsIn(s) \ TxsIn(first) : {t} \X Outputs(t) \subseteq found
          /\ \A point \in found :
                /\ Prevout(db, point, fork).confirmed <=> point[1] \in TxsIn(s)
                /\ Prevout(db, point, fork).confirmedSpent <=> point \in Spends(TxsIn(s))
        BY <1>5, <2>1, <2>2, <2>3
    <2> QED BY <2>3, <2>4
<1> QED BY <1>6, Zenon DEF UtxoExact, db, found

(* For any tree of blocks and any transactions in them, get_output answers *)
(* for every fork point what the confirmed chain says, in the middle of a  *)
(* reorganization, too (transaction_database.cpp, get_output, confirm,     *)
(* unconfirm).                                                             *)
THEOREM UtxoStaysExact == Spec => []UtxoExact
<1>1. Inv /\ Books => UtxoExact
    BY InvIs, AnswersExact
<1> QED BY BooksAlways, <1>1, PTL

(* No candidate mark outlives the blocks that own it, after a failed       *)
(* pop_header, too (data_base.cpp, pop_header; transaction_database.cpp,   *)
(* candidate, uncandidate).                                                *)
THEOREM MarksStayOwned == Spec => []MarksOwned
<1>1. Books => MarksOwned
    BY DEF Books, MarksIn, TxsOfBlocks, MarksOwned, cand
<1> QED BY BooksAlways, <1>1, PTL

(* What the cache says is confirmed is so, at the height where the chain   *)
(* has it, whatever the capacity of the cache (transaction_database.cpp,   *)
(* confirm, unconfirm; unspent_outputs.cpp, add, remove).                  *)
THEOREM CacheStaysOnChain == Spec => []CacheFollowsChain
<1>1. Inv /\ Books => CacheFollowsChain
    <2> SUFFICES ASSUME Inv, Books, NEW t \in DOMAIN table.cache.map, table.cache.map[t].confirmed
                 PROVE  /\ table.cache.map[t].height \in 0..Top(conf)
                        /\ t \in ToSet(TxsOf[At(conf, table.cache.map[t].height)])
        BY DEF CacheFollowsChain
    <2>1. CacheOn(conf, table.cache)
        BY DEF Books, OnChain, conf
    <2> QED BY <2>1 DEF CacheOn, Top, At
<1> QED BY BooksAlways, <1>1, PTL

(* The check that prevents duplicated indexing leaves out no transaction   *)
(* of a block that candidate() or push() made valid (data_base.cpp,        *)
(* catalog; transaction_database.cpp, get_block_metadata).                 *)
THEOREM PaymentsStayComplete == Spec => []AllCataloged
<1>1. Books => AllCataloged
    <2> SUFFICES ASSUME Books, NEW b \in DOMAIN blk, blk[b].validation = "valid"
                 PROVE  ToSet(TxsOf[b]) \ UNION {ToSet(TxsOf[p]) : p \in presumed} \subseteq payments
        BY DEF AllCataloged
    <2>1. ToSet(TxsOf[b]) \subseteq payments \cup UNION {ToSet(TxsOf[p]) : p \in presumed}
        BY DEF Books, ValidIn, Known, TxsOfBlocks, blk
    <2> QED BY <2>1
<1> QED BY BooksAlways, <1>1, PTL

(* Every variable of the database has its type: what is on the chains is a *)
(* sequence of blocks, a record of the transaction table is written whole, *)
(* and a spender or a height is a number (data_base.cpp;                   *)
(* transaction_database.cpp, storize, confirmize).                         *)
THEOREM TypesStayCorrect == Spec => []TypeOK
<1>1. Inv /\ Books => TypeOK
    <2> SUFFICES ASSUME Inv, Books PROVE TypeOK
        OBVIOUS
    <2>1. debug \in BOOLEAN /\ IsStore(store) /\ call \in CallType
        BY DEF Inv, TypeInv
    <2>2. /\ DOMAIN blk \subseteq Blocks /\ \A b \in DOMAIN blk : blk[b] \in BlockStates
          /\ cand \in Seq(Blocks) /\ conf \in Seq(Blocks)
        BY <2>1 DEF IsStore, blk, cand, conf, Indexes
    <2>3. call.name \in Indexes \cup {"none", "failed"}
        BY <2>1 DEF CallType
    <2>4. DOMAIN table.tx \subseteq Txs /\ \A t \in DOMAIN table.tx : table.tx[t] \in Rows(t)
        BY TableIs DEF Books, TableInv
    <2>5. \A t \in DOMAIN table.tx :
             table.tx[t] \in [height : HeightValues, position : Nat, candidate : BOOLEAN,
                              outputs : [Outputs(t) -> [candidateSpent : BOOLEAN, spender : Nat]]]
        BY <2>4, Zenon DEF Rows, Marks, Flags
    <2>6. aborted \in BOOLEAN /\ displaced \subseteq Blocks
        BY <2>2 DEF Inv, TypeInv
    <2> QED BY <2>1, <2>2, <2>3, <2>4, <2>5, <2>6 DEF TypeOK, Books, TableInv
<1> QED BY BooksAlways, <1>1, PTL

-----------------------------------------------------------------------------
(* The cache on its own.                                                   *)

(* CircularByAge is not inductive: that sequence_ is the greatest number   *)
(* given out makes the next one greater than all.                          *)
CacheInv ==
    /\ cache \in Caches /\ IsFiniteSet(DOMAIN cache.map)
    /\ cache.sequence <= MaxSequence
    /\ \A t \in DOMAIN cache.map : cache.map[t].sequence <= cache.sequence
    /\ CircularByAge
    /\ SpentStaysOut

(* There is an oldest entry.                                               *)
LEMMA OldestExists ==
    ASSUME NEW m, DOMAIN m # {}, \A t \in DOMAIN m : m[t].sequence \in Nat
    PROVE  Oldest(m) \in DOMAIN m
<1> DEFINE T == {m[t].sequence : t \in DOMAIN m}
<1>1. T \subseteq Nat /\ T # {}
    OBVIOUS
<1>2. PICK n \in T : \A k \in T : n <= k
    BY <1>1, Least
<1>3. PICK t \in DOMAIN m : n = m[t].sequence
    OBVIOUS
<1>4. \A u \in DOMAIN m : m[t].sequence <= m[u].sequence
    BY <1>2, <1>3
<1> HIDE DEF T
<1> QED BY <1>4, Zenon DEF Oldest

(* Room for one more leaves less than the capacity, of the entries before, *)
(* and none when sequence_ is at its end.                                  *)
LEMMA RoomLeft ==
    ASSUME CacheInv, CacheCapacity > 0
    PROVE  /\ DOMAIN Room(cache) \subseteq DOMAIN cache.map
           /\ \A t \in DOMAIN Room(cache) : Room(cache)[t] = cache.map[t]
           /\ IsFiniteSet(DOMAIN Room(cache))
           /\ Cardinality(DOMAIN Room(cache)) < CacheCapacity
           /\ cache.sequence = MaxSequence => DOMAIN Room(cache) = {}
<1> DEFINE map == IF cache.sequence = MaxSequence THEN <<>> ELSE cache.map
<1>1. /\ IsFiniteSet(DOMAIN cache.map) /\ Cardinality(DOMAIN cache.map) <= CacheCapacity
      /\ CacheCapacity \in Nat /\ Cardinality(DOMAIN cache.map) \in Nat
    BY CacheAssumption, FS_CardinalityType DEF CacheInv, CircularByAge
<1>2. \A t \in DOMAIN cache.map : cache.map[t].sequence \in Nat
    BY CacheIs DEF CacheInv, Entries
<1>3. DOMAIN <<>> = {} /\ Cardinality({}) = 0 /\ IsFiniteSet({})
    BY FS_EmptySet
<1>4. CASE cache.sequence = MaxSequence
    <2>1. Room(cache) = <<>>
        BY <1>1, <1>3, <1>4 DEF Room
    <2> QED BY <1>1, <1>3, <2>1
<1>5. CASE cache.sequence # MaxSequence /\ Cardinality(DOMAIN cache.map) < CacheCapacity
    <2>1. Room(cache) = cache.map
        BY <1>1, <1>5 DEF Room
    <2> QED BY <1>1, <1>5, <2>1
<1>6. CASE cache.sequence # MaxSequence /\ Cardinality(DOMAIN cache.map) = CacheCapacity
    <2> PICK o : o = Oldest(cache.map)
        OBVIOUS
    <2>1. Room(cache) = [t \in DOMAIN cache.map \ {o} |-> cache.map[t]]
        BY <1>1, <1>6 DEF Room, Without, Restrict
    <2>2. DOMAIN cache.map # {}
        BY <1>1, <1>3, <1>6
    <2>3. o \in DOMAIN cache.map
        BY <1>2, <2>2, OldestExists
    <2>4. /\ IsFiniteSet(DOMAIN cache.map \ {o})
          /\ Cardinality(DOMAIN cache.map \ {o}) = Cardinality(DOMAIN cache.map) - 1
        BY <1>1, <2>3, FS_RemoveElement
    <2>5. DOMAIN Room(cache) = DOMAIN cache.map \ {o}
        BY <2>1
    <2>6. \A t \in DOMAIN Room(cache) : Room(cache)[t] = cache.map[t]
        BY <2>1
    <2> QED BY <1>1, <1>6, <2>4, <2>5, <2>6
<1> QED BY <1>1, <1>4, <1>5, <1>6

(* The history keeps the pairs of what stays in the cache.                 *)
LEMMA OrderKept ==
    ASSUME CacheInv, cache' \in Caches, older' = StillCached(older),
           DOMAIN cache'.map \subseteq DOMAIN cache.map,
           \A t \in DOMAIN cache'.map : cache'.map[t].sequence = cache.map[t].sequence,
           cache.sequence <= cache'.sequence, cache'.sequence <= MaxSequence
    PROVE  /\ CircularByAge'
           /\ IsFiniteSet(DOMAIN cache'.map)
           /\ \A t \in DOMAIN cache'.map : cache'.map[t].sequence <= cache'.sequence
<1>1. /\ IsFiniteSet(DOMAIN cache.map) /\ Cardinality(DOMAIN cache.map) <= CacheCapacity
      /\ CacheCapacity \in Nat /\ Cardinality(DOMAIN cache.map) \in Nat
    BY CacheAssumption, FS_CardinalityType DEF CacheInv, CircularByAge
<1>2. IsFiniteSet(DOMAIN cache'.map) /\ Cardinality(DOMAIN cache'.map) <= Cardinality(DOMAIN cache.map)
    BY <1>1, FS_Subset
<1>3. Cardinality(DOMAIN cache'.map) \in Nat
    BY <1>2, FS_CardinalityType
<1>4. ASSUME NEW t \in DOMAIN cache'.map, NEW u \in DOMAIN cache'.map
      PROVE  <<t, u>> \in older' <=> <<t, u>> \in older
    BY <1>4 DEF StillCached
<1>5. ASSUME NEW t \in DOMAIN cache'.map, NEW u \in DOMAIN cache'.map
      PROVE  /\ <<t, u>> \in older' <=> cache'.map[t].sequence < cache'.map[u].sequence
             /\ t # u => <<t, u>> \in older' \/ <<u, t>> \in older'
    BY <1>4, <1>5 DEF CacheInv, CircularByAge
<1>6. Cardinality(DOMAIN cache'.map) <= CacheCapacity
    BY <1>1, <1>2, <1>3
<1>7. CircularByAge'
    BY <1>5, <1>6 DEF CircularByAge
<1>8. ASSUME NEW t \in DOMAIN cache'.map PROVE cache'.map[t].sequence <= cache'.sequence
    <2>1. t \in DOMAIN cache.map /\ cache.map[t].sequence <= cache.sequence
        BY DEF CacheInv
    <2>2. cache.map[t].sequence \in Nat /\ cache.sequence \in Nat /\ cache'.sequence \in Nat
        BY <2>1, CacheIs DEF CacheInv, Entries
    <2> QED BY <2>1, <2>2
<1> QED BY <1>2, <1>7, <1>8

LEMMA DropInv ==
    ASSUME CacheInv, NEW tx \in Txs, Drop(tx)
    PROVE  CacheInv'
<1>1. /\ cache = [map |-> cache.map, sequence |-> cache.sequence]
      /\ DOMAIN cache.map \subseteq Txs
      /\ \A t \in DOMAIN cache.map : cache.map[t] \in Entries
      /\ cache.sequence \in Nat
    BY CacheIs DEF CacheInv
<1>2. cache' = [map |-> [t \in DOMAIN cache.map \ {tx} |-> cache.map[t]], sequence |-> cache.sequence]
    BY <1>1 DEF Drop, RemoveTx, Without, Restrict
<1>3. /\ DOMAIN cache'.map = DOMAIN cache.map \ {tx} /\ cache'.sequence = cache.sequence
      /\ \A t \in DOMAIN cache'.map : cache'.map[t] = cache.map[t]
    BY <1>2
<1>4. cache' \in Caches
    <2> DEFINE S == DOMAIN cache.map \ {tx}
               m == [t \in S |-> cache.map[t]]
    <2>1. S \in SUBSET Txs /\ m = [t \in S |-> m[t]] /\ \A t \in S : m[t] \in Entries
        BY <1>1
    <2> HIDE DEF m
    <2>2. [map |-> m, sequence |-> cache.sequence] \in Caches
        BY <1>1, <2>1, CacheOf
    <2> QED BY <1>2, <2>2 DEF m
<1>5. spent' = spent /\ older' = StillCached(older)
    BY DEF Drop
<1>6. SpentStaysOut'
    BY <1>3, <1>5 DEF CacheInv, SpentStaysOut
<1> QED BY <1>1, <1>3, <1>4, <1>5, <1>6, OrderKept DEF CacheInv

LEMMA SpendInv ==
    ASSUME CacheInv, NEW point \in Points, Spend(point)
    PROVE  CacheInv'
<1> DEFINE tx == point[1]
           left == cache.map[tx].outputs \ {point[2]}
<1>1. /\ cache = [map |-> cache.map, sequence |-> cache.sequence]
      /\ DOMAIN cache.map \subseteq Txs
      /\ \A t \in DOMAIN cache.map : cache.map[t] \in Entries
      /\ cache.sequence \in Nat
    BY CacheIs DEF CacheInv
<1>2. point = <<tx, point[2]>>
    BY DEF Points
<1>3. spent' = spent \cup {point} /\ older' = StillCached(older)
    BY DEF Spend
<1>4. \A t, i : <<t, i>> \notin spent' <=> <<t, i>> \notin spent /\ ~(t = tx /\ i = point[2])
    BY <1>2, <1>3
<1>5. CASE tx \notin DOMAIN cache.map
    <2>1. cache' = cache
        BY <1>5 DEF Spend, RemovePoint
    <2>2. SpentStaysOut'
        BY <1>4, <1>5, <2>1 DEF CacheInv, SpentStaysOut
    <2> QED BY <1>1, <1>3, <2>1, <2>2, OrderKept DEF CacheInv
<1>6. CASE tx \in DOMAIN cache.map /\ left = {}
    <2>1. cache' = RemoveTx(cache, tx)
        BY <1>6 DEF Spend, RemovePoint
    <2>2. cache' = [map |-> [t \in DOMAIN cache.map \ {tx} |-> cache.map[t]], sequence |-> cache.sequence]
        BY <1>1, <2>1 DEF RemoveTx, Without, Restrict
    <2>3. /\ DOMAIN cache'.map = DOMAIN cache.map \ {tx} /\ cache'.sequence = cache.sequence
          /\ \A t \in DOMAIN cache'.map : cache'.map[t] = cache.map[t]
        BY <2>2
    <2>4. cache' \in Caches
        BY <2>1, RemoveTxDoes DEF EntriesLeft, CacheInv
    <2>5. SpentStaysOut'
        BY <1>4, <2>3 DEF CacheInv, SpentStaysOut
    <2> QED BY <1>1, <1>3, <2>3, <2>4, <2>5, OrderKept DEF CacheInv
<1>7. CASE tx \in DOMAIN cache.map /\ left # {}
    <2>1. cache' = [cache EXCEPT !.map[tx].outputs = left]
        BY <1>7 DEF Spend, RemovePoint
    <2> DEFINE entry == [cache.map[tx] EXCEPT !.outputs = left]
               map == [t \in DOMAIN cache.map |-> IF t = tx THEN entry ELSE cache.map[t]]
    <2>2. cache.map[tx] \in Entries /\ left \in SUBSET Nat
        BY <1>1, <1>7 DEF Entries
    <2>3. entry \in Entries /\ entry.outputs = left /\ entry.sequence = cache.map[tx].sequence
        BY <2>2 DEF Entries
    <2>4. cache' = [map |-> map, sequence |-> cache.sequence]
        <3>1. cache.map = [t \in DOMAIN cache.map |-> cache.map[t]]
            BY DEF CacheInv, Caches
        <3> QED BY <1>1, <1>7, <2>1, <3>1
    <2> HIDE DEF entry
    <2>5. /\ DOMAIN map = DOMAIN cache.map /\ map = [t \in DOMAIN map |-> map[t]] /\ map[tx] = entry
          /\ \A t \in DOMAIN cache.map : t # tx => map[t] = cache.map[t]
        BY <1>7
    <2> HIDE DEF map
    <2>6. \A t \in DOMAIN map : map[t] \in Entries
        BY <1>1, <2>3, <2>5
    <2>7. cache' \in Caches /\ cache'.map = map /\ cache'.sequence = cache.sequence
        <3> PICK S \in SUBSET Txs : S = DOMAIN map
            BY <1>1, <2>5
        <3>1. [map |-> map, sequence |-> cache.sequence] \in Caches
            BY <1>1, <2>5, <2>6, CacheOf
        <3> QED BY <2>4, <3>1
    <2>8. \A t \in DOMAIN map : map[t].sequence = cache.map[t].sequence
        BY <2>3, <2>5
    <2>9. SpentStaysOut'
        <3>1. ASSUME NEW t \in DOMAIN map
              PROVE  /\ map[t].outputs = {i \in 0..(OutputsOf[t] - 1) : <<t, i>> \notin spent'}
                     /\ map[t].outputs # {}
            <4>1. t \in DOMAIN cache.map
                  /\ cache.map[t].outputs = {i \in 0..(OutputsOf[t] - 1) : <<t, i>> \notin spent}
                  /\ cache.map[t].outputs # {}
                BY <2>5 DEF CacheInv, SpentStaysOut
            <4>2. CASE t = tx
                BY <1>4, <1>7, <2>3, <2>5, <4>1, <4>2
            <4>3. CASE t # tx
                BY <1>4, <2>5, <4>1, <4>3
            <4> QED BY <4>2, <4>3
        <3> QED BY <2>7, <3>1 DEF SpentStaysOut
    <2> QED BY <1>1, <1>3, <2>5, <2>7, <2>8, <2>9, OrderKept DEF CacheInv
<1> QED BY <1>5, <1>6, <1>7

(* An add that enters a transaction gives it the greatest number.          *)
LEMMA EnterInv ==
    ASSUME CacheInv, NEW tx \in Txs, NEW height \in Heights, NEW confirmed \in Flags,
           Add(tx, height, confirmed), CacheCapacity > 0, OutputsOf[tx] > 0, tx \notin DOMAIN Room(cache)
    PROVE  CacheInv'
<1> DEFINE sequence == (cache.sequence + 1) % (MaxSequence + 1)
           entry == Entry(tx, height, confirmed, sequence)
           room == Room(cache)
           S == DOMAIN room \cup {tx}
           map == [t \in S |-> IF t \in DOMAIN room THEN room[t] ELSE entry]
<1>1. /\ DOMAIN cache.map \subseteq Txs
      /\ \A t \in DOMAIN cache.map : cache.map[t] \in Entries /\ cache.map[t].sequence \in Nat
      /\ cache.sequence \in Nat
    BY CacheIs DEF CacheInv, Entries
<1>2. cache' = [sequence |-> sequence, map |-> map]
    BY CacheAssumption DEF Add, AddTx, Disabled
<1>3. /\ older' = StillCached({p \in older : tx \notin {p[1], p[2]}} \cup {<<t, tx>> : t \in DOMAIN room})
      /\ spent' = {p \in spent : p[1] # tx}
    <2>1. CacheCapacity # 0
        BY CacheAssumption
    <2> QED BY <2>1, Zenon DEF Add, Disabled
<1>4. /\ DOMAIN room \subseteq DOMAIN cache.map
      /\ \A t \in DOMAIN room : room[t] = cache.map[t]
      /\ IsFiniteSet(DOMAIN room) /\ Cardinality(DOMAIN room) < CacheCapacity
      /\ cache.sequence = MaxSequence => DOMAIN room = {}
    BY RoomLeft
<1>5. /\ sequence \in Nat /\ sequence <= MaxSequence
      /\ cache.sequence # MaxSequence => sequence = cache.sequence + 1
    <2>1. cache.sequence <= MaxSequence /\ MaxSequence \in Nat
        BY CacheAssumption DEF CacheInv
    <2>2. CASE cache.sequence = MaxSequence
        <3>1. (MaxSequence + 1) % (MaxSequence + 1) = 0
            BY <2>1
        <3> QED BY <2>1, <2>2, <3>1
    <2>3. CASE cache.sequence # MaxSequence
        BY <1>1, <2>1, <2>3
    <2> QED BY <2>2, <2>3
<1> HIDE DEF sequence
<1>6. entry \in Entries /\ entry.sequence = sequence /\ entry.outputs = 0..(OutputsOf[tx] - 1)
    <2>1. height \in Nat /\ OutputsOf[tx] \in Nat
        BY HeightsAssumption, CacheAssumption
    <2>2. 0..(OutputsOf[tx] - 1) \in SUBSET Nat
        BY <2>1
    <2> QED BY <1>5, <2>1, <2>2 DEF Entry, Entries
<1> HIDE DEF entry, room
<1>7. /\ DOMAIN map = S /\ map = [t \in S |-> map[t]] /\ map[tx] = entry
      /\ \A t \in DOMAIN room : map[t] = cache.map[t]
    BY <1>4 DEF room
<1>8. S \in SUBSET Txs /\ \A t \in S : t # tx <=> t \in DOMAIN room
    BY <1>1, <1>4 DEF room
<1>9. \A t \in DOMAIN room : map[t].sequence \in Nat /\ map[t].sequence < sequence
    <2>1. ASSUME NEW t \in DOMAIN room PROVE map[t].sequence \in Nat /\ map[t].sequence < sequence
        <3>1. map[t] = cache.map[t] /\ t \in DOMAIN cache.map
            BY <1>4, <1>7
        <3>2. cache.sequence # MaxSequence
            BY <1>4
        <3>3. cache.map[t].sequence \in Nat /\ cache.map[t].sequence <= cache.sequence
            BY <1>1, <3>1 DEF CacheInv
        <3> QED BY <1>1, <1>5, <3>1, <3>2, <3>3
    <2> QED BY <2>1
<1> HIDE DEF map
<1>10. cache' \in Caches /\ cache'.map = map /\ cache'.sequence = sequence
    <2>1. \A t \in S : map[t] \in Entries
        BY <1>1, <1>4, <1>6, <1>7, <1>8
    <2>2. [map |-> map, sequence |-> sequence] \in Caches
        BY <1>5, <1>7, <1>8, <2>1, CacheOf
    <2> QED BY <1>2, <2>2
<1>11. IsFiniteSet(S) /\ Cardinality(S) <= CacheCapacity
    <2>1. IsFiniteSet(S) /\ Cardinality(S) = Cardinality(DOMAIN room) + 1
        BY <1>4, FS_AddElement DEF room
    <2>2. Cardinality(DOMAIN room) \in Nat /\ CacheCapacity \in Nat
        BY <1>4, FS_CardinalityType, CacheAssumption
    <2> QED BY <1>4, <2>1, <2>2
<1>12. \A t \in S : map[t].sequence \in Nat /\ map[t].sequence <= sequence
    BY <1>5, <1>6, <1>7, <1>8, <1>9
<1>13. ASSUME NEW t \in S, NEW u \in S
       PROVE  /\ <<t, u>> \in older' <=> map[t].sequence < map[u].sequence
              /\ t # u => <<t, u>> \in older' \/ <<u, t>> \in older'
    <2>1. \A p, q \in S : <<p, q>> \in older' <=>
              \/ <<p, q>> \in older /\ tx # p /\ tx # q
              \/ q = tx /\ p \in DOMAIN room
        BY <1>3, <1>7, <1>10 DEF StillCached
    <2>2. CASE t # tx /\ u # tx
        <3>1. /\ t \in DOMAIN cache.map /\ map[t] = cache.map[t]
              /\ u \in DOMAIN cache.map /\ map[u] = cache.map[u]
            BY <1>4, <1>7, <1>8, <2>2
        <3> QED BY <2>1, <2>2, <3>1 DEF CacheInv, CircularByAge
    <2>3. CASE t # tx /\ u = tx
        BY <1>6, <1>7, <1>8, <1>9, <2>1, <2>3
    <2>4. CASE t = tx /\ u # tx
        <3>1. map[u].sequence < map[t].sequence /\ map[u].sequence \in Nat /\ map[t].sequence \in Nat
            BY <1>5, <1>6, <1>7, <1>8, <1>9, <2>4
        <3> QED BY <1>8, <2>1, <2>4, <3>1
    <2>5. CASE t = tx /\ u = tx
        BY <1>8, <1>12, <2>1, <2>5
    <2> QED BY <2>2, <2>3, <2>4, <2>5
<1>14. CircularByAge'
    BY <1>7, <1>10, <1>11, <1>13 DEF CircularByAge
<1>15. SpentStaysOut'
    <2>1. ASSUME NEW t \in S
          PROVE  /\ map[t].outputs = {i \in 0..(OutputsOf[t] - 1) : <<t, i>> \notin spent'}
                 /\ map[t].outputs # {}
        <3>1. CASE t = tx
            <4>1. \A i : <<t, i>> \notin spent'
                BY <1>3, <3>1
            <4>2. OutputsOf[tx] \in Nat /\ 0 \in 0..(OutputsOf[tx] - 1)
                BY CacheAssumption
            <4> QED BY <1>6, <1>7, <3>1, <4>1, <4>2
        <3>2. CASE t # tx
            <4>1. t \in DOMAIN cache.map /\ map[t] = cache.map[t]
                BY <1>4, <1>7, <1>8, <3>2
            <4>2. \A i : <<t, i>> \notin spent' <=> <<t, i>> \notin spent
                BY <1>3, <3>2
            <4> QED BY <4>1, <4>2 DEF CacheInv, SpentStaysOut
        <3> QED BY <3>1, <3>2
    <2> QED BY <1>7, <1>10, <2>1 DEF SpentStaysOut
<1> QED BY <1>5, <1>7, <1>10, <1>11, <1>12, <1>14, <1>15 DEF CacheInv

LEMMA AddInv ==
    ASSUME CacheInv, NEW tx \in Txs, NEW height \in Heights, NEW confirmed \in Flags,
           Add(tx, height, confirmed)
    PROVE  CacheInv'
<1>1. CacheCapacity \in Nat /\ OutputsOf[tx] \in Nat
    BY CacheAssumption
<1>2. CASE CacheCapacity = 0 \/ OutputsOf[tx] = 0
    <2>1. ~(~Disabled /\ OutputsOf[tx] > 0)
        BY <1>1, <1>2 DEF Disabled
    <2>2. older' = StillCached(older) /\ spent' = spent
        BY <2>1, Zenon DEF Add
    <2>3. cache' = cache
        BY <1>2 DEF Add, AddTx, Disabled
    <2>4. SpentStaysOut'
        BY <2>2, <2>3 DEF CacheInv, SpentStaysOut
    <2>5. cache.sequence \in Nat
        BY CacheIs DEF CacheInv
    <2> QED BY <2>2, <2>3, <2>4, <2>5, OrderKept DEF CacheInv
<1>3. CASE CacheCapacity > 0 /\ OutputsOf[tx] > 0 /\ tx \notin DOMAIN Room(cache)
    BY <1>3, EnterInv
<1>4. CASE CacheCapacity > 0 /\ OutputsOf[tx] > 0 /\ tx \in DOMAIN Room(cache)
    <2> DEFINE sequence == (cache.sequence + 1) % (MaxSequence + 1)
               room == Room(cache)
    <2>1. older' = StillCached(older) /\ spent' = spent
        BY <1>4, Zenon DEF Add
    <2>2. /\ DOMAIN room \subseteq DOMAIN cache.map
          /\ \A t \in DOMAIN room : room[t] = cache.map[t]
          /\ cache.sequence # MaxSequence
        BY <1>4, RoomLeft
    <2>3. /\ DOMAIN cache.map \subseteq Txs
          /\ \A t \in DOMAIN cache.map : cache.map[t] \in Entries
          /\ cache.sequence \in Nat
        BY CacheIs DEF CacheInv
    <2>4. sequence = cache.sequence + 1 /\ sequence <= MaxSequence
        <3>1. cache.sequence < MaxSequence /\ MaxSequence \in Nat
            BY <2>2, <2>3, CacheAssumption DEF CacheInv
        <3> QED BY <2>3, <3>1
    <2>5. cache' = [sequence |-> sequence, map |-> [t \in DOMAIN room |-> cache.map[t]]]
        <3>1. DOMAIN room \cup {tx} = DOMAIN room
            BY <1>4
        <3> QED BY <1>4, <2>2, <3>1 DEF Add, AddTx, Disabled
    <2> HIDE DEF sequence, room
    <2>6. /\ DOMAIN cache'.map = DOMAIN room /\ cache'.sequence = sequence
          /\ \A t \in DOMAIN cache'.map : cache'.map[t] = cache.map[t]
        BY <2>5
    <2>7. cache' \in Caches
        <3> DEFINE m == [t \in DOMAIN room |-> cache.map[t]]
        <3> PICK S \in SUBSET Txs : S = DOMAIN room
            BY <2>2, <2>3
        <3>1. m = [t \in S |-> m[t]] /\ \A t \in S : m[t] \in Entries
            BY <2>2, <2>3
        <3> HIDE DEF m
        <3>2. [map |-> m, sequence |-> sequence] \in Caches
            BY <2>3, <2>4, <3>1, CacheOf
        <3> QED BY <2>5, <3>2 DEF m
    <2>8. SpentStaysOut'
        BY <2>1, <2>2, <2>6 DEF CacheInv, SpentStaysOut
    <2> QED BY <2>1, <2>2, <2>3, <2>4, <2>6, <2>7, <2>8, OrderKept DEF CacheInv
<1> QED BY <1>1, <1>2, <1>3, <1>4

LEMMA CacheAlways == CacheSpec => []CacheInv
<1>1. CacheInit => CacheInv
    <2> SUFFICES ASSUME CacheInit PROVE CacheInv
        OBVIOUS
    <2>1. cache.map = <<>> /\ cache.sequence = 0 /\ DOMAIN cache.map = {}
        BY DEF CacheInit, EmptyCache
    <2>2. cache \in Caches
        BY NothingCached DEF CacheInit
    <2> QED BY <2>1, <2>2, FS_EmptySet, CacheAssumption DEF CacheInv, CircularByAge, SpentStaysOut
<1>2. CacheInv /\ [CacheNext]_cacheVars => CacheInv'
    <2> SUFFICES ASSUME CacheInv, [CacheNext]_cacheVars PROVE CacheInv'
        OBVIOUS
    <2>1. ASSUME NEW tx \in Txs, NEW height \in Heights, NEW confirmed \in BOOLEAN,
                 Add(tx, height, confirmed)
          PROVE  CacheInv'
        BY <2>1, AddInv DEF Flags
    <2>2. ASSUME NEW tx \in Txs, Drop(tx) PROVE CacheInv'
        BY <2>2, DropInv
    <2>3. ASSUME NEW point \in Points, Spend(point) PROVE CacheInv'
        BY <2>3, SpendInv
    <2>4. CASE UNCHANGED cacheVars
        BY <2>4 DEF cacheVars, CacheInv, CircularByAge, SpentStaysOut
    <2> QED BY <2>1, <2>2, <2>3, <2>4 DEF CacheNext
<1> QED BY <1>1, <1>2, PTL DEF CacheSpec

(* unspent_outputs::add keeps the cache within its capacity, and gives the *)
(* entries sequence numbers in the order in which they came in, for any    *)
(* capacity and also when sequence_ wraps around.                          *)
THEOREM CacheStaysCircular == CacheSpec => []CircularByAge
<1>1. CacheInv => CircularByAge
    BY DEF CacheInv
<1> QED BY <1>1, CacheAlways, PTL

(* An entry of unspent_outputs has exactly the outputs that remove(point)  *)
(* has not taken since it was inserted, and at least one.                  *)
THEOREM SpentStaysRemoved == CacheSpec => []SpentStaysOut
<1>1. CacheInv => SpentStaysOut
    BY DEF CacheInv
<1> QED BY <1>1, CacheAlways, PTL
=============================================================================
