------------------------ MODULE TransactionIndex_proof ------------------------
(***************************************************************************)
(* Committed associations survive parallel updates and restarts, for any   *)
(* number of threads and blocks of any size.                               *)
(*                                                                         *)
(* DurableIntact is not inductive: it rests on who owns which records.     *)
(* Every update in progress owns the records it has allocated, and every   *)
(* block updated in this session or committed owns the records it points   *)
(* to; the owners' records do not overlap, and those of the committed      *)
(* blocks are within the count in the file, to which a restart returns.    *)
(***************************************************************************)
EXTENDS TransactionIndex, TLAPS

Kept == fresh \cup durable

Apart(x, n, y, m) == x + n <= y \/ y + m <= x

Holds(s, b) == \A i \in 0..(SizeOf[b] - 1) : index[s + i] = <<b, i>>

IdleInv == \A t \in Threads : pc[t] = "idle" => block[t] = NoBlock

BusyInv ==
    \A t \in Threads : pc[t] # "idle" =>
        /\ block[t] \in Blocks
        /\ txCount[block[t]] = 0
        /\ start[t] + SizeOf[block[t]] <= count
        /\ pc[t] = "associate" => Holds(start[t], block[t])

ThreadsApart ==
    \A t, u \in Threads : t # u /\ pc[t] # "idle" /\ pc[u] # "idle" =>
        /\ block[t] # block[u]
        /\ Apart(start[t], SizeOf[block[t]], start[u], SizeOf[block[u]])

KeptInv ==
    \A b \in Kept :
        /\ txCount[b] = SizeOf[b]
        /\ txStart[b] + SizeOf[b] <= count
        /\ Holds(txStart[b], b)

DurableInv ==
    /\ committed <= count
    /\ \A b \in durable : txStart[b] + SizeOf[b] <= committed

KeptApart ==
    \A b \in Kept, t \in Threads : pc[t] # "idle" =>
        Apart(txStart[b], SizeOf[b], start[t], SizeOf[block[t]])

Inv ==
    /\ TypeOK
    /\ IdleInv
    /\ BusyInv
    /\ ThreadsApart
    /\ KeptInv
    /\ DurableInv
    /\ KeptApart

-----------------------------------------------------------------------------
(* Initially nothing is owned.                                             *)
LEMMA InitInv == Init => Inv
<1> SUFFICES ASSUME Init PROVE Inv
    OBVIOUS
<1> USE IndexAssumption DEF Init
<1>1. TypeOK
    <2>1. index \in [Records -> (Blocks \cup {NoBlock}) \X Nat]
        OBVIOUS
    <2> QED BY <2>1 DEF TypeOK
<1>2. IdleInv /\ BusyInv /\ ThreadsApart
    BY DEF IdleInv, BusyInv, ThreadsApart
<1>3. KeptInv /\ DurableInv /\ KeptApart
    BY DEF KeptInv, DurableInv, KeptApart, Kept
<1> QED BY <1>1, <1>2, <1>3 DEF Inv

(* An allocation takes records past the count: apart from all owned ones.  *)
LEMMA AllocateInv == ASSUME Inv, NEW t \in Threads, NEW b \in Blocks, Allocate(t, b)
                     PROVE  Inv'
<1> USE IndexAssumption DEF Inv, Allocate
<1>0. SizeOf[b] \in Nat /\ SizeOf[b] > 0 /\ count \in Nat /\ count' \in Nat /\ count <= count'
    BY DEF TypeOK
<1>1. TypeOK'
    BY <1>0 DEF TypeOK
<1>2. IdleInv'
    BY DEF IdleInv, TypeOK
<1>3. BusyInv'
    <2> SUFFICES ASSUME NEW u \in Threads, pc'[u] # "idle"
                 PROVE  /\ block'[u] \in Blocks
                        /\ txCount[block'[u]] = 0
                        /\ start'[u] + SizeOf[block'[u]] <= count'
                        /\ pc'[u] = "associate" => Holds(start'[u], block'[u])
        BY DEF BusyInv, Holds
    <2>1. CASE u = t
        BY <2>1, <1>0 DEF TypeOK
    <2>2. CASE u # t
        <3>1. pc'[u] = pc[u] /\ block'[u] = block[u] /\ start'[u] = start[u]
            BY <2>2 DEF TypeOK
        <3>2. start[u] \in Nat /\ SizeOf[block[u]] \in Nat
            BY <3>1 DEF TypeOK, BusyInv
        <3>3. start[u] + SizeOf[block[u]] <= count /\ txCount[block[u]] = 0 /\ block[u] \in Blocks
            BY <3>1 DEF BusyInv
        <3>4. start[u] + SizeOf[block[u]] <= count'
            BY <3>2, <3>3, <1>0
        <3>5. pc[u] = "associate" => Holds(start[u], block[u])
            BY DEF BusyInv
        <3> QED BY <3>1, <3>3, <3>4, <3>5
    <2> QED BY <2>1, <2>2
<1>4. ThreadsApart'
    <2> SUFFICES ASSUME NEW u \in Threads, NEW v \in Threads, u # v,
                        pc'[u] # "idle", pc'[v] # "idle"
                 PROVE  /\ block'[u] # block'[v]
                        /\ Apart(start'[u], SizeOf[block'[u]], start'[v], SizeOf[block'[v]])
        BY DEF ThreadsApart, Apart
    <2>1. \A w \in Threads : w # t =>
             pc'[w] = pc[w] /\ block'[w] = block[w] /\ start'[w] = start[w] /\ start[w] \in Nat
        BY DEF TypeOK
    <2>2. pc'[t] = "write" /\ block'[t] = b /\ start'[t] = count
        BY DEF TypeOK
    <2>3. CASE u = t
        <3>1. v # t /\ pc[v] # "idle" /\ block[v] # b
            BY <2>3, <2>1
        <3>2. start[v] + SizeOf[block[v]] <= count
            BY <3>1 DEF BusyInv
        <3> QED BY <2>1, <2>2, <2>3, <3>1, <3>2 DEF Apart
    <2>4. CASE v = t
        <3>1. u # t /\ pc[u] # "idle" /\ block[u] # b
            BY <2>4, <2>1
        <3>2. start[u] + SizeOf[block[u]] <= count
            BY <3>1 DEF BusyInv
        <3> QED BY <2>1, <2>2, <2>4, <3>1, <3>2 DEF Apart
    <2>5. CASE u # t /\ v # t
        BY <2>1, <2>5 DEF ThreadsApart
    <2> QED BY <2>3, <2>4, <2>5
<1>5. KeptInv'
    <2> SUFFICES ASSUME NEW c \in Kept
                 PROVE  txCount[c] = SizeOf[c] /\ txStart[c] + SizeOf[c] <= count' /\ Holds(txStart[c], c)
        BY DEF KeptInv, Kept, Holds
    <2>1. c \in Blocks /\ txStart[c] \in Nat /\ SizeOf[c] \in Nat
        BY DEF Kept, TypeOK
    <2> QED BY <2>1, <1>0 DEF KeptInv
<1>6. DurableInv'
    BY <1>0 DEF DurableInv, TypeOK
<1>7. KeptApart'
    <2> SUFFICES ASSUME NEW c \in Kept, NEW u \in Threads, pc'[u] # "idle"
                 PROVE  Apart(txStart[c], SizeOf[c], start'[u], SizeOf[block'[u]])
        BY DEF KeptApart, Kept, Apart
    <2>1. CASE u = t
        BY <2>1, <1>0 DEF KeptInv, Apart, TypeOK
    <2>2. CASE u # t
        BY <2>2 DEF KeptApart, TypeOK
    <2> QED BY <2>1, <2>2
<1> QED BY <1>1, <1>2, <1>3, <1>4, <1>5, <1>6, <1>7

(* The links go to the thread's own records.                               *)
LEMMA WriteLinksInv == ASSUME Inv, NEW t \in Threads, WriteLinks(t)
                       PROVE  Inv'
<1> USE IndexAssumption DEF Inv, WriteLinks
<1>0. /\ block[t] \in Blocks /\ start[t] \in Nat /\ SizeOf[block[t]] \in Nat
      /\ start[t] + SizeOf[block[t]] <= count /\ count \in Nat /\ count <= MaxRecords
    BY DEF BusyInv, TypeOK
<1>1. TypeOK'
    <2>1. index' \in [Records -> (Blocks \cup {NoBlock}) \X Nat]
        <3> SUFFICES ASSUME NEW r \in Records
                     PROVE  index'[r] \in (Blocks \cup {NoBlock}) \X Nat
            BY DEF Records
        <3>1. CASE r \in start[t]..(start[t] + SizeOf[block[t]] - 1)
            <4>1. index'[r] = <<block[t], r - start[t]>>
                BY <3>1
            <4>2. r - start[t] \in Nat
                BY <3>1, <1>0
            <4> QED BY <4>1, <4>2, <1>0
        <3>2. CASE r \notin start[t]..(start[t] + SizeOf[block[t]] - 1)
            <4>1. index'[r] = index[r]
                BY <3>2
            <4> QED BY <4>1 DEF TypeOK
        <3> QED BY <3>1, <3>2
    <2> QED BY <2>1 DEF TypeOK
<1>2. ASSUME NEW s \in Nat, NEW b \in Blocks, Holds(s, b), s + SizeOf[b] <= count,
             Apart(s, SizeOf[b], start[t], SizeOf[block[t]])
      PROVE  Holds(s, b)'
    <2> SUFFICES ASSUME NEW i \in 0..(SizeOf[b] - 1)
                 PROVE  index'[s + i] = <<b, i>>
        BY DEF Holds
    <2>1. SizeOf[b] \in Nat
        OBVIOUS
    <2>2. s + i \in Records /\ s + i \notin start[t]..(start[t] + SizeOf[block[t]] - 1)
        <3> HIDE DEF Inv, WriteLinks
        <3>1. i \in Nat /\ i < SizeOf[b] /\ MaxRecords \in Nat
            BY <2>1
        <3> QED BY <1>0, <1>2, <2>1, <3>1 DEF Records, Apart
    <2>3. index'[s + i] = index[s + i]
        BY <2>2
    <2>4. index[s + i] = <<b, i>>
        BY <1>2 DEF Holds
    <2> QED BY <2>3, <2>4
<1>3. Holds(start[t], block[t])'
    <2> SUFFICES ASSUME NEW i \in 0..(SizeOf[block[t]] - 1)
                 PROVE  index'[start[t] + i] = <<block[t], i>>
        BY DEF Holds
    <2> DEFINE r == start[t] + i
    <2>1. r \in Records /\ r \in start[t]..(start[t] + SizeOf[block[t]] - 1) /\ r - start[t] = i
        BY <1>0 DEF Records
    <2> HIDE DEF r
    <2>2. index'[r] = <<block[t], r - start[t]>>
        BY <2>1
    <2> QED BY <2>1, <2>2 DEF r
<1>4. IdleInv'
    BY DEF IdleInv, TypeOK
<1>5. BusyInv'
    <2> SUFFICES ASSUME NEW u \in Threads, pc'[u] # "idle"
                 PROVE  /\ block[u] \in Blocks
                        /\ txCount[block[u]] = 0
                        /\ start[u] + SizeOf[block[u]] <= count
                        /\ pc'[u] = "associate" => Holds(start[u], block[u])'
        BY DEF BusyInv, Holds
    <2>1. pc[u] # "idle"
        BY DEF TypeOK
    <2>2. CASE u = t
        BY <2>1, <2>2, <1>3 DEF BusyInv
    <2>3. CASE u # t
        <3>1. pc'[u] = pc[u]
            BY <2>3 DEF TypeOK
        <3>2. Apart(start[u], SizeOf[block[u]], start[t], SizeOf[block[t]])
            BY <2>1, <2>3 DEF ThreadsApart
        <3>3. start[u] \in Nat
            BY DEF TypeOK
        <3> QED BY <2>1, <3>1, <3>2, <3>3, <1>2 DEF BusyInv
    <2> QED BY <2>2, <2>3
<1>6. ThreadsApart'
    BY DEF ThreadsApart, TypeOK, Apart
<1>7. KeptInv'
    <2> SUFFICES ASSUME NEW c \in Kept
                 PROVE  txCount[c] = SizeOf[c] /\ txStart[c] + SizeOf[c] <= count /\ Holds(txStart[c], c)'
        BY DEF KeptInv, Kept, Holds
    <2>1. c \in Blocks /\ txStart[c] \in Nat
        BY DEF Kept, TypeOK
    <2>2. Apart(txStart[c], SizeOf[c], start[t], SizeOf[block[t]])
        BY DEF KeptApart
    <2> QED BY <2>1, <2>2, <1>2 DEF KeptInv
<1>8. DurableInv'
    BY DEF DurableInv
<1>9. KeptApart'
    BY DEF KeptApart, Kept, TypeOK, Apart
<1> QED BY <1>1, <1>4, <1>5, <1>6, <1>7, <1>8, <1>9

(* The records pass from the thread to the block.                          *)
LEMMA AssociateInv == ASSUME Inv, NEW t \in Threads, Associate(t)
                      PROVE  Inv'
<1> USE IndexAssumption DEF Inv, Associate
<1>0. /\ block[t] \in Blocks /\ start[t] \in Nat /\ SizeOf[block[t]] \in Nat /\ SizeOf[block[t]] > 0
      /\ start[t] + SizeOf[block[t]] <= count
      /\ Holds(start[t], block[t])
      /\ txCount[block[t]] = 0
    <2>1. pc[t] # "idle" /\ start[t] \in Nat
        BY DEF TypeOK
    <2>2. block[t] \in Blocks
        BY <2>1 DEF BusyInv
    <2>3. SizeOf[block[t]] \in Nat /\ SizeOf[block[t]] > 0
        BY <2>2
    <2> QED BY <2>1, <2>2, <2>3 DEF BusyInv
<1>1. TypeOK'
    BY <1>0 DEF TypeOK
<1>2. /\ block[t] \notin Kept
      /\ \A c \in Kept : c \in Blocks /\ txStart'[c] = txStart[c] /\ txCount'[c] = txCount[c]
      /\ txStart'[block[t]] = start[t] /\ txCount'[block[t]] = SizeOf[block[t]]
      /\ Kept' = Kept \cup {block[t]}
    BY <1>0 DEF KeptInv, Kept, TypeOK
<1>3. \A u \in Threads : pc'[u] # "idle" =>
         u # t /\ pc[u] = pc'[u] /\ block'[u] = block[u] /\ start'[u] = start[u]
    BY DEF TypeOK
<1>4. IdleInv'
    BY DEF IdleInv, TypeOK
<1>5. BusyInv'
    <2> SUFFICES ASSUME NEW u \in Threads, pc'[u] # "idle"
                 PROVE  /\ block'[u] \in Blocks
                        /\ txCount'[block'[u]] = 0
                        /\ start'[u] + SizeOf[block'[u]] <= count
                        /\ pc'[u] = "associate" => Holds(start'[u], block'[u])
        BY DEF BusyInv, Holds
    <2>1. u # t /\ pc[u] = pc'[u] /\ block'[u] = block[u] /\ start'[u] = start[u]
        BY <1>3
    <2>2. block[u] # block[t]
        BY <2>1 DEF ThreadsApart
    <2>3. block[u] \in Blocks /\ txCount'[block[u]] = txCount[block[u]]
        BY <2>1, <2>2 DEF TypeOK, BusyInv
    <2> QED BY <2>1, <2>3 DEF BusyInv
<1>6. ThreadsApart'
    BY <1>3 DEF ThreadsApart, Apart
<1>7. KeptInv'
    <2> SUFFICES ASSUME NEW c \in Kept'
                 PROVE  /\ txCount'[c] = SizeOf[c] /\ txStart'[c] + SizeOf[c] <= count
                        /\ Holds(txStart'[c], c)
        BY DEF KeptInv, Holds
    <2>1. CASE c = block[t]
        BY <2>1, <1>0, <1>2
    <2>2. CASE c \in Kept
        BY <2>2, <1>2 DEF KeptInv
    <2> QED BY <2>1, <2>2, <1>2
<1>8. DurableInv'
    <2>1. \A c \in durable : txStart'[c] = txStart[c]
        BY <1>2 DEF Kept
    <2> QED BY <2>1 DEF DurableInv
<1>9. KeptApart'
    <2> SUFFICES ASSUME NEW c \in Kept', NEW u \in Threads, pc'[u] # "idle"
                 PROVE  Apart(txStart'[c], SizeOf[c], start'[u], SizeOf[block'[u]])
        BY DEF KeptApart, Apart
    <2>1. u # t /\ pc[u] # "idle" /\ block'[u] = block[u] /\ start'[u] = start[u]
        BY <1>3
    <2>2. CASE c = block[t]
        BY <2>1, <2>2, <1>2 DEF ThreadsApart
    <2>3. CASE c \in Kept
        BY <2>1, <2>3, <1>2 DEF KeptApart
    <2> QED BY <2>2, <2>3, <1>2
<1> QED BY <1>1, <1>4, <1>5, <1>6, <1>7, <1>8, <1>9

(* After a commit all that is kept is within the count in the file.        *)
LEMMA CommitInv == ASSUME Inv, Commit PROVE Inv'
<1> USE IndexAssumption DEF Inv, Commit
<1>1. TypeOK'
    BY DEF TypeOK
<1>2. Kept' = Kept
    BY DEF Kept
<1>3. IdleInv' /\ BusyInv' /\ ThreadsApart'
    BY DEF IdleInv, BusyInv, ThreadsApart, Apart, Holds
<1>4. KeptInv'
    BY <1>2 DEF KeptInv, Holds
<1>5. DurableInv'
    BY DEF DurableInv, KeptInv, Kept, TypeOK
<1>6. KeptApart'
    BY <1>2 DEF KeptApart, Apart
<1> QED BY <1>1, <1>3, <1>4, <1>5, <1>6

(* A restart returns to the count in the file and drops only what was not  *)
(* committed.                                                              *)
LEMMA RestartInv == ASSUME Inv, Restart PROVE Inv'
<1> USE IndexAssumption DEF Inv, Restart
<1>1. TypeOK'
    BY DEF TypeOK
<1>2. Kept' = durable /\ durable \subseteq Kept
    BY DEF Kept
<1>3. IdleInv' /\ BusyInv' /\ ThreadsApart' /\ KeptApart'
    BY DEF IdleInv, BusyInv, ThreadsApart, KeptApart
<1>4. KeptInv'
    BY <1>2 DEF KeptInv, DurableInv, Holds
<1>5. DurableInv'
    BY DEF DurableInv, TypeOK
<1> QED BY <1>1, <1>3, <1>4, <1>5

(* The invariant is inductive.                                             *)
LEMMA NextInv == Inv /\ [Next]_vars => Inv'
<1> SUFFICES ASSUME Inv, [Next]_vars PROVE Inv'
    OBVIOUS
<1>1. CASE UNCHANGED vars
    BY <1>1 DEF vars, Inv, TypeOK, IdleInv, BusyInv, ThreadsApart, KeptInv, DurableInv,
                KeptApart, Kept, Holds, Apart
<1>2. CASE Next
    BY <1>2, AllocateInv, WriteLinksInv, AssociateInv, CommitInv, RestartInv DEF Next
<1> QED BY <1>1, <1>2

(* Counts and records stay within the file                                 *)
(* (block_database.cpp, associate and commit).                             *)
THEOREM TypeCorrect == Spec => []TypeOK
<1>1. Inv => TypeOK
    BY DEF Inv
<1> QED
    BY InitInv, NextInv, <1>1, PTL DEF Spec

(* Committed associations stay intact through parallel updates and         *)
(* restarts, for any number of threads and blocks of any size              *)
(* (block_database.cpp, associate, update_transactions, commit, open).     *)
THEOREM CommittedAssociationsStay == Spec => []DurableIntact
<1>1. Inv => DurableIntact
    <2> SUFFICES ASSUME Inv, NEW b \in durable
                 PROVE  txCount[b] > 0 /\ Intact(b)
        BY DEF Inv, DurableIntact
    <2>1. b \in Blocks /\ SizeOf[b] \in Nat \ {0} /\ b \in Kept
        BY IndexAssumption DEF Inv, TypeOK, Kept
    <2>2. txCount[b] = SizeOf[b] /\ txStart[b] + SizeOf[b] <= count /\ Holds(txStart[b], b)
        BY <2>1 DEF Inv, KeptInv
    <2> QED BY <2>1, <2>2 DEF Intact, Holds
<1> QED BY <1>1, InitInv, NextInv, PTL DEF Spec
=============================================================================
