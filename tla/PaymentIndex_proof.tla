------------------------- MODULE PaymentIndex_proof -------------------------
(***************************************************************************)
(* No payment is lost or listed twice, and every walk sees the list as it  *)
(* was when it began, for any number of threads, keys and rows.            *)
(*                                                                         *)
(* Neither is inductive.  Both rest on one fact: a row belongs to the      *)
(* thread that created it until it is in a list, and from then on, in a    *)
(* list or unlinked, nobody writes its next field.  So the rows of a list  *)
(* at any moment stay chained for ever: they are "sealed".                 *)
(***************************************************************************)
EXTENDS PaymentIndex, TLAPS

(* Where a thread owns root_mutex_, and where its row is its own.          *)
Owning == {"upgrade", "linking", "grow", "create_root", "write_root",
           "unlinking", "unlink_upgrade", "write_next"}
Linking == {"link", "upgrade", "linking", "grow", "create_root", "write_root"}
Finding == {"find", "accessor", "first"}

Sealed(s) ==
    \A i \in 1..Len(s) :
        /\ s[i] < count
        /\ \A t \in Threads : pc[t] \in Linking => row[t] # s[i]
        /\ next[s[i]] = Below(s, i - 1)

OwnerInv == \A t \in Threads : pc[t] \in Owning <=> owner = t

KeyInv == \A t \in Threads : pc[t] # "idle" => key[t] \in Keys

RowInv ==
    \A t \in Threads :
        /\ pc[t] \in Linking => row[t] \in Rows /\ row[t] < count
        /\ pc[t] \in {"grow", "create_root"} =>
              root[key[t]] = NoRoot /\ next[row[t]] = NotFound
        /\ pc[t] = "write_root" =>
              root[key[t]] # NoRoot /\ next[row[t]] = root[key[t]]
        /\ pc[t] \in {"unlink_upgrade", "write_next"} =>
              root[key[t]] \in Rows /\ row[t] = root[key[t]]
        /\ pc[t] \in Finding => root[key[t]] # NoRoot
        /\ pc[t] \in Finding \cup {"idle", "unlink", "unlinking"} => row[t] = NotFound

OwnRowInv ==
    \A t, u \in Threads :
        t # u /\ pc[t] \in Linking /\ pc[u] \in Linking => row[t] # row[u]

ListInv == \A k \in Keys : Sealed(lists[k])

RootInv ==
    \A k \in Keys :
        /\ root[k] = NoRoot => lists[k] = <<>>
        /\ root[k] # NoRoot => root[k] = Below(lists[k], Len(lists[k]))

ApartInv ==
    \A k, j \in Keys : \A a \in 1..Len(lists[k]), b \in 1..Len(lists[j]) :
        lists[k][a] = lists[j][b] => k = j /\ a = b

WalkInv ==
    \A t \in Threads :
        /\ Sealed(snap[t])
        /\ pos[t] <= Len(snap[t])
        /\ pc[t] # "walk" => snap[t] = <<>> /\ pos[t] = 0
        /\ pc[t] = "walk" => row[t] = Below(snap[t], pos[t])

Inv ==
    /\ TypeOK
    /\ OwnerInv
    /\ KeyInv
    /\ RowInv
    /\ OwnRowInv
    /\ ListInv
    /\ RootInv
    /\ ApartInv
    /\ WalkInv

Step(t) ==
    \/ \E k \in Keys : Create(t, k) \/ UnlinkStart(t, k) \/ FindRoot(t, k)
    \/ LinkLock(t) \/ LinkUpgrade(t) \/ LinkFirst(t) \/ GrowTable(t)
    \/ LinkNext(t) \/ WriteRoot(t)
    \/ UnlinkLock(t) \/ UnlinkNothing(t) \/ UnlinkRead(t)
    \/ UnlinkUpgrade(t) \/ UnlinkWrite(t)
    \/ FindAccess(t) \/ FindLock(t) \/ FindRead(t) \/ Walk(t) \/ WalkEnd(t)

-----------------------------------------------------------------------------
(* Initially there are no rows and no calls.                               *)
LEMMA InitInv == Init => Inv
<1> SUFFICES ASSUME Init PROVE Inv
    OBVIOUS
<1> USE IndexAssumption DEF Init
<1>1. TypeOK
    BY DEF TypeOK, Locations
<1>2. OwnerInv /\ KeyInv /\ RowInv /\ OwnRowInv
    BY DEF OwnerInv, KeyInv, RowInv, OwnRowInv, Owning, Linking, Finding
<1>3. Sealed(<<>>)
    BY DEF Sealed
<1>4. ListInv /\ RootInv /\ ApartInv /\ WalkInv
    BY <1>3 DEF ListInv, RootInv, ApartInv, WalkInv
<1> QED BY <1>1, <1>2, <1>4 DEF Inv

(* A step of one thread leaves the call of every other alone.              *)
LEMMA OthersStay == ASSUME TypeOK, NEW t \in Threads, Step(t),
                           NEW u \in Threads, u # t
                    PROVE  /\ pc'[u] = pc[u] /\ key'[u] = key[u] /\ row'[u] = row[u]
                           /\ snap'[u] = snap[u] /\ pos'[u] = pos[u]
<1>1. CASE \E k \in Keys : Create(t, k) \/ UnlinkStart(t, k) \/ FindRoot(t, k)
    BY <1>1 DEF TypeOK, Create, UnlinkStart, FindRoot, GoTo
<1>2. CASE LinkLock(t) \/ LinkUpgrade(t) \/ UnlinkLock(t) \/ UnlinkUpgrade(t)
    BY <1>2 DEF TypeOK, LinkLock, LinkUpgrade, UnlinkLock, UnlinkUpgrade, LockRoot, UpgradeRoot, GoTo
<1>3. CASE LinkFirst(t) \/ GrowTable(t) \/ LinkNext(t)
    BY <1>3 DEF TypeOK, LinkFirst, GrowTable, LinkNext, GoTo
<1>4. CASE WriteRoot(t) \/ UnlinkNothing(t) \/ UnlinkWrite(t)
    BY <1>4 DEF TypeOK, WriteRoot, UnlinkNothing, UnlinkWrite, Return, GoTo
<1>5. CASE UnlinkRead(t) \/ FindAccess(t) \/ FindLock(t) \/ FindRead(t) \/ Walk(t) \/ WalkEnd(t)
    BY <1>5 DEF TypeOK, UnlinkRead, FindAccess, FindLock, FindRead, Walk, WalkEnd, GoTo
<1> QED BY <1>1, <1>2, <1>3, <1>4, <1>5 DEF Step

(* Only a row that its creator is linking is written.                      *)
LEMMA RowsWritten == ASSUME TypeOK, NEW t \in Threads, Step(t)
                     PROVE  \/ next' = next
                            \/ /\ pc[t] = "linking"
                               /\ \A r \in Rows : r # row[t] => next'[r] = next[r]
<1>1. CASE LinkFirst(t) \/ LinkNext(t)
    BY <1>1 DEF TypeOK, LinkFirst, LinkNext, At
<1>2. CASE ~(LinkFirst(t) \/ LinkNext(t))
    BY <1>2 DEF Step, Create, UnlinkStart, FindRoot, LinkLock, LinkUpgrade, GrowTable, WriteRoot,
                UnlinkLock, UnlinkNothing, UnlinkRead, UnlinkUpgrade, UnlinkWrite, LockRoot,
                UpgradeRoot, FindAccess, FindLock, FindRead, Walk, WalkEnd
<1> QED BY <1>1, <1>2

(* The count never falls, and a row comes to be its thread's own only when *)
(* it is allocated, past all others.                                       *)
LEMMA RowsOwned == ASSUME TypeOK, NEW t \in Threads, Step(t)
                   PROVE  /\ count' = count \/ count' = count + 1
                          /\ pc'[t] \in Linking =>
                                \/ pc[t] \in Linking /\ row'[t] = row[t]
                                \/ pc[t] = "idle" /\ row'[t] = count /\ count' = count + 1
<1> USE DEF Linking
<1>1. CASE \E k \in Keys : Create(t, k) \/ UnlinkStart(t, k) \/ FindRoot(t, k)
    BY <1>1 DEF TypeOK, Create, UnlinkStart, FindRoot, GoTo, At
<1>2. CASE LinkLock(t) \/ LinkUpgrade(t) \/ UnlinkLock(t) \/ UnlinkUpgrade(t)
    BY <1>2 DEF TypeOK, LinkLock, LinkUpgrade, UnlinkLock, UnlinkUpgrade, LockRoot, UpgradeRoot, GoTo, At
<1>3. CASE LinkFirst(t) \/ GrowTable(t) \/ LinkNext(t)
    BY <1>3 DEF TypeOK, LinkFirst, GrowTable, LinkNext, GoTo, At
<1>4. CASE WriteRoot(t) \/ UnlinkNothing(t) \/ UnlinkWrite(t)
    BY <1>4 DEF TypeOK, WriteRoot, UnlinkNothing, UnlinkWrite, Return, GoTo
<1>5. CASE UnlinkRead(t) \/ FindAccess(t) \/ FindLock(t) \/ FindRead(t) \/ Walk(t) \/ WalkEnd(t)
    BY <1>5 DEF TypeOK, UnlinkRead, FindAccess, FindLock, FindRead, Walk, WalkEnd, GoTo, At
<1> QED BY <1>1, <1>2, <1>3, <1>4, <1>5 DEF Step

(* Rows that are sealed stay sealed, in a list or not.                     *)
LEMMA SealedStays == ASSUME Inv, NEW t \in Threads, Step(t), NEW s \in Seq(Rows), Sealed(s)
                     PROVE  Sealed(s)'
<1> SUFFICES ASSUME NEW i \in 1..Len(s)
             PROVE  /\ s[i] < count'
                    /\ \A u \in Threads : pc'[u] \in Linking => row'[u] # s[i]
                    /\ next'[s[i]] = Below(s, i - 1)
    BY DEF Sealed, Below
<1> USE DEF Inv
<1>0. count \in Nat /\ s[i] \in Rows /\ s[i] \in Nat
    BY IndexAssumption DEF TypeOK, Rows
<1>1. s[i] < count'
    BY <1>0, RowsOwned DEF Sealed
<1>2. ASSUME NEW u \in Threads, pc'[u] \in Linking PROVE row'[u] # s[i]
    <2>1. CASE u = t
        BY <1>0, <1>2, <2>1, RowsOwned DEF Sealed
    <2>2. CASE u # t
        BY <1>2, <2>2, OthersStay DEF Sealed
    <2> QED BY <2>1, <2>2
<1>3. next'[s[i]] = next[s[i]]
    BY <1>0, RowsWritten DEF Sealed, Linking
<1> QED BY <1>1, <1>2, <1>3 DEF Sealed

-----------------------------------------------------------------------------
(* Who owns root_mutex_: taken only when nobody does.                      *)
LEMMA OwnerStep == ASSUME Inv, NEW t \in Threads, Step(t)
                   PROVE  OwnerInv' /\ KeyInv'
<1> USE DEF Inv
<1>1. ASSUME NEW u \in Threads, u # t
      PROVE  pc'[u] = pc[u] /\ key'[u] = key[u]
    BY <1>1, OthersStay
<1>2. CASE \E k \in Keys : Create(t, k) \/ UnlinkStart(t, k) \/ FindRoot(t, k)
    BY <1>1, <1>2 DEF TypeOK, OwnerInv, KeyInv, Owning, Create, UnlinkStart, FindRoot, GoTo, At
<1>3. CASE LinkLock(t) \/ UnlinkLock(t)
    BY <1>1, <1>3, IndexAssumption
       DEF TypeOK, OwnerInv, KeyInv, Owning, LinkLock, UnlinkLock, LockRoot, GoTo, At
<1>4. CASE LinkUpgrade(t) \/ UnlinkUpgrade(t)
    BY <1>1, <1>4 DEF TypeOK, OwnerInv, KeyInv, Owning, LinkUpgrade, UnlinkUpgrade, UpgradeRoot, GoTo, At
<1>5. CASE LinkFirst(t) \/ GrowTable(t) \/ LinkNext(t) \/ UnlinkRead(t)
    BY <1>1, <1>5 DEF TypeOK, OwnerInv, KeyInv, Owning, LinkFirst, GrowTable, LinkNext, UnlinkRead, GoTo, At
<1>6. CASE WriteRoot(t) \/ UnlinkNothing(t) \/ UnlinkWrite(t)
    <2>1. pc[t] \in Owning /\ Return(t)
        BY <1>6 DEF WriteRoot, UnlinkNothing, UnlinkWrite, At, Owning
    <2>2. owner = t /\ \A u \in Threads : u # t => pc[u] \notin Owning
        BY <2>1 DEF OwnerInv
    <2>3. owner' = NoThread /\ pc'[t] = "idle"
        BY <2>1 DEF Return, GoTo, TypeOK
    <2> QED BY <1>1, <2>2, <2>3, IndexAssumption DEF OwnerInv, KeyInv, Owning
<1>7. CASE FindAccess(t) \/ FindLock(t) \/ FindRead(t) \/ Walk(t) \/ WalkEnd(t)
    BY <1>1, <1>7 DEF TypeOK, OwnerInv, KeyInv, Owning, FindAccess, FindLock, FindRead, Walk, WalkEnd, GoTo, At
<1> QED BY <1>2, <1>3, <1>4, <1>5, <1>6, <1>7 DEF Step

(* A row that a thread links is no other thread's.                         *)
LEMMA OwnRowStep == ASSUME Inv, NEW t \in Threads, Step(t)
                    PROVE  OwnRowInv'
<1> USE DEF Inv
<1>1. ASSUME NEW u \in Threads, u # t, pc'[u] \in Linking, pc'[t] \in Linking
      PROVE  row'[u] # row'[t]
    <2>1. pc[u] \in Linking /\ row'[u] = row[u]
        BY <1>1, OthersStay
    <2>2. row[u] < count /\ row[u] \in Nat /\ count \in Nat
        BY <2>1, IndexAssumption DEF RowInv, Rows, TypeOK
    <2> QED BY <1>1, <2>1, <2>2, RowsOwned DEF OwnRowInv
<1>2. ASSUME NEW u \in Threads, NEW v \in Threads, u # t, v # t, u # v,
             pc'[u] \in Linking, pc'[v] \in Linking
      PROVE  row'[u] # row'[v]
    BY <1>2, OthersStay DEF OwnRowInv
<1> QED BY <1>1, <1>2 DEF OwnRowInv

(* The list of a key begins at its root; a nonempty list has a first row.  *)
LEMMA FirstRow == ASSUME Inv, NEW k \in Keys, root[k] \in Rows
                  PROVE  /\ Len(lists[k]) \in Nat \ {0}
                         /\ root[k] = lists[k][Len(lists[k])]
                         /\ next[root[k]] = Below(lists[k], Len(lists[k]) - 1)
<1> USE DEF Inv
<1>1. lists[k] \in Seq(Rows) /\ Len(lists[k]) \in Nat
    BY DEF TypeOK
<1>2. root[k] # NoRoot /\ root[k] # NotFound
    BY IndexAssumption DEF Rows
<1>3. Len(lists[k]) # 0 /\ root[k] = lists[k][Len(lists[k])]
    BY <1>1, <1>2 DEF RootInv, Below
<1> QED BY <1>1, <1>3 DEF ListInv, Sealed

(* What the step that walks on reads: the row below.                       *)
LEMMA RowBelow == ASSUME Inv, NEW t \in Threads, Walk(t)
                  PROVE  /\ pos[t] \in Nat \ {0}
                         /\ pos[t] \in 1..Len(snap[t])
                         /\ next[row[t]] = Below(snap[t], pos[t] - 1)
<1> USE DEF Inv
<1>1. snap[t] \in Seq(Rows) /\ Len(snap[t]) \in Nat /\ pos[t] \in Nat
    BY DEF TypeOK
<1>2. pos[t] # 0 /\ row[t] = snap[t][pos[t]] /\ pos[t] <= Len(snap[t])
    BY <1>1 DEF Walk, At, WalkInv, Below
<1> QED BY <1>1, <1>2 DEF WalkInv, Sealed

(* Below stays within the rows and the terminator.                         *)
LEMMA BelowType == ASSUME NEW s \in Seq(Rows), NEW i \in 0..Len(s)
                   PROVE  Below(s, i) \in Rows \cup {NotFound}
BY DEF Below

(* Every step keeps the types.                                             *)
LEMMA TypeStep == ASSUME Inv, NEW t \in Threads, Step(t)
                  PROVE  TypeOK'
<1> USE IndexAssumption DEF Inv, Locations
<1>1. CASE \E k \in Keys : Create(t, k) \/ UnlinkStart(t, k) \/ FindRoot(t, k)
    <2> PICK k \in Keys : Create(t, k) \/ UnlinkStart(t, k) \/ FindRoot(t, k)
        BY <1>1
    <2>1. CASE Create(t, k)
        <3>1. count \in Rows /\ count + 1 \in 0..MaxRows
            BY <2>1 DEF TypeOK, Create, Rows
        <3> QED BY <2>1, <3>1 DEF TypeOK, Create, GoTo
    <2>2. CASE UnlinkStart(t, k)
        BY <2>2 DEF TypeOK, UnlinkStart, GoTo
    <2>3. CASE FindRoot(t, k)
        BY <2>3 DEF TypeOK, FindRoot, GoTo
    <2> QED BY <2>1, <2>2, <2>3
<1>2. CASE LinkLock(t) \/ LinkUpgrade(t) \/ UnlinkLock(t) \/ UnlinkUpgrade(t)
    BY <1>2 DEF TypeOK, LinkLock, LinkUpgrade, UnlinkLock, UnlinkUpgrade, LockRoot, UpgradeRoot, GoTo
<1>3. CASE LinkFirst(t) \/ GrowTable(t) \/ LinkNext(t)
    <2>1. CASE LinkFirst(t)
        BY <2>1 DEF TypeOK, LinkFirst, GoTo
    <2>2. CASE GrowTable(t)
        BY <2>2 DEF TypeOK, GrowTable, GoTo
    <2>3. CASE LinkNext(t)
        <3>1. root[key[t]] \in Rows \cup {NotFound}
            BY <2>3 DEF LinkNext, At, KeyInv, TypeOK
        <3> QED BY <2>3, <3>1 DEF TypeOK, LinkNext, GoTo
    <2> QED BY <1>3, <2>1, <2>2, <2>3
<1>4. CASE WriteRoot(t)
    <2>1. key[t] \in Keys /\ row[t] \in Rows
        BY <1>4 DEF WriteRoot, At, KeyInv, RowInv, Linking
    <2>2. Append(lists[key[t]], row[t]) \in Seq(Rows)
        BY <2>1 DEF TypeOK
    <2> QED BY <1>4, <2>1, <2>2 DEF TypeOK, WriteRoot, Return, GoTo
<1>5. CASE UnlinkNothing(t)
    BY <1>5 DEF TypeOK, UnlinkNothing, Return, GoTo
<1>6. CASE UnlinkWrite(t)
    <2>1. key[t] \in Keys /\ row[t] = root[key[t]] /\ row[t] \in Rows
        BY <1>6 DEF UnlinkWrite, At, KeyInv, RowInv
    <2>2. lists[key[t]] \in Seq(Rows) /\ Len(lists[key[t]]) \in Nat \ {0}
        BY <2>1, FirstRow DEF TypeOK
    <2>3. next[row[t]] \in Rows \cup {NotFound}
        BY <2>1, <2>2, FirstRow, BelowType
    <2>4. SubSeq(lists[key[t]], 1, Len(lists[key[t]]) - 1) \in Seq(Rows)
        BY <2>2
    <2> QED BY <1>6, <2>1, <2>3, <2>4 DEF TypeOK, UnlinkWrite, Return, GoTo
<1>7. CASE UnlinkRead(t) \/ FindAccess(t) \/ FindLock(t) \/ WalkEnd(t)
    <2>1. CASE UnlinkRead(t)
        BY <2>1 DEF TypeOK, UnlinkRead, GoTo
    <2>2. CASE FindAccess(t) \/ FindLock(t)
        BY <2>2 DEF TypeOK, FindAccess, FindLock, GoTo
    <2>3. CASE WalkEnd(t)
        <3>1. <<>> \in Seq(Rows)
            OBVIOUS
        <3> QED BY <2>3, <3>1 DEF TypeOK, WalkEnd, GoTo
    <2> QED BY <1>7, <2>1, <2>2, <2>3
<1>8. CASE FindRead(t)
    <2>1. key[t] \in Keys /\ root[key[t]] # NoRoot
        BY <1>8 DEF FindRead, At, KeyInv, RowInv, Finding
    <2> QED BY <1>8, <2>1 DEF TypeOK, FindRead, GoTo
<1>9. CASE Walk(t)
    <2>1. pos[t] - 1 \in Nat /\ next[row[t]] \in Rows \cup {NotFound}
        BY <1>9, RowBelow, BelowType DEF TypeOK
    <2> QED BY <1>9, <2>1 DEF TypeOK, Walk
<1> QED BY <1>1, <1>2, <1>3, <1>4, <1>5, <1>6, <1>7, <1>8, <1>9 DEF Step

-----------------------------------------------------------------------------
(* Only the owner of root_mutex_ writes a root, and no root is removed.    *)
LEMMA RootsWritten == ASSUME Inv, NEW t \in Threads, Step(t)
                      PROVE  \/ root' = root /\ lists' = lists
                             \/ /\ owner = t
                                /\ WriteRoot(t) \/ UnlinkWrite(t)
                                /\ key[t] \in Keys /\ row[t] \in Rows
                                /\ root' = [root EXCEPT ![key[t]] = root'[key[t]]]
                                /\ root'[key[t]] # NoRoot
<1> USE DEF Inv
<1>1. CASE WriteRoot(t)
    <2>1. owner = t /\ key[t] \in Keys /\ row[t] \in Rows
        BY <1>1 DEF WriteRoot, At, OwnerInv, Owning, KeyInv, RowInv, Linking
    <2>2. row[t] # NoRoot
        BY <2>1, IndexAssumption DEF Rows
    <2> QED BY <1>1, <2>1, <2>2 DEF WriteRoot, TypeOK
<1>2. CASE UnlinkWrite(t)
    <2>1. owner = t /\ key[t] \in Keys /\ row[t] \in Rows
        BY <1>2 DEF UnlinkWrite, At, OwnerInv, Owning, KeyInv, RowInv
    <2>2. next[row[t]] # NoRoot
        BY <2>1, IndexAssumption DEF TypeOK, Rows
    <2> QED BY <1>2, <2>1, <2>2 DEF UnlinkWrite, TypeOK
<1>3. CASE ~(WriteRoot(t) \/ UnlinkWrite(t))
    BY <1>3 DEF Step, Create, UnlinkStart, FindRoot, LinkLock, LinkUpgrade, LinkFirst, GrowTable,
                LinkNext, UnlinkLock, UnlinkNothing, UnlinkRead, UnlinkUpgrade, LockRoot,
                UpgradeRoot, FindAccess, FindLock, FindRead, Walk, WalkEnd
<1> QED BY <1>1, <1>2, <1>3

(* What a thread knows of its row and its root stays true until it acts:   *)
(* the others cannot write the root while it owns root_mutex_.             *)
LEMMA RowStep == ASSUME Inv, NEW t \in Threads, Step(t)
                 PROVE  RowInv'
<1> USE DEF Inv
<1> DEFINE RowOf(u) ==
        /\ pc[u] \in Linking => row[u] \in Rows /\ row[u] < count
        /\ pc[u] \in {"grow", "create_root"} =>
              root[key[u]] = NoRoot /\ next[row[u]] = NotFound
        /\ pc[u] = "write_root" =>
              root[key[u]] # NoRoot /\ next[row[u]] = root[key[u]]
        /\ pc[u] \in {"unlink_upgrade", "write_next"} =>
              root[key[u]] \in Rows /\ row[u] = root[key[u]]
        /\ pc[u] \in Finding => root[key[u]] # NoRoot
        /\ pc[u] \in Finding \cup {"idle", "unlink", "unlinking"} => row[u] = NotFound
<1>0. ASSUME NEW u \in Threads PROVE RowOf(u)
    BY DEF RowInv
<1>1. ASSUME NEW u \in Threads, u # t PROVE RowOf(u)'
    <2>1. pc'[u] = pc[u] /\ key'[u] = key[u] /\ row'[u] = row[u] /\ RowOf(u)
        BY <1>0, <1>1, OthersStay
    <2>2. pc[u] \in Linking => row[u] < count'
        <3>1. pc[u] \in Linking => row[u] \in Nat /\ row[u] < count /\ count \in Nat
            BY <2>1, IndexAssumption DEF TypeOK, Rows
        <3> QED BY <3>1, RowsOwned
    <2>3. pc[u] \in Linking => next'[row[u]] = next[row[u]]
        <3>1. pc[u] \in Linking /\ pc[t] = "linking" => row[u] # row[t]
            BY <1>1 DEF OwnRowInv, Linking
        <3> QED BY <2>1, <3>1, RowsWritten
    <2>4. pc[u] \in Owning => root' = root
        BY <1>1, RootsWritten DEF OwnerInv
    <2>5. pc[u] \in Finding => root'[key[u]] # NoRoot
        <3>1. pc[u] \in Finding => key[u] \in Keys /\ root[key[u]] # NoRoot
            BY <2>1 DEF KeyInv, Finding
        <3> QED BY <3>1, RootsWritten DEF TypeOK
    <2> QED BY <2>1, <2>2, <2>3, <2>4, <2>5 DEF Linking, Owning, Finding
<1>2. RowOf(t)'
    <2> USE <1>0 DEF Linking, Finding
    <2>1. CASE \E k \in Keys : Create(t, k) \/ UnlinkStart(t, k) \/ FindRoot(t, k)
        <3> PICK k \in Keys : Create(t, k) \/ UnlinkStart(t, k) \/ FindRoot(t, k)
            BY <2>1
        <3>1. CASE Create(t, k)
            BY <3>1, IndexAssumption DEF Create, GoTo, TypeOK, Rows
        <3>2. CASE UnlinkStart(t, k)
            BY <3>2 DEF UnlinkStart, At, GoTo, TypeOK
        <3>3. CASE FindRoot(t, k)
            BY <3>3 DEF FindRoot, At, GoTo, TypeOK
        <3> QED BY <3>1, <3>2, <3>3
    <2>2. CASE LinkLock(t) \/ LinkUpgrade(t)
        BY <2>2 DEF LinkLock, LinkUpgrade, LockRoot, UpgradeRoot, At, GoTo, TypeOK
    <2>3. CASE LinkFirst(t)
        BY <2>3 DEF LinkFirst, At, GoTo, TypeOK
    <2>4. CASE GrowTable(t)
        BY <2>4 DEF GrowTable, At, GoTo, TypeOK
    <2>5. CASE LinkNext(t)
        BY <2>5 DEF LinkNext, At, GoTo, TypeOK
    <2>6. CASE WriteRoot(t) \/ UnlinkNothing(t) \/ UnlinkWrite(t)
        BY <2>6 DEF WriteRoot, UnlinkNothing, UnlinkWrite, Return, GoTo, TypeOK
    <2>7. CASE UnlinkLock(t) \/ UnlinkUpgrade(t)
        BY <2>7 DEF UnlinkLock, UnlinkUpgrade, LockRoot, UpgradeRoot, At, GoTo, TypeOK
    <2>8. CASE UnlinkRead(t)
        BY <2>8 DEF UnlinkRead, At, GoTo, TypeOK
    <2>9. CASE FindAccess(t) \/ FindLock(t)
        BY <2>9 DEF FindAccess, FindLock, At, GoTo, TypeOK
    <2>10. CASE FindRead(t) \/ Walk(t) \/ WalkEnd(t)
        BY <2>10 DEF FindRead, Walk, WalkEnd, At, GoTo, TypeOK
    <2> QED BY <2>1, <2>2, <2>3, <2>4, <2>5, <2>6, <2>7, <2>8, <2>9, <2>10 DEF Step
<1> QED BY <1>1, <1>2 DEF RowInv

-----------------------------------------------------------------------------
(* To seal the lists, seal each value that a list gets.                    *)
LEMMA SealLists == ASSUME \A j \in Keys : \A s : s = lists'[j] => Sealed(s)'
                   PROVE  ListInv'
BY DEF ListInv, Sealed, Below

(* Linking: the row that its thread wrote extends a sealed list.           *)
LEMMA WriteRootStep == ASSUME Inv, NEW t \in Threads, WriteRoot(t)
                       PROVE  ListInv' /\ RootInv' /\ ApartInv'
<1> USE DEF Inv
<1>0. /\ Step(t) /\ pc[t] \in {"create_root", "write_root"} /\ pc'[t] = "idle"
      /\ root' = [root EXCEPT ![key[t]] = row[t]]
      /\ lists' = [lists EXCEPT ![key[t]] = Append(lists[key[t]], row[t])]
      /\ count' = count /\ next' = next
    BY DEF Step, WriteRoot, Return, GoTo, At, TypeOK
<1> PICK k \in Keys : k = key[t]
    BY <1>0 DEF KeyInv
<1> PICK r \in Rows : r = row[t]
    BY <1>0 DEF RowInv, Linking
<1> PICK L \in Seq(Rows) : L = lists[k]
    BY DEF TypeOK
<1> HIDE DEF Inv
<1> PICK M \in Seq(Rows) : M = Append(L, r)
    <2>1. Append(L, r) \in Seq(Rows)
        OBVIOUS
    <2> QED BY <2>1, Zenon
<1> USE DEF Inv
<1>1. Len(L) \in Nat /\ pc[t] \in Linking
    BY <1>0 DEF Linking
<1>2. M \in Seq(Rows) /\ Len(M) = Len(L) + 1 /\ M[Len(L) + 1] = r /\ \A i \in 1..Len(L) : M[i] = L[i]
    BY <1>1
<1>3. lists'[k] = M /\ root'[k] = r
    BY <1>0 DEF TypeOK
<1>4. ASSUME NEW j \in Keys, j # k
      PROVE  lists'[j] = lists[j] /\ root'[j] = root[j]
    BY <1>0, <1>4 DEF TypeOK
<1>5. next[r] = Below(L, Len(L))
    BY <1>0 DEF RowInv, RootInv, Below
<1>6. Sealed(M)'
    <2>1. Sealed(L)'
        BY <1>0, <1>1, SealedStays DEF ListInv
    <2> SUFFICES ASSUME NEW i \in 1..Len(M)
                 PROVE  /\ M[i] < count'
                        /\ \A u \in Threads : pc'[u] \in Linking => row'[u] # M[i]
                        /\ next'[M[i]] = Below(M, i - 1)
        BY DEF Sealed, Below
    <2>2. CASE i = Len(L) + 1
        <3>1. M[i] = r /\ r < count'
            BY <2>2, <1>0, <1>1, <1>2 DEF RowInv
        <3>2. ASSUME NEW u \in Threads, pc'[u] \in Linking PROVE row'[u] # r
            <4>1. u # t
                BY <3>2, <1>0 DEF Linking
            <4>2. pc[u] \in Linking /\ row'[u] = row[u]
                BY <4>1, <3>2, <1>0, OthersStay
            <4> QED BY <4>1, <4>2, <1>1 DEF OwnRowInv
        <3>3. Below(M, i - 1) = Below(L, Len(L))
            BY <2>2, <1>1, <1>2 DEF Below
        <3> QED BY <3>1, <3>2, <3>3, <1>0, <1>5
    <2>3. CASE i \in 1..Len(L)
        <3>1. M[i] = L[i] /\ Below(M, i - 1) = Below(L, i - 1)
            BY <2>3, <1>1, <1>2 DEF Below
        <3>2. /\ L[i] < count'
              /\ \A u \in Threads : pc'[u] \in Linking => row'[u] # L[i]
              /\ next'[L[i]] = Below(L, i - 1)
            BY <2>1, <2>3 DEF Sealed, Below
        <3> QED BY <3>1, <3>2
    <2> QED BY <1>1, <1>2, <2>2, <2>3
<1>7. ListInv'
    <2> SUFFICES ASSUME NEW j \in Keys, NEW s, s = lists'[j] PROVE Sealed(s)'
        BY SealLists
    <2>1. CASE j = k
        BY <2>1, <1>3, <1>6
    <2>2. CASE j # k
        <3>1. s \in Seq(Rows) /\ Sealed(s)
            BY <2>2, <1>4 DEF ListInv, TypeOK
        <3> QED BY <3>1, <1>0, SealedStays
    <2> QED BY <2>1, <2>2
<1>8. RootInv'
    <2>1. r # NoRoot
        BY IndexAssumption DEF Rows
    <2>2. root'[k] # NoRoot /\ root'[k] = Below(lists'[k], Len(lists'[k]))
        BY <1>1, <1>2, <1>3, <2>1 DEF Below
    <2> QED BY <2>2, <1>4 DEF RootInv, Below
<1>9. ApartInv'
    <2>1. ASSUME NEW j \in Keys, NEW b \in 1..Len(lists[j]) PROVE lists[j][b] # r
        BY <2>1, <1>1 DEF ListInv, Sealed
    <2> SUFFICES ASSUME NEW h \in Keys, NEW j \in Keys,
                        NEW a \in 1..Len(lists'[h]), NEW b \in 1..Len(lists'[j]),
                        lists'[h][a] = lists'[j][b]
                 PROVE  h = j /\ a = b
        BY DEF ApartInv
    <2>2. ASSUME NEW x \in Keys, NEW c \in 1..Len(lists'[x])
          PROVE  \/ x = k /\ c = Len(L) + 1 /\ lists'[x][c] = r
                 \/ c \in 1..Len(lists[x]) /\ lists'[x][c] = lists[x][c]
        <3>1. CASE x # k
            BY <3>1, <2>2, <1>4
        <3>2. CASE x = k
            BY <3>2, <2>2, <1>1, <1>2, <1>3
        <3> QED BY <3>1, <3>2
    <2>3. \/ h = k /\ a = Len(L) + 1 /\ lists'[h][a] = r
          \/ a \in 1..Len(lists[h]) /\ lists'[h][a] = lists[h][a]
        BY <2>2
    <2>4. \/ j = k /\ b = Len(L) + 1 /\ lists'[j][b] = r
          \/ b \in 1..Len(lists[j]) /\ lists'[j][b] = lists[j][b]
        BY <2>2
    <2> QED BY <2>1, <2>3, <2>4 DEF ApartInv
<1> QED BY <1>7, <1>8, <1>9

(* Unlinking: what is left of a sealed list is sealed.                     *)
LEMMA UnlinkWriteStep == ASSUME Inv, NEW t \in Threads, UnlinkWrite(t)
                         PROVE  ListInv' /\ RootInv' /\ ApartInv'
<1> USE DEF Inv
<1>0. /\ Step(t) /\ pc[t] = "write_next"
      /\ root' = [root EXCEPT ![key[t]] = next[row[t]]]
      /\ lists' = [lists EXCEPT ![key[t]] = SubSeq(lists[key[t]], 1, Len(lists[key[t]]) - 1)]
    BY DEF Step, UnlinkWrite, At
<1> PICK k \in Keys : k = key[t]
    BY <1>0 DEF KeyInv
<1> PICK L \in Seq(Rows) : L = lists[k]
    BY DEF TypeOK
<1>1. root[k] \in Rows /\ row[t] = root[k]
    BY <1>0 DEF RowInv
<1>2. Len(L) \in Nat \ {0} /\ next[row[t]] = Below(L, Len(L) - 1)
    BY <1>1, FirstRow
<1> HIDE DEF Inv
<1> PICK M \in Seq(Rows) : M = SubSeq(L, 1, Len(L) - 1)
    <2>1. SubSeq(L, 1, Len(L) - 1) \in Seq(Rows)
        BY <1>2
    <2> QED BY <2>1, Zenon
<1> USE DEF Inv
<1>3. Len(M) = Len(L) - 1 /\ \A i \in 1..Len(M) : M[i] = L[i] /\ i \in 1..Len(L)
    BY <1>2
<1>4. lists'[k] = M /\ root'[k] = Below(L, Len(L) - 1)
    BY <1>0, <1>2 DEF TypeOK
<1>5. ASSUME NEW j \in Keys, j # k
      PROVE  lists'[j] = lists[j] /\ root'[j] = root[j]
    BY <1>0, <1>5 DEF TypeOK
<1>6. Sealed(M)'
    <2>1. Sealed(L)'
        BY <1>0, SealedStays DEF ListInv
    <2> SUFFICES ASSUME NEW i \in 1..Len(M)
                 PROVE  /\ M[i] < count'
                        /\ \A u \in Threads : pc'[u] \in Linking => row'[u] # M[i]
                        /\ next'[M[i]] = Below(M, i - 1)
        BY DEF Sealed, Below
    <2>2. M[i] = L[i] /\ Below(M, i - 1) = Below(L, i - 1)
        BY <1>2, <1>3 DEF Below
    <2>3. /\ L[i] < count'
          /\ \A u \in Threads : pc'[u] \in Linking => row'[u] # L[i]
          /\ next'[L[i]] = Below(L, i - 1)
        BY <1>3, <2>1 DEF Sealed, Below
    <2> QED BY <2>2, <2>3
<1>7. ListInv'
    <2> SUFFICES ASSUME NEW j \in Keys, NEW s, s = lists'[j] PROVE Sealed(s)'
        BY SealLists
    <2>1. CASE j = k
        BY <2>1, <1>4, <1>6
    <2>2. CASE j # k
        <3>1. s \in Seq(Rows) /\ Sealed(s)
            BY <2>2, <1>5 DEF ListInv, TypeOK
        <3> QED BY <3>1, <1>0, SealedStays
    <2> QED BY <2>1, <2>2
<1>8. RootInv'
    <2>1. Below(M, Len(M)) = Below(L, Len(L) - 1)
        <3>1. CASE Len(M) = 0
            BY <3>1, <1>3 DEF Below
        <3>2. CASE Len(M) # 0
            <4>1. Len(M) \in 1..Len(M)
                BY <3>2, <1>2, <1>3
            <4> QED BY <3>2, <4>1, <1>3 DEF Below
        <3> QED BY <3>1, <3>2
    <2>2. root'[k] \in Rows \cup {NotFound}
        BY <1>2, <1>4, BelowType
    <2>3. root'[k] # NoRoot
        BY <2>2, IndexAssumption DEF Rows
    <2> QED BY <1>4, <1>5, <2>1, <2>3 DEF RootInv, Below
<1>9. ApartInv'
    <2>1. ASSUME NEW j \in Keys, NEW b \in 1..Len(lists'[j])
          PROVE  b \in 1..Len(lists[j]) /\ lists'[j][b] = lists[j][b]
        <3>1. CASE j = k
            BY <3>1, <2>1, <1>3, <1>4
        <3>2. CASE j # k
            BY <3>2, <2>1, <1>5
        <3> QED BY <3>1, <3>2
    <2> QED BY <2>1 DEF ApartInv
<1> QED BY <1>7, <1>8, <1>9

(* Every step keeps the lists.                                             *)
LEMMA ListStep == ASSUME Inv, NEW t \in Threads, Step(t)
                  PROVE  ListInv' /\ RootInv' /\ ApartInv'
<1> USE DEF Inv
<1>1. CASE root' = root /\ lists' = lists
    <2>1. ListInv'
        <3> SUFFICES ASSUME NEW j \in Keys, NEW s, s = lists'[j] PROVE Sealed(s)'
            BY SealLists
        <3>1. s \in Seq(Rows) /\ Sealed(s)
            BY <1>1 DEF ListInv, TypeOK
        <3> QED BY <3>1, SealedStays
    <2>2. RootInv' /\ ApartInv'
        BY <1>1 DEF RootInv, ApartInv, Below
    <2> QED BY <2>1, <2>2
<1>2. CASE WriteRoot(t)
    BY <1>2, WriteRootStep
<1>3. CASE UnlinkWrite(t)
    BY <1>3, UnlinkWriteStep
<1> QED BY <1>1, <1>2, <1>3, RootsWritten

(* A walk: find() takes a sealed list, and every step follows it.          *)
LEMMA WalkStep == ASSUME Inv, NEW t \in Threads, Step(t)
                  PROVE  WalkInv'
<1> USE DEF Inv
<1> DEFINE WalkOf(u) ==
        /\ pos[u] <= Len(snap[u])
        /\ pc[u] # "walk" => snap[u] = <<>> /\ pos[u] = 0
        /\ pc[u] = "walk" => row[u] = Below(snap[u], pos[u])
<1>1. ASSUME NEW u \in Threads, NEW s, s = snap'[u] PROVE Sealed(s)'
    <2>1. \/ snap'[u] = snap[u] \/ snap'[u] = <<>>
          \/ \E k \in Keys : snap'[u] = lists[k]
        <3>1. CASE FindRead(t)
            BY <3>1 DEF FindRead, At, KeyInv, TypeOK
        <3>2. CASE WalkEnd(t)
            BY <3>2 DEF WalkEnd, TypeOK
        <3>3. CASE ~(FindRead(t) \/ WalkEnd(t))
            BY <3>3 DEF Step, Create, UnlinkStart, FindRoot, LinkLock, LinkUpgrade, LinkFirst,
                        GrowTable, LinkNext, WriteRoot, UnlinkLock, UnlinkNothing, UnlinkRead,
                        UnlinkUpgrade, UnlinkWrite, LockRoot, UpgradeRoot, FindAccess, FindLock, Walk
        <3> QED BY <3>1, <3>2, <3>3
    <2>2. s \in Seq(Rows) /\ Sealed(s)
        <3>1. <<>> \in Seq(Rows) /\ Sealed(<<>>)
            BY DEF Sealed
        <3> QED BY <2>1, <3>1, <1>1 DEF WalkInv, ListInv, TypeOK
    <2> QED BY <2>2, SealedStays
<1>2. ASSUME NEW u \in Threads PROVE WalkOf(u)
    BY DEF WalkInv
<1>3. ASSUME NEW u \in Threads, u # t PROVE WalkOf(u)'
    <2>1. pc'[u] = pc[u] /\ row'[u] = row[u] /\ snap'[u] = snap[u] /\ pos'[u] = pos[u]
        BY <1>3, OthersStay
    <2> QED BY <1>2, <2>1 DEF Below
<1>4. WalkOf(t)'
    <2> USE <1>2
    <2>1. CASE \E k \in Keys : Create(t, k) \/ UnlinkStart(t, k) \/ FindRoot(t, k)
        <3>1. pc[t] = "idle" /\ row[t] = NotFound /\ snap' = snap /\ pos' = pos
            BY <2>1 DEF Create, UnlinkStart, FindRoot, At, RowInv
        <3>2. pc'[t] = "walk" => row' = row
            BY <2>1 DEF Create, UnlinkStart, FindRoot, GoTo, TypeOK
        <3> QED BY <3>1, <3>2 DEF Below
    <2>2. CASE FindRead(t)
        <3>1. key[t] \in Keys /\ root[key[t]] # NoRoot
            BY <2>2 DEF FindRead, At, KeyInv, RowInv, Finding
        <3>2. lists[key[t]] \in Seq(Rows) /\ Len(lists[key[t]]) \in Nat
            BY <3>1 DEF TypeOK
        <3>3. /\ pc'[t] = "walk" /\ row'[t] = root[key[t]] /\ snap'[t] = lists[key[t]]
              /\ pos'[t] = Len(lists[key[t]])
            BY <2>2 DEF FindRead, GoTo, TypeOK
        <3> QED BY <3>1, <3>2, <3>3 DEF RootInv, Below
    <2>3. CASE Walk(t)
        <3>1. /\ pc'[t] = "walk" /\ row'[t] = next[row[t]] /\ snap'[t] = snap[t]
              /\ pos'[t] = pos[t] - 1
            BY <2>3 DEF Walk, At, TypeOK
        <3>2. Len(snap[t]) \in Nat
            BY DEF TypeOK
        <3>3. next[row[t]] = Below(snap[t], pos[t] - 1) /\ pos[t] \in Nat \ {0}
            BY <2>3, RowBelow
        <3> QED BY <3>1, <3>2, <3>3 DEF Below
    <2>4. CASE WalkEnd(t)
        BY <2>4 DEF WalkEnd, GoTo, TypeOK
    <2>5. CASE LinkLock(t) \/ LinkUpgrade(t) \/ UnlinkLock(t) \/ UnlinkUpgrade(t)
        BY <2>5 DEF LinkLock, LinkUpgrade, UnlinkLock, UnlinkUpgrade, LockRoot, UpgradeRoot, At, GoTo, TypeOK
    <2>6. CASE LinkFirst(t) \/ GrowTable(t) \/ LinkNext(t) \/ UnlinkRead(t) \/ FindAccess(t) \/ FindLock(t)
        BY <2>6 DEF LinkFirst, GrowTable, LinkNext, UnlinkRead, FindAccess, FindLock, At, GoTo, TypeOK
    <2>7. CASE WriteRoot(t) \/ UnlinkNothing(t) \/ UnlinkWrite(t)
        BY <2>7 DEF WriteRoot, UnlinkNothing, UnlinkWrite, Return, At, GoTo, TypeOK
    <2> QED BY <2>1, <2>2, <2>3, <2>4, <2>5, <2>6, <2>7 DEF Step
<1>5. ASSUME NEW u \in Threads PROVE WalkOf(u)'
    BY <1>3, <1>4
<1> HIDE DEF WalkOf
<1>6. ASSUME NEW u \in Threads PROVE Sealed(snap[u])'
    BY <1>1 DEF Sealed, Below
<1> QED BY <1>5, <1>6 DEF WalkInv, WalkOf

-----------------------------------------------------------------------------
(* Inv is inductive.                                                       *)
LEMMA NextInv == ASSUME Inv, [Next]_vars PROVE Inv'
<1>1. CASE UNCHANGED vars
    BY <1>1 DEF vars, Inv, TypeOK, OwnerInv, KeyInv, RowInv, OwnRowInv, ListInv, RootInv,
                ApartInv, WalkInv, Sealed, Below
<1>2. CASE Next
    <2> PICK t \in Threads : Step(t)
        BY <1>2 DEF Next, Step
    <2> QED BY TypeStep, OwnerStep, RowStep, OwnRowStep, ListStep, WalkStep DEF Inv
<1> QED BY <1>1, <1>2

(* Inv holds in every reachable state.                                     *)
LEMMA Invariance == Spec => []Inv
BY InitInv, NextInv, PTL DEF Spec

(* Every variable keeps its type: among other things, a walk never reaches *)
(* a row whose next field nobody wrote.                                    *)
THEOREM TypeCorrect == Spec => []TypeOK
<1>1. Inv => TypeOK
    BY DEF Inv
<1> QED BY <1>1, Invariance, PTL

(* hash_table_multimap::link and unlink lose no payment and list none      *)
(* twice: the rows of a key are always exactly those linked under it and   *)
(* not unlinked, newest first.                                             *)
THEOREM NoPaymentLost == Spec => []PaymentsListed
<1>1. Inv => PaymentsListed
    BY DEF Inv, ListInv, RootInv, ApartInv, Sealed, PaymentsListed
<1> QED BY <1>1, Invariance, PTL

(* hash_table_multimap::find and payment_iterator: a walk without a lock   *)
(* sees the list as it was when find() read the root.                      *)
THEOREM WalksAreSnapshots == Spec => []WalkIsSnapshot
<1>1. Inv => WalkIsSnapshot
    BY DEF Inv, WalkInv, WalkIsSnapshot
<1> QED BY <1>1, Invariance, PTL

=============================================================================
