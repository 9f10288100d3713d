----------------------------- MODULE PaymentIndex -----------------------------
(***************************************************************************)
(* hash_table_multimap (impl/hash_table_multimap.ipp) as payment_database  *)
(* uses it: a hash table maps each key to a root, which holds the link of  *)
(* the first row of a list; rows are in a file of their own.  catalog() of *)
(* several threads, and readers, run at once.                              *)
(*                                                                         *)
(* The hash table is what KeyStore says: finding and linking a root each   *)
(* happen at one moment.  Its file is the file_storage of FileStorage: to  *)
(* grow it waits until no accessor is left, and no accessor is given out   *)
(* while it waits.                                                         *)
(***************************************************************************)
EXTENDS Integers, Sequences

CONSTANTS
    Threads,    \* threads that store and find payments
    NoThread,   \* "nobody" as the owner of root_mutex_
    Keys,       \* payment keys
    NoKey,      \* the key of a thread in no call
    NotFound,   \* not_found: the terminator of a list
    NoRoot,     \* a key that the hash table does not have
    Unwritten,  \* the next field of a row that nobody linked
    MaxRows     \* rows that are ever allocated (bound)

Rows == 0..(MaxRows - 1)

ASSUME IndexAssumption ==
    /\ NoThread \notin Threads
    /\ NoKey \notin Keys
    /\ MaxRows \in Nat
    /\ {NotFound, NoRoot, Unwritten} \cap Nat = {}
    /\ NotFound # NoRoot /\ NotFound # Unwritten /\ NoRoot # Unwritten

VARIABLES
    count,  \* rows allocated
    root,   \* the link in the root of each key, or NoRoot
    next,   \* next field of each row
    owner,  \* upgrade or exclusive owner of root_mutex_
    pc,     \* where each thread is
    key,    \* the key of its call
    row,    \* the row it links or unlinks, or where its walk has got to
    lists,  \* history: the rows of each key, oldest first
    snap,   \* history: the list when find() read the root
    pos     \* history: index in snap of the row of the walk

vars == <<count, root, next, owner, pc, key, row, lists, snap, pos>>

Init ==
    /\ count = 0
    /\ root = [k \in Keys |-> NoRoot]
    /\ next = [r \in Rows |-> Unwritten]
    /\ owner = NoThread
    /\ pc = [t \in Threads |-> "idle"]
    /\ key = [t \in Threads |-> NoKey]
    /\ row = [t \in Threads |-> NotFound]
    /\ lists = [k \in Keys |-> <<>>]
    /\ snap = [t \in Threads |-> <<>>]
    /\ pos = [t \in Threads |-> 0]

(* Threads that hold an accessor of the hash table's file in find(), those *)
(* of them that hold root_mutex_ shared, and whether it is held exclusive. *)
Accessing == {t \in Threads : pc[t] \in {"accessor", "first"}}
Sharing == {t \in Threads : pc[t] = "first"}
Exclusive == \E t \in Threads : pc[t] \in {"linking", "grow", "create_root", "write_root", "write_next"}

At(t, location) == pc[t] = location
GoTo(t, location) == pc' = [pc EXCEPT ![t] = location]

(* root_mutex_.unlock() or unlock_upgrade(), and return.                   *)
Return(t) ==
    /\ owner' = NoThread
    /\ GoTo(t, "idle")
    /\ key' = [key EXCEPT ![t] = NoKey]
    /\ row' = [row EXCEPT ![t] = NotFound]

(* root_mutex_.lock_upgrade(): shared owners may coexist.                  *)
LockRoot(t, from, to) ==
    /\ At(t, from)
    /\ owner = NoThread
    /\ owner' = t
    /\ GoTo(t, to)
    /\ UNCHANGED <<count, root, next, key, row, lists, snap, pos>>

(* root_mutex_.unlock_upgrade_and_lock(): waits for the shared owners.     *)
UpgradeRoot(t, from, to) ==
    /\ At(t, from)
    /\ Sharing = {}
    /\ GoTo(t, to)
    /\ UNCHANGED <<count, root, next, owner, key, row, lists, snap, pos>>

-----------------------------------------------------------------------------
(* payment_database::store.                                                *)

(* Mutant: a row is allocated and lost.                                    *)
CreateTwo(t, k) ==
    /\ At(t, "idle")
    /\ count < MaxRows
    /\ count' = count + 2
    /\ key' = [key EXCEPT ![t] = k]
    /\ row' = [row EXCEPT ![t] = count]
    /\ GoTo(t, "link")
    /\ UNCHANGED <<root, next, owner, lists, snap, pos>>

(* allocator() and create(write): a row without key.                       *)
Create(t, k) ==
    /\ At(t, "idle")
    /\ count < MaxRows
    /\ count' = count + 1
    /\ key' = [key EXCEPT ![t] = k]
    /\ row' = [row EXCEPT ![t] = count]
    /\ GoTo(t, "link")
    /\ UNCHANGED <<root, next, owner, lists, snap, pos>>

(* Mutant: the root is looked up before root_mutex_ is taken.              *)
LinkLockLate(t) ==
    /\ At(t, "link")
    /\ owner' = t
    /\ GoTo(t, "upgrade")
    /\ UNCHANGED <<count, root, next, key, row, lists, snap, pos>>

(* link(key, element): map_.find(key) under the upgrade lock, which keeps  *)
(* what it found from changing, so that it is looked at when it is used.   *)
LinkLock(t) == LockRoot(t, "link", "upgrade")
LinkUpgrade(t) == UpgradeRoot(t, "upgrade", "linking")

(* There is no root: the list ends here, and a root is created, for which  *)
(* the file of the hash table may have to grow.                            *)
LinkFirst(t) ==
    /\ At(t, "linking")
    /\ root[key[t]] = NoRoot
    /\ next' = [next EXCEPT ![row[t]] = NotFound]
    /\ \E location \in {"grow", "create_root"} : GoTo(t, location)
    /\ UNCHANGED <<count, root, owner, key, row, lists, snap, pos>>

(* file_storage::reserve, with root_mutex_ held.                           *)
GrowTable(t) ==
    /\ At(t, "grow")
    /\ Accessing = {}
    /\ GoTo(t, "create_root")
    /\ UNCHANGED <<count, root, next, owner, key, row, lists, snap, pos>>

(* There is a root, perhaps of an empty list.                              *)
LinkNext(t) ==
    /\ At(t, "linking")
    /\ root[key[t]] # NoRoot
    /\ next' = [next EXCEPT ![row[t]] = root[key[t]]]
    /\ GoTo(t, "write_root")
    /\ UNCHANGED <<count, root, owner, key, row, lists, snap, pos>>

(* new_root.create and map_.link, or root.write.                           *)
WriteRoot(t) ==
    /\ At(t, "create_root") \/ At(t, "write_root")
    /\ root' = [root EXCEPT ![key[t]] = row[t]]
    /\ lists' = [lists EXCEPT ![key[t]] = Append(@, row[t])]
    /\ Return(t)
    /\ UNCHANGED <<count, next, snap, pos>>

-----------------------------------------------------------------------------
(* unlink(key).                                                            *)

UnlinkStart(t, k) ==
    /\ At(t, "idle")
    /\ key' = [key EXCEPT ![t] = k]
    /\ GoTo(t, "unlink")
    /\ UNCHANGED <<count, root, next, owner, row, lists, snap, pos>>

UnlinkLock(t) == LockRoot(t, "unlink", "unlinking")

(* There is no root, or the root is that of an empty list.                 *)
UnlinkNothing(t) ==
    /\ At(t, "unlinking")
    /\ root[key[t]] \in {NoRoot, NotFound}
    /\ Return(t)
    /\ UNCHANGED <<count, root, next, lists, snap, pos>>

UnlinkRead(t) ==
    /\ At(t, "unlinking")
    /\ root[key[t]] \in Rows
    /\ row' = [row EXCEPT ![t] = root[key[t]]]
    /\ GoTo(t, "unlink_upgrade")
    /\ UNCHANGED <<count, root, next, owner, key, lists, snap, pos>>

UnlinkUpgrade(t) == UpgradeRoot(t, "unlink_upgrade", "write_next")

(* Mutant: the row that leaves the list is terminated.                     *)
UnlinkWriteClears(t) ==
    /\ At(t, "write_next")
    /\ root' = [root EXCEPT ![key[t]] = next[row[t]]]
    /\ next' = [next EXCEPT ![row[t]] = NotFound]
    /\ lists' = [lists EXCEPT ![key[t]] = SubSeq(@, 1, Len(@) - 1)]
    /\ Return(t)
    /\ UNCHANGED <<count, snap, pos>>

UnlinkWrite(t) ==
    /\ At(t, "write_next")
    /\ root' = [root EXCEPT ![key[t]] = next[row[t]]]
    /\ lists' = [lists EXCEPT ![key[t]] = SubSeq(@, 1, Len(@) - 1)]
    /\ Return(t)
    /\ UNCHANGED <<count, next, snap, pos>>

-----------------------------------------------------------------------------
(* find(key), and the walk of payment_iterator over the rows.              *)

(* map_.find(key).                                                         *)
FindRoot(t, k) ==
    /\ At(t, "idle")
    /\ key' = [key EXCEPT ![t] = k]
    /\ GoTo(t, IF root[k] = NoRoot THEN "walk" ELSE "find")
    /\ UNCHANGED <<count, root, next, owner, row, lists, snap, pos>>

(* element.read(reader) takes an accessor of the hash table's file...      *)
FindAccess(t) ==
    /\ At(t, "find")
    /\ \A u \in Threads : ~At(u, "grow")
    /\ GoTo(t, "accessor")
    /\ UNCHANGED <<count, root, next, owner, key, row, lists, snap, pos>>

(* ...and with it, in the reader, root_mutex_ shared.                      *)
FindLock(t) ==
    /\ At(t, "accessor")
    /\ ~Exclusive
    /\ GoTo(t, "first")
    /\ UNCHANGED <<count, root, next, owner, key, row, lists, snap, pos>>

FindRead(t) ==
    /\ At(t, "first")
    /\ row' = [row EXCEPT ![t] = root[key[t]]]
    /\ snap' = [snap EXCEPT ![t] = lists[key[t]]]
    /\ pos' = [pos EXCEPT ![t] = Len(lists[key[t]])]
    /\ GoTo(t, "walk")
    /\ UNCHANGED <<count, root, next, owner, key, lists>>

Walk(t) ==
    /\ At(t, "walk")
    /\ row[t] # NotFound
    /\ row' = [row EXCEPT ![t] = next[row[t]]]
    /\ pos' = [pos EXCEPT ![t] = @ - 1]
    /\ UNCHANGED <<count, root, next, owner, pc, key, lists, snap>>

WalkEnd(t) ==
    /\ At(t, "walk")
    /\ row[t] = NotFound
    /\ GoTo(t, "idle")
    /\ key' = [key EXCEPT ![t] = NoKey]
    /\ snap' = [snap EXCEPT ![t] = <<>>]
    /\ pos' = [pos EXCEPT ![t] = 0]
    /\ UNCHANGED <<count, root, next, owner, row, lists>>

-----------------------------------------------------------------------------
Next ==
    \E t \in Threads :
        \/ \E k \in Keys : Create(t, k) \/ UnlinkStart(t, k) \/ FindRoot(t, k)
        \/ LinkLock(t) \/ LinkUpgrade(t) \/ LinkFirst(t) \/ GrowTable(t)
        \/ LinkNext(t) \/ WriteRoot(t)
        \/ UnlinkLock(t) \/ UnlinkNothing(t) \/ UnlinkRead(t)
        \/ UnlinkUpgrade(t) \/ UnlinkWrite(t)
        \/ FindAccess(t) \/ FindLock(t) \/ FindRead(t) \/ Walk(t) \/ WalkEnd(t)

Spec == Init /\ [][Next]_vars

-----------------------------------------------------------------------------
Locations ==
    {"idle", "link", "upgrade", "linking", "grow", "create_root", "write_root",
     "unlink", "unlinking", "unlink_upgrade", "write_next",
     "find", "accessor", "first", "walk"}

TypeOK ==
    /\ count \in 0..MaxRows
    /\ root \in [Keys -> Rows \cup {NotFound, NoRoot}]
    /\ next \in [Rows -> Rows \cup {NotFound, Unwritten}]
    /\ owner \in Threads \cup {NoThread}
    /\ pc \in [Threads -> Locations]
    /\ key \in [Threads -> Keys \cup {NoKey}]
    /\ row \in [Threads -> Rows \cup {NotFound}]
    /\ lists \in [Keys -> Seq(Rows)]
    /\ snap \in [Threads -> Seq(Rows)]
    /\ pos \in [Threads -> Nat]

Below(s, i) == IF i = 0 THEN NotFound ELSE s[i]

(* No payment is lost or listed twice, whatever the interleaving: the list *)
(* of a key is the rows linked under it and not unlinked, newest first     *)
(* (hash_table_multimap.ipp, link and unlink).                             *)
PaymentsListed ==
    \A k \in Keys :
        /\ root[k] = NoRoot => lists[k] = <<>>
        /\ root[k] # NoRoot => root[k] = Below(lists[k], Len(lists[k]))
        /\ \A i \in 1..Len(lists[k]) : next[lists[k][i]] = Below(lists[k], i - 1)
        /\ \A j \in Keys : \A a \in 1..Len(lists[k]), b \in 1..Len(lists[j]) :
              lists[k][a] = lists[j][b] => k = j /\ a = b

(* A walk sees the list as it was when find() read the root, all of it and *)
(* nothing else, although it holds no lock and rows are linked and         *)
(* unlinked under it (hash_table_multimap.ipp, find; payment_iterator).    *)
WalkIsSnapshot ==
    \A t \in Threads : pc[t] = "walk" => row[t] = Below(snap[t], pos[t])

(* "This class provides thread safe access to the database"                *)
(* (data_base.hpp): no thread that holds root_mutex_ waits for the         *)
(* accessor of a thread that waits for root_mutex_.  find() takes the      *)
(* accessor first, link() the mutex.                                       *)
NoCircularWait ==
    \A t, u \in Threads : ~(pc[t] = "grow" /\ pc[u] = "accessor")
=============================================================================
