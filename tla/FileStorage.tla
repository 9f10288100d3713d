----------------------------- MODULE FileStorage -----------------------------
(***************************************************************************)
(* file_storage (src/src/memory/file_storage.cpp): a memory mapped file    *)
(* that grows while other threads hold pointers into it, and accessor      *)
(* (src/src/memory/accessor.cpp), the RAII pointer that keeps the mapping  *)
(* from moving.  Everything is guarded by one upgrade mutex.               *)
(*                                                                         *)
(* Every lock transition of the code is an action of its own, so that the  *)
(* calls of several threads interleave exactly where the code lets them.   *)
(* What happens under the exclusive lock is one action: no other thread    *)
(* can look at the state in between.                                       *)
(***************************************************************************)
EXTENDS Integers, Sequences

CONSTANTS
    Threads,        \* threads that use the file
    NoThread,       \* "nobody" as the owner of a lock
    InitialSize,    \* bytes of the file when the object is constructed
    Minimum,        \* minimum_: smallest size that reserve() grows to
    Expansion,      \* expansion_: growth of reserve(), in percent
    Requests,       \* the sizes callers ask for
    DiskLimit,      \* largest size that ftruncate and mremap grant (bound)
    MaxHeld,        \* accessors that a thread holds at once (bound)
    MaxMappings     \* mappings that open() may create (bound)

ASSUME ThreadsAssumption == NoThread \notin Threads
ASSUME SizeAssumption ==
    /\ InitialSize \in Nat \ {0}
    /\ Minimum \in Nat
    /\ Expansion \in Nat
    /\ DiskLimit \in Nat
    /\ Requests \subseteq Nat \ {0}
    /\ MaxHeld \in Nat \ {0}
    /\ MaxMappings \in Nat

VARIABLES
    closed,     \* closed_
    data,       \* data_: which mapping the pointer names, 0 for nullptr
    mapped,     \* whether that mapping is live (mmap without munmap)
    capacity,   \* capacity_
    logical,    \* logical_size_
    disk,       \* physical size of the file
    handle,     \* whether file_handle_ is still an open descriptor
    faulty,     \* history: a system call on an open descriptor has failed
    upgrade,    \* owner of the upgrade lock of mutex_
    exclusive,  \* owner of the exclusive lock of mutex_
    held,       \* accessors of each thread: the shared locks it holds
    pc,         \* where each thread is
    call        \* the call each thread is in

fileVars == <<closed, data, mapped, capacity, logical, disk, handle, faulty>>
vars == <<closed, data, mapped, capacity, logical, disk, handle, faulty,
          upgrade, exclusive, held, pc, call>>

NoCall == [op |-> "none", required |-> 0]
Ops == {"open", "flush", "close", "access", "reserve", "resize"}
Calls ==
    {c \in [op : Ops, required : Requests \cup {0}] :
        c.required # 0 <=> c.op \in {"reserve", "resize"}}
Accessor == [data : Nat, size : Nat]
Locations == {"idle", "lock", "upgraded", "wait", "exclusive", "resized"}

Init ==
    /\ closed = TRUE
    /\ data = 0
    /\ mapped = FALSE
    /\ capacity = InitialSize
    /\ logical = InitialSize
    /\ disk = InitialSize
    /\ handle = TRUE
    /\ faulty = FALSE
    /\ upgrade = NoThread
    /\ exclusive = NoThread
    /\ held = [t \in Threads |-> <<>>]
    /\ pc = [t \in Threads |-> "idle"]
    /\ call = [t \in Threads |-> NoCall]

-----------------------------------------------------------------------------
(* The upgrade mutex: boost::upgrade_mutex, as the code uses it.           *)

NoShared == \A t \in Threads : held[t] = <<>>

(* lock_upgrade: shared owners may coexist, another upgrade or exclusive   *)
(* owner may not.  Constructing an accessor does this too.                 *)
LockUpgrade(t) ==
    /\ pc[t] = "lock"
    /\ upgrade = NoThread
    /\ exclusive = NoThread
    /\ upgrade' = t
    /\ pc' = [pc EXCEPT ![t] = "upgraded"]
    /\ UNCHANGED <<fileVars, exclusive, held, call>>

(* Mutant: the upgrade does not wait for the readers.                      *)
UnlockUpgradeAndLockEager(t) ==
    /\ pc[t] = "wait"
    /\ upgrade' = NoThread
    /\ exclusive' = t
    /\ pc' = [pc EXCEPT ![t] = "exclusive"]
    /\ UNCHANGED <<fileVars, held, call>>

(* unlock_upgrade_and_lock: granted when the last shared owner has left.   *)
(* Until then the upgrade lock is kept, so nobody else can take it.        *)
UnlockUpgradeAndLock(t) ==
    /\ pc[t] = "wait"
    /\ NoShared
    /\ upgrade' = NoThread
    /\ exclusive' = t
    /\ pc' = [pc EXCEPT ![t] = "exclusive"]
    /\ UNCHANGED <<fileVars, held, call>>

-----------------------------------------------------------------------------
(* Ends of calls.                                                          *)

Return(t) ==
    /\ pc' = [pc EXCEPT ![t] = "idle"]
    /\ call' = [call EXCEPT ![t] = NoCall]

(* unlock_upgrade and return.                                              *)
LeaveUpgrade(t) ==
    /\ upgrade' = NoThread
    /\ Return(t)
    /\ UNCHANGED <<exclusive, held>>

(* unlock and return.                                                      *)
LeaveExclusive(t) ==
    /\ exclusive' = NoThread
    /\ Return(t)
    /\ UNCHANGED <<upgrade, held>>

(* accessor::assign trades the upgrade lock for a shared one and hands the *)
(* pointer out.  The shared lock lives as long as the accessor.            *)
Assign(t) ==
    /\ upgrade' = NoThread
    /\ held' = [held EXCEPT ![t] = Append(@, [data |-> data, size |-> capacity])]
    /\ Return(t)
    /\ UNCHANGED exclusive

(* Mutant: the exception leaves with the upgrade lock.                     *)
AssignAndThrowLocked(t) ==
    /\ Return(t)
    /\ UNCHANGED <<upgrade, exclusive, held>>

(* The exception leaves access() or reserve() on a closed file after       *)
(* assign(): unwinding destroys the accessor and with it the shared lock.  *)
AssignAndThrow(t) == LeaveUpgrade(t)

-----------------------------------------------------------------------------
(* Calls.                                                                  *)

(* A thread asks for more than access() only when it holds no accessor     *)
(* (it would wait for itself).  The second accessor that MaxHeld = 2       *)
(* allows is the one block_result takes when it calls element_.key()       *)
(* inside element_.read().                                                 *)
Call(t, c) ==
    /\ pc[t] = "idle"
    /\ exclusive # t
    /\ c.op = "open" => data < MaxMappings
    /\ IF c.op = "access" THEN Len(held[t]) < MaxHeld ELSE held[t] = <<>>
    /\ pc' = [pc EXCEPT ![t] = "lock"]
    /\ call' = [call EXCEPT ![t] = c]
    /\ UNCHANGED <<fileVars, upgrade, exclusive, held>>

(* ~accessor.                                                              *)
Release(t) ==
    /\ pc[t] = "idle"
    /\ held[t] # <<>>
    /\ held' = [held EXCEPT ![t] = SubSeq(@, 1, Len(@) - 1)]
    /\ UNCHANGED <<fileVars, upgrade, exclusive, pc, call>>

At(t, location, ops) == pc[t] = location /\ call[t].op \in ops

(* open(), flush() and close() return early when there is nothing to do,   *)
(* and otherwise wait for the exclusive lock.                              *)
ReturnEarly(t) ==
    /\ \/ At(t, "upgraded", {"open"}) /\ ~closed /\ LeaveUpgrade(t)
       \/ At(t, "upgraded", {"flush", "close"}) /\ closed /\ LeaveUpgrade(t)
    /\ UNCHANGED fileVars

RequestExclusive(t) ==
    /\ \/ At(t, "upgraded", {"open"}) /\ closed
       \/ At(t, "upgraded", {"flush", "close"}) /\ ~closed
    /\ pc' = [pc EXCEPT ![t] = "wait"]
    /\ UNCHANGED <<fileVars, upgrade, exclusive, held, call>>

(* open() under the exclusive lock: map() and madvise().                   *)
OpenMap(t) ==
    /\ At(t, "exclusive", {"open"})
    /\ \/ /\ capacity > 0 /\ handle
          /\ data' = data + 1
          /\ mapped' = TRUE
          /\ UNCHANGED capacity
          /\ \/ closed' = FALSE /\ UNCHANGED faulty
             \/ faulty' = TRUE /\ UNCHANGED closed          \* madvise
          /\ LeaveExclusive(t)
       \/ /\ capacity > 0
          /\ faulty' = (faulty \/ handle)                   \* mmap
          /\ data' = 0
          /\ capacity' = 0
          /\ UNCHANGED <<closed, mapped>>
          /\ LeaveExclusive(t)
       \/ /\ capacity = 0
          /\ UNCHANGED <<closed, data, mapped, capacity, faulty>>
          /\ LeaveExclusive(t)
    /\ UNCHANGED <<logical, disk, handle>>

(* flush() under the exclusive lock: msync, whose failure is only returned.*)
FlushSync(t) ==
    /\ At(t, "exclusive", {"flush"})
    /\ LeaveExclusive(t)
    /\ UNCHANGED fileVars

(* close() under the exclusive lock.  It is marked closed first, and each  *)
(* of the five system calls that follow is made only if those before it    *)
(* succeeded.                                                              *)
CloseUnmap(t) ==
    /\ At(t, "exclusive", {"close"})
    /\ closed' = TRUE
    /\ \/ /\ logical <= capacity
          /\ mapped' = FALSE
          /\ disk' = logical
          /\ handle' = FALSE
          /\ UNCHANGED faulty
          /\ LeaveExclusive(t)
       \/ /\ faulty' = (faulty \/ logical <= capacity)      \* fit, msync, munmap
          /\ UNCHANGED <<mapped, disk, handle>>
          /\ LeaveExclusive(t)
       \/ /\ logical <= capacity
          /\ faulty' = TRUE
          /\ mapped' = FALSE
          /\ \/ UNCHANGED disk                              \* ftruncate
             \/ disk' = logical                             \* fsync, close
          /\ UNCHANGED handle
          /\ LeaveExclusive(t)
    /\ UNCHANGED <<data, capacity, logical>>

(* access().                                                               *)
Access(t) ==
    /\ At(t, "upgraded", {"access"})
    /\ IF closed THEN AssignAndThrow(t) ELSE Assign(t)
    /\ UNCHANGED fileVars

-----------------------------------------------------------------------------
(* reserve(required) and resize(required), which is reserve with minimum   *)
(* and expansion zero.                                                     *)

Larger(a, b) == IF a < b THEN b ELSE a

Target(c) ==
    IF c.op = "resize"
    THEN c.required
    ELSE Larger(Minimum, (c.required * (Expansion + 100)) \div 100)

ReserveClosed(t) ==
    /\ At(t, "upgraded", {"reserve", "resize"})
    /\ closed
    /\ AssignAndThrow(t)
    /\ UNCHANGED fileVars

(* Mutant: a closed file is resized, too.                                  *)
ReserveWaitUnguarded(t) ==
    /\ At(t, "upgraded", {"reserve", "resize"})
    /\ call[t].required > capacity
    /\ pc' = [pc EXCEPT ![t] = "wait"]
    /\ UNCHANGED <<fileVars, upgrade, exclusive, held, call>>

(* The request exceeds the mapping: wait for every accessor to go.         *)
ReserveWait(t) ==
    /\ At(t, "upgraded", {"reserve", "resize"})
    /\ ~closed
    /\ call[t].required > capacity
    /\ pc' = [pc EXCEPT ![t] = "wait"]
    /\ UNCHANGED <<fileVars, upgrade, exclusive, held, call>>

(* truncate_mapped(target): ftruncate, then mremap, which may move the     *)
(* mapping; then unlock_and_lock_upgrade.                                  *)
TruncateMapped(t) ==
    /\ At(t, "exclusive", {"reserve", "resize"})
    /\ Target(call[t]) <= DiskLimit
    /\ disk' = Target(call[t])
    /\ capacity' = Target(call[t])
    /\ data' \in {data, data + 1}
    /\ exclusive' = NoThread
    /\ upgrade' = t
    /\ pc' = [pc EXCEPT ![t] = "resized"]
    /\ UNCHANGED <<closed, mapped, logical, handle, faulty, held, call>>

(* truncate_mapped failed and reserve() throws with the exclusive lock     *)
(* held.  ~accessor then calls unlock_shared on a mutex that is locked     *)
(* exclusively, which releases nothing.  Either ftruncate failed and the   *)
(* mapping is as it was, or mremap failed and validate() cleared it.       *)
TruncateFailed(t) ==
    /\ At(t, "exclusive", {"reserve", "resize"})
    /\ faulty' = TRUE
    /\ \/ UNCHANGED <<data, capacity, disk>>
       \/ data' = 0 /\ capacity' = 0 /\ disk' = Target(call[t])
    /\ Return(t)
    /\ UNCHANGED <<closed, mapped, logical, handle, upgrade, exclusive, held>>

(* Mutant: a request one larger than the mapping is taken to fit.          *)
ReserveAssignOffByOne(t) ==
    /\ \/ At(t, "upgraded", {"reserve", "resize"}) /\ ~closed /\ call[t].required <= capacity + 1
       \/ At(t, "resized", {"reserve", "resize"})
    /\ logical' = call[t].required
    /\ Assign(t)
    /\ UNCHANGED <<closed, data, mapped, capacity, disk, handle, faulty>>

(* Mutant: the logical size is set to the growth.                          *)
ReserveAssignDelta(t) ==
    /\ \/ At(t, "upgraded", {"reserve", "resize"}) /\ ~closed /\ call[t].required <= capacity
       \/ At(t, "resized", {"reserve", "resize"})
    /\ logical' = call[t].required - logical
    /\ Assign(t)
    /\ UNCHANGED <<closed, data, mapped, capacity, disk, handle, faulty>>

(* The request fits, at once or after the resize.                          *)
ReserveAssign(t) ==
    /\ \/ At(t, "upgraded", {"reserve", "resize"}) /\ ~closed /\ call[t].required <= capacity
       \/ At(t, "resized", {"reserve", "resize"})
    /\ logical' = call[t].required
    /\ Assign(t)
    /\ UNCHANGED <<closed, data, mapped, capacity, disk, handle, faulty>>

-----------------------------------------------------------------------------
Proceed(t) ==
    \/ LockUpgrade(t)
    \/ UnlockUpgradeAndLock(t)
    \/ Release(t)
    \/ ReturnEarly(t)
    \/ RequestExclusive(t)
    \/ OpenMap(t)
    \/ FlushSync(t)
    \/ CloseUnmap(t)
    \/ Access(t)
    \/ ReserveClosed(t)
    \/ ReserveWait(t)
    \/ TruncateMapped(t)
    \/ TruncateFailed(t)
    \/ ReserveAssign(t)

Next == \E t \in Threads : Proceed(t) \/ \E c \in Calls : Call(t, c)

(* A thread inside a call goes on, and a reader is done with its memory    *)
(* some day.  Nothing is assumed about who gets the mutex: the code takes  *)
(* a boost mutex, which does not queue.                                    *)
Fairness == \A t \in Threads : WF_vars(Proceed(t))

Spec == Init /\ [][Next]_vars /\ Fairness

-----------------------------------------------------------------------------
TypeOK ==
    /\ closed \in BOOLEAN
    /\ data \in Nat
    /\ mapped \in BOOLEAN
    /\ capacity \in Nat
    /\ logical \in Nat
    /\ disk \in Nat
    /\ handle \in BOOLEAN
    /\ faulty \in BOOLEAN
    /\ upgrade \in Threads \cup {NoThread}
    /\ exclusive \in Threads \cup {NoThread}
    /\ held \in [Threads -> Seq(Accessor)]
    /\ pc \in [Threads -> Locations]
    /\ call \in [Threads -> Calls \cup {NoCall}]

(* A pointer handed out by access(), reserve() or resize() points into the *)
(* live mapping, and the mapping is at least as large as when it was       *)
(* handed out, for as long as the accessor lives: no thread resizes,       *)
(* unmaps or moves the file under a reader (file_storage.cpp, access,      *)
(* reserve, close).                                                        *)
AccessorsValid ==
    \A t \in Threads : \A i \in 1..Len(held[t]) :
        /\ mapped
        /\ held[t][i].data = data
        /\ held[t][i].size <= capacity

(* While the file is open its logical size fits the mapping, so close()    *)
(* never fails to "fit", and the mapping fits the file on disk, so that no *)
(* access goes past its end; unless a system call failed before.           *)
SizesNested ==
    ~faulty /\ ~closed => logical <= capacity /\ capacity <= disk /\ mapped

(* What a successful close() leaves on disk stays as it is: no later call  *)
(* of any thread, and none that saw the file open and waits, changes its   *)
(* size or opens it again (file_storage.cpp, close).                       *)
TrimmedForGood ==
    [][~handle => ~handle' /\ disk' = disk /\ closed']_vars

(* A resize failed: its thread left reserve() with the exclusive lock.     *)
Wedged == \E t \in Threads : exclusive = t /\ pc[t] # "exclusive"

(* A circular wait: one thread has the upgrade lock and waits for the      *)
(* accessors to go, another has an accessor and waits for the lock, to get *)
(* a second one.                                                           *)
Crossed ==
    \E t, u \in Threads :
        /\ upgrade = t /\ pc[t] = "wait"
        /\ held[u] # <<>> /\ pc[u] = "lock"

(* Whoever takes the upgrade or the exclusive lock gives it back, also     *)
(* when a system call fails (file_storage.hpp: "thread safe, allowing      *)
(* concurent read and write").  It does not in two cases, and these are    *)
(* all: a resize that fails keeps the lock for good, and a reader that     *)
(* asks for a second accessor of the file, as block_result does (its       *)
(* constructor and header() call element_.key() inside element_.read()),   *)
(* waits for a resize, flush or close that waits for its first one.        *)
LockReleased ==
    \A t \in Threads :
        (upgrade = t \/ exclusive = t) ~> (upgrade # t /\ exclusive # t) \/ Wedged \/ Crossed
=============================================================================
