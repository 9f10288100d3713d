-------------------------- MODULE FileStorage_proof --------------------------
(***************************************************************************)
(* Proofs about FileStorage: for any number of threads, any sizes and any  *)
(* failures of the system calls, a pointer handed out stays valid.         *)
(***************************************************************************)
EXTENDS FileStorage, SequenceTheorems, TLAPS

(* The lock owners and the locations of the threads agree, and the         *)
(* exclusive lock excludes every accessor.                                 *)
MutexInv ==
    /\ \A t \in Threads : pc[t] \in {"upgraded", "wait", "resized"} <=> upgrade = t
    /\ \A t \in Threads : pc[t] = "exclusive" => exclusive = t
    /\ exclusive # NoThread => upgrade = NoThread /\ NoShared

(* What a thread established before it waited for the exclusive lock is    *)
(* still true when it gets it: only the owner of the exclusive lock opens, *)
(* closes or resizes the file.                                             *)
CallInv ==
    \A t \in Threads :
        /\ pc[t] # "idle" => call[t] \in Calls
        /\ pc[t] \in {"wait", "exclusive"} =>
              \/ call[t].op = "open" /\ closed
              \/ call[t].op \in {"flush", "close"} /\ ~closed
              \/ call[t].op \in {"reserve", "resize"} /\ ~closed /\ call[t].required > capacity
        /\ pc[t] = "resized" => call[t].op \in {"reserve", "resize"} /\ ~closed

Inv ==
    /\ TypeOK
    /\ MutexInv
    /\ CallInv
    /\ ~closed => mapped
    /\ AccessorsValid

(* What is known of a call.                                                *)
LEMMA CallType ==
    ASSUME NEW c \in Calls
    PROVE  c.op \in Ops /\ c.required \in Nat
<1>1. c.op \in Ops /\ c.required \in Requests \cup {0}
  BY DEF Calls
<1>2. Requests \cup {0} \subseteq Nat
  BY SizeAssumption
<1> QED
  BY <1>1, <1>2

(* Growing never grants less than was asked for.                           *)
LEMMA TargetCovers ==
    ASSUME NEW c \in Calls
    PROVE  Target(c) \in Nat /\ Target(c) >= c.required
<1>1. c.required \in Nat /\ Expansion \in Nat /\ Minimum \in Nat
  BY CallType, SizeAssumption
<1>2. CASE c.op = "resize"
  BY <1>1, <1>2 DEF Target
<1>3. CASE c.op # "resize"
  <2>1. PICK y \in Nat : y = c.required * Expansion
    BY <1>1
  <2>2. c.required * (Expansion + 100) = y + 100 * c.required
    BY <1>1, <2>1
  <2>3. /\ (y + 100 * c.required) \div 100 >= c.required
        /\ (y + 100 * c.required) \div 100 \in Nat
    BY <1>1, <2>1
  <2> QED
    BY <1>1, <1>3, <2>2, <2>3 DEF Target, Larger
<1> QED
  BY <1>2, <1>3

(* A file that nobody opened has no accessor.                              *)
LEMMA InitInv == Init => Inv
<1> SUFFICES ASSUME Init PROVE Inv
  OBVIOUS
<1>1. TypeOK
  <2>1. <<>> \in Seq(Accessor)
    OBVIOUS
  <2>2. InitialSize \in Nat
    BY SizeAssumption
  <2> QED
    BY <2>1, <2>2 DEF Init, TypeOK, Locations
<1>2. MutexInv
  BY ThreadsAssumption DEF Init, MutexInv, NoShared
<1>3. CallInv
  BY DEF Init, CallInv
<1>4. AccessorsValid
  BY DEF Init, AccessorsValid
<1> QED
  BY <1>1, <1>2, <1>3, <1>4 DEF Inv, Init

(* The last accessor is released.                                          *)
LEMMA ReleaseSeq ==
    ASSUME NEW s \in Seq(Accessor), s # <<>>
    PROVE  /\ SubSeq(s, 1, Len(s) - 1) \in Seq(Accessor)
           /\ Len(SubSeq(s, 1, Len(s) - 1)) = Len(s) - 1
           /\ \A i \in 1..(Len(s) - 1) : SubSeq(s, 1, Len(s) - 1)[i] = s[i]
<1>1. Len(s) \in Nat /\ Len(s) > 0
  OBVIOUS
<1>2. \A i \in 1..(Len(s) - 1) : s[i] \in Accessor
  BY <1>1
<1>3. PICK n \in Nat : n = Len(s) - 1
  BY <1>1
<1>4. /\ SubSeq(s, 1, n) \in Seq(Accessor)
      /\ Len(SubSeq(s, 1, n)) = IF 1 <= n THEN n - 1 + 1 ELSE 0
      /\ \A i \in 1..(n - 1 + 1) : SubSeq(s, 1, n)[i] = s[1 + i - 1]
  BY <1>2, <1>3, SubSeqProperties
<1>5. Len(SubSeq(s, 1, n)) = n
  BY <1>4
<1>6. ASSUME NEW i \in 1..n PROVE SubSeq(s, 1, n)[i] = s[i]
  <2>1. i \in 1..(n - 1 + 1) /\ 1 + i - 1 = i
    OBVIOUS
  <2> QED
    BY <1>4, <2>1
<1> QED
  BY <1>3, <1>4, <1>5, <1>6

(* accessor::assign hands out the current pointer under a shared lock.     *)
LEMMA AssignInv ==
    ASSUME Inv, ~closed, NEW t \in Threads, Assign(t),
           pc[t] \in {"upgraded", "resized"},
           UNCHANGED <<closed, data, mapped, capacity, disk, handle, faulty>>,
           logical' \in Nat
    PROVE  Inv'
<1> USE ThreadsAssumption DEF Inv, TypeOK, MutexInv, CallInv, NoShared, Locations
<1> DEFINE a == [data |-> data, size |-> capacity]
<1>1. a \in Accessor
  BY DEF Accessor
<1>2. held' = [held EXCEPT ![t] = Append(held[t], a)]
  BY DEF Assign
<1>3. /\ held'[t] \in Seq(Accessor)
      /\ Len(held'[t]) = Len(held[t]) + 1
      /\ \A i \in 1..Len(held[t]) : held'[t][i] = held[t][i]
      /\ held'[t][Len(held[t]) + 1] = a
  BY <1>1, <1>2, AppendProperties
<1>4. TypeOK'
  BY <1>2, <1>3 DEF Assign, Return
<1>5. MutexInv'
  BY DEF Assign, Return
<1>6. CallInv'
  BY DEF Assign, Return
<1>7. AccessorsValid'
  <2> SUFFICES ASSUME NEW u \in Threads, NEW i \in 1..Len(held'[u])
               PROVE  mapped' /\ held'[u][i].data = data' /\ held'[u][i].size <= capacity'
    BY DEF AccessorsValid
  <2>1. CASE u = t /\ i = Len(held[t]) + 1
    BY <1>3, <2>1
  <2>2. CASE u = t /\ i \in 1..Len(held[t])
    BY <1>3, <2>2 DEF AccessorsValid
  <2>3. CASE u # t
    BY <1>2, <2>3 DEF AccessorsValid
  <2>4. u = t => i = Len(held[t]) + 1 \/ i \in 1..Len(held[t])
    BY <1>3
  <2> QED
    BY <2>1, <2>2, <2>3, <2>4
<1> QED
  BY <1>4, <1>5, <1>6, <1>7

(* The invariant is inductive: one step per action.                        *)
LEMMA NextInv == Inv /\ [Next]_vars => Inv'
<1> SUFFICES ASSUME Inv, [Next]_vars PROVE Inv'
  OBVIOUS
<1> USE ThreadsAssumption, SizeAssumption
<1> USE DEF Inv, TypeOK, MutexInv, CallInv, NoShared, Locations
<1>1. ASSUME NEW t \in Threads, NEW c \in Calls, Call(t, c) PROVE Inv'
  BY <1>1 DEF Call, AccessorsValid, fileVars
<1>2. ASSUME NEW t \in Threads, LockUpgrade(t) PROVE Inv'
  BY <1>2 DEF LockUpgrade, AccessorsValid, fileVars
<1>3. ASSUME NEW t \in Threads, UnlockUpgradeAndLock(t) PROVE Inv'
  BY <1>3 DEF UnlockUpgradeAndLock, AccessorsValid, fileVars
<1>4. ASSUME NEW t \in Threads, Release(t) PROVE Inv'
  <2>1. held'[t] = SubSeq(held[t], 1, Len(held[t]) - 1)
    BY <1>4 DEF Release
  <2>2. /\ held'[t] \in Seq(Accessor)
        /\ Len(held'[t]) = Len(held[t]) - 1
        /\ \A i \in 1..Len(held'[t]) : held'[t][i] = held[t][i]
    BY <1>4, <2>1, ReleaseSeq DEF Release
  <2>3. AccessorsValid'
    BY <1>4, <2>2 DEF Release, AccessorsValid, fileVars
  <2> QED
    BY <1>4, <2>2, <2>3 DEF Release, fileVars
<1>5. ASSUME NEW t \in Threads, ReturnEarly(t) PROVE Inv'
  <2>1. TypeOK'
    BY <1>5 DEF ReturnEarly, At, LeaveUpgrade, Return, fileVars
  <2>2. MutexInv'
    BY <1>5 DEF ReturnEarly, At, LeaveUpgrade, Return, fileVars
  <2>3. CallInv'
    BY <1>5 DEF ReturnEarly, At, LeaveUpgrade, Return, fileVars
  <2>4. (~closed => mapped)' /\ AccessorsValid'
    BY <1>5 DEF ReturnEarly, At, LeaveUpgrade, Return, fileVars, AccessorsValid
  <2> QED
    BY <2>1, <2>2, <2>3, <2>4
<1>6. ASSUME NEW t \in Threads, RequestExclusive(t) PROVE Inv'
  BY <1>6 DEF RequestExclusive, At, AccessorsValid, fileVars
<1>7. ASSUME NEW t \in Threads, OpenMap(t) PROVE Inv'
  <2>1. TypeOK'
    <3>1. data' \in Nat /\ capacity' \in Nat /\ logical' \in Nat /\ disk' \in Nat
      BY <1>7 DEF OpenMap
    <3>2. /\ closed' \in BOOLEAN /\ mapped' \in BOOLEAN /\ handle' \in BOOLEAN
          /\ faulty' \in BOOLEAN
      BY <1>7 DEF OpenMap
    <3>3. LeaveExclusive(t)
      BY <1>7 DEF OpenMap
    <3> QED
      BY <3>1, <3>2, <3>3 DEF LeaveExclusive, Return
  <2>2. MutexInv'
    BY <1>7 DEF OpenMap, At, LeaveExclusive, Return
  <2>3. CallInv'
    BY <1>7 DEF OpenMap, At, LeaveExclusive, Return
  <2>4. (~closed => mapped)' /\ AccessorsValid'
    BY <1>7 DEF OpenMap, At, LeaveExclusive, Return, AccessorsValid
  <2> QED
    BY <2>1, <2>2, <2>3, <2>4
<1>8. ASSUME NEW t \in Threads, FlushSync(t) PROVE Inv'
  BY <1>8 DEF FlushSync, At, LeaveExclusive, Return, AccessorsValid, fileVars
<1>9. ASSUME NEW t \in Threads, CloseUnmap(t) PROVE Inv'
  <2>1. TypeOK'
    BY <1>9 DEF CloseUnmap, At, LeaveExclusive, Return
  <2>2. MutexInv'
    BY <1>9 DEF CloseUnmap, At, LeaveExclusive, Return
  <2>3. CallInv'
    BY <1>9 DEF CloseUnmap, At, LeaveExclusive, Return
  <2>4. (~closed => mapped)' /\ AccessorsValid'
    BY <1>9 DEF CloseUnmap, At, LeaveExclusive, Return, AccessorsValid
  <2> QED
    BY <2>1, <2>2, <2>3, <2>4
<1>10. ASSUME NEW t \in Threads, Access(t) PROVE Inv'
  <2>1. CASE closed
    <3>1. LeaveUpgrade(t) /\ UNCHANGED fileVars /\ pc[t] = "upgraded"
      BY <1>10, <2>1 DEF Access, AssignAndThrow, At
    <3> QED
      BY <3>1 DEF LeaveUpgrade, Return, fileVars, AccessorsValid
  <2>2. CASE ~closed
    <3>1. Assign(t) /\ UNCHANGED fileVars /\ pc[t] = "upgraded"
      BY <1>10, <2>2 DEF Access, At
    <3> QED
      BY <2>2, <3>1, AssignInv DEF fileVars
  <2> QED
    BY <2>1, <2>2
<1>11. ASSUME NEW t \in Threads, ReserveClosed(t) PROVE Inv'
  BY <1>11 DEF ReserveClosed, AssignAndThrow, LeaveUpgrade, At, Return,
       AccessorsValid, fileVars
<1>12. ASSUME NEW t \in Threads, ReserveWait(t) PROVE Inv'
  BY <1>12 DEF ReserveWait, At, AccessorsValid, fileVars
<1>13. ASSUME NEW t \in Threads, TruncateMapped(t) PROVE Inv'
  <2>1. Target(call[t]) \in Nat
    BY <1>13, TargetCovers DEF TruncateMapped, At
  <2> QED
    BY <1>13, <2>1 DEF TruncateMapped, At, AccessorsValid
<1>14. ASSUME NEW t \in Threads, TruncateFailed(t) PROVE Inv'
  <2>1. Target(call[t]) \in Nat
    BY <1>14, TargetCovers DEF TruncateFailed, At
  <2> QED
    BY <1>14, <2>1 DEF TruncateFailed, At, Return, AccessorsValid
<1>15. ASSUME NEW t \in Threads, ReserveAssign(t) PROVE Inv'
  <2>1. /\ Assign(t)
        /\ ~closed
        /\ pc[t] \in {"upgraded", "resized"}
        /\ UNCHANGED <<closed, data, mapped, capacity, disk, handle, faulty>>
    BY <1>15 DEF ReserveAssign, At
  <2>2. logical' \in Nat
    BY <1>15, CallType DEF ReserveAssign, At
  <2> QED
    BY <2>1, <2>2, AssignInv
<1>16. CASE UNCHANGED vars
  BY <1>16 DEF vars, AccessorsValid
<1> QED
  BY <1>1, <1>2, <1>3, <1>4, <1>5, <1>6, <1>7, <1>8, <1>9, <1>10, <1>11, <1>12,
     <1>13, <1>14, <1>15, <1>16 DEF Next, Proceed

(* The locks, sizes and calls keep their types whatever fails              *)
(* (file_storage.cpp, open, reserve, close).                               *)
THEOREM TypeCorrect == Spec => []TypeOK
<1>1. Inv => TypeOK
  BY DEF Inv
<1> QED
  BY InitInv, NextInv, <1>1, PTL DEF Spec

(* Pointers into the map stay valid while their accessor lives: no thread  *)
(* resizes, moves or unmaps the file under a reader, whatever fails        *)
(* (file_storage.cpp, access, reserve, close).                             *)
THEOREM AccessorsAlwaysValid == Spec => []AccessorsValid
<1>1. Inv => AccessorsValid
  BY DEF Inv
<1> QED
  BY InitInv, NextInv, <1>1, PTL DEF Spec

-----------------------------------------------------------------------------
(* SizesNested is not inductive: the sizes must agree from construction    *)
(* on, and a resize that is about to assign the logical size must have     *)
(* made room for it.                                                       *)
SizesInv ==
    /\ ~closed => handle
    /\ ~faulty /\ handle => logical <= capacity /\ capacity <= disk
    /\ \A t \in Threads : pc[t] = "resized" => call[t].required <= capacity

(* While no call fails the order of the sizes survives every step.         *)
LEMMA SizesNext ==
    ASSUME Inv, SizesInv, [Next]_vars
    PROVE  SizesInv'
<1> USE ThreadsAssumption
<1> USE DEF Inv, TypeOK, MutexInv, CallInv, NoShared, Locations, SizesInv
<1>1. ASSUME NEW t \in Threads, NEW c \in Calls, Call(t, c) PROVE SizesInv'
  BY <1>1 DEF Call, fileVars
<1>2. ASSUME NEW t \in Threads, LockUpgrade(t) PROVE SizesInv'
  BY <1>2 DEF LockUpgrade, fileVars
<1>3. ASSUME NEW t \in Threads, UnlockUpgradeAndLock(t) PROVE SizesInv'
  BY <1>3 DEF UnlockUpgradeAndLock, fileVars
<1>4. ASSUME NEW t \in Threads, Release(t) PROVE SizesInv'
  BY <1>4 DEF Release, fileVars
<1>5. ASSUME NEW t \in Threads, ReturnEarly(t) PROVE SizesInv'
  BY <1>5 DEF ReturnEarly, At, LeaveUpgrade, Return, fileVars
<1>6. ASSUME NEW t \in Threads, RequestExclusive(t) PROVE SizesInv'
  BY <1>6 DEF RequestExclusive, At, fileVars
<1>7. ASSUME NEW t \in Threads, OpenMap(t) PROVE SizesInv'
  BY <1>7 DEF OpenMap, At, LeaveExclusive, Return
<1>8. ASSUME NEW t \in Threads, FlushSync(t) PROVE SizesInv'
  BY <1>8 DEF FlushSync, At, LeaveExclusive, Return, fileVars
<1>9. ASSUME NEW t \in Threads, CloseUnmap(t) PROVE SizesInv'
  BY <1>9 DEF CloseUnmap, At, LeaveExclusive, Return
<1>10. ASSUME NEW t \in Threads, Access(t) PROVE SizesInv'
  BY <1>10 DEF Access, AssignAndThrow, LeaveUpgrade, Assign, At, Return, fileVars
<1>11. ASSUME NEW t \in Threads, ReserveClosed(t) PROVE SizesInv'
  BY <1>11 DEF ReserveClosed, AssignAndThrow, LeaveUpgrade, At, Return, fileVars
<1>12. ASSUME NEW t \in Threads, ReserveWait(t) PROVE SizesInv'
  BY <1>12 DEF ReserveWait, At, fileVars
<1>13. ASSUME NEW t \in Threads, TruncateMapped(t) PROVE SizesInv'
  <2>1. /\ Target(call[t]) \in Nat
        /\ Target(call[t]) >= call[t].required
        /\ call[t].required \in Nat
    BY <1>13, TargetCovers, CallType DEF TruncateMapped, At
  <2>2. ~closed /\ call[t].required > capacity /\ handle
    BY <1>13 DEF TruncateMapped, At
  <2> QED
    BY <1>13, <2>1, <2>2 DEF TruncateMapped, At
<1>14. ASSUME NEW t \in Threads, TruncateFailed(t) PROVE SizesInv'
  BY <1>14 DEF TruncateFailed, At, Return
<1>15. ASSUME NEW t \in Threads, ReserveAssign(t) PROVE SizesInv'
  BY <1>15 DEF ReserveAssign, Assign, At, Return
<1>16. CASE UNCHANGED vars
  BY <1>16 DEF vars
<1> QED
  BY <1>1, <1>2, <1>3, <1>4, <1>5, <1>6, <1>7, <1>8, <1>9, <1>10, <1>11, <1>12,
     <1>13, <1>14, <1>15, <1>16 DEF Next, Proceed

(* A file that was never open has the size it was found with.              *)
LEMMA SizesInit == Init => SizesInv
<1> SUFFICES ASSUME Init PROVE SizesInv
  OBVIOUS
<1>1. InitialSize \in Nat
  BY SizeAssumption
<1> QED
  BY <1>1 DEF Init, SizesInv

(* While no system call has failed, an open file never has a logical size  *)
(* beyond its mapping nor a mapping beyond the file                        *)
(* (file_storage.cpp, reserve and close).                                  *)
THEOREM SizesAlwaysNested == Spec => []SizesNested
<1>1. Inv /\ SizesInv => SizesNested
  BY DEF Inv, SizesInv, SizesNested
<1>2. Inv /\ SizesInv /\ [Next]_vars => SizesInv'
  BY SizesNext
<1> QED
  BY InitInv, NextInv, SizesInit, <1>1, <1>2, PTL DEF Spec

(* What a call saw before it waited for the exclusive lock still holds     *)
(* when it gets it, so none that saw an open file is left once the         *)
(* descriptor is gone.                                                     *)
LEMMA TrimmedNext ==
    ASSUME Inv, SizesInv, [Next]_vars, ~handle
    PROVE  ~handle' /\ disk' = disk /\ closed'
<1>0. closed
  BY DEF SizesInv
<1> USE ThreadsAssumption, <1>0
<1> USE DEF Inv, CallInv
<1> DEFINE Same == UNCHANGED <<handle, disk, closed>>
<1>1. ASSUME NEW t \in Threads, NEW c \in Calls, Call(t, c) PROVE Same
  BY <1>1 DEF Call, fileVars
<1>2. ASSUME NEW t \in Threads, LockUpgrade(t) \/ UnlockUpgradeAndLock(t) \/ Release(t)
      PROVE  Same
  BY <1>2 DEF LockUpgrade, UnlockUpgradeAndLock, Release, fileVars
<1>3. ASSUME NEW t \in Threads, ReturnEarly(t) \/ RequestExclusive(t) \/ FlushSync(t)
      PROVE  Same
  BY <1>3 DEF ReturnEarly, RequestExclusive, FlushSync, fileVars
<1>4. ASSUME NEW t \in Threads, OpenMap(t) PROVE Same
  BY <1>4 DEF OpenMap
<1>5. ASSUME NEW t \in Threads, CloseUnmap(t) PROVE FALSE
  BY <1>5 DEF CloseUnmap, At
<1>6. ASSUME NEW t \in Threads, Access(t) \/ ReserveClosed(t) \/ ReserveWait(t)
      PROVE  Same
  BY <1>6 DEF Access, ReserveClosed, ReserveWait, fileVars
<1>7. ASSUME NEW t \in Threads, TruncateMapped(t) \/ TruncateFailed(t) PROVE FALSE
  BY <1>7 DEF TruncateMapped, TruncateFailed, At
<1>8. ASSUME NEW t \in Threads, ReserveAssign(t) PROVE Same
  BY <1>8 DEF ReserveAssign
<1>9. ASSUME UNCHANGED vars PROVE Same
  BY <1>9 DEF vars
<1>10. Same
  <2> HIDE DEF Inv, CallInv, Same
  <2> QED BY <1>1, <1>2, <1>3, <1>4, <1>5, <1>6, <1>7, <1>8, <1>9 DEF Next, Proceed
<1> QED
  BY <1>10

(* After a close() that succeeded no call of any thread, also one that was *)
(* waiting for the lock meanwhile, changes the file (file_storage.cpp,     *)
(* close, reserve and open).                                               *)
THEOREM ClosedStaysTrimmed == Spec => TrimmedForGood
<1>1. Inv /\ SizesInv /\ [Next]_vars => SizesInv'
  BY SizesNext
<1>2. Inv /\ SizesInv /\ [Next]_vars => [~handle => ~handle' /\ disk' = disk /\ closed']_vars
  BY TrimmedNext
<1> QED
  BY InitInv, NextInv, SizesInit, <1>1, <1>2, PTL DEF Spec, TrimmedForGood
=============================================================================
