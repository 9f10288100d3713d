----------------------------- MODULE Store_proof -----------------------------
(***************************************************************************)
(* Proofs about Store: for any number of threads and files, a database     *)
(* whose writes did not all reach the disk is refused.                     *)
(***************************************************************************)
EXTENDS Store, SequenceTheorems, TLAPS

Elements(s) == {s[i] : i \in 1..Len(s)}

(* The files as the process lives: all are open while the store is, those  *)
(* that close() has still to close are open, and a process that is gone,   *)
(* or has closed, leaves nothing unwritten.                                *)
LifeInv ==
    /\ opened => closing = <<>> /\ shut = {}
    /\ closing # <<>> => exclusive /\ FileSet \ shut \subseteq Elements(closing)
    /\ opened \/ closing # <<>> => dirty \cap shut = {}
    /\ ~exclusive => shut = FileSet /\ dirty = {}

(* Without flush_writes the flush lock is held as long as the process      *)
(* lives, and nothing is flushed before close().                           *)
HeldInv ==
    ~flushWrites =>
        /\ exclusive => flushLock
        /\ \A t \in Threads : pc[t] # "flushing"

(* With flush_writes, as long as all is guarded: there is one write at a   *)
(* time, it has the flush lock, and what it has not flushed yet is what is *)
(* left to flush.  A file that was closed on failure is not dirty then.    *)
GuardInv ==
    flushWrites /\ ~unguarded =>
        /\ dirty # {} => flushLock
        /\ \A t \in Threads :
              /\ pc[t] # "idle" => flushLock /\ dirty \cap shut = {}
              /\ pc[t] = "flushing" => dirty \subseteq Elements(left[t])
              /\ \A u \in Threads : pc[t] # "idle" /\ pc[u] # "idle" => t = u

(* Once torn, the process is gone and no action is left: open() refuses.   *)
TornInv ==
    torn => flushLock /\ ~exclusive /\ ~opened /\ closing = <<>> /\ Idle

Inv ==
    /\ TypeOK
    /\ LifeInv
    /\ HeldInv
    /\ GuardInv
    /\ TornInv
    /\ FailureIsRefused

(* The head of a list is its first element, the tail holds the others.     *)
LEMMA TailElements ==
    ASSUME NEW S, NEW s \in Seq(S), s # <<>>
    PROVE  /\ Head(s) \in S
           /\ Tail(s) \in Seq(S)
           /\ Elements(s) = {Head(s)} \cup Elements(Tail(s))
           /\ Len(s) = 1 => Tail(s) = <<>>
<1>1. /\ Len(s) \in Nat \ {0}
      /\ Head(s) = s[1] /\ s[1] \in S
      /\ Tail(s) \in Seq(S)
      /\ Len(Tail(s)) = Len(s) - 1
      /\ \A i \in 1..(Len(s) - 1) : Tail(s)[i] = s[i + 1]
  OBVIOUS
<1>2. Elements(Tail(s)) = {s[i] : i \in 2..Len(s)}
  <2>1. ASSUME NEW x \in Elements(Tail(s)) PROVE x \in {s[i] : i \in 2..Len(s)}
    <3>1. PICK j \in 1..(Len(s) - 1) : x = s[j + 1]
      BY <1>1 DEF Elements
    <3> QED
      BY <1>1, <3>1
  <2>2. ASSUME NEW j \in 2..Len(s) PROVE s[j] \in Elements(Tail(s))
    <3>1. j - 1 \in 1..(Len(s) - 1) /\ Tail(s)[j - 1] = s[j]
      BY <1>1
    <3> QED
      BY <1>1, <3>1 DEF Elements
  <2> QED
    BY <2>1, <2>2
<1>3. Elements(s) = {s[1]} \cup {s[i] : i \in 2..Len(s)}
  BY <1>1 DEF Elements
<1>4. Len(s) = 1 => Tail(s) = <<>>
  <2>1. Len(s) = 1 => Len(Tail(s)) = 0
    BY <1>1
  <2> QED
    BY <1>1, <2>1, EmptySeq
<1> QED
  BY <1>1, <1>2, <1>3, <1>4

(* flush() and close() go through all files.                               *)
LEMMA AllFiles == Files \in Seq(FileSet) /\ Files # <<>> /\ Elements(Files) = FileSet
BY StoreAssumption DEF Elements, FileSet

(* No lock file, and no process.                                           *)
LEMMA InitInv == Init => Inv
<1> SUFFICES ASSUME Init PROVE Inv
  OBVIOUS
<1> USE DEF Init
<1>1. TypeOK
  <2>1. <<>> \in Seq(FileSet)
    OBVIOUS
  <2> QED
    BY <2>1 DEF TypeOK, Locks, Conditional
<1>2. LifeInv /\ HeldInv /\ GuardInv /\ TornInv /\ FailureIsRefused
  BY DEF LifeInv, HeldInv, GuardInv, TornInv, FailureIsRefused
<1> QED
  BY <1>1, <1>2 DEF Inv

(* A new process starts with nothing unwritten and no thread in a write.   *)
LEMMA OpenInv ==
    ASSUME Inv, Open
    PROVE  Inv'
<1> USE DEF Inv, TypeOK, Open
<1>1. TypeOK'
  BY DEF Locks
<1>2. LifeInv'
  BY DEF LifeInv
<1>3. HeldInv'
  BY DEF HeldInv
<1>4. GuardInv'
  BY DEF GuardInv, Idle, LifeInv
<1>5. TornInv'
  BY DEF TornInv, Idle
<1>6. FailureIsRefused'
  BY DEF FailureIsRefused
<1> QED
  BY <1>1, <1>2, <1>3, <1>4, <1>5, <1>6

(* The write has the flush lock; a second one is not guarded.              *)
LEMMA BeginWriteInv ==
    ASSUME Inv, NEW t \in Threads, NEW l \in Locks, BeginWrite(t, l)
    PROVE  Inv'
<1> USE DEF Inv, TypeOK, BeginWrite
<1>1. TypeOK'
  BY DEF Locks
<1>2. LifeInv'
  BY DEF LifeInv
<1>3. HeldInv'
  BY DEF HeldInv
<1>4. GuardInv'
  BY DEF GuardInv, Idle, LifeInv
<1>5. TornInv'
  BY DEF TornInv, Idle
<1>6. FailureIsRefused'
  BY DEF FailureIsRefused
<1> QED
  BY <1>1, <1>2, <1>3, <1>4, <1>5, <1>6

(* Only an open file is written, under the flush lock.                     *)
LEMMA WriteFileInv ==
    ASSUME Inv, NEW t \in Threads, NEW file \in FileSet, WriteFile(t, file)
    PROVE  Inv'
<1> USE DEF Inv, TypeOK, WriteFile
<1>1. TypeOK'
  BY DEF Locks
<1>2. LifeInv'
  BY DEF LifeInv
<1>3. HeldInv'
  BY DEF HeldInv
<1>4. GuardInv'
  BY DEF GuardInv, Idle
<1>5. TornInv'
  BY DEF TornInv, Idle
<1>6. FailureIsRefused'
  BY DEF FailureIsRefused
<1> QED
  BY <1>1, <1>2, <1>3, <1>4, <1>5, <1>6

(* A write without the flush lock counts as unguarded.                     *)
LEMMA ConfirmInv ==
    ASSUME Inv, NEW file \in FileSet, Confirm(file)
    PROVE  Inv'
<1> USE DEF Inv, TypeOK, Confirm
<1>1. TypeOK'
  BY DEF Locks
<1>2. LifeInv'
  BY DEF LifeInv
<1>3. HeldInv'
  BY DEF HeldInv
<1>4. GuardInv'
  BY DEF GuardInv, Idle
<1>5. TornInv'
  BY DEF TornInv, Idle
<1>6. FailureIsRefused'
  BY DEF FailureIsRefused
<1> QED
  BY <1>1, <1>2, <1>3, <1>4, <1>5, <1>6

(* A write that fails leaves its flush lock.                               *)
LEMMA FailWriteInv ==
    ASSUME Inv, NEW t \in Threads, FailWrite(t)
    PROVE  Inv'
<1> USE DEF Inv, TypeOK, FailWrite
<1>1. TypeOK'
  BY DEF Locks
<1>2. LifeInv'
  BY DEF LifeInv
<1>3. HeldInv'
  BY DEF HeldInv
<1>4. GuardInv'
  BY DEF GuardInv, Idle
<1>5. TornInv'
  BY DEF TornInv, Idle
<1>6. FailureIsRefused'
  BY DEF FailureIsRefused, GuardInv
<1> QED
  BY <1>1, <1>2, <1>3, <1>4, <1>5, <1>6

(* All files are to be flushed.                                            *)
LEMMA EndWriteInv ==
    ASSUME Inv, NEW t \in Threads, EndWrite(t)
    PROVE  Inv'
<1> USE DEF Inv, TypeOK, EndWrite
<1> USE AllFiles
<1>1. TypeOK'
  BY DEF Locks
<1>2. LifeInv'
  BY DEF LifeInv
<1>3. HeldInv'
  BY DEF HeldInv
<1>4. GuardInv'
  BY DEF GuardInv, Idle
<1>5. TornInv'
  BY DEF TornInv, Idle
<1>6. FailureIsRefused'
  BY DEF FailureIsRefused
<1> QED
  BY <1>1, <1>2, <1>3, <1>4, <1>5, <1>6

(* A flushed file is clean, as it is not closed.                           *)
LEMMA FlushFileInv ==
    ASSUME Inv, NEW t \in Threads, FlushFile(t)
    PROVE  Inv'
<1> USE DEF Inv, TypeOK, FlushFile
<1>a. /\ Head(left[t]) \in FileSet
      /\ Tail(left[t]) \in Seq(FileSet)
      /\ Elements(left[t]) = {Head(left[t])} \cup Elements(Tail(left[t]))
  BY TailElements
<1> USE <1>a
<1>1. TypeOK'
  BY DEF Locks
<1>2. LifeInv'
  BY DEF LifeInv
<1>3. HeldInv'
  BY DEF HeldInv
<1>4. GuardInv'
  BY DEF GuardInv, Idle
<1>5. TornInv'
  BY DEF TornInv, Idle
<1>6. FailureIsRefused'
  BY DEF FailureIsRefused
<1> QED
  BY <1>1, <1>2, <1>3, <1>4, <1>5, <1>6

(* A flush that fails leaves the lock.                                     *)
LEMMA FlushFailedInv ==
    ASSUME Inv, NEW t \in Threads, FlushFailed(t)
    PROVE  Inv'
<1> USE DEF Inv, TypeOK, FlushFailed
<1>1. TypeOK'
  BY DEF Locks
<1>2. LifeInv'
  BY DEF LifeInv
<1>3. HeldInv'
  BY DEF HeldInv
<1>4. GuardInv'
  BY DEF GuardInv, Idle
<1>5. TornInv'
  BY DEF TornInv, Idle
<1>6. FailureIsRefused'
  BY DEF FailureIsRefused, GuardInv
<1> QED
  BY <1>1, <1>2, <1>3, <1>4, <1>5, <1>6

(* The flush lock is released when nothing is left to flush.               *)
LEMMA EndFlushInv ==
    ASSUME Inv, NEW t \in Threads, EndFlush(t)
    PROVE  Inv'
<1> USE DEF Inv, TypeOK, EndFlush
<1>a. Elements(left[t]) = {}
  BY DEF Elements
<1> USE <1>a
<1>1. TypeOK'
  BY DEF Locks
<1>2. LifeInv'
  BY DEF LifeInv
<1>3. HeldInv'
  BY DEF HeldInv
<1>4. GuardInv'
  BY DEF GuardInv, Idle
<1>5. TornInv'
  BY DEF TornInv, Idle
<1>6. FailureIsRefused'
  BY DEF FailureIsRefused
<1> QED
  BY <1>1, <1>2, <1>3, <1>4, <1>5, <1>6

(* All files are to be closed.                                             *)
LEMMA CloseInv ==
    ASSUME Inv, Close
    PROVE  Inv'
<1> USE DEF Inv, TypeOK, Close
<1> USE AllFiles
<1>1. TypeOK'
  BY DEF Locks
<1>2. LifeInv'
  BY DEF LifeInv
<1>3. HeldInv'
  BY DEF HeldInv
<1>4. GuardInv'
  BY DEF GuardInv, Idle
<1>5. TornInv'
  BY DEF TornInv, Idle
<1>6. FailureIsRefused'
  BY DEF FailureIsRefused
<1> QED
  BY <1>1, <1>2, <1>3, <1>4, <1>5, <1>6

(* The last file is closed when all others are: nothing is unwritten.      *)
LEMMA CloseFileInv ==
    ASSUME Inv, CloseFile
    PROVE  Inv'
<1> USE DEF Inv, TypeOK, CloseFile
<1>a. /\ Head(closing) \in FileSet
      /\ Tail(closing) \in Seq(FileSet)
      /\ Elements(closing) = {Head(closing)} \cup Elements(Tail(closing))
      /\ Len(closing) \in Nat \ {0}
      /\ ~(Len(closing) > 1) => Tail(closing) = <<>>
  BY TailElements
<1> USE <1>a
<1>1. TypeOK'
  BY DEF LifeInv
<1>2. LifeInv'
  <2>1. opened = FALSE /\ exclusive /\ dirty \cap shut = {}
        /\ FileSet \ shut \subseteq Elements(closing)
    BY DEF LifeInv
  <2>2. /\ FileSet \ shut' \subseteq Elements(closing')
        /\ dirty' \cap shut' = {}
        /\ dirty' \subseteq FileSet /\ shut' \subseteq FileSet
    BY <2>1
  <2>3. CASE Len(closing) > 1
    BY <2>1, <2>2, <2>3 DEF LifeInv
  <2>4. CASE ~(Len(closing) > 1)
    <3>1. closing' = <<>> /\ Elements(closing') = {}
      BY <2>4 DEF Elements
    <3>2. shut' = FileSet /\ dirty' = {}
      BY <2>2, <3>1
    <3> QED
      BY <2>1, <2>4, <3>1, <3>2 DEF LifeInv
  <2> QED
    BY <2>3, <2>4
<1>3. HeldInv'
  BY DEF HeldInv
<1>4. GuardInv'
  BY DEF GuardInv, Idle
<1>5. TornInv'
  BY DEF TornInv, Idle
<1>6. FailureIsRefused'
  BY DEF FailureIsRefused
<1> QED
  BY <1>1, <1>2, <1>3, <1>4, <1>5, <1>6

(* With a write under way this is unguarded; otherwise none can begin.     *)
LEMMA CloseFailedInv ==
    ASSUME Inv, CloseFailed
    PROVE  Inv'
<1> USE DEF Inv, TypeOK, CloseFailed
<1>a. Head(closing) \in FileSet
  BY TailElements
<1> USE <1>a
<1>1. TypeOK'
  BY DEF Locks
<1>2. LifeInv'
  BY DEF LifeInv
<1>3. HeldInv'
  BY DEF HeldInv
<1>4. GuardInv'
  BY DEF GuardInv, Idle
<1>5. TornInv'
  BY DEF TornInv, Idle
<1>6. FailureIsRefused'
  BY DEF FailureIsRefused
<1> QED
  BY <1>1, <1>2, <1>3, <1>4, <1>5, <1>6

(* Unwritten files of a guarded process leave the flush lock behind.       *)
LEMMA CrashInv ==
    ASSUME Inv, Crash
    PROVE  Inv'
<1> USE DEF Inv, TypeOK, Crash
<1>1. TypeOK'
  <2>1. <<>> \in Seq(FileSet)
    OBVIOUS
  <2> QED
    BY <2>1
<1>2. LifeInv'
  BY DEF LifeInv
<1>3. HeldInv'
  BY DEF HeldInv
<1>4. GuardInv'
  BY DEF GuardInv, Idle
<1>5. TornInv'
  BY DEF TornInv, Idle, LifeInv, HeldInv, GuardInv
<1>6. FailureIsRefused'
  BY DEF FailureIsRefused
<1> QED
  BY <1>1, <1>2, <1>3, <1>4, <1>5, <1>6

(* A step that changes nothing.                                            *)
LEMMA StutterInv == ASSUME Inv, UNCHANGED vars PROVE Inv'
BY DEF vars, Inv, TypeOK, LifeInv, HeldInv, GuardInv, TornInv, FailureIsRefused, Idle, Elements

(* The invariant is inductive: one lemma per action.                       *)
LEMMA NextInv == Inv /\ [Next]_vars => Inv'
<1> SUFFICES ASSUME Inv, [Next]_vars PROVE Inv'
  OBVIOUS
<1>1. CASE UNCHANGED vars
  BY <1>1, StutterInv
<1>2. CASE Open \/ Close \/ CloseFile \/ CloseFailed \/ Crash
  BY <1>2, OpenInv, CloseInv, CloseFileInv, CloseFailedInv, CrashInv
<1>3. ASSUME NEW file \in FileSet, Confirm(file) PROVE Inv'
  BY <1>3, ConfirmInv
<1>4. ASSUME NEW t \in Threads, NEW l \in Locks, BeginWrite(t, l) PROVE Inv'
  BY <1>4, BeginWriteInv
<1>5. ASSUME NEW t \in Threads, NEW file \in FileSet, WriteFile(t, file) PROVE Inv'
  BY <1>5, WriteFileInv
<1>6. ASSUME NEW t \in Threads,
             FailWrite(t) \/ EndWrite(t) \/ FlushFile(t) \/ FlushFailed(t) \/ EndFlush(t)
      PROVE  Inv'
  BY <1>6, FailWriteInv, EndWriteInv, FlushFileInv, FlushFailedInv, EndFlushInv
<1> QED
  BY <1>1, <1>2, <1>3, <1>4, <1>5, <1>6 DEF Next

(* The locks and files of the store keep their types (store.cpp).          *)
THEOREM TypeCorrect == Spec => []TypeOK
<1>1. Inv => TypeOK
  BY DEF Inv
<1> QED
  BY InitInv, NextInv, <1>1, PTL DEF Spec

(* Wherever the process dies, a database with guarded writes that did not  *)
(* reach the disk is not opened again (store.cpp, open, begin_write,       *)
(* end_write and close; data_base.cpp, flush and close).                   *)
THEOREM TornNeverOpens == Spec => []TornIsRefused
<1>1. Inv => TornIsRefused
  BY DEF Inv, TornInv, TornIsRefused
<1> QED
  BY InitInv, NextInv, <1>1, PTL DEF Spec

(* With flush_writes, an operation that fails half way leaves the flush    *)
(* lock until a later write ends (data_base.cpp, the returns between       *)
(* begin_write and end_write; store.cpp, close).                           *)
THEOREM FailureLeavesLock == Spec => []FailureIsRefused
<1>1. Inv => FailureIsRefused
  BY DEF Inv
<1> QED
  BY InitInv, NextInv, <1>1, PTL DEF Spec
=============================================================================
