-------------------------------- MODULE Store --------------------------------
(***************************************************************************)
(* store (src/src/store.cpp) and the use data_base makes of it: two lock   *)
(* files guard the database files across the lives of the process.  The    *)
(* flush lock stays behind when the process dies with writes that did not  *)
(* reach the disk, and open() then refuses.                                *)
(*                                                                         *)
(* With flush_writes each write takes the flush lock, flushes all files    *)
(* and releases it; without, the lock is held from open() to close().      *)
(***************************************************************************)
EXTENDS Integers, Sequences

CONSTANTS
    Threads,    \* threads that write
    Files       \* the database files, a sequence in the order of flush()

FileSet == {Files[i] : i \in DOMAIN Files}

ASSUME StoreAssumption == Files \in Seq(FileSet) /\ Files # <<>>

(* push_header and the like write under write_mutex_, update, store and    *)
(* the like under a conditional_lock.                                      *)
Conditional == "conditional_lock"
WriteMutex == "write_mutex_"
Locks == {Conditional, WriteMutex}

VARIABLES
    flushWrites,    \* flush_each_write_, a setting
    flushLock,      \* the flush lock file exists
    exclusive,      \* the exclusive lock is held: the process is alive
    opened,         \* ~closed_
    closing,        \* files that close() has still to close
    shut,           \* files that it has closed (closed_ of file_storage)
    pc,             \* where each thread is
    lock,           \* the lock of its write
    left,           \* files that its end_write() has still to flush
    dirty,          \* files with writes that did not reach the disk
    unguarded,      \* history: since open() the flush lock did not guard all
                    \* writes; see BeginWrite, Confirm and CloseFailed
    torn,           \* history: the process died with dirty files, all
                    \* writes since open() having been guarded
    failed          \* history: an operation failed after begin_write, all
                    \* writes having been guarded, and none has ended since

vars == <<flushWrites, flushLock, exclusive, opened, closing, shut, pc, lock, left, dirty,
          unguarded, torn, failed>>

Init ==
    /\ flushWrites \in BOOLEAN
    /\ flushLock = FALSE
    /\ exclusive = FALSE
    /\ opened = FALSE
    /\ closing = <<>>
    /\ shut = FileSet
    /\ pc = [t \in Threads |-> "idle"]
    /\ lock = [t \in Threads |-> Conditional]
    /\ left = [t \in Threads |-> <<>>]
    /\ dirty = {}
    /\ unguarded = FALSE
    /\ torn = FALSE
    /\ failed = FALSE

Idle == \A t \in Threads : pc[t] = "idle"

-----------------------------------------------------------------------------
(* Mutant: the exclusive lock is not taken.                                *)
OpenUnlocked ==
    /\ ~exclusive /\ ~flushLock /\ Idle
    /\ opened' = TRUE
    /\ flushLock' = ~flushWrites
    /\ shut' = {}
    /\ unguarded' = FALSE
    /\ UNCHANGED <<flushWrites, exclusive, closing, pc, lock, left, dirty, torn, failed>>

(* data_base::open() with store::open(): a flush lock that stayed behind   *)
(* refuses.  One of the files may fail to open after the locks are taken.  *)
Open ==
    /\ ~exclusive /\ ~flushLock /\ Idle
    /\ exclusive' = TRUE
    /\ opened' \in BOOLEAN
    /\ flushLock' = ~flushWrites
    /\ shut' = {}
    /\ unguarded' = FALSE
    /\ UNCHANGED <<flushWrites, closing, pc, lock, left, dirty, torn, failed>>

(* write_mutex_ excludes the others that lock it.  A conditional_lock is a *)
(* local object that is given a flag and no mutex: nothing is excluded.    *)
Excluded(t, l) == l = WriteMutex /\ \E u \in Threads \ {t} : pc[u] # "idle" /\ lock[u] = l

(* begin_write(), under lock l.  Two flushed writes at a time are not      *)
(* guarded: the end of one releases the flush lock of the other.           *)
BeginWrite(t, l) ==
    /\ opened
    /\ pc[t] = "idle"
    /\ ~Excluded(t, l)
    /\ lock' = [lock EXCEPT ![t] = l]
    /\ flushLock' = (flushLock \/ flushWrites)
    /\ pc' = [pc EXCEPT ![t] = "writing"]
    /\ unguarded' = (unguarded \/ (flushWrites /\ ~Idle))
    /\ UNCHANGED <<flushWrites, exclusive, opened, closing, shut, left, dirty, torn, failed>>

(* A writer of one of the databases.                                       *)
WriteFile(t, file) ==
    /\ pc[t] = "writing"
    /\ file \notin shut
    /\ dirty' = dirty \cup {file}
    /\ UNCHANGED <<flushWrites, lock, flushLock, exclusive, opened, closing, shut, pc, left, torn,
                   unguarded, failed>>

(* data_base::confirm writes without begin_write.                          *)
Confirm(file) ==
    /\ opened
    /\ dirty' = dirty \cup {file}
    /\ unguarded' = (unguarded \/ flushWrites)
    /\ UNCHANGED <<flushWrites, lock, flushLock, exclusive, opened, closing, shut, pc, left, torn,
                   failed>>

(* A failure after begin_write is returned without calling end_write.      *)
FailWrite(t) ==
    /\ pc[t] = "writing"
    /\ pc' = [pc EXCEPT ![t] = "idle"]
    /\ failed' = (failed \/ ~unguarded)
    /\ UNCHANGED <<flushWrites, lock, flushLock, exclusive, opened, closing, shut, left, dirty,
                   torn, unguarded>>

(* Mutant: the first database is not flushed.                              *)
EndWritePartly(t) ==
    /\ pc[t] = "writing"
    /\ pc' = [pc EXCEPT ![t] = IF flushWrites THEN "flushing" ELSE "idle"]
    /\ left' = [left EXCEPT ![t] = IF flushWrites THEN Tail(Files) ELSE <<>>]
    /\ UNCHANGED <<flushWrites, lock, flushLock, exclusive, opened, closing, shut, dirty, torn,
                   unguarded, failed>>

(* end_write().                                                            *)
EndWrite(t) ==
    /\ pc[t] = "writing"
    /\ pc' = [pc EXCEPT ![t] = IF flushWrites THEN "flushing" ELSE "idle"]
    /\ left' = [left EXCEPT ![t] = IF flushWrites THEN Files ELSE <<>>]
    /\ UNCHANGED <<flushWrites, lock, flushLock, exclusive, opened, closing, shut, dirty, torn,
                   unguarded, failed>>

(* data_base::flush(), one file after the other.  The flush of a file that *)
(* is closed returns true.                                                 *)
FlushFile(t) ==
    /\ pc[t] = "flushing"
    /\ left[t] # <<>>
    /\ dirty' = dirty \ ({Head(left[t])} \ shut)
    /\ left' = [left EXCEPT ![t] = Tail(@)]
    /\ UNCHANGED <<flushWrites, lock, flushLock, exclusive, opened, closing, shut, pc, torn,
                   unguarded, failed>>

(* A file fails to flush: the lock stays.                                  *)
FlushFailed(t) ==
    /\ pc[t] = "flushing"
    /\ left[t] # <<>>
    /\ Head(left[t]) \notin shut
    /\ pc' = [pc EXCEPT ![t] = "idle"]
    /\ left' = [left EXCEPT ![t] = <<>>]
    /\ failed' = (failed \/ ~unguarded)
    /\ UNCHANGED <<flushWrites, lock, flushLock, exclusive, opened, closing, shut, dirty,
                   torn, unguarded>>

(* All files are flushed: end_write() releases the flush lock.             *)
EndFlush(t) ==
    /\ pc[t] = "flushing"
    /\ left[t] = <<>>
    /\ flushLock' = FALSE
    /\ pc' = [pc EXCEPT ![t] = "idle"]
    /\ failed' = FALSE
    /\ UNCHANGED <<flushWrites, lock, exclusive, opened, closing, shut, left, dirty, torn,
                   unguarded>>

-----------------------------------------------------------------------------
(* data_base::close(): threads may be in the middle of a write.            *)
Close ==
    /\ opened
    /\ opened' = FALSE
    /\ closing' = Files
    /\ UNCHANGED <<flushWrites, lock, flushLock, exclusive, shut, pc, left, dirty, torn, unguarded,
                   failed>>

(* Mutant: store::close() releases the flush lock in any case.             *)
CloseFileReleasing ==
    /\ closing # <<>>
    /\ dirty' = dirty \ {Head(closing)}
    /\ shut' = shut \cup {Head(closing)}
    /\ closing' = Tail(closing)
    /\ IF Len(closing) > 1
       THEN UNCHANGED <<flushLock, exclusive>>
       ELSE exclusive' = FALSE /\ flushLock' = FALSE
    /\ UNCHANGED <<flushWrites, lock, opened, pc, left, torn, unguarded, failed>>

(* A file is flushed and closed, the last of them before store::close().   *)
CloseFile ==
    /\ closing # <<>>
    /\ dirty' = dirty \ {Head(closing)}
    /\ shut' = shut \cup {Head(closing)}
    /\ closing' = Tail(closing)
    /\ IF Len(closing) > 1
       THEN UNCHANGED <<flushLock, exclusive>>
       ELSE exclusive' = FALSE /\ flushLock' = (flushLock /\ flushWrites)
    /\ UNCHANGED <<flushWrites, lock, opened, pc, left, torn, unguarded, failed>>

(* A file fails to close, and store::close() is not called.  The file is   *)
(* closed for a flush all the same, so the end of a write that is under    *)
(* way releases the flush lock without flushing it.                        *)
CloseFailed ==
    /\ closing # <<>>
    /\ shut' = shut \cup {Head(closing)}
    /\ closing' = <<>>
    /\ unguarded' = (unguarded \/ (flushWrites /\ ~Idle))
    /\ UNCHANGED <<flushWrites, lock, flushLock, exclusive, opened, pc, left, dirty, torn, failed>>

(* The process ends, the system goes down.                                 *)
Crash ==
    /\ exclusive
    /\ exclusive' = FALSE
    /\ opened' = FALSE
    /\ closing' = <<>>
    /\ pc' = [t \in Threads |-> "idle"]
    /\ left' = [t \in Threads |-> <<>>]
    /\ torn' = (torn \/ (dirty # {} /\ ~unguarded))
    /\ dirty' = {}
    /\ shut' = FileSet
    /\ UNCHANGED <<flushWrites, lock, flushLock, unguarded, failed>>

Next ==
    \/ Open
    \/ \E t \in Threads :
          \/ \E l \in Locks : BeginWrite(t, l)
          \/ \E file \in FileSet : WriteFile(t, file)
          \/ FailWrite(t)
          \/ EndWrite(t)
          \/ FlushFile(t)
          \/ FlushFailed(t)
          \/ EndFlush(t)
    \/ \E file \in FileSet : Confirm(file)
    \/ Close
    \/ CloseFile
    \/ CloseFailed
    \/ Crash

Spec == Init /\ [][Next]_vars

-----------------------------------------------------------------------------
TypeOK ==
    /\ flushWrites \in BOOLEAN
    /\ flushLock \in BOOLEAN
    /\ exclusive \in BOOLEAN
    /\ opened \in BOOLEAN /\ (opened => exclusive)
    /\ closing \in Seq(FileSet)
    /\ pc \in [Threads -> {"idle", "writing", "flushing"}]
    /\ lock \in [Threads -> Locks]
    /\ left \in [Threads -> Seq(FileSet)]
    /\ dirty \subseteq FileSet
    /\ shut \subseteq FileSet
    /\ torn \in BOOLEAN
    /\ failed \in BOOLEAN
    /\ unguarded \in BOOLEAN

(* A database whose writes did not all reach the disk is not opened again: *)
(* wherever the process dies, between two files of a flush or of close()   *)
(* too, and although close() may come while threads write, the flush lock  *)
(* is left behind (store.cpp, open, begin_write, end_write, close;         *)
(* data_base.cpp, flush and close).  With flush_writes this needs that no  *)
(* two writes overlap, that confirm() is not used and that close() does    *)
(* not fail during a write: the code ensures none of these.                *)
TornIsRefused == torn => flushLock /\ ~opened

(* With flush_writes, a database that an operation has left half way is    *)
(* not opened again after close(): the flush lock of the operation stays   *)
(* until a later write ends (data_base.cpp, the returns between            *)
(* begin_write and end_write; store.cpp, close).  Writes that overlap are  *)
(* left out, as in TornIsRefused.                                          *)
FailureIsRefused == flushWrites /\ failed => flushLock
=============================================================================
