--------------------------- MODULE TransactionIndex ---------------------------
(***************************************************************************)
(* The transaction index of block_database: an array of transaction links  *)
(* in which the transactions of a block are a run of records, found by the *)
(* tx_start and tx_count of the block.  data_base::update runs in parallel *)
(* on several threads; the record count of the array is in memory and      *)
(* reaches the file in block_database::commit, which push_header,          *)
(* pop_header, push_block and pop_block call and update does not.          *)
(***************************************************************************)
EXTENDS Integers, Sequences

CONSTANTS
    Threads,        \* threads that update blocks
    Blocks,         \* blocks whose headers are stored
    NoBlock,        \* the block of a thread in no call
    SizeOf,         \* Blocks -> Nat \ {0}: transactions of a block
    MaxRecords,     \* records ever allocated (bound)
    MaxRestarts     \* times the store is closed and opened again (bound)

Records == 0..(MaxRecords - 1)


ASSUME IndexAssumption ==
    /\ NoBlock \notin Blocks
    /\ SizeOf \in [Blocks -> Nat \ {0}]
    /\ MaxRecords \in Nat
    /\ MaxRestarts \in Nat

VARIABLES
    count,      \* record_count_ in memory
    committed,  \* the count in the file
    index,      \* the records
    txStart,    \* tx_start of each block
    txCount,    \* tx_count of each block
    pc,         \* where each thread is
    block,      \* the block it updates
    start,      \* the first record it has allocated
    restarts,   \* restarts so far
    fresh,      \* history: blocks updated since the store was opened
    durable     \* history: blocks updated before a commit of the same session

vars == <<count, committed, index, txStart, txCount, pc, block, start, restarts, fresh, durable>>

Init ==
    /\ count = 0
    /\ committed = 0
    /\ index = [r \in Records |-> <<NoBlock, 0>>]
    /\ txStart = [b \in Blocks |-> 0]
    /\ txCount = [b \in Blocks |-> 0]
    /\ pc = [t \in Threads |-> "idle"]
    /\ block = [t \in Threads |-> NoBlock]
    /\ start = [t \in Threads |-> 0]
    /\ restarts = 0
    /\ fresh = {}
    /\ durable = {}

-----------------------------------------------------------------------------
(* Mutant: one record too few is reserved.                                 *)
AllocateShort(t, b) ==
    /\ pc[t] = "idle"
    /\ txCount[b] = 0 /\ \A u \in Threads : block[u] # b
    /\ count + SizeOf[b] <= MaxRecords
    /\ count' = count + SizeOf[b] - 1
    /\ start' = [start EXCEPT ![t] = count]
    /\ block' = [block EXCEPT ![t] = b]
    /\ pc' = [pc EXCEPT ![t] = "write"]
    /\ UNCHANGED <<committed, index, txStart, txCount, restarts, fresh, durable>>

(* data_base::update, associate: tx_index_.allocate.  A block is updated   *)
(* while it is empty (verify_update), by one thread.                       *)
Allocate(t, b) ==
    /\ pc[t] = "idle"
    /\ txCount[b] = 0 /\ \A u \in Threads : block[u] # b
    /\ count + SizeOf[b] <= MaxRecords
    /\ count' = count + SizeOf[b]
    /\ start' = [start EXCEPT ![t] = count]
    /\ block' = [block EXCEPT ![t] = b]
    /\ pc' = [pc EXCEPT ![t] = "write"]
    /\ UNCHANGED <<committed, index, txStart, txCount, restarts, fresh, durable>>

(* Mutant: the transactions are counted from the wrong end.                *)
WriteLinksOffByOne(t) ==
    LET b == block[t]
    IN  /\ pc[t] = "write"
        /\ index' = [r \in Records |->
                        IF r \in start[t]..(start[t] + SizeOf[b] - 1)
                        THEN <<b, r - start[t] - 1>> ELSE index[r]]
        /\ pc' = [pc EXCEPT ![t] = "associate"]
        /\ UNCHANGED <<count, committed, txStart, txCount, block, start, restarts, fresh, durable>>

(* associate: the links are written to the records.                        *)
WriteLinks(t) ==
    LET b == block[t]
    IN  /\ pc[t] = "write"
        /\ index' = [r \in Records |->
                        IF r \in start[t]..(start[t] + SizeOf[b] - 1)
                        THEN <<b, r - start[t]>> ELSE index[r]]
        /\ pc' = [pc EXCEPT ![t] = "associate"]
        /\ UNCHANGED <<count, committed, txStart, txCount, block, start, restarts, fresh, durable>>

(* update_transactions: tx_start and tx_count, under metadata_mutex_.  The *)
(* commit that follows is of the transaction table only.                   *)
Associate(t) ==
    LET b == block[t]
    IN  /\ pc[t] = "associate"
        /\ txStart' = [txStart EXCEPT ![b] = start[t]]
        /\ txCount' = [txCount EXCEPT ![b] = SizeOf[b]]
        /\ block' = [block EXCEPT ![t] = NoBlock]
        /\ start' = [start EXCEPT ![t] = 0]
        /\ pc' = [pc EXCEPT ![t] = "idle"]
        /\ fresh' = fresh \cup {b}
        /\ UNCHANGED <<count, committed, index, restarts, durable>>

(* block_database::commit, by the thread that organizes the chains.        *)
Commit ==
    /\ committed' = count
    /\ durable' = durable \cup fresh
    /\ UNCHANGED <<count, index, txStart, txCount, pc, block, start, restarts, fresh>>

(* close() and open(): start() reads the count from the file.              *)
Restart ==
    /\ restarts < MaxRestarts
    /\ \A t \in Threads : pc[t] = "idle"
    /\ count' = committed
    /\ restarts' = restarts + 1
    /\ fresh' = {}
    /\ UNCHANGED <<committed, index, txStart, txCount, pc, block, start, durable>>

Next ==
    \/ \E t \in Threads :
          \/ WriteLinks(t)
          \/ Associate(t)
          \/ \E b \in Blocks : Allocate(t, b)
    \/ Commit
    \/ Restart

Spec == Init /\ [][Next]_vars

-----------------------------------------------------------------------------
TypeOK ==
    /\ count \in 0..MaxRecords
    /\ committed \in 0..MaxRecords
    /\ index \in [Records -> (Blocks \cup {NoBlock}) \X Nat]
    /\ txStart \in [Blocks -> Nat]
    /\ txCount \in [Blocks -> Nat]
    /\ pc \in [Threads -> {"idle", "write", "associate"}]
    /\ block \in [Threads -> Blocks \cup {NoBlock}]
    /\ start \in [Threads -> Nat]
    /\ restarts \in 0..MaxRestarts
    /\ fresh \subseteq Blocks
    /\ durable \subseteq Blocks

(* Block b has its own transactions, in order, and their records are       *)
(* within the count, so that no other block is given them.                 *)
Intact(b) ==
    /\ txStart[b] + txCount[b] <= count
    /\ \A i \in 0..(txCount[b] - 1) : index[txStart[b] + i] = <<b, i>>

(* What was committed stays: a block that was updated before a commit has  *)
(* its transactions ever after, whatever is updated in parallel and        *)
(* however often the store is opened again (block_database.cpp, associate, *)
(* update_transactions, commit and open).                                  *)
DurableIntact == \A b \in durable : txCount[b] > 0 /\ Intact(b)

(* "Update the stored block with txs" (data_base.hpp) and "May be called   *)
(* after stop and/or after close in order to reopen" (data_base.cpp): the  *)
(* blocks that have transactions have their own, also after a restart.     *)
AssociationsIntact == \A b \in Blocks : txCount[b] > 0 => Intact(b)
=============================================================================
