------------------------------- MODULE DataBase -------------------------------
(***************************************************************************)
(* data_base (src/src/data_base.cpp) over block_database and               *)
(* transaction_database: headers are organized into a candidate chain,     *)
(* their transactions arrive later, blocks are validated and marked as     *)
(* candidates, and the confirmed chain is reorganized towards the          *)
(* candidate chain, block by block.  Valid transactions are cataloged in   *)
(* the payment index.  (The filters of a block are in the module Filters.) *)
(*                                                                         *)
(* reorganize() takes write_mutex_ for each header or block it pops or     *)
(* pushes, so it is a sequence of steps between which update() and store() *)
(* of other threads, which do not take that mutex, may run.  The caller is *)
(* the blockchain: it serializes the calls that organize the chains, and   *)
(* tells which blocks are valid.  A reorganization may begin anywhere on   *)
(* its index and take it to any chain; where a verify_ function of a debug *)
(* build refuses a call as a whole, the call is left out.                  *)
(***************************************************************************)
EXTENDS TransactionDatabase, BlockDatabase

CONSTANTS
    Chain,      \* Blocks -> Seq(Blocks): the blocks from genesis to a block
    TxsOf,      \* Blocks -> Seq(Txs)
    Pool,       \* transactions that may come in by themselves
    Presumable, \* blocks that invalidate(header, success) may be called for
    Forks       \* the forks a pooled transaction is verified with

Height(b) == Len(Chain[b]) - 1
Parent(b) == Chain[b][Height(b)]

ASSUME ChainAssumption ==
    /\ Chain \in [Blocks -> Seq(Blocks) \ {<<>>}]
    /\ \A b \in Blocks :
          /\ Last(Chain[b]) = b
          /\ Height(b) > 0 => Front(Chain[b]) = Chain[Parent(b)]
    /\ \A b, c \in Blocks : Chain[b][1] = Chain[c][1]
    /\ TxsOf \in [Blocks -> Seq(Txs) \ {<<>>}]
    /\ Pool \subseteq Txs
    /\ Presumable \subseteq Blocks
    /\ Forks \in Nat

(* Heights and positions fit below the values with a meaning of their own  *)
(* (unverified is bit 31, the positions are 16 bits, a block has less than *)
(* 2^14 transactions), and what a coinbase spends is not an output.        *)
ASSUME LimitsAssumption ==
    \A b \in Blocks :
        /\ Height(b) < Unverified
        /\ Len(TxsOf[b]) <= Unconfirmed /\ Len(TxsOf[b]) <= Deconfirmed
        /\ InputsOf[TxsOf[b][1]] = <<>>

VARIABLES
    debug,      \* whether assertions and verify_ functions are compiled in
    store,      \* block_database: see BlockDatabase
    table,      \* transaction_database: see TransactionDatabase
    call,       \* the reorganize() in progress, or NoCall
    aborted,    \* an assertion has failed (debug build)
    payments,   \* payment_database: the transactions that are cataloged
    unsaved,    \* the counts of block_database have changed since its commit
    marked,     \* history: blocks that candidate() has marked since the push
    displaced,  \* history: blocks that one index holds and the other demoted
    presumed    \* history: blocks made valid by invalidate(header, success)

vars == <<debug, store, table, call, aborted, payments, unsaved, marked,
          displaced, presumed>>

cand == store.index["candidate"]
conf == store.index["confirmed"]
blk == store.blk

NoCall == [name |-> "none", fork |-> 0, popping |-> FALSE, height |-> 0,
           incoming |-> <<>>, target |-> <<>>]

(* reorganize() has returned operation_failed.                             *)
FailedCall == [NoCall EXCEPT !.name = "failed"]

Init ==
    /\ debug \in BOOLEAN
    /\ store = EmptyStore
    /\ table = EmptyTable
    /\ call = NoCall
    /\ aborted = FALSE
    /\ payments = {}
    /\ unsaved = FALSE
    /\ marked = {}
    /\ displaced = {}
    /\ presumed = {}

-----------------------------------------------------------------------------
(* The end of a critical section: what the two databases were left with,   *)
(* and whether it tripped an assertion.                                    *)
Write(newStore, newTable) ==
    /\ store' = [newStore EXCEPT !.ok = TRUE, !.assert = TRUE]
    /\ table' = [newTable EXCEPT !.ok = TRUE]
    /\ aborted' = (debug /\ ~newStore.assert)
    /\ UNCHANGED debug

(* The tx links of a block (block_result, begin).                          *)
Links(b) == IF blk[b].associated THEN TxsOf[b] ELSE <<>>

-----------------------------------------------------------------------------
(* The caller.                                                             *)

TxsIn(chain) == UNION {ToSet(TxsOf[chain[i]]) : i \in DOMAIN chain}

Spends(txs) == UNION {ToSet(InputsOf[t]) : t \in txs}

(* The transactions of a chain before transaction i of its last block.     *)
TxsBefore(b, i) == TxsIn(Front(Chain[b])) \cup ToSet(SubSeq(TxsOf[b], 1, i - 1))

(* The verdict of validation, with all ancestors valid: every input spends *)
(* an output of the chain that nothing else spends, and no transaction     *)
(* occurs twice.                                                           *)
Acceptable(b) ==
    \A i \in DOMAIN TxsOf[b] :
        LET t == TxsOf[b][i]
            before == TxsBefore(b, i)
        IN  /\ t \notin before
            /\ \A p \in ToSet(InputsOf[t]) :
                  /\ p[1] \in before /\ p[2] < OutputsOf[p[1]]
                  /\ p[1] \notin ToSet(TxsOf[Chain[b][1]])
                  /\ p \notin Spends(before)

Idle == call \in {NoCall, FailedCall} /\ ~aborted

(* The height of the last block that two chains share: the fork point.     *)
Shared(chain, other) ==
    Max({n \in 0..Len(chain) : n <= Len(other) /\ \A i \in 1..n : chain[i] = other[i]}) - 1

Organized(b) == b \in ToSet(cand)

(* verify_push and verify_confirm, of a debug build: b is the next of the  *)
(* index, at this height and on its parent.                                *)
Follows(index, b, height) ==
    /\ Len(index) = height
    /\ height > 0 => Last(index) = Parent(b)

AncestorsValid(b) ==
    \A i \in 1..Height(b) : blk[Chain[b][i]].validation = "valid"

-----------------------------------------------------------------------------
(* The payment index.                                                      *)

(* Mutant: what is stored is taken for cataloged.                          *)
CatalogBlockExisting(b) ==
    payments' = payments \cup {t \in ToSet(TxsOf[b]) : t \notin DOMAIN table.tx}

(* catalog(block): the transactions that get_block_metadata, asked by the  *)
(* caller at the fork point of the two chains, does not report as          *)
(* cataloged.                                                              *)
CatalogBlock(b) ==
    payments' = payments \cup
        {t \in ToSet(TxsOf[b]) : ~BlockCataloged(table, t, Shared(cand, conf))}

(* catalog(tx) of a pooled transaction, with the metadata of               *)
(* get_pool_metadata; it must exist (verify_exists).                       *)
CatalogTx(t) ==
    /\ ~aborted
    /\ t \in DOMAIN table.tx
    /\ ~PoolCataloged(table, t)
    /\ payments' = payments \cup {t}
    /\ UNCHANGED <<debug, store, table, call, aborted, unsaved, marked, displaced, presumed>>

-----------------------------------------------------------------------------
(* push(block, height): store, candidate, associate, confirm, validate,    *)
(* catalog and confirm the presumed valid block.  create() calls it with   *)
(* the genesis block, initchain and tests with others.                     *)
Push(b) ==
    LET stored == Promote(StoreHeader(store, b), b, Height(b), "candidate")
        linked == UpdateTransactions(stored, b)
        confirmed == ConfirmAll(StoreAll(table, TxsOf[b]), TxsOf[b], Height(b))
        final == Promote(Validate(linked, b, TRUE), b, Height(b), "confirmed")
    IN  /\ Idle
        /\ b \notin DOMAIN blk
        /\ conf = cand
        /\ conf = Front(Chain[b])
        /\ Acceptable(b)
        /\ Write(IF confirmed.ok THEN final ELSE linked, confirmed)
        /\ IF confirmed.ok THEN CatalogBlock(b) ELSE UNCHANGED payments
        /\ unsaved' = ~confirmed.ok
        /\ UNCHANGED <<call, marked, displaced, presumed>>

(* store(tx, forks), of a transaction that is not stored (verify_missing). *)
StoreTx(t) ==
    /\ ~aborted
    /\ conf # <<>>
    /\ t \notin DOMAIN table.tx
    /\ Write(store, StoreUnconfirmed(table, t, Forks))
    /\ UNCHANGED <<call, payments, unsaved, marked, displaced, presumed>>

(* update(block, height): in a debug build only of a candidate header      *)
(* (verify_update).                                                        *)
Update(b) ==
    /\ ~aborted
    /\ b \in DOMAIN blk
    /\ ~blk[b].associated
    /\ debug => Organized(b)
    /\ Write(UpdateTransactions(store, b), StoreAll(table, TxsOf[b]))
    /\ unsaved' = TRUE
    /\ UNCHANGED <<call, payments, marked, displaced, presumed>>

(* invalidate(header, error).                                              *)
Invalidate(b) ==
    /\ Idle
    /\ Organized(b)
    /\ blk[b].associated
    /\ blk[b].validation = "none"
    /\ AncestorsValid(b)
    /\ Acceptable(b) => b \in Presumable
    /\ Write(Validate(store, b, Acceptable(b)), table)
    /\ presumed' = IF Acceptable(b) THEN presumed \cup {b} ELSE presumed
    /\ UNCHANGED <<call, payments, unsaved, marked, displaced>>

(* candidate(block).                                                       *)
Candidate(b) ==
    /\ Idle
    /\ Organized(b)
    /\ blk[b].associated
    /\ blk[b].validation = "none"
    /\ AncestorsValid(b)
    /\ Acceptable(b)
    /\ LET candidated == CandidateAll(table, TxsOf[b], TRUE)
       IN  /\ Write(Validate(store, b, TRUE), candidated)
           /\ IF candidated.ok THEN CatalogBlock(b) ELSE UNCHANGED payments
    /\ marked' = marked \cup {b}
    /\ UNCHANGED <<call, unsaved, displaced, presumed>>

(* confirm(hash, height), of the next candidate.  It does not cache.       *)
Confirm(b) ==
    LET confirmed == ConfirmLinks(table, Links(b), Height(b))
    IN  /\ Idle
        /\ conf # <<>>
        /\ Organized(b)
        /\ Follows(conf, b, Height(b))
        /\ blk[b].validation = "valid"
        /\ Write(IF confirmed.ok THEN Promote(store, b, Height(b), "confirmed") ELSE store,
                 confirmed)
        /\ unsaved' = TRUE
        /\ displaced' = IF confirmed.ok THEN displaced \ {b} ELSE displaced
        /\ UNCHANGED <<call, payments, marked, presumed>>

-----------------------------------------------------------------------------
(* reorganize(fork_point, incoming, outgoing), of headers or of blocks.    *)

(* Mutant: push_all ends after the first header or block.                  *)
ContinueOnce(c, top) ==
    LET next == [c EXCEPT !.popping = @ /\ top > c.fork]
    IN  IF next.popping \/ (c.popping /\ next.incoming # <<>>) THEN next ELSE NoCall

(* The loops of pop_above and push_all: pop while the top is above the     *)
(* fork point, then push the incoming ones, then return.                   *)
Continue(c, top) ==
    LET next == [c EXCEPT !.popping = @ /\ top > c.fork]
    IN  IF next.popping \/ next.incoming # <<>> THEN next ELSE NoCall

(* Mutant: the first incoming header or block is skipped.                  *)
ReorganizeSkipping(name, fork, target) ==
    call' = Continue([name |-> name, fork |-> fork, popping |-> TRUE, height |-> fork + 1,
                      incoming |-> SubSeq(target, fork + 3, Len(target)), target |-> target],
                     Top(store.index[name]))

(* pop_above and push_all of the index, from the fork point to target.     *)
Reorganize(name, fork, target) ==
    call' = Continue([name |-> name, fork |-> fork, popping |-> TRUE, height |-> fork + 1,
                      incoming |-> SubSeq(target, fork + 2, Len(target)), target |-> target],
                     Top(store.index[name]))

Popping(name) == ~aborted /\ call.name = name /\ call.popping
Pushing(name) == ~aborted /\ call.name = name /\ ~call.popping
AfterPop(top) == Continue(call, top)
AfterPush == Continue([call EXCEPT !.incoming = Tail(@), !.height = @ + 1], call.height)

(* The blocks displaced when one index has demoted b: all but those that   *)
(* the other does not hold either.                                         *)
Displaced(b, other) == IF b \in ToSet(other) THEN displaced \cup {b} ELSE displaced \ {b}

(* verify(blocks, fork_point, candidate), in a debug build.                *)
Verify(b, name) == debug => blk[b].confirmation \in {"confirmed", name}

(* The header chain is to become the chain of b, from any header that the  *)
(* two share.                                                              *)
BeginHeaders(b) ==
    /\ Idle
    /\ conf # <<>>
    /\ \E fork \in 0..Shared(cand, Chain[b]) :
          /\ \A i \in (fork + 2)..Len(Chain[b]) :
                Chain[b][i] \in DOMAIN blk => blk[Chain[b][i]].validation # "failed"
          /\ Verify(At(cand, fork), "candidate")
          /\ Reorganize("candidate", fork, Chain[b])
    /\ UNCHANGED <<debug, store, table, aborted, payments, unsaved, marked, displaced, presumed>>

(* pop_header: previous outputs are unspent and the header is demoted.  A  *)
(* failure ends the call.                                                  *)
PopHeader ==
    LET b == Last(cand)
        uncandidated == CandidateAll(table, Links(b), FALSE)
        done == uncandidated.ok
    IN  /\ Popping("candidate")
        /\ Write(IF done THEN Demote(store, b, Top(cand), "candidate") ELSE store, uncandidated)
        /\ call' = IF done THEN AfterPop(Top(cand) - 1) ELSE FailedCall
        /\ marked' = IF done THEN marked \ {b} ELSE marked
        /\ displaced' = IF done THEN Displaced(b, conf) ELSE displaced
        /\ unsaved' = (unsaved /\ ~done)
        /\ UNCHANGED <<payments, presumed>>

(* push_header: the header is stored if it is new; the result of promote   *)
(* is not looked at, that of verify_push ends the call.                    *)
PushHeader ==
    LET b == Head(call.incoming)
        stored == IF b \in DOMAIN blk THEN store ELSE StoreHeader(store, b)
        done == debug => Follows(cand, b, call.height)
    IN  /\ Pushing("candidate")
        /\ Write(IF done THEN Promote(stored, b, call.height, "candidate") ELSE store, table)
        /\ call' = IF done THEN AfterPush ELSE FailedCall
        /\ displaced' = IF done THEN displaced \ {b} ELSE displaced
        /\ unsaved' = (unsaved /\ ~done)
        /\ UNCHANGED <<payments, marked, presumed>>

(* The confirmed chain is to become the chain of b, a valid block of the   *)
(* candidate or of the confirmed chain, from any block that the two share. *)
BeginBlocks(b) ==
    /\ Idle
    /\ conf # <<>>
    /\ b \in ToSet(cand) \cup ToSet(conf)
    /\ AncestorsValid(b) /\ blk[b].validation = "valid"
    /\ \E fork \in 0..Shared(conf, Chain[b]) :
          /\ Verify(At(conf, fork), "confirmed")
          /\ Reorganize("confirmed", fork, Chain[b])
    /\ UNCHANGED <<debug, store, table, aborted, payments, unsaved, marked, displaced, presumed>>

(* pop_block: the transactions are deconfirmed and the block is demoted.   *)
PopBlock ==
    LET b == Last(conf)
        unconfirmed == UnconfirmAll(table, Links(b))
        done == unconfirmed.ok
    IN  /\ Popping("confirmed")
        /\ Write(IF done THEN Demote(store, b, Top(conf), "confirmed") ELSE store, unconfirmed)
        /\ call' = IF done THEN AfterPop(Top(conf) - 1) ELSE FailedCall
        /\ displaced' = IF done THEN Displaced(b, cand) ELSE displaced
        /\ unsaved' = (unsaved /\ ~done)
        /\ UNCHANGED <<payments, marked, presumed>>

(* push_block: the transactions are confirmed and the block is promoted.   *)
PushBlock ==
    LET b == Head(call.incoming)
        verified == debug => Follows(conf, b, call.height)
        confirmed == IF verified THEN ConfirmAll(table, TxsOf[b], call.height) ELSE table
        done == verified /\ confirmed.ok
    IN  /\ Pushing("confirmed")
        /\ Write(IF done THEN Promote(store, b, call.height, "confirmed") ELSE store, confirmed)
        /\ call' = IF done THEN AfterPush ELSE FailedCall
        /\ displaced' = IF done THEN displaced \ {b} ELSE displaced
        /\ unsaved' = (unsaved /\ ~done)
        /\ UNCHANGED <<payments, marked, presumed>>

(* The process stops, also between two blocks of a reorganization (with    *)
(* flush_each_write each of them is on disk by then), and opens the store  *)
(* again: start() makes a new, empty cache.  What a stop loses when the    *)
(* counts have not been committed is in BlockIndex and TransactionIndex,   *)
(* what it does in the middle of a write in Store.                         *)
Restart ==
    /\ ~aborted
    /\ ~unsaved
    /\ conf # <<>>
    /\ table' = [table EXCEPT !.cache = EmptyCache]
    /\ call' = NoCall
    /\ UNCHANGED <<debug, store, aborted, payments, unsaved, marked, displaced, presumed>>

Next ==
    \/ \E b \in Blocks :
          \/ Push(b)
          \/ Update(b)
          \/ Invalidate(b)
          \/ Candidate(b)
          \/ Confirm(b)
          \/ BeginBlocks(b)
          \/ BeginHeaders(b)
    \/ \E t \in Pool : StoreTx(t) \/ CatalogTx(t)
    \/ PopHeader
    \/ PushHeader
    \/ PopBlock
    \/ PushBlock
    \/ Restart

Spec == Init /\ [][Next]_vars

-----------------------------------------------------------------------------
HeightValues == {Height(b) : b \in Blocks} \cup {Forks, Unverified}

TypeOK ==
    /\ debug \in BOOLEAN
    /\ DOMAIN blk \subseteq Blocks
    /\ \A b \in DOMAIN blk : blk[b] \in BlockStates
    /\ cand \in Seq(Blocks) /\ conf \in Seq(Blocks)
    /\ DOMAIN table.tx \subseteq Txs
    /\ \A t \in DOMAIN table.tx :
          table.tx[t] \in [height : HeightValues, position : Nat, candidate : BOOLEAN,
                           outputs : [Outputs(t) -> [candidateSpent : BOOLEAN, spender : Nat]]]
    /\ call.name \in Indexes \cup {"none", "failed"}
    /\ aborted \in BOOLEAN /\ unsaved \in BOOLEAN
    /\ payments \subseteq Txs
    /\ marked \subseteq Blocks /\ displaced \subseteq Blocks /\ presumed \subseteq Blocks

(* Both indexes are chains from genesis, after every pop and push of a     *)
(* reorganization (data_base.cpp, pop_above and push_all; push_header does *)
(* not look at the result of promote).                                     *)
ChainsLinked ==
    \A chain \in {cand, conf} : chain # <<>> => chain = Chain[Last(chain)]

(* A reorganization that returns success, and that no stop of the process  *)
(* has cut short, leaves the index with the chain it was asked for: no pop *)
(* or push was left out, none too many made, and no promote or demote, the *)
(* result of which is not looked at, has done nothing (data_base.cpp,      *)
(* pop_above and push_all; block_database.cpp, promote and demote).        *)
TargetReached ==
    [][call.name \in Indexes /\ call' = NoCall /\ ~Restart =>
          store'.index[call.name] = call.target]_vars

(* A reorganization of blocks does not fail: no pop or push of a valid     *)
(* block ends it part way, whatever the transactions of its branch went    *)
(* through (data_base.cpp, pop_block and push_block;                       *)
(* transaction_database.cpp, confirmed_spend), and whatever reorganization *)
(* a stop of the process has cut short before.                             *)
BlocksComplete ==
    [][call.name = "confirmed" => call' # FailedCall]_vars

(* A reorganization of headers does not fail, unless it comes to pop a     *)
(* header whose block has an input with no stored output: of a transaction *)
(* that is not stored yet, as the block was downloaded before its parent,  *)
(* or of one that does not have that output (data_base.cpp, pop_above,     *)
(* push_all and pop_header; transaction_database.cpp, candidate_spend).    *)
HeadersComplete ==
    [][call.name = "candidate" /\ call' = FailedCall =>
          \E point \in Spends(ToSet(Links(Last(cand)))) : ~HasOutput(table, point)]_vars

(* What get_output tells of an output, relative to a fork point on the     *)
(* confirmed chain, is what that chain says: the output is confirmed if a  *)
(* block up to the fork point holds its transaction, and spent if such a   *)
(* block spends it; whatever was organized, deconfirmed and confirmed      *)
(* again before (transaction_database.cpp, get_output, confirm,            *)
(* unconfirm).  Genesis outputs are never found.  This is about the        *)
(* transaction table; a cached output is read as the cache says.           *)
UtxoExact ==
    LET db == [table EXCEPT !.cache = EmptyCache]
        stored == UNION {{t} \X Outputs(t) : t \in DOMAIN db.tx}
        found == {point \in stored : OutputFound(db, point)}
    IN  \A fork \in 0..Top(conf) :
        LET txs == TxsIn(SubSeq(conf, 1, fork + 1))
            spends == Spends(txs)
        IN  /\ \A t \in txs \ TxsIn(SubSeq(conf, 1, 1)) : {t} \X Outputs(t) \subseteq found
            /\ \A point \in found :
                  LET prevout == Prevout(db, point, fork) IN
                  /\ prevout.confirmed <=> point[1] \in txs
                  /\ prevout.confirmedSpent <=> point \in spends

(* No candidate mark is left behind: an output is candidate spent only if  *)
(* a block of the candidate chain that was marked spends it, and a         *)
(* transaction is a candidate only if such a block holds it                *)
(* (data_base.cpp, pop_header; transaction_database.cpp, uncandidate).  A  *)
(* mark left behind would make a valid block a double spend for ever.      *)
MarksOwned ==
    LET txs == UNION {ToSet(TxsOf[b]) : b \in marked \cap ToSet(cand)}
        spends == Spends(txs)
    IN  \A t \in DOMAIN table.tx :
        /\ table.tx[t].candidate => t \in txs
        /\ \A i \in Outputs(t) :
              table.tx[t].outputs[i].candidateSpent => <<t, i>> \in spends

(* The state byte of a block agrees with the two indexes, in the one       *)
(* confirmation field they share (block_database.cpp, promote and demote;  *)
(* "Deconfirmation is always directly to the pooled state"): it names an   *)
(* index that holds the block, and is missing only if neither does or one  *)
(* has demoted it and the other holds it still ("candidate index           *)
(* unchanged").  A confirmed block is valid, and in a debug build that has *)
(* not aborted its state says that it is confirmed.                        *)
StateMatchesIndex ==
    \A b \in DOMAIN blk :
        LET confirmation == blk[b].confirmation
            held == {i \in Indexes : b \in ToSet(store.index[i])}
        IN  /\ confirmation = "missing" <=> held = {} \/ b \in displaced
            /\ confirmation # "missing" => confirmation \in held
            /\ "confirmed" \in held =>
                  /\ blk[b].validation = "valid" /\ blk[b].associated
                  /\ debug /\ ~aborted => confirmation = "confirmed"

(* The one assertion on the state of a block that can fail is "May only    *)
(* uncandidate a candidate header" (block_database.cpp,                    *)
(* update_confirmation_state): when pop_header comes to a header whose     *)
(* block is confirmed, or was and has been popped while it stayed a        *)
(* candidate.  A reorganization of blocks, a validation, and one of        *)
(* headers that has no such block above its fork point, fail none.         *)
AssertionsHold ==
    [][aborted' # aborted =>
          /\ call.name = "candidate" /\ call.popping
          /\ Last(cand) \in ToSet(conf) \cup displaced]_vars

(* In a database without neutrino filters, every transaction of a block    *)
(* that candidate() or push() made valid is in the payment index, whatever *)
(* branch it was confirmed and deconfirmed in before (data_base.cpp,       *)
(* catalog, "Existence checks prevent duplicated indexing";                *)
(* transaction_database.cpp, get_block_metadata): the check never takes    *)
(* for cataloged what is not.  It would for a transaction of a block that  *)
(* invalidate() made valid: that one is confirmed and never cataloged.     *)
(* (With filters, candidate() and push() also fail between validate and    *)
(* catalog, when filter(block) does.)                                      *)
AllCataloged ==
    \A b \in DOMAIN blk \ presumed :
        blk[b].validation = "valid" =>
            ToSet(TxsOf[b]) \ UNION {ToSet(TxsOf[p]) : p \in presumed} \subseteq payments

(* The cache follows the reorganizations: an entry that says its           *)
(* transaction is confirmed is of a transaction of the confirmed chain, at *)
(* the height where that chain has it (transaction_database.cpp, confirm   *)
(* and unconfirm).  A stale entry would let a block spend an output of a   *)
(* branch that is gone.                                                    *)
CacheFollowsChain ==
    \A t \in DOMAIN table.cache.map :
        LET entry == table.cache.map[t] IN
        entry.confirmed =>
            entry.height \in 0..Top(conf) /\ t \in ToSet(TxsOf[At(conf, entry.height)])

(* "Cache removes outputs after they are confirmed spent"                  *)
(* (unspent_outputs.cpp): no cached output is spent by the confirmed       *)
(* chain.                                                                  *)
CachedAreUnspent ==
    \A point \in Spends(TxsIn(conf)) : ~Cached(table.cache, point)
=============================================================================
