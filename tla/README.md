# libbitcoin-database in TLA+

A model of the database of a libbitcoin node: memory-mapped files, the hash
tables built in them, the block, transaction and payment databases over these,
the cache of unspent outputs and the store that guards it all against crashes.
TLC checks the modules on small instances; TLAPS proves the safety properties
for every value of the constants. Paths are relative to the repository, which
is under `src/`; `PROJECT.json` maps every definition to its lines.

## 1. The system

| component | state | operations | interacts with |
|---|---|---|---|
| `file_storage`, `accessor` | mapping (`data_`, `capacity_`, `logical_size_`), `closed_`, descriptor, upgrade mutex | open, flush, close, access, resize, reserve | every table; an accessor holds the mutex shared while it lives |
| `slab_manager`, `record_manager` | count or size in memory, and the one in the file | create, start, commit, allocate, set_count | `file_storage` |
| `hash_table`, `hash_table_header`, `list_element` | bucket heads, elements with key and next | allocator, create, link, find, get, unlink | managers; `root_mutex_`, `list_mutex_` |
| `hash_table_multimap` | roots in a hash table, rows in a record file | allocator, link, unlink, find | hash table, record manager |
| `unspent_outputs` | bimap transaction/sequence, capacity | add, remove (2), populate | `transaction_database` |
| `transaction_database` | transactions with height, position, candidate, per output two spend fields; cache | store, candidate, uncandidate, confirm, unconfirm, get_output, get_*_metadata | hash table, cache |
| `block_database` | headers with state byte and associations, candidate and confirmed index, transaction index | store, update_transactions, validate, promote, demote, top, get | hash table, record managers |
| `payment_database` | multimap of payments | catalog, get | multimap |
| `filter_database` | filters, cached checkpoints | store, get, checkpoints | hash table |
| `data_base` | the databases, `write_mutex_`, `closed_` | push, store, update, invalidate, candidate, confirm, reorganize (2), catalog, filter, create, open, close | everything; called by the organizers of libbitcoin-blockchain |
| `store` | flush lock file, exclusive lock file | create, open, close, begin_write, end_write | `data_base` |

What is hard: accessors of many threads against resize and close; finds that
walk a chain without a lock while it is linked to; reorganizations of two
indexes, pop by pop, between which other threads store blocks and transactions;
marks on outputs that must be taken back when a branch goes away; counts that
are on disk only after a commit; a process that dies between two writes. The
hazards, each at its line and with the properties that watch it, are in
`PROJECT.json`.

What makes it correct: pointers stay valid, nothing linked is lost, a find sees
one moment; the outputs read as the confirmed chain says at every fork point;
marks belong to blocks of the candidate chain; every transaction of a valid
block is in the payment index; cached filter checkpoints are blocks of the
confirmed chain; committed data is not overwritten; a read by height returns a
block that was there; a torn database is refused.

## 2. Modules

| module | models | proofs |
|---|---|---|
| `FileStorage` | `file_storage` and `accessor`, one action per lock transition and system call | `FileStorage_proof` |
| `HashTable` | `hash_table` on a `slab_manager`: allocate, write, link, find, commit, restart | `HashTable_proof` |
| `KeyStore` | what `hash_table` promises: storing and finding at one moment; `HashTable` implements it (the mapping is at the end of that module) | `HashTable_proof` |
| `UnspentOutputs`, `OutputCache` | the operators of the cache, and the cache on its own, as `CacheSpec` | the end of `DataBase_proof` |
| `TransactionDatabase`, `BlockDatabase` | the operations of the two databases as operators on their state | lemmas in `DataBase_proof` |
| `DataBase` | composes the two, the cache and the payment index: the public operations of `data_base` | `DataBase_proof` |
| `Filters` | the cache of filter checkpoints over the confirmed chain | `Filters_proof` |
| `BlockIndex` | both indexes of `block_database` and the state bytes they share, in the steps that readers and a second updater see | `BlockIndex_proof` |
| `TransactionIndex` | associations of blocks in a `record_manager`, commits, restarts | `TransactionIndex_proof` |
| `PaymentIndex` | `hash_table_multimap` under `payment_database` | `PaymentIndex_proof` |
| `Store` | `store` with flush and close of `data_base`, file by file, and crashes | `Store_proof` |
| `MC*` | instances for TLC | |

Correspondence, where it is not plain:

* **FileStorage.** `pc` is where a thread is relative to the mutex: `upgraded`
  (owns it upgradable), `wait` (asked for the exclusive lock and waits for the
  shared owners), `exclusive`, `resized` (upgradable again). The boost upgrade
  mutex is external: a waiting upgrade keeps new owners out. `data` counts the
  mappings, so that a pointer into an old one is seen. A thread may ask for
  more accessors while it has one, as `block_result` does, whose constructor and
  `header()` call `element_.key()` inside `element_.read()`. `expansion` is the
  arithmetic of the code (floor of `required * (expansion + 100) / 100`).
* **HashTable.** Each step of `link` (set_next, header write) and each step of a
  walk is an action. `order` is history: the elements of a bucket in the order
  in which they were linked.
* **DataBase.** `write_mutex_` covers one pop or push, so `reorganize` is a
  sequence of actions with `call` as its locals; `update`, `store` and `catalog`
  do not take that mutex and happen in between, and so does `Restart`, the stop
  of the process with the store on disk as it was after the last block.
  `unsaved` says that block_database has counts it did not commit, when a stop
  loses more; `BlockIndex` and `TransactionIndex` are about that. The module's
  part "The caller" states what libbitcoin-blockchain is assumed to do: the
  calls that organize chains come one at a time, a block is validated after its
  ancestors, one thread updates a block, and `get_block_metadata` is asked where
  the two chains part before a block is cataloged. `Presumable` are the blocks
  it may make valid by `invalidate(header, success)` instead of `candidate`. A
  reorganization of either index may have any fork point: a block that the index
  and the new chain share, not only the last one. So headers may be popped that
  are confirmed, and confirmed blocks that stay candidates (as the tests of
  `pop_block` and `pop_above2` do). Blocks are reorganized to a valid block of
  the candidate chain or back to one of the confirmed chain. `debug` is a build
  with assertions, in which the functions of `verify.cpp` do something; it is
  either in the initial state and never changes. A `verify_push` that fails ends
  the reorganization (`Follows`), a failed assertion the process (`aborted`), and
  a call that another `verify_` function refuses as a whole (`Verify`) is left
  out, as it changes nothing. `displaced` is history: the blocks that one index
  has demoted while the other held them, and that no promotion has named since.
  `Acceptable` is the verdict of validation (external).
* **Filters.** A block is the path of tags from genesis to it, so that all
  chains up to `MaxHeight` are covered and the block at a height is a prefix. An
  entry of the cache is the block whose row it was read through. `Kept` and
  `Extended` are the two halves of `update_filter_cache`. `opened` is false
  after a `Reopen`, because `open()` then reports failure (see the deviations)
  and nothing but another `open()` follows. `sound` is history: the lowest fork
  point of the reorganizations since one that failed part way.
* **BlockIndex.** `organizer` and `validator` hold what `promote`, `demote` and
  `validate` have read between their two critical sections; `count` is in
  memory, `saved` in the file, of each index; one commit saves both. Both
  indexes write the one confirmation field in `state`. History: `seen` of a
  reader, the blocks that were at its height during the call; `early`, the
  height was counted and not written during the call; `overlapped`, blocks whose
  state two threads updated at a time; `displaced`, blocks that one index holds
  and the other has demoted; `confirms` since the last commit; `lost`, blocks
  off an index after a restart. A promotion always ends here: a `push()` that
  fails after it is not in the module.
* **TransactionIndex.** `committed` is the count in the file; a restart returns
  to it. `fresh` and `durable` are history: blocks updated since the last
  commit, and before it.
* **PaymentIndex.** The hash table under it is used as `KeyStore` says; what it
  adds is the lock order of `root_mutex_` and the accessor of the table's file.
* **Store.** `dirty` files have writes that did not reach the disk. `lock` is
  what an operation writes under: `write_mutex_`, or a conditional lock, which is
  given a flag and no mutex and so excludes nothing (external). The flush lock is
  a file: releasing it removes it (external). Threads may be anywhere in a write
  when `close()` comes. History: `unguarded`, the flush lock did not cover all
  writes since open(), as two flushed writes overlapped, `confirm()` wrote or
  `close()` failed during a write; `torn`; `failed`, an operation returned
  between begin_write and the release of the lock.

`faulty` in `FileStorage` is history as well: a system call on the file failed.

## 3. Runs

Passing runs; the constants are in the cfg of the same name:

| run | bounds | shows |
|---|---|---|
| `file_storage` | 3 threads, requests below and above the capacity, 2 mappings, two accessors per thread, any system call may fail | `AccessorsValid`, `SizesNested`, `TrimmedForGood`, `LockReleased` (liveness) |
| `hash_table` | 2 threads, 3 keys in 2 buckets so that two collide, 4 elements, restarts | `ChainIntact`, `LinkedOnce`, `FindAtomic`, `LinkedImmutable`, `ImplementsKeyStore` (refinement), `FindReturns` (liveness) |
| `output_cache` | 4 transactions, capacity 2, 5 insertions | `CircularByAge`, `SpentStaysOut` |
| `database` | 5 blocks in two branches, any fork point, 10 transactions with a shared one, a double spend over the branches and one in a branch, a cache of one transaction, both builds, a stop after any step | `ChainsLinked`, `TargetReached`, `UtxoExact`, `MarksOwned`, `BlocksComplete`, `HeadersComplete`, `AssertionsHold`, `StateMatchesIndex`, `CacheFollowsChain`, `AllCataloged` |
| `transaction_index` | 2 threads, 3 blocks, 6 records, 2 restarts | `DurableIntact` |
| `payment_index` | 3 threads, 2 keys, 3 rows, symmetric | `PaymentsListed`, `WalkIsSnapshot` |
| `store` | 2 threads, 2 files, both settings of flush_writes, any failure, any crash, close() at any time | `TornIsRefused`, `FailureIsRefused` |
| `filters` | all chains over 2 tags up to height 5 with an interval of 2 (3 checkpoints), all forks and branches, a failure after any step | `CheckpointsOnChain`, `LastMayLag` |
| `block_index` | 3 blocks, heights 0 to 2, both indexes, an organizer, a validator and a reader, 1 restart | `ReadsCurrent`, `UpdatesMerge`, `OnlyConfirmsLost` |

Each but `output_cache` also checks its `TypeOK`. The bounds are the smallest in which the cases of
interest meet: a reader, a writer that grows and a closer of one file; a writer
and a reader of one bucket; two branches with a common transaction, that replace
each other; an eviction and a re-insertion; a commit by another
thread between an allocation and its use; a pop and a push of one height during
a read of it; a fork in each place relative to a checkpoint. In `database` the
cache holds one transaction and `MaxSequence` is 0: with one entry every add
evicts, so the order of insertion, which `output_cache` is about, has no
effect. `Presumable` is one block at the end of a branch: what a block in the
middle would add, its descendants being candidates over it, is a payment that is
never cataloged, which `AllCataloged` excepts by name. Runs that say `CHECK_DEADLOCK FALSE`
have states in which all elements are used up, a file is wedged, a database is
refused for good or the whole tree of blocks is confirmed, where nothing more can happen; `payment_index` also reaches
the deadlock that `payment_index_wait` is about.

Fairness: in `FileStorage` and `HashTable` a thread inside a call goes on when it
can, and a reader drops its accessor some day (weak fairness of each thread's
steps; the operating system schedules threads). Nothing is assumed of who gets
a mutex, nor that anyone calls. The other specifications have none and are
checked for safety.

Runs that end in a violation, each about a statement of the code or its
documentation that the code does not keep (`findings` in `PROJECT.json` has the
quotation and the line):

| run | what the code does |
|---|---|
| `database_spent_cache` | the cache keeps outputs that are confirmed spent |
| `transaction_index_restart` | associations that update() wrote are overwritten after a restart |
| `payment_index_wait` | find and link wait for each other when the table's file has to grow |

Deviations met while modelling that the models contain or exclude by an explicit
condition, without a run of their own:

* `file_storage::reserve` throws between taking and releasing the exclusive lock
  when a resize fails (`file_storage.cpp:402`); every later call blocks. This is
  `Wedged`, the exception of `LockReleased`.
* A thread that has an accessor and asks for a second one of the same file, and
  a resize, flush or close that waits for the first one to go, wait for each
  other for ever (`block_result.cpp:59`, `:125`; `file_storage.cpp:343`). This is
  `Crossed`, the other exception of `LockReleased`.
* `resize()` does not shrink (`file_storage.hpp:79` says it does), and a closed
  `file_storage` cannot be opened again, its descriptor being closed
  (`file_storage.hpp:62` says "restartable").
* `unspent_outputs::add` keeps an entry that is there (`unspent_outputs.hpp:56`
  says "purges matching tx").
* Both indexes share the confirmation field of the state byte, and `demote` of
  either writes `missing` there, whatever the other holds
  (`block_database.cpp:410`): a header of a confirmed block that is popped, or a
  confirmed block that is popped and stays a candidate ("candidate index
  unchanged", `data_base.cpp:849`). The exception `displaced` of
  `StateMatchesIndex` and `UpdatesMerge`.
* `pop_header` of a header whose block is confirmed, or was popped from the
  confirmed chain and stayed a candidate, fails the assertion at
  `block_database.cpp:402` in a debug build: a header fork below the confirmed
  top. It is what `AssertionsHold` leaves, and nothing else fails one.
* Popping an invalid block that candidate() never marked clears the candidate
  marks of a block that stays and spends the same output
  (`transaction_database.cpp:415`).
* A confirmed spend of a candidate transaction, which the assertion at
  `transaction_database.cpp:276` excludes, is reached while the candidate chain
  is ahead of the confirmed one on another branch.
* A header reorganization fails part way when it pops a block that has an input
  of a transaction not stored yet, a block downloaded before its parent, or with
  an index past the outputs of that transaction:
  `pop_header` uncandidates transactions that `candidate()` never marked, and
  `candidate_spend` fails (`transaction_database.cpp:381`). It is the exception
  of `HeadersComplete`. (`data_base.hpp:89` says "Reorganize the header index to
  the specified fork point".)
* `get_block_metadata` compares `fork_height <= height`
  (`transaction_database.cpp:185`): a transaction above the fork point is taken
  for confirmed and cataloged, one below it for neither. It never makes a
  payment go missing (`AllCataloged`), as a block that was confirmed was
  cataloged before.
* The existence check before cataloging looks at the position
  (`data_base.cpp:281`, "prevents duplicated indexing"), which is unconfirmed
  for a pooled transaction: it is cataloged when it comes in, again if it comes
  in twice, and once more with its block.
* `invalidate(header, success)` makes a block valid that is then never
  cataloged: the exception `presumed` of `AllCataloged`. With neutrino filters
  `candidate()` and `push()` also end between validate and catalog when
  `filter(block)` fails (`data_base.cpp:518`, `:591`), which leaves a valid block
  without payments; the model is of a database without them.
* `push()` does index payments (`data_base.hpp:84` says "without indexing").
* `open()` with filters returns false when `populate_filter_cache` succeeds, as a
  code converts to true for an error (`data_base.cpp:129`; line 116 says "May be
  called ... in order to reopen").
* `update_filter_cache` puts genesis first and may leave the last checkpoint to
  the next update (`LastMayLag`), while `populate_filter_cache` starts at the
  first interval; `confirm()` and `push()` do not update the cache.
* A block reorganization that fails part way does not update the cache of filter
  checkpoints (`data_base.cpp:545`), and later updates trim it by the wrong
  count. The exception `sound` of `CheckpointsOnChain`.
* `filter()` reads the link of a filter before it stores the filter and writes
  that copy, always "unlinked", to the block, cut to 32 bits
  (`data_base.cpp:338`; `block_database.cpp:43` says "array index into the
  appropriate filter_database").
* The state byte is read in one critical section and written in another
  (`block_database.cpp:384`; line 273 says "used to atomically update metadata"):
  a validate that overlaps a promote or demote of the same block undoes it, or
  is undone. The exception `overlapped` of `UpdatesMerge`.
* `push_link` counts a record before it writes it (`block_database.cpp:533`): a
  reader of that height gets what the file held, a block of a branch that is
  gone or genesis. The exception `early` of `ReadsCurrent`.
* `confirm()` does not commit: after a restart the index has lost the block,
  whose state stays confirmed. The exceptions `confirms` and `lost` in
  `BlockIndex`. (A `push()` that fails between `promote` and `commit`,
  `data_base.cpp:572` and `:602`, loses its candidate likewise.) It also writes without begin_write, so a crash after it is not
  noticed when writes are flushed.
* `hash_table::unlink` of an element behind the head starts at the wrong
  predecessor (`hash_table.ipp:167`); nothing in the library calls it.
* `data_base::commit()` (`data_base.cpp:189`) is called by nothing.
* Without flush_writes close() removes the flush lock also after a failed write;
  with it, the next write that succeeds does (`data_base.cpp:55` says the lock
  stays). `FailureIsRefused` is what remains.
* With flush_writes, writes under `write_mutex_` and under a conditional lock
  overlap (`data_base.cpp:440` says they do not); and the race of flush and
  close that `data_base.cpp:204` avoids is there one level below, as
  `file_storage::flush` of a closed file reports success. Both are exceptions of
  `TornIsRefused`, in `unguarded`.

Every property of a passing run has a mutant: a definition with a plausible
mistake, next to the correct one and marked "Mutant", under which the run finds
the property violated.

## 4. Proofs

Everything listed here holds for every value of the constants that satisfies the
assumptions in the modules, which TLC evaluates in the runs: sizes and counts are
naturals, distinguished values are none of the others (`ThreadsAssumption`,
`SizeAssumption`, `TableAssumption`, `IndexAssumption`, `BlockIndexAssumption`),
a store has files (`StoreAssumption`), the interval of checkpoints is positive
(`FiltersAssumption`), the blocks are a tree with one genesis
(`ChainAssumption`), and heights and positions lie below the values that mean
something else, which are bit 31 and the two greatest 16-bit numbers, while the
input of a coinbase is no output (`LimitsAssumption`). Each module proves that an
invariant holds initially and is kept by every step, one lemma or step per
action, and derives the properties from it. The type invariants are proved as
well; `OutputCache` has none, as its two invariants say more.

**`FileStorage_proof`**, for any threads, sizes, growth rate and failing calls.

* `AccessorsAlwaysValid`. `AccessorsValid` alone is not inductive: a thread looks
  at the file, waits for the exclusive lock and acts on what it saw. `MutexInv`
  ties lock owners to locations and says that the exclusive lock excludes
  accessors; `CallInv` that what a waiting thread saw still holds.
* `SizesAlwaysNested`, of a file that is open and not `faulty`. It needs
  `TargetCovers` (an expansion is never less than what was asked for) and
  `SizesInv`: the sizes agree from construction on, and a resize about to assign
  the logical size has made room.
* `ClosedStaysTrimmed` (`TrimmedForGood`, an action property), from the same:
  without a descriptor the file is closed, and then nobody who saw it open is
  left waiting.

**`HashTable_proof`**, for any threads, keys, buckets and hash, over restarts.

* `NoLinkLost`, `NoElementTwice`. `WriterInv`: an element being stored belongs to
  its thread alone, and the head that `link` read is still the head when it
  writes; `CountInv`: with nobody storing, all allocations are committed, so a
  restart gives out no linked element.
* `FindIsAtomic`: `FindInv` says that all a find has passed are other keys.
* `LinkedNeverChanges`: no step writes the key or next of a linked element.
* `TableImplementsStore`: every behaviour of `HashTable` is one of `KeyStore`
  under the mapping of `HashTable`: what is stored is what the history `order`
  says, and the answer of a find is fixed when it reads the head. `WriteHeader`
  is the abstract store, `ReadHeader` the abstract find, the return its end, and
  all other steps, commits and restarts too, change nothing abstract.

**`TransactionIndex_proof`**: `CommittedAssociationsStay`, for any blocks of any
size. The invariant assigns every record an owner, an update in progress or a
block; owners do not overlap, and what is committed lies below the count in the
file.

**`PaymentIndex_proof`**, for any threads, keys and rows.

* `NoPaymentLost`. `OwnerInv`, `KeyInv` and `OwnRowInv` say who holds the mutex
  and that a row not yet linked belongs to one thread; `RootInv` that what `link`
  and `unlink` read under it is still true; `ApartInv` that lists share no row.
* `WalksAreSnapshots`. The list changes under a walk, and an unlinked row keeps
  its next, so the invariant is about sequences of rows rather than the list:
  once chained as a list, they stay so for ever (`Sealed`, `SealedStays`), also
  when the list moves on. A walk follows such a sequence.

**`Store_proof`**, for any number of files and threads.

* `TornNeverOpens`. `LifeInv` says which files can be open or dirty at each point
  of the life of the process; `HeldInv`, that without `flush_writes` the flush
  lock is there as long as the process lives; `GuardInv`, that with it, and unless
  `unguarded`, there is one write at a time, it has the lock and what is dirty is
  what it has left to flush; `TornInv`, that once the database is torn the process
  is gone and the lock is there.
* `FailureLeavesLock`, with these.

**`Filters_proof`**, for any interval, tags and heights.

* `CheckpointsStayOnChain`, `OnlyLastLags`. `CallInv` says where a
  reorganization is between its fork point and its last push; `ChainInv` that the
  entries up to the sound height are prefixes of the chain; `BoundInv` that the
  cache has no checkpoint beyond the chain it was last updated for. The arithmetic of `Kept` and
  `Extended` is in lemmas about multiples of the interval.

**`BlockIndex_proof`**, for any blocks and readers.

* `ReadsStayCurrent`. `ReaderInv`: the record a reader is about to read is one
  it may return.
* `NoUpdateLost`. `StateInv`: the state of a block without overlap is what the
  two indexes, `displaced` and the validator say (`Told`), and that of the block
  under way what its index will say (`ToldAhead`); `ReadInv`: what an updater
  read is the state, unless the other one was there.
* `RestartLosesConfirms` (`OnlyConfirmsLost`, an action property). `SavedInv`:
  until a commit is due, the file lacks exactly what `confirm` pushed.

**`DataBase_proof`**, for any tree of blocks, any transactions and both builds.

* `ChainsStayLinked`, `StatesAgree`, `OnlyPopsOfConfirmedAssert` and
  `ReorganizationReachesTarget`. The invariant adds to these: what is in an
  index is stored (`StoredInv`); in a debug build that goes on, every confirmed
  block is a candidate and its state says confirmed (`SettledInv`), which a pop
  that breaks it also aborts; where `reorganize` is, that is that the index
  agrees with the target up to `call.height` and what is still to be pushed is
  the rest of it (`CallInv`); that headers to be pushed have not failed
  (`HeadersInv`); that blocks to be pushed are stored and valid and, in a debug
  build, candidates (`BlocksInv`). `update()` and `store()` of other threads keep
  all of this. `StatesAgree` needs no assumption on the fork point or the build:
  `displaced` follows each demotion, and a promotion clears it. With
  `SettledInv`, `HeadersInv` and `BlocksInv` every assertion holds but that on
  the header that is popped. The lemmas
  on chains (`ChainPrefix`, `SharedPrefix`, `LinkedAt`) rest on `Least`: a
  nonempty set of naturals has a least element. Then come what each method of
  `block_database` does to a store, and what it keeps of a good store.
  The transaction table is opaque in these proofs: whether a loop over the
  transactions of a block succeeds is arbitrary, so the theorems hold whatever
  it does.
* `UtxoStaysExact`, `MarksStayOwned`, `CacheStaysOnChain`,
  `PaymentsStayComplete`, `BlockReorganizationsComplete`,
  `HeaderReorganizationsComplete` and `TypesStayCorrect`, about transactions. They
  rest on a second invariant, `Books`, that holds along with the first:
  - every transaction of the confirmed chain has a row with the height and
    position where the chain has it, and no other row is confirmed
    (`ChainRows`); an output is marked spent at a height exactly if the block
    there spends it (`ChainSpends`); what the cache calls confirmed is on the
    chain (`CacheOn`);
  - the transactions of an associated block are stored (`StoredIn`), the blocks
    of the confirmed chain are valid (`ConfirmedValid`);
  - candidate marks are owned by the marked blocks of the candidate chain
    (`MarksIn`), which are associated (`MarkedIn`);
  - a valid block is acceptable on its branch and its transactions are cataloged
    or presumed (`ValidIn`), and
    so is every transaction whose position is not that of the pool
    (`CatalogedIn`). The existence check looks at the position, not at the
    payment index: without this conjunct it could skip what is not cataloged.

  `UtxoExact` alone is not inductive, as a pop has to take back exactly what a
  push wrote: that needs the height in each row and mark, and that the block is
  the top of the chain.

  The loops over transactions, outputs and inputs are functions on the passes
  already made (`While` in `TransactionDatabase`). `LoopExists` and `LoopHolds`
  are the induction: what holds before the first pass and is kept by each holds
  after the last; both follow from `Least`, so that no induction theorem with an
  operator for its parameter is needed. For every method (`Storize`,
  `CandidateSpend`, `ConfirmTx` and so on) there is a lemma on what one pass does
  to the table, then one on the whole loop (`Storings`, `Markings`,
  `Confirmings`: the tables a loop may have led to), and at last one on what the
  operation on a block does to a chain and its table. Each action of `DataBase`
  then has a lemma that it keeps `Books`, and the pops and pushes one more that
  they do not fail, or, of headers, only as `HeadersComplete` says.
* `CacheStaysCircular` and `SpentStaysRemoved`, of the cache on its own, for any
  capacity, transactions and greatest sequence number. `CacheInv` adds that
  `sequence_` is the greatest number given out, so that the next one is greater
  than all, or the first one of an empty cache.

Only model-checked: liveness, that is `LockReleased` of `FileStorage` and
`FindReturns` of `HashTable`. Fairness and ENABLED are outside what the prover
does.

## 5. Not modelled

* The bytes of filters and of payment rows: `data_base::filter`,
  `filter_database::store`, `update_neutrino_filter`, and the keys that
  `payment_database::catalog` derives from scripts.
* `hash_table::unlink`, which has no caller.
* Serialization of records, the result classes and iterators beyond what a find
  or a walk does, settings, the Windows emulation of mmap, initchain.
* `hit_rate` of the cache; logging; the metadata that an operation leaves on the
  objects of its caller, where nothing in the library reads it again.
* Two calls that organize chains at the same time: the organizers of
  libbitcoin-blockchain take turns.

## 6. Plan

Every safety property of a passing run is proved. What could be added:

1. An abstract ledger, a set of unspent outputs per height, that `DataBase`
   implements: `UtxoExact` says it state by state.
2. The bytes of filters and payment rows, if code that reads them comes to keep
   state.
