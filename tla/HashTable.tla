------------------------------ MODULE HashTable ------------------------------
(***************************************************************************)
(* hash_table (src/include/bitcoin/database/impl/hash_table.ipp) over a    *)
(* record or slab manager: an array of bucket heads, each the start of a   *)
(* linked list of elements [key | next | payload] in a file that only      *)
(* grows.  Any number of threads store elements and find them at once.     *)
(*                                                                         *)
(* find() takes no lock across its reads, so each read is a step of its    *)
(* own.  A store is the sequence the databases make of it:                 *)
(* allocator().create(key, write); link(element); commit().                *)
(***************************************************************************)
EXTENDS Integers, Sequences

CONSTANTS
    Threads,        \* threads that store and find
    NoThread,       \* "nobody" as the owner of root_mutex_
    Keys,           \* keys
    NoKey,          \* the key of a thread that is in no call
    Buckets,        \* bucket indexes
    Bucket,         \* Keys -> Buckets: remainder(key, buckets)
    NotFound,       \* not_found: the terminator of a list
    Unwritten,      \* a field of an element that nobody wrote yet
    MaxElements     \* elements that are ever allocated (bound)

Links == 0..(MaxElements - 1)

ASSUME TableAssumption ==
    /\ NoThread \notin Threads
    /\ Bucket \in [Keys -> Buckets]
    /\ MaxElements \in Nat
    /\ NotFound \notin Nat
    /\ NoKey \notin Keys \cup Nat \cup {NotFound}
    /\ Unwritten \notin Nat \cup {NotFound} \cup Keys

VARIABLES
    count,      \* record_count_ / payload_size_ in memory
    committed,  \* the count in the file
    header,     \* hash_table_header: head of each bucket
    keyOf,      \* key field of each element
    next,       \* next field of each element
    root,       \* owner of root_mutex_
    pc,         \* where each thread is
    key,        \* the key of its call
    link,       \* the element it is storing, or where its find has got to
    order,      \* history: the elements of each bucket in linking order
    seen,       \* history: Len(order) of the bucket when find read its head
    pos         \* history: index in order of the find's current element

fileVars == <<count, committed, header, keyOf, next>>
vars == <<count, committed, header, keyOf, next, root, pc, key, link, order, seen, pos>>

Init ==
    /\ count = 0
    /\ committed = 0
    /\ header = [b \in Buckets |-> NotFound]
    /\ keyOf = [l \in Links |-> Unwritten]
    /\ next = [l \in Links |-> Unwritten]
    /\ root = NoThread
    /\ pc = [t \in Threads |-> "idle"]
    /\ key = [t \in Threads |-> NoKey]
    /\ link = [t \in Threads |-> NotFound]
    /\ order = [b \in Buckets |-> <<>>]
    /\ seen = [t \in Threads |-> 0]
    /\ pos = [t \in Threads |-> 0]

-----------------------------------------------------------------------------
(* Storing an element.                                                     *)

(* Mutant: the last element is handed out again.                           *)
AllocateReuse(t, k) ==
    /\ pc[t] = "idle"
    /\ count < MaxElements
    /\ count' = count + 1
    /\ key' = [key EXCEPT ![t] = k]
    /\ link' = [link EXCEPT ![t] = IF count = 0 THEN 0 ELSE count - 1]
    /\ pc' = [pc EXCEPT ![t] = "initialize"]
    /\ UNCHANGED <<committed, header, keyOf, next, root, order, seen, pos>>

(* list_element::create: manager_.allocate() returns the old count.        *)
Allocate(t, k) ==
    /\ pc[t] = "idle"
    /\ count < MaxElements
    /\ count' = count + 1
    /\ key' = [key EXCEPT ![t] = k]
    /\ link' = [link EXCEPT ![t] = count]
    /\ pc' = [pc EXCEPT ![t] = "initialize"]
    /\ UNCHANGED <<committed, header, keyOf, next, root, order, seen, pos>>

(* list_element::initialize writes key and payload and skips next.         *)
Initialize(t) ==
    /\ pc[t] = "initialize"
    /\ keyOf' = [keyOf EXCEPT ![link[t]] = key[t]]
    /\ pc' = [pc EXCEPT ![t] = "link"]
    /\ UNCHANGED <<count, committed, header, next, root, key, link, order, seen, pos>>

(* Mutant: root_mutex_ taken shared.                                       *)
LockRootShared(t) ==
    /\ pc[t] = "link"
    /\ root' = t
    /\ pc' = [pc EXCEPT ![t] = "set_next"]
    /\ UNCHANGED <<fileVars, key, link, order, seen, pos>>

(* hash_table::link, root_mutex_.lock_upgrade().                           *)
LockRoot(t) ==
    /\ pc[t] = "link"
    /\ root = NoThread
    /\ root' = t
    /\ pc' = [pc EXCEPT ![t] = "set_next"]
    /\ UNCHANGED <<fileVars, key, link, order, seen, pos>>

(* element.set_next(bucket_value(index)).                                  *)
SetNext(t) ==
    /\ pc[t] = "set_next"
    /\ next' = [next EXCEPT ![link[t]] = header[Bucket[key[t]]]]
    /\ pc' = [pc EXCEPT ![t] = "write"]
    /\ UNCHANGED <<count, committed, header, keyOf, root, key, link, order, seen, pos>>

(* header_.write(index, element.link()); root_mutex_.unlock().  Nobody     *)
(* takes root_mutex_ shared, so the upgrade to exclusive never waits.      *)
WriteHeader(t) ==
    /\ pc[t] = "write"
    /\ header' = [header EXCEPT ![Bucket[key[t]]] = link[t]]
    /\ order' = [order EXCEPT ![Bucket[key[t]]] = Append(@, link[t])]
    /\ root' = NoThread
    /\ pc' = [pc EXCEPT ![t] = "commit"]
    /\ UNCHANGED <<count, committed, keyOf, next, key, link, seen, pos>>

(* Mutant: the count is not written.                                       *)
CommitNothing(t) ==
    /\ pc[t] = "commit"
    /\ link' = [link EXCEPT ![t] = NotFound]
    /\ key' = [key EXCEPT ![t] = NoKey]
    /\ pc' = [pc EXCEPT ![t] = "idle"]
    /\ UNCHANGED <<count, committed, header, keyOf, next, root, order, seen, pos>>

(* hash_table::commit writes the count to the file.                        *)
Commit(t) ==
    /\ pc[t] = "commit"
    /\ committed' = count
    /\ link' = [link EXCEPT ![t] = NotFound]
    /\ key' = [key EXCEPT ![t] = NoKey]
    /\ pc' = [pc EXCEPT ![t] = "idle"]
    /\ UNCHANGED <<count, header, keyOf, next, root, order, seen, pos>>

-----------------------------------------------------------------------------
(* hash_table::find.                                                       *)

(* bucket_value(key).                                                      *)
ReadHeader(t, k) ==
    /\ pc[t] = "idle"
    /\ key' = [key EXCEPT ![t] = k]
    /\ link' = [link EXCEPT ![t] = header[Bucket[k]]]
    /\ seen' = [seen EXCEPT ![t] = Len(order[Bucket[k]])]
    /\ pos' = [pos EXCEPT ![t] = Len(order[Bucket[k]])]
    /\ pc' = [pc EXCEPT ![t] = "find"]
    /\ UNCHANGED <<fileVars, root, order>>

(* Mutant: any element of the bucket matches.                              *)
FindReturnAny(t) ==
    /\ pc[t] = "find"
    /\ pc' = [pc EXCEPT ![t] = "found"]
    /\ UNCHANGED <<fileVars, root, key, link, order, seen, pos>>

(* The item matches, or the list has ended: link[t] is the result.         *)
FindReturn(t) ==
    /\ pc[t] = "find"
    /\ link[t] # NotFound => keyOf[link[t]] = key[t]
    /\ pc' = [pc EXCEPT ![t] = "found"]
    /\ UNCHANGED <<fileVars, root, key, link, order, seen, pos>>

(* Mutant: the search stays where it is.                                   *)
FindNextStays(t) ==
    /\ pc[t] = "find"
    /\ link[t] # NotFound
    /\ keyOf[link[t]] # key[t]
    /\ UNCHANGED vars

(* Otherwise on to the next item.                                          *)
FindNext(t) ==
    /\ pc[t] = "find"
    /\ link[t] # NotFound
    /\ keyOf[link[t]] # key[t]
    /\ link' = [link EXCEPT ![t] = next[link[t]]]
    /\ pos' = [pos EXCEPT ![t] = pos[t] - 1]
    /\ UNCHANGED <<fileVars, root, pc, key, order, seen>>

(* The caller has used the element.                                        *)
FindDone(t) ==
    /\ pc[t] = "found"
    /\ key' = [key EXCEPT ![t] = NoKey]
    /\ link' = [link EXCEPT ![t] = NotFound]
    /\ seen' = [seen EXCEPT ![t] = 0]
    /\ pos' = [pos EXCEPT ![t] = 0]
    /\ pc' = [pc EXCEPT ![t] = "idle"]
    /\ UNCHANGED <<fileVars, root, order>>

-----------------------------------------------------------------------------
(* Mutant: the count is read one too large.                                *)
RestartOffByOne ==
    /\ \A t \in Threads : pc[t] = "idle"
    /\ count' = committed + 1
    /\ UNCHANGED <<committed, header, keyOf, next, root, pc, key, link, order, seen, pos>>

(* The store is closed and opened again, with no thread in a call: the     *)
(* manager's start() reads the count from the file.                        *)
Restart ==
    /\ \A t \in Threads : pc[t] = "idle"
    /\ count' = committed
    /\ UNCHANGED <<committed, header, keyOf, next, root, pc, key, link, order, seen, pos>>

Proceed(t) ==
    \/ Initialize(t)
    \/ LockRoot(t)
    \/ SetNext(t)
    \/ WriteHeader(t)
    \/ Commit(t)
    \/ FindReturn(t)
    \/ FindNext(t)
    \/ FindDone(t)

Next ==
    \/ \E t \in Threads : Proceed(t) \/ \E k \in Keys : Allocate(t, k) \/ ReadHeader(t, k)
    \/ Restart

(* A thread inside a call goes on.                                         *)
Fairness == \A t \in Threads : WF_vars(Proceed(t))

Spec == Init /\ [][Next]_vars /\ Fairness

-----------------------------------------------------------------------------
Locations ==
    {"idle", "initialize", "link", "set_next", "write", "commit", "find", "found"}

TypeOK ==
    /\ count \in Nat /\ count <= MaxElements
    /\ committed \in Nat
    /\ header \in [Buckets -> Links \cup {NotFound}]
    /\ keyOf \in [Links -> Keys \cup {Unwritten}]
    /\ next \in [Links -> Links \cup {NotFound, Unwritten}]
    /\ root \in Threads \cup {NoThread}
    /\ pc \in [Threads -> Locations]
    /\ key \in [Threads -> Keys \cup {NoKey}]
    /\ link \in [Threads -> Links \cup {NotFound}]
    /\ order \in [Buckets -> Seq(Links)]
    /\ seen \in [Threads -> Nat]
    /\ pos \in [Threads -> Nat]

(* The element before index i of a bucket's linking order.                 *)
Below(s, i) == IF i = 0 THEN NotFound ELSE s[i]

(* No link is lost, whatever the interleaving of stores: the list of a     *)
(* bucket is every element ever linked to it, newest first, and each was   *)
(* written before it could be reached (hash_table.ipp, link).              *)
ChainIntact ==
    \A b \in Buckets :
        /\ header[b] = Below(order[b], Len(order[b]))
        /\ \A i \in 1..Len(order[b]) :
              /\ next[order[b][i]] = Below(order[b], i - 1)
              /\ keyOf[order[b][i]] \in Keys
              /\ Bucket[keyOf[order[b][i]]] = b

(* No element is handed out twice, and every reachable element is within   *)
(* the count, so that the past_eof assertions of get() never fire; also    *)
(* after a restart (record_manager.ipp, allocate, start and commit).       *)
LinkedOnce ==
    \A b, c \in Buckets : \A i \in 1..Len(order[b]), j \in 1..Len(order[c]) :
        /\ order[b][i] < count
        /\ order[b][i] = order[c][j] => b = c /\ i = j

(* find() is atomic although it takes no lock: it returns the newest of    *)
(* the elements with the key that were linked when it read the bucket, and *)
(* not_found only if there was none, however many stores overtook it       *)
(* (hash_table.ipp, find).                                                 *)
FindAtomic ==
    \A t \in Threads : pc[t] = "found" =>
        LET s == order[Bucket[key[t]]] IN
        /\ link[t] = Below(s, pos[t])
        /\ pos[t] > 0 => keyOf[s[pos[t]]] = key[t]
        /\ \A i \in (pos[t] + 1)..seen[t] : keyOf[s[i]] # key[t]

(* A linked element never changes key or successor: readers that reached   *)
(* it go on reading the same list (list_element.ipp, initialize, set_next).*)
LinkedImmutable ==
    [][\A b \in Buckets : \A i \in 1..Len(order[b]) :
          LET l == order[b][i] IN keyOf'[l] = keyOf[l] /\ next'[l] = next[l]]_vars

(* find() ends although stores go on.  A store may wait for root_mutex_    *)
(* for as long as others take it, so nothing is claimed of those.          *)
FindReturns == \A t \in Threads : pc[t] = "find" ~> pc[t] = "found"

-----------------------------------------------------------------------------
(* The refinement mapping to KeyStore.  A store happens when the bucket    *)
(* head is written.  A find happens when the bucket head is read: from     *)
(* then on its answer is settled, and at "found" it must be that element.  *)

(* The place of the newest of the first n elements of s with key k.        *)
NewestPlaces(s, n, k) ==
    {i \in 1..n : keyOf[s[i]] = k /\ \A j \in (i + 1)..n : keyOf[s[j]] # k}

NewestOf(s, n, k) ==
    IF NewestPlaces(s, n, k) = {} THEN NotFound
    ELSE s[CHOOSE i \in NewestPlaces(s, n, k) : TRUE]

StoredUnder(k) ==
    LET s == order[Bucket[k]] IN {l \in Links : keyOf[l] = k /\ \E i \in 1..Len(s) : s[i] = l}

Answer(t) ==
    IF pc[t] = "find" THEN NewestOf(order[Bucket[key[t]]], seen[t], key[t])
    ELSE IF pc[t] = "found" THEN link[t]
    ELSE NoKey

Store == INSTANCE KeyStore WITH
    NoAnswer <- NoKey,
    stored <- [k \in Keys |-> StoredUnder(k)],
    newest <- [k \in Keys |-> NewestOf(order[Bucket[k]], Len(order[Bucket[k]]), k)],
    answer <- [t \in Threads |-> Answer(t)]

(* hash_table implements the store that the databases assume: concurrent   *)
(* stores and finds behave as if each happened at one moment               *)
(* (hash_table.ipp, link and find).                                        *)
ImplementsKeyStore == Store!Spec
=============================================================================
