--------------------------- MODULE HashTable_proof ---------------------------
(***************************************************************************)
(* Proofs about HashTable: with any number of threads, keys, buckets and   *)
(* elements no link is lost, what is linked never changes, every find is   *)
(* atomic, and the table implements KeyStore.                              *)
(***************************************************************************)
EXTENDS HashTable, SequenceTheorems, TLAPS

(* A thread whose element is allocated and not yet in a list.              *)
Storing(t) == pc[t] \in {"initialize", "link", "set_next", "write"}

(* The element being stored is private to its thread, and what link() read *)
(* from the bucket is still the head of the bucket when it writes there.   *)
WriterInv ==
    \A t \in Threads :
        /\ pc[t] # "idle" => key[t] \in Keys
        /\ Storing(t) =>
              /\ link[t] \in Links
              /\ link[t] < count
              /\ \A b \in Buckets : \A i \in 1..Len(order[b]) : order[b][i] # link[t]
              /\ \A u \in Threads : Storing(u) /\ link[u] = link[t] => u = t
        /\ pc[t] \in {"link", "set_next", "write"} => keyOf[link[t]] = key[t]
        /\ pc[t] \in {"set_next", "write"} <=> root = t
        /\ pc[t] = "write" => next[link[t]] = header[Bucket[key[t]]]

(* A find has passed only elements with other keys since it read the head. *)
FindInv ==
    \A t \in Threads : pc[t] \in {"find", "found"} =>
        LET s == order[Bucket[key[t]]] IN
        /\ pos[t] <= seen[t]
        /\ seen[t] <= Len(s)
        /\ link[t] = Below(s, pos[t])
        /\ \A i \in (pos[t] + 1)..seen[t] : keyOf[s[i]] # key[t]
        /\ pc[t] = "found" /\ pos[t] > 0 => keyOf[s[pos[t]]] = key[t]

(* Whoever allocates commits.                                              *)
CountInv ==
    (\A t \in Threads : ~Storing(t) /\ pc[t] # "commit") => committed = count

Inv ==
    /\ TypeOK
    /\ ChainIntact
    /\ LinkedOnce
    /\ WriterInv
    /\ FindInv
    /\ CountInv

(* An empty table, and no thread in a call.                                *)
LEMMA InitInv == Init => Inv
<1> SUFFICES ASSUME Init PROVE Inv
  OBVIOUS
<1> USE TableAssumption DEF Init
<1>1. TypeOK
  <2>1. <<>> \in Seq(Links)
    OBVIOUS
  <2> QED
    BY <2>1 DEF TypeOK, Locations
<1>2. ChainIntact
  BY DEF ChainIntact, Below
<1>3. LinkedOnce
  BY DEF LinkedOnce
<1>4. WriterInv
  BY DEF WriterInv, Storing
<1>5. FindInv
  BY DEF FindInv
<1>6. CountInv
  BY DEF CountInv
<1> QED
  BY <1>1, <1>2, <1>3, <1>4, <1>5, <1>6 DEF Inv

(* A step that changes nothing.                                            *)
LEMMA StutterInv ==
    ASSUME Inv, UNCHANGED vars
    PROVE  Inv'
BY DEF vars, Inv, TypeOK, ChainIntact, LinkedOnce, WriterInv, Storing, FindInv,
       CountInv, Below

(* The new link is past every link of a chain or of another thread.        *)
LEMMA AllocateInv ==
    ASSUME Inv, NEW t \in Threads, NEW k \in Keys, Allocate(t, k)
    PROVE  Inv'
<1> USE TableAssumption DEF Inv, TypeOK, Allocate, fileVars
<1>1. TypeOK'
  BY DEF Locations, Links
<1>2. ChainIntact'
  BY DEF ChainIntact, Below, WriterInv, Storing
<1>3. LinkedOnce'
  <2>1. \A b \in Buckets : \A i \in 1..Len(order[b]) : order[b][i] \in Links
    OBVIOUS
  <2>2. \A l \in Links : l < count => l < count'
    BY DEF Links
  <2> QED
    BY <2>1, <2>2 DEF LinkedOnce
<1>4. WriterInv'
  <2>1. count \in Links /\ \A l \in Links : l < count => l < count' /\ l # count
    BY DEF Links
  <2>2. \A b \in Buckets : \A i \in 1..Len(order[b]) : order[b][i] # count
    <3>1. \A b \in Buckets : \A i \in 1..Len(order[b]) :
             order[b][i] \in Links /\ order[b][i] < count
      BY DEF LinkedOnce
    <3> QED
      BY <3>1 DEF Links
  <2>3. \A u \in Threads : u # t => Storing(u)' = Storing(u) /\ link'[u] = link[u]
    BY DEF Storing
  <2>4. \A u \in Threads : Storing(u) => link[u] # count
    BY <2>1 DEF WriterInv
  <2>5. link'[t] = count /\ key'[t] = k /\ pc'[t] = "initialize" /\ pc[t] = "idle"
    OBVIOUS
  <2>6. \A u \in Threads : u # t => key'[u] = key[u] /\ pc'[u] = pc[u]
    OBVIOUS
  <2> SUFFICES ASSUME NEW u \in Threads
      PROVE  /\ pc'[u] # "idle" => key'[u] \in Keys
             /\ Storing(u)' =>
                   /\ link'[u] \in Links
                   /\ link'[u] < count'
                   /\ \A b \in Buckets : \A i \in 1..Len(order[b]) : order[b][i] # link'[u]
                   /\ \A v \in Threads : Storing(v)' /\ link'[v] = link'[u] => v = u
             /\ pc'[u] \in {"link", "set_next", "write"} => keyOf[link'[u]] = key'[u]
             /\ pc'[u] \in {"set_next", "write"} <=> root = u
             /\ pc'[u] = "write" => next[link'[u]] = header[Bucket[key'[u]]]
    BY DEF WriterInv
  <2>7. CASE u = t
    <3>1. root # t
      BY <2>5 DEF WriterInv
    <3>2. \A v \in Threads : Storing(v)' /\ link'[v] = count => v = t
      BY <2>3, <2>4
    <3> QED
      BY <2>1, <2>2, <2>5, <2>7, <3>1, <3>2
  <2>8. CASE u # t
    <3>1. \A v \in Threads : Storing(v)' /\ link'[v] = link'[u] /\ Storing(u)' => v = u
      BY <2>3, <2>4, <2>5, <2>8 DEF WriterInv
    <3>2. Storing(u)' =>
            /\ link'[u] \in Links
            /\ link'[u] < count'
            /\ \A b \in Buckets : \A i \in 1..Len(order[b]) : order[b][i] # link'[u]
      <4>1. Storing(u)' => Storing(u) /\ link'[u] = link[u]
        BY <2>3, <2>8
      <4>2. Storing(u) =>
              /\ link[u] \in Links
              /\ link[u] < count
              /\ \A b \in Buckets : \A i \in 1..Len(order[b]) : order[b][i] # link[u]
        BY DEF WriterInv
      <4> QED
        BY <2>1, <4>1, <4>2
    <3>3. /\ pc'[u] # "idle" => key'[u] \in Keys
          /\ pc'[u] \in {"set_next", "write"} <=> root = u
      BY <2>6, <2>8 DEF WriterInv
    <3>4. link'[u] = link[u] /\ key'[u] = key[u] /\ pc'[u] = pc[u]
      BY <2>3, <2>6, <2>8
    <3>5. /\ pc'[u] \in {"link", "set_next", "write"} => keyOf[link'[u]] = key'[u]
          /\ pc'[u] = "write" => next[link'[u]] = header[Bucket[key'[u]]]
      BY <3>4 DEF WriterInv
    <3> QED
      BY <3>1, <3>2, <3>3, <3>5
  <2> QED
    BY <2>7, <2>8
<1>5. FindInv'
  BY DEF FindInv, Below, WriterInv, Storing
<1>6. CountInv'
  BY DEF CountInv, Storing
<1> QED
  BY <1>1, <1>2, <1>3, <1>4, <1>5, <1>6

(* The key goes to an element that is in no chain.                         *)
LEMMA InitializeInv ==
    ASSUME Inv, NEW t \in Threads, Initialize(t)
    PROVE  Inv'
<1> USE TableAssumption DEF Inv, TypeOK, Initialize, fileVars
<1>1. TypeOK'
  BY DEF Locations, WriterInv, Storing
<1>2. ChainIntact'
  BY DEF ChainIntact, Below, WriterInv, Storing
<1>3. LinkedOnce'
  BY DEF LinkedOnce, WriterInv, Storing
<1>4. WriterInv'
  BY DEF WriterInv, Storing, Links
<1>5. FindInv'
  BY DEF FindInv, Below, WriterInv, Storing
<1>6. CountInv'
  BY DEF CountInv, Storing
<1> QED
  BY <1>1, <1>2, <1>3, <1>4, <1>5, <1>6

(* root_mutex_ has one owner.                                              *)
LEMMA LockRootInv ==
    ASSUME Inv, NEW t \in Threads, LockRoot(t)
    PROVE  Inv'
<1> USE TableAssumption DEF Inv, TypeOK, LockRoot, fileVars
<1>1. TypeOK'
  BY DEF Locations
<1>2. ChainIntact'
  BY DEF ChainIntact, Below, WriterInv, Storing
<1>3. LinkedOnce'
  BY DEF LinkedOnce, WriterInv, Storing
<1>4. WriterInv'
  BY DEF WriterInv, Storing, Links
<1>5. FindInv'
  BY DEF FindInv, Below, WriterInv, Storing
<1>6. CountInv'
  BY DEF CountInv, Storing
<1> QED
  BY <1>1, <1>2, <1>3, <1>4, <1>5, <1>6

(* The next field that is written is of an element in no chain yet.        *)
LEMMA SetNextInv ==
    ASSUME Inv, NEW t \in Threads, SetNext(t)
    PROVE  Inv'
<1> USE TableAssumption DEF Inv, TypeOK, SetNext, fileVars
<1>1. TypeOK'
  BY DEF Locations, WriterInv, Storing
<1>2. ChainIntact'
  BY DEF ChainIntact, Below, WriterInv, Storing
<1>3. LinkedOnce'
  BY DEF LinkedOnce, WriterInv, Storing
<1>4. WriterInv'
  BY DEF WriterInv, Storing, Links
<1>5. FindInv'
  BY DEF FindInv, Below, WriterInv, Storing
<1>6. CountInv'
  BY DEF CountInv, Storing
<1> QED
  BY <1>1, <1>2, <1>3, <1>4, <1>5, <1>6

(* The element joins the front of the chain of its bucket.                 *)
LEMMA WriteHeaderInv ==
    ASSUME Inv, NEW t \in Threads, WriteHeader(t)
    PROVE  Inv'
<1> USE TableAssumption DEF Inv, TypeOK, WriteHeader, fileVars
<1>1. TypeOK'
  <2>1. link[t] \in Links /\ key[t] \in Keys
    BY DEF WriterInv, Storing
  <2>2. Bucket[key[t]] \in Buckets
    BY <2>1
  <2>3. Append(order[Bucket[key[t]]], link[t]) \in Seq(Links)
    BY <2>1, <2>2, AppendProperties
  <2> QED
    BY <2>1, <2>2, <2>3 DEF Locations
<1>2. ChainIntact'
  BY DEF ChainIntact, Below, WriterInv, Storing
<1>3. LinkedOnce'
  BY DEF LinkedOnce, WriterInv, Storing
<1>4. WriterInv'
  <2> SUFFICES ASSUME NEW u \in Threads
               PROVE  /\ pc'[u] # "idle" => key[u] \in Keys
                      /\ Storing(u)' =>
                            /\ link[u] \in Links
                            /\ link[u] < count
                            /\ \A b \in Buckets : \A i \in 1..Len(order'[b]) : order'[b][i] # link[u]
                            /\ \A v \in Threads : Storing(v)' /\ link[v] = link[u] => v = u
                      /\ pc'[u] \in {"link", "set_next", "write"} => keyOf[link[u]] = key[u]
                      /\ pc'[u] \in {"set_next", "write"} <=> root' = u
                      /\ pc'[u] = "write" => next[link[u]] = header'[Bucket[key[u]]]
    BY DEF WriterInv
  <2>1. /\ Storing(u)' => Storing(u) /\ u # t
        /\ Storing(t)
    BY DEF Storing
  <2>2. link[t] \in Links /\ Bucket[key[t]] \in Buckets
    BY DEF WriterInv, Storing
  <2>3. ASSUME Storing(u)', NEW b \in Buckets, NEW i \in 1..Len(order'[b])
        PROVE  order'[b][i] # link[u]
    <3>1. i \in 1..Len(order[b]) \/ order'[b][i] = link[t]
      BY <2>2, <2>3
    <3>2. i \in 1..Len(order[b]) => order'[b][i] = order[b][i]
      BY <2>2
    <3> QED
      BY <2>1, <2>3, <3>1, <3>2 DEF WriterInv
  <2>4. Storing(u)' => /\ link[u] \in Links
                       /\ link[u] < count
                       /\ \A v \in Threads : Storing(v)' /\ link[v] = link[u] => v = u
    BY <2>1 DEF WriterInv, Storing
  <2>5. /\ pc'[u] # "idle" => key[u] \in Keys
        /\ pc'[u] \in {"link", "set_next", "write"} => keyOf[link[u]] = key[u]
        /\ pc'[u] \in {"set_next", "write"} <=> root' = u
        /\ pc'[u] = "write" => next[link[u]] = header'[Bucket[key[u]]]
    BY DEF WriterInv
  <2> QED
    BY <2>3, <2>4, <2>5
<1>5. FindInv'
  BY DEF FindInv, Below, WriterInv, Storing
<1>6. CountInv'
  BY DEF CountInv, Storing
<1> QED
  BY <1>1, <1>2, <1>3, <1>4, <1>5, <1>6

(* The count written is at least that of the elements linked.              *)
LEMMA CommitInv ==
    ASSUME Inv, NEW t \in Threads, Commit(t)
    PROVE  Inv'
<1> USE TableAssumption DEF Inv, TypeOK, Commit, fileVars
<1>1. TypeOK'
  BY DEF Locations
<1>2. ChainIntact'
  BY DEF ChainIntact, Below, WriterInv, Storing
<1>3. LinkedOnce'
  BY DEF LinkedOnce, WriterInv, Storing
<1>4. WriterInv'
  BY DEF WriterInv, Storing, Links
<1>5. FindInv'
  BY DEF FindInv, Below, WriterInv, Storing
<1>6. CountInv'
  BY DEF CountInv, Storing
<1> QED
  BY <1>1, <1>2, <1>3, <1>4, <1>5, <1>6

(* A search begins at the newest element of its snapshot.                  *)
LEMMA ReadHeaderInv ==
    ASSUME Inv, NEW t \in Threads, NEW k \in Keys, ReadHeader(t, k)
    PROVE  Inv'
<1> USE TableAssumption DEF Inv, TypeOK, ReadHeader, fileVars
<1>1. TypeOK'
  BY DEF Locations
<1>2. ChainIntact'
  BY DEF ChainIntact, Below, WriterInv, Storing
<1>3. LinkedOnce'
  BY DEF LinkedOnce, WriterInv, Storing
<1>4. WriterInv'
  BY DEF WriterInv, Storing, Links
<1>5. FindInv'
  <2>1. /\ Bucket[k] \in Buckets
        /\ Len(order[Bucket[k]]) \in Nat
        /\ header[Bucket[k]] = Below(order[Bucket[k]], Len(order[Bucket[k]]))
    BY DEF ChainIntact
  <2>2. \A i \in (Len(order[Bucket[k]]) + 1)..Len(order[Bucket[k]]) : FALSE
    BY <2>1
  <2>3. /\ key'[t] = k
        /\ link'[t] = header[Bucket[k]]
        /\ seen'[t] = Len(order[Bucket[k]])
        /\ pos'[t] = Len(order[Bucket[k]])
        /\ pc'[t] = "find"
    OBVIOUS
  <2> SUFFICES ASSUME NEW u \in Threads, (pc[u] \in {"find", "found"})'
      PROVE  (LET s == order[Bucket[key[u]]] IN
                /\ pos[u] <= seen[u]
                /\ seen[u] <= Len(s)
                /\ link[u] = Below(s, pos[u])
                /\ \A i \in (pos[u] + 1)..seen[u] : keyOf[s[i]] # key[u]
                /\ pc[u] = "found" /\ pos[u] > 0 => keyOf[s[pos[u]]] = key[u])'
    BY DEF FindInv
  <2>4. CASE u = t
    <3>1. pos'[t] <= seen'[t] /\ seen'[t] <= Len(order[Bucket[k]])
      BY <2>1, <2>3
    <3>2. link'[t] = Below(order[Bucket[k]], pos'[t])
      BY <2>1, <2>3
    <3>3. \A i \in (pos'[t] + 1)..seen'[t] : FALSE
      BY <2>2, <2>3
    <3> QED
      BY <2>3, <2>4, <3>1, <3>2, <3>3 DEF Below
  <2>5. CASE u # t
    BY <2>5 DEF FindInv
  <2> QED
    BY <2>4, <2>5
<1>6. CountInv'
  BY DEF CountInv, Storing
<1> QED
  BY <1>1, <1>2, <1>3, <1>4, <1>5, <1>6

(* A search that returns has passed no match.                              *)
LEMMA FindReturnInv ==
    ASSUME Inv, NEW t \in Threads, FindReturn(t)
    PROVE  Inv'
<1> USE TableAssumption DEF Inv, TypeOK, FindReturn, fileVars
<1>1. TypeOK'
  BY DEF Locations
<1>2. ChainIntact'
  BY DEF ChainIntact, Below, WriterInv, Storing
<1>3. LinkedOnce'
  BY DEF LinkedOnce, WriterInv, Storing
<1>4. WriterInv'
  BY DEF WriterInv, Storing, Links
<1>5. FindInv'
  <2>1. pos[t] \in Nat /\ link[t] = Below(order[Bucket[key[t]]], pos[t])
    BY DEF FindInv
  <2>2. /\ key[t] \in Keys
        /\ seen[t] <= Len(order[Bucket[key[t]]]) /\ pos[t] <= seen[t]
    BY DEF WriterInv, FindInv
  <2>3. pos[t] > 0 => order[Bucket[key[t]]][pos[t]] \in Links
    BY <2>1, <2>2
  <2>4. pos[t] > 0 => link[t] # NotFound /\ link[t] = order[Bucket[key[t]]][pos[t]]
    BY <2>1, <2>3 DEF Below, Links
  <2>5. pos[t] > 0 => keyOf[order[Bucket[key[t]]][pos[t]]] = key[t]
    BY <2>4
  <2> QED
    BY <2>5 DEF FindInv
<1>6. CountInv'
  BY DEF CountInv, Storing
<1> QED
  BY <1>1, <1>2, <1>3, <1>4, <1>5, <1>6

(* A search moves one element down its snapshot.                           *)
LEMMA FindNextInv ==
    ASSUME Inv, NEW t \in Threads, FindNext(t)
    PROVE  Inv'
<1> USE TableAssumption DEF Inv, TypeOK, FindNext, fileVars
<1> DEFINE s == order[Bucket[key[t]]]
<1>a. /\ key[t] \in Keys /\ Bucket[key[t]] \in Buckets
      /\ s \in Seq(Links) /\ Len(s) \in Nat
      /\ pos[t] \in Nat /\ pos[t] <= seen[t] /\ seen[t] \in Nat /\ seen[t] <= Len(s)
      /\ link[t] = Below(s, pos[t])
  BY DEF WriterInv, FindInv
<1>b. pos[t] > 0 /\ pos[t] \in 1..Len(s) /\ pos[t] - 1 \in Nat
  BY <1>a DEF Below
<1>c. link[t] = s[pos[t]] /\ link[t] \in Links
  BY <1>a, <1>b DEF Below
<1>d. next[link[t]] = Below(s, pos[t] - 1)
  BY <1>a, <1>b, <1>c DEF ChainIntact
<1>e. Below(s, pos[t] - 1) \in Links \cup {NotFound}
  BY <1>a, <1>b DEF Below
<1>1. TypeOK'
  BY <1>b, <1>d, <1>e DEF Locations
<1>2. ChainIntact'
  BY DEF ChainIntact, Below, WriterInv, Storing
<1>3. LinkedOnce'
  BY DEF LinkedOnce, WriterInv, Storing
<1>4. WriterInv'
  <2>1. \A u \in Threads : pc[u] # "find" => link'[u] = link[u]
    OBVIOUS
  <2>2. /\ pc[t] = "find" /\ pc' = pc /\ key' = key /\ order' = order /\ root' = root
        /\ count' = count /\ keyOf' = keyOf /\ next' = next /\ header' = header
    OBVIOUS
  <2> HIDE DEF TypeOK, FindNext
  <2> QED
    BY <2>1, <2>2 DEF WriterInv, Storing
<1>5. FindInv'
  <2>1. \A i \in (pos[t] - 1 + 1)..seen[t] : i = pos[t] \/ i \in (pos[t] + 1)..seen[t]
    BY <1>a
  <2>2. \A i \in (pos[t] - 1 + 1)..seen[t] : keyOf[s[i]] # key[t]
    BY <2>1, <1>c DEF FindInv
  <2>3. pos[t] - 1 <= seen[t]
    BY <1>a
  <2>4. ASSUME NEW u \in Threads, u # t
        PROVE  pc'[u] = pc[u] /\ pos'[u] = pos[u] /\ link'[u] = link[u]
    BY <2>4
  <2>5. /\ pc'[t] = "find" /\ pos'[t] = pos[t] - 1 /\ link'[t] = next[link[t]]
        /\ order' = order /\ seen' = seen /\ keyOf' = keyOf /\ key' = key
    OBVIOUS
  <2>others. \A u \in Threads : u # t =>
          (pc[u] \in {"find", "found"} =>
             LET r == order[Bucket[key[u]]] IN
             /\ pos[u] <= seen[u]
             /\ seen[u] <= Len(r)
             /\ link[u] = Below(r, pos[u])
             /\ \A i \in (pos[u] + 1)..seen[u] : keyOf[r[i]] # key[u]
             /\ pc[u] = "found" /\ pos[u] > 0 => keyOf[r[pos[u]]] = key[u])
    BY DEF FindInv
  <2> HIDE DEF Inv, TypeOK, FindNext
  <2> SUFFICES ASSUME NEW u \in Threads, pc'[u] \in {"find", "found"}
               PROVE  LET r == order[Bucket[key[u]]] IN
                      /\ pos'[u] <= seen[u]
                      /\ seen[u] <= Len(r)
                      /\ link'[u] = Below(r, pos'[u])
                      /\ \A i \in (pos'[u] + 1)..seen[u] : keyOf[r[i]] # key[u]
                      /\ pc'[u] = "found" /\ pos'[u] > 0 => keyOf[r[pos'[u]]] = key[u]
    BY <2>5 DEF FindInv, Below
  <2>6. CASE u = t
    BY <1>a, <1>d, <2>2, <2>3, <2>5, <2>6
  <2>7. CASE u # t
    BY <2>others, <2>4, <2>7
  <2> QED
    BY <2>6, <2>7
<1>6. CountInv'
  BY DEF CountInv, Storing
<1> QED
  BY <1>1, <1>2, <1>3, <1>4, <1>5, <1>6

(* The caller drops the element.                                           *)
LEMMA FindDoneInv ==
    ASSUME Inv, NEW t \in Threads, FindDone(t)
    PROVE  Inv'
<1> USE TableAssumption DEF Inv, TypeOK, FindDone, fileVars
<1>1. TypeOK'
  BY DEF Locations
<1>2. ChainIntact'
  BY DEF ChainIntact, Below, WriterInv, Storing
<1>3. LinkedOnce'
  BY DEF LinkedOnce, WriterInv, Storing
<1>4. WriterInv'
  BY DEF WriterInv, Storing, Links
<1>5. FindInv'
  BY DEF FindInv, Below, WriterInv, Storing
<1>6. CountInv'
  BY DEF CountInv, Storing
<1> QED
  BY <1>1, <1>2, <1>3, <1>4, <1>5, <1>6

(* With no thread in a call, all that was allocated was committed.         *)
LEMMA RestartInv ==
    ASSUME Inv, Restart
    PROVE  Inv'
<1>1. committed = count
  BY DEF Inv, CountInv, Restart, Storing
<1>2. UNCHANGED vars
  BY <1>1 DEF Restart, vars
<1> QED
  BY <1>2, StutterInv

(* The invariant is inductive: one lemma per action.                       *)
LEMMA NextInv == Inv /\ [Next]_vars => Inv'
<1> SUFFICES ASSUME Inv, [Next]_vars PROVE Inv'
  OBVIOUS
<1>1. CASE UNCHANGED vars
  BY <1>1, StutterInv
<1>2. CASE Restart
  BY <1>2, RestartInv
<1>3. ASSUME NEW t \in Threads, Proceed(t) PROVE Inv'
  BY <1>3, InitializeInv, LockRootInv, SetNextInv, WriteHeaderInv, CommitInv,
     FindReturnInv, FindNextInv, FindDoneInv DEF Proceed
<1>4. ASSUME NEW t \in Threads, NEW k \in Keys, Allocate(t, k) \/ ReadHeader(t, k)
      PROVE Inv'
  BY <1>4, AllocateInv, ReadHeaderInv
<1> QED
  BY <1>1, <1>2, <1>3, <1>4 DEF Next

(* Every link that is followed or stored is an element or the terminator   *)
(* (hash_table.ipp and list_element.ipp, link_type).                       *)
THEOREM TypeCorrect == Spec => []TypeOK
<1>1. Inv => TypeOK
  BY DEF Inv
<1> QED
  BY InitInv, NextInv, <1>1, PTL DEF Spec

(* However many threads store at once, the list of a bucket is every       *)
(* element ever linked to it (hash_table.ipp, link).                       *)
THEOREM NoLinkLost == Spec => []ChainIntact
<1>1. Inv => ChainIntact
  BY DEF Inv
<1> QED
  BY InitInv, NextInv, <1>1, PTL DEF Spec

(* No element is in two places, nor beyond the count, also after a restart *)
(* (record_manager.ipp, allocate, commit and start).                       *)
THEOREM NoElementTwice == Spec => []LinkedOnce
<1>1. Inv => LinkedOnce
  BY DEF Inv
<1> QED
  BY InitInv, NextInv, <1>1, PTL DEF Spec

(* find() returns the newest matching element linked when it read the head *)
(* of the bucket, without a lock and whatever is stored meanwhile          *)
(* (hash_table.ipp, find).                                                 *)
THEOREM FindIsAtomic == Spec => []FindAtomic
<1>1. Inv => FindAtomic
  BY DEF Inv, FindInv, FindAtomic
<1> QED
  BY InitInv, NextInv, <1>1, PTL DEF Spec

-----------------------------------------------------------------------------
(* The fields of the element at place i of bucket b.                       *)
Immutable(b, i) ==
    /\ keyOf'[order[b][i]] = keyOf[order[b][i]]
    /\ next'[order[b][i]] = next[order[b][i]]

(* initialize() and set_next() write to an element that is in no list.     *)
LEMMA LinkedStep ==
    ASSUME Inv, [Next]_vars, NEW b \in Buckets, NEW i \in 1..Len(order[b])
    PROVE  Immutable(b, i)
<1>1. CASE \E t \in Threads : Initialize(t) \/ SetNext(t)
  <2>1. PICK t \in Threads : Initialize(t) \/ SetNext(t)
    BY <1>1
  <2>2. Storing(t)
    BY <2>1 DEF Initialize, SetNext, Storing
  <2>3. link[t] # order[b][i] /\ link[t] \in Links
    BY <2>2 DEF Inv, WriterInv
  <2>4. order[b][i] \in Links
    BY DEF Inv, TypeOK
  <2> QED
    BY <2>1, <2>3, <2>4 DEF Initialize, SetNext, Immutable, Inv, TypeOK
<1>2. CASE UNCHANGED <<keyOf, next>>
  BY <1>2 DEF Immutable
<1> QED
  BY <1>1, <1>2 DEF Next, Proceed, Allocate, LockRoot, WriteHeader, Commit,
     ReadHeader, FindReturn, FindNext, FindDone, Restart, fileVars, vars

(* A reader that has reached an element goes on reading the same list,     *)
(* whatever is stored meanwhile (list_element.ipp, initialize, set_next).  *)
THEOREM LinkedNeverChanges == Spec => LinkedImmutable
<1>1. Inv /\ [Next]_vars =>
          [\A b \in Buckets : \A i \in 1..Len(order[b]) :
              LET l == order[b][i] IN keyOf'[l] = keyOf[l] /\ next'[l] = next[l]]_vars
  BY LinkedStep DEF Immutable
<1> QED
  BY InitInv, NextInv, <1>1, PTL DEF Spec, LinkedImmutable

-----------------------------------------------------------------------------
(* HashTable implements KeyStore.                                          *)

StoredMap == [k \in Keys |-> StoredUnder(k)]
NewestMap == [k \in Keys |-> NewestOf(order[Bucket[k]], Len(order[Bucket[k]]), k)]
AnswerMap == [t \in Threads |-> Answer(t)]

(* A bucket's linking order only grows, and only link() adds to it.        *)
LEMMA OrderGrows ==
    ASSUME Inv, [Next]_vars, NEW b \in Buckets
    PROVE  /\ Len(order[b]) \in Nat
           /\ \A i \in 1..Len(order[b]) : order'[b][i] = order[b][i]
<1>1. order[b] \in Seq(Links)
  BY DEF Inv, TypeOK
<1>2. CASE UNCHANGED order
  BY <1>1, <1>2
<1>3. CASE \E t \in Threads : WriteHeader(t)
  <2>1. PICK t \in Threads : WriteHeader(t)
    BY <1>3
  <2>2. order'[b] = order[b] \/ order'[b] = Append(order[b], link[t])
    BY <2>1 DEF WriteHeader, Inv, TypeOK
  <2>3. link[t] \in Links
    BY <2>1 DEF WriteHeader, Inv, WriterInv, Storing
  <2> QED
    BY <1>1, <2>2, <2>3
<1> QED
  BY <1>2, <1>3 DEF Next, Proceed, Allocate, Initialize, LockRoot, SetNext, Commit,
     ReadHeader, FindReturn, FindNext, FindDone, Restart, fileVars, vars

(* What was the newest of the elements seen once remains so.               *)
LEMMA NewestKept ==
    ASSUME Inv, [Next]_vars, NEW b \in Buckets, NEW k \in Keys,
           NEW n \in 0..Len(order[b])
    PROVE  NewestOf(order[b], n, k)' = NewestOf(order[b], n, k)
<1>1. Len(order[b]) \in Nat /\ \A i \in 1..n : i \in 1..Len(order[b])
  BY OrderGrows
<1>2. \A i \in 1..n : order'[b][i] = order[b][i] /\ keyOf'[order'[b][i]] = keyOf[order[b][i]]
  BY <1>1, OrderGrows, LinkedStep DEF Immutable
<1>3. NewestPlaces(order[b], n, k)' = NewestPlaces(order[b], n, k)
  BY <1>1, <1>2 DEF NewestPlaces
<1>4. ASSUME NewestPlaces(order[b], n, k) # {}
      PROVE  (CHOOSE i \in NewestPlaces(order[b], n, k) : TRUE) \in 1..n
  BY <1>4 DEF NewestPlaces
<1> QED
  BY <1>2, <1>3, <1>4 DEF NewestOf

(* The newest is the place after which no element has the key.             *)
LEMMA NewestIs ==
    ASSUME NEW s, NEW n \in Nat, NEW k, NEW p \in 0..n,
           \A j \in (p + 1)..n : keyOf[s[j]] # k,
           p > 0 => keyOf[s[p]] = k
    PROVE  NewestOf(s, n, k) = Below(s, p)
<1>1. CASE p = 0
  BY <1>1 DEF NewestOf, NewestPlaces, Below
<1>2. CASE p > 0
  <2>1. NewestPlaces(s, n, k) = {p}
    BY <1>2 DEF NewestPlaces
  <2> QED
    BY <1>2, <2>1 DEF NewestOf, Below
<1> QED
  BY <1>1, <1>2

(* A step that links nothing leaves what is stored as it was.              *)
LEMMA StoredKept ==
    ASSUME Inv, [Next]_vars, UNCHANGED order
    PROVE  StoredMap' = StoredMap /\ NewestMap' = NewestMap
<1>1. ASSUME NEW k \in Keys PROVE StoredUnder(k)' = StoredUnder(k)
  <2>1. Bucket[k] \in Buckets
    BY TableAssumption
  <2>2. \A i \in 1..Len(order[Bucket[k]]) :
            keyOf'[order[Bucket[k]][i]] = keyOf[order[Bucket[k]][i]]
    BY <2>1, LinkedStep DEF Immutable
  <2> QED
    BY <2>2 DEF StoredUnder
<1>2. ASSUME NEW k \in Keys
      PROVE  NewestOf(order[Bucket[k]], Len(order[Bucket[k]]), k)'
               = NewestOf(order[Bucket[k]], Len(order[Bucket[k]]), k)
  <2>1. Bucket[k] \in Buckets
    BY TableAssumption
  <2>2. PICK n \in 0..Len(order[Bucket[k]]) : n = Len(order[Bucket[k]])
    BY <2>1, OrderGrows
  <2>3. NewestOf(order[Bucket[k]], n, k)' = NewestOf(order[Bucket[k]], n, k)
    BY <2>1, NewestKept
  <2> QED
    BY <2>2, <2>3
<1> QED
  BY <1>1, <1>2 DEF StoredMap, NewestMap

(* A thread whose find is neither begun, returned nor done by this step    *)
(* has the answer it had.                                                  *)
LEMMA AnswerKept ==
    ASSUME Inv, [Next]_vars, NEW u \in Threads,
           pc'[u] = pc[u] \/ {pc[u], pc'[u]} \cap {"find", "found"} = {},
           pc[u] \in {"find", "found"} => key'[u] = key[u] /\ seen'[u] = seen[u],
           pc[u] = "found" => link'[u] = link[u]
    PROVE  Answer(u)' = Answer(u)
<1>1. CASE pc[u] = "find"
  <2>1. key[u] \in Keys /\ Bucket[key[u]] \in Buckets
    BY <1>1, TableAssumption DEF Inv, WriterInv
  <2>2. seen[u] \in 0..Len(order[Bucket[key[u]]])
    BY <1>1, <2>1 DEF Inv, TypeOK, FindInv
  <2>3. PICK n \in 0..Len(order[Bucket[key[u]]]) : n = seen[u]
    BY <2>2
  <2>4. PICK k \in Keys : k = key[u]
    BY <2>1
  <2>5. NewestOf(order[Bucket[k]], n, k)' = NewestOf(order[Bucket[k]], n, k)
    BY <2>1, <2>4, <2>3, NewestKept
  <2> QED
    BY <1>1, <2>3, <2>4, <2>5 DEF Answer
<1>2. CASE pc[u] = "found"
  BY <1>2 DEF Answer
<1>3. CASE pc[u] \notin {"find", "found"}
  BY <1>3 DEF Answer
<1> QED
  BY <1>1, <1>2, <1>3

(* An empty table answers nothing.                                         *)
LEMMA RefinementInit == Init => Store!Init
<1> SUFFICES ASSUME Init PROVE Store!Init
  OBVIOUS
<1>1. ASSUME NEW k \in Keys
      PROVE  /\ StoredUnder(k) = {}
             /\ NewestOf(order[Bucket[k]], Len(order[Bucket[k]]), k) = NotFound
  <2>1. order[Bucket[k]] = <<>> /\ Len(order[Bucket[k]]) = 0
    BY TableAssumption DEF Init
  <2>2. NewestPlaces(order[Bucket[k]], Len(order[Bucket[k]]), k) = {}
    BY <2>1 DEF NewestPlaces
  <2> QED
    BY <2>1, <2>2 DEF StoredUnder, NewestOf
<1>2. \A t \in Threads : Answer(t) = NoKey
  BY DEF Init, Answer
<1> QED
  BY <1>1, <1>2 DEF Store!Init

(* Writing the bucket head is the moment of a store: the element becomes   *)
(* the newest under its key, and the other keys of the bucket keep theirs. *)
LEMMA WriteHeaderStores ==
    ASSUME Inv, NEW t \in Threads, WriteHeader(t)
    PROVE  Store!Next
<1>0. [Next]_vars
  BY DEF Next, Proceed
<1>a. PICK q \in Keys, b \in Buckets, e \in Links : q = key[t] /\ b = Bucket[q] /\ e = link[t]
  BY TableAssumption DEF Inv, WriterInv, Storing, WriteHeader
<1>b. PICK s \in Seq(Links) : s = order[b]
  BY DEF Inv, TypeOK
<1>c. PICK n \in Nat : n = Len(s)
  OBVIOUS
<1>1. /\ keyOf[e] = q
      /\ \A c \in Buckets : \A i \in 1..Len(order[c]) : order[c][i] # e
  BY <1>a DEF Inv, WriterInv, Storing, WriteHeader
<1>2. /\ order'[b] = Append(s, e)
      /\ \A c \in Buckets : c # b => order'[c] = order[c]
      /\ keyOf' = keyOf
  BY <1>a, <1>b DEF Inv, TypeOK, WriteHeader
<1>3. /\ Len(order'[b]) = n + 1
      /\ order'[b][n + 1] = e
      /\ \A i \in 1..n : order'[b][i] = s[i]
      /\ 1..(n + 1) = 1..n \cup {n + 1}
  BY <1>2, <1>c
<1>d. StoredMap' = [StoredMap EXCEPT ![q] = @ \cup {e}]
  <2>1. ASSUME NEW k \in Keys
        PROVE  StoredUnder(k)' = IF k = q THEN StoredUnder(k) \cup {e} ELSE StoredUnder(k)
    <3>1. CASE Bucket[k] # b
      <4>1. Bucket[k] \in Buckets /\ k # q
        BY <1>a, <3>1, TableAssumption
      <4> QED
        BY <1>2, <3>1, <4>1 DEF StoredUnder
    <3>2. CASE Bucket[k] = b
      <4>1. StoredUnder(k)' = {l \in Links : keyOf[l] = k /\ \E i \in 1..(n + 1) : order'[b][i] = l}
        BY <1>2, <1>3, <3>2 DEF StoredUnder
      <4>2. StoredUnder(k) = {l \in Links : keyOf[l] = k /\ \E i \in 1..n : s[i] = l}
        BY <1>b, <1>c, <3>2 DEF StoredUnder
      <4>3. \A l : (\E i \in 1..(n + 1) : order'[b][i] = l) <=> (l = e \/ \E i \in 1..n : s[i] = l)
        BY <1>3
      <4> PICK old, new : old = StoredUnder(k) /\ new = StoredUnder(k)'
        OBVIOUS
      <4>4. ASSUME NEW l PROVE l \in new <=> l \in old \/ (k = q /\ l = e)
        <5>1. keyOf[e] = q /\ e \in Links
          BY <1>1
        <5>2. l \in new <=> l \in Links /\ keyOf[l] = k /\ (l = e \/ \E i \in 1..n : s[i] = l)
          BY <4>1, <4>3
        <5>3. l \in old <=> l \in Links /\ keyOf[l] = k /\ \E i \in 1..n : s[i] = l
          BY <4>2
        <5> QED
          BY <5>1, <5>2, <5>3, Zenon
      <4>5. new = IF k = q THEN old \cup {e} ELSE old
        <5>1. CASE k = q
          BY <4>4, <5>1
        <5>2. CASE k # q
          BY <4>4, <5>2
        <5> QED
          BY <5>1, <5>2
      <4> QED
        BY <4>5
    <3> QED
      BY <3>1, <3>2
  <2> QED
    BY <2>1 DEF StoredMap
<1>4. NewestMap' = [NewestMap EXCEPT ![q] = e]
  <2>1. NewestOf(order[b], Len(order[b]), q)' = e
    <3>1. NewestPlaces(order[b], Len(order[b]), q)' = {n + 1}
      BY <1>1, <1>2, <1>3 DEF NewestPlaces
    <3> QED
      BY <1>3, <3>1 DEF NewestOf
  <2>2. ASSUME NEW k \in Keys, k # q
        PROVE  NewestOf(order[Bucket[k]], Len(order[Bucket[k]]), k)'
                 = NewestOf(order[Bucket[k]], Len(order[Bucket[k]]), k)
    <3>1. CASE Bucket[k] # b
      <4>1. Bucket[k] \in Buckets
        BY TableAssumption
      <4>2. order'[Bucket[k]] = order[Bucket[k]]
        BY <1>2, <3>1, <4>1
      <4>3. NewestPlaces(order[Bucket[k]], Len(order[Bucket[k]]), k)'
              = NewestPlaces(order[Bucket[k]], Len(order[Bucket[k]]), k)
        BY <1>2, <4>2 DEF NewestPlaces
      <4> QED
        BY <4>2, <4>3 DEF NewestOf
    <3>2. CASE Bucket[k] = b
      <4>1. NewestPlaces(order[b], Len(order[b]), k)' = NewestPlaces(s, n, k)
        BY <1>1, <1>2, <1>3, <2>2 DEF NewestPlaces
      <4>2. ASSUME NewestPlaces(s, n, k) # {}
            PROVE  (CHOOSE i \in NewestPlaces(s, n, k) : TRUE) \in 1..n
        BY <4>2 DEF NewestPlaces
      <4> QED
        BY <1>b, <1>c, <1>3, <3>2, <4>1, <4>2 DEF NewestOf
    <3> QED
      BY <3>1, <3>2
  <2> QED
    BY <1>a, <2>1, <2>2 DEF NewestMap
<1>5. AnswerMap' = AnswerMap
  <2>1. ASSUME NEW u \in Threads PROVE Answer(u)' = Answer(u)
    BY <1>0, AnswerKept DEF WriteHeader, Inv, TypeOK
  <2> QED
    BY <2>1 DEF AnswerMap
<1>6. \A k \in Keys : e \notin StoredMap[k]
  <2>1. \A k \in Keys : Bucket[k] \in Buckets
    BY TableAssumption
  <2> QED
    BY <1>1, <2>1 DEF StoredMap, StoredUnder
<1>7. Store!Store(q, e)
  BY <1>d, <1>4, <1>5, <1>6 DEF Store!Store, StoredMap, NewestMap, AnswerMap
<1> QED
  BY <1>7 DEF Store!Next

(* Reading the bucket head is the moment of a find.                        *)
LEMMA ReadHeaderFinds ==
    ASSUME Inv, NEW t \in Threads, NEW k \in Keys, ReadHeader(t, k)
    PROVE  Store!Next
<1>1. [Next]_vars /\ UNCHANGED order
  BY DEF Next, ReadHeader
<1>2. StoredMap' = StoredMap /\ NewestMap' = NewestMap
  BY <1>1, StoredKept
<1>3. ASSUME NEW u \in Threads, u # t PROVE Answer(u)' = Answer(u)
  BY <1>1, <1>3, AnswerKept DEF ReadHeader, Inv, TypeOK
<1>4. Answer(t) = NoKey
  BY DEF Answer, ReadHeader
<1>5. Answer(t)' = NewestOf(order[Bucket[k]], Len(order[Bucket[k]]), k)
  <2>1. pc'[t] = "find" /\ key'[t] = k /\ seen'[t] = Len(order[Bucket[k]])
    BY DEF ReadHeader, Inv, TypeOK
  <2>2. Answer(t)' = NewestOf(order[Bucket[k]], Len(order[Bucket[k]]), k)'
    BY <1>1, <2>1 DEF Answer
  <2> QED
    BY <1>2, <2>2 DEF NewestMap
<1>6. Store!Find(t, k)
  BY <1>2, <1>3, <1>4, <1>5 DEF Store!Find, StoredMap, NewestMap
<1> QED
  BY <1>6 DEF Store!Next

(* What a find returns is what it was told at that moment: it has passed   *)
(* only elements with other keys since.                                    *)
LEMMA FindReturnSettled ==
    ASSUME Inv, NEW t \in Threads, FindReturn(t)
    PROVE  Answer(t)' = Answer(t)
<1>1. key[t] \in Keys /\ Bucket[key[t]] \in Buckets
  BY TableAssumption DEF FindReturn, Inv, WriterInv
<1>2. PICK k \in Keys, s \in Seq(Links) : k = key[t] /\ s = order[Bucket[k]]
  BY <1>1 DEF Inv, TypeOK
<1>3. /\ seen[t] \in Nat /\ pos[t] \in 0..seen[t]
      /\ seen[t] <= Len(s)
      /\ link[t] = Below(s, pos[t])
      /\ \A j \in (pos[t] + 1)..seen[t] : keyOf[s[j]] # k
  BY <1>2 DEF FindReturn, Inv, TypeOK, FindInv
<1>4. pos[t] > 0 => keyOf[s[pos[t]]] = k
  <2>1. pos[t] > 0 => link[t] = s[pos[t]] /\ s[pos[t]] \in Links
    BY <1>3 DEF Below
  <2>2. pos[t] > 0 => link[t] # NotFound
    BY <2>1, TableAssumption DEF Links
  <2> QED
    BY <1>2, <2>1, <2>2 DEF FindReturn
<1>5. NewestOf(s, seen[t], k) = link[t]
  BY <1>3, <1>4, NewestIs
<1> QED
  BY <1>2, <1>5 DEF Answer, FindReturn, Inv, TypeOK

(* A find that is done frees its thread for another.                       *)
LEMMA FindDoneDone ==
    ASSUME Inv, NEW t \in Threads, FindDone(t)
    PROVE  Store!Next
<1>1. [Next]_vars /\ UNCHANGED order
  BY DEF Next, Proceed, FindDone
<1>2. StoredMap' = StoredMap /\ NewestMap' = NewestMap
  BY <1>1, StoredKept
<1>3. ASSUME NEW u \in Threads, u # t PROVE Answer(u)' = Answer(u)
  BY <1>1, <1>3, AnswerKept DEF FindDone, Inv, TypeOK
<1>4. Answer(t)' = NoKey /\ Answer(t) # NoKey
  BY TableAssumption DEF Answer, FindDone, Inv, TypeOK, Links
<1>5. Store!Done(t)
  BY <1>2, <1>3, <1>4 DEF Store!Done, StoredMap, NewestMap
<1> QED
  BY <1>5 DEF Store!Next

(* The other steps change nothing that KeyStore knows of.                  *)
LEMMA RefinementStutter ==
    ASSUME Inv, [Next]_vars, UNCHANGED order,
           \A u \in Threads : Answer(u)' = Answer(u)
    PROVE  UNCHANGED Store!vars
<1>1. StoredMap' = StoredMap /\ NewestMap' = NewestMap
  BY StoredKept
<1>2. AnswerMap' = AnswerMap
  BY DEF AnswerMap
<1> QED
  BY <1>1, <1>2 DEF Store!vars, StoredMap, NewestMap, AnswerMap

(* Every step of HashTable is a step of KeyStore or changes nothing there. *)
LEMMA RefinementNext == Inv /\ [Next]_vars => [Store!Next]_(Store!vars)
<1> SUFFICES ASSUME Inv, [Next]_vars PROVE [Store!Next]_(Store!vars)
  OBVIOUS
<1>1. ASSUME NEW t \in Threads, WriteHeader(t) PROVE Store!Next
  BY <1>1, WriteHeaderStores
<1>2. ASSUME NEW t \in Threads, NEW k \in Keys, ReadHeader(t, k) PROVE Store!Next
  BY <1>2, ReadHeaderFinds
<1>3. ASSUME NEW t \in Threads, FindDone(t) PROVE Store!Next
  BY <1>3, FindDoneDone
<1>4. ASSUME NEW t \in Threads, FindReturn(t) PROVE UNCHANGED Store!vars
  <2>1. ASSUME NEW u \in Threads, u # t PROVE Answer(u)' = Answer(u)
    BY <1>4, <2>1, AnswerKept DEF FindReturn, Inv, TypeOK
  <2> QED
    BY <1>4, <2>1, FindReturnSettled, RefinementStutter DEF FindReturn
<1>5. ASSUME NEW t \in Threads,
             \/ Initialize(t) \/ LockRoot(t) \/ SetNext(t) \/ Commit(t) \/ FindNext(t)
             \/ \E k \in Keys : Allocate(t, k)
      PROVE  UNCHANGED Store!vars
  <2>1. ASSUME NEW u \in Threads PROVE Answer(u)' = Answer(u)
    BY <1>5, AnswerKept
       DEF Initialize, LockRoot, SetNext, Commit, FindNext, Allocate, Inv, TypeOK
  <2>2. UNCHANGED order
    BY <1>5 DEF Initialize, LockRoot, SetNext, Commit, FindNext, Allocate
  <2> QED
    BY <2>1, <2>2, RefinementStutter
<1>6. CASE Restart \/ UNCHANGED vars
  <2>1. ASSUME NEW u \in Threads PROVE Answer(u)' = Answer(u)
    BY <1>6, AnswerKept DEF Restart, vars
  <2>2. UNCHANGED order
    BY <1>6 DEF Restart, vars
  <2> QED
    BY <2>1, <2>2, RefinementStutter
<1> QED
  BY <1>1, <1>2, <1>3, <1>4, <1>5, <1>6 DEF Next, Proceed

(* hash_table is the store its users assume: although find() takes no lock *)
(* and link() only a mutex of writers, each store and each find behaves as *)
(* if it happened at one moment (hash_table.ipp, link and find).           *)
THEOREM TableImplementsStore == Spec => ImplementsKeyStore
BY InitInv, NextInv, RefinementInit, RefinementNext, PTL DEF Spec, Store!Spec, ImplementsKeyStore
=============================================================================
