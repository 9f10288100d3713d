---------------------------- MODULE Filters_proof ----------------------------
(***************************************************************************)
(* Proofs about Filters: for any interval, height and blocks, the filter   *)
(* checkpoints in the cache are those of the confirmed chain.              *)
(***************************************************************************)
EXTENDS Filters, SequenceTheorems, TLAPS

(* The height that the checkpoint at place i of the cache is of.           *)
HeightAt(i) == (First + i - 1) * Interval

OnChain(i) == HeightAt(i) <= Top /\ checkpoints[i] = Block(HeightAt(i))

(* The top of the confirmed chain when reorganize() was called.            *)
OldTop == IF call.active THEN Top + call.outgoing + 1 - call.next ELSE Top

(* reorganize() is between the fork point and its last push.               *)
CallInv ==
    call.active =>
        /\ opened
        /\ call.fork + Len(call.incoming) <= MaxHeight
        /\ call.next \in 1..(Len(call.incoming) + 1)
        /\ call.next = 1 => Top >= call.fork
        /\ call.next > 1 => Top = call.fork + call.next - 1
        /\ OldTop <= MaxHeight

(* Until a block is popped, checkpoints above the fork point are right.    *)
ChainInv ==
    \A i \in DOMAIN checkpoints :
        HeightAt(i) <= sound /\ (call.active /\ call.outgoing > 0 => HeightAt(i) <= call.fork) =>
            OnChain(i)

(* The cache has no checkpoint beyond the chain it was last updated for,   *)
(* so that as many as lie above the fork point can be dropped from its end.*)
BoundInv ==
    sound = MaxHeight => \A i \in DOMAIN checkpoints : HeightAt(i) <= OldTop

Inv ==
    /\ TypeOK
    /\ CallInv
    /\ ChainInv
    /\ BoundInv

-----------------------------------------------------------------------------
(* Multiples of the interval.                                              *)
LEMMA Multiples ==
    ASSUME NEW p \in Int, NEW q \in Int
    PROVE  /\ p * Interval \in Int
           /\ p <= q => p * Interval <= q * Interval
           /\ p < q => p * Interval + Interval <= q * Interval
<1>1. Interval \in Nat /\ Interval > 0
  BY FiltersAssumption
<1>2. PICK d \in Int : q = p + d
  <2>1. q = p + (q - p) /\ q - p \in Int
    OBVIOUS
  <2> QED
    BY <2>1
<1>3. q * Interval = p * Interval + d * Interval
  BY <1>1, <1>2
<1>4. p <= q => d * Interval >= 0
  BY <1>1, <1>2
<1>5. p < q => d * Interval >= Interval
  <2>1. p < q => d - 1 >= 0 /\ (d - 1) * Interval >= 0
    BY <1>1, <1>2
  <2>2. (d - 1) * Interval = d * Interval - Interval
    BY <1>1
  <2> QED
    BY <1>1, <2>1, <2>2
<1> QED
  BY <1>1, <1>3, <1>4, <1>5

(* The quotient is the greatest number of intervals within a height.       *)
LEMMA Quotient ==
    ASSUME NEW height \in Nat, NEW p \in Int
    PROVE  /\ height \div Interval \in Nat
           /\ p <= height \div Interval <=> p * Interval <= height
<1>1. Interval \in Nat /\ Interval > 0
  BY FiltersAssumption
<1>2. PICK q \in Int : q = height \div Interval
  BY <1>1
<1>3. q >= 0 /\ q * Interval <= height /\ height < q * Interval + Interval
  BY <1>1, <1>2
<1>4. p <= q => p * Interval <= q * Interval
  BY <1>2, Multiples
<1>5. q < p => q * Interval + Interval <= p * Interval
  BY <1>2, Multiples
<1>6. q * Interval \in Int /\ p * Interval \in Int
  BY <1>2, Multiples
<1> QED
  BY <1>1, <1>2, <1>3, <1>4, <1>5, <1>6

(* The block at a height that the chain has, after a push or a pop above.  *)
LEMMA Prefixes ==
    ASSUME NEW s \in Seq(Tags), NEW h \in 0..Len(s)
    PROVE  /\ SubSeq(s, 1, h) \in Seq(Tags) /\ Len(SubSeq(s, 1, h)) = h
           /\ \A tag \in Tags : SubSeq(Append(s, tag), 1, h) = SubSeq(s, 1, h)
           /\ \A n \in h..Len(s) : SubSeq(SubSeq(s, 1, n), 1, h) = SubSeq(s, 1, h)
<1>1. SubSeq(s, 1, h) \in Seq(Tags) /\ Len(SubSeq(s, 1, h)) = h
  OBVIOUS
<1>2. ASSUME NEW tag \in Tags
      PROVE  SubSeq(Append(s, tag), 1, h) = SubSeq(s, 1, h)
  OBVIOUS
<1>3. ASSUME NEW n \in h..Len(s)
      PROVE  SubSeq(SubSeq(s, 1, n), 1, h) = SubSeq(s, 1, h)
  OBVIOUS
<1> QED
  BY <1>1, <1>2, <1>3

(* The first elements of a list.                                           *)
LEMMA FirstElements ==
    ASSUME NEW S, NEW s \in Seq(S), NEW m \in 0..Len(s)
    PROVE  /\ SubSeq(s, 1, m) \in Seq(S) /\ Len(SubSeq(s, 1, m)) = m
           /\ \A i \in 1..m : SubSeq(s, 1, m)[i] = s[i]
OBVIOUS

(* A place of the cache and its height.                                    *)
LEMMA Places ==
    ASSUME Inv, NEW i \in DOMAIN checkpoints
    PROVE  i \in Nat \ {0} /\ i <= Len(checkpoints) /\ HeightAt(i) \in Nat /\ First \in {0, 1}
<1>1. i \in Nat \ {0} /\ i <= Len(checkpoints)
  BY DEF Inv, TypeOK
<1>2. First \in {0, 1}
  BY DEF First
<1>3. PICK p \in Nat : p = First + i - 1
  <2>1. First + i - 1 \in Nat
    BY <1>1, <1>2
  <2> QED
    BY <2>1
<1>4. p * Interval \in Nat
  BY FiltersAssumption
<1> QED
  BY <1>1, <1>2, <1>3, <1>4 DEF HeightAt

(* A checkpoint stays right when the chain changes above its height.       *)
LEMMA OnChainKept ==
    ASSUME Inv, UNCHANGED <<checkpoints, opened>>, NEW i \in DOMAIN checkpoints, OnChain(i),
           \/ \E tag \in Tags : confirmed' = Append(confirmed, tag)
           \/ \E n \in 0..Top : n >= HeightAt(i) /\ confirmed' = Block(n)
           \/ confirmed' = confirmed
    PROVE  OnChain(i)'
<1>1. HeightAt(i)' = HeightAt(i) /\ checkpoints'[i] = checkpoints[i]
  BY DEF HeightAt, First
<1>2. confirmed \in Seq(Tags) /\ HeightAt(i) \in 0..Len(confirmed)
  BY Places DEF Inv, TypeOK, OnChain, Top
<1>3. PICK h \in 0..Len(confirmed) : h = HeightAt(i)
  BY <1>2
<1>4. checkpoints[i] = SubSeq(confirmed, 1, h)
  BY <1>3 DEF OnChain, Block
<1>5. h <= Len(confirmed') /\ SubSeq(confirmed', 1, h) = SubSeq(confirmed, 1, h)
  <2>1. CASE \E tag \in Tags : confirmed' = Append(confirmed, tag)
    <3>1. PICK tag \in Tags : confirmed' = Append(confirmed, tag)
      BY <2>1
    <3>2. Len(confirmed') = Len(confirmed) + 1
      BY <1>2, <3>1
    <3> QED
      BY <1>2, <3>1, <3>2, Prefixes
  <2>2. CASE \E n \in 0..Top : n >= HeightAt(i) /\ confirmed' = Block(n)
    <3>1. PICK n \in 0..Len(confirmed) : n >= h /\ confirmed' = SubSeq(confirmed, 1, n)
      BY <1>3, <2>2 DEF Top, Block
    <3>2. n \in h..Len(confirmed)
      BY <1>2, <3>1
    <3>3. Len(confirmed') = n
      BY <1>2, <3>1, Prefixes
    <3> QED
      BY <1>2, <3>1, <3>2, <3>3, Prefixes
  <2>3. CASE confirmed' = confirmed
    BY <2>3
  <2> QED
    BY <2>1, <2>2, <2>3
<1> QED
  BY <1>1, <1>3, <1>4, <1>5 DEF OnChain, Block, Top

(* An empty cache and a chain of genesis alone.                            *)
LEMMA InitInv == Init => Inv
<1> SUFFICES ASSUME Init PROVE Inv
  OBVIOUS
<1> USE FiltersAssumption DEF Init, NoCall
<1>1. TypeOK
  <2>1. <<>> \in Seq(Tags) /\ <<>> \in Seq(Seq(Tags)) /\ Len(<<>>) = 0
    OBVIOUS
  <2> QED
    BY <2>1 DEF TypeOK, Top, Heights, Calls
<1>2. CallInv
  BY DEF CallInv
<1>3. ChainInv /\ BoundInv
  BY DEF ChainInv, BoundInv
<1> QED
  BY <1>1, <1>2, <1>3 DEF Inv

(* The chain grows with no reorganization in progress.                     *)
LEMMA ConfirmInv ==
    ASSUME Inv, NEW tag \in Tags, Confirm(tag)
    PROVE  Inv'
<1> USE FiltersAssumption DEF Confirm, Idle
<1>1. /\ confirmed \in Seq(Tags) /\ Top \in Heights /\ confirmed' \in Seq(Tags)
      /\ Top' = Top + 1 /\ Top' \in Heights
  BY DEF Inv, TypeOK, Top, Heights
<1>2. TypeOK'
  BY <1>1 DEF Inv, TypeOK
<1>3. CallInv'
  BY DEF CallInv
<1>4. ChainInv'
  <2> SUFFICES ASSUME NEW i \in DOMAIN checkpoints, HeightAt(i)' <= sound PROVE OnChain(i)'
    BY DEF ChainInv
  <2>1. HeightAt(i)' = HeightAt(i)
    BY DEF HeightAt, First
  <2> QED
    BY <2>1, OnChainKept DEF Inv, ChainInv
<1>5. BoundInv'
  <2> SUFFICES ASSUME sound = MaxHeight, NEW i \in DOMAIN checkpoints PROVE HeightAt(i)' <= Top'
    BY DEF BoundInv, OldTop
  <2>1. HeightAt(i)' = HeightAt(i) /\ HeightAt(i) <= Top
    BY DEF HeightAt, First, Inv, BoundInv, OldTop
  <2> QED
    BY <1>1, <2>1, Places DEF Heights
<1> QED
  BY <1>2, <1>3, <1>4, <1>5 DEF Inv

(* The sequences of tags are chains.                                       *)
LEMMA BranchesAreSequences ==
    ASSUME NEW incoming \in Branches
    PROVE  incoming \in Seq(Tags) /\ Len(incoming) \in Nat
<1>1. PICK n \in 0..MaxHeight : incoming \in [1..n -> Tags]
  BY DEF Branches
<1>2. n \in Nat
  BY FiltersAssumption
<1> QED
  BY <1>1, <1>2

(* Nothing is popped yet.                                                  *)
LEMMA BeginInv ==
    ASSUME Inv, NEW fork \in Heights, NEW incoming \in Branches, Begin(fork, incoming)
    PROVE  Inv'
<1> USE FiltersAssumption DEF Begin, Idle
<1>1. Top \in Heights /\ Top' = Top /\ incoming \in Seq(Tags) /\ Len(incoming) \in Nat
  BY BranchesAreSequences DEF Inv, TypeOK, Top
<1>2. TypeOK'
  <2>1. call' \in Calls
    BY <1>1 DEF Calls, Heights
  <2> QED
    BY <1>1, <2>1 DEF Inv, TypeOK
<1>3. OldTop' = Top /\ OldTop = Top
  BY <1>1 DEF OldTop, Heights
<1>4. CallInv'
  BY <1>1, <1>3 DEF CallInv, Heights
<1>5. \A i \in DOMAIN checkpoints :
          HeightAt(i)' = HeightAt(i) /\ (OnChain(i)' <=> OnChain(i))
  BY DEF OnChain, HeightAt, First, Top, Block
<1>6. ChainInv'
  BY <1>5 DEF Inv, ChainInv
<1>7. BoundInv'
  BY <1>3, <1>5 DEF Inv, BoundInv
<1> QED
  BY <1>2, <1>4, <1>6, <1>7 DEF Inv

(* The chain stays above the fork point.                                   *)
LEMMA PopInv ==
    ASSUME Inv, Pop
    PROVE  Inv'
<1> USE FiltersAssumption DEF Pop
<1>1. /\ confirmed \in Seq(Tags) /\ Top \in Heights /\ call \in Calls
      /\ call.fork \in Nat /\ call.outgoing \in Nat
      /\ Top - 1 \in 0..Top /\ Top - 1 \in Heights /\ Top + call.outgoing <= MaxHeight
  BY DEF Inv, TypeOK, Heights, Calls, CallInv, OldTop
<1>2. confirmed' \in Seq(Tags) /\ Top' = Top - 1
  BY <1>1, Prefixes DEF Top, Block
<1>3. call' \in Calls
  BY <1>1 DEF Calls, Heights
<1>4. TypeOK'
  BY <1>1, <1>2, <1>3 DEF Inv, TypeOK
<1>5. OldTop' = OldTop
  <2>1. call'.active /\ call'.outgoing = call.outgoing + 1 /\ call'.next = call.next
    BY <1>1 DEF Calls
  <2> QED
    BY <1>1, <1>2, <2>1 DEF OldTop, Heights
<1>6. CallInv'
  BY <1>1, <1>2, <1>5 DEF Inv, CallInv, Heights, Calls
<1>7. ChainInv'
  <2> SUFFICES ASSUME NEW i \in DOMAIN checkpoints,
                      HeightAt(i)' <= sound, HeightAt(i)' <= call.fork
               PROVE  OnChain(i)'
    BY <1>1 DEF ChainInv, Calls
  <2>1. HeightAt(i)' = HeightAt(i) /\ HeightAt(i) \in Nat
    BY Places DEF HeightAt, First
  <2>2. OnChain(i)
    BY <2>1 DEF Inv, ChainInv
  <2>3. HeightAt(i) <= Top - 1
    BY <1>1, <2>1 DEF Heights
  <2> QED
    BY <1>1, <2>2, <2>3, OnChainKept
<1>8. BoundInv'
  BY <1>5 DEF Inv, BoundInv, HeightAt, First
<1> QED
  BY <1>4, <1>6, <1>7, <1>8 DEF Inv

(* The chain grows from the fork point on.                                 *)
LEMMA PushInv ==
    ASSUME Inv, Push
    PROVE  Inv'
<1>0. /\ call.active /\ Top = call.fork + call.next - 1 /\ call.next <= Len(call.incoming)
      /\ confirmed' = Append(confirmed, call.incoming[call.next])
      /\ call' = [call EXCEPT !.next = @ + 1]
      /\ UNCHANGED <<checkpoints, opened, sound>>
  BY DEF Push
<1>1. /\ confirmed \in Seq(Tags) /\ Top \in Heights /\ call \in Calls
      /\ call.fork \in Nat /\ call.outgoing \in Nat /\ call.next \in Nat
      /\ call.incoming \in Seq(Tags) /\ Len(call.incoming) \in Nat
      /\ call.next >= 1 /\ call.incoming[call.next] \in Tags
      /\ call.fork + Len(call.incoming) <= MaxHeight
  BY <1>0, FiltersAssumption DEF Inv, TypeOK, Heights, Calls, CallInv
<1>c. /\ Top \in Int /\ call.fork \in Nat /\ call.next \in Nat /\ Len(call.incoming) \in Nat
      /\ call.outgoing \in Nat /\ MaxHeight \in Nat
      /\ Top = call.fork + call.next - 1 /\ call.next <= Len(call.incoming)
      /\ call.fork + Len(call.incoming) <= MaxHeight /\ call.next >= 1
  BY <1>0, <1>1, FiltersAssumption DEF Heights
<1>a. Top + 1 <= MaxHeight /\ call.next + 1 \in 0..(MaxHeight + 1)
  BY <1>c
<1>2. confirmed' \in Seq(Tags) /\ Top' = Top + 1 /\ Top' \in Heights
  <2>1. confirmed' \in Seq(Tags) /\ Len(confirmed') = Len(confirmed) + 1
    BY <1>0, <1>1
  <2> QED
    BY <1>1, <1>a, <2>1, FiltersAssumption DEF Top, Heights
<1>3. call' \in Calls
  BY <1>0, <1>1, <1>a DEF Calls
<1>4. TypeOK'
  BY <1>0, <1>2, <1>3 DEF Inv, TypeOK
<1>b. /\ call'.active /\ call'.fork = call.fork /\ call'.outgoing = call.outgoing
      /\ call'.incoming = call.incoming /\ call'.next = call.next + 1
  BY <1>0, <1>1 DEF Calls
<1>5. OldTop' = OldTop
  <2>1. call.active /\ Top' = Top + 1
    BY <1>0, <1>2
  <2>2. /\ OldTop = Top + call.outgoing + 1 - call.next
        /\ OldTop' = (Top + 1) + call.outgoing + 1 - (call.next + 1)
    BY <1>b, <2>1 DEF OldTop
  <2>3. PICK t \in Int, o \in Int, n \in Int : t = Top /\ o = call.outgoing /\ n = call.next
    BY <1>c
  <2> QED
    BY <2>2, <2>3
<1>6. CallInv'
  <2>1. opened /\ OldTop <= MaxHeight
    BY <1>0 DEF Inv, CallInv
  <2>2. call'.next \in 1..(Len(call.incoming) + 1)
    BY <1>0, <1>1, <1>b
  <2>3. call'.next > 1 /\ call'.next # 1 /\ Top' = call.fork + call'.next - 1
    BY <1>2, <1>b, <1>c
  <2> QED
    BY <1>0, <1>1, <1>5, <1>b, <2>1, <2>2, <2>3 DEF CallInv
<1>7. ChainInv'
  <2> SUFFICES ASSUME NEW i \in DOMAIN checkpoints, HeightAt(i)' <= sound,
                      call.outgoing > 0 => HeightAt(i)' <= call.fork
               PROVE  OnChain(i)'
    BY <1>0, <1>b DEF ChainInv
  <2>1. HeightAt(i)' = HeightAt(i)
    BY <1>0 DEF HeightAt, First
  <2>2. OnChain(i)
    BY <2>1 DEF Inv, ChainInv
  <2> QED
    BY <1>0, <1>1, <2>2, OnChainKept
<1>8. BoundInv'
  BY <1>0, <1>5 DEF Inv, BoundInv, HeightAt, First
<1> QED
  BY <1>4, <1>6, <1>7, <1>8 DEF Inv

(* A reorganization that fails once it has popped leaves checkpoints that  *)
(* are right up to its fork point.                                         *)
LEMMA FailInv ==
    ASSUME Inv, Fail
    PROVE  Inv'
<1> USE FiltersAssumption DEF Fail
<1>1. /\ Top \in Heights /\ Top' = Top /\ sound \in Heights
      /\ call.fork \in Heights /\ call.outgoing \in Nat /\ call.next \in Nat
  BY DEF Inv, TypeOK, Top, Calls, Heights
<1>2. ~call'.active /\ call' \in Calls /\ sound' \in Heights /\ sound' <= sound
  BY <1>1 DEF NoCall, Calls, Heights, Lower
<1>3. TypeOK'
  BY <1>1, <1>2 DEF Inv, TypeOK
<1>4. CallInv'
  BY <1>2 DEF CallInv
<1>5. \A i \in DOMAIN checkpoints :
          HeightAt(i)' = HeightAt(i) /\ (OnChain(i)' <=> OnChain(i)) /\ HeightAt(i) \in Nat
  BY Places DEF OnChain, HeightAt, First, Top, Block
<1>6. ChainInv'
  <2> SUFFICES ASSUME NEW i \in DOMAIN checkpoints, HeightAt(i) <= sound' PROVE OnChain(i)
    BY <1>5 DEF ChainInv
  <2>1. HeightAt(i) <= sound /\ (call.outgoing > 0 => HeightAt(i) <= call.fork)
    BY <1>1, <1>2, <1>5 DEF Lower, Heights
  <2> QED
    BY <2>1 DEF Inv, ChainInv
<1>7. BoundInv'
  <2> SUFFICES ASSUME sound' = MaxHeight, NEW i \in DOMAIN checkpoints
               PROVE  HeightAt(i) <= Top
    BY <1>1, <1>2, <1>5 DEF BoundInv, OldTop
  <2>1. sound = MaxHeight
    BY <1>1, <1>2 DEF Heights
  <2>2. OnChain(i)
    <3>1. HeightAt(i) <= OldTop /\ OldTop <= MaxHeight /\ OldTop \in Int
      BY <1>1, <2>1 DEF Inv, BoundInv, CallInv, OldTop, Heights
    <3>2. call.outgoing > 0 => call.fork = MaxHeight
      BY <1>1 DEF Lower, Heights
    <3> QED
      BY <1>1, <1>5, <2>1, <3>1, <3>2 DEF Inv, ChainInv, Heights
  <2> QED
    BY <2>2 DEF OnChain
<1> QED
  BY <1>3, <1>4, <1>6, <1>7 DEF Inv

(* The loop of both functions lists the blocks of the chain at multiples   *)
(* of the interval.                                                        *)
LEMMA ListedBlocks ==
    ASSUME Inv, NEW first \in Nat, first <= (Top \div Interval) + 1
    PROVE  /\ Listed(first, Top) \in Seq(Seq(Tags))
           /\ Len(Listed(first, Top)) = (Top \div Interval) - first + 1
           /\ \A i \in 1..((Top \div Interval) - first + 1) :
                 /\ (first + i - 1) * Interval \in 0..Top
                 /\ Listed(first, Top)[i] = Block((first + i - 1) * Interval)
<1>1. confirmed \in Seq(Tags) /\ Top \in Nat
  BY DEF Inv, TypeOK, Top
<1>2. PICK q \in Nat : q = Top \div Interval
  BY <1>1, Quotient
<1>3. PICK n \in Nat : n = q - first + 1
  <2>1. q - first + 1 \in Nat
    BY <1>2
  <2> QED
    BY <2>1
<1>4. ASSUME NEW i \in 1..n
      PROVE  (first + i - 1) * Interval \in 0..Top
  <2>1. PICK k \in Nat : k = first + i - 1 /\ k <= q
    <3>1. first + i - 1 \in Nat /\ first + i - 1 <= q
      BY <1>3
    <3> QED
      BY <3>1
  <2>2. k * Interval <= Top /\ k * Interval \in Nat
    BY <1>1, <1>2, <2>1, Quotient, FiltersAssumption
  <2> QED
    BY <1>1, <2>1, <2>2
<1>5. ASSUME NEW i \in 1..n
      PROVE  Block((first + i - 1) * Interval) \in Seq(Tags)
  <2>1. PICK h \in 0..Len(confirmed) : h = (first + i - 1) * Interval
    BY <1>4 DEF Top
  <2> QED
    BY <1>1, <2>1, Prefixes DEF Block
<1>6. Listed(first, Top) = [i \in 1..n |-> Block((first + i - 1) * Interval)]
  BY <1>2, <1>3 DEF Listed
<1>7. Listed(first, Top) \in Seq(Seq(Tags)) /\ Len(Listed(first, Top)) = n
  BY <1>5, <1>6
<1>8. \A i \in 1..n : Listed(first, Top)[i] = Block((first + i - 1) * Interval)
  BY <1>6
<1>9. (Top \div Interval) - first + 1 = n
  BY <1>2, <1>3
<1> QED
  BY <1>4, <1>7, <1>8, <1>9

(* What update_filter_cache drops leaves no checkpoint above the fork      *)
(* point, if all were on the chain before.                                 *)
LEMMA KeptWithin ==
    ASSUME Inv, call.active, Top = call.fork + Len(call.incoming),
           call.next = Len(call.incoming) + 1
    PROVE  \E m \in 0..Len(checkpoints) :
              /\ Kept = SubSeq(checkpoints, 1, m)
              /\ sound = MaxHeight => \A i \in 1..m : HeightAt(i) <= call.fork
<1>1. /\ checkpoints \in Seq(Seq(Tags)) /\ Len(checkpoints) \in Nat
      /\ call.fork \in Nat /\ call.outgoing \in Nat /\ Len(call.incoming) \in Nat
  BY FiltersAssumption DEF Inv, TypeOK, Calls, Heights
<1>2. PICK f \in Nat, o \in Nat, L \in Nat :
          f = call.fork /\ o = call.outgoing /\ L = Len(checkpoints)
  BY <1>1
<1>3. OldTop = f + o
  <2>1. PICK n \in Nat : n = Len(call.incoming)
    BY <1>1
  <2>2. OldTop = (f + n) + o + 1 - (n + 1)
    BY <1>2, <2>1 DEF OldTop
  <2> QED
    BY <2>2
<1>4. PICK previous \in Nat, q \in Nat :
          previous = (f + o) \div Interval /\ q = f \div Interval
  BY Quotient
<1>5. q <= previous
  <2>1. q * Interval <= f /\ q * Interval \in Int
    BY <1>4, Quotient, Multiples
  <2>2. q * Interval <= f + o
    BY <2>1
  <2> QED
    BY <1>4, <2>2, Quotient
<1>6. sound = MaxHeight /\ L > 0 => L - 1 <= previous
  <2> SUFFICES ASSUME sound = MaxHeight, L > 0 PROVE L - 1 <= previous
    OBVIOUS
  <2>1. HeightAt(L) <= f + o
    BY <1>1, <1>2, <1>3 DEF Inv, BoundInv
  <2>2. First = 0
    BY DEF First, Inv, CallInv
  <2>3. (L - 1) * Interval <= f + o
    BY <2>1, <2>2 DEF HeightAt
  <2>4. PICK k \in Int : k = L - 1
    <3>1. L - 1 \in Int
      OBVIOUS
    <3> QED
      BY <3>1
  <2>5. f + o \in Nat /\ k * Interval <= f + o
    BY <2>3, <2>4
  <2>6. k <= (f + o) \div Interval
    BY <2>5, Quotient
  <2> QED
    BY <1>4, <2>4, <2>6
<1>e. PICK e \in Nat : previous = q + e /\ e = previous - q
  <2>1. previous - q \in Nat
    BY <1>5
  <2> QED
    BY <2>1
<1>k. Kept = IF o > 0 /\ e > 0 THEN SubSeq(checkpoints, 1, IF e > L THEN 0 ELSE L - e)
             ELSE checkpoints
  <2>1. /\ previous = (call.fork + call.outgoing) \div Interval
        /\ q = call.fork \div Interval
    BY <1>2, <1>4
  <2> HIDE <1>4
  <2>2. e = (call.fork + call.outgoing) \div Interval - (call.fork \div Interval)
    BY <1>e, <2>1
  <2> QED
    BY <1>2, <2>2 DEF Kept
<1>7. PICK m \in 0..L : Kept = SubSeq(checkpoints, 1, m) /\ (m > 0 => m + e <= L)
  <2>1. CASE o > 0 /\ e > L
    <3>1. Kept = SubSeq(checkpoints, 1, 0)
      BY <1>k, <2>1
    <3>2. 0 \in 0..L /\ ~(0 > 0)
      OBVIOUS
    <3> QED
      BY <3>1, <3>2
  <2>2. CASE o > 0 /\ e > 0 /\ ~(e > L)
    <3>1. PICK m \in 0..L : m = L - e
      <4>1. L - e \in 0..L
        BY <2>2
      <4> QED
        BY <4>1
    <3>2. Kept = SubSeq(checkpoints, 1, m)
      BY <1>k, <2>2, <3>1
    <3>3. m + e <= L
      BY <2>2, <3>1
    <3> QED
      BY <3>2, <3>3
  <2>3. CASE o = 0 \/ e = 0
    <3>1. Kept = checkpoints
      BY <1>k, <2>3
    <3>2. checkpoints = SubSeq(checkpoints, 1, L)
      BY <1>1, <1>2
    <3>3. o = 0 => previous = q
      BY <1>4
    <3>4. L \in 0..L /\ L + e <= L
      BY <1>e, <2>3, <3>3
    <3> QED
      BY <3>1, <3>2, <3>4
  <2> QED
    BY <2>1, <2>2, <2>3
<1>8. ASSUME sound = MaxHeight, NEW i \in 1..m PROVE HeightAt(i) <= f
  <2>1. i - 1 <= q
    BY <1>6, <1>7, <1>8, <1>e
  <2>2. First = 0
    BY DEF First, Inv, CallInv
  <2>3. (i - 1) * Interval <= f
    BY <1>4, <2>1, Quotient
  <2> QED
    BY <2>2, <2>3 DEF HeightAt
<1> QED
  BY <1>2, <1>7, <1>8

(* Each checkpoint after an update was kept or is of the new chain.        *)
LEMMA UpdatedPlaces ==
    ASSUME Inv, UpdateFilterCache
    PROVE  /\ checkpoints' \in Seq(Seq(Tags))
           /\ \A i \in DOMAIN checkpoints' :
                 \/ /\ (i - 1) * Interval \in 0..Top
                    /\ checkpoints'[i] = Block((i - 1) * Interval)
                 \/ /\ i \in DOMAIN checkpoints /\ checkpoints'[i] = checkpoints[i]
                    /\ sound = MaxHeight => HeightAt(i) <= call.fork
           /\ call.incoming # <<>> => Len(checkpoints') >= Top \div Interval
<1>1. /\ call.active /\ Top = call.fork + Len(call.incoming)
      /\ call.next = Len(call.incoming) + 1 /\ checkpoints' = Extended(Kept)
  BY DEF UpdateFilterCache
<1>2. checkpoints \in Seq(Seq(Tags)) /\ Top \in Nat
  BY FiltersAssumption DEF Inv, TypeOK, Heights
<1>3. PICK m \in 0..Len(checkpoints) :
          /\ Kept = SubSeq(checkpoints, 1, m)
          /\ sound = MaxHeight => \A i \in 1..m : HeightAt(i) <= call.fork
  BY <1>1, KeptWithin
<1>4. PICK kept \in Seq(Seq(Tags)) : kept = Kept
  BY <1>2, <1>3, FirstElements
<1>5. m \in Nat /\ Len(kept) = m /\ DOMAIN kept = 1..m /\ 1..m \subseteq DOMAIN checkpoints
  BY <1>2, <1>3, <1>4
<1>6. \A i \in 1..m : kept[i] = checkpoints[i]
  BY <1>2, <1>3, <1>4
<1>7. PICK q \in Nat : q = Top \div Interval
  BY <1>2, Quotient
<1>8. CASE call.incoming # <<>> /\ m < q
  <2>1. checkpoints' = kept \o Listed(m, Top)
    BY <1>1, <1>4, <1>5, <1>7, <1>8 DEF Extended
  <2>2. PICK listed \in Seq(Seq(Tags)) :
            /\ listed = Listed(m, Top) /\ Len(listed) = q - m + 1
            /\ \A i \in 1..(q - m + 1) :
                  /\ (m + i - 1) * Interval \in 0..Top
                  /\ listed[i] = Block((m + i - 1) * Interval)
    <3>1. m <= (Top \div Interval) + 1
      BY <1>5, <1>7, <1>8
    <3> QED
      BY <1>5, <1>7, <3>1, ListedBlocks
  <2>3. /\ checkpoints' = kept \o listed
        /\ checkpoints' \in Seq(Seq(Tags)) /\ Len(checkpoints') = q + 1
    BY <1>5, <2>1, <2>2
  <2>4. ASSUME NEW i \in 1..m PROVE checkpoints'[i] = checkpoints[i]
    BY <1>5, <1>6, <2>3
  <2>5. ASSUME NEW i \in (m + 1)..(q + 1)
        PROVE  (i - 1) * Interval \in 0..Top /\ checkpoints'[i] = Block((i - 1) * Interval)
    <3>1. PICK j \in 1..(q - m + 1) : j = i - m
      <4>1. i - m \in 1..(q - m + 1)
        BY <1>5
      <4> QED
        BY <4>1
    <3>2. m + j - 1 = i - 1
      BY <1>5, <3>1
    <3>3. checkpoints'[i] = listed[j]
      BY <1>5, <2>2, <2>3, <3>1
    <3> QED
      BY <2>2, <3>2, <3>3
  <2>6. DOMAIN checkpoints' = 1..m \cup (m + 1)..(q + 1)
    BY <1>5, <1>8, <2>3
  <2>7. Len(checkpoints') >= Top \div Interval
    BY <1>7, <2>3
  <2> QED
    BY <1>3, <1>5, <2>3, <2>4, <2>5, <2>6, <2>7
<1>9. CASE ~(call.incoming # <<>> /\ m < q)
  <2>1. checkpoints' = kept
    BY <1>1, <1>4, <1>5, <1>7, <1>9 DEF Extended
  <2> QED
    BY <1>3, <1>5, <1>6, <1>7, <1>9, <2>1
<1> QED
  BY <1>8, <1>9

(* The checkpoints that were kept are right, and those that were added,    *)
(* too.                                                                    *)
LEMMA UpdateFilterCacheInv ==
    ASSUME Inv, UpdateFilterCache
    PROVE  Inv'
<1>1. /\ call.active /\ call' = NoCall /\ UNCHANGED <<confirmed, opened>>
      /\ sound' = IF sound < MaxHeight THEN Lower(call.fork) ELSE sound
  BY DEF UpdateFilterCache
<1>2. /\ Top \in Nat /\ Top <= MaxHeight /\ Top' = Top
      /\ sound \in Heights /\ call.fork \in Heights
  BY <1>1, FiltersAssumption DEF Inv, TypeOK, Top, Calls, Heights
<1>3. /\ ~call'.active /\ call' \in Calls /\ sound' \in Heights
      /\ sound' <= sound
      /\ sound < MaxHeight => sound' <= call.fork
  BY <1>1, <1>2, FiltersAssumption DEF NoCall, Calls, Heights, Lower
<1>4. TypeOK'
  BY <1>1, <1>3, UpdatedPlaces DEF Inv, TypeOK, Top
<1>5. CallInv'
  BY <1>3 DEF CallInv
<1>6. First = 0 /\ First' = 0
  BY <1>1 DEF First, Inv, CallInv
<1>7. ASSUME NEW i \in DOMAIN checkpoints',
             sound = MaxHeight \/ HeightAt(i)' <= sound'
      PROVE  OnChain(i)'
  <2>1. i \in Nat \ {0} /\ HeightAt(i)' = (i - 1) * Interval /\ HeightAt(i) = (i - 1) * Interval
    BY <1>6, UpdatedPlaces DEF HeightAt
  <2>2. CASE (i - 1) * Interval \in 0..Top /\ checkpoints'[i] = Block((i - 1) * Interval)
    BY <1>1, <1>2, <2>1, <2>2 DEF OnChain, Block, Top
  <2>3. CASE /\ i \in DOMAIN checkpoints /\ checkpoints'[i] = checkpoints[i]
             /\ sound = MaxHeight => HeightAt(i) <= call.fork
    <3>1. HeightAt(i) \in Nat
      BY <2>3, Places
    <3>2. HeightAt(i) <= sound /\ HeightAt(i) <= call.fork
      BY <1>2, <1>3, <1>7, <2>1, <2>3, <3>1, FiltersAssumption DEF Heights
    <3>3. OnChain(i)
      BY <2>3, <3>2 DEF Inv, ChainInv
    <3> QED
      BY <1>1, <1>2, <2>1, <2>3, <3>3 DEF OnChain, Block
  <2> QED
    BY <2>2, <2>3, UpdatedPlaces
<1>8. ChainInv'
  BY <1>7 DEF ChainInv
<1>9. BoundInv'
  <2>1. sound' = MaxHeight => sound = MaxHeight
    BY <1>2, <1>3, FiltersAssumption DEF Heights
  <2> QED
    BY <1>3, <1>7, <2>1 DEF BoundInv, OldTop, OnChain
<1> QED
  BY <1>4, <1>5, <1>8, <1>9 DEF Inv

(* populate_filter_cache lists what there is from the interval on.         *)
LEMMA ReopenInv ==
    ASSUME Inv, Reopen
    PROVE  Inv'
<1>1. /\ ~call.active /\ call' = call /\ confirmed' = confirmed /\ opened' = FALSE
      /\ sound' = MaxHeight /\ checkpoints' = Listed(1, Top)
  BY DEF Reopen
<1>2. Top \in Nat /\ Top' = Top
  BY <1>1, FiltersAssumption DEF Inv, TypeOK, Top, Heights
<1>3. PICK q \in Nat : q = Top \div Interval
  BY <1>2, Quotient
<1>4. /\ checkpoints' \in Seq(Seq(Tags)) /\ Len(checkpoints') = q
      /\ \A i \in 1..q : /\ i * Interval \in 0..Top
                         /\ checkpoints'[i] = Block(i * Interval)
  <2>1. 1 <= (Top \div Interval) + 1 /\ (Top \div Interval) - 1 + 1 = q
    BY <1>3
  <2>2. \A i \in 1..q : 1 + i - 1 = i
    OBVIOUS
  <2> QED
    BY <1>1, <2>1, <2>2, ListedBlocks
<1>5. TypeOK'
  <2>1. confirmed \in Seq(Tags) /\ Top \in Heights /\ call \in Calls /\ MaxHeight \in Heights
    BY FiltersAssumption DEF Inv, TypeOK, Heights
  <2> QED
    BY <1>1, <1>2, <1>4, <2>1 DEF TypeOK
<1>6. CallInv'
  BY <1>1 DEF CallInv
<1>7. ASSUME NEW i \in DOMAIN checkpoints' PROVE OnChain(i)'
  <2>1. i \in 1..q /\ First' = 1
    BY <1>1, <1>4 DEF First
  <2>2. HeightAt(i)' = i * Interval
    <3>1. 1 + i - 1 = i
      BY <2>1
    <3> QED
      BY <2>1, <3>1 DEF HeightAt
  <2> QED
    BY <1>1, <1>2, <1>4, <2>1, <2>2 DEF OnChain, Block
<1>8. ChainInv' /\ BoundInv'
  BY <1>1, <1>7 DEF ChainInv, BoundInv, OldTop, OnChain
<1> QED
  BY <1>5, <1>6, <1>8 DEF Inv

(* A step that changes nothing.                                            *)
LEMMA StutterInv == ASSUME Inv, UNCHANGED vars PROVE Inv'
BY DEF vars, Inv, TypeOK, CallInv, ChainInv, BoundInv, OnChain, OldTop, HeightAt, First, Top, Block

(* The invariant is inductive: one lemma per action.                       *)
LEMMA NextInv == Inv /\ [Next]_vars => Inv'
<1> SUFFICES ASSUME Inv, [Next]_vars PROVE Inv'
  OBVIOUS
<1>1. CASE UNCHANGED vars
  BY <1>1, StutterInv
<1>2. ASSUME NEW tag \in Tags, Confirm(tag) PROVE Inv'
  BY <1>2, ConfirmInv
<1>3. ASSUME NEW fork \in Heights, NEW incoming \in Branches, Begin(fork, incoming) PROVE Inv'
  BY <1>3, BeginInv
<1>4. CASE Pop \/ Push \/ Fail \/ UpdateFilterCache \/ Reopen
  BY <1>4, PopInv, PushInv, FailInv, UpdateFilterCacheInv, ReopenInv
<1> QED
  BY <1>1, <1>2, <1>3, <1>4 DEF Next

(* The chain, the cache and the call in progress keep their types          *)
(* (data_base.cpp, reorganize and update_filter_cache).                    *)
THEOREM TypeCorrect == Spec => []TypeOK
<1>1. Inv => TypeOK
  BY DEF Inv
<1> QED
  BY InitInv, NextInv, <1>1, PTL DEF Spec

(* The cache holds the checkpoints of the confirmed chain, none of a       *)
(* branch that was popped, for any interval (data_base.cpp,                *)
(* update_filter_cache and populate_filter_cache).                         *)
THEOREM CheckpointsStayOnChain == Spec => []CheckpointsOnChain
<1>1. Inv => CheckpointsOnChain
  <2> SUFFICES ASSUME Inv, NEW i \in DOMAIN checkpoints, HeightAt(i) <= sound,
                      call.active => HeightAt(i) <= call.fork
               PROVE  HeightAt(i) <= Top /\ checkpoints[i] = Block(HeightAt(i))
    BY DEF CheckpointsOnChain, HeightAt
  <2> QED
    BY DEF Inv, ChainInv, OnChain
<1> QED
  BY InitInv, NextInv, <1>1, PTL DEF Spec

(* An update that brings blocks leaves out at most the last checkpoint of  *)
(* the new chain (data_base.cpp, update_filter_cache).                     *)
THEOREM OnlyLastLags == Spec => LastMayLag
<1>1. Inv /\ Inv' /\ [Next]_vars =>
          [UpdateFilterCache /\ sound = MaxHeight /\ call.incoming # <<>> =>
              Len(checkpoints') \in {Top \div Interval, Top \div Interval + 1}]_vars
  <2> SUFFICES ASSUME Inv, Inv', UpdateFilterCache, sound = MaxHeight, call.incoming # <<>>
               PROVE  Len(checkpoints') \in {Top \div Interval, Top \div Interval + 1}
    OBVIOUS
  <2>1. Top \in Nat /\ Top' = Top
    BY FiltersAssumption DEF UpdateFilterCache, Inv, TypeOK, Top, Heights
  <2>2. PICK q \in Nat, n \in Nat : q = Top \div Interval /\ n = Len(checkpoints')
    BY <2>1, Quotient, UpdatedPlaces
  <2>3. n >= q
    BY <2>2, UpdatedPlaces
  <2>4. n > 0 => n - 1 <= q
    <3> SUFFICES ASSUME n > 0 PROVE n - 1 <= q
      OBVIOUS
    <3>1. n \in DOMAIN checkpoints'
      BY <2>2, UpdatedPlaces
    <3>2. HeightAt(n)' <= Top
      <4>1. sound' = MaxHeight /\ ~call'.active
        BY FiltersAssumption DEF UpdateFilterCache, NoCall
      <4> QED
        BY <2>1, <3>1, <4>1 DEF Inv, BoundInv, OldTop
    <3>3. First' = 0
      BY DEF First, Inv, CallInv, UpdateFilterCache
    <3>4. PICK k \in Int : k = n - 1
      <4>1. n - 1 \in Int
        OBVIOUS
      <4> QED
        BY <4>1
    <3>5. k * Interval <= Top
      BY <3>2, <3>3, <3>4 DEF HeightAt
    <3> QED
      BY <2>1, <2>2, <3>4, <3>5, Quotient
  <2> QED
    BY <2>2, <2>3, <2>4
<1> QED
  BY InitInv, NextInv, <1>1, PTL DEF Spec, LastMayLag
=============================================================================
