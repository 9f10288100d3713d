------------------------------- MODULE Filters -------------------------------
(***************************************************************************)
(* The cache of filter checkpoints (filter_database, checkpoints_) and the *)
(* confirmed chain it is about: data_base::update_filter_cache, at the end *)
(* of a reorganization of blocks, and populate_filter_cache in open().     *)
(*                                                                         *)
(* A block is the path that leads to it from genesis: confirmed is the top *)
(* block, and the block at a height is a prefix of it.  An entry of the    *)
(* cache stands for the block whose row it was read through; the filter    *)
(* headers themselves are left out.  The calls that organize blocks are    *)
(* serialized by the caller; reorganize() pops and pushes block by block,  *)
(* and only then updates the cache, so a reader of checkpoints() can come  *)
(* in between.                                                             *)
(***************************************************************************)
EXTENDS Integers, Sequences

CONSTANTS
    Tags,       \* what tells two blocks with the same parent apart
    Interval,   \* compact_filter_checkpoint_interval
    MaxHeight   \* bound: the height of a chain (max_size_t in reorganize)

ASSUME FiltersAssumption ==
    /\ Interval \in Nat \ {0}
    /\ MaxHeight \in Nat

VARIABLES
    confirmed,  \* the confirmed chain
    checkpoints,\* checkpoints_: a sequence of blocks
    call,       \* the reorganize() in progress, or NoCall
    opened,     \* the last create() or open() has returned true
    sound       \* history: the height up to which failed reorganizations
                \* have left the cache right; MaxHeight if none has failed

vars == <<confirmed, checkpoints, call, opened, sound>>

NoCall == [active |-> FALSE, fork |-> 0, outgoing |-> 0, incoming |-> <<>>, next |-> 0]

Heights == 0..MaxHeight

Top == Len(confirmed)
Block(height) == SubSeq(confirmed, 1, height)

(* create() pushes genesis and leaves the cache empty.                     *)
Init ==
    /\ confirmed = <<>>
    /\ checkpoints = <<>>
    /\ call = NoCall
    /\ opened = TRUE
    /\ sound = MaxHeight

Idle == opened /\ ~call.active

(* The blocks at first * Interval, (first + 1) * Interval and so on, up to *)
(* a height.  The heights are those of the confirmed index, so get() finds *)
(* each of them and neither loop returns early.                            *)
Listed(first, height) ==
    [i \in 1..((height \div Interval) - first + 1) |-> Block((first + i - 1) * Interval)]

-----------------------------------------------------------------------------
(* confirm(hash, height), and push(block, height): the cache is not        *)
(* updated.                                                                *)
Confirm(tag) ==
    /\ Idle
    /\ Top < MaxHeight
    /\ confirmed' = Append(confirmed, tag)
    /\ UNCHANGED <<checkpoints, call, opened, sound>>

(* Mutant: the height of the new chain is not checked.                     *)
BeginUnchecked(fork, incoming) ==
    /\ Idle
    /\ fork \in 0..Top
    /\ fork < Top \/ incoming # <<>>
    /\ call' = [active |-> TRUE, fork |-> fork, outgoing |-> 0, incoming |-> incoming, next |-> 1]
    /\ UNCHANGED <<confirmed, checkpoints, opened, sound>>

(* reorganize(fork_point, incoming, outgoing) is called.  It returns at    *)
(* once if the heights would overflow.                                     *)
Begin(fork, incoming) ==
    /\ Idle
    /\ fork \in 0..Top
    /\ fork + Len(incoming) <= MaxHeight
    /\ fork < Top \/ incoming # <<>>
    /\ call' = [active |-> TRUE, fork |-> fork, outgoing |-> 0, incoming |-> incoming, next |-> 1]
    /\ UNCHANGED <<confirmed, checkpoints, opened, sound>>

(* pop_above: one block.                                                   *)
Pop ==
    /\ call.active
    /\ call.next = 1
    /\ Top > call.fork
    /\ confirmed' = Block(Top - 1)
    /\ call' = [call EXCEPT !.outgoing = @ + 1]
    /\ UNCHANGED <<checkpoints, opened, sound>>

(* push_all: one block.                                                    *)
Push ==
    /\ call.active
    /\ Top = call.fork + call.next - 1
    /\ call.next <= Len(call.incoming)
    /\ confirmed' = Append(confirmed, call.incoming[call.next])
    /\ call' = [call EXCEPT !.next = @ + 1]
    /\ UNCHANGED <<checkpoints, opened, sound>>

Lower(fork) == IF fork < sound THEN fork ELSE sound

(* A pop or push fails: reorganize() returns and the cache keeps the       *)
(* checkpoints of blocks that were popped.                                 *)
Fail ==
    /\ call.active
    /\ Top > call.fork \/ call.next <= Len(call.incoming)
    /\ sound' = IF call.outgoing > 0 THEN Lower(call.fork) ELSE sound
    /\ call' = NoCall
    /\ UNCHANGED <<confirmed, checkpoints, opened>>

(* Mutant: one checkpoint too many is kept.                                *)
KeptOneMore ==
    LET previousCount == (call.fork + call.outgoing) \div Interval
        excess == previousCount - (call.fork \div Interval)
        length == IF excess > Len(checkpoints) THEN 0 ELSE Len(checkpoints) - excess + 1
    IN  IF call.outgoing > 0 /\ excess > 0 /\ length <= Len(checkpoints)
        THEN SubSeq(checkpoints, 1, length) ELSE checkpoints

(* The first half of update_filter_cache: one checkpoint goes for each one *)
(* between the fork point and the previous top.                            *)
Kept ==
    LET previousCount == (call.fork + call.outgoing) \div Interval
        excess == previousCount - (call.fork \div Interval)
        length == IF excess > Len(checkpoints) THEN 0 ELSE Len(checkpoints) - excess
    IN  IF call.outgoing > 0 /\ excess > 0 THEN SubSeq(checkpoints, 1, length)
        ELSE checkpoints

(* Mutant: the checkpoint at the top does not count.                       *)
ExtendedLate(kept) ==
    LET height == call.fork + Len(call.incoming)
    IN  IF call.incoming # <<>> /\ Len(kept) + 1 < height \div Interval
        THEN kept \o Listed(Len(kept), height) ELSE kept

(* The second half: if there are fewer checkpoints than the height has     *)
(* intervals, the ones from Len * Interval on are added, genesis included. *)
Extended(kept) ==
    LET height == call.fork + Len(call.incoming)
    IN  IF call.incoming # <<>> /\ Len(kept) < height \div Interval
        THEN kept \o Listed(Len(kept), height) ELSE kept

(* update_filter_cache, when all incoming blocks are pushed; reorganize()  *)
(* returns.                                                                *)
UpdateFilterCache ==
    /\ call.active
    /\ Top = call.fork + Len(call.incoming)
    /\ call.next = Len(call.incoming) + 1
    /\ checkpoints' = Extended(Kept)
    /\ sound' = IF sound < MaxHeight THEN Lower(call.fork) ELSE sound
    /\ call' = NoCall
    /\ UNCHANGED <<confirmed, opened>>

(* close() and open(): populate_filter_cache lists the checkpoints from    *)
(* Interval on.  open() combines the code it returns, which converts to    *)
(* true for an error, with &=, so it returns false when it succeeds, and a *)
(* retry does the same.                                                    *)
Reopen ==
    /\ ~call.active
    /\ checkpoints' = Listed(1, Top)
    /\ opened' = FALSE
    /\ sound' = MaxHeight
    /\ UNCHANGED <<confirmed, call>>

(* The sequences of tags that fit a chain.                                 *)
Branches == UNION {[1..n -> Tags] : n \in 0..MaxHeight}

Next ==
    \/ \E tag \in Tags : Confirm(tag)
    \/ \E fork \in Heights, incoming \in Branches : Begin(fork, incoming)
    \/ Pop
    \/ Push
    \/ Fail
    \/ UpdateFilterCache
    \/ Reopen

Spec == Init /\ [][Next]_vars

-----------------------------------------------------------------------------
Calls ==
    [active : BOOLEAN, fork : Heights, outgoing : Heights, incoming : Seq(Tags),
     next : 0..(MaxHeight + 1)]

TypeOK ==
    /\ confirmed \in Seq(Tags) /\ Top \in Heights
    /\ checkpoints \in Seq(Seq(Tags))
    /\ call \in Calls
    /\ opened \in BOOLEAN
    /\ sound \in Heights

(* The first checkpoint is genesis after updates, and the block at         *)
(* Interval when open() has populated the cache.                           *)
First == IF opened THEN 0 ELSE 1

(* A checkpoint is the block of the confirmed chain at its place times the *)
(* interval: none is of a branch that was popped, none is missing or       *)
(* doubled in between, although confirm() and push() do not update the     *)
(* cache and a reorganization drops as many as there would be if they did  *)
(* (data_base.cpp, update_filter_cache and populate_filter_cache).  During *)
(* a reorganization this holds up to the fork point; after one that failed *)
(* half way only up to the lowest fork point since, until open().          *)
CheckpointsOnChain ==
    \A i \in DOMAIN checkpoints :
        LET height == (First + i - 1) * Interval IN
        height <= sound /\ (call.active => height <= call.fork) =>
            height <= Top /\ checkpoints[i] = Block(height)

(* A reorganization that brings blocks leaves a checkpoint for every       *)
(* interval of the new chain but the last (data_base.cpp,                  *)
(* update_filter_cache): genesis is counted as one, so the checkpoint at   *)
(* the last multiple of Interval may come only with the next update.       *)
LastMayLag ==
    [][UpdateFilterCache /\ sound = MaxHeight /\ call.incoming # <<>> =>
          Len(checkpoints') \in {Top \div Interval, Top \div Interval + 1}]_vars
=============================================================================
