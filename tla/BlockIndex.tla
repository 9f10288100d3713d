------------------------------ MODULE BlockIndex ------------------------------
(***************************************************************************)
(* The candidate and the confirmed index of block_database and the state   *)
(* bytes of the blocks, in the steps in which threads see them change.     *)
(*                                                                         *)
(* The thread that organizes the chains pushes and pops (promote, demote): *)
(* it reads the state of the block and writes it in two critical sections, *)
(* then changes the count of the index and, for a push, writes the record  *)
(* it has counted; most of its callers then commit the counts to the       *)
(* files.  Both indexes share one field of the state: a promotion writes   *)
(* the name of its index there, a demotion "missing", whatever the other   *)
(* index holds.  Meanwhile another thread may validate a candidate block,  *)
(* reading and writing its state likewise (nothing keeps the two apart     *)
(* when flush_each_write is off), and readers get blocks by height.  A     *)
(* record that was never written holds link 0, which is genesis.           *)
(***************************************************************************)
EXTENDS Integers

CONSTANTS
    Blocks,
    Genesis,        \* the block whose link is 0
    NoBlock,        \* a terminator element
    Readers,        \* threads that read by height
    MaxHeight,      \* bound: the height of an index
    MaxRestarts     \* bound: times the store is closed and opened again

ASSUME BlockIndexAssumption ==
    /\ Genesis \in Blocks /\ NoBlock \notin Blocks
    /\ MaxHeight \in Nat /\ MaxRestarts \in Nat

Heights == 0..MaxHeight

Indexes == {"candidate", "confirmed"}

VARIABLES
    count,      \* record_count_ of each index, in memory
    saved,      \* the count in its file
    records,    \* the records of each index, by height; a pop leaves them
    state,      \* the state byte of each block
    organizer,  \* the promote() or demote() in progress
    validator,  \* the validate() in progress
    reader,     \* the get(height, candidate) of each reader
    restarts,   \* restarts so far
    validated,  \* history: blocks that validate() has returned for
    displaced,  \* history: blocks that one index holds and the other demoted
    overlapped, \* history: blocks whose state two threads updated at a time
    confirms,   \* history: calls of confirm() since the last commit
    lost        \* history: blocks that a restart has taken off an index

vars == <<count, saved, records, state, organizer, validator, reader, restarts,
          validated, displaced, overlapped, confirms, lost>>

States == [valid : BOOLEAN, confirmation : Indexes \cup {"missing"}]

Updates ==
    [step : {"idle", "state", "count", "link", "commit"}, name : Indexes, positive : BOOLEAN,
     commits : BOOLEAN, block : Blocks \cup {NoBlock}, height : Heights, original : States]

Reads ==
    [step : {"idle", "read", "done"}, name : Indexes, height : Heights,
     block : Blocks \cup {NoBlock}, seen : SUBSET Blocks, early : BOOLEAN]

NewState == [valid |-> FALSE, confirmation |-> "missing"]

NoUpdate == [step |-> "idle", name |-> "candidate", positive |-> FALSE, commits |-> FALSE,
             block |-> NoBlock, height |-> 0, original |-> NewState]

NoRead == [step |-> "idle", name |-> "candidate", height |-> 0, block |-> NoBlock,
           seen |-> {}, early |-> FALSE]

(* create() has pushed genesis: stored, promoted to both indexes, valid.   *)
Init ==
    /\ count = [i \in Indexes |-> 1]
    /\ saved = [i \in Indexes |-> 1]
    /\ records = [i \in Indexes |-> [h \in Heights |-> Genesis]]
    /\ state = [b \in Blocks |-> IF b = Genesis THEN [valid |-> TRUE, confirmation |-> "confirmed"]
                                 ELSE NewState]
    /\ organizer = NoUpdate
    /\ validator = NoUpdate
    /\ reader = [r \in Readers |-> NoRead]
    /\ restarts = 0
    /\ validated = {Genesis}
    /\ displaced = {}
    /\ overlapped = {}
    /\ confirms = 0
    /\ lost = {}

organizing == <<count, saved, records, organizer, displaced, confirms, lost>>
validating == <<validator, validated>>

Indexed(i) == {records[i][h] : h \in 0..(count[i] - 1)}

(* The record of a height is counted and not written yet.                  *)
Early(i, h) == organizer.step = "link" /\ organizer.name = i /\ organizer.height = h

(* The block at a height, if there is one: what a reader should see.       *)
BlockAt(i, h) == IF h < count[i] /\ ~Early(i, h) THEN {records[i][h]} ELSE {}

-----------------------------------------------------------------------------
(* promote(hash, height, candidate): the next height is the count, and the *)
(* state is read.  confirm() does not commit.  "May only confirm a valid   *)
(* block."                                                                 *)
Promote(i, b, commits) ==
    /\ organizer.step = "idle"
    /\ count[i] <= MaxHeight
    /\ b \notin Indexed(i)
    /\ i = "confirmed" => state[b].valid
    /\ i = "candidate" => commits
    /\ organizer' = [step |-> "state", name |-> i, positive |-> TRUE, commits |-> commits,
                     block |-> b, height |-> count[i], original |-> state[b]]
    /\ UNCHANGED <<count, saved, records, state, validating, reader, restarts, displaced,
                   overlapped, confirms, lost>>

(* demote(hash, height, candidate), of the top: the state is read.         *)
Demote(i) ==
    LET h == count[i] - 1
        b == records[i][h]
    IN  /\ organizer.step = "idle"
        /\ h > 0
        /\ organizer' = [step |-> "state", name |-> i, positive |-> FALSE, commits |-> TRUE,
                         block |-> b, height |-> h, original |-> state[b]]
        /\ UNCHANGED <<count, saved, records, state, validating, reader, restarts, displaced,
                       overlapped, confirms, lost>>

HeldElsewhere(b, name) == \E i \in Indexes \ {name} : b \in Indexed(i)

(* A write of a state whose other updater is between its read and its      *)
(* write.                                                                  *)
Overlap(other, b) ==
    overlapped' = IF other.step = "state" /\ other.block = b
                  THEN overlapped \cup {b} ELSE overlapped

(* Mutant: the validation bits are not preserved.                          *)
WriteConfirmationOnly ==
    LET b == organizer.block
    IN  /\ organizer.step = "state"
        /\ state' = [state EXCEPT ![b] = [valid |-> FALSE, confirmation |->
                         IF organizer.positive THEN organizer.name ELSE "missing"]]
        /\ organizer' = [organizer EXCEPT !.step = "count"]
        /\ displaced' = IF organizer.positive \/ ~HeldElsewhere(b, organizer.name)
                        THEN displaced \ {b} ELSE displaced \cup {b}
        /\ lost' = lost \ {b}
        /\ Overlap(validator, b)
        /\ UNCHANGED <<count, saved, records, validating, reader, restarts, confirms>>

(* promote(element, positive, candidate): update_confirmation_state of     *)
(* what was read is written.                                               *)
WriteConfirmation ==
    LET b == organizer.block
    IN  /\ organizer.step = "state"
        /\ state' = [state EXCEPT ![b] = [valid |-> organizer.original.valid, confirmation |->
                         IF organizer.positive THEN organizer.name ELSE "missing"]]
        /\ organizer' = [organizer EXCEPT !.step = "count"]
        /\ displaced' = IF organizer.positive \/ ~HeldElsewhere(b, organizer.name)
                        THEN displaced \ {b} ELSE displaced \cup {b}
        /\ lost' = lost \ {b}
        /\ Overlap(validator, b)
        /\ UNCHANGED <<count, saved, records, validating, reader, restarts, confirms>>

(* Mutant: the count becomes the height of the new top.                    *)
PopLinkTop ==
    /\ organizer.step = "count"
    /\ ~organizer.positive
    /\ count' = [count EXCEPT ![organizer.name] = organizer.height - 1]
    /\ organizer' = [organizer EXCEPT !.step = "commit"]
    /\ UNCHANGED <<saved, records, state, validating, reader, restarts, displaced, overlapped,
                   confirms, lost>>

(* pop_link: set_count.                                                    *)
PopLink ==
    /\ organizer.step = "count"
    /\ ~organizer.positive
    /\ count' = [count EXCEPT ![organizer.name] = organizer.height]
    /\ organizer' = [organizer EXCEPT !.step = "commit"]
    /\ UNCHANGED <<saved, records, state, validating, reader, restarts, displaced, overlapped,
                   confirms, lost>>

(* A reader has passed the count check of this height, and not read it.    *)
Reading(r, i, h) == reader[r].step = "read" /\ reader[r].name = i /\ reader[r].height = h

(* push_link: allocate.                                                    *)
Allocate ==
    LET i == organizer.name
        h == organizer.height
    IN  /\ organizer.step = "count"
        /\ organizer.positive
        /\ count' = [count EXCEPT ![i] = @ + 1]
        /\ organizer' = [organizer EXCEPT !.step = "link"]
        /\ reader' = [r \in Readers |->
                         IF Reading(r, i, h) THEN [reader[r] EXCEPT !.early = TRUE] ELSE reader[r]]
        /\ UNCHANGED <<saved, records, state, validating, restarts, displaced, overlapped,
                       confirms, lost>>

(* Mutant: a push is not committed.                                        *)
WriteLinkOnly ==
    LET i == organizer.name
        h == organizer.height
        b == organizer.block
    IN  /\ organizer.step = "link"
        /\ records' = [records EXCEPT ![i][h] = b]
        /\ organizer' = NoUpdate
        /\ confirms' = IF organizer.commits THEN confirms ELSE confirms + 1
        /\ reader' = [r \in Readers |->
                         IF Reading(r, i, h)
                         THEN [reader[r] EXCEPT !.seen = @ \cup {b}] ELSE reader[r]]
        /\ UNCHANGED <<count, saved, state, validating, restarts, displaced, overlapped, lost>>

(* push_link: the record is written.  This ends confirm().                 *)
WriteLink ==
    LET i == organizer.name
        h == organizer.height
        b == organizer.block
    IN  /\ organizer.step = "link"
        /\ records' = [records EXCEPT ![i][h] = b]
        /\ organizer' = IF organizer.commits THEN [organizer EXCEPT !.step = "commit"] ELSE NoUpdate
        /\ confirms' = IF organizer.commits THEN confirms ELSE confirms + 1
        /\ reader' = [r \in Readers |->
                         IF Reading(r, i, h)
                         THEN [reader[r] EXCEPT !.seen = @ \cup {b}] ELSE reader[r]]
        /\ UNCHANGED <<count, saved, state, validating, restarts, displaced, overlapped, lost>>

(* block_database::commit, of push, push_header, pop_header, push_block    *)
(* and pop_block: it commits both indexes.                                 *)
Commit ==
    /\ organizer.step = "commit"
    /\ saved' = count
    /\ confirms' = 0
    /\ organizer' = NoUpdate
    /\ UNCHANGED <<count, records, state, validating, reader, restarts, displaced, overlapped,
                   lost>>

-----------------------------------------------------------------------------
(* validate(hash, error), for a valid block: the state is read ...         *)
Validate(b) ==
    /\ validator.step = "idle"
    /\ b \in Indexed("candidate")
    /\ ~state[b].valid
    /\ validator' = [NoUpdate EXCEPT !.step = "state", !.block = b, !.original = state[b]]
    /\ UNCHANGED <<organizing, state, reader, restarts, validated, overlapped>>

(* ... and update_validation_state of what was read is written.            *)
WriteValidation ==
    LET b == validator.block
    IN  /\ validator.step = "state"
        /\ state' = [state EXCEPT ![b] = [valid |-> TRUE,
                                          confirmation |-> validator.original.confirmation]]
        /\ validator' = NoUpdate
        /\ validated' = validated \cup {b}
        /\ Overlap(organizer, b)
        /\ UNCHANGED <<organizing, reader, restarts>>

-----------------------------------------------------------------------------
(* Mutant: get(height, candidate) does not look at the count.              *)
CheckCountNever(r, i, h) ==
    /\ reader[r].step \in {"idle", "done"}
    /\ reader' = [reader EXCEPT ![r] = [step |-> "read", name |-> i, height |-> h,
                                        block |-> NoBlock, seen |-> BlockAt(i, h),
                                        early |-> Early(i, h)]]
    /\ UNCHANGED <<organizing, state, validating, restarts, overlapped>>

(* get(height, candidate), read_link: not_found if the height is not below *)
(* the count (a reader is then as it was).                                 *)
CheckCount(r, i, h) ==
    /\ reader[r].step \in {"idle", "done"}
    /\ h < count[i]
    /\ reader' = [reader EXCEPT ![r] = [step |-> "read", name |-> i, height |-> h,
                                        block |-> NoBlock, seen |-> BlockAt(i, h),
                                        early |-> Early(i, h)]]
    /\ UNCHANGED <<organizing, state, validating, restarts, overlapped>>

(* read_link: the record is read, without a lock.                          *)
ReadRecord(r) ==
    /\ reader[r].step = "read"
    /\ reader' = [reader EXCEPT ![r].step = "done",
                                ![r].block = records[reader[r].name][reader[r].height]]
    /\ UNCHANGED <<organizing, state, validating, restarts, overlapped>>

-----------------------------------------------------------------------------
(* close() and open(): start() reads the counts from the files.            *)
Restart ==
    /\ restarts < MaxRestarts
    /\ organizer.step = "idle" /\ validator.step = "idle"
    /\ count' = saved
    /\ restarts' = restarts + 1
    /\ confirms' = 0
    /\ lost' = lost \cup UNION {{records[i][h] : h \in saved[i]..(count[i] - 1)} : i \in Indexes}
    /\ reader' = [r \in Readers |-> NoRead]
    /\ UNCHANGED <<saved, records, state, organizer, validating, displaced, overlapped>>

Next ==
    \/ \E i \in Indexes :
          \/ \E b \in Blocks, commits \in BOOLEAN : Promote(i, b, commits)
          \/ Demote(i)
    \/ \E b \in Blocks : Validate(b)
    \/ WriteConfirmation
    \/ PopLink
    \/ Allocate
    \/ WriteLink
    \/ Commit
    \/ WriteValidation
    \/ \E r \in Readers :
          \/ \E i \in Indexes, h \in Heights : CheckCount(r, i, h)
          \/ ReadRecord(r)
    \/ Restart

Spec == Init /\ [][Next]_vars

-----------------------------------------------------------------------------
TypeOK ==
    /\ count \in [Indexes -> 1..(MaxHeight + 1)]
    /\ saved \in [Indexes -> 1..(MaxHeight + 1)]
    /\ records \in [Indexes -> [Heights -> Blocks]]
    /\ state \in [Blocks -> States]
    /\ organizer \in Updates
    /\ validator \in Updates
    /\ reader \in [Readers -> Reads]
    /\ restarts \in 0..MaxRestarts
    /\ validated \subseteq Blocks
    /\ displaced \subseteq Blocks
    /\ overlapped \subseteq Blocks
    /\ confirms \in Nat
    /\ lost \subseteq Blocks

(* A get(height) that finds a block finds one that was at that height of   *)
(* that index during the call, whatever was pushed and popped meanwhile,   *)
(* and never what a pop has left behind (block_database.cpp, read_link,    *)
(* pop_link and push_link), unless the height was pushed meanwhile:        *)
(* push_link counts the record before it writes it.                        *)
ReadsCurrent ==
    \A r \in Readers :
        reader[r].step = "done" /\ ~reader[r].early => reader[r].block \in reader[r].seen

(* No update of a state is lost that did not overlap with another: a block *)
(* is valid if it was validated, its state names no index that does not    *)
(* hold it, and it is missing only if neither index holds it or the other  *)
(* index has demoted it since (block_database.cpp, update_validation_state *)
(* and update_confirmation_state, "Preserve the confirmation state",       *)
(* "Deconfirmation is always directly to the pooled state").  After a      *)
(* restart, a block may be confirmed that the index has lost.              *)
UpdatesMerge ==
    organizer.step = "idle" =>
        \A b \in Blocks \ overlapped :
            LET confirmation == state[b].confirmation
                held == {i \in Indexes : b \in Indexed(i)}
            IN  /\ state[b].valid <=> b \in validated
                /\ b \notin lost =>
                      /\ confirmation = "missing" <=> held = {} \/ b \in displaced
                      /\ confirmation # "missing" => confirmation \in held

(* A restart finds both indexes as they were, but for the blocks that      *)
(* confirm() has pushed since the last commit (data_base.cpp, confirm;     *)
(* push_block and pop_block, blocks_->commit()).                           *)
OnlyConfirmsLost ==
    [][restarts' # restarts =>
          count' = [count EXCEPT !["confirmed"] = @ - confirms]]_vars
=============================================================================
