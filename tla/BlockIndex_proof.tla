--------------------------- MODULE BlockIndex_proof ---------------------------
(***************************************************************************)
(* Proofs about BlockIndex: for any number of blocks and readers and any   *)
(* height, reads by height, updates of block states and restarts are as    *)
(* the invariants say.                                                     *)
(***************************************************************************)
EXTENDS BlockIndex, TLAPS

(* The records that are counted and written: push_link counts its record   *)
(* before it writes it.                                                    *)
Written(i) == IF organizer.step = "link" /\ organizer.name = i THEN count[i] - 1 ELSE count[i]

WrittenBlocks(i) == {records[i][h] : h \in 0..(Written(i) - 1)}

(* What promote() and demote() know of their index stays so until they     *)
(* have changed it.                                                        *)
OrganizerInv ==
    LET o == organizer
        i == organizer.name
    IN  /\ o.step # "idle" => o.block \in Blocks
        /\ o.step \in {"state", "count"} /\ o.positive =>
              o.height = count[i] /\ o.block \notin WrittenBlocks(i)
        /\ o.step \in {"state", "count"} /\ ~o.positive =>
              count[i] > 1 /\ o.height = count[i] - 1 /\ o.block = records[i][count[i] - 1]
        /\ o.step = "link" =>
              /\ o.positive /\ count[i] > 1 /\ o.height = count[i] - 1
              /\ o.block \notin WrittenBlocks(i)
        /\ o.step \in {"state", "count"} /\ ~o.positive => o.commits
        /\ o.step # "idle" /\ ~o.commits => i = "confirmed"

(* No block is in an index twice.                                          *)
DistinctInv ==
    \A i \in Indexes : \A g, h \in 0..(Written(i) - 1) : records[i][g] = records[i][h] => g = h

(* Until a commit is due, the files lack what confirm() has pushed.        *)
SavedInv ==
    organizer.step # "commit" =>
        /\ saved["candidate"] = Written("candidate")
        /\ saved["confirmed"] + confirms = Written("confirmed")

(* What an update has read is still the state when it writes, unless the   *)
(* two have overlapped.                                                    *)
ReadInv ==
    /\ validator.step \in {"idle", "state"}
    /\ \A update \in {organizer, validator} :
          update.step = "state" =>
              /\ update.block \in Blocks
              /\ update.block \notin overlapped => update.original = state[update.block]

(* The state of a block tells which indexes hold it.                       *)
Told(b) ==
    /\ state[b].confirmation = "missing" <=>
          b \in displaced \/ \A i \in Indexes : b \notin WrittenBlocks(i)
    /\ \A i \in Indexes : state[b].confirmation = i => b \in WrittenBlocks(i)

(* That of the block being organized runs ahead of its index.              *)
ToldAhead(b) ==
    IF organizer.positive
    THEN state[b].confirmation = organizer.name /\ b \notin displaced
    ELSE /\ state[b].confirmation = "missing"
         /\ \A i \in Indexes \ {organizer.name} : b \in WrittenBlocks(i) => b \in displaced

(* The state of a block whose updates have not overlapped.                 *)
StateInv ==
    \A b \in Blocks \ overlapped :
        /\ state[b].valid <=> b \in validated
        /\ IF organizer.step \in {"count", "link"} /\ b = organizer.block
           THEN ToldAhead(b)
           ELSE b \notin lost => Told(b)

(* The record a reader is about to read is one it may return.              *)
ReaderInv ==
    \A r \in Readers :
        reader[r].step = "read" /\ ~reader[r].early =>
            records[reader[r].name][reader[r].height] \in reader[r].seen

Inv ==
    /\ TypeOK
    /\ OrganizerInv
    /\ DistinctInv
    /\ SavedInv
    /\ ReadInv
    /\ StateInv
    /\ ReaderInv
    /\ ReadsCurrent

(* The fields of an update, and an update that has gone on a step.         *)
LEMMA UpdateType ==
    ASSUME NEW u \in Updates, NEW step \in {"idle", "state", "count", "link", "commit"}
    PROVE  /\ u.step \in {"idle", "state", "count", "link", "commit"}
           /\ u.name \in Indexes /\ u.positive \in BOOLEAN /\ u.commits \in BOOLEAN
           /\ u.block \in Blocks \cup {NoBlock} /\ u.height \in Heights
           /\ u.original \in States
           /\ [u EXCEPT !.step = step] \in Updates
BY DEF Updates

(* The update that validate() begins.                                      *)
LEMMA ValidateType ==
    ASSUME NEW b \in Blocks, NEW original \in States
    PROVE  [NoUpdate EXCEPT !.step = "state", !.block = b, !.original = original] \in Updates
<1>1. 0 \in Heights
  BY BlockIndexAssumption DEF Heights
<1> QED
  BY <1>1 DEF NoUpdate, Updates, Indexes

(* No update is in progress.                                               *)
LEMMA NoUpdateType == NoUpdate \in Updates
BY BlockIndexAssumption DEF NoUpdate, Updates, NewState, States, Heights, Indexes

(* The fields of a read.                                                   *)
LEMMA ReadType ==
    ASSUME NEW r \in Reads
    PROVE  /\ r.step \in {"idle", "read", "done"} /\ r.name \in Indexes /\ r.height \in Heights
           /\ r.block \in Blocks \cup {NoBlock} /\ r.seen \subseteq Blocks /\ r.early \in BOOLEAN
BY DEF Reads

(* The block that promote() and demote() read of is one of an index, and   *)
(* outside push_link all that is counted is written.                       *)
LEMMA IndexedWritten ==
    ASSUME TypeOK, NEW i \in Indexes, organizer.step # "link" \/ organizer.name # i
    PROVE  Indexed(i) = WrittenBlocks(i) /\ Written(i) = count[i]
BY DEF Indexed, WrittenBlocks, Written, TypeOK

(* What is written, if nothing of it changes.                              *)
LEMMA SameWritten ==
    ASSUME NEW i \in Indexes, UNCHANGED <<count, records>>,
           (organizer.step = "link") <=> (organizer'.step = "link"),
           organizer.step = "link" => organizer'.name = organizer.name
    PROVE  Written(i)' = Written(i) /\ WrittenBlocks(i)' = WrittenBlocks(i)
<1>1. Written(i)' = Written(i)
  BY DEF Written
<1> QED
  BY <1>1 DEF WrittenBlocks

(* What the steps of a get(height) and of a push make of a read.           *)
LEMMA ReadSteps ==
    ASSUME NEW r \in Reads, NEW b \in Blocks
    PROVE  /\ [r EXCEPT !.early = TRUE] \in Reads
           /\ [r EXCEPT !.seen = @ \cup {b}] \in Reads
           /\ [r EXCEPT !.step = "done", !.block = b] \in Reads
BY DEF Reads

(* The heights of an index are its top and those below.                    *)
LEMMA TopHeight ==
    ASSUME TypeOK, NEW i \in Indexes
    PROVE  0..(count[i] - 1) = 0..(count[i] - 2) \cup {count[i] - 1}
<1>1. count[i] \in Nat /\ count[i] > 0
  BY BlockIndexAssumption DEF TypeOK
<1> QED
  BY <1>1

(* The invariant of an organizer whose index does not change.              *)
LEMMA SameOrganizer ==
    ASSUME OrganizerInv, UNCHANGED <<organizer, count, records>>
    PROVE  OrganizerInv'
BY DEF OrganizerInv, WrittenBlocks, Written

(* Genesis is all of both indexes.                                         *)
LEMMA InitInv == Init => Inv
<1> SUFFICES ASSUME Init PROVE Inv
  OBVIOUS
<1> USE BlockIndexAssumption DEF Init, NoUpdate, NoRead, NewState
<1>1. TypeOK
  BY DEF TypeOK, Updates, States, Reads, Heights, Indexes
<1>w. \A i \in Indexes : Written(i) = 1 /\ WrittenBlocks(i) = {Genesis}
  <2> SUFFICES ASSUME NEW i \in Indexes PROVE Written(i) = 1 /\ WrittenBlocks(i) = {Genesis}
    OBVIOUS
  <2>1. Written(i) = 1
    BY DEF Written
  <2>2. 0 \in Heights /\ 0..0 = {0}
    BY DEF Heights
  <2>3. records[i][0] = Genesis
    BY <2>2
  <2> QED
    BY <2>1, <2>2, <2>3 DEF WrittenBlocks
<1>2. OrganizerInv /\ DistinctInv /\ SavedInv
  <2>1. OrganizerInv
    BY DEF OrganizerInv
  <2>2. DistinctInv
    BY <1>w DEF DistinctInv
  <2>3. SavedInv
    BY <1>w DEF SavedInv, Indexes
  <2> QED
    BY <2>1, <2>2, <2>3
<1>3. ReadInv /\ ReaderInv /\ ReadsCurrent
  BY DEF ReadInv, ReaderInv, ReadsCurrent
<1>4. StateInv
  <2> SUFFICES ASSUME NEW b \in Blocks
               PROVE  (state[b].valid <=> b \in validated) /\ Told(b)
    BY DEF StateInv
  <2>1. CASE b = Genesis
    BY <1>w, <2>1 DEF Told, Indexes
  <2>2. CASE b # Genesis
    BY <1>w, <2>2 DEF Told, Indexes
  <2> QED
    BY <2>1, <2>2
<1> QED
  BY <1>1, <1>2, <1>3, <1>4 DEF Inv

(* The next height is the count, and the block is new to the index.        *)
LEMMA PromoteInv ==
    ASSUME Inv, NEW i \in Indexes, NEW b \in Blocks, NEW commits \in BOOLEAN,
           Promote(i, b, commits)
    PROVE  Inv'
<1> USE BlockIndexAssumption DEF Inv, TypeOK, Promote, organizing, validating
<1>a. organizer.step = "idle" /\ organizer'.step = "state" /\ organizer'.name = i
  OBVIOUS
<1>w. \A j \in Indexes : Written(j)' = Written(j) /\ WrittenBlocks(j)' = WrittenBlocks(j)
  BY <1>a, SameWritten
<1>n. b \notin WrittenBlocks(i)
  BY <1>a, IndexedWritten
<1>1. TypeOK'
  <2>1. count[i] \in Heights /\ state[b] \in States
    BY DEF Heights
  <2>2. organizer' \in Updates
    BY <2>1 DEF Updates
  <2> QED
    BY <2>2
<1>2. OrganizerInv'
  BY <1>w, <1>n DEF OrganizerInv, Indexes
<1>3. DistinctInv'
  BY <1>w DEF DistinctInv
<1>4. SavedInv'
  BY <1>a, <1>w DEF SavedInv, Indexes
<1>5. ReadInv'
  BY DEF ReadInv
<1>6. StateInv'
  BY <1>a, <1>w DEF StateInv, Told
<1>7. ReaderInv'
  BY DEF ReaderInv
<1>8. ReadsCurrent'
  BY DEF ReadsCurrent, ReaderInv
<1> QED
  BY <1>1, <1>2, <1>3, <1>4, <1>5, <1>6, <1>7, <1>8

(* The top of the index is to go.                                          *)
LEMMA DemoteInv ==
    ASSUME Inv, NEW i \in Indexes, Demote(i)
    PROVE  Inv'
<1> USE BlockIndexAssumption DEF Inv, TypeOK, Demote, organizing, validating
<1>a. organizer.step = "idle" /\ organizer'.step = "state" /\ organizer'.name = i
  OBVIOUS
<1>w. \A j \in Indexes : Written(j)' = Written(j) /\ WrittenBlocks(j)' = WrittenBlocks(j)
  BY <1>a, SameWritten
<1>b. count[i] - 1 \in Heights /\ records[i][count[i] - 1] \in Blocks
  BY DEF Heights
<1>1. TypeOK'
  <2>1. organizer' \in Updates
    BY <1>b DEF Updates
  <2> QED
    BY <2>1
<1>2. OrganizerInv'
  BY <1>b DEF OrganizerInv
<1>3. DistinctInv'
  BY <1>w DEF DistinctInv
<1>4. SavedInv'
  BY <1>a, <1>w DEF SavedInv, Indexes
<1>5. ReadInv'
  BY <1>b DEF ReadInv
<1>6. StateInv'
  BY <1>a, <1>w DEF StateInv, Told
<1>7. ReaderInv'
  BY DEF ReaderInv
<1>8. ReadsCurrent'
  BY DEF ReadsCurrent, ReaderInv
<1> QED
  BY <1>1, <1>2, <1>3, <1>4, <1>5, <1>6, <1>7, <1>8

(* The state is written from what was read.                                *)
LEMMA WriteConfirmationInv ==
    ASSUME Inv, WriteConfirmation
    PROVE  Inv'
<1> USE BlockIndexAssumption DEF Inv, TypeOK, WriteConfirmation, Overlap, organizing, validating
<1>a. /\ organizer.block \in Blocks /\ organizer.name \in Indexes
      /\ organizer' \in Updates /\ organizer'.step = "count"
      /\ organizer'.name = organizer.name /\ organizer'.block = organizer.block
      /\ organizer'.positive = organizer.positive /\ organizer'.height = organizer.height
      /\ organizer'.commits = organizer.commits
  BY UpdateType DEF ReadInv, Updates
<1>w. \A j \in Indexes : Written(j)' = Written(j) /\ WrittenBlocks(j)' = WrittenBlocks(j)
  BY <1>a, SameWritten
<1>h. HeldElsewhere(organizer.block, organizer.name) <=>
          \E i \in Indexes \ {organizer.name} : organizer.block \in WrittenBlocks(i)
  BY IndexedWritten DEF HeldElsewhere
<1>1. TypeOK'
  <2>1. organizer.original.valid \in BOOLEAN /\ organizer.positive \in BOOLEAN
    BY UpdateType DEF States
  <2>2. state' \in [Blocks -> States]
    BY <1>a, <2>1 DEF States
  <2>3. overlapped' \subseteq Blocks /\ displaced' \subseteq Blocks /\ lost' \subseteq Blocks
    BY <1>a
  <2> QED
    BY <1>a, <2>2, <2>3
<1>2. OrganizerInv'
  BY <1>a, <1>w DEF OrganizerInv
<1>3. DistinctInv'
  BY <1>w DEF DistinctInv
<1>4. SavedInv'
  BY <1>a, <1>w DEF SavedInv, Indexes
<1>5. ReadInv'
  BY <1>a DEF ReadInv
<1>6. StateInv'
  <2> SUFFICES ASSUME NEW b \in Blocks, b \notin overlapped'
               PROVE  /\ state'[b].valid <=> b \in validated
                      /\ IF b = organizer.block THEN ToldAhead(b)'
                         ELSE b \notin lost => Told(b)'
    BY <1>a DEF StateInv
  <2>1. b \notin overlapped
    OBVIOUS
  <2>2. CASE b = organizer.block
    <3>1. organizer.original = state[b]
      BY <2>1, <2>2 DEF ReadInv
    <3>2. state'[b].valid <=> b \in validated
      BY <2>1, <2>2, <3>1 DEF StateInv
    <3>3. ToldAhead(b)'
      BY <1>a, <1>w, <1>h, <2>2 DEF ToldAhead
    <3> QED
      BY <2>2, <3>2, <3>3
  <2>3. CASE b # organizer.block
    <3>1. state'[b] = state[b] /\ (b \in displaced' <=> b \in displaced)
      BY <1>a, <2>3
    <3> QED
      BY <1>a, <1>w, <2>1, <2>3, <3>1 DEF StateInv, Told
  <2> QED
    BY <2>2, <2>3
<1>7. ReaderInv'
  BY DEF ReaderInv
<1>8. ReadsCurrent'
  BY DEF ReadsCurrent, ReaderInv
<1> QED
  BY <1>1, <1>2, <1>3, <1>4, <1>5, <1>6, <1>7, <1>8

(* The top is off the index, and so it is in no other place of it.         *)
LEMMA PopLinkInv ==
    ASSUME Inv, PopLink
    PROVE  Inv'
<1> USE BlockIndexAssumption DEF Inv, TypeOK, PopLink, organizing, validating
<1> PICK i \in Indexes : i = organizer.name
  BY UpdateType
<1>a. /\ organizer.block \in Blocks /\ organizer.commits
      /\ count[i] > 1 /\ organizer.height = count[i] - 1
      /\ organizer.block = records[i][count[i] - 1]
      /\ organizer' \in Updates /\ organizer'.step = "commit"
      /\ organizer'.name = i /\ organizer'.block = organizer.block
      /\ organizer'.commits = organizer.commits
  BY UpdateType DEF OrganizerInv, Updates
<1>b. count'[i] = count[i] - 1 /\ \A j \in Indexes \ {i} : count'[j] = count[j]
  BY <1>a
<1>c. /\ \A j \in Indexes : Written(j) = count[j] /\ Written(j)' = count'[j]
      /\ \A j \in Indexes \ {i} : WrittenBlocks(j)' = WrittenBlocks(j)
  BY <1>a, <1>b DEF Written, WrittenBlocks
<1>w. WrittenBlocks(i)' = WrittenBlocks(i) \ {organizer.block}
  <2>1. WrittenBlocks(i) = {records[i][h] : h \in 0..(count[i] - 1)}
    BY <1>c DEF WrittenBlocks
  <2>2. WrittenBlocks(i)' = {records[i][h] : h \in 0..(count[i] - 2)}
    BY <1>b, <1>c DEF WrittenBlocks
  <2>3. \A h \in 0..(count[i] - 2) : records[i][h] # records[i][count[i] - 1]
    <3>1. \A g, h \in 0..(count[i] - 1) : records[i][g] = records[i][h] => g = h
      BY <1>c DEF DistinctInv
    <3>2. count[i] - 1 \in 0..(count[i] - 1)
      BY <1>a
    <3>3. \A h \in 0..(count[i] - 2) : h \in 0..(count[i] - 1) /\ h # count[i] - 1
      BY <1>a
    <3> QED
      BY <3>1, <3>2, <3>3
  <2>4. 0..(count[i] - 1) = 0..(count[i] - 2) \cup {count[i] - 1}
    BY TopHeight
  <2>5. WrittenBlocks(i) = WrittenBlocks(i)' \cup {organizer.block}
    <3>1. organizer.block = records[i][count[i] - 1]
      BY <1>a
    <3> QED
      BY <2>1, <2>2, <2>4, <3>1
  <2>6. organizer.block \notin WrittenBlocks(i)'
    BY <1>a, <2>2, <2>3
  <2> QED
    BY <2>5, <2>6
<1>1. TypeOK'
  <2>1. count' \in [Indexes -> 1..(MaxHeight + 1)]
    BY <1>a
  <2> QED
    BY <1>a, <2>1
<1>2. OrganizerInv'
  BY <1>a DEF OrganizerInv
<1>3. DistinctInv'
  BY <1>b, <1>c DEF DistinctInv
<1>4. SavedInv'
  BY <1>a DEF SavedInv
<1>5. ReadInv'
  BY <1>a DEF ReadInv
<1>6. StateInv'
  <2> SUFFICES ASSUME NEW b \in Blocks, b \notin overlapped
               PROVE  /\ state[b].valid <=> b \in validated
                      /\ b \notin lost => Told(b)'
    BY <1>a DEF StateInv
  <2>1. CASE b = organizer.block
    <3>1. ToldAhead(b) /\ (state[b].valid <=> b \in validated)
      BY <2>1 DEF StateInv
    <3>2. state[b].confirmation = "missing"
      BY <3>1 DEF ToldAhead
    <3>3. b \in displaced \/ \A j \in Indexes : b \notin WrittenBlocks(j)'
      <4> SUFFICES ASSUME b \notin displaced, NEW j \in Indexes PROVE b \notin WrittenBlocks(j)'
        OBVIOUS
      <4>1. CASE j = i
        BY <1>w, <2>1, <4>1
      <4>2. CASE j # i
        BY <1>c, <3>1, <4>2 DEF ToldAhead
      <4> QED
        BY <4>1, <4>2
    <3> QED
      BY <3>1, <3>2, <3>3 DEF Told, Indexes
  <2>2. CASE b # organizer.block
    <3>1. \A j \in Indexes : b \in WrittenBlocks(j)' <=> b \in WrittenBlocks(j)
      BY <1>c, <1>w, <2>2
    <3> QED
      BY <2>2, <3>1 DEF StateInv, Told
  <2> QED
    BY <2>1, <2>2
<1>7. ReaderInv'
  BY DEF ReaderInv
<1>8. ReadsCurrent'
  BY DEF ReadsCurrent, ReaderInv
<1> QED
  BY <1>1, <1>2, <1>3, <1>4, <1>5, <1>6, <1>7, <1>8

(* The record is counted, and readers of its height are warned.            *)
LEMMA AllocateInv ==
    ASSUME Inv, Allocate
    PROVE  Inv'
<1> USE BlockIndexAssumption DEF Inv, TypeOK, Allocate, Reading, organizing, validating
<1> PICK i \in Indexes : i = organizer.name
  BY UpdateType
<1>a. /\ organizer.block \in Blocks /\ organizer.height \in Heights /\ organizer.height = count[i]
      /\ organizer.block \notin WrittenBlocks(i)
      /\ organizer' \in Updates /\ organizer'.step = "link" /\ organizer'.positive
      /\ organizer'.name = i /\ organizer'.block = organizer.block
      /\ organizer'.height = organizer.height /\ organizer'.commits = organizer.commits
  BY UpdateType DEF OrganizerInv, Updates
<1>b. count'[i] = count[i] + 1 /\ \A j \in Indexes \ {i} : count'[j] = count[j]
  BY <1>a
<1>c. \A j \in Indexes : Written(j)' = Written(j)
  BY <1>a, <1>b DEF Written
<1>w. \A j \in Indexes : WrittenBlocks(j)' = WrittenBlocks(j)
  BY <1>c DEF WrittenBlocks
<1>1. TypeOK'
  <2>1. count' \in [Indexes -> 1..(MaxHeight + 1)]
    BY <1>a DEF Heights
  <2>2. reader' \in [Readers -> Reads]
    BY <1>a, ReadSteps
  <2> QED
    BY <1>a, <2>1, <2>2
<1>2. OrganizerInv'
  BY <1>a, <1>b, <1>w DEF OrganizerInv
<1>3. DistinctInv'
  BY <1>c DEF DistinctInv
<1>4. SavedInv'
  BY <1>c DEF SavedInv, Indexes
<1>5. ReadInv'
  BY <1>a DEF ReadInv
<1>6. StateInv'
  BY <1>a, <1>w DEF StateInv, Told, ToldAhead
<1>7. ReaderInv'
  BY DEF ReaderInv
<1>8. ReadsCurrent'
  BY DEF ReadsCurrent, ReaderInv
<1> QED
  BY <1>1, <1>2, <1>3, <1>4, <1>5, <1>6, <1>7, <1>8

(* The record is written.                                                  *)
LEMMA WriteLinkInv ==
    ASSUME Inv, WriteLink
    PROVE  Inv'
<1> USE BlockIndexAssumption DEF Inv, TypeOK, WriteLink, Reading, organizing, validating
<1> PICK i \in Indexes : i = organizer.name
  BY UpdateType
<1>a. /\ organizer.block \in Blocks /\ organizer.height \in Heights
      /\ organizer.positive /\ count[i] > 1 /\ organizer.height = count[i] - 1
      /\ organizer.block \notin WrittenBlocks(i)
      /\ organizer.commits \in BOOLEAN
  BY UpdateType DEF OrganizerInv
<1>o. /\ organizer' \in Updates
      /\ organizer'.step = IF organizer.commits THEN "commit" ELSE "idle"
      /\ organizer.commits => /\ organizer'.name = i /\ organizer'.block = organizer.block
                              /\ organizer'.commits
  <2>1. CASE organizer.commits
    BY <2>1, UpdateType DEF Updates
  <2>2. CASE ~organizer.commits
    BY <1>a, <2>2, NoUpdateType DEF NoUpdate
  <2> QED
    BY <1>a, <2>1, <2>2
<1>r. /\ records' \in [Indexes -> [Heights -> Blocks]]
      /\ records'[i][count[i] - 1] = organizer.block
      /\ \A h \in 0..(count[i] - 2) : h \in Heights /\ records'[i][h] = records[i][h]
      /\ \A j \in Indexes \ {i} : records'[j] = records[j]
  <2>1. records' = [records EXCEPT ![i][count[i] - 1] = organizer.block]
    BY <1>a
  <2>2. count[i] - 1 \in Heights /\ \A h \in 0..(count[i] - 2) : h \in Heights /\ h # count[i] - 1
    BY <1>a DEF Heights
  <2> QED
    BY <1>a, <2>1, <2>2
<1>b. /\ Written(i) = count[i] - 1 /\ Written(i)' = count[i]
      /\ \A j \in Indexes \ {i} : Written(j) = count[j] /\ Written(j)' = count[j]
  BY <1>a, <1>o DEF Written
<1>c. \A j \in Indexes \ {i} : WrittenBlocks(j)' = WrittenBlocks(j)
  BY <1>b, <1>r DEF WrittenBlocks
<1>w. WrittenBlocks(i)' = WrittenBlocks(i) \cup {organizer.block}
  <2>1. WrittenBlocks(i) = {records[i][h] : h \in 0..(count[i] - 2)}
    BY <1>b DEF WrittenBlocks
  <2>2. WrittenBlocks(i)' = {records'[i][h] : h \in 0..(count[i] - 1)}
    BY <1>b DEF WrittenBlocks
  <2>3. 0..(count[i] - 1) = 0..(count[i] - 2) \cup {count[i] - 1}
    BY TopHeight
  <2> QED
    BY <1>r, <2>1, <2>2, <2>3
<1>1. TypeOK'
  <2>1. confirms' \in Nat
    BY <1>a
  <2>2. reader' \in [Readers -> Reads]
    BY <1>a, ReadSteps
  <2> QED
    BY <1>o, <1>r, <2>1, <2>2
<1>2. OrganizerInv'
  BY <1>a, <1>o DEF OrganizerInv
<1>3. DistinctInv'
  <2> SUFFICES ASSUME NEW j \in Indexes, NEW g \in 0..(Written(j)' - 1),
                      NEW h \in 0..(Written(j)' - 1), records'[j][g] = records'[j][h]
               PROVE  g = h
    BY DEF DistinctInv
  <2>1. CASE j # i
    BY <1>b, <1>r, <2>1 DEF DistinctInv
  <2>2. CASE j = i
    <3>1. \A x \in 0..(count[i] - 2) : records[i][x] # organizer.block
      BY <1>a, <1>b DEF WrittenBlocks
    <3>2. \A x, y \in 0..(count[i] - 2) : records[i][x] = records[i][y] => x = y
      BY <1>b DEF DistinctInv
    <3>3. g \in 0..(count[i] - 1) /\ h \in 0..(count[i] - 1)
      BY <1>b, <2>2
    <3>4. /\ g \in 0..(count[i] - 2) \/ g = count[i] - 1
          /\ h \in 0..(count[i] - 2) \/ h = count[i] - 1
      BY <3>3, TopHeight
    <3> QED
      BY <1>r, <2>2, <3>1, <3>2, <3>4
  <2> QED
    BY <2>1, <2>2
<1>4. SavedInv'
  <2>1. CASE organizer.commits
    BY <1>o, <2>1 DEF SavedInv
  <2>2. CASE ~organizer.commits
    <3>1. i = "confirmed" /\ confirms' = confirms + 1
      BY <2>2 DEF OrganizerInv
    <3>2. /\ saved["candidate"] = Written("candidate")
          /\ saved["confirmed"] + confirms = Written("confirmed")
      BY DEF SavedInv
    <3>3. saved' = saved /\ saved["confirmed"] \in Nat /\ confirms \in Nat
      BY DEF Indexes
    <3>4. count[i] \in Nat /\ "candidate" \in Indexes \ {i}
      BY <3>1 DEF Indexes
    <3> HIDE DEF Inv, TypeOK, WriteLink
    <3>5. /\ Written("candidate")' = Written("candidate")
          /\ Written("confirmed")' = Written("confirmed") + 1
      BY <1>b, <3>1, <3>4
    <3>6. saved["confirmed"]' + confirms' = Written("confirmed")'
      BY <3>1, <3>2, <3>3, <3>5
    <3> QED
      BY <3>2, <3>3, <3>5, <3>6 DEF SavedInv
  <2> QED
    BY <2>1, <2>2
<1>5. ReadInv'
  BY <1>o DEF ReadInv
<1>6. StateInv'
  <2> SUFFICES ASSUME NEW b \in Blocks, b \notin overlapped
               PROVE  /\ state[b].valid <=> b \in validated
                      /\ b \notin lost => Told(b)'
    BY <1>a, <1>o DEF StateInv
  <2>1. CASE b = organizer.block
    <3>1. ToldAhead(b) /\ (state[b].valid <=> b \in validated)
      BY <2>1 DEF StateInv
    <3>2. state[b].confirmation = i /\ b \notin displaced /\ b \in WrittenBlocks(i)'
      BY <1>a, <1>w, <2>1, <3>1 DEF ToldAhead
    <3>3. state' = state /\ displaced' = displaced /\ i # "missing"
      BY DEF Indexes
    <3>4. Told(b)'
      BY <3>2, <3>3 DEF Told
    <3> QED
      BY <3>1, <3>4
  <2>2. CASE b # organizer.block
    <3>1. \A j \in Indexes : b \in WrittenBlocks(j)' <=> b \in WrittenBlocks(j)
      BY <1>c, <1>w, <2>2
    <3> QED
      BY <2>2, <3>1 DEF StateInv, Told
  <2> QED
    BY <2>1, <2>2
<1>7. ReaderInv'
  <2> SUFFICES ASSUME NEW r \in Readers, reader'[r].step = "read", ~reader'[r].early
               PROVE  records'[reader'[r].name][reader'[r].height] \in reader'[r].seen
    BY DEF ReaderInv
  <2>1. reader[r].name \in Indexes /\ reader[r].height \in Heights
    BY ReadType
  <2>2. CASE reader[r].step = "read" /\ reader[r].name = i /\ reader[r].height = organizer.height
    <3>1. reader'[r].seen = reader[r].seen \cup {organizer.block}
          /\ reader'[r].name = i /\ reader'[r].height = organizer.height
      BY <2>2 DEF Reads
    <3> QED
      BY <1>a, <1>r, <3>1
  <2>3. CASE ~(reader[r].step = "read" /\ reader[r].name = i /\ reader[r].height = organizer.height)
    <3>1. reader'[r] = reader[r]
      BY <2>3
    <3>2. records'[reader[r].name][reader[r].height] = records[reader[r].name][reader[r].height]
      BY <1>a, <2>1, <2>3, <3>1
    <3> QED
      BY <3>1, <3>2 DEF ReaderInv
  <2> QED
    BY <2>2, <2>3
<1>8. ReadsCurrent'
  BY DEF ReadsCurrent, ReaderInv
<1> QED
  BY <1>1, <1>2, <1>3, <1>4, <1>5, <1>6, <1>7, <1>8

(* The counts are in the files.                                            *)
LEMMA CommitInv ==
    ASSUME Inv, Commit
    PROVE  Inv'
<1> USE BlockIndexAssumption DEF Inv, TypeOK, Commit, organizing, validating
<1>a. organizer' \in Updates /\ organizer'.step = "idle"
  BY NoUpdateType DEF NoUpdate
<1>w. \A i \in Indexes : Written(i)' = Written(i) /\ WrittenBlocks(i)' = WrittenBlocks(i)
  BY SameWritten, <1>a
<1>1. TypeOK'
  BY <1>a
<1>2. OrganizerInv'
  BY <1>a DEF OrganizerInv
<1>3. DistinctInv'
  BY <1>w DEF DistinctInv
<1>4. SavedInv'
  BY <1>a DEF SavedInv, Written, Indexes
<1>5. ReadInv'
  BY <1>a DEF ReadInv
<1>6. StateInv'
  BY <1>a, <1>w DEF StateInv, Told
<1>7. ReaderInv'
  BY DEF ReaderInv
<1>8. ReadsCurrent'
  BY DEF ReadsCurrent, ReaderInv
<1> QED
  BY <1>1, <1>2, <1>3, <1>4, <1>5, <1>6, <1>7, <1>8

(* validate() reads the state.                                             *)
LEMMA ValidateInv ==
    ASSUME Inv, NEW b \in Blocks, Validate(b)
    PROVE  Inv'
<1> USE BlockIndexAssumption DEF Inv, TypeOK, Validate, organizing, validating
<1>w. \A i \in Indexes : Written(i)' = Written(i) /\ WrittenBlocks(i)' = WrittenBlocks(i)
  BY SameWritten
<1>1. TypeOK'
  <2>1. validator' \in Updates
    BY ValidateType
  <2> QED
    BY <2>1
<1>2. OrganizerInv'
  BY SameOrganizer
<1>3. DistinctInv'
  BY <1>w DEF DistinctInv
<1>4. SavedInv'
  BY <1>w DEF SavedInv, Indexes
<1>5. ReadInv'
  BY DEF ReadInv, NoUpdate
<1>6. StateInv'
  BY <1>w DEF StateInv, Told, ToldAhead
<1>7. ReaderInv'
  BY DEF ReaderInv
<1>8. ReadsCurrent'
  BY DEF ReadsCurrent, ReaderInv
<1> QED
  BY <1>1, <1>2, <1>3, <1>4, <1>5, <1>6, <1>7, <1>8

(* validate() writes the state.                                            *)
LEMMA WriteValidationInv ==
    ASSUME Inv, WriteValidation
    PROVE  Inv'
<1> USE BlockIndexAssumption DEF Inv, TypeOK, WriteValidation, Overlap, organizing, validating
<1>a. validator.block \in Blocks /\ validator' \in Updates /\ validator'.step = "idle"
  BY NoUpdateType DEF ReadInv, NoUpdate
<1>w. \A i \in Indexes : Written(i)' = Written(i) /\ WrittenBlocks(i)' = WrittenBlocks(i)
  BY SameWritten
<1>1. TypeOK'
  <2>1. validator.original.confirmation \in Indexes \cup {"missing"}
    BY UpdateType DEF States
  <2>2. state' \in [Blocks -> States]
    BY <2>1 DEF States
  <2>3. overlapped' \subseteq Blocks /\ validated' \subseteq Blocks
    BY <1>a
  <2> QED
    BY <1>a, <2>2, <2>3
<1>2. OrganizerInv'
  BY SameOrganizer
<1>3. DistinctInv'
  BY <1>w DEF DistinctInv
<1>4. SavedInv'
  BY <1>w DEF SavedInv, Indexes
<1>5. ReadInv'
  BY <1>a DEF ReadInv
<1>6. StateInv'
  <2> SUFFICES ASSUME NEW b \in Blocks, b \notin overlapped'
               PROVE  /\ state'[b].valid <=> b \in validated'
                      /\ IF organizer.step \in {"count", "link"} /\ b = organizer.block
                         THEN ToldAhead(b)' ELSE b \notin lost => Told(b)'
    BY DEF StateInv
  <2>1. b \notin overlapped
    OBVIOUS
  <2>2. state'[b].confirmation = state[b].confirmation /\ (state'[b].valid <=> b \in validated')
    <3>1. CASE b = validator.block
      <4>1. validator.original = state[b]
        BY <2>1, <3>1 DEF ReadInv
      <4> QED
        BY <1>a, <3>1, <4>1
    <3>2. CASE b # validator.block
      BY <1>a, <2>1, <3>2 DEF StateInv
    <3> QED
      BY <3>1, <3>2
  <2> QED
    BY <1>w, <2>1, <2>2 DEF StateInv, Told, ToldAhead
<1>7. ReaderInv'
  BY DEF ReaderInv
<1>8. ReadsCurrent'
  BY DEF ReadsCurrent, ReaderInv
<1> QED
  BY <1>1, <1>2, <1>3, <1>4, <1>5, <1>6, <1>7, <1>8

(* The height is below the count: the record is there or is being pushed.  *)
LEMMA CheckCountInv ==
    ASSUME Inv, NEW r \in Readers, NEW i \in Indexes, NEW h \in Heights, CheckCount(r, i, h)
    PROVE  Inv'
<1> USE BlockIndexAssumption DEF Inv, TypeOK, CheckCount, BlockAt, Early, organizing, validating
<1>w. \A j \in Indexes : Written(j)' = Written(j) /\ WrittenBlocks(j)' = WrittenBlocks(j)
  BY SameWritten
<1>1. TypeOK'
  <2>1. reader' \in [Readers -> Reads]
    BY DEF Reads
  <2> QED
    BY <2>1
<1>2. OrganizerInv'
  BY SameOrganizer
<1>3. DistinctInv'
  BY <1>w DEF DistinctInv
<1>4. SavedInv'
  BY <1>w DEF SavedInv, Indexes
<1>5. ReadInv'
  BY DEF ReadInv, NoUpdate
<1>6. StateInv'
  BY <1>w DEF StateInv, Told, ToldAhead
<1>7. ReaderInv'
  BY DEF ReaderInv
<1>8. ReadsCurrent'
  BY DEF ReadsCurrent, ReaderInv
<1> QED
  BY <1>1, <1>2, <1>3, <1>4, <1>5, <1>6, <1>7, <1>8

(* The record is read.                                                     *)
LEMMA ReadRecordInv ==
    ASSUME Inv, NEW r \in Readers, ReadRecord(r)
    PROVE  Inv'
<1> USE BlockIndexAssumption DEF Inv, TypeOK, ReadRecord, organizing, validating
<1>w. \A i \in Indexes : Written(i)' = Written(i) /\ WrittenBlocks(i)' = WrittenBlocks(i)
  BY SameWritten
<1>1. TypeOK'
  <2>1. records[reader[r].name][reader[r].height] \in Blocks
    BY ReadType
  <2>2. reader' \in [Readers -> Reads]
    BY <2>1, ReadSteps
  <2> QED
    BY <2>2
<1>2. OrganizerInv'
  BY SameOrganizer
<1>3. DistinctInv'
  BY <1>w DEF DistinctInv
<1>4. SavedInv'
  BY <1>w DEF SavedInv, Indexes
<1>5. ReadInv'
  BY DEF ReadInv, NoUpdate
<1>6. StateInv'
  BY <1>w DEF StateInv, Told, ToldAhead
<1>7. ReaderInv'
  BY DEF ReaderInv
<1>8. ReadsCurrent'
  BY DEF ReadsCurrent, ReaderInv
<1> QED
  BY <1>1, <1>2, <1>3, <1>4, <1>5, <1>6, <1>7, <1>8

(* The indexes are cut to what was committed, and the rest is lost.        *)
LEMMA RestartInv ==
    ASSUME Inv, Restart
    PROVE  Inv'
<1> USE BlockIndexAssumption DEF Inv, TypeOK, Restart, organizing, validating
<1>a. \A i \in Indexes : saved[i] <= count[i] /\ Written(i) = count[i] /\ Written(i)' = saved[i]
  BY DEF SavedInv, Written, Indexes
<1>w. \A i \in Indexes : /\ WrittenBlocks(i)' \subseteq WrittenBlocks(i)
                         /\ WrittenBlocks(i) \subseteq WrittenBlocks(i)' \cup lost'
  <2> SUFFICES ASSUME NEW i \in Indexes
               PROVE  /\ WrittenBlocks(i)' \subseteq WrittenBlocks(i)
                      /\ WrittenBlocks(i) \subseteq WrittenBlocks(i)' \cup lost'
    OBVIOUS
  <2>1. WrittenBlocks(i) = {records[i][h] : h \in 0..(count[i] - 1)}
    BY <1>a DEF WrittenBlocks
  <2>2. WrittenBlocks(i)' = {records[i][h] : h \in 0..(saved[i] - 1)}
    BY <1>a DEF WrittenBlocks
  <2>3. 0..(count[i] - 1) = 0..(saved[i] - 1) \cup saved[i]..(count[i] - 1)
    BY <1>a
  <2>4. {records[i][h] : h \in saved[i]..(count[i] - 1)} \subseteq lost'
    OBVIOUS
  <2> QED
    BY <2>1, <2>2, <2>3, <2>4
<1>1. TypeOK'
  <2>1. reader' \in [Readers -> Reads]
    BY DEF NoRead, Reads, Heights, Indexes
  <2>2. lost' \subseteq Blocks
    <3> SUFFICES ASSUME NEW i \in Indexes, NEW h \in saved[i]..(count[i] - 1)
                 PROVE  records[i][h] \in Blocks
      OBVIOUS
    <3>1. h \in Heights
      BY DEF Heights
    <3> QED
      BY <3>1
  <2> QED
    BY <2>1, <2>2
<1>2. OrganizerInv'
  BY DEF OrganizerInv
<1>3. DistinctInv'
  BY <1>a DEF DistinctInv
<1>4. SavedInv'
  BY <1>a DEF SavedInv, Indexes
<1>5. ReadInv'
  BY DEF ReadInv
<1>6. StateInv'
  <2> SUFFICES ASSUME NEW b \in Blocks, b \notin overlapped
               PROVE  (state[b].valid <=> b \in validated) /\ (b \notin lost' => Told(b)')
    BY DEF StateInv
  <2>1. b \notin lost' =>
           b \notin lost /\ \A i \in Indexes : b \in WrittenBlocks(i)' <=> b \in WrittenBlocks(i)
    BY <1>w
  <2> QED
    BY <2>1 DEF StateInv, Told
<1>7. ReaderInv'
  BY DEF ReaderInv, NoRead
<1>8. ReadsCurrent'
  BY DEF ReadsCurrent, NoRead
<1> QED
  BY <1>1, <1>2, <1>3, <1>4, <1>5, <1>6, <1>7, <1>8

(* A step that changes nothing.                                            *)
LEMMA StutterInv == ASSUME Inv, UNCHANGED vars PROVE Inv'
BY DEF vars, Inv, TypeOK, OrganizerInv, DistinctInv, SavedInv, ReadInv, StateInv, ReaderInv,
       ReadsCurrent, Written, WrittenBlocks, Told, ToldAhead

(* The invariant is inductive: one lemma per action.                       *)
LEMMA NextInv == Inv /\ [Next]_vars => Inv'
<1> SUFFICES ASSUME Inv, [Next]_vars PROVE Inv'
  OBVIOUS
<1>1. CASE UNCHANGED vars
  BY <1>1, StutterInv
<1>2. ASSUME NEW i \in Indexes,
             (\E b \in Blocks, commits \in BOOLEAN : Promote(i, b, commits)) \/ Demote(i)
      PROVE  Inv'
  BY <1>2, PromoteInv, DemoteInv
<1>3. CASE WriteConfirmation \/ PopLink \/ Allocate \/ WriteLink \/ Commit
  BY <1>3, WriteConfirmationInv, PopLinkInv, AllocateInv, WriteLinkInv, CommitInv
<1>4. ASSUME NEW b \in Blocks, Validate(b) PROVE Inv'
  BY <1>4, ValidateInv
<1>5. CASE WriteValidation \/ Restart
  BY <1>5, WriteValidationInv, RestartInv
<1>6. ASSUME NEW r \in Readers,
             (\E i \in Indexes, h \in Heights : CheckCount(r, i, h)) \/ ReadRecord(r)
      PROVE  Inv'
  BY <1>6, CheckCountInv, ReadRecordInv
<1> QED
  BY <1>1, <1>2, <1>3, <1>4, <1>5, <1>6 DEF Next

(* Counts, records, states and the updates in progress keep their types    *)
(* (block_database.cpp).                                                   *)
THEOREM TypeCorrect == Spec => []TypeOK
<1>1. Inv => TypeOK
  BY DEF Inv
<1> QED
  BY InitInv, NextInv, <1>1, PTL DEF Spec

(* A get(height) finds a block that was at that height during the call,    *)
(* unless the height was pushed meanwhile (block_database.cpp, read_link,  *)
(* pop_link and push_link).                                                *)
THEOREM ReadsStayCurrent == Spec => []ReadsCurrent
<1>1. Inv => ReadsCurrent
  BY DEF Inv
<1> QED
  BY InitInv, NextInv, <1>1, PTL DEF Spec

(* The updates of a state that did not overlap have all taken effect, also *)
(* those of the confirmation field that both indexes share                 *)
(* (block_database.cpp, update_validation_state and                        *)
(* update_confirmation_state).                                             *)
THEOREM NoUpdateLost == Spec => []UpdatesMerge
<1>1. Inv => UpdatesMerge
  <2> SUFFICES ASSUME Inv, organizer.step = "idle", NEW b \in Blocks \ overlapped
               PROVE  LET confirmation == state[b].confirmation
                          held == {i \in Indexes : b \in Indexed(i)}
                      IN  /\ state[b].valid <=> b \in validated
                          /\ b \notin lost =>
                                /\ confirmation = "missing" <=> held = {} \/ b \in displaced
                                /\ confirmation # "missing" => confirmation \in held
    BY DEF UpdatesMerge
  <2>1. (state[b].valid <=> b \in validated) /\ (b \notin lost => Told(b))
    BY DEF Inv, StateInv
  <2>2. \A i \in Indexes : Indexed(i) = WrittenBlocks(i)
    BY IndexedWritten DEF Inv
  <2>3. state[b].confirmation \in Indexes \cup {"missing"}
    BY DEF Inv, TypeOK, States
  <2> QED
    BY <2>1, <2>2, <2>3 DEF Told
<1> QED
  BY InitInv, NextInv, <1>1, PTL DEF Spec

(* A restart takes off the confirmed index exactly the blocks that         *)
(* confirm() has pushed since the last commit, and none off the candidate  *)
(* index (data_base.cpp, confirm; push_block and pop_block,                *)
(* blocks_->commit()).                                                     *)
THEOREM RestartLosesConfirms == Spec => OnlyConfirmsLost
<1>1. Inv /\ [Next]_vars =>
          [restarts' # restarts => count' = [count EXCEPT !["confirmed"] = @ - confirms]]_vars
  <2> SUFFICES ASSUME Inv, Next, restarts' # restarts
               PROVE  count' = [count EXCEPT !["confirmed"] = @ - confirms]
    OBVIOUS
  <2>1. Restart
    BY DEF Next, Promote, Validate, Demote, WriteConfirmation, PopLink, Allocate, WriteLink,
       Commit, WriteValidation, CheckCount, ReadRecord
  <2>2. /\ saved["candidate"] = count["candidate"]
        /\ saved["confirmed"] = count["confirmed"] - confirms
        /\ count' = saved
    BY <2>1 DEF Restart, Inv, TypeOK, SavedInv, Written, Indexes
  <2> QED
    BY <2>2 DEF Inv, TypeOK, Indexes
<1> QED
  BY InitInv, NextInv, <1>1, PTL DEF Spec, OnlyConfirmsLost
=============================================================================
