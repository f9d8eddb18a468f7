----------------------------- MODULE FlashStore -----------------------------
(***************************************************************************)
(* The task store of app_storage.c on its external NOR flash: the slots,   *)
(* their headers, the two append-only record areas, the open slot that is  *)
(* kept in RAM, and the calls that change them.                            *)
(*                                                                         *)
(* A call holds the flash mutex from its beginning to its end, so there is *)
(* one operation under way at most; its steps are its erases and programs, *)
(* since a reset can come between any two of them.  A fault is an erase or *)
(* a program that fails after its retries, having had its effect, none or  *)
(* (a program) part of it; cut short by a reset it is a fault and a Reset. *)
(* Reads do not fail.                                                      *)
(*                                                                         *)
(* The flash is modelled by words.  A record has two, the 16 bytes and the *)
(* 4 bytes that are programmed one after the other, and like the 20-byte   *)
(* records it may lie across the border of two sectors.  The word of a     *)
(* record holds the record's number.                                       *)
(***************************************************************************)
EXTENDS Naturals, FiniteSets, EndSearch

CONSTANTS
  Task,         \* task ids
  Slots,        \* APP_STORE_SLOT_COUNT
  PreSectors,   \* sectors of the pretest area
  DataSectors,  \* sectors of the formal area
  SectorWords,  \* words of a sector
  BlockSectors, \* sectors that a block erase erases
  Calls,        \* the calls that are made
  MaxSeq,       \* bound: the number of the last header begun
  MaxRecords,   \* bound: records appended
  MaxErases,    \* bound: deletions and formats
  MaxResets,    \* bound: resets
  MaxFaults     \* bound: failed erases and programs

ASSUME FlashStoreAssumption ==
  /\ Slots \in Nat \ {0}
  /\ PreSectors \in Nat \ {0} /\ DataSectors \in Nat \ {0}
  /\ SectorWords \in Nat \ {0, 1}
  /\ BlockSectors \in 1 .. 1 + PreSectors + DataSectors
  /\ Calls \subseteq {"BeginTask", "RewriteHeader", "AppendData",
                      "AppendPreData", "ReadData", "DeleteTask", "EraseAll"}
  /\ MaxSeq \in Nat /\ MaxRecords \in Nat /\ MaxErases \in Nat
  /\ MaxResets \in Nat /\ MaxFaults \in Nat

VARIABLES
  hdr,       \* flash: the header of each slot, or NoHeader
  word,      \* flash: the words of both areas of each slot
  active,    \* s_active
  seqNext,   \* s_task_seq_next
  op,        \* the call under way
  made,      \* history: the number of the last record given to an append
  failed,    \* history: did that append fail?
  log,       \* history: for each task what was acknowledged and where
  stale,     \* history: slots that the open slot in RAM was wrong about since
             \* their task was begun
  holed,     \* history: slots it was ever wrong about
  erases,    \* history: deletions and formats so far
  resets,    \* history: resets so far
  faults     \* history: failed erases and programs so far

boundVars == <<erases, resets, faults>>
vars == <<hdr, word, active, seqNext, op, made, failed, log, stale, holed,
          boundVars>>
-----------------------------------------------------------------------------
(* Layout.                                                                   *)

Slot == 0 .. Slots - 1
Area == {"pre", "data"}
RecordWords == 2
Erased == 0
Garbled == MaxRecords + 1      \* programmed, but not what was to be programmed
Word == 0 .. MaxRecords + 1

SlotSectors == 1 + PreSectors + DataSectors
AreaSectors(a) == IF a = "pre" THEN PreSectors ELSE DataSectors
AreaWords(a) == SectorWords * AreaSectors(a)
Index(a) == 0 .. AreaWords(a) - 1

SlotBase(s) == s * SlotSectors
AreaBase(s, a) == SlotBase(s) + 1 + (IF a = "pre" THEN 0 ELSE PreSectors)
SectorOf(s, a, w) == AreaBase(s, a) + w \div SectorWords

BlocksPerSlot == SlotSectors \div BlockSectors

(* The driver hands the address to the chip, which erases the block it lies  *)
(* in; a slot does not begin at a border of blocks.                          *)
Block(sector) ==
  LET first == (sector \div BlockSectors) * BlockSectors
  IN  first .. first + BlockSectors - 1
-----------------------------------------------------------------------------
NoHeader == [task |-> "none"]
Header == [task : Task, seq : Nat]

(* size and next (the first word of the next sector to be erased) are        *)
(* relative to the area.                                                     *)
NoActive == [valid |-> FALSE]
Active == [valid : {TRUE}, slot : Slot, task : Task,
           size : [Area -> Nat], next : [Area -> Nat]]

Idle == [pc |-> "idle"]
HeaderOp == [pc : {"erase_header", "program_header", "erase_pre", "erase_data",
                   "open"},
             create : BOOLEAN, slot : Slot, hdr : Header]
AppendOp == [pc : {"prepare", "tail"}, area : Area, num : 1 .. MaxRecords]
EraseOp == [pc : {"block"}, all : BOOLEAN, tasks : SUBSET Task, slot : Slot,
            block : 0 .. BlocksPerSlot - 1]

Entry == [num : 1 .. MaxRecords, slot : Slot, at : Nat]

TypeOK ==
  /\ hdr \in [Slot -> Header \union {NoHeader}]
  /\ \A s \in Slot, a \in Area : word[s][a] \in [Index(a) -> Word]
  /\ active \in Active \union {NoActive}
  /\ active.valid => \A a \in Area : /\ active.size[a] <= AreaWords(a)
                                     /\ active.next[a] <= AreaWords(a)
  /\ seqNext \in Nat
  /\ op \in {Idle} \union HeaderOp \union AppendOp \union EraseOp
  /\ made \in 0 .. MaxRecords /\ failed \in BOOLEAN
  /\ log \in [Task -> [Area -> SUBSET Entry]]
  /\ stale \subseteq Slot /\ holed \subseteq Slot
  /\ erases \in 0 .. MaxErases /\ resets \in 0 .. MaxResets
  /\ faults \in 0 .. MaxFaults

Blank == [a \in Area |-> [w \in Index(a) |-> Erased]]
NoLog == [a \in Area |-> {}]

Init ==
  /\ hdr = [s \in Slot |-> NoHeader]
  /\ word = [s \in Slot |-> Blank]
  /\ active = NoActive /\ seqNext = 1 /\ op = Idle
  /\ made = 0 /\ failed = FALSE
  /\ log = [t \in Task |-> NoLog] /\ stale = {} /\ holed = {}
  /\ erases = 0 /\ resets = 0 /\ faults = 0
-----------------------------------------------------------------------------
(* Flash primitives.  Programming can only clear bits: on a word that is not *)
(* erased the result may read back as intended, and then the call believes   *)
(* it, or not, and then it fails.                                            *)

Fault == faults < MaxFaults /\ faults' = faults + 1

(* A sector of an area, from its word w on.                                  *)
ErasedWords(s, a, w) ==
  [word EXCEPT ![s][a] = [i \in Index(a) |->
     IF i \in w .. w + SectorWords - 1 THEN Erased ELSE word[s][a][i]]]

EraseSector(s, a, w) ==
  word' = ErasedWords(s, a, w) /\ UNCHANGED faults

EraseSectorFails(s, a, w) ==
  Fault /\ (word' = ErasedWords(s, a, w) \/ UNCHANGED word)

Write(s, a, w, n) == word' = [word EXCEPT ![s][a][w] = n]

ProgramOk(s, a, w, n) == Write(s, a, w, n) /\ UNCHANGED faults
ProgramFails(s, a, w, n) ==
  \/ /\ word[s][a][w] \notin {Erased, n}
     /\ Write(s, a, w, Garbled)
     /\ UNCHANGED faults
  \/ Fault /\ (Write(s, a, w, n) \/ Write(s, a, w, Garbled) \/ UNCHANGED word)
-----------------------------------------------------------------------------
(* Slots.                                                                    *)

First(S) == {s \in S : \A r \in S : s <= r}     \* the one to be found first

HasHeader(s) == hdr[s] # NoHeader
Holding(t) == {s \in Slot : HasHeader(s) /\ hdr[s].task = t}
Free == {s \in Slot : ~HasHeader(s)}
Oldest == {s \in Slot : \A r \in Slot : hdr[s].seq <= hdr[r].seq}

(* Where APP_Storage_BeginTaskEx2 puts the task t: its own slot, else the    *)
(* first one without a header, else the oldest one, whose task it evicts.    *)
(* (The definitions that nothing uses are faulty variants of the one below   *)
(* them, which the properties are checked to tell apart.)                    *)
BeginSlotForgetsOwn(t) == IF Free # {} THEN First(Free) ELSE First(Oldest)

BeginSlot(t) ==
  IF Holding(t) # {} THEN First(Holding(t))
  ELSE IF Free # {} THEN First(Free)
  ELSE First(Oldest)

(* app_store_scan_committed_size_locked: a record is there if its head is    *)
(* not erased.                                                               *)
Records(a) == AreaWords(a) \div RecordWords

Found(words, a) ==
  {i \in 0 .. Records(a) - 1 : words[RecordWords * i] # Erased}

Scan(words, a) == RecordWords * End(Found(words, a), Records(a))

NextEraseInside(size) == (size \div SectorWords) * SectorWords

NextErasePast(size) == (size \div SectorWords + 1) * SectorWords

(* The sector after the last one that holds a record.                        *)
NextErase(size) == ((size + SectorWords - 1) \div SectorWords) * SectorWords

Opened(t, s) ==
  LET size == [a \in Area |-> Scan(word[s][a], a)]
  IN  [valid |-> TRUE, slot |-> s, task |-> t, size |-> size,
       next |-> [a \in Area |-> NextErase(size[a])]]

IsOpen(t) == active.valid /\ active.task = t
-----------------------------------------------------------------------------
(* Begin: a new header for t, then the first sector of each area erased with *)
(* the results ignored, then the slot opened.  The sequence number is spent  *)
(* whatever happens.                                                         *)

BeginTask(t) ==
  /\ "BeginTask" \in Calls
  /\ op = Idle /\ seqNext <= MaxSeq
  /\ \E s \in BeginSlot(t) :
       op' = [pc |-> "erase_header", create |-> TRUE, slot |-> s,
              hdr |-> [task |-> t, seq |-> seqNext]]
  /\ seqNext' = seqNext + 1
  /\ UNCHANGED <<hdr, word, active, made, failed, log, stale, holed,
                 boundVars>>

(* SetTaskState and SetTaskInterruptReason: the header of t is written again *)
(* with its payload changed, which is not modelled.                          *)
RewriteHeader(t) ==
  /\ "RewriteHeader" \in Calls
  /\ op = Idle
  /\ \E s \in First(Holding(t)) :
       op' = [pc |-> "erase_header", create |-> FALSE, slot |-> s,
              hdr |-> hdr[s]]
  /\ UNCHANGED <<hdr, word, active, seqNext, made, failed, log, stale, holed,
                 boundVars>>

(* app_store_header_commit_locked, first its erase.  Once the old header is  *)
(* gone a task that is begun anew has no acknowledged records.               *)
EraseHeader ==
  /\ op.pc = "erase_header"
  /\ \/ /\ hdr' = [hdr EXCEPT ![op.slot] = NoHeader]
        /\ op' = [op EXCEPT !.pc = "program_header"]
        /\ UNCHANGED faults
     \/ /\ Fault /\ op' = Idle
        /\ hdr' = [hdr EXCEPT ![op.slot] = NoHeader] \/ UNCHANGED hdr
  /\ log' = IF op.create /\ hdr'[op.slot] = NoHeader
            THEN [log EXCEPT ![op.hdr.task] = NoLog] ELSE log
  /\ UNCHANGED <<word, active, seqNext, made, failed, stale, holed, erases,
                 resets>>

(* History: the open slot in RAM turns out wrong about slots.                *)
WrongAbout(slots) == stale' = stale \union slots /\ holed' = holed \union slots

(* Then its programs.  The magic is programmed last: until then there is no  *)
(* header.  A begin that fails here leaves the open slot as it was, which    *)
(* after a failed eviction can be another one, still open for this task.     *)
OpenElsewhere == op.create /\ IsOpen(op.hdr.task) /\ active.slot # op.slot

ProgramHeader ==
  /\ op.pc = "program_header"
  /\ \/ /\ hdr' = [hdr EXCEPT ![op.slot] = op.hdr]
        /\ op' = IF op.create THEN [op EXCEPT !.pc = "erase_pre"] ELSE Idle
        /\ UNCHANGED <<stale, holed, faults>>
     \/ /\ Fault /\ op' = Idle
        /\ \/ /\ hdr' = [hdr EXCEPT ![op.slot] = op.hdr]
              /\ WrongAbout(IF OpenElsewhere THEN {op.slot} ELSE {})
           \/ UNCHANGED <<hdr, stale, holed>>
  /\ UNCHANGED <<word, active, seqNext, made, failed, log, erases, resets>>

EraseFirstSector ==
  \E a \in Area :
    /\ op.pc = (IF a = "pre" THEN "erase_pre" ELSE "erase_data")
    /\ EraseSector(op.slot, a, 0) \/ EraseSectorFails(op.slot, a, 0)
    /\ op' = [op EXCEPT !.pc = IF a = "pre" THEN "erase_data" ELSE "open"]
    /\ UNCHANGED <<hdr, active, seqNext, made, failed, log, stale, holed,
                   erases, resets>>

OpenBegun ==
  /\ op.pc = "open"
  /\ active' = Opened(op.hdr.task, op.slot)
  /\ op' = Idle
  /\ stale' = stale \ {op.slot}
  /\ UNCHANGED <<hdr, word, seqNext, made, failed, log, holed, boundVars>>
-----------------------------------------------------------------------------
(* The reads (ReadData, ReadPreData, GetDataSize, GetPreDataSize) open the   *)
(* slot of the task they are about, whatever slot was open.                  *)

OpenForRead(t) ==
  /\ "ReadData" \in Calls
  /\ op = Idle
  /\ \/ IsOpen(t) /\ UNCHANGED active
     \/ ~IsOpen(t) /\ \E s \in First(Holding(t)) : active' = Opened(t, s)
     \/ ~IsOpen(t) /\ Holding(t) = {} /\ UNCHANGED active
  /\ UNCHANGED <<hdr, word, seqNext, op, made, failed, log, stale, holed,
                 boundVars>>

(* AppendData and AppendPreData.  The storage task gives a record that was   *)
(* not stored again or replaces it by a newer one.                           *)
AppendRecord(t, a) ==
  /\ (IF a = "pre" THEN "AppendPreData" ELSE "AppendData") \in Calls
  /\ op = Idle
  /\ \E n \in (IF failed THEN {made, made + 1} ELSE {made + 1}) :
       /\ n \in 1 .. MaxRecords
       /\ made' = n
       /\ \/ /\ IsOpen(t) /\ UNCHANGED <<active, failed>>
             /\ op' = [pc |-> "prepare", area |-> a, num |-> n]
          \/ /\ ~IsOpen(t)
             /\ \E s \in First(Holding(t)) : active' = Opened(t, s)
             /\ op' = [pc |-> "prepare", area |-> a, num |-> n]
             /\ UNCHANGED failed
          \/ /\ ~IsOpen(t) /\ Holding(t) = {}
             /\ failed' = TRUE
             /\ UNCHANGED <<active, op>>
  /\ UNCHANGED <<hdr, word, seqNext, log, stale, holed, boundVars>>

AppendFails == failed' = TRUE /\ op' = Idle

Place == active.size[op.area]       \* where the record under way goes
Fits == Place + RecordWords <= AreaWords(op.area)
ReadyAtStart == active.next[op.area] > Place

Ready == active.next[op.area] > Place + RecordWords - 1

AppendFull ==
  /\ op.pc = "prepare" /\ ~Fits
  /\ AppendFails
  /\ UNCHANGED <<hdr, word, active, seqNext, made, log, stale, holed,
                 boundVars>>

(* A sector is erased when the first record that reaches it is appended.     *)
AppendErase ==
  /\ op.pc = "prepare" /\ Fits /\ ~Ready
  /\ LET next == active.next[op.area] IN
       \/ /\ EraseSector(active.slot, op.area, next)
          /\ active' = [active EXCEPT !.next[op.area] = @ + SectorWords]
          /\ UNCHANGED <<op, failed>>
       \/ /\ EraseSectorFails(active.slot, op.area, next)
          /\ AppendFails /\ UNCHANGED active
  /\ UNCHANGED <<hdr, seqNext, made, log, stale, holed, erases, resets>>

AppendHead ==
  /\ op.pc = "prepare" /\ Fits /\ Ready
  /\ \/ /\ ProgramOk(active.slot, op.area, Place, op.num)
        /\ op' = [op EXCEPT !.pc = "tail"]
        /\ UNCHANGED failed
     \/ ProgramFails(active.slot, op.area, Place, op.num) /\ AppendFails
  /\ UNCHANGED <<hdr, active, seqNext, made, log, stale, holed, erases,
                 resets>>

AppendTail ==
  /\ op.pc = "tail"
  /\ \/ /\ ProgramOk(active.slot, op.area, Place + 1, op.num)
        /\ active' = [active EXCEPT !.size[op.area] = @ + RecordWords]
        /\ log' = [log EXCEPT ![active.task][op.area] =
             @ \union {[num |-> op.num, slot |-> active.slot, at |-> Place]}]
        /\ failed' = FALSE /\ op' = Idle
     \/ /\ ProgramFails(active.slot, op.area, Place + 1, op.num)
        /\ AppendFails /\ UNCHANGED <<active, log>>
  /\ UNCHANGED <<hdr, seqNext, made, stale, holed, erases, resets>>
-----------------------------------------------------------------------------
(* The erase task: the slot of one task, or all slots, by blocks.            *)

EraseRequest(all, tasks, s) ==
  /\ op = Idle /\ erases < MaxErases
  /\ op' = [pc |-> "block", all |-> all, tasks |-> tasks, slot |-> s,
            block |-> 0]
  /\ erases' = erases + 1
  /\ UNCHANGED <<hdr, word, active, seqNext, made, failed, log, stale,
                 holed, resets, faults>>

DeleteTask(t) ==
  /\ "DeleteTask" \in Calls
  /\ \E s \in First(Holding(t)) : EraseRequest(FALSE, {t}, s)

EraseAll == "EraseAll" \in Calls /\ EraseRequest(TRUE, Task, 0)

(* A failure ends the slot; a format goes on with the next one.  What the    *)
(* erased block held is no longer owed.                                      *)
SlotDone ==
  IF op.all /\ op.slot < Slots - 1
  THEN /\ op' = [op EXCEPT !.slot = @ + 1, !.block = 0]
       /\ UNCHANGED active
  ELSE /\ op' = Idle
       /\ active' = IF \E t \in op.tasks : IsOpen(t) THEN NoActive ELSE active

(* The slot before the one being erased may be open, and stays so.           *)
OpenHit(sectors) ==
  /\ active.valid /\ active.task \notin op.tasks
  /\ \E a \in Area : \E w \in Index(a) : SectorOf(active.slot, a, w) \in sectors

EraseSectors(sectors) ==
  /\ hdr' = [s \in Slot |-> IF SlotBase(s) \in sectors THEN NoHeader
                            ELSE hdr[s]]
  /\ word' = [s \in Slot |-> [a \in Area |-> [w \in Index(a) |->
                IF SectorOf(s, a, w) \in sectors THEN Erased
                ELSE word[s][a][w]]]]
  /\ log' = [t \in Task |-> [a \in Area |->
                {e \in log[t][a] :
                   /\ SectorOf(e.slot, a, e.at) \notin sectors
                   /\ SectorOf(e.slot, a, e.at + 1) \notin sectors}]]
  /\ WrongAbout(IF OpenHit(sectors) THEN {active.slot} ELSE {})

EraseBlock ==
  /\ op.pc = "block"
  /\ LET sectors == Block(SlotBase(op.slot) + op.block * BlockSectors) IN
       \/ /\ EraseSectors(sectors)
          /\ IF op.block < BlocksPerSlot - 1
             THEN op' = [op EXCEPT !.block = @ + 1] /\ UNCHANGED active
             ELSE SlotDone
          /\ UNCHANGED faults
       \/ /\ Fault /\ SlotDone
          /\ EraseSectors(sectors) \/ UNCHANGED <<hdr, word, log, stale, holed>>
  /\ UNCHANGED <<seqNext, made, failed, erases, resets>>
-----------------------------------------------------------------------------
(* app_store_flash_init_locked after a reset: one more than the largest      *)
(* number in flash.                                                          *)
Reset ==
  /\ resets < MaxResets
  /\ resets' = resets + 1
  /\ active' = NoActive /\ op' = Idle /\ failed' = FALSE
  /\ LET seqs == {0} \union {hdr[s].seq : s \in Slot \ Free} IN
       \E max \in seqs : /\ \A n \in seqs : n <= max
                        /\ seqNext' = max + 1
  /\ UNCHANGED <<hdr, word, made, log, stale, holed, erases, faults>>
-----------------------------------------------------------------------------
HeaderNext == \/ EraseHeader \/ ProgramHeader \/ EraseFirstSector \/ OpenBegun
              \/ \E t \in Task : BeginTask(t) \/ RewriteHeader(t)

RecordNext == \/ AppendFull \/ AppendErase \/ AppendHead \/ AppendTail
              \/ \E t \in Task : OpenForRead(t)
              \/ \E t \in Task, a \in Area : AppendRecord(t, a)

EraseNext == EraseBlock \/ EraseAll \/ \E t \in Task : DeleteTask(t)

Next == HeaderNext \/ RecordNext \/ EraseNext \/ Reset

Spec == Init /\ [][Next]_vars
-----------------------------------------------------------------------------
(* Properties.                                                               *)

(* An acknowledged record stays where it was programmed, whole and in the    *)
(* order of acknowledgement, until its task is begun anew, evicted, deleted  *)
(* or loses its header: no erase on demand, no reopening after a reset or a  *)
(* read of another task and no record left half written by a fault brings a  *)
(* later append over it.  It is said of the slots that the open slot in RAM  *)
(* was not wrong about since their task was begun: a deletion takes the end  *)
(* of the slot before it away while that is open, and then an append after a *)
(* reset can overwrite.                                                      *)
AckedInPlace ==
  \A s \in Slot \ (Free \union stale), a \in Area :
    \A e \in log[hdr[s].task][a] :
      /\ e.slot = s
      /\ word[s][a][e.at] = e.num /\ word[s][a][e.at + 1] = e.num
      /\ \A f \in log[hdr[s].task][a] \ {e} : e.num <= f.num => e.at < f.at

(* While nothing fails a record is only programmed onto erased words,        *)
(* whatever a slot held before its task was begun.  A hole that a deletion   *)
(* left among its records is the exception: a begin erases first sectors.    *)
FreshWords ==
  (/\ op.pc = "prepare" /\ Fits /\ Ready /\ faults = 0
   /\ active.slot \notin holed)
    => \A w \in {Place, Place + 1} : word[active.slot][op.area][w] = Erased

(* Through resets and failures no task has two slots, no two headers have    *)
(* the same number, nor the next header that of one there is (that of a      *)
(* newest one that was lost or deleted is given once more after a reset),    *)
(* and, while nothing fails, the open slot is that of the task it is open    *)
(* for.                                                                      *)
SlotsConsistent ==
  /\ \A s, r \in Slot \ Free :
       s # r => hdr[s].task # hdr[r].task /\ hdr[s].seq # hdr[r].seq
  /\ \A s \in Slot \ Free : hdr[s].seq < seqNext
  /\ (op = Idle /\ faults = 0 /\ active.valid)
       => active.slot \notin Free /\ hdr[active.slot].task = active.task

(* While nothing fails and nothing is reset, the size found on opening a     *)
(* slot is that of the records acknowledged since the task was begun: the    *)
(* last record found is its last sample (task_manager.c:479).                *)
ScanIsLog ==
  (op = Idle /\ active.valid /\ faults = 0 /\ resets = 0)
    => \A a \in Area :
         active.size[a] = RecordWords * Cardinality(log[active.task][a])

(* Deleting a task erases its whole slot (app_storage.c:1641) and leaves the *)
(* records of the other tasks alone.                                         *)
DeleteIsExact ==
  [][(op.pc = "block" /\ ~op.all)
       => /\ \A s \in Slot \ {op.slot} : word'[s] = word[s]
          /\ (op' = Idle /\ faults = 0 /\ resets' = resets)
               => word'[op.slot] = Blank]_vars
=============================================================================
