-------------------------- MODULE FlashStoreProofs --------------------------
(***************************************************************************)
(* Proof that the slots of the task store stay consistent: one slot for a  *)
(* task, no header number twice, the open slot that of its task.  It does  *)
(* not rest on the sizes of the record areas, which Scan computes by       *)
(* recursion.                                                              *)
(***************************************************************************)
EXTENDS FlashStore, TLAPS

(* The part of the type invariant that the headers need.                     *)
ActiveShape ==
  \/ active = NoActive
  \/ /\ active = [valid |-> TRUE, slot |-> active.slot, task |-> active.task,
                  size |-> active.size, next |-> active.next]
     /\ active.slot \in Slot /\ active.task \in Task

StoreType ==
  /\ hdr \in [Slot -> Header \union {NoHeader}]
  /\ seqNext \in Nat
  /\ op \in {Idle} \union HeaderOp \union AppendOp \union EraseOp
  /\ faults \in Nat
  /\ ActiveShape

(* No two headers are of one task or have one number, and the numbers to     *)
(* come are new.                                                             *)
Distinct ==
  \A s, r \in Slot \ Free :
    s # r => hdr[s].task # hdr[r].task /\ hdr[s].seq # hdr[r].seq

Numbered == \A s \in Slot \ Free : hdr[s].seq < seqNext

(* The header that a call is about to write is as good as written: no other  *)
(* slot has its task or its number.                                          *)
Pending ==
  op \in HeaderOp =>
    /\ op.hdr.seq < seqNext
    /\ \A s \in Slot \ Free :
         s # op.slot => /\ hdr[s].task # op.hdr.task
                        /\ hdr[s].seq # op.hdr.seq
    /\ (op.pc = "erase_header" /\ ~op.create) => hdr[op.slot] = op.hdr
    /\ op.pc = "program_header" => ~HasHeader(op.slot)
    /\ op.pc \in {"erase_pre", "erase_data", "open"}
         => op.create /\ hdr[op.slot] = op.hdr

(* A deletion is under way in the slot of its task.                          *)
Deleting ==
  op \in EraseOp =>
    \/ op.tasks = Task
    \/ ~op.all /\ (HasHeader(op.slot) => hdr[op.slot].task \in op.tasks)

Bound == HasHeader(active.slot) /\ hdr[active.slot].task = active.task

(* While nothing fails the open slot is bound to its task, or the call under *)
(* way will bind it again or close it.                                       *)
OpenBound ==
  (faults = 0 /\ active.valid) =>
    \/ /\ op \in HeaderOp /\ op.slot = active.slot
       /\ op.create \/ op.hdr.task = active.task
    \/ op \in EraseOp /\ active.task \in op.tasks
    \/ Bound

SlotsInv == StoreType /\ Distinct /\ Numbered /\ Pending /\ Deleting /\ OpenBound
-----------------------------------------------------------------------------
(* A slot has at least two sectors, and blocks are no longer than it.        *)
LEMMA Geometry ==
  /\ SlotSectors \in Nat /\ SlotSectors > 1
  /\ BlockSectors \in Nat /\ BlockSectors > 0 /\ BlockSectors <= SlotSectors
BY FlashStoreAssumption DEF FlashStoreAssumption, SlotSectors

LEMMA Floor ==
  ASSUME NEW x \in Nat, NEW b \in Nat, b > 0
  PROVE  /\ x \div b \in Nat
         /\ (x \div b) * b <= x
         /\ x < (x \div b) * b + b
OBVIOUS

(* The base of one slot never lies in a block that is erased for another.    *)
LEMMA BlockInSlot ==
  ASSUME NEW s \in Slot, NEW r \in Slot, NEW k \in 0 .. BlocksPerSlot - 1,
         SlotBase(r) \in Block(SlotBase(s) + k * BlockSectors)
  PROVE  r = s
<1> DEFINE N == SlotSectors
           B == BlockSectors
           x == s * N + k * B
           q == x \div B
<1>1. /\ N \in Nat /\ N > 1 /\ B \in Nat /\ B > 0 /\ B <= N
      /\ s \in Nat /\ r \in Nat
  BY Geometry, FlashStoreAssumption DEF Slot, FlashStoreAssumption
<1>2. N \div B \in Nat /\ (N \div B) * B <= N
  BY <1>1, Floor
<1>3. k \in Nat /\ k + 1 <= N \div B
  BY <1>2 DEF BlocksPerSlot
<1>4. k * B + B <= N
  <2> HIDE DEF N, B
  <2>1. \A d \in Nat : k + 1 <= d => (k + 1) * B <= d * B
    BY <1>1, <1>3
  <2>2. (k + 1) * B = k * B + B
    BY <1>1, <1>3
  <2>3. (k + 1) * B <= (N \div B) * B
    BY <2>1, <1>2, <1>3
  <2>4. k * B \in Nat /\ (N \div B) * B \in Nat
    BY <1>1, <1>2, <1>3
  <2>5. QED
    BY <2>2, <2>3, <2>4, <1>1, <1>2
<1>5. x \in Nat /\ s * N \in Nat /\ r * N \in Nat /\ k * B \in Nat
  BY <1>1, <1>3
<1>6. q * B \in Nat /\ q * B <= x /\ x < q * B + B
  <2> HIDE DEF x
  <2>1. q \in Nat /\ q * B <= x /\ x < q * B + B
    BY <1>1, <1>5, Floor
  <2>2. QED
    BY <2>1, <1>1
<1>7. q * B <= r * N /\ r * N <= q * B + B - 1
  BY <1>1, <1>5, <1>6 DEF SlotBase, Block
<1>8. s * N < r * N + N /\ r * N < s * N + N
  BY <1>1, <1>4, <1>5, <1>6, <1>7
<1>9. s < r + 1 /\ r < s + 1
  <2> HIDE DEF N
  <2>1. ASSUME NEW a \in Nat, NEW b \in Nat, b >= a + 1
        PROVE  b * N >= a * N + N
    <3>1. PICK d \in Nat : b = a + 1 + d
      <4>1. b - a - 1 \in Nat /\ b = a + 1 + (b - a - 1)
        BY <2>1
      <4>2. QED
        BY <4>1
    <3>2. b * N = a * N + N + d * N
      BY <3>1, <1>1
    <3>3. d * N \in Nat /\ a * N \in Nat
      BY <3>1, <1>1
    <3>4. QED
      BY <3>2, <3>3, <1>1
  <2>2. ~ (s >= r + 1)
    BY <2>1, <1>1, <1>5, <1>8
  <2>3. ~ (r >= s + 1)
    BY <2>1, <1>1, <1>5, <1>8
  <2>4. QED
    BY <2>2, <2>3, <1>1
<1>10. QED
  BY <1>1, <1>9
-----------------------------------------------------------------------------
(* The kinds of calls can be told apart by their program counters.           *)
LEMMA OpKinds ==
  /\ op = Idle => op.pc = "idle"
  /\ op \in HeaderOp => op.pc \in {"erase_header", "program_header",
                                   "erase_pre", "erase_data", "open"}
  /\ op \in AppendOp => op.pc \in {"prepare", "tail"}
  /\ op \in EraseOp => op.pc = "block"
BY DEF Idle, HeaderOp, AppendOp, EraseOp

LEMMA HeaderIsHeader ==
  ASSUME NEW h \in Header
  PROVE  h # NoHeader /\ h.task \in Task /\ h.seq \in Nat
BY DEF Header, NoHeader

LEMMA SlotsInit == Init => SlotsInv
<1> SUFFICES ASSUME Init PROVE SlotsInv
  OBVIOUS
<1>1. Slot \ Free = {}
  BY DEF Init, Free, HasHeader
<1>2. StoreType
  BY DEF Init, StoreType, ActiveShape
<1>3. op \notin HeaderOp /\ op \notin EraseOp /\ ~active.valid
  BY OpKinds DEF Init, Idle, HeaderOp, EraseOp, NoActive
<1>4. QED
  BY <1>1, <1>2, <1>3 DEF SlotsInv, Distinct, Numbered, Pending, Deleting, OpenBound

(* What leaves the headers and the calls that write or erase them alone.     *)
LEMMA FrameSlots ==
  ASSUME SlotsInv, UNCHANGED <<hdr, seqNext, active, op, faults>>
  PROVE  SlotsInv'
BY DEF SlotsInv, StoreType, ActiveShape, Distinct, Numbered, Pending, Deleting,
       OpenBound, Bound, Free, HasHeader

(* A step of a call that neither writes nor erases headers.                  *)
LEMMA AppendKeeps ==
  ASSUME SlotsInv, UNCHANGED <<hdr, seqNext>>,
         op \in {Idle} \union AppendOp, op' \in {Idle} \union AppendOp,
         faults' \in Nat, faults' = 0 => faults = 0, ActiveShape',
         active'.valid => /\ (active.valid /\ active'.slot = active.slot
                                 /\ active'.task = active.task)
                             \/ Bound'
  PROVE  SlotsInv'
<1>1. op \notin HeaderOp /\ op \notin EraseOp
  BY DEF Idle, AppendOp, HeaderOp, EraseOp
<1>2. op' \notin HeaderOp /\ op' \notin EraseOp
  BY DEF Idle, AppendOp, HeaderOp, EraseOp
<1>3. StoreType'
  BY DEF SlotsInv, StoreType
<1>4. Distinct' /\ Numbered'
  BY DEF SlotsInv, Distinct, Numbered, Free, HasHeader
<1>5. Pending' /\ Deleting'
  BY <1>2 DEF Pending, Deleting
<1>6. OpenBound'
  BY <1>1 DEF SlotsInv, OpenBound, Bound, HasHeader
<1>7. QED
  BY <1>3, <1>4, <1>5, <1>6 DEF SlotsInv

(* Opening the slot that holds t binds it.                                   *)
LEMMA OpensBound ==
  ASSUME StoreType, NEW t \in Task, NEW s \in First(Holding(t)),
         active' = Opened(t, s), UNCHANGED hdr
  PROVE  ActiveShape' /\ Bound'
<1>1. s \in Slot /\ HasHeader(s) /\ hdr[s].task = t
  BY DEF First, Holding
<1>2. active'.slot = s /\ active'.task = t
  BY DEF Opened
<1>3. ActiveShape'
  BY <1>1, <1>2 DEF ActiveShape, Opened
<1>4. QED
  BY <1>1, <1>2, <1>3 DEF Bound, HasHeader

LEMMA ReadKeeps ==
  ASSUME SlotsInv, NEW t \in Task, OpenForRead(t)
  PROVE  SlotsInv'
<1>1. CASE UNCHANGED active
  BY <1>1, FrameSlots DEF OpenForRead, boundVars
<1>2. CASE \E s \in First(Holding(t)) : active' = Opened(t, s)
  <2>1. ActiveShape' /\ Bound'
    BY <1>2, OpensBound DEF SlotsInv, OpenForRead
  <2>2. UNCHANGED <<hdr, seqNext, op, faults>> /\ op = Idle
    BY DEF OpenForRead, boundVars
  <2>3. faults' \in Nat
    BY <2>2 DEF SlotsInv, StoreType
  <2>4. QED
    BY <2>1, <2>2, <2>3, AppendKeeps
<1>3. QED
  BY <1>1, <1>2 DEF OpenForRead

LEMMA AppendRecordKeeps ==
  ASSUME SlotsInv, NEW t \in Task, NEW a \in Area, AppendRecord(t, a)
  PROVE  SlotsInv'
<1>1. UNCHANGED <<hdr, seqNext, faults>> /\ op = Idle
  BY DEF AppendRecord, boundVars
<1>2. op' \in {Idle} \union AppendOp
  BY <1>1 DEF AppendRecord, AppendOp
<1>3. faults' \in Nat
  BY <1>1 DEF SlotsInv, StoreType
<1>4. CASE UNCHANGED active
  <2>1. ActiveShape'
    BY <1>4 DEF SlotsInv, StoreType, ActiveShape
  <2>2. QED
    BY <1>1, <1>2, <1>3, <1>4, <2>1, AppendKeeps
<1>5. CASE \E s \in First(Holding(t)) : active' = Opened(t, s)
  <2>1. ActiveShape' /\ Bound'
    BY <1>1, <1>5, OpensBound DEF SlotsInv
  <2>2. QED
    BY <1>1, <1>2, <1>3, <2>1, AppendKeeps
<1>6. QED
  BY <1>4, <1>5 DEF AppendRecord

(* An append only moves the sizes of the open slot.                          *)
LEMMA AppendStepKeeps ==
  ASSUME SlotsInv, AppendFull \/ AppendErase \/ AppendHead \/ AppendTail
  PROVE  SlotsInv'
<1>1. op.pc \in {"prepare", "tail"} /\ op \in AppendOp
  BY OpKinds DEF SlotsInv, StoreType, AppendFull, AppendErase, AppendHead, AppendTail
<1>2. UNCHANGED <<hdr, seqNext>>
  BY DEF AppendFull, AppendErase, AppendHead, AppendTail
<1>3. op' \in {Idle} \union AppendOp
  BY <1>1 DEF AppendFull, AppendErase, AppendHead, AppendTail, AppendFails, AppendOp
<1>4. faults' \in Nat /\ (faults' = 0 => faults = 0)
  BY DEF SlotsInv, StoreType, AppendFull, AppendErase, AppendHead, AppendTail,
         boundVars, EraseSector, EraseSectorFails, ProgramOk, ProgramFails, Fault
<1>5. \/ UNCHANGED active
      \/ active' = [active EXCEPT !.next[op.area] = @ + SectorWords]
      \/ active' = [active EXCEPT !.size[op.area] = @ + RecordWords]
  BY DEF AppendFull, AppendErase, AppendHead, AppendTail
<1>6. /\ active'.valid => active.valid
      /\ active'.valid => active'.slot = active.slot /\ active'.task = active.task
      /\ ActiveShape'
  <2>1. CASE active = NoActive
    <3>1. active' = NoActive
      BY <1>5, <2>1 DEF NoActive
    <3>2. QED
      BY <2>1, <3>1 DEF NoActive, ActiveShape
  <2>2. CASE /\ active = [valid |-> TRUE, slot |-> active.slot,
                          task |-> active.task, size |-> active.size,
                          next |-> active.next]
             /\ active.slot \in Slot /\ active.task \in Task
    BY <1>5, <2>2 DEF ActiveShape
  <2>3. QED
    BY <2>1, <2>2 DEF SlotsInv, StoreType, ActiveShape
<1>7. QED
  BY <1>1, <1>2, <1>3, <1>4, <1>6, AppendKeeps
-----------------------------------------------------------------------------
(* Begin and rewrite.                                                        *)

LEMMA BeginKeeps ==
  ASSUME SlotsInv, NEW t \in Task, BeginTask(t)
  PROVE  SlotsInv'
<1>1. PICK s \in BeginSlot(t) :
        op' = [pc |-> "erase_header", create |-> TRUE, slot |-> s,
               hdr |-> [task |-> t, seq |-> seqNext]]
  BY DEF BeginTask
<1>2. UNCHANGED <<hdr, active, faults>> /\ seqNext' = seqNext + 1 /\ op = Idle
  BY DEF BeginTask, boundVars
<1>3. s \in Slot /\ (Holding(t) # {} => s \in Holding(t))
  BY DEF BeginSlot, First, Holding, Free, Oldest
<1>4. op' \in HeaderOp /\ op' \notin EraseOp
  BY <1>1, <1>3 DEF HeaderOp, Header, EraseOp, SlotsInv, StoreType
<1>5. StoreType'
  BY <1>2, <1>4 DEF SlotsInv, StoreType, ActiveShape
<1>6. \A r \in Slot \ Free : hdr[r] \in Header /\ hdr[r].seq \in Nat
  BY HeaderIsHeader DEF SlotsInv, StoreType, Free, HasHeader
<1>7. Distinct' /\ Numbered'
  BY <1>2, <1>6 DEF SlotsInv, StoreType, Distinct, Numbered, Free, HasHeader
<1>8. \A r \in Slot \ Free : r # s => hdr[r].task # t /\ hdr[r].seq # seqNext
  BY <1>3, <1>6 DEF SlotsInv, StoreType, Distinct, Numbered, Holding, Free, HasHeader
<1>9. Pending'
  BY <1>1, <1>2, <1>8 DEF Pending, Free, HasHeader, SlotsInv, StoreType
<1>10. OpenBound'
  BY <1>1, <1>2, <1>4 DEF SlotsInv, OpenBound, Bound, HasHeader, Idle, HeaderOp, EraseOp
<1>11. QED
  BY <1>4, <1>5, <1>7, <1>9, <1>10 DEF SlotsInv, Deleting

LEMMA RewriteKeeps ==
  ASSUME SlotsInv, NEW t \in Task, RewriteHeader(t)
  PROVE  SlotsInv'
<1>1. PICK s \in First(Holding(t)) :
        op' = [pc |-> "erase_header", create |-> FALSE, slot |-> s,
               hdr |-> hdr[s]]
  BY DEF RewriteHeader
<1>2. UNCHANGED <<hdr, active, faults, seqNext>> /\ op = Idle
  BY DEF RewriteHeader, boundVars
<1>3. s \in Slot /\ s \notin Free /\ hdr[s].task = t
  BY DEF First, Holding, Free, HasHeader
<1>4. hdr[s] \in Header /\ hdr[s].seq < seqNext
  BY <1>3 DEF SlotsInv, StoreType, Free, HasHeader, Numbered
<1>5. op' \in HeaderOp /\ op' \notin EraseOp
  BY <1>1, <1>3, <1>4 DEF HeaderOp, EraseOp
<1>6. StoreType' /\ Distinct' /\ Numbered'
  BY <1>2, <1>5 DEF SlotsInv, StoreType, ActiveShape, Distinct, Numbered, Free, HasHeader
<1>7. Pending'
  BY <1>1, <1>2, <1>3, <1>4 DEF SlotsInv, Distinct, Pending, Free, HasHeader
<1>8. OpenBound'
  BY <1>1, <1>2, <1>5 DEF SlotsInv, OpenBound, Bound, HasHeader, Idle, HeaderOp, EraseOp
<1>9. QED
  BY <1>5, <1>6, <1>7, <1>8 DEF SlotsInv, Deleting

(* Taking one header away disturbs no other.                                 *)
LEMMA HeaderErased ==
  ASSUME SlotsInv, NEW S \in SUBSET Slot,
         hdr' = [s \in Slot |-> IF s \in S THEN NoHeader ELSE hdr[s]],
         UNCHANGED seqNext
  PROVE  /\ hdr' \in [Slot -> Header \union {NoHeader}]
         /\ Distinct' /\ Numbered'
         /\ Slot \ Free' \subseteq Slot \ Free
         /\ \A s \in Slot \ Free' : hdr'[s] = hdr[s]
<1>1. hdr' \in [Slot -> Header \union {NoHeader}]
  BY DEF SlotsInv, StoreType
<1>2. /\ Slot \ Free' \subseteq Slot \ Free
      /\ \A s \in Slot \ Free' : hdr'[s] = hdr[s]
  BY DEF Free, HasHeader
<1>3. QED
  BY <1>1, <1>2 DEF SlotsInv, Distinct, Numbered

LEMMA EraseHeaderKeeps ==
  ASSUME SlotsInv, EraseHeader
  PROVE  SlotsInv'
<1>1. op \in HeaderOp /\ op.slot \in Slot /\ op.hdr \in Header /\ op.create \in BOOLEAN
  BY OpKinds DEF SlotsInv, StoreType, EraseHeader, HeaderOp, Idle, AppendOp, EraseOp
<1>2. UNCHANGED <<active, seqNext>> /\ op.pc = "erase_header"
  BY DEF EraseHeader
<1>3. ActiveShape'
  BY <1>2 DEF SlotsInv, StoreType, ActiveShape
<1>4. CASE Fault /\ op' = Idle
  <2>1. PICK S \in SUBSET Slot :
          hdr' = [s \in Slot |-> IF s \in S THEN NoHeader ELSE hdr[s]]
    <3>1. CASE hdr' = [hdr EXCEPT ![op.slot] = NoHeader]
      <4>1. hdr' = [s \in Slot |-> IF s \in {op.slot} THEN NoHeader ELSE hdr[s]]
        BY <3>1 DEF SlotsInv, StoreType
      <4>2. QED
        BY <4>1, <1>1
    <3>2. CASE UNCHANGED hdr
      <4>1. PICK none \in SUBSET Slot : none = {}
        OBVIOUS
      <4>2. hdr' = [s \in Slot |-> IF s \in none THEN NoHeader ELSE hdr[s]]
        BY <3>2, <4>1 DEF SlotsInv, StoreType
      <4>3. QED
        BY <4>2
    <3>3. QED
      BY <3>1, <3>2 DEF EraseHeader
  <2>2. op' \notin HeaderOp /\ op' \notin EraseOp
    BY <1>4 DEF Idle, HeaderOp, EraseOp
  <2>3. faults' \in Nat /\ faults' # 0
    BY <1>4 DEF Fault, SlotsInv, StoreType
  <2>4. StoreType' /\ Distinct' /\ Numbered'
    BY <1>2, <1>3, <1>4, <2>1, <2>3, HeaderErased DEF StoreType, SlotsInv
  <2>5. QED
    BY <2>2, <2>3, <2>4 DEF SlotsInv, Pending, Deleting, OpenBound
<1>5. CASE /\ hdr' = [hdr EXCEPT ![op.slot] = NoHeader]
           /\ op' = [op EXCEPT !.pc = "program_header"]
           /\ UNCHANGED faults
  <2>1. hdr' = [s \in Slot |-> IF s \in {op.slot} THEN NoHeader ELSE hdr[s]]
    BY <1>5 DEF SlotsInv, StoreType
  <2>2. /\ op' \in HeaderOp /\ op' \notin EraseOp
        /\ op'.pc = "program_header" /\ op'.slot = op.slot
        /\ op'.hdr = op.hdr /\ op'.create = op.create
    BY <1>1, <1>5 DEF HeaderOp, EraseOp
  <2>3. /\ StoreType' /\ Distinct' /\ Numbered'
        /\ Slot \ Free' \subseteq Slot \ Free
        /\ \A s \in Slot \ Free' : hdr'[s] = hdr[s]
    BY <1>1, <1>2, <1>3, <1>5, <2>1, <2>2, HeaderErased DEF StoreType, SlotsInv
  <2>4. Pending'
    <3>1. ~HasHeader(op.slot)'
      BY <1>1, <2>1, <2>2 DEF HasHeader
    <3>2. QED
      BY <1>1, <1>2, <2>2, <2>3, <3>1 DEF SlotsInv, Pending
  <2>5. OpenBound'
    <3>1. SUFFICES ASSUME faults = 0, active.valid
                   PROVE  \/ /\ op.slot = active.slot
                             /\ op.create \/ op.hdr.task = active.task
                          \/ Bound'
      BY <1>1, <1>2, <1>5, <2>2 DEF OpenBound
    <3>2. op \notin EraseOp
      BY <1>1 DEF HeaderOp, EraseOp
    <3>3. CASE op.slot = active.slot /\ Bound /\ ~op.create
      BY <1>1, <1>2, <3>3 DEF SlotsInv, Pending, Bound
    <3>4. CASE op.slot # active.slot /\ Bound
      <4>1. active.slot \in Slot
        BY <3>1 DEF SlotsInv, StoreType, ActiveShape, NoActive
      <4>2. hdr'[active.slot] = hdr[active.slot]
        BY <1>5, <3>4, <4>1 DEF SlotsInv, StoreType
      <4>3. QED
        BY <1>2, <3>4, <4>2 DEF Bound, HasHeader
    <3>5. QED
      BY <1>1, <3>1, <3>2, <3>3, <3>4 DEF SlotsInv, OpenBound
  <2>6. QED
    BY <2>2, <2>3, <2>4, <2>5 DEF SlotsInv, Deleting
<1>6. QED
  BY <1>4, <1>5 DEF EraseHeader

(* The header that a call was about to write disturbs no other.              *)
LEMMA HeaderWritten ==
  ASSUME SlotsInv, op \in HeaderOp, op.slot \in Slot, op.hdr \in Header,
         hdr' = [hdr EXCEPT ![op.slot] = op.hdr], UNCHANGED seqNext
  PROVE  /\ hdr' \in [Slot -> Header \union {NoHeader}]
         /\ Distinct' /\ Numbered'
         /\ op.slot \notin Free' /\ hdr'[op.slot] = op.hdr
         /\ \A s \in Slot : s # op.slot => hdr'[s] = hdr[s]
         /\ \A s \in Slot \ Free' : s # op.slot => s \in Slot \ Free
<1>1. /\ hdr' \in [Slot -> Header \union {NoHeader}]
      /\ hdr'[op.slot] = op.hdr
      /\ \A s \in Slot : s # op.slot => hdr'[s] = hdr[s]
  BY DEF SlotsInv, StoreType
<1>2. op.slot \notin Free'
  BY <1>1, HeaderIsHeader DEF Free, HasHeader
<1>3. \A s \in Slot \ Free' : s # op.slot => s \in Slot \ Free
  BY <1>1 DEF Free, HasHeader
<1>4. Distinct'
  BY <1>1, <1>3 DEF SlotsInv, Distinct, Pending
<1>5. Numbered'
  BY <1>1, <1>3 DEF SlotsInv, Numbered, Pending
<1>6. QED
  BY <1>1, <1>2, <1>3, <1>4, <1>5

LEMMA ProgramHeaderKeeps ==
  ASSUME SlotsInv, ProgramHeader
  PROVE  SlotsInv'
<1>1. op \in HeaderOp /\ op.slot \in Slot /\ op.hdr \in Header /\ op.create \in BOOLEAN
  BY OpKinds DEF SlotsInv, StoreType, ProgramHeader, HeaderOp, Idle, AppendOp, EraseOp
<1>2. UNCHANGED <<active, seqNext>> /\ op.pc = "program_header"
  BY DEF ProgramHeader
<1>3. ActiveShape'
  BY <1>2 DEF SlotsInv, StoreType, ActiveShape
<1>4. CASE /\ Fault /\ op' = Idle
           /\ hdr' = [hdr EXCEPT ![op.slot] = op.hdr] \/ UNCHANGED hdr
  <2>1. op' \notin HeaderOp /\ op' \notin EraseOp
    BY <1>4 DEF Idle, HeaderOp, EraseOp
  <2>2. faults' \in Nat /\ faults' # 0
    BY <1>4 DEF Fault, SlotsInv, StoreType
  <2>3. hdr' \in [Slot -> Header \union {NoHeader}] /\ Distinct' /\ Numbered'
    <3>1. CASE UNCHANGED hdr
      BY <1>2, <3>1 DEF SlotsInv, StoreType, Distinct, Numbered, Free, HasHeader
    <3>2. CASE hdr' = [hdr EXCEPT ![op.slot] = op.hdr]
      BY <1>1, <1>2, <3>2, HeaderWritten
    <3>3. QED
      BY <1>4, <3>1, <3>2
  <2>4. StoreType'
    BY <1>2, <1>3, <1>4, <2>2, <2>3 DEF SlotsInv, StoreType
  <2>5. QED
    BY <2>1, <2>2, <2>3, <2>4 DEF SlotsInv, Pending, Deleting, OpenBound
<1>5. CASE /\ hdr' = [hdr EXCEPT ![op.slot] = op.hdr]
           /\ op' = IF op.create THEN [op EXCEPT !.pc = "erase_pre"] ELSE Idle
           /\ UNCHANGED faults
  <2>1. /\ hdr' \in [Slot -> Header \union {NoHeader}]
        /\ Distinct' /\ Numbered'
        /\ op.slot \notin Free' /\ hdr'[op.slot] = op.hdr
        /\ \A s \in Slot : s # op.slot => hdr'[s] = hdr[s]
        /\ \A s \in Slot \ Free' : s # op.slot => s \in Slot \ Free
    BY <1>1, <1>2, <1>5, HeaderWritten
  <2>2. CASE op.create
    <3>1. /\ op' \in HeaderOp /\ op' \notin EraseOp
          /\ op'.pc = "erase_pre" /\ op'.slot = op.slot
          /\ op'.hdr = op.hdr /\ op'.create
      BY <1>1, <1>5, <2>2 DEF HeaderOp, EraseOp
    <3>2. StoreType'
      BY <1>2, <1>3, <1>5, <2>1, <3>1 DEF SlotsInv, StoreType
    <3>3. Pending'
      BY <1>1, <1>2, <2>1, <3>1 DEF SlotsInv, Pending
    <3>4. OpenBound'
      <4>1. SUFFICES ASSUME faults = 0, active.valid, op.slot # active.slot
                     PROVE  Bound'
        BY <1>2, <1>5, <3>1 DEF OpenBound
      <4>2. Bound /\ active.slot \in Slot
        BY <1>1, <4>1 DEF SlotsInv, OpenBound, StoreType, ActiveShape, NoActive,
                          HeaderOp, EraseOp
      <4>3. QED
        BY <1>2, <2>1, <4>1, <4>2 DEF Bound, HasHeader
    <3>5. QED
      BY <2>1, <3>1, <3>2, <3>3, <3>4 DEF SlotsInv, Deleting
  <2>3. CASE ~op.create
    <3>1. op' = Idle /\ op' \notin HeaderOp /\ op' \notin EraseOp
      BY <1>5, <2>3 DEF Idle, HeaderOp, EraseOp
    <3>2. StoreType'
      BY <1>2, <1>3, <1>5, <2>1, <3>1 DEF SlotsInv, StoreType
    <3>3. OpenBound'
      <4>1. SUFFICES ASSUME faults = 0, active.valid
                     PROVE  Bound'
        BY <1>2, <1>5 DEF OpenBound
      <4>2. op \notin EraseOp
        BY <1>1 DEF HeaderOp, EraseOp
      <4>3. CASE op.slot = active.slot /\ op.hdr.task = active.task
        BY <1>1, <1>2, <2>1, <4>3 DEF Bound, HasHeader, Free
      <4>4. CASE Bound
        <5>1. active.slot \in Slot
          BY <4>1 DEF SlotsInv, StoreType, ActiveShape, NoActive
        <5>2. CASE op.slot = active.slot
          BY <1>1, <1>2, <4>4, <5>2 DEF SlotsInv, Bound, Pending
        <5>3. CASE op.slot # active.slot
          BY <1>2, <2>1, <4>4, <5>1, <5>3 DEF Bound, HasHeader
        <5>4. QED
          BY <5>2, <5>3
      <4>5. QED
        BY <1>1, <2>3, <4>1, <4>2, <4>3, <4>4 DEF SlotsInv, OpenBound
    <3>4. QED
      BY <2>1, <3>1, <3>2, <3>3 DEF SlotsInv, Pending, Deleting
  <2>4. QED
    BY <1>1, <2>2, <2>3
<1>6. QED
  BY <1>4, <1>5 DEF ProgramHeader

LEMMA EraseFirstSectorKeeps ==
  ASSUME SlotsInv, EraseFirstSector
  PROVE  SlotsInv'
<1>1. PICK a \in Area :
        /\ op.pc = (IF a = "pre" THEN "erase_pre" ELSE "erase_data")
        /\ EraseSector(op.slot, a, 0) \/ EraseSectorFails(op.slot, a, 0)
        /\ op' = [op EXCEPT !.pc = IF a = "pre" THEN "erase_data" ELSE "open"]
        /\ UNCHANGED <<hdr, active, seqNext>>
  BY DEF EraseFirstSector
<1>2. op \in HeaderOp /\ op.pc \in {"erase_pre", "erase_data"}
  BY <1>1, OpKinds DEF SlotsInv, StoreType
<1>3. /\ op' \in HeaderOp /\ op' \notin EraseOp
      /\ op'.pc \in {"erase_data", "open"} /\ op'.slot = op.slot
      /\ op'.hdr = op.hdr /\ op'.create = op.create
  BY <1>1, <1>2 DEF HeaderOp, EraseOp
<1>4. faults' \in Nat /\ (faults' = 0 => faults = 0)
  BY <1>1 DEF EraseSector, EraseSectorFails, Fault, SlotsInv, StoreType
<1>5. StoreType' /\ Distinct' /\ Numbered'
  BY <1>1, <1>3, <1>4 DEF SlotsInv, StoreType, ActiveShape, Distinct, Numbered,
                          Free, HasHeader
<1>6. Pending'
  BY <1>1, <1>2, <1>3 DEF SlotsInv, Pending, Free, HasHeader
<1>7. op \notin EraseOp
  BY <1>2 DEF HeaderOp, EraseOp
<1>8. OpenBound'
  BY <1>1, <1>2, <1>3, <1>4, <1>7 DEF SlotsInv, OpenBound, Bound, HasHeader
<1>9. QED
  BY <1>3, <1>5, <1>6, <1>8 DEF SlotsInv, Deleting

LEMMA OpenBegunKeeps ==
  ASSUME SlotsInv, OpenBegun
  PROVE  SlotsInv'
<1>1. UNCHANGED <<hdr, seqNext, faults>> /\ op.pc = "open" /\ op' = Idle
      /\ active' = Opened(op.hdr.task, op.slot)
  BY DEF OpenBegun, boundVars
<1>2. op \in HeaderOp /\ op.slot \in Slot /\ op.hdr \in Header
  BY <1>1, OpKinds DEF SlotsInv, StoreType, HeaderOp, Idle, AppendOp, EraseOp
<1>3. hdr[op.slot] = op.hdr
  BY <1>1, <1>2 DEF SlotsInv, Pending
<1>4. active'.slot = op.slot /\ active'.task = op.hdr.task
  BY <1>1 DEF Opened
<1>5. ActiveShape'
  BY <1>1, <1>2, <1>4, HeaderIsHeader DEF ActiveShape, Opened
<1>6. Bound'
  BY <1>1, <1>2, <1>3, <1>4, HeaderIsHeader DEF Bound, HasHeader
<1>7. op' \notin HeaderOp /\ op' \notin EraseOp
  BY <1>1 DEF Idle, HeaderOp, EraseOp
<1>8. StoreType' /\ Distinct' /\ Numbered'
  BY <1>1, <1>5 DEF SlotsInv, StoreType, Distinct, Numbered, Free, HasHeader
<1>9. QED
  BY <1>6, <1>7, <1>8 DEF SlotsInv, Pending, Deleting, OpenBound
-----------------------------------------------------------------------------
(* Deletion and format.                                                      *)

LEMMA EraseRequestKeeps ==
  ASSUME SlotsInv, EraseAll \/ \E t \in Task : DeleteTask(t)
  PROVE  SlotsInv'
<1>1. UNCHANGED <<hdr, active, seqNext, faults>> /\ op = Idle
  BY DEF EraseAll, DeleteTask, EraseRequest
<1>2. BlocksPerSlot \in Nat /\ BlocksPerSlot > 0
  <2>1. \A n, b \in Nat : (b > 0 /\ b <= n) => n \div b \in Nat /\ n \div b > 0
    OBVIOUS
  <2>2. QED
    BY <2>1, Geometry DEF BlocksPerSlot
<1>3. op' \in EraseOp /\ op' \notin HeaderOp
      /\ (op'.tasks = Task \/ (~op'.all /\ hdr[op'.slot].task \in op'.tasks))
  <2>1. CASE EraseAll
    <3>1. 0 \in Slot
      BY FlashStoreAssumption DEF Slot, FlashStoreAssumption
    <3>2. QED
      BY <1>2, <2>1, <3>1 DEF EraseAll, EraseRequest, EraseOp, HeaderOp
  <2>2. ASSUME NEW t \in Task, DeleteTask(t)
        PROVE  op' \in EraseOp /\ op' \notin HeaderOp /\ ~op'.all
               /\ hdr[op'.slot].task \in op'.tasks
    <3>1. PICK s \in First(Holding(t)) : EraseRequest(FALSE, {t}, s)
      BY <2>2 DEF DeleteTask
    <3>2. s \in Slot /\ hdr[s].task = t
      BY DEF First, Holding
    <3>3. QED
      BY <1>2, <3>1, <3>2 DEF EraseRequest, EraseOp, HeaderOp
  <2>3. QED
    BY <2>1, <2>2
<1>4. StoreType' /\ Distinct' /\ Numbered'
  BY <1>1, <1>3 DEF SlotsInv, StoreType, ActiveShape, Distinct, Numbered, Free, HasHeader
<1>5. Deleting'
  BY <1>1, <1>3 DEF Deleting
<1>6. OpenBound'
  BY <1>1, <1>3 DEF SlotsInv, OpenBound, Bound, HasHeader, Idle, HeaderOp, EraseOp
<1>7. QED
  BY <1>3, <1>4, <1>5, <1>6 DEF SlotsInv, Pending

(* A block erase takes away the header of the slot being erased at most.     *)
LEMMA EraseBlockHeaders ==
  ASSUME SlotsInv, EraseBlock
  PROVE  /\ op \in EraseOp
         /\ hdr' \in [Slot -> Header \union {NoHeader}]
         /\ Distinct' /\ Numbered'
         /\ \A s \in Slot : hdr'[s] = hdr[s] \/ (s = op.slot /\ hdr'[s] = NoHeader)
<1>1. op \in EraseOp /\ op.slot \in Slot /\ op.block \in 0 .. BlocksPerSlot - 1
      /\ UNCHANGED seqNext
  BY OpKinds DEF SlotsInv, StoreType, EraseBlock, Idle, HeaderOp, AppendOp, EraseOp
<1> DEFINE sectors == Block(SlotBase(op.slot) + op.block * BlockSectors)
           S == {s \in Slot : SlotBase(s) \in sectors}
<1>2. CASE UNCHANGED hdr
  BY <1>1, <1>2 DEF SlotsInv, StoreType, Distinct, Numbered, Free, HasHeader
<1>3. CASE EraseSectors(sectors)
  <2>1. hdr' = [s \in Slot |-> IF s \in S THEN NoHeader ELSE hdr[s]]
    BY <1>3 DEF EraseSectors
  <2>2. \A s \in S : s = op.slot
    BY <1>1, BlockInSlot
  <2>3. S \in SUBSET Slot
    OBVIOUS
  <2> HIDE DEF S
  <2>4. hdr' \in [Slot -> Header \union {NoHeader}] /\ Distinct' /\ Numbered'
    BY <1>1, <2>1, <2>3, HeaderErased
  <2>5. QED
    BY <1>1, <2>1, <2>2, <2>4
<1>4. QED
  BY <1>2, <1>3 DEF EraseBlock

LEMMA EraseBlockKeeps ==
  ASSUME SlotsInv, EraseBlock
  PROVE  SlotsInv'
<1>1. /\ op \in EraseOp /\ op \notin HeaderOp
      /\ hdr' \in [Slot -> Header \union {NoHeader}]
      /\ Distinct' /\ Numbered'
      /\ \A s \in Slot : hdr'[s] = hdr[s] \/ (s = op.slot /\ hdr'[s] = NoHeader)
  BY EraseBlockHeaders DEF EraseOp, HeaderOp
<1>2. UNCHANGED seqNext /\ faults' \in Nat /\ (faults' = 0 => faults = 0)
  BY DEF EraseBlock, Fault, SlotsInv, StoreType
<1>3. \/ op' = [op EXCEPT !.block = @ + 1] /\ op.block < BlocksPerSlot - 1
         /\ UNCHANGED active
      \/ SlotDone
  BY DEF EraseBlock
<1>4. /\ op.slot \in Nat /\ op.slot < Slots /\ Slots \in Nat
      /\ op.block \in Nat /\ op.tasks \in SUBSET Task /\ op.all \in BOOLEAN
      /\ op.block < BlocksPerSlot
  <2>1. BlocksPerSlot \in Nat
    BY Geometry, Floor DEF BlocksPerSlot
  <2>2. QED
    BY <1>1, <2>1, FlashStoreAssumption DEF EraseOp, Slot, FlashStoreAssumption
<1>5. \/ /\ op' = Idle
         /\ active' = IF \E t \in op.tasks : IsOpen(t) THEN NoActive ELSE active
      \/ /\ op' \in EraseOp /\ op'.tasks = op.tasks /\ op'.all = op.all
         /\ op.all \/ op'.slot = op.slot
         /\ UNCHANGED active
  <2>1. BlocksPerSlot \in Nat /\ op.slot \in Slot /\ op \in EraseOp
    BY <1>1, Geometry, Floor DEF BlocksPerSlot, EraseOp
  <2>2. CASE op' = [op EXCEPT !.block = @ + 1] /\ op.block < BlocksPerSlot - 1
             /\ UNCHANGED active
    <3>1. op.block + 1 \in 0 .. BlocksPerSlot - 1
      BY <1>4, <2>1, <2>2
    <3>2. QED
      BY <2>1, <2>2, <3>1 DEF EraseOp
  <2>3. CASE SlotDone
    <3>1. CASE op.all /\ op.slot < Slots - 1
      <4>1. op.slot + 1 \in Slot /\ 0 \in 0 .. BlocksPerSlot - 1
        BY <1>4, <2>1, <3>1 DEF Slot
      <4>2. op' = [op EXCEPT !.slot = @ + 1, !.block = 0] /\ UNCHANGED active
        BY <2>3, <3>1 DEF SlotDone
      <4>3. QED
        BY <2>1, <3>1, <4>1, <4>2 DEF EraseOp
    <3>2. CASE ~(op.all /\ op.slot < Slots - 1)
      BY <2>3, <3>2 DEF SlotDone
    <3>3. QED
      BY <3>1, <3>2
  <2>4. QED
    BY <1>3, <2>2, <2>3
<1>6. op' \notin HeaderOp /\ op' \in {Idle} \union EraseOp /\ (op' = Idle => op' \notin EraseOp)
  BY <1>5 DEF Idle, HeaderOp, EraseOp
<1>7. active' \in {active, NoActive} /\ ActiveShape'
  BY <1>5 DEF SlotsInv, StoreType, ActiveShape
<1>8. StoreType'
  BY <1>1, <1>2, <1>6, <1>7 DEF SlotsInv, StoreType
<1>9. Deleting'
  <2>1. SUFFICES ASSUME op' \in EraseOp, op.tasks # Task
                 PROVE  ~op.all /\ (HasHeader(op.slot)' => hdr'[op.slot].task \in op.tasks)
                        /\ op'.slot = op.slot /\ op'.tasks = op.tasks /\ op'.all = op.all
    BY <1>5, <1>6 DEF Deleting, HasHeader
  <2>2. ~op.all /\ (HasHeader(op.slot) => hdr[op.slot].task \in op.tasks)
    BY <1>1, <2>1 DEF SlotsInv, Deleting
  <2>3. op'.slot = op.slot /\ op'.tasks = op.tasks /\ op'.all = op.all
    BY <1>5, <1>6, <2>1, <2>2
  <2>4. hdr'[op.slot] = hdr[op.slot] \/ hdr'[op.slot] = NoHeader
    BY <1>1, <1>4 DEF Slot
  <2>5. QED
    BY <2>2, <2>3, <2>4 DEF HasHeader
<1>10. OpenBound'
  <2>1. SUFFICES ASSUME faults = 0, active'.valid
                 PROVE  (op' \in EraseOp /\ active'.task \in op'.tasks) \/ Bound'
    BY <1>2 DEF OpenBound
  <2>2. active' = active /\ active.valid
    BY <1>7, <2>1 DEF NoActive
  <2>3. active.slot \in Slot /\ active.task \in Task
    BY <2>2 DEF SlotsInv, StoreType, ActiveShape, NoActive
  <2>4. CASE active.task \in op.tasks
    <3>1. op' \in EraseOp /\ op'.tasks = op.tasks
      BY <1>5, <2>2, <2>4 DEF IsOpen, NoActive
    <3>2. QED
      BY <2>2, <2>4, <3>1
  <2>5. CASE active.task \notin op.tasks
    <3>1. Bound
      BY <1>1, <2>1, <2>2, <2>5 DEF SlotsInv, OpenBound
    <3>2. op.slot # active.slot
      BY <1>1, <2>3, <2>5, <3>1 DEF SlotsInv, Deleting, Bound
    <3>3. hdr'[active.slot] = hdr[active.slot]
      BY <1>1, <2>3, <3>2
    <3>4. QED
      BY <2>2, <3>1, <3>3 DEF Bound, HasHeader
  <2>6. QED
    BY <2>4, <2>5
<1>11. QED
  BY <1>1, <1>6, <1>8, <1>9, <1>10 DEF SlotsInv, Pending
-----------------------------------------------------------------------------
(* After a reset the next number is one more than any in flash.              *)
LEMMA ResetKeeps ==
  ASSUME SlotsInv, Reset
  PROVE  SlotsInv'
<1>1. UNCHANGED <<hdr, faults>> /\ op' = Idle /\ active' = NoActive
  BY DEF Reset
<1>2. op' \notin HeaderOp /\ op' \notin EraseOp /\ ~active'.valid
  BY <1>1 DEF Idle, HeaderOp, EraseOp, NoActive
<1>3. \A s \in Slot \ Free : hdr[s].seq \in Nat
  BY HeaderIsHeader DEF SlotsInv, StoreType, Free, HasHeader
<1>4. seqNext' \in Nat /\ \A s \in Slot \ Free : hdr[s].seq < seqNext'
  BY <1>3 DEF Reset
<1>5. StoreType'
  BY <1>1, <1>4 DEF SlotsInv, StoreType, ActiveShape
<1>6. Distinct' /\ Numbered'
  BY <1>1, <1>4 DEF SlotsInv, Distinct, Numbered, Free, HasHeader
<1>7. QED
  BY <1>2, <1>5, <1>6 DEF SlotsInv, Pending, Deleting, OpenBound

LEMMA SlotsStep == SlotsInv /\ [Next]_vars => SlotsInv'
<1> SUFFICES ASSUME SlotsInv, [Next]_vars PROVE SlotsInv'
  OBVIOUS
<1>1. CASE HeaderNext
  BY <1>1, EraseHeaderKeeps, ProgramHeaderKeeps, EraseFirstSectorKeeps,
     OpenBegunKeeps, BeginKeeps, RewriteKeeps DEF HeaderNext
<1>2. CASE RecordNext
  BY <1>2, AppendStepKeeps, ReadKeeps, AppendRecordKeeps DEF RecordNext
<1>3. CASE EraseNext
  BY <1>3, EraseBlockKeeps, EraseRequestKeeps DEF EraseNext
<1>4. CASE Reset
  BY <1>4, ResetKeeps
<1>5. CASE UNCHANGED vars
  BY <1>5, FrameSlots DEF vars, boundVars
<1>6. QED
  BY <1>1, <1>2, <1>3, <1>4, <1>5 DEF Next

(* Whatever is begun, rewritten, appended, read, deleted or formatted, and   *)
(* whatever fails or is reset, the slots stay consistent, for any number of  *)
(* tasks and slots and any size of sectors, areas and blocks.                *)
THEOREM SlotsStayConsistent == Spec => []SlotsConsistent
<1>1. SlotsInv => SlotsConsistent
  <2> SUFFICES ASSUME SlotsInv PROVE SlotsConsistent
    OBVIOUS
  <2>1. ASSUME op = Idle, faults = 0, active.valid
        PROVE  active.slot \notin Free /\ hdr[active.slot].task = active.task
    <3>1. op \notin HeaderOp /\ op \notin EraseOp
      BY <2>1 DEF Idle, HeaderOp, EraseOp
    <3>2. QED
      BY <2>1, <3>1 DEF SlotsInv, OpenBound, Bound, Free
  <2>2. QED
    BY <2>1 DEF SlotsInv, Distinct, Numbered, SlotsConsistent
<1>2. QED
  BY SlotsInit, SlotsStep, <1>1, PTL DEF Spec
=============================================================================
