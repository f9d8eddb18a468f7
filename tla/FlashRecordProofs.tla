-------------------------- MODULE FlashRecordProofs --------------------------
(***************************************************************************)
(* Proofs about the record areas of the task store, for any number of      *)
(* tasks and slots and any size of sectors, areas and blocks: the sizes    *)
(* and erase addresses kept in RAM stay within their areas, what was       *)
(* acknowledged stays in place, and while nothing fails records go to      *)
(* erased words only.                                                      *)
(***************************************************************************)
EXTENDS FlashStoreProofs, EndSearchProofs

-----------------------------------------------------------------------------
(* Sizes.                                                                    *)

LEMMA Sizes ==
  /\ SectorWords \in Nat /\ SectorWords >= 2
  /\ \A a \in Area :
       /\ AreaSectors(a) \in Nat /\ AreaSectors(a) > 0
       /\ AreaWords(a) = SectorWords * AreaSectors(a)
       /\ AreaWords(a) \in Nat /\ AreaWords(a) >= 2
       /\ Records(a) \in Nat \ {0}
       /\ 2 * Records(a) <= AreaWords(a) /\ AreaWords(a) < 2 * Records(a) + 2
<1>1. SectorWords \in Nat /\ SectorWords >= 2
  BY FlashStoreAssumption DEF FlashStoreAssumption
<1>2. ASSUME NEW a \in Area
      PROVE  /\ AreaSectors(a) \in Nat /\ AreaSectors(a) > 0
             /\ AreaWords(a) = SectorWords * AreaSectors(a)
  BY FlashStoreAssumption DEF FlashStoreAssumption, AreaSectors, AreaWords
<1>3. ASSUME NEW n \in Nat, n > 0
      PROVE  SectorWords * n \in Nat /\ SectorWords * n >= 2
  <2>1. n - 1 \in Nat /\ SectorWords * n = SectorWords * (n - 1) + SectorWords
    BY <1>1, <1>3
  <2>2. SectorWords * (n - 1) \in Nat
    BY <1>1, <2>1
  <2>3. QED
    BY <1>1, <2>1, <2>2
<1>4. ASSUME NEW a \in Area
      PROVE  /\ AreaWords(a) \in Nat /\ AreaWords(a) >= 2
             /\ Records(a) \in Nat \ {0}
             /\ 2 * Records(a) <= AreaWords(a) /\ AreaWords(a) < 2 * Records(a) + 2
  <2>1. AreaWords(a) \in Nat /\ AreaWords(a) >= 2
    BY <1>2, <1>3
  <2>2. Records(a) = AreaWords(a) \div 2
    BY DEF Records, RecordWords
  <2>3. QED
    BY <2>1, <2>2
<1>5. QED
  BY <1>1, <1>2, <1>4

(* Of two multiples of the sector size the larger is larger by a sector.     *)
LEMMA Multiples ==
  ASSUME NEW j \in Nat, NEW k \in Nat, j * SectorWords < k * SectorWords
  PROVE  j * SectorWords + SectorWords <= k * SectorWords
<1> DEFINE N == SectorWords
<1>1. N \in Nat
  BY Sizes
<1> HIDE DEF N
<1>2. j < k
  <2>1. CASE k <= j
    <3>1. j - k \in Nat /\ j = k + (j - k)
      BY <2>1
    <3>2. PICK d \in Nat : j = k + d
      BY <3>1
    <3>3. j * N = k * N + d * N /\ d * N \in Nat /\ k * N \in Nat
      BY <1>1, <3>2
    <3>4. QED
      BY <3>3 DEF N
  <2>2. QED
    BY <2>1
<1>3. k - j - 1 \in Nat /\ k = j + 1 + (k - j - 1)
  BY <1>2
<1>4. PICK d \in Nat : k = j + 1 + d
  BY <1>3
<1>5. k * N = j * N + N + d * N /\ d * N \in Nat /\ j * N \in Nat
  BY <1>1, <1>4
<1>6. QED
  BY <1>1, <1>5 DEF N

(* The sector that a word lies in.                                           *)
Sector(w) == w \div SectorWords

LEMMA SectorIs ==
  ASSUME NEW k \in Nat, NEW i \in Nat
  PROVE  /\ Sector(i) \in Nat
         /\ Sector(i) * SectorWords <= i
         /\ i < Sector(i) * SectorWords + SectorWords
         /\ i \in k * SectorWords .. k * SectorWords + SectorWords - 1
              <=> Sector(i) = k
<1> DEFINE N == SectorWords
           q == Sector(i)
<1>1. N \in Nat /\ N >= 2 /\ N > 0
  BY Sizes
<1>2. q \in Nat /\ q * N <= i /\ i < q * N + N
  BY <1>1, Floor DEF Sector
<1>3. q * N \in Nat /\ k * N \in Nat
  BY <1>1, <1>2
<1>4. ASSUME k * N <= i, i < k * N + N, q # k PROVE FALSE
  <2>a. k * N < q * N => k * N + N <= q * N
    BY <1>2, Multiples
  <2>b. q * N < k * N => q * N + N <= k * N
    BY <1>2, Multiples
  <2> HIDE DEF q, N
  <2>1. ~(k * N < q * N)
    BY <1>1, <1>2, <1>3, <1>4, <2>a
  <2>2. ~(q * N < k * N)
    BY <1>1, <1>2, <1>3, <1>4, <2>b
  <2>3. q * N = k * N
    BY <1>3, <2>1, <2>2
  <2>4. ASSUME NEW x \in Nat, NEW y \in Nat, x < y PROVE x * N < y * N
    <3>1. y - x - 1 \in Nat /\ y = x + 1 + (y - x - 1)
      BY <2>4
    <3>2. PICK d \in Nat : y = x + 1 + d
      BY <3>1
    <3>3. y * N = x * N + N + d * N /\ d * N \in Nat /\ x * N \in Nat
      BY <1>1, <3>2
    <3>4. QED
      BY <1>1, <3>3
  <2>5. ~(k < q) /\ ~(q < k)
    BY <1>2, <1>3, <2>3, <2>4
  <2>6. QED
    BY <1>2, <1>4, <2>5
<1> HIDE DEF q, N
<1>5. i \in k * N .. k * N + N - 1 <=> (k * N <= i /\ i < k * N + N)
  BY <1>1, <1>3
<1>6. q = k => (k * N <= i /\ i < k * N + N)
  BY <1>2
<1>7. QED
  BY <1>2, <1>4, <1>5, <1>6 DEF q, N

(* The next sector to be erased begins at the size or behind it, at the      *)
(* border that follows, and within the area.                                 *)
LEMMA NextEraseIs ==
  ASSUME NEW a \in Area, NEW size \in Nat, size <= AreaWords(a)
  PROVE  /\ NextErase(size) \in Nat
         /\ size <= NextErase(size) /\ NextErase(size) < size + SectorWords
         /\ NextErase(size) <= AreaWords(a)
         /\ \E k \in Nat : NextErase(size) = k * SectorWords
<1> DEFINE N == SectorWords
           x == size + N - 1
           q == x \div N
<1>1. N \in Nat /\ N >= 2 /\ N > 0 /\ AreaSectors(a) \in Nat
      /\ AreaWords(a) = AreaSectors(a) * N /\ AreaWords(a) \in Nat
  BY Sizes
<1>2. x \in Nat
  BY <1>1
<1>3. q \in Nat /\ q * N <= x /\ x < q * N + N
  BY <1>1, <1>2, Floor
<1>4. NextErase(size) = q * N
  BY DEF NextErase
<1> HIDE DEF q
<1>5. q * N \in Nat
  BY <1>1, <1>3
<1>6. size <= q * N /\ q * N < size + N
  BY <1>1, <1>3, <1>5
<1>7. q * N <= AreaWords(a)
  <2>1. AreaSectors(a) * N < q * N => AreaSectors(a) * N + N <= q * N
    BY <1>1, <1>3, Multiples
  <2> HIDE DEF N
  <2>2. QED
    BY <1>1, <1>5, <1>6, <2>1
<1>8. QED
  BY <1>3, <1>4, <1>5, <1>6, <1>7
-----------------------------------------------------------------------------
(* What programming and erasing do, word by word.                            *)

Shaped(f) == f = [s \in Slot |-> [a \in Area |-> f[s][a]]]

WordShape ==
  /\ Shaped(word)
  /\ \A s \in Slot, a \in Area : word[s][a] \in [Index(a) -> Word]

Replaced(new, old, s, a, f) == new = [old EXCEPT ![s] = [old[s] EXCEPT ![a] = f]]

Differs(new, old, s, a, f) ==
  \A r \in Slot, b \in Area :
    new[r][b] = IF r = s /\ b = a THEN f ELSE old[r][b]

LEMMA PartReplaced ==
  ASSUME NEW old, NEW new, NEW f, NEW s \in Slot, NEW a \in Area,
         Shaped(old), Replaced(new, old, s, a, f)
  PROVE  Shaped(new) /\ Differs(new, old, s, a, f)
<1> USE DEF Shaped, Replaced, Differs
<1>1. \A r \in Slot : old[r] = [b \in Area |-> old[r][b]]
  OBVIOUS
<1>2. DOMAIN old = Slot
  OBVIOUS
<1> DEFINE g == [old[s] EXCEPT ![a] = f]
<1>3. /\ g = [b \in Area |-> g[b]]
      /\ \A b \in Area : g[b] = IF b = a THEN f ELSE old[s][b]
  BY <1>1
<1> HIDE DEF g
<1>4. new = [r \in Slot |-> IF r = s THEN g ELSE old[r]]
  BY <1>2 DEF g
<1>5. \A r \in Slot : new[r] = [b \in Area |-> new[r][b]]
  BY <1>1, <1>3, <1>4
<1>6. new = [r \in Slot |-> [b \in Area |-> new[r][b]]]
  BY <1>4, <1>5
<1>7. QED
  BY <1>3, <1>4, <1>6

LEMMA WriteIs ==
  ASSUME WordShape, NEW s \in Slot, NEW a \in Area, NEW w \in Index(a),
         NEW n \in Word, Write(s, a, w, n)
  PROVE  /\ WordShape'
         /\ \A r \in Slot, b \in Area : \A i \in Index(b) :
              word'[r][b][i] = IF r = s /\ b = a /\ i = w THEN n ELSE word[r][b][i]
<1> DEFINE f == [word[s][a] EXCEPT ![w] = n]
<1>1. word' = [word EXCEPT ![s] = [word[s] EXCEPT ![a] = f]]
  BY DEF Write
<1>2. /\ f \in [Index(a) -> Word]
      /\ \A i \in Index(a) : f[i] = IF i = w THEN n ELSE word[s][a][i]
  BY DEF WordShape
<1> HIDE DEF f
<1>3. Shaped(word') /\ Differs(word', word, s, a, f)
  <2>1. Replaced(word', word, s, a, f)
    BY <1>1 DEF Replaced
  <2>2. QED
    BY <2>1, PartReplaced DEF WordShape
<1>4. \A r \in Slot, b \in Area : word'[r][b] \in [Index(b) -> Word]
  BY <1>2, <1>3 DEF WordShape, Differs
<1>5. ASSUME NEW r \in Slot, NEW b \in Area, NEW i \in Index(b)
      PROVE  word'[r][b][i] = IF r = s /\ b = a /\ i = w THEN n ELSE word[r][b][i]
  BY <1>2, <1>3 DEF Differs
<1>6. QED
  BY <1>3, <1>4, <1>5 DEF WordShape

LEMMA EraseIs ==
  ASSUME WordShape, NEW s \in Slot, NEW a \in Area, NEW w,
         word' = ErasedWords(s, a, w)
  PROVE  /\ WordShape'
         /\ \A r \in Slot, b \in Area : \A i \in Index(b) :
              word'[r][b][i] =
                IF r = s /\ b = a /\ i \in w .. w + SectorWords - 1
                THEN Erased ELSE word[r][b][i]
<1> DEFINE gone == w .. w + SectorWords - 1
           f == [i \in Index(a) |-> IF i \in gone THEN Erased ELSE word[s][a][i]]
<1>1. word' = [word EXCEPT ![s] = [word[s] EXCEPT ![a] = f]]
  BY DEF ErasedWords
<1> HIDE DEF gone
<1>2. f \in [Index(a) -> Word]
  BY FlashStoreAssumption DEF WordShape, Erased, Word, FlashStoreAssumption
<1>3. \A i \in Index(a) : f[i] = IF i \in gone THEN Erased ELSE word[s][a][i]
  OBVIOUS
<1> HIDE DEF f
<1>4. Shaped(word') /\ Differs(word', word, s, a, f)
  <2>1. Replaced(word', word, s, a, f)
    BY <1>1 DEF Replaced
  <2>2. QED
    BY <2>1, PartReplaced DEF WordShape
<1>5. \A r \in Slot, b \in Area : word'[r][b] \in [Index(b) -> Word]
  BY <1>2, <1>4 DEF WordShape, Differs
<1>6. ASSUME NEW r \in Slot, NEW b \in Area, NEW i \in Index(b)
      PROVE  word'[r][b][i] = IF r = s /\ b = a /\ i \in gone
                              THEN Erased ELSE word[r][b][i]
  BY <1>3, <1>4 DEF Differs
<1>7. QED
  BY <1>4, <1>5, <1>6 DEF WordShape, gone

LEMMA EraseSectorsIs ==
  ASSUME WordShape, NEW sectors, EraseSectors(sectors)
  PROVE  /\ WordShape'
         /\ \A r \in Slot, b \in Area : \A i \in Index(b) :
              word'[r][b][i] = IF SectorOf(r, b, i) \in sectors
                               THEN Erased ELSE word[r][b][i]
<1> DEFINE f(r, b) == [i \in Index(b) |-> IF SectorOf(r, b, i) \in sectors
                                          THEN Erased ELSE word[r][b][i]]
<1>1. word' = [r \in Slot |-> [b \in Area |-> f(r, b)]]
  BY DEF EraseSectors
<1>2. \A r \in Slot, b \in Area : f(r, b) \in [Index(b) -> Word]
  BY FlashStoreAssumption DEF WordShape, Erased, Word, FlashStoreAssumption
<1>3. \A r \in Slot, b \in Area : \A i \in Index(b) :
        f(r, b)[i] = IF SectorOf(r, b, i) \in sectors THEN Erased ELSE word[r][b][i]
  OBVIOUS
<1> HIDE DEF f
<1>4. \A r \in Slot, b \in Area : word'[r][b] = f(r, b)
  BY <1>1
<1>5. Shaped(word')
  BY <1>1 DEF Shaped
<1>6. QED
  BY <1>2, <1>3, <1>4, <1>5 DEF WordShape
-----------------------------------------------------------------------------
(* Types.  The sizes are even and the next sector to be erased is one that   *)
(* holds no record; a record that is half programmed fits.                   *)

SizesOk(act) ==
  \A a \in Area : /\ act.size[a] % 2 = 0
                  /\ act.size[a] <= act.next[a] /\ act.next[a] <= AreaWords(a)
                  /\ \E k \in Nat : act.next[a] = k * SectorWords

HistoryType ==
  /\ made \in 0 .. MaxRecords /\ failed \in BOOLEAN
  /\ log \in [Task -> [Area -> SUBSET Entry]]
  /\ stale \subseteq Slot /\ holed \subseteq Slot
  /\ erases \in 0 .. MaxErases /\ resets \in 0 .. MaxResets
  /\ faults \in 0 .. MaxFaults

OpenType ==
  /\ active \in Active \union {NoActive}
  /\ active.valid => SizesOk(active)
  /\ op \in AppendOp => active.valid
  /\ op.pc = "tail" => Fits /\ Ready

RecordType == WordShape /\ HistoryType /\ OpenType

LEMMA ActiveIs ==
  /\ ~NoActive.valid /\ NoActive \notin Active
  /\ \A act \in Active \union {NoActive} :
       act.valid => /\ act \in Active
                    /\ act.slot \in Slot /\ act.task \in Task
                    /\ act.size \in [Area -> Nat] /\ act.next \in [Area -> Nat]
  /\ \A act \in Active : act.valid
<1>1. ~NoActive.valid
  BY DEF NoActive
<1>2. \A act \in Active :
        /\ act.valid
        /\ act.slot \in Slot /\ act.task \in Task
        /\ act.size \in [Area -> Nat] /\ act.next \in [Area -> Nat]
  BY DEF Active
<1>3. QED
  BY <1>1, <1>2

LEMMA TypesTogether == StoreType /\ RecordType => TypeOK
<1> SUFFICES ASSUME StoreType, RecordType PROVE TypeOK
  OBVIOUS
<1>1. ASSUME active.valid, NEW a \in Area
      PROVE  active.size[a] <= AreaWords(a) /\ active.next[a] <= AreaWords(a)
  <2>1. active.size[a] \in Nat /\ active.next[a] \in Nat
    BY <1>1, ActiveIs DEF RecordType, OpenType
  <2>2. active.size[a] <= active.next[a] /\ active.next[a] <= AreaWords(a)
    BY <1>1 DEF RecordType, OpenType, SizesOk
  <2>3. QED
    BY <2>1, <2>2, Sizes
<1>2. \A s \in Slot, a \in Area : word[s][a] \in [Index(a) -> Word]
  BY DEF RecordType, WordShape
<1>3. QED
  BY <1>1, <1>2 DEF StoreType, RecordType, HistoryType, OpenType, TypeOK

(* The size found in an area is even and no larger than the area.            *)
LEMMA ScanIs ==
  ASSUME NEW a \in Area, NEW words
  PROVE  LET e == End(Found(words, a), Records(a)) IN
           /\ e \in 0 .. Records(a) /\ Scan(words, a) = 2 * e
           /\ Scan(words, a) \in Nat /\ Scan(words, a) % 2 = 0
           /\ Scan(words, a) <= AreaWords(a)
<1> DEFINE e == End(Found(words, a), Records(a))
<1>1. /\ Records(a) \in Nat \ {0} /\ AreaWords(a) \in Nat
      /\ 2 * Records(a) <= AreaWords(a)
  BY Sizes
<1>2. e \in 0 .. Records(a)
  BY <1>1, EndBorder
<1>3. Scan(words, a) = 2 * e
  BY DEF Scan, RecordWords
<1> HIDE DEF e
<1>4. QED
  BY <1>1, <1>2, <1>3 DEF e

LEMMA OpenedOk ==
  ASSUME NEW t \in Task, NEW s \in Slot
  PROVE  /\ Opened(t, s) \in Active /\ SizesOk(Opened(t, s))
         /\ Opened(t, s).slot = s /\ Opened(t, s).task = t
         /\ \A a \in Area : /\ Opened(t, s).size[a] = Scan(word[s][a], a)
                            /\ Opened(t, s).next[a] = NextErase(Scan(word[s][a], a))
<1> DEFINE act == Opened(t, s)
           size == [a \in Area |-> Scan(word[s][a], a)]
           next == [a \in Area |-> NextErase(size[a])]
<1>1. act = [valid |-> TRUE, slot |-> s, task |-> t, size |-> size, next |-> next]
  BY DEF Opened
<1>2. ASSUME NEW a \in Area
      PROVE  /\ Scan(word[s][a], a) \in Nat
             /\ Scan(word[s][a], a) <= AreaWords(a)
             /\ Scan(word[s][a], a) % 2 = 0
             /\ NextErase(Scan(word[s][a], a)) \in Nat
             /\ Scan(word[s][a], a) <= NextErase(Scan(word[s][a], a))
             /\ NextErase(Scan(word[s][a], a)) <= AreaWords(a)
             /\ \E k \in Nat : NextErase(Scan(word[s][a], a)) = k * SectorWords
  <2>1. /\ Scan(word[s][a], a) \in Nat
        /\ Scan(word[s][a], a) <= AreaWords(a)
        /\ Scan(word[s][a], a) % 2 = 0
    BY ScanIs
  <2>2. QED
    BY <2>1, NextEraseIs
<1>3. \A a \in Area : /\ size[a] = Scan(word[s][a], a)
                      /\ next[a] = NextErase(Scan(word[s][a], a))
  OBVIOUS
<1>4. size \in [Area -> Nat] /\ next \in [Area -> Nat]
  BY <1>2
<1> HIDE DEF size, next
<1>5. act \in Active /\ act.slot = s /\ act.task = t /\ act.size = size /\ act.next = next
  BY <1>1, <1>4 DEF Active
<1>6. SizesOk(act)
  BY <1>2, <1>3, <1>5 DEF SizesOk
<1>7. QED
  BY <1>3, <1>5, <1>6
-----------------------------------------------------------------------------
LEMMA CallKinds ==
  \A o : /\ (o = Idle \/ o \in HeaderOp \/ o \in EraseOp)
              => o \notin AppendOp /\ o.pc \notin {"prepare", "tail"}
         /\ o \in AppendOp => /\ o.pc \in {"prepare", "tail"}
                              /\ o.area \in Area /\ o.num \in 1 .. MaxRecords
         /\ o \in HeaderOp => /\ o.slot \in Slot /\ o.hdr \in Header
                              /\ o.hdr.task \in Task /\ o.create \in BOOLEAN
                              /\ o.pc # "block"
         /\ o \in EraseOp => /\ o.slot \in Slot /\ o.tasks \in SUBSET Task
                             /\ o.block \in 0 .. BlocksPerSlot - 1 /\ o.pc = "block"
BY DEF Idle, HeaderOp, AppendOp, EraseOp, Header

(* The call under way, by its program counter.                               *)
LEMMA UnderWay ==
  ASSUME StoreType
  PROVE  /\ op.pc \in {"prepare", "tail"} => op \in AppendOp
         /\ op.pc = "block" => op \in EraseOp
         /\ op.pc \in {"erase_header", "program_header", "erase_pre", "erase_data",
                       "open"} => op \in HeaderOp
BY OpKinds DEF StoreType

LEMMA RecordTypeInit == Init => RecordType
<1> SUFFICES ASSUME Init PROVE RecordType
  OBVIOUS
<1>1. \A s \in Slot, a \in Area : /\ word[s] = Blank /\ word[s][a] \in [Index(a) -> Word]
                                  /\ Blank = [b \in Area |-> Blank[b]]
  BY FlashStoreAssumption DEF Init, Blank, Word, Erased, FlashStoreAssumption
<1>2. WordShape
  <2>1. Shaped(word)
    <3>1. \A s \in Slot : [a \in Area |-> word[s][a]] = word[s]
      <4>1. Blank = [a \in Area |-> Blank[a]]
        BY DEF Blank
      <4>2. \A s \in Slot : word[s] = Blank
        BY DEF Init
      <4>3. QED
        BY <4>1, <4>2
    <3>2. word = [s \in Slot |-> word[s]]
      BY DEF Init
    <3>3. QED
      BY <3>1, <3>2 DEF Shaped
  <2>2. QED
    BY <1>1, <2>1 DEF WordShape
<1>3. HistoryType
  <2>1. log \in [Task -> [Area -> SUBSET Entry]] /\ stale = {} /\ holed = {}
    BY DEF Init, NoLog
  <2>2. /\ made = 0 /\ failed = FALSE /\ erases = 0 /\ resets = 0 /\ faults = 0
        /\ MaxRecords \in Nat /\ MaxErases \in Nat /\ MaxResets \in Nat
        /\ MaxFaults \in Nat
    BY FlashStoreAssumption DEF Init, FlashStoreAssumption
  <2>3. /\ made \in 0 .. MaxRecords /\ erases \in 0 .. MaxErases
        /\ resets \in 0 .. MaxResets /\ faults \in 0 .. MaxFaults
    BY <2>2
  <2>4. failed \in BOOLEAN /\ stale \subseteq Slot /\ holed \subseteq Slot
    BY <2>1, <2>2
  <2>5. QED
    BY <2>1, <2>3, <2>4 DEF HistoryType
<1>4. OpenType
  BY CallKinds, ActiveIs DEF Init, OpenType, Idle
<1>5. QED
  BY <1>2, <1>3, <1>4 DEF RecordType

(* What no append is under way for keeps the open slot as it was or closes   *)
(* it.                                                                       *)
LEMMA OpenTypeKept ==
  ASSUME OpenType, active' \in {active, NoActive},
         op' = Idle \/ op' \in HeaderOp \/ op' \in EraseOp
  PROVE  OpenType'
<1>1. op' \notin AppendOp /\ op'.pc # "tail"
  BY CallKinds
<1>2. active' \in Active \union {NoActive} /\ (active'.valid => SizesOk(active'))
  BY ActiveIs DEF OpenType
<1>3. QED
  BY <1>1, <1>2 DEF OpenType, SizesOk

LEMMA FaultTypes ==
  ASSUME HistoryType, Fault \/ UNCHANGED faults
  PROVE  faults' \in 0 .. MaxFaults
BY FlashStoreAssumption DEF HistoryType, Fault, FlashStoreAssumption

(* Begins and rewrites: the calls and their headers.                         *)
LEMMA HeaderTypes ==
  ASSUME SlotsInv, SlotsInv', RecordType, HeaderNext
  PROVE  RecordType'
<1>1. ASSUME UNCHANGED <<word, active, made, failed, erases, resets>>,
             log' \in [Task -> [Area -> SUBSET Entry]],
             stale' \subseteq Slot, holed' \subseteq Slot,
             Fault \/ UNCHANGED faults,
             op' = Idle \/ op' \in HeaderOp
      PROVE  RecordType'
  <2>1. WordShape'
    BY <1>1 DEF RecordType, WordShape, Shaped
  <2>2. HistoryType'
    BY <1>1, FaultTypes DEF RecordType, HistoryType
  <2>3. OpenType'
    BY <1>1, OpenTypeKept DEF RecordType
  <2>4. QED
    BY <2>1, <2>2, <2>3 DEF RecordType
<1>2. /\ log \in [Task -> [Area -> SUBSET Entry]]
      /\ stale \subseteq Slot /\ holed \subseteq Slot
  BY DEF RecordType, HistoryType
<1>3. \A o : o \in {Idle} \union HeaderOp \union AppendOp \union EraseOp =>
         (o.pc \in {"idle", "erase_header", "program_header", "erase_pre",
                    "erase_data", "open"} => o = Idle \/ o \in HeaderOp)
  BY DEF Idle, HeaderOp, AppendOp, EraseOp
<1>4. op' \in {Idle} \union HeaderOp \union AppendOp \union EraseOp
  BY DEF SlotsInv, StoreType
<1>5. CASE EraseHeader
  <2>1. op.hdr.task \in Task
    BY <1>5, UnderWay, CallKinds DEF SlotsInv, EraseHeader
  <2>2. log' \in [Task -> [Area -> SUBSET Entry]]
    BY <1>2, <1>5, <2>1 DEF EraseHeader, NoLog
  <2>3. op' = Idle \/ op' \in HeaderOp
    <3>1. op \in HeaderOp
      BY <1>5, UnderWay DEF SlotsInv, EraseHeader
    <3>2. op' = [op EXCEPT !.pc = "program_header"] \/ op' = Idle
      BY <1>5 DEF EraseHeader
    <3>3. QED
      BY <3>1, <3>2 DEF HeaderOp
  <2>4. Fault \/ UNCHANGED faults
    BY <1>5 DEF EraseHeader
  <2>5. QED
    BY <1>1, <1>2, <1>5, <2>2, <2>3, <2>4 DEF EraseHeader
<1>6. CASE ProgramHeader
  <2>1. op \in HeaderOp /\ op.slot \in Slot
    BY <1>6, UnderWay, CallKinds DEF SlotsInv, ProgramHeader
  <2>2. op' = Idle \/ op' \in HeaderOp
    <3>1. op' = [op EXCEPT !.pc = "erase_pre"] \/ op' = Idle
      BY <1>6 DEF ProgramHeader
    <3>2. QED
      BY <2>1, <3>1 DEF HeaderOp
  <2>3. /\ stale' \subseteq Slot /\ holed' \subseteq Slot
        /\ Fault \/ UNCHANGED faults
    BY <1>2, <1>6, <2>1 DEF ProgramHeader, WrongAbout
  <2>4. QED
    BY <1>1, <1>2, <1>6, <2>2, <2>3 DEF ProgramHeader
<1>7. CASE EraseFirstSector
  <2>1. PICK a \in Area :
          /\ op.pc = (IF a = "pre" THEN "erase_pre" ELSE "erase_data")
          /\ EraseSector(op.slot, a, 0) \/ EraseSectorFails(op.slot, a, 0)
          /\ op' = [op EXCEPT !.pc = IF a = "pre" THEN "erase_data" ELSE "open"]
          /\ UNCHANGED <<hdr, active, seqNext, made, failed, log, stale, holed, erases, resets>>
    BY <1>7 DEF EraseFirstSector
  <2>2. op \in HeaderOp /\ op.slot \in Slot
    BY <2>1, UnderWay, CallKinds DEF SlotsInv
  <2>3. WordShape'
    <3>1. CASE UNCHANGED word
      BY <3>1 DEF RecordType, WordShape, Shaped
    <3>2. CASE word' = ErasedWords(op.slot, a, 0)
      BY <2>2, <3>2, EraseIs DEF RecordType
    <3>3. QED
      BY <2>1, <3>1, <3>2 DEF EraseSector, EraseSectorFails
  <2>4. HistoryType'
    <3>1. Fault \/ UNCHANGED faults
      BY <2>1 DEF EraseSector, EraseSectorFails
    <3>2. QED
      BY <2>1, <3>1, FaultTypes DEF RecordType, HistoryType
  <2>5. OpenType'
    <3>1. op' \in HeaderOp
      BY <2>1, <2>2 DEF HeaderOp
    <3>2. QED
      BY <2>1, <3>1, OpenTypeKept DEF RecordType
  <2>6. QED
    BY <2>3, <2>4, <2>5 DEF RecordType
<1>8. CASE OpenBegun
  <2>1. /\ op' = Idle /\ active' = Opened(op.hdr.task, op.slot)
        /\ UNCHANGED <<word, made, failed, log, holed, erases, resets, faults>>
        /\ stale' \subseteq stale
    BY <1>8 DEF OpenBegun, boundVars
  <2>2. op.slot \in Slot /\ op.hdr.task \in Task
    BY <1>8, UnderWay, CallKinds DEF SlotsInv, OpenBegun
  <2>3. active' \in Active /\ SizesOk(active')
    BY <2>1, <2>2, OpenedOk
  <2>4. OpenType'
    BY <2>1, <2>3, CallKinds DEF OpenType, SizesOk
  <2>5. QED
    BY <2>1, <2>4 DEF RecordType, HistoryType, WordShape, Shaped
<1>9. ASSUME NEW t \in Task, BeginTask(t) \/ RewriteHeader(t)
      PROVE  RecordType'
  <2>1. op' = Idle \/ op' \in HeaderOp
    <3>1. op'.pc = "erase_header"
      BY <1>9 DEF BeginTask, RewriteHeader
    <3>2. QED
      BY <1>3, <1>4, <3>1
  <2>2. UNCHANGED <<word, active, made, failed, log, stale, holed, erases, resets, faults>>
    BY <1>9 DEF BeginTask, RewriteHeader, boundVars
  <2>3. QED
    BY <1>1, <1>2, <2>1, <2>2
<1>10. QED
  BY <1>5, <1>6, <1>7, <1>8, <1>9 DEF HeaderNext
-----------------------------------------------------------------------------
(* Where the record under way goes.                                          *)
LEMMA PlaceIs ==
  ASSUME RecordType, op \in AppendOp
  PROVE  /\ active \in Active /\ active.slot \in Slot /\ active.task \in Task
         /\ active.size \in [Area -> Nat] /\ active.next \in [Area -> Nat]
         /\ op.area \in Area /\ op.num \in 1 .. MaxRecords
         /\ op.num \in Word /\ op.num # Erased
         /\ Garbled \in Word /\ Garbled # Erased /\ MaxRecords \in Nat
         /\ Place \in Nat /\ Place % 2 = 0
         /\ Place <= active.next[op.area] /\ active.next[op.area] <= AreaWords(op.area)
         /\ Fits => Place \in Index(op.area) /\ Place + 1 \in Index(op.area)
<1>1. active.valid /\ active \in Active /\ SizesOk(active)
  BY ActiveIs DEF RecordType, OpenType
<1>2. /\ active.slot \in Slot /\ active.task \in Task
      /\ active.size \in [Area -> Nat] /\ active.next \in [Area -> Nat]
  BY <1>1, ActiveIs
<1>3. op.area \in Area /\ op.num \in 1 .. MaxRecords
  BY CallKinds
<1>4. MaxRecords \in Nat
  BY FlashStoreAssumption DEF FlashStoreAssumption
<1>5. /\ op.num \in Word /\ op.num # Erased
      /\ Garbled \in Word /\ Garbled # Erased
  BY <1>3, <1>4 DEF Word, Erased, Garbled
<1>6. /\ Place \in Nat /\ Place % 2 = 0
      /\ Place <= active.next[op.area] /\ active.next[op.area] <= AreaWords(op.area)
  BY <1>1, <1>2, <1>3 DEF Place, SizesOk
<1>7. Fits => Place \in Index(op.area) /\ Place + 1 \in Index(op.area)
  <2>1. AreaWords(op.area) \in Nat
    BY <1>3, Sizes
  <2>2. Fits => Place + 2 <= AreaWords(op.area)
    BY DEF Fits, RecordWords
  <2>3. QED
    BY <1>6, <2>1, <2>2 DEF Index
<1>8. QED
  BY <1>1, <1>2, <1>3, <1>4, <1>5, <1>6, <1>7

LEMMA NextGrows ==
  ASSUME RecordType, op \in AppendOp, Fits, ~Ready
  PROVE  /\ active.next[op.area] + SectorWords <= AreaWords(op.area)
         /\ \E k \in Nat : active.next[op.area] + SectorWords = k * SectorWords
<1> DEFINE n == active.next[op.area]
           N == SectorWords
           K == AreaSectors(op.area)
<1>1. /\ op.area \in Area /\ n \in Nat /\ Place \in Nat
      /\ active.valid
  BY PlaceIs DEF RecordType, OpenType
<1>2. N \in Nat /\ K \in Nat /\ AreaWords(op.area) = K * N /\ AreaWords(op.area) \in Nat
  BY <1>1, Sizes
<1>3. PICK k \in Nat : n = k * N
  BY <1>1 DEF RecordType, OpenType, SizesOk
<1>4. n < AreaWords(op.area)
  BY <1>1, <1>2 DEF Fits, Ready, RecordWords
<1>5. k * N < K * N => k * N + N <= K * N
  BY <1>2, <1>3, Multiples
<1> HIDE DEF n, N, K
<1>6. n + N <= AreaWords(op.area)
  BY <1>2, <1>3, <1>4, <1>5
<1>7. n + N = (k + 1) * N /\ k + 1 \in Nat
  BY <1>2, <1>3
<1>8. QED
  BY <1>6, <1>7 DEF n, N

LEMMA AppendTypes ==
  ASSUME SlotsInv, SlotsInv', RecordType,
         AppendFull \/ AppendErase \/ AppendHead \/ AppendTail
  PROVE  RecordType'
<1> DEFINE s == active.slot
           a == op.area
<1>1. op \in AppendOp
  BY UnderWay DEF SlotsInv, AppendFull, AppendErase, AppendHead, AppendTail
<1>2. /\ active \in Active /\ s \in Slot /\ active.task \in Task
      /\ active.size \in [Area -> Nat] /\ active.next \in [Area -> Nat]
      /\ a \in Area /\ op.num \in 1 .. MaxRecords
      /\ op.num \in Word /\ Garbled \in Word
      /\ Place \in Nat /\ Place % 2 = 0
      /\ Place <= active.next[a] /\ active.next[a] <= AreaWords(a)
      /\ Fits => Place \in Index(a) /\ Place + 1 \in Index(a)
  BY <1>1, PlaceIs
<1>3. SizesOk(active)
  BY <1>2, ActiveIs DEF RecordType, OpenType
<1>4. op.pc = "tail" => Fits /\ Ready
  BY DEF RecordType, OpenType
<1>5. WordShape'
  <2>1. CASE UNCHANGED word
    BY <2>1 DEF RecordType, WordShape, Shaped
  <2>2. ASSUME NEW w, word' = ErasedWords(s, a, w) PROVE WordShape'
    BY <1>2, <2>2, EraseIs DEF RecordType
  <2>3. ASSUME NEW w \in Index(a), NEW n \in Word, Write(s, a, w, n) PROVE WordShape'
    BY <1>2, <2>3, WriteIs DEF RecordType
  <2>4. CASE AppendFull
    BY <2>1, <2>4 DEF AppendFull
  <2>5. CASE AppendErase
    BY <2>1, <2>2, <2>5 DEF AppendErase, EraseSector, EraseSectorFails
  <2>6. CASE AppendHead
    BY <1>2, <2>1, <2>3, <2>6 DEF AppendHead, ProgramOk, ProgramFails
  <2>7. CASE AppendTail
    BY <1>2, <1>4, <2>1, <2>3, <2>7 DEF AppendTail, ProgramOk, ProgramFails
  <2>8. QED
    BY <2>4, <2>5, <2>6, <2>7
<1>6. HistoryType'
  <2>1. Fault \/ UNCHANGED faults
    BY DEF AppendFull, AppendErase, AppendHead, AppendTail, EraseSector,
           EraseSectorFails, ProgramOk, ProgramFails, boundVars
  <2>2. failed' \in BOOLEAN
    BY DEF RecordType, HistoryType, AppendFull, AppendErase, AppendHead, AppendTail,
           AppendFails
  <2>3. UNCHANGED <<made, stale, holed, erases, resets>>
    BY DEF AppendFull, AppendErase, AppendHead, AppendTail, boundVars
  <2>4. log' \in [Task -> [Area -> SUBSET Entry]]
    <3>1. CASE UNCHANGED log
      BY <3>1 DEF RecordType, HistoryType
    <3>2. CASE log' = [log EXCEPT ![active.task][op.area] =
                         @ \union {[num |-> op.num, slot |-> active.slot, at |-> Place]}]
      <4>1. [num |-> op.num, slot |-> active.slot, at |-> Place] \in Entry
        BY <1>2 DEF Entry
      <4>2. QED
        BY <1>2, <3>2, <4>1 DEF RecordType, HistoryType
    <3>3. QED
      BY <3>1, <3>2 DEF AppendFull, AppendErase, AppendHead, AppendTail
  <2>5. QED
    BY <2>1, <2>2, <2>3, <2>4, FaultTypes DEF RecordType, HistoryType
<1>7. OpenType'
  <2>1. op' = Idle => op' \notin AppendOp /\ op'.pc # "tail"
    BY CallKinds
  <2>2. CASE op' = Idle /\ UNCHANGED active
    BY <2>2, OpenTypeKept DEF RecordType
  <2>3. CASE AppendErase /\ UNCHANGED op
             /\ active' = [active EXCEPT !.next[op.area] = @ + SectorWords]
    <3> DEFINE n == active.next[a] + SectorWords
    <3>1. n <= AreaWords(a) /\ (\E k \in Nat : n = k * SectorWords)
      BY <1>1, <2>3, NextGrows DEF AppendErase
    <3>2. n \in Nat /\ active.size[a] <= n
      BY <1>2, Sizes DEF Place
    <3> HIDE DEF n
    <3>3. /\ active' \in Active /\ active'.size = active.size
          /\ active'.next = [active.next EXCEPT ![a] = n]
      <4>1. active' = [active EXCEPT !.next = [active.next EXCEPT ![a] = n]]
        BY <2>3 DEF n
      <4>2. [active.next EXCEPT ![a] = n] \in [Area -> Nat]
        BY <1>2, <3>2
      <4>3. QED
        BY <1>2, <4>1, <4>2 DEF Active
    <3>4. SizesOk(active')
      BY <1>2, <1>3, <3>1, <3>2, <3>3 DEF SizesOk
    <3>5. op'.pc # "tail" /\ active'.valid
      BY <2>3, <3>3, ActiveIs DEF AppendErase
    <3>6. QED
      BY <3>3, <3>4, <3>5 DEF OpenType, SizesOk
  <2>4. CASE AppendHead /\ op' = [op EXCEPT !.pc = "tail"]
    <3>1. op'.area = op.area /\ active' = active
      BY <1>1, <2>4 DEF AppendHead, AppendOp
    <3>2. Fits' /\ Ready'
      BY <2>4, <3>1 DEF AppendHead, Fits, Ready, Place
    <3>3. QED
      BY <1>2, <1>3, <3>1, <3>2, ActiveIs DEF OpenType, SizesOk
  <2>5. CASE AppendTail /\ op' = Idle
             /\ active' = [active EXCEPT !.size[op.area] = @ + RecordWords]
    <3> DEFINE n == active.size[a] + RecordWords
    <3>1. n \in Nat /\ n % 2 = 0
      BY <1>2 DEF Place, RecordWords
    <3>2. n <= active.next[a]
      BY <1>2, <1>4, <2>5 DEF AppendTail, Ready, Place, RecordWords
    <3> HIDE DEF n
    <3>3. /\ active' \in Active /\ active'.next = active.next
          /\ active'.size = [active.size EXCEPT ![a] = n]
      <4>1. active' = [active EXCEPT !.size = [active.size EXCEPT ![a] = n]]
        BY <2>5 DEF n
      <4>2. [active.size EXCEPT ![a] = n] \in [Area -> Nat]
        BY <1>2, <3>1
      <4>3. QED
        BY <1>2, <4>1, <4>2 DEF Active
    <3>4. SizesOk(active')
      BY <1>2, <1>3, <3>1, <3>2, <3>3 DEF SizesOk
    <3>5. QED
      BY <2>1, <2>5, <3>3, <3>4, ActiveIs DEF OpenType, SizesOk
  <2>6. QED
    BY <2>2, <2>3, <2>4, <2>5
       DEF AppendFull, AppendErase, AppendHead, AppendTail, AppendFails
<1>8. QED
  BY <1>5, <1>6, <1>7 DEF RecordType

(* Opening the slot of a task to read it or to append to it.                 *)
LEMMA FirstHolding ==
  ASSUME NEW t, NEW s \in First(Holding(t))
  PROVE  s \in Slot /\ HasHeader(s) /\ hdr[s].task = t
BY DEF First, Holding

LEMMA OpeningTypes ==
  ASSUME RecordType, NEW t \in Task,
         \/ UNCHANGED active
         \/ \E s \in First(Holding(t)) : active' = Opened(t, s)
  PROVE  /\ active' \in Active \union {NoActive}
         /\ active'.valid => SizesOk(active')
<1>1. CASE UNCHANGED active
  BY <1>1 DEF RecordType, OpenType
<1>2. CASE \E s \in First(Holding(t)) : active' = Opened(t, s)
  <2>1. PICK s \in First(Holding(t)) : active' = Opened(t, s)
    BY <1>2
  <2>2. s \in Slot
    BY <2>1, FirstHolding
  <2>3. Opened(t, s) \in Active /\ SizesOk(Opened(t, s))
    BY <2>2, OpenedOk
  <2>4. QED
    BY <2>1, <2>3
<1>3. QED
  BY <1>1, <1>2

LEMMA ReadTypes ==
  ASSUME RecordType, NEW t \in Task, OpenForRead(t)
  PROVE  RecordType'
<1>1. UNCHANGED <<word, op, made, failed, log, stale, holed, erases, resets, faults>>
      /\ op = Idle
  BY DEF OpenForRead, boundVars
<1>2. \/ UNCHANGED active
      \/ \E s \in First(Holding(t)) : active' = Opened(t, s)
  BY DEF OpenForRead
<1>3. active' \in Active \union {NoActive} /\ (active'.valid => SizesOk(active'))
  BY <1>2, OpeningTypes
<1>4. op' \notin AppendOp /\ op'.pc # "tail"
  BY <1>1, CallKinds
<1>5. OpenType'
  BY <1>3, <1>4 DEF OpenType, SizesOk
<1>6. QED
  BY <1>1, <1>5 DEF RecordType, HistoryType, WordShape, Shaped

LEMMA AppendRecordTypes ==
  ASSUME RecordType, NEW t \in Task, NEW a \in Area, AppendRecord(t, a)
  PROVE  RecordType'
<1>1. UNCHANGED <<word, log, stale, holed, erases, resets, faults>> /\ op = Idle
  BY DEF AppendRecord, boundVars
<1>2. PICK n \in (IF failed THEN {made, made + 1} ELSE {made + 1}) :
        /\ n \in 1 .. MaxRecords
        /\ made' = n
        /\ \/ /\ IsOpen(t) /\ UNCHANGED <<active, failed>>
              /\ op' = [pc |-> "prepare", area |-> a, num |-> n]
           \/ /\ ~IsOpen(t)
              /\ \E s \in First(Holding(t)) : active' = Opened(t, s)
              /\ op' = [pc |-> "prepare", area |-> a, num |-> n]
              /\ UNCHANGED failed
           \/ /\ ~IsOpen(t) /\ Holding(t) = {}
              /\ failed' = TRUE
              /\ UNCHANGED <<active, op>>
  BY DEF AppendRecord
<1>3. /\ active' \in Active \union {NoActive}
      /\ active'.valid => SizesOk(active')
  BY <1>2, OpeningTypes
<1>4. op' \in AppendOp => active'.valid
  <2>1. CASE IsOpen(t) /\ UNCHANGED active
    BY <2>1 DEF IsOpen
  <2>2. CASE \E s \in First(Holding(t)) : active' = Opened(t, s)
    BY <2>2 DEF Opened
  <2>3. CASE UNCHANGED op
    BY <1>1, <2>3, CallKinds
  <2>4. QED
    BY <1>2, <2>1, <2>2, <2>3
<1>5. op'.pc # "tail"
  BY <1>1, <1>2 DEF Idle
<1>6. OpenType'
  BY <1>3, <1>4, <1>5 DEF OpenType, SizesOk
<1>7. made' \in 0 .. MaxRecords
  BY <1>2, FlashStoreAssumption DEF FlashStoreAssumption
<1>8. failed' \in BOOLEAN
  BY <1>2 DEF RecordType, HistoryType
<1>9. QED
  BY <1>1, <1>6, <1>7, <1>8 DEF RecordType, HistoryType, WordShape, Shaped

LEMMA RequestTypes ==
  ASSUME SlotsInv, SlotsInv', RecordType, EraseAll \/ \E t \in Task : DeleteTask(t)
  PROVE  RecordType'
<1>1. UNCHANGED <<word, active, made, failed, log, stale, holed, resets, faults>>
      /\ erases < MaxErases /\ erases' = erases + 1 /\ op'.pc = "block"
  BY DEF EraseAll, DeleteTask, EraseRequest
<1>2. op' \in EraseOp
  <2>1. op' \in {Idle} \union HeaderOp \union AppendOp \union EraseOp
    BY DEF SlotsInv, StoreType
  <2>2. QED
    BY <1>1, <2>1, CallKinds DEF Idle
<1>3. OpenType'
  BY <1>1, <1>2, OpenTypeKept DEF RecordType
<1>4. erases' \in 0 .. MaxErases
  BY <1>1, FlashStoreAssumption DEF FlashStoreAssumption, RecordType, HistoryType
<1>5. QED
  BY <1>1, <1>3, <1>4 DEF RecordType, HistoryType, WordShape, Shaped

(* A block erased, or some of the failures to.                               *)
LEMMA BlockTypes ==
  ASSUME SlotsInv, SlotsInv', RecordType, EraseBlock
  PROVE  RecordType'
<1> DEFINE sectors == Block(SlotBase(op.slot) + op.block * BlockSectors)
<1>1. \/ EraseSectors(sectors)
      \/ UNCHANGED <<hdr, word, log, stale, holed>>
  BY DEF EraseBlock
<1> HIDE DEF sectors
<1>2. WordShape'
  <2>1. CASE EraseSectors(sectors)
    BY <2>1, EraseSectorsIs DEF RecordType
  <2>2. CASE UNCHANGED word
    BY <2>2 DEF RecordType, WordShape, Shaped
  <2>3. QED
    BY <1>1, <2>1, <2>2
<1>3. log' \in [Task -> [Area -> SUBSET Entry]]
  BY <1>1 DEF RecordType, HistoryType, EraseSectors
<1>4. stale' \subseteq Slot /\ holed' \subseteq Slot
  BY <1>1, ActiveIs
     DEF RecordType, HistoryType, OpenType, EraseSectors, OpenHit, WrongAbout
<1>5. active' \in {active, NoActive}
  BY DEF EraseBlock, SlotDone
<1>6. op' = Idle \/ op' \in EraseOp
  <2>1. op'.pc \in {"idle", "block"}
    <3>1. op' = Idle \/ op'.pc = op.pc
      BY UnderWay DEF EraseBlock, SlotDone, EraseOp, SlotsInv
    <3>2. QED
      BY <3>1 DEF Idle, EraseBlock
  <2>2. op' \in {Idle} \union HeaderOp \union AppendOp \union EraseOp
    BY DEF SlotsInv, StoreType
  <2>3. QED
    BY <2>1, <2>2 DEF HeaderOp, AppendOp
<1>7. OpenType'
  BY <1>5, <1>6, OpenTypeKept DEF RecordType
<1>8. UNCHANGED <<made, failed, erases, resets>> /\ (Fault \/ UNCHANGED faults)
  BY DEF EraseBlock
<1>9. QED
  BY <1>2, <1>3, <1>4, <1>7, <1>8, FaultTypes DEF RecordType, HistoryType

LEMMA ResetTypes ==
  ASSUME RecordType, Reset
  PROVE  RecordType'
<1>1. /\ UNCHANGED <<word, made, log, stale, holed, erases, faults>>
      /\ resets < MaxResets /\ resets' = resets + 1
      /\ active' = NoActive /\ op' = Idle /\ failed' = FALSE
  BY DEF Reset
<1>2. resets' \in 0 .. MaxResets
  BY <1>1, FlashStoreAssumption DEF FlashStoreAssumption, RecordType, HistoryType
<1>3. OpenType'
  BY <1>1, OpenTypeKept DEF RecordType
<1>4. QED
  BY <1>1, <1>2, <1>3 DEF RecordType, HistoryType, WordShape, Shaped

(* Every step keeps the records' types.                                      *)
LEMMA RecordTypeStep == SlotsInv /\ SlotsInv' /\ RecordType /\ [Next]_vars => RecordType'
<1> SUFFICES ASSUME SlotsInv, SlotsInv', RecordType, [Next]_vars PROVE RecordType'
  OBVIOUS
<1>1. CASE HeaderNext
  BY <1>1, HeaderTypes
<1>2. CASE RecordNext
  BY <1>2, AppendTypes, ReadTypes, AppendRecordTypes DEF RecordNext
<1>3. CASE EraseNext
  BY <1>3, BlockTypes, RequestTypes DEF EraseNext
<1>4. CASE Reset
  BY <1>4, ResetTypes
<1>5. CASE UNCHANGED vars
  BY <1>5 DEF vars, boundVars, RecordType, HistoryType, WordShape, Shaped, OpenType,
              SizesOk, Fits, Ready, Place
<1>6. QED
  BY <1>1, <1>2, <1>3, <1>4, <1>5 DEF Next

(* The open slot's sizes and erase addresses, and every address that a call  *)
(* under way uses, stay inside their areas (app_storage.c:1224, 1282).       *)
THEOREM TypesStayCorrect == Spec => []TypeOK
<1>1. SlotsInv => StoreType
  BY DEF SlotsInv
<1>2. QED
  BY SlotsInit, SlotsStep, RecordTypeInit, RecordTypeStep, TypesTogether, <1>1, PTL
     DEF Spec
-----------------------------------------------------------------------------
(* Record numbers.  What was acknowledged is no newer than the last record   *)
(* given to an append, and older while that append is under way or after it  *)
(* failed.                                                                   *)
Nums ==
  /\ \A t \in Task, a \in Area : \A e \in log[t][a] :
       /\ e.num <= made
       /\ failed \/ op \in AppendOp => e.num < made
  /\ op \in AppendOp => op.num = made

LogShrinks == \A t \in Task, a \in Area : log'[t][a] \subseteq log[t][a]

Appended ==
  /\ op.pc = "tail" /\ op' = Idle /\ failed' = FALSE
  /\ log' = [log EXCEPT ![active.task][op.area] =
               @ \union {[num |-> op.num, slot |-> active.slot, at |-> Place]}]

(* Only an append adds to what is acknowledged.                              *)
LEMMA LogSteps ==
  ASSUME SlotsInv, RecordType, [Next]_vars
  PROVE  LogShrinks \/ (AppendTail /\ Appended)
<1>1. log \in [Task -> [Area -> SUBSET Entry]]
  BY DEF RecordType, HistoryType
<1>2. CASE UNCHANGED log
  BY <1>2 DEF LogShrinks
<1>3. CASE EraseHeader
  <2>1. log' = log \/ log' = [log EXCEPT ![op.hdr.task] = NoLog]
    BY <1>3 DEF EraseHeader
  <2>2. QED
    BY <1>1, <2>1 DEF LogShrinks, NoLog
<1>4. CASE AppendTail
  BY <1>2, <1>4 DEF AppendTail, Appended
<1>5. CASE EraseBlock
  <2>1. log' = log \/ \E sectors : EraseSectors(sectors)
    BY <1>5 DEF EraseBlock
  <2>2. ASSUME NEW sectors, EraseSectors(sectors) PROVE LogShrinks
    BY <1>1, <2>2 DEF LogShrinks, EraseSectors
  <2>3. QED
    BY <1>2, <2>1, <2>2
<1>6. QED
  BY <1>2, <1>3, <1>4, <1>5
     DEF Next, HeaderNext, RecordNext, EraseNext, vars, boundVars, ProgramHeader,
         EraseFirstSector, OpenBegun, BeginTask, RewriteHeader, AppendFull, AppendErase,
         AppendHead, OpenForRead, AppendRecord, EraseAll, DeleteTask, EraseRequest, Reset

LEMMA LogEntries ==
  ASSUME RecordType, NEW t \in Task, NEW a \in Area, NEW e \in log[t][a]
  PROVE  /\ e.num \in Nat /\ e.num # Erased /\ e.num \in 1 .. MaxRecords
         /\ e.slot \in Slot /\ e.at \in Nat
<1>1. e \in Entry
  BY DEF RecordType, HistoryType
<1>2. QED
  BY <1>1 DEF Entry, Erased

LEMMA NumsKept ==
  ASSUME Nums, RecordType, LogShrinks, UNCHANGED made,
         failed' => failed \/ op \in AppendOp,
         op' \in AppendOp => op \in AppendOp /\ op'.num = op.num
  PROVE  Nums'
BY DEF Nums, LogShrinks

LEMMA NumsAppended ==
  ASSUME Nums, RecordType, AppendTail, Appended, op \in AppendOp
  PROVE  Nums'
<1>1. /\ op.num = made /\ made' = made /\ failed' = FALSE /\ op' \notin AppendOp
      /\ op.num \in Nat
  BY CallKinds DEF Nums, AppendTail, Appended
<1>2. ASSUME NEW t \in Task, NEW a \in Area, NEW e \in log'[t][a] PROVE e.num <= made
  <2>1. e \in log[t][a] \/ e.num = op.num
    BY <1>2 DEF Appended, RecordType, HistoryType
  <2>2. CASE e \in log[t][a]
    BY <2>2 DEF Nums
  <2>3. QED
    BY <1>1, <2>1, <2>2
<1>3. QED
  BY <1>1, <1>2 DEF Nums

LEMMA NumsGiven ==
  ASSUME Nums, RecordType, NEW t \in Task, NEW a \in Area, AppendRecord(t, a)
  PROVE  Nums'
<1>1. PICK n \in (IF failed THEN {made, made + 1} ELSE {made + 1}) :
        /\ made' = n
        /\ op' = [pc |-> "prepare", area |-> a, num |-> n] \/ UNCHANGED op
  BY DEF AppendRecord
<1>2. op' \in AppendOp => op'.num = n
  BY <1>1, CallKinds DEF AppendRecord
<1>3. ASSUME NEW u \in Task, NEW b \in Area, NEW e \in log[u][b] PROVE e.num < n
  <2>1. e.num \in Nat /\ made \in Nat
    BY LogEntries DEF RecordType, HistoryType
  <2>2. e.num <= made /\ (failed => e.num < made)
    BY DEF Nums
  <2>3. QED
    BY <1>1, <2>1, <2>2
<1>4. n \in Nat /\ UNCHANGED log
  BY <1>1 DEF RecordType, HistoryType, AppendRecord
<1>5. \A u \in Task, b \in Area : \A e \in log[u][b] : e.num \in Nat
  BY LogEntries
<1>6. QED
  BY <1>1, <1>2, <1>3, <1>4, <1>5 DEF Nums

LEMMA NumsStep ==
  ASSUME SlotsInv, SlotsInv', RecordType, Nums, [Next]_vars
  PROVE  Nums'
<1>1. CASE \E t \in Task, a \in Area : AppendRecord(t, a)
  BY <1>1, NumsGiven
<1>2. CASE AppendTail /\ Appended
  BY <1>2, NumsAppended, UnderWay DEF SlotsInv, AppendTail
<1>3. CASE LogShrinks /\ ~\E t \in Task, a \in Area : AppendRecord(t, a)
  <2>1. UNCHANGED made
    BY <1>3 DEF Next, HeaderNext, RecordNext, EraseNext, vars, boundVars, ProgramHeader,
         EraseFirstSector, OpenBegun, BeginTask, RewriteHeader, EraseHeader, AppendFull,
         AppendErase, AppendHead, AppendTail, OpenForRead, EraseAll, DeleteTask,
         EraseRequest, EraseBlock, Reset
  <2>2. failed' => failed \/ op \in AppendOp
    BY <1>3, UnderWay DEF SlotsInv, Next, HeaderNext, RecordNext, EraseNext, vars,
         boundVars, ProgramHeader, EraseFirstSector, OpenBegun, BeginTask, RewriteHeader,
         EraseHeader, AppendFull, AppendErase, AppendHead, AppendTail, OpenForRead,
         EraseAll, DeleteTask, EraseRequest, EraseBlock, Reset
  <2>3. op' \in AppendOp => op \in AppendOp /\ op'.num = op.num
    <3>1. CASE op' = op \/ op' = Idle
      BY <3>1, CallKinds
    <3>2. CASE AppendHead
      BY <3>1, <3>2, UnderWay DEF SlotsInv, AppendHead, AppendOp, AppendFails
    <3>3. CASE HeaderNext
      <4>1. op' = Idle \/ op'.pc \in {"erase_header", "program_header", "erase_pre",
                                       "erase_data", "open"}
        BY <3>3, UnderWay DEF SlotsInv, HeaderNext, ProgramHeader, EraseFirstSector,
             OpenBegun, BeginTask, RewriteHeader, EraseHeader, HeaderOp
      <4>2. QED
        BY <4>1, CallKinds
    <3>4. CASE EraseNext
      <4>1. op' = Idle \/ op'.pc = "block"
        <5>1. CASE EraseBlock
          <6>1. op \in EraseOp
            BY <5>1, UnderWay DEF SlotsInv, EraseBlock
          <6>2. \/ op' = Idle
                \/ op' = [op EXCEPT !.block = @ + 1]
                \/ op' = [op EXCEPT !.slot = @ + 1, !.block = 0]
            BY <5>1 DEF EraseBlock, SlotDone
          <6>3. QED
            BY <6>1, <6>2 DEF EraseOp
        <5>2. QED
          BY <3>4, <5>1 DEF EraseNext, EraseAll, DeleteTask, EraseRequest
      <4>2. QED
        BY <4>1, CallKinds
    <3>5. QED
      BY <1>3, <3>1, <3>2, <3>3, <3>4 DEF Next, RecordNext, vars, AppendFull,
         AppendErase, AppendTail, AppendFails, OpenForRead, Reset
  <2>4. QED
    BY <1>3, <2>1, <2>2, <2>3, NumsKept
<1>4. QED
  BY <1>1, <1>2, <1>3, LogSteps
-----------------------------------------------------------------------------
(* Acknowledged records.  A slot belongs to the task of its header, also     *)
(* while that header is being written again or for the first time.           *)
Owner(s, t) ==
  \/ HasHeader(s) /\ hdr[s].task = t
  \/ op.pc = "program_header" /\ op.slot = s /\ op.hdr.task = t

Unlogged(t) == \A a \in Area : log[t][a] = {}

(* A search of the area does not end before its word i.                      *)
Reach(s, a, i) ==
  \E k \in Nat : i = 2 * k /\ Reaches(Found(word[s][a], a), Records(a), k)

InPlace(s, a, e) ==
  /\ e.slot = s /\ Reach(s, a, e.at + 2)
  /\ word[s][a][e.at] = e.num /\ word[s][a][e.at + 1] = e.num

Ordered(entries) ==
  \A e \in entries : \A f \in entries \ {e} : e.num <= f.num => e.at < f.at

Kept ==
  \A s \in Slot \ stale, t \in Task : Owner(s, t) =>
    \A a \in Area : /\ \A e \in log[t][a] : InPlace(s, a, e)
                    /\ Ordered(log[t][a])

(* The open slot, if it was never wrong about the flash: its sizes are       *)
(* behind what its task is owed, unless a begin has taken the slot for       *)
(* another task,                                                             *)
OpenKept ==
  (active.valid /\ active.slot \notin stale) =>
    \A t \in Task : Owner(active.slot, t) =>
      \A a \in Area : \A e \in log[t][a] :
        t = active.task /\ e.at + 2 <= active.size[a]

(* and a search would not end before them, unless a begin or a deletion that *)
(* is under way will open or close the slot when it is done.                 *)
Opening == op.pc \in {"erase_pre", "erase_data", "open"}

Live ==
  /\ active.valid /\ active.slot \notin stale /\ ~Opening
  /\ ~(op.pc = "block" /\ active.task \in op.tasks)

OpenReach == Live => \A a \in Area : Reach(active.slot, a, active.size[a])

(* Only a begin gives the task that is open a second slot.                   *)
Elsewhere ==
  active.valid =>
    \A s \in Slot \ (stale \union {active.slot}) : Owner(s, active.task) =>
      Opening \/ (op.pc = "program_header" /\ op.create /\ op.slot = s)

(* A task that is being begun is owed nothing, a slot that is being erased   *)
(* has lost its header first, and the head of a record is written before its *)
(* tail.                                                                     *)
Begun == (Opening \/ (op.pc = "program_header" /\ op.create)) => Unlogged(op.hdr.task)

Blocks == (op.pc = "block" /\ op.block > 0) => ~HasHeader(op.slot)

TailHead == op.pc = "tail" => word[active.slot][op.area][Place] = op.num

AckedInv ==
  Kept /\ OpenKept /\ OpenReach /\ Elsewhere /\ Begun /\ Blocks /\ TailHead
-----------------------------------------------------------------------------
(* What a step that leaves the words before i alone does to a search.        *)
WordsKept(s, a, i) == \A h \in Index(a) : h < i => word'[s][a][h] = word[s][a][h]

LEMMA ReachIs ==
  ASSUME NEW a \in Area, NEW s, NEW i, Reach(s, a, i)
  PROVE  /\ i \in Nat /\ i % 2 = 0 /\ i <= AreaWords(a)
         /\ i <= Scan(word[s][a], a)
<1>1. PICK k \in Nat : i = 2 * k /\ Reaches(Found(word[s][a], a), Records(a), k)
  BY DEF Reach
<1>2. Records(a) \in Nat \ {0} /\ 2 * Records(a) <= AreaWords(a) /\ AreaWords(a) \in Nat
  BY Sizes
<1>3. k \in 0 .. Records(a)
  BY <1>1 DEF Reaches
<1>4. k <= End(Found(word[s][a], a), Records(a))
  BY <1>1, <1>2, ReachedIsNotPassed
<1>5. /\ End(Found(word[s][a], a), Records(a)) \in Nat
      /\ Scan(word[s][a], a) = 2 * End(Found(word[s][a], a), Records(a))
  BY <1>2, ScanIs
<1>6. QED
  BY <1>1, <1>2, <1>3, <1>4, <1>5

LEMMA ScanReaches ==
  ASSUME NEW a \in Area, NEW s
  PROVE  Reach(s, a, Scan(word[s][a], a))
<1>1. Records(a) \in Nat \ {0}
  BY Sizes
<1>2. Reaches(Found(word[s][a], a), Records(a), End(Found(word[s][a], a), Records(a)))
  BY <1>1, EndIsReached
<1>3. /\ End(Found(word[s][a], a), Records(a)) \in 0 .. Records(a)
      /\ Scan(word[s][a], a) = 2 * End(Found(word[s][a], a), Records(a))
  BY ScanIs
<1>4. End(Found(word[s][a], a), Records(a)) \in Nat
  BY <1>1, <1>3
<1>5. QED
  BY <1>2, <1>3, <1>4 DEF Reach

LEMMA ReachGrows ==
  ASSUME NEW a \in Area, NEW s, NEW i, Reach(s, a, i),
         \A h \in Index(a) : h < i /\ word[s][a][h] # Erased => word'[s][a][h] # Erased
  PROVE  Reach(s, a, i)'
<1>1. PICK k \in Nat : i = 2 * k /\ Reaches(Found(word[s][a], a), Records(a), k)
  BY DEF Reach
<1>2. Records(a) \in Nat \ {0} /\ 2 * Records(a) <= AreaWords(a) /\ AreaWords(a) \in Nat
  BY Sizes
<1>3. k \in 0 .. Records(a)
  BY <1>1 DEF Reaches
<1>4. ASSUME NEW j \in Found(word[s][a], a) \intersect (0 .. k - 1)
      PROVE  j \in Found(word'[s][a], a)
  <2>1. /\ j \in 0 .. Records(a) - 1 /\ word[s][a][2 * j] # Erased
        /\ j < k
    BY <1>3, <1>4 DEF Found, RecordWords
  <2>2. 2 * j \in Index(a) /\ 2 * j < i
    BY <1>1, <1>2, <2>1 DEF Index
  <2>3. word'[s][a][2 * j] # Erased
    BY <2>1, <2>2
  <2>4. QED
    BY <2>1, <2>3 DEF Found, RecordWords
<1>5. Reaches(Found(word'[s][a], a), Records(a), k)
  BY <1>1, <1>2, <1>4, ReachesMore
<1>6. QED
  BY <1>1, <1>5 DEF Reach

LEMMA ReachKept ==
  ASSUME NEW a \in Area, NEW s, NEW i, Reach(s, a, i), WordsKept(s, a, i)
  PROVE  Reach(s, a, i)'
BY ReachGrows DEF WordsKept

LEMMA ReachRecord ==
  ASSUME NEW a \in Area, NEW s, NEW i, Reach(s, a, i), i + 2 <= AreaWords(a),
         word[s][a][i] # Erased
  PROVE  Reach(s, a, i + 2)
<1>1. PICK k \in Nat : i = 2 * k /\ Reaches(Found(word[s][a], a), Records(a), k)
  BY DEF Reach
<1>2. /\ Records(a) \in Nat \ {0} /\ AreaWords(a) < 2 * Records(a) + 2
      /\ AreaWords(a) \in Nat
  BY Sizes
<1>3. k < Records(a)
  BY <1>1, <1>2
<1>4. k \in Found(word[s][a], a)
  BY <1>1, <1>2, <1>3 DEF Found, RecordWords
<1>5. Reaches(Found(word[s][a], a), Records(a), k + 1)
  BY <1>1, <1>2, <1>3, <1>4, ReachesNext
<1>6. k + 1 \in Nat /\ i + 2 = 2 * (k + 1)
  BY <1>1
<1>7. QED
  BY <1>5, <1>6 DEF Reach

LEMMA InPlaceKept ==
  ASSUME NEW a \in Area, NEW s \in Slot, NEW e, e.at \in Nat, InPlace(s, a, e),
         WordsKept(s, a, e.at + 2)
  PROVE  InPlace(s, a, e)'
<1>1. Reach(s, a, e.at + 2) /\ AreaWords(a) \in Nat
  BY Sizes DEF InPlace
<1>2. e.at + 2 <= AreaWords(a)
  BY <1>1, ReachIs
<1>3. e.at \in Index(a) /\ e.at + 1 \in Index(a)
  BY <1>1, <1>2 DEF Index
<1>4. word'[s][a][e.at] = word[s][a][e.at] /\ word'[s][a][e.at + 1] = word[s][a][e.at + 1]
  BY <1>3 DEF WordsKept
<1>5. Reach(s, a, e.at + 2)'
  BY <1>1, ReachKept
<1>6. QED
  BY <1>4, <1>5 DEF InPlace
-----------------------------------------------------------------------------
(* What steps of every kind preserve.                                        *)
OwnersKept ==
  \A s \in Slot, t \in Task : Owner(s, t)' => Owner(s, t) \/ Unlogged(t)'

WordsStay ==
  \A s \in Slot \ stale', t \in Task, a \in Area : \A e \in log'[t][a] :
    Owner(s, t) /\ Owner(s, t)' => WordsKept(s, a, e.at + 2)

LEMMA KeptStep ==
  ASSUME RecordType, Kept, LogShrinks, OwnersKept, WordsStay, stale \subseteq stale'
  PROVE  Kept'
<1> SUFFICES ASSUME NEW s \in Slot \ stale', NEW t \in Task, Owner(s, t)',
                    NEW a \in Area
             PROVE  /\ \A e \in log'[t][a] : InPlace(s, a, e)'
                    /\ Ordered(log'[t][a])
  BY DEF Kept
<1>1. CASE Unlogged(t)'
  BY <1>1 DEF Unlogged, Ordered
<1>2. CASE Owner(s, t)
  <2>1. /\ \A e \in log[t][a] : InPlace(s, a, e)
        /\ Ordered(log[t][a])
    BY <1>2 DEF Kept
  <2>2. log'[t][a] \subseteq log[t][a]
    BY DEF LogShrinks
  <2>3. ASSUME NEW e \in log'[t][a] PROVE InPlace(s, a, e)'
    <3>1. InPlace(s, a, e) /\ e.at \in Nat
      BY <2>1, <2>2, <2>3, LogEntries
    <3>2. WordsKept(s, a, e.at + 2)
      BY <1>2 DEF WordsStay
    <3>3. QED
      BY <3>1, <3>2, InPlaceKept
  <2>4. Ordered(log'[t][a])
    BY <2>1, <2>2 DEF Ordered
  <2>5. QED
    BY <2>3, <2>4
<1>3. QED
  BY <1>1, <1>2 DEF OwnersKept

(* The open slot stays open, or nothing is open any more.                    *)
ActiveStays ==
  active'.valid => /\ active.valid /\ active'.slot = active.slot
                   /\ active'.task = active.task

LEMMA OpenKeptStep ==
  ASSUME RecordType, OpenKept, LogShrinks, OwnersKept, stale \subseteq stale',
         ActiveStays,
         active'.valid => \A a \in Area : /\ active'.size[a] \in Nat
                                          /\ active.size[a] <= active'.size[a]
  PROVE  OpenKept'
<1> SUFFICES ASSUME active'.valid, active'.slot \notin stale', NEW t \in Task,
                    Owner(active.slot, t)', NEW a \in Area, NEW e \in log'[t][a]
             PROVE  t = active'.task /\ e.at + 2 <= active'.size[a]
  <2>1. active'.valid => active'.slot = active.slot
    BY DEF ActiveStays
  <2>2. QED
    BY <2>1 DEF OpenKept, Owner, HasHeader
<1>1. /\ active.valid /\ active'.slot = active.slot /\ active'.task = active.task
      /\ active.slot \notin stale /\ active.slot \in Slot
  BY ActiveIs DEF ActiveStays, RecordType, OpenType
<1>2. Owner(active.slot, t)
  <2>1. (HasHeader(active.slot)' /\ hdr'[active.slot].task = t)
          \/ (op'.pc = "program_header" /\ op'.slot = active.slot /\ op'.hdr.task = t)
    BY <1>1 DEF Owner, HasHeader
  <2>2. \A r \in Slot : Owner(r, t)' => Owner(r, t) \/ Unlogged(t)'
    BY DEF OwnersKept
  <2>3. ~Unlogged(t)'
    BY DEF Unlogged
  <2>4. PICK r \in Slot : r = active.slot
    BY <1>1
  <2>5. Owner(r, t)'
    BY <1>1, <2>1, <2>4 DEF Owner, HasHeader
  <2>6. QED
    BY <2>2, <2>3, <2>4, <2>5
<1>3. e \in log[t][a]
  BY DEF LogShrinks
<1>4. t = active.task /\ e.at + 2 <= active.size[a]
  BY <1>1, <1>2, <1>3 DEF OpenKept
<1>5. /\ active.size[a] \in Nat /\ active'.size[a] \in Nat /\ e.at \in Nat
      /\ active.size[a] <= active'.size[a]
  BY <1>1, <1>3, ActiveIs, LogEntries DEF RecordType, OpenType
<1>6. QED
  BY <1>1, <1>4, <1>5

LEMMA OpenReachStep ==
  ASSUME RecordType, OpenReach, ActiveStays, Live' => Live,
         Live' => \A a \in Area : /\ active'.size[a] = active.size[a]
                                  /\ WordsKept(active.slot, a, active.size[a])
  PROVE  OpenReach'
<1> SUFFICES ASSUME Live', NEW a \in Area
             PROVE  Reach(active.slot, a, active.size[a])'
  BY DEF OpenReach
<1>1. /\ Live /\ active'.slot = active.slot /\ active'.size[a] = active.size[a]
      /\ WordsKept(active.slot, a, active.size[a])
  BY DEF ActiveStays, Live
<1>2. Reach(active.slot, a, active.size[a])
  BY <1>1 DEF OpenReach
<1>3. PICK s, i : s = active.slot /\ i = active.size[a]
  OBVIOUS
<1>4. Reach(s, a, i)'
  BY <1>1, <1>2, <1>3, ReachKept
<1>5. QED
  BY <1>1, <1>3, <1>4 DEF Reach

LEMMA ElsewhereStep ==
  ASSUME RecordType, Elsewhere, ActiveStays, stale \subseteq stale',
         ~Opening, op.pc # "program_header",
         \A s \in Slot, t \in Task : Owner(s, t)' => Owner(s, t)
  PROVE  Elsewhere'
<1> SUFFICES ASSUME active'.valid, NEW s \in Slot \ (stale' \union {active'.slot}),
                    Owner(s, active.task)'
             PROVE  FALSE
  BY DEF Elsewhere
<1>1. /\ active.valid /\ active'.slot = active.slot /\ active'.task = active.task
      /\ active.task \in Task
  BY ActiveIs DEF ActiveStays, RecordType, OpenType
<1>2. PICK t \in Task : t = active.task
  BY <1>1
<1>3. Owner(s, t)'
  BY <1>1, <1>2 DEF Owner
<1>4. Owner(s, active.task)
  BY <1>2, <1>3
<1>5. QED
  BY <1>1, <1>4 DEF Elsewhere
-----------------------------------------------------------------------------
(* A slot that is opened, by the search of its areas.                        *)
LEMMA OpenedKeeps ==
  ASSUME SlotsInv, RecordType, Kept', UNCHANGED <<hdr, word, log>>,
         op'.pc \in {"idle", "prepare"},
         NEW t \in Task, NEW s \in Slot, HasHeader(s), hdr[s].task = t,
         active' = Opened(t, s)
  PROVE  OpenKept' /\ OpenReach' /\ Elsewhere'
<1>1. /\ active'.slot = s /\ active'.task = t
      /\ \A a \in Area : active'.size[a] = Scan(word[s][a], a)
  BY OpenedOk
<1>2. \A r, u : Owner(r, u)' => HasHeader(r) /\ hdr[r].task = u
  BY DEF Owner, HasHeader
<1>3. OpenKept'
  <2> SUFFICES ASSUME s \notin stale', NEW u \in Task, Owner(active.slot, u)',
                      NEW a \in Area, NEW e \in log[u][a]
               PROVE  u = t /\ e.at + 2 <= Scan(word[s][a], a)
    BY <1>1 DEF OpenKept
  <2>1. u = t
    BY <1>1 DEF Owner, HasHeader
  <2>2. Owner(s, t)'
    BY DEF Owner, HasHeader
  <2>3. InPlace(s, a, e)'
    BY <2>1, <2>2 DEF Kept
  <2>4. Reach(s, a, e.at + 2)
    BY <2>3 DEF InPlace, Reach
  <2>5. QED
    BY <2>1, <2>4, ReachIs
<1>4. OpenReach'
  <2> SUFFICES ASSUME NEW a \in Area PROVE Reach(active.slot, a, active.size[a])'
    BY DEF OpenReach
  <2>1. Reach(s, a, Scan(word[s][a], a))
    BY ScanReaches
  <2>2. QED
    BY <1>1, <2>1 DEF Reach
<1>5. Elsewhere'
  <2> SUFFICES ASSUME NEW r \in Slot, r # s, Owner(r, active.task)' PROVE FALSE
    BY <1>1 DEF Elsewhere
  <2>1. HasHeader(r) /\ hdr[r].task = t
    BY <1>1 DEF Owner, HasHeader
  <2>2. r \in Slot \ Free /\ s \in Slot \ Free
    BY <2>1 DEF Free
  <2>3. QED
    BY <2>1, <2>2 DEF SlotsInv, Distinct
<1>6. QED
  BY <1>3, <1>4, <1>5

(* Nothing is written: a call begins, ends without an effect, or opens a     *)
(* slot.                                                                     *)
Still ==
  /\ UNCHANGED <<hdr, word, log>>
  /\ op'.pc \in {"idle", "prepare", "erase_header", "block"}
  /\ op'.pc = "block" => op'.block = 0

(* A slot is excused no longer when nothing is owed of what it holds.        *)
Forgiven ==
  \A s \in Slot \ stale', t \in Task : Owner(s, t) => s \notin stale \/ Unlogged(t)

LEMMA StillKeeps ==
  ASSUME SlotsInv, RecordType, RecordType', AckedInv, Still, Forgiven,
         \/ active' = NoActive
         \/ UNCHANGED <<active, stale>> /\ op.pc \in {"idle", "prepare"}
         \/ /\ op'.pc \in {"idle", "prepare"}
            /\ \E t \in Task, s \in Slot :
                 HasHeader(s) /\ hdr[s].task = t /\ active' = Opened(t, s)
  PROVE  AckedInv'
<1>1. \A s, t : Owner(s, t)' => Owner(s, t)
  BY DEF Still, Owner, HasHeader
<1>2. LogShrinks /\ OwnersKept
  BY <1>1 DEF Still, LogShrinks, OwnersKept
<1>3. Kept'
  <2> SUFFICES ASSUME NEW s \in Slot \ stale', NEW t \in Task, Owner(s, t)',
                      NEW a \in Area
               PROVE  /\ \A e \in log[t][a] : InPlace(s, a, e)
                      /\ Ordered(log[t][a])
    BY DEF Kept, Still, InPlace, Reach
  <2>1. s \notin stale \/ Unlogged(t)
    BY <1>1 DEF Forgiven
  <2>2. CASE s \notin stale
    BY <1>1, <2>2 DEF AckedInv, Kept
  <2>3. CASE Unlogged(t)
    BY <2>3 DEF Unlogged, Ordered
  <2>4. QED
    BY <2>1, <2>2, <2>3
<1>4. Begun' /\ Blocks' /\ TailHead'
  BY DEF Still, Begun, Opening, Blocks, TailHead
<1>5. CASE active' = NoActive
  <2>1. ~active'.valid
    BY <1>5, ActiveIs
  <2>2. OpenKept' /\ OpenReach' /\ Elsewhere'
    BY <2>1 DEF OpenKept, OpenReach, Live, Elsewhere
  <2>3. QED
    BY <1>3, <1>4, <2>2 DEF AckedInv
<1>6. CASE UNCHANGED <<active, stale>> /\ op.pc \in {"idle", "prepare"}
  <2>1. ActiveStays /\ stale \subseteq stale'
    BY <1>6 DEF ActiveStays
  <2>2. active'.valid => \A a \in Area : /\ active'.size[a] \in Nat
                                         /\ active.size[a] <= active'.size[a]
    BY <1>6, ActiveIs DEF RecordType, OpenType
  <2>3. OpenKept'
    BY <1>2, <2>1, <2>2, OpenKeptStep DEF AckedInv
  <2>4. Live' => Live
    BY <1>6 DEF Still, Live, Opening
  <2>5. OpenReach'
    BY <1>6, <2>1, <2>4, OpenReachStep DEF AckedInv, Still, WordsKept
  <2>6. Elsewhere'
    BY <1>1, <1>2, <1>6, <2>1, ElsewhereStep DEF AckedInv, Opening
  <2>7. QED
    BY <1>3, <1>4, <2>3, <2>5, <2>6 DEF AckedInv
<1>7. CASE \E t \in Task, s \in Slot :
             HasHeader(s) /\ hdr[s].task = t /\ active' = Opened(t, s)
           /\ op'.pc \in {"idle", "prepare"}
  <2>1. OpenKept' /\ OpenReach' /\ Elsewhere'
    BY <1>3, <1>7, OpenedKeeps DEF Still
  <2>2. QED
    BY <1>3, <1>4, <2>1 DEF AckedInv
<1>8. QED
  BY <1>5, <1>6, <1>7

LEMMA AckedStill ==
  ASSUME SlotsInv, RecordType, RecordType', AckedInv,
         \/ OpenBegun \/ AppendFull \/ EraseAll \/ Reset
         \/ \E t \in Task : \/ BeginTask(t) \/ RewriteHeader(t) \/ DeleteTask(t)
                            \/ OpenForRead(t) \/ \E a \in Area : AppendRecord(t, a)
  PROVE  AckedInv'
<1>1. CASE OpenBegun
  <2>1. Still
    BY <1>1 DEF OpenBegun, Still, Idle
  <2>2. op \in HeaderOp /\ op.slot \in Slot /\ op.hdr \in Header /\ op.hdr.task \in Task
    BY <1>1, UnderWay, CallKinds DEF SlotsInv, OpenBegun
  <2>3. hdr[op.slot] = op.hdr
    BY <1>1, <2>2 DEF SlotsInv, Pending, OpenBegun
  <2>4. HasHeader(op.slot) /\ hdr[op.slot].task = op.hdr.task
    BY <2>2, <2>3, HeaderIsHeader DEF HasHeader
  <2>5. op'.pc = "idle" /\ active' = Opened(op.hdr.task, op.slot)
    BY <1>1 DEF OpenBegun, Idle
  <2>6. Unlogged(op.hdr.task)
    BY <1>1 DEF AckedInv, Begun, Opening, OpenBegun
  <2>7. Forgiven
    <3> SUFFICES ASSUME NEW s \in Slot \ stale', NEW t \in Task, Owner(s, t), s \in stale
                 PROVE  Unlogged(t)
      BY DEF Forgiven
    <3>1. s = op.slot
      BY <1>1 DEF OpenBegun
    <3>2. t = op.hdr.task
      BY <1>1, <2>4, <3>1 DEF OpenBegun, Owner, HasHeader
    <3>3. QED
      BY <2>6, <3>2
  <2>8. QED
    BY <2>1, <2>2, <2>4, <2>5, <2>7, StillKeeps
<1>a. UNCHANGED stale => Forgiven
  BY DEF Forgiven
<1>2. CASE AppendFull
  <2>1. Still /\ UNCHANGED stale
    BY <1>2 DEF AppendFull, AppendFails, Still, Idle
  <2>2. QED
    BY <1>a, <1>2, <2>1, StillKeeps DEF AppendFull
<1>3. CASE Reset
  <2>1. Still /\ active' = NoActive /\ UNCHANGED stale
    BY <1>3 DEF Reset, Still, Idle
  <2>2. QED
    BY <1>a, <2>1, StillKeeps
<1>4. CASE EraseAll \/ \E t \in Task : DeleteTask(t)
  <2>1. Still /\ UNCHANGED <<active, stale>> /\ op = Idle
    BY <1>4 DEF EraseAll, DeleteTask, EraseRequest, Still
  <2>2. QED
    BY <1>a, <2>1, StillKeeps DEF Idle
<1>5. CASE \E t \in Task : BeginTask(t) \/ RewriteHeader(t)
  <2>1. Still /\ UNCHANGED <<active, stale>> /\ op = Idle
    BY <1>5 DEF BeginTask, RewriteHeader, Still
  <2>2. QED
    BY <1>a, <2>1, StillKeeps DEF Idle
<1>6. ASSUME NEW t \in Task, OpenForRead(t) \/ \E a \in Area : AppendRecord(t, a)
      PROVE  AckedInv'
  <2>1. op = Idle /\ UNCHANGED <<hdr, word, log, stale>>
    BY <1>6 DEF OpenForRead, AppendRecord
  <2>2. op'.pc \in {"idle", "prepare"}
    BY <1>6 DEF OpenForRead, AppendRecord, Idle
  <2>3. UNCHANGED active \/ \E s \in First(Holding(t)) : active' = Opened(t, s)
    BY <1>6 DEF OpenForRead, AppendRecord
  <2>4. UNCHANGED active \/ \E s \in Slot :
          HasHeader(s) /\ hdr[s].task = t /\ active' = Opened(t, s)
    BY <2>3, FirstHolding
  <2>5. Still
    BY <2>1, <2>2 DEF Still
  <2>6. QED
    BY <1>a, <2>1, <2>2, <2>4, <2>5, StillKeeps DEF Idle
<1>7. QED
  BY <1>1, <1>2, <1>3, <1>4, <1>5, <1>6

(* The header of a begin or of a rewrite is erased.                          *)
LEMMA AckedEraseHeader ==
  ASSUME SlotsInv, RecordType, RecordType', AckedInv, EraseHeader
  PROVE  AckedInv'
<1>1. /\ op \in HeaderOp /\ op.slot \in Slot /\ op.hdr \in Header
      /\ op.hdr.task \in Task /\ op.pc = "erase_header"
      /\ UNCHANGED <<word, active, stale>>
  BY UnderWay, CallKinds DEF SlotsInv, EraseHeader
<1>2. \/ /\ op' = [op EXCEPT !.pc = "program_header"]
         /\ hdr' = [hdr EXCEPT ![op.slot] = NoHeader]
      \/ /\ op' = Idle
         /\ hdr' = [hdr EXCEPT ![op.slot] = NoHeader] \/ UNCHANGED hdr
  BY DEF EraseHeader
<1>3. \/ op' = Idle /\ op'.pc = "idle"
      \/ /\ op'.pc = "program_header" /\ op'.slot = op.slot /\ op'.hdr = op.hdr
         /\ op'.create = op.create
  BY <1>1, <1>2 DEF HeaderOp, Idle
<1>4. \A s \in Slot : hdr'[s] = hdr[s] \/ (s = op.slot /\ hdr'[s] = NoHeader)
  BY <1>1, <1>2 DEF SlotsInv, StoreType
<1>5. ASSUME op'.pc = "program_header", op.create
      PROVE  op'.hdr = op.hdr /\ \A a \in Area : log'[op.hdr.task][a] = {}
  <2>1. hdr'[op.slot] = NoHeader
    BY <1>1, <1>2, <1>5 DEF SlotsInv, StoreType, Idle
  <2>2. log' = [log EXCEPT ![op.hdr.task] = NoLog]
    BY <1>5, <2>1 DEF EraseHeader
  <2>3. log'[op.hdr.task] = NoLog
    BY <1>1, <2>2 DEF RecordType, HistoryType
  <2>4. op'.hdr = op.hdr
    BY <1>3, <1>5 DEF Idle
  <2>5. QED
    BY <2>3, <2>4 DEF NoLog
<1>6. \A s \in Slot, t \in Task : Owner(s, t)' =>
        \/ Owner(s, t)
        \/ /\ op'.pc = "program_header" /\ op.create /\ s = op.slot
           /\ t = op.hdr.task /\ Unlogged(t)'
  <2> SUFFICES ASSUME NEW s \in Slot, NEW t \in Task, Owner(s, t)', ~Owner(s, t)
               PROVE  /\ op'.pc = "program_header" /\ op.create /\ s = op.slot
                      /\ t = op.hdr.task /\ Unlogged(t)'
    OBVIOUS
  <2>1. ~(HasHeader(s) /\ hdr[s].task = t)'
    BY <1>4 DEF Owner, HasHeader
  <2>2. op'.pc = "program_header" /\ s = op.slot /\ t = op.hdr.task
    BY <1>3, <2>1 DEF Owner
  <2>3. ~op.create => hdr[op.slot] = op.hdr
    BY <1>1 DEF SlotsInv, Pending
  <2>4. op.create
    BY <1>1, <2>2, <2>3, HeaderIsHeader DEF Owner, HasHeader, HeaderOp
  <2>5. Unlogged(t)'
    BY <1>3, <1>5, <2>2, <2>4 DEF Unlogged
  <2>6. QED
    BY <2>2, <2>4, <2>5
<1>7. LogShrinks
  BY <1>1 DEF EraseHeader, RecordType, HistoryType, LogShrinks, NoLog
<1>8. /\ OwnersKept /\ WordsStay /\ ActiveStays /\ stale \subseteq stale'
      /\ active'.valid => \A a \in Area : /\ active'.size[a] \in Nat
                                          /\ active.size[a] <= active'.size[a]
  <2>1. active'.valid => \A a \in Area : /\ active'.size[a] \in Nat
                                         /\ active.size[a] <= active'.size[a]
    BY <1>1, ActiveIs DEF RecordType, OpenType
  <2>2. OwnersKept
    BY <1>6 DEF OwnersKept
  <2>3. WordsStay /\ ActiveStays /\ stale \subseteq stale'
    BY <1>1 DEF WordsStay, WordsKept, ActiveStays
  <2>4. QED
    BY <2>1, <2>2, <2>3
<1>9. Kept' /\ OpenKept'
  BY <1>7, <1>8, KeptStep, OpenKeptStep DEF AckedInv
<1>10. OpenReach'
  <2>1. Live' => Live
    BY <1>1 DEF Live, Opening
  <2>2. QED
    BY <1>1, <1>8, <2>1, OpenReachStep DEF AckedInv, WordsKept
<1>11. Elsewhere'
  <2> SUFFICES ASSUME active.valid, NEW s \in Slot \ (stale \union {active.slot}),
                      Owner(s, active.task)'
               PROVE  op'.pc = "program_header" /\ op'.create /\ op'.slot = s
    BY <1>1 DEF Elsewhere
  <2>1. active.task \in Task
    BY ActiveIs DEF RecordType, OpenType
  <2>2. ~Owner(s, active.task)
    BY <1>1 DEF AckedInv, Elsewhere, Opening
  <2>3. PICK t \in Task : t = active.task
    BY <2>1
  <2>4. Owner(s, t)' /\ ~Owner(s, t)
    BY <1>1, <2>2, <2>3 DEF Owner
  <2>5. op'.pc = "program_header" /\ op.create /\ s = op.slot
    BY <1>6, <2>4
  <2>6. QED
    BY <1>3, <2>5 DEF Idle
<1>12. Begun' /\ Blocks' /\ TailHead'
  BY <1>3, <1>5 DEF Begun, Opening, Blocks, TailHead, Unlogged
<1>13. QED
  BY <1>9, <1>10, <1>11, <1>12 DEF AckedInv

(* The header is written, whole or not at all.                               *)
LEMMA AckedProgramHeader ==
  ASSUME SlotsInv, RecordType, RecordType', AckedInv, ProgramHeader
  PROVE  AckedInv'
<1>1. /\ op \in HeaderOp /\ op.slot \in Slot /\ op.hdr \in Header
      /\ op.hdr.task \in Task /\ op.pc = "program_header"
      /\ UNCHANGED <<word, active, log>>
  BY UnderWay, CallKinds DEF SlotsInv, ProgramHeader
<1>2. \/ op' = Idle /\ op'.pc = "idle"
      \/ /\ op'.pc = "erase_pre" /\ op.create /\ op'.hdr = op.hdr
  <2>1. op' = Idle \/ (op' = [op EXCEPT !.pc = "erase_pre"] /\ op.create)
    BY DEF ProgramHeader
  <2>2. QED
    BY <1>1, <2>1 DEF HeaderOp, Idle
<1>3. hdr' = [hdr EXCEPT ![op.slot] = op.hdr] \/ UNCHANGED <<hdr, stale>>
  BY DEF ProgramHeader
<1>4. \A s \in Slot : hdr'[s] = hdr[s] \/ (s = op.slot /\ hdr'[s] = op.hdr)
  BY <1>1, <1>3 DEF SlotsInv, StoreType
<1>5. \A s \in Slot, t \in Task : Owner(s, t)' =>
        /\ Owner(s, t)
        /\ s = op.slot => hdr' = [hdr EXCEPT ![op.slot] = op.hdr]
  <2>1. ~HasHeader(op.slot)
    BY <1>1 DEF SlotsInv, Pending
  <2>2. \A s, t : Owner(s, t)' => HasHeader(s)' /\ hdr'[s].task = t
    BY <1>2 DEF Owner
  <2>3. QED
    BY <1>1, <1>3, <1>4, <2>1, <2>2 DEF Owner, HasHeader
<1>6. stale \subseteq stale'
  BY DEF ProgramHeader, WrongAbout
<1>7. /\ LogShrinks /\ OwnersKept /\ WordsStay /\ ActiveStays
      /\ active'.valid => \A a \in Area : /\ active'.size[a] \in Nat
                                          /\ active.size[a] <= active'.size[a]
  <2>1. active'.valid => \A a \in Area : /\ active'.size[a] \in Nat
                                         /\ active.size[a] <= active'.size[a]
    BY <1>1, ActiveIs DEF RecordType, OpenType
  <2>2. LogShrinks /\ OwnersKept
    BY <1>1, <1>5 DEF LogShrinks, OwnersKept
  <2>3. WordsStay /\ ActiveStays
    BY <1>1 DEF WordsStay, WordsKept, ActiveStays
  <2>4. QED
    BY <2>1, <2>2, <2>3
<1>8. Kept' /\ OpenKept'
  BY <1>6, <1>7, KeptStep, OpenKeptStep DEF AckedInv
<1>9. OpenReach'
  <2>1. Live' => Live
    BY <1>1, <1>6 DEF Live, Opening
  <2>2. QED
    BY <1>1, <1>7, <2>1, OpenReachStep DEF AckedInv, WordsKept
<1>10. Elsewhere'
  <2> SUFFICES ASSUME active.valid, NEW s \in Slot \ (stale' \union {active.slot}),
                      Owner(s, active.task)', op'.pc = "idle"
               PROVE  FALSE
    BY <1>1, <1>2 DEF Elsewhere, Opening
  <2>1. PICK t \in Task : t = active.task
    BY ActiveIs DEF RecordType, OpenType
  <2>2. Owner(s, t)'
    BY <1>1, <2>1 DEF Owner
  <2>3. Owner(s, active.task) /\ (s = op.slot => hdr' = [hdr EXCEPT ![op.slot] = op.hdr])
    BY <1>5, <2>1, <2>2
  <2>4. op.create /\ op.slot = s
    BY <1>1, <1>6, <2>3 DEF AckedInv, Elsewhere, Opening
  <2>5. hdr'[s] = op.hdr /\ hdr[s] # op.hdr
    <3>1. hdr'[s] = op.hdr
      BY <1>1, <2>3, <2>4 DEF SlotsInv, StoreType
    <3>2. hdr[op.slot] = NoHeader
      BY <1>1 DEF SlotsInv, Pending, HasHeader
    <3>3. QED
      BY <1>1, <2>4, <3>1, <3>2, HeaderIsHeader
  <2>6. op.hdr.task = active.task
    BY <1>1, <2>1, <2>2, <2>5 DEF Owner
  <2>7. OpenElsewhere
    BY <2>4, <2>6 DEF OpenElsewhere, IsOpen
  <2>8. op' # [op EXCEPT !.pc = "erase_pre"]
    BY <1>1 DEF HeaderOp
  <2>9. stale' = stale \union {op.slot}
    BY <2>4, <2>5, <2>7, <2>8 DEF ProgramHeader, WrongAbout
  <2>10. QED
    BY <2>4, <2>9
<1>11. Begun' /\ Blocks' /\ TailHead'
  <2>1. op.create => Unlogged(op.hdr.task)
    BY <1>1 DEF AckedInv, Begun
  <2>2. QED
    BY <1>1, <1>2, <2>1 DEF Begun, Opening, Blocks, TailHead, Unlogged
<1>12. QED
  BY <1>8, <1>9, <1>10, <1>11 DEF AckedInv

(* A begin erases the first sectors, of which its task is owed nothing yet.  *)
LEMMA AckedEraseFirst ==
  ASSUME SlotsInv, RecordType, RecordType', AckedInv, EraseFirstSector
  PROVE  AckedInv'
<1>1. PICK b \in Area :
        /\ op.pc = (IF b = "pre" THEN "erase_pre" ELSE "erase_data")
        /\ EraseSector(op.slot, b, 0) \/ EraseSectorFails(op.slot, b, 0)
        /\ op' = [op EXCEPT !.pc = IF b = "pre" THEN "erase_data" ELSE "open"]
        /\ UNCHANGED <<hdr, active, log, stale>>
  BY DEF EraseFirstSector
<1>2. /\ op \in HeaderOp /\ op.slot \in Slot /\ op.pc \in {"erase_pre", "erase_data"}
  BY <1>1, UnderWay, CallKinds DEF SlotsInv
<1>3. hdr[op.slot] = op.hdr
  BY <1>2 DEF SlotsInv, Pending
<1>4. /\ Opening /\ Opening'
      /\ op'.hdr = op.hdr /\ op'.pc \in {"erase_data", "open"}
  BY <1>1, <1>2 DEF Opening, HeaderOp
<1>5. \A s, t : Owner(s, t)' => Owner(s, t) /\ HasHeader(s) /\ hdr[s].task = t
  BY <1>1, <1>4 DEF Owner, HasHeader
<1>6. \A r \in Slot, a \in Area : \A i \in Index(a) :
        r # op.slot => word'[r][a][i] = word[r][a][i]
  <2>1. CASE UNCHANGED word
    BY <2>1
  <2>2. CASE word' = ErasedWords(op.slot, b, 0)
    BY <1>2, <2>2, EraseIs DEF RecordType
  <2>3. QED
    BY <1>1, <2>1, <2>2 DEF EraseSector, EraseSectorFails
<1>7. Unlogged(op.hdr.task)
  BY <1>4 DEF AckedInv, Begun
<1>8. WordsStay
  <2> SUFFICES ASSUME NEW s \in Slot \ stale', NEW t \in Task, NEW a \in Area,
                      NEW e \in log'[t][a], Owner(s, t)'
               PROVE  WordsKept(s, a, e.at + 2)
    BY DEF WordsStay
  <2>1. t # op.hdr.task
    BY <1>1, <1>7 DEF Unlogged
  <2>2. s # op.slot
    BY <1>3, <1>5, <2>1
  <2>3. QED
    BY <1>6, <2>2 DEF WordsKept
<1>9. /\ LogShrinks /\ OwnersKept /\ ActiveStays /\ stale \subseteq stale'
      /\ active'.valid => \A a \in Area : /\ active'.size[a] \in Nat
                                          /\ active.size[a] <= active'.size[a]
  <2>1. active'.valid => \A a \in Area : /\ active'.size[a] \in Nat
                                         /\ active.size[a] <= active'.size[a]
    BY <1>1, ActiveIs DEF RecordType, OpenType
  <2>2. LogShrinks /\ OwnersKept /\ ActiveStays /\ stale \subseteq stale'
    BY <1>1, <1>5 DEF LogShrinks, OwnersKept, ActiveStays
  <2>3. QED
    BY <2>1, <2>2
<1>10. Kept' /\ OpenKept'
  BY <1>8, <1>9, KeptStep, OpenKeptStep DEF AckedInv
<1>11. OpenReach' /\ Elsewhere'
  BY <1>4 DEF OpenReach, Live, Elsewhere
<1>12. Begun' /\ Blocks' /\ TailHead'
  BY <1>1, <1>4, <1>7 DEF Begun, Opening, Blocks, TailHead, Unlogged
<1>13. QED
  BY <1>10, <1>11, <1>12 DEF AckedInv
-----------------------------------------------------------------------------
(* An append writes at its place and behind it.                              *)
LEMMA AppendWords ==
  ASSUME RecordType, op \in AppendOp, AppendErase \/ AppendHead \/ AppendTail
  PROVE  \A r \in Slot, b \in Area : \A i \in Index(b) :
           \/ word'[r][b][i] = word[r][b][i]
           \/ r = active.slot /\ b = op.area /\ Place <= i
<1> DEFINE Here(r, b, i) ==
             \/ word'[r][b][i] = word[r][b][i]
             \/ r = active.slot /\ b = op.area /\ Place <= i
<1>1. /\ active.slot \in Slot /\ op.area \in Area /\ Place \in Nat
      /\ active.next[op.area] \in Nat /\ Place <= active.next[op.area]
      /\ op.num \in Word /\ Garbled \in Word /\ SectorWords \in Nat
      /\ Fits => Place \in Index(op.area) /\ Place + 1 \in Index(op.area)
  BY PlaceIs, Sizes
<1>2. ASSUME word' = ErasedWords(active.slot, op.area, active.next[op.area]),
             NEW r \in Slot, NEW b \in Area, NEW i \in Index(b)
      PROVE  Here(r, b, i)
  <2>1. word'[r][b][i] =
          IF r = active.slot /\ b = op.area
             /\ i \in active.next[op.area] .. active.next[op.area] + SectorWords - 1
          THEN Erased ELSE word[r][b][i]
    BY <1>1, <1>2, EraseIs DEF RecordType
  <2>2. i \in active.next[op.area] .. active.next[op.area] + SectorWords - 1 => Place <= i
    BY <1>1
  <2>3. QED
    BY <2>1, <2>2
<1>3. ASSUME NEW w \in {Place, Place + 1}, NEW n \in Word, w \in Index(op.area),
             Write(active.slot, op.area, w, n),
             NEW r \in Slot, NEW b \in Area, NEW i \in Index(b)
      PROVE  Here(r, b, i)
  <2>1. \A q \in Slot, c \in Area : \A j \in Index(c) :
          word'[q][c][j] = IF q = active.slot /\ c = op.area /\ j = w THEN n
                           ELSE word[q][c][j]
    <3>1. WordShape /\ active.slot \in Slot /\ op.area \in Area
      BY <1>1 DEF RecordType
    <3>2. QED
      BY <1>3, <3>1, WriteIs
  <2>2. Place <= w
    BY <1>1
  <2>3. QED
    BY <2>1, <2>2
<1>4. CASE UNCHANGED word
  BY <1>4
<1>5. CASE AppendErase
  <2>1. \/ UNCHANGED word
        \/ word' = ErasedWords(active.slot, op.area, active.next[op.area])
    BY <1>5 DEF AppendErase, EraseSector, EraseSectorFails
  <2>2. QED
    BY <1>2, <2>1
<1>6. CASE AppendHead
  <2>1. \/ UNCHANGED word
        \/ Write(active.slot, op.area, Place, op.num)
        \/ Write(active.slot, op.area, Place, Garbled)
    BY <1>6 DEF AppendHead, ProgramOk, ProgramFails
  <2>2. Place \in Index(op.area)
    BY <1>1, <1>6 DEF AppendHead
  <2>3. QED
    BY <1>1, <1>3, <2>1, <2>2
<1>7. CASE AppendTail
  <2>1. \/ UNCHANGED word
        \/ Write(active.slot, op.area, Place + 1, op.num)
        \/ Write(active.slot, op.area, Place + 1, Garbled)
    BY <1>7 DEF AppendTail, ProgramOk, ProgramFails
  <2>2. Place + 1 \in Index(op.area)
    BY <1>1, <1>7 DEF AppendTail, RecordType, OpenType
  <2>3. QED
    BY <1>1, <1>3, <2>1, <2>2
<1>8. QED
  BY <1>5, <1>6, <1>7

(* So it leaves what was acknowledged before, and the way to it, alone.      *)
LEMMA AppendSpares ==
  ASSUME RecordType, AckedInv, op \in AppendOp, AppendErase \/ AppendHead \/ AppendTail
  PROVE  /\ \A s \in Slot \ stale, t \in Task, a \in Area : \A e \in log[t][a] :
              Owner(s, t) => WordsKept(s, a, e.at + 2)
         /\ \A a \in Area : WordsKept(active.slot, a, active.size[a])
<1>1. \A r \in Slot, b \in Area : \A i \in Index(b) :
        \/ word'[r][b][i] = word[r][b][i]
        \/ r = active.slot /\ b = op.area /\ Place <= i
  BY AppendWords
<1>2. /\ active.valid /\ active.slot \in Slot /\ active.size \in [Area -> Nat]
      /\ op.area \in Area /\ Place = active.size[op.area] /\ Place \in Nat
  BY PlaceIs, ActiveIs DEF Place
<1>3. ASSUME NEW a \in Area, NEW n \in Nat, n <= active.size[a], NEW s \in Slot
      PROVE  WordsKept(s, a, n)
  <2> SUFFICES ASSUME NEW i \in Index(a), i < n PROVE word'[s][a][i] = word[s][a][i]
    BY DEF WordsKept
  <2>1. i \in Nat /\ active.size[a] \in Nat
    BY <1>2, Sizes DEF Index
  <2>2. a = op.area => ~(Place <= i)
    BY <1>2, <1>3, <2>1
  <2>3. QED
    BY <1>1, <2>2
<1>4. ASSUME NEW s \in Slot \ stale, NEW t \in Task, NEW a \in Area,
             NEW e \in log[t][a], Owner(s, t)
      PROVE  WordsKept(s, a, e.at + 2)
  <2>1. CASE s = active.slot
    <3>1. e.at + 2 <= active.size[a]
      BY <1>2, <1>4, <2>1 DEF AckedInv, OpenKept
    <3>2. e.at + 2 \in Nat
      BY LogEntries
    <3>3. QED
      BY <1>3, <3>1, <3>2
  <2>2. CASE s # active.slot
    BY <1>1, <2>2 DEF WordsKept
  <2>3. QED
    BY <2>1, <2>2
<1>5. QED
  BY <1>2, <1>3, <1>4

LEMMA AppendCall ==
  ASSUME SlotsInv, AppendErase \/ AppendHead \/ AppendTail
  PROVE  /\ op \in AppendOp /\ op.pc \in {"prepare", "tail"}
         /\ UNCHANGED <<hdr, stale>>
         /\ op' = Idle \/ (op' \in AppendOp /\ op'.area = op.area /\ op'.num = op.num)
         /\ op'.pc \in {"idle", "prepare", "tail"}
         /\ op'.pc = "tail" => AppendHead
         /\ ~Opening /\ ~Opening'
         /\ \A s, t : Owner(s, t)' => Owner(s, t)
<1>1. op \in AppendOp /\ op.pc \in {"prepare", "tail"} /\ UNCHANGED <<hdr, stale>>
  BY UnderWay DEF SlotsInv, AppendErase, AppendHead, AppendTail
<1>2. \/ op' = Idle
      \/ UNCHANGED op /\ AppendErase
      \/ op' = [op EXCEPT !.pc = "tail"] /\ AppendHead
  BY DEF AppendErase, AppendHead, AppendTail, AppendFails
<1>3. op' = Idle \/ (op' \in AppendOp /\ op'.area = op.area /\ op'.num = op.num)
  BY <1>1, <1>2 DEF AppendOp
<1>4. op'.pc \in {"idle", "prepare", "tail"} /\ (op'.pc = "tail" => AppendHead)
  <2>1. op' = Idle => op'.pc = "idle"
    BY DEF Idle
  <2>2. UNCHANGED op /\ AppendErase => op'.pc = "prepare"
    BY DEF AppendErase
  <2>3. op' = [op EXCEPT !.pc = "tail"] => op'.pc = "tail"
    BY <1>1 DEF AppendOp
  <2>4. QED
    BY <1>2, <2>1, <2>2, <2>3
<1>5. \A s, t : Owner(s, t)' => Owner(s, t)
  BY <1>1, <1>4 DEF Owner, HasHeader
<1>6. ~Opening /\ ~Opening'
  BY <1>1, <1>4 DEF Opening
<1>7. QED
  BY <1>1, <1>3, <1>4, <1>5, <1>6

RecordDone ==
  /\ AppendTail /\ Appended
  /\ ProgramOk(active.slot, op.area, Place + 1, op.num)
  /\ \A a \in Area : active'.size[a] = IF a = op.area THEN Place + 2 ELSE active.size[a]

LEMMA AppendActive ==
  ASSUME RecordType, op \in AppendOp, AppendErase \/ AppendHead \/ AppendTail
  PROVE  /\ active.valid /\ active'.valid /\ ActiveStays
         /\ active.size \in [Area -> Nat]
         /\ \/ UNCHANGED log /\ active'.size = active.size
            \/ RecordDone
<1>1. /\ active \in Active /\ active.size \in [Area -> Nat] /\ op.area \in Area
      /\ active.valid
  BY PlaceIs, ActiveIs
<1>2. CASE UNCHANGED <<active, log>>
  BY <1>1, <1>2 DEF ActiveStays
<1>3. CASE AppendErase /\ active' = [active EXCEPT !.next[op.area] = @ + SectorWords]
  <2>1. /\ active'.valid = active.valid /\ active'.slot = active.slot
        /\ active'.task = active.task /\ active'.size = active.size
    BY <1>1, <1>3 DEF Active
  <2>2. UNCHANGED log
    BY <1>3 DEF AppendErase
  <2>3. QED
    BY <1>1, <2>1, <2>2 DEF ActiveStays
<1>4. CASE /\ AppendTail /\ Appended
           /\ ProgramOk(active.slot, op.area, Place + 1, op.num)
           /\ active' = [active EXCEPT !.size[op.area] = @ + RecordWords]
  <2>1. /\ active'.valid = active.valid /\ active'.slot = active.slot
        /\ active'.task = active.task
        /\ active'.size = [active.size EXCEPT ![op.area] = @ + RecordWords]
    BY <1>1, <1>4 DEF Active
  <2>2. \A a \in Area : active'.size[a] = IF a = op.area THEN active.size[a] + 2
                                          ELSE active.size[a]
    BY <1>1, <2>1 DEF RecordWords
  <2>3. \A a \in Area : active'.size[a] = IF a = op.area THEN Place + 2
                                          ELSE active.size[a]
    BY <2>2 DEF Place
  <2>4. RecordDone
    BY <1>4, <2>3 DEF RecordDone
  <2>5. QED
    BY <1>1, <2>1, <2>4 DEF ActiveStays
<1>5. QED
  <2>1. CASE AppendErase
    BY <1>2, <1>3, <2>1 DEF AppendErase
  <2>2. CASE AppendHead
    BY <1>2, <2>2 DEF AppendHead
  <2>3. CASE AppendTail
    BY <1>2, <1>4, <2>3 DEF AppendTail, Appended
  <2>4. QED
    BY <2>1, <2>2, <2>3

(* An append under way, until its record is whole.                           *)
LEMMA AckedAppending ==
  ASSUME SlotsInv, RecordType, AckedInv, AppendErase \/ AppendHead \/ AppendTail,
         UNCHANGED log, active'.size = active.size
  PROVE  Kept' /\ OpenKept' /\ OpenReach'
<1>1. /\ op \in AppendOp /\ UNCHANGED stale /\ ~Opening /\ op.pc # "block"
      /\ \A s, t : Owner(s, t)' => Owner(s, t)
  BY AppendCall
<1>2. ActiveStays /\ active.valid /\ active.size \in [Area -> Nat]
  BY <1>1, AppendActive
<1>3. /\ \A s \in Slot \ stale, t \in Task, a \in Area : \A e \in log[t][a] :
           Owner(s, t) => WordsKept(s, a, e.at + 2)
      /\ \A a \in Area : WordsKept(active.slot, a, active.size[a])
  BY <1>1, AppendSpares
<1>4. WordsStay /\ LogShrinks /\ OwnersKept
  BY <1>1, <1>3 DEF WordsStay, LogShrinks, OwnersKept
<1>5. Kept'
  BY <1>1, <1>4, KeptStep DEF AckedInv
<1>6. OpenKept'
  BY <1>1, <1>2, <1>4, OpenKeptStep DEF AckedInv
<1>7. Live' => Live
  BY <1>1, <1>2 DEF Live, ActiveStays
<1>8. OpenReach'
  BY <1>2, <1>3, <1>7, OpenReachStep DEF AckedInv
<1>9. QED
  BY <1>5, <1>6, <1>8

(* The record is whole, and acknowledged.                                    *)
LEMMA DoneWords ==
  ASSUME RecordType, op \in AppendOp, RecordDone
  PROVE  \A r \in Slot, b \in Area : \A i \in Index(b) :
           word'[r][b][i] = IF r = active.slot /\ b = op.area /\ i = Place + 1
                            THEN op.num ELSE word[r][b][i]
<1>1. /\ WordShape /\ active.slot \in Slot /\ op.area \in Area
      /\ op.num \in Word /\ Fits
      /\ Fits => Place \in Index(op.area) /\ Place + 1 \in Index(op.area)
  BY PlaceIs DEF RecordType, OpenType, RecordDone, AppendTail
<1>2. Write(active.slot, op.area, Place + 1, op.num) /\ Place + 1 \in Index(op.area)
  BY <1>1 DEF RecordDone, ProgramOk
<1>3. QED
  BY <1>1, <1>2, WriteIs

LEMMA DoneInPlace ==
  ASSUME SlotsInv, RecordType, AckedInv, op \in AppendOp, RecordDone,
         active.slot \notin stale
  PROVE  /\ word'[active.slot][op.area][Place] = op.num
         /\ word'[active.slot][op.area][Place + 1] = op.num
         /\ Reach(active.slot, op.area, Place)
         /\ \A s, a, i : s = active.slot /\ a = op.area /\ i = Place + 2
                           => Reach(s, a, i)'
<1>1. /\ active.slot \in Slot /\ op.area \in Area /\ Place \in Nat
      /\ op.num # Erased /\ Fits /\ active.valid
      /\ Fits => Place \in Index(op.area) /\ Place + 1 \in Index(op.area)
  BY PlaceIs, ActiveIs DEF RecordType, OpenType, RecordDone, AppendTail
<1>2. word[active.slot][op.area][Place] = op.num
  BY DEF AckedInv, TailHead, RecordDone, AppendTail
<1>3. /\ word'[active.slot][op.area][Place] = op.num
      /\ word'[active.slot][op.area][Place + 1] = op.num
  BY <1>1, <1>2, DoneWords
<1>4. Live
  BY <1>1 DEF Live, Opening, RecordDone, AppendTail
<1>5. Reach(active.slot, op.area, Place)
  BY <1>1, <1>4 DEF AckedInv, OpenReach, Place
<1>6. Place + 2 <= AreaWords(op.area)
  BY <1>1 DEF Fits, RecordWords
<1>7. Reach(active.slot, op.area, Place + 2)
  BY <1>1, <1>2, <1>5, <1>6, ReachRecord
<1>8. ASSUME NEW s, NEW a, NEW i, s = active.slot, a = op.area, i = Place + 2
      PROVE  Reach(s, a, i)'
  <2>1. \A h \in Index(a) : h < i /\ word[s][a][h] # Erased => word'[s][a][h] # Erased
    BY <1>1, <1>8, DoneWords
  <2>2. QED
    BY <1>1, <1>7, <1>8, <2>1, ReachGrows
<1>9. QED
  BY <1>3, <1>5, <1>8

LEMMA AckedAppended ==
  ASSUME SlotsInv, RecordType, Nums, AckedInv, op \in AppendOp, RecordDone
  PROVE  Kept' /\ OpenKept' /\ OpenReach'
<1>a. PICK new : new = [num |-> op.num, slot |-> active.slot, at |-> Place]
  OBVIOUS
<1>1. /\ active.valid /\ active.slot \in Slot /\ active.task \in Task
      /\ active.size \in [Area -> Nat]
      /\ op.area \in Area /\ Place \in Nat /\ op.num \in 1 .. MaxRecords
      /\ Place = active.size[op.area]
  BY PlaceIs, ActiveIs DEF RecordType, OpenType, Place
<1>2. /\ UNCHANGED <<hdr, stale>> /\ op'.pc = "idle" /\ op.pc = "tail"
      /\ active'.valid /\ active'.slot = active.slot /\ active'.task = active.task
      /\ \A a \in Area : active'.size[a] = IF a = op.area THEN Place + 2 ELSE active.size[a]
      /\ \A s, t : Owner(s, t)' => Owner(s, t)
  <2>1. ActiveStays /\ active'.valid
    BY AppendActive DEF RecordDone
  <2>2. UNCHANGED <<hdr, stale>> /\ op'.pc = "idle" /\ op.pc = "tail"
    BY DEF RecordDone, AppendTail, Appended, Idle
  <2>3. \A s, t : Owner(s, t)' => Owner(s, t)
    BY AppendCall DEF RecordDone
  <2>4. QED
    BY <2>1, <2>2, <2>3 DEF ActiveStays, RecordDone
<1>3. \A t \in Task, a \in Area :
        log'[t][a] = IF t = active.task /\ a = op.area THEN log[t][a] \union {new}
                     ELSE log[t][a]
  BY <1>1, <1>a DEF RecordDone, Appended, RecordType, HistoryType
<1>4. /\ \A s \in Slot \ stale, t \in Task, a \in Area : \A e \in log[t][a] :
           Owner(s, t) => WordsKept(s, a, e.at + 2)
      /\ \A a \in Area : WordsKept(active.slot, a, active.size[a])
  BY AppendSpares DEF RecordDone
<1>5. \A s \in Slot \ stale : Owner(s, active.task) => s = active.slot
  BY <1>1, <1>2 DEF AckedInv, Elsewhere, Opening
<1>6. /\ new.num = op.num /\ new.slot = active.slot /\ new.at = Place
      /\ op.num = made
  BY <1>a DEF Nums
<1>7. \A t \in Task, a \in Area : \A e \in log[t][a] :
        e.num < op.num /\ e.num \in Nat /\ e.at \in Nat
  BY <1>6, LogEntries DEF Nums
<1>8. Kept'
  <2> SUFFICES ASSUME NEW s \in Slot \ stale, NEW t \in Task, Owner(s, t), NEW a \in Area
               PROVE  /\ \A e \in log'[t][a] : InPlace(s, a, e)'
                      /\ Ordered(log'[t][a])
    BY <1>2 DEF Kept
  <2>1. (\A e \in log[t][a] : InPlace(s, a, e)) /\ Ordered(log[t][a])
    BY DEF AckedInv, Kept
  <2>2. \A e \in log[t][a] : InPlace(s, a, e)'
    BY <1>4, <1>7, <2>1, InPlaceKept
  <2>3. CASE log'[t][a] = log[t][a]
    BY <2>1, <2>2, <2>3
  <2>4. CASE t = active.task /\ a = op.area /\ log'[t][a] = log[t][a] \union {new}
    <3>1. s = active.slot
      BY <1>5, <2>4
    <3>2. InPlace(s, a, new)'
      <4>1. /\ word'[s][a][Place] = op.num /\ word'[s][a][Place + 1] = op.num
            /\ \A i : i = Place + 2 => Reach(s, a, i)'
        BY <2>4, <3>1, DoneInPlace
      <4>2. Reach(s, a, new.at + 2)'
        BY <1>6, <4>1
      <4>3. QED
        BY <1>6, <3>1, <4>1, <4>2 DEF InPlace
    <3>3. ASSUME NEW e \in log[t][a] PROVE e.at < Place
      <4>1. e.at + 2 <= Place
        BY <1>1, <2>4, <3>1 DEF AckedInv, OpenKept
      <4>2. QED
        BY <1>1, <1>7, <4>1
    <3>4. Ordered(log'[t][a])
      <4> SUFFICES ASSUME NEW e \in log'[t][a], NEW f \in log'[t][a], e # f, e.num <= f.num
                   PROVE  e.at < f.at
        BY DEF Ordered
      <4>1. CASE e \in log[t][a] /\ f \in log[t][a]
        BY <2>1, <4>1 DEF Ordered
      <4>2. CASE e \in log[t][a] /\ f = new
        BY <1>6, <3>3, <4>2
      <4>3. CASE e = new /\ f \in log[t][a]
        <5>1. f.num < op.num /\ f.num \in Nat /\ op.num \in Nat
          BY <1>1, <1>7, <4>3
        <5>2. QED
          BY <1>6, <4>3, <5>1
      <4>4. QED
        BY <2>4, <4>1, <4>2, <4>3
    <3>5. QED
      BY <2>2, <2>4, <3>2, <3>4
  <2>5. QED
    BY <1>3, <2>3, <2>4
<1>9. OpenKept'
  <2> SUFFICES ASSUME active.slot \notin stale, NEW t \in Task, Owner(active.slot, t),
                      NEW a \in Area, NEW e \in log'[t][a]
               PROVE  t = active.task /\ e.at + 2 <= active'.size[a]
    <3>1. \A t : Owner(active.slot, t)' => Owner(active.slot, t)
      BY <1>2 DEF Owner, HasHeader
    <3>2. QED
      BY <1>2, <3>1 DEF OpenKept
  <2>1. CASE e \in log[t][a]
    <3>1. t = active.task /\ e.at + 2 <= active.size[a]
      BY <1>1, <2>1 DEF AckedInv, OpenKept
    <3>2. active.size[a] \in Nat /\ e.at \in Nat /\ active.size[a] <= active'.size[a]
      BY <1>1, <1>2, <1>7, <2>1
    <3>3. active'.size[a] \in Nat
      BY <1>1, <1>2
    <3>4. QED
      BY <3>1, <3>2, <3>3
  <2>2. CASE t = active.task /\ a = op.area /\ e = new
    BY <1>1, <1>2, <1>6, <2>2
  <2>3. e \in log[t][a] \/ (t = active.task /\ a = op.area /\ e = new)
    <3>1. CASE t = active.task /\ a = op.area
      <4>1. log'[t][a] = log[t][a] \union {new}
        BY <1>3, <3>1
      <4>2. QED
        BY <3>1, <4>1
    <3>2. CASE ~(t = active.task /\ a = op.area)
      <4>1. log'[t][a] = log[t][a]
        BY <1>3, <3>2
      <4>2. QED
        BY <4>1
    <3>3. QED
      BY <3>1, <3>2
  <2>4. QED
    BY <2>1, <2>2, <2>3
<1>10. OpenReach'
  <2> SUFFICES ASSUME active.slot \notin stale, NEW a \in Area
               PROVE  Reach(active.slot, a, active.size[a])'
    BY <1>2 DEF OpenReach, Live
  <2>1. PICK s, i : s = active.slot /\ i = active'.size[a]
    OBVIOUS
  <2>2. CASE a = op.area
    <3>1. Reach(s, a, i)'
      BY <1>2, <2>1, <2>2, DoneInPlace
    <3>2. QED
      BY <1>2, <2>1, <3>1 DEF Reach
  <2>3. CASE a # op.area
    <3>1. i = active.size[a]
      BY <1>2, <2>1, <2>3
    <3>2. Live
      BY <1>1, <1>2 DEF Live, Opening
    <3>3. Reach(s, a, i) /\ WordsKept(s, a, i)
      BY <1>4, <2>1, <3>1, <3>2 DEF AckedInv, OpenReach
    <3>4. Reach(s, a, i)'
      BY <3>3, ReachKept
    <3>5. QED
      BY <1>2, <2>1, <3>4 DEF Reach
  <2>4. QED
    BY <2>2, <2>3
<1>11. QED
  BY <1>8, <1>9, <1>10

LEMMA AckedAppend ==
  ASSUME SlotsInv, RecordType, RecordType', Nums, AckedInv,
         AppendErase \/ AppendHead \/ AppendTail
  PROVE  AckedInv'
<1>1. /\ op \in AppendOp /\ UNCHANGED <<hdr, stale>> /\ ~Opening /\ ~Opening'
      /\ op.pc \in {"prepare", "tail"} /\ op'.pc \in {"idle", "prepare", "tail"}
      /\ op'.pc = "tail" => AppendHead
      /\ \A s, t : Owner(s, t)' => Owner(s, t)
  BY AppendCall
<1>2. ActiveStays /\ active.valid
  BY <1>1, AppendActive
<1>3. (UNCHANGED log /\ active'.size = active.size) \/ RecordDone
  BY <1>1, AppendActive
<1>4. Kept' /\ OpenKept' /\ OpenReach'
  BY <1>1, <1>3, AckedAppending, AckedAppended
<1>5. Elsewhere'
  BY <1>1, <1>2, ElsewhereStep DEF AckedInv
<1>6. Begun' /\ Blocks'
  BY <1>1 DEF Begun, Blocks
<1>7. TailHead'
  <2> SUFFICES ASSUME op'.pc = "tail"
               PROVE  word'[active'.slot][op'.area][Place'] = op'.num
    BY DEF TailHead
  <2>1. AppendHead /\ op' = [op EXCEPT !.pc = "tail"] /\ UNCHANGED active
        /\ Write(active.slot, op.area, Place, op.num)
    BY <1>1 DEF AppendHead, AppendFails, Idle, ProgramOk
  <2>2. op'.area = op.area /\ op'.num = op.num /\ Place' = Place
    BY <1>1, <2>1 DEF AppendOp, Place
  <2>3. /\ WordShape /\ active.slot \in Slot /\ op.area \in Area
        /\ op.num \in Word /\ Place \in Index(op.area)
    BY <1>1, <2>1, PlaceIs DEF RecordType, AppendHead
  <2>4. word'[active.slot][op.area][Place] = op.num
    BY <2>1, <2>3, WriteIs
  <2>5. QED
    BY <2>1, <2>2, <2>4
<1>8. QED
  BY <1>4, <1>5, <1>6, <1>7 DEF AckedInv
-----------------------------------------------------------------------------
(* Where an erased block reaches.                                            *)
LEMMA Products ==
  ASSUME NEW n \in Nat, NEW x \in Nat, NEW y \in Nat, x < y
  PROVE  x * n \in Nat /\ y * n \in Nat /\ x * n + n <= y * n
<1>1. y - x - 1 \in Nat /\ y = x + 1 + (y - x - 1)
  OBVIOUS
<1>2. PICK d \in Nat : y = x + 1 + d
  BY <1>1
<1>3. y * n = x * n + n + d * n /\ d * n \in Nat /\ x * n \in Nat
  BY <1>2
<1>4. QED
  BY <1>3

LEMMA SectorIn ==
  ASSUME NEW a \in Area, NEW w \in Index(a)
  PROVE  /\ w \in Nat /\ Sector(w) \in Nat /\ Sector(w) < AreaSectors(a)
         /\ \A h \in Index(a) : h <= w => Sector(h) <= Sector(w)
<1> DEFINE N == SectorWords
<1>1. /\ N \in Nat /\ N >= 2 /\ AreaSectors(a) \in Nat
      /\ AreaWords(a) = N * AreaSectors(a) /\ AreaWords(a) \in Nat
  BY Sizes
<1>2. \A i \in Index(a) : i \in Nat /\ i < AreaWords(a)
  BY <1>1 DEF Index
<1>3. \A i \in Index(a) : /\ Sector(i) \in Nat
                          /\ Sector(i) * N <= i /\ i < Sector(i) * N + N
  BY <1>2, SectorIs
<1>4. Sector(w) < AreaSectors(a)
  <2>1. ~(AreaSectors(a) < Sector(w)) \/ AreaSectors(a) * N + N <= Sector(w) * N
    BY <1>1, <1>3, Products
  <2>2. AreaSectors(a) * N = AreaWords(a)
    BY <1>1
  <2>3. Sector(w) * N \in Nat
    BY <1>1, <1>3
  <2> HIDE DEF N
  <2>4. Sector(w) # AreaSectors(a)
    BY <1>1, <1>2, <1>3, <2>2, <2>3
  <2>5. ~(AreaSectors(a) < Sector(w))
    BY <1>1, <1>2, <1>3, <2>1, <2>2, <2>3
  <2>6. QED
    BY <1>1, <1>3, <2>4, <2>5
<1>5. ASSUME NEW h \in Index(a), h <= w PROVE Sector(h) <= Sector(w)
  <2>1. ~(Sector(w) < Sector(h)) \/ Sector(w) * N + N <= Sector(h) * N
    BY <1>1, <1>3, Products
  <2>2. Sector(w) * N \in Nat /\ Sector(h) * N \in Nat
    BY <1>1, <1>3
  <2> HIDE DEF N
  <2>3. h \in Nat /\ w \in Nat /\ Sector(h) * N <= h /\ w < Sector(w) * N + N
    BY <1>2, <1>3
  <2>4. ~(Sector(w) < Sector(h))
    BY <1>1, <1>5, <2>1, <2>2, <2>3
  <2>5. QED
    BY <1>3, <2>4
<1>6. QED
  BY <1>2, <1>3, <1>4, <1>5

LEMMA SectorOfIn ==
  ASSUME NEW s \in Slot, NEW a \in Area, NEW w \in Index(a)
  PROVE  /\ SectorOf(s, a, w) = AreaBase(s, a) + Sector(w)
         /\ AreaBase(s, a) \in Nat /\ SectorOf(s, a, w) \in Nat
         /\ s * SlotSectors < SectorOf(s, a, w)
         /\ SectorOf(s, a, w) < s * SlotSectors + SlotSectors
<1>1. /\ s \in Nat /\ PreSectors \in Nat /\ DataSectors \in Nat
      /\ Sector(w) \in Nat /\ Sector(w) < AreaSectors(a)
  BY FlashStoreAssumption, SectorIn DEF FlashStoreAssumption, Slot
<1>2. SlotSectors = 1 + PreSectors + DataSectors /\ s * SlotSectors \in Nat
  BY <1>1 DEF SlotSectors
<1>3. SectorOf(s, a, w) = AreaBase(s, a) + Sector(w)
  BY DEF SectorOf, Sector
<1>4. CASE a = "pre"
  <2>1. AreaBase(s, a) = s * SlotSectors + 1 /\ AreaSectors(a) = PreSectors
    BY <1>1, <1>2, <1>4 DEF AreaBase, SlotBase, AreaSectors
  <2>2. QED
    BY <1>1, <1>2, <1>3, <2>1
<1>5. CASE a # "pre"
  <2>1. AreaBase(s, a) = s * SlotSectors + 1 + PreSectors /\ AreaSectors(a) = DataSectors
    BY <1>1, <1>2, <1>5 DEF AreaBase, SlotBase, AreaSectors
  <2>2. QED
    BY <1>1, <1>2, <1>3, <2>1
<1>6. QED
  BY <1>4, <1>5

(* Of another slot only the end can be erased.                               *)
LEMMA BlockSuffix ==
  ASSUME NEW s \in Slot, NEW r \in Slot, s # r, NEW k \in 0 .. BlocksPerSlot - 1,
         NEW a \in Area, NEW h \in Index(a), NEW w \in Index(a), h <= w,
         SectorOf(s, a, h) \in Block(SlotBase(r) + k * BlockSectors)
  PROVE  SectorOf(s, a, w) \in Block(SlotBase(r) + k * BlockSectors)
<1> DEFINE N == SlotSectors
           B == BlockSectors
           x == r * N + k * B
           q == x \div B
           y == SectorOf(s, a, h)
           z == SectorOf(s, a, w)
<1>1. /\ N \in Nat /\ N > 1 /\ B \in Nat /\ B > 0 /\ B <= N
      /\ s \in Nat /\ r \in Nat
  BY Geometry, FlashStoreAssumption DEF Slot, FlashStoreAssumption
<1>2. N \div B \in Nat /\ (N \div B) * B <= N
  BY <1>1, Floor
<1>3. k \in Nat /\ k < N \div B
  BY <1>2 DEF BlocksPerSlot
<1>4. k * B \in Nat /\ k * B + B <= N
  <2>1. k * B \in Nat /\ (N \div B) * B \in Nat /\ k * B + B <= (N \div B) * B
    BY <1>1, <1>2, <1>3, Products
  <2> HIDE DEF N, B
  <2>2. QED
    BY <1>1, <1>2, <2>1
<1>5. /\ r * N \in Nat /\ s * N \in Nat
      /\ s < r => s * N + N <= r * N
      /\ r < s => r * N + N <= s * N
  BY <1>1, Products
<1>6. x \in Nat
  BY <1>4, <1>5
<1>7. q \in Nat /\ q * B <= x /\ x < q * B + B
  BY <1>1, <1>6, Floor
<1>8. q * B \in Nat
  BY <1>1, <1>7
<1>9. Block(SlotBase(r) + k * B) = q * B .. q * B + B - 1
  BY DEF Block, SlotBase
<1>10. /\ y \in Nat /\ z \in Nat /\ y <= z
       /\ s * N < y /\ z < s * N + N
  <2>1. Sector(h) <= Sector(w) /\ Sector(h) \in Nat /\ Sector(w) \in Nat
    BY SectorIn
  <2>2. QED
    BY <2>1, SectorOfIn
<1>11. y \in Block(SlotBase(r) + k * B)
  OBVIOUS
<1> HIDE DEF q, y, z, N, B
<1>12. x = r * N + k * B
  OBVIOUS
<1> HIDE DEF x
<1>13. q * B <= y /\ y <= q * B + B - 1
  BY <1>1, <1>8, <1>9, <1>10, <1>11
<1>14. ~(r < s)
  BY <1>1, <1>4, <1>5, <1>7, <1>8, <1>10, <1>12, <1>13
<1>15. s < r
  BY <1>1, <1>14
<1>16. q * B <= z /\ z <= q * B + B - 1
  BY <1>1, <1>4, <1>5, <1>7, <1>8, <1>10, <1>12, <1>13, <1>15
<1>17. z \in Block(SlotBase(r) + k * B)
  BY <1>1, <1>8, <1>9, <1>10, <1>16
<1>18. QED
  BY <1>17 DEF z, B

(* A step of a deletion or a format: what it does to the call and the open   *)
(* slot,                                                                     *)
LEMMA EraseCall ==
  ASSUME SlotsInv, EraseBlock
  PROVE  /\ op \in EraseOp /\ op.slot \in Slot /\ op.pc = "block"
         /\ op.block \in 0 .. BlocksPerSlot - 1 /\ op.block \in Nat
         /\ \/ /\ op'.pc = "block" /\ op'.tasks = op.tasks /\ UNCHANGED active
               /\ \/ op'.block = 0
                  \/ /\ op'.slot = op.slot
                     /\ EraseSectors(Block(SlotBase(op.slot) + op.block * BlockSectors))
            \/ /\ op'.pc = "idle"
               /\ active' = IF \E t \in op.tasks : IsOpen(t) THEN NoActive ELSE active
<1>1. op \in EraseOp
  BY UnderWay DEF SlotsInv, EraseBlock
<1>2. /\ op.slot \in Slot /\ op.pc = "block"
      /\ op.block \in 0 .. BlocksPerSlot - 1 /\ op.block \in Nat
  BY <1>1, CallKinds
<1>3. \/ /\ op' = [op EXCEPT !.block = @ + 1] /\ UNCHANGED active
         /\ EraseSectors(Block(SlotBase(op.slot) + op.block * BlockSectors))
      \/ SlotDone
  BY DEF EraseBlock
<1>4. CASE /\ op' = [op EXCEPT !.block = @ + 1] /\ UNCHANGED active
           /\ EraseSectors(Block(SlotBase(op.slot) + op.block * BlockSectors))
  <2>1. op'.pc = "block" /\ op'.tasks = op.tasks /\ op'.slot = op.slot
    BY <1>1, <1>4 DEF EraseOp
  <2>2. QED
    BY <1>1, <1>2, <1>4, <2>1
<1>5. CASE SlotDone
  <2>1. CASE op' = [op EXCEPT !.slot = @ + 1, !.block = 0] /\ UNCHANGED active
    <3>1. op'.pc = "block" /\ op'.tasks = op.tasks /\ op'.block = 0
      BY <1>1, <2>1 DEF EraseOp
    <3>2. QED
      BY <1>1, <1>2, <2>1, <3>1
  <2>2. CASE /\ op' = Idle
             /\ active' = IF \E t \in op.tasks : IsOpen(t) THEN NoActive ELSE active
    <3>1. op'.pc = "idle"
      BY <2>2 DEF Idle
    <3>2. QED
      BY <1>1, <1>2, <2>2, <3>1
  <2>3. QED
    BY <1>5, <2>1, <2>2 DEF SlotDone
<1>6. QED
  BY <1>3, <1>4, <1>5

(* whose slot survives it,                                                   *)
LEMMA EraseOwners ==
  ASSUME SlotsInv, Blocks, EraseBlock
  PROVE  \A s \in Slot, t \in Task : Owner(s, t)' =>
           /\ Owner(s, t)
           /\ EraseSectors(Block(SlotBase(op.slot) + op.block * BlockSectors))
                => s # op.slot
<1>1. /\ op \in EraseOp /\ op.slot \in Slot /\ op.pc = "block" /\ op.block \in Nat
      /\ op'.pc \in {"idle", "block"}
  BY EraseCall
<1>2. \A s \in Slot : hdr'[s] = hdr[s] \/ (s = op.slot /\ hdr'[s] = NoHeader)
  BY EraseBlockHeaders
<1>3. ASSUME EraseSectors(Block(SlotBase(op.slot) + op.block * BlockSectors))
      PROVE  hdr'[op.slot] = NoHeader
  <2>1. CASE op.block > 0
    BY <1>1, <1>2, <2>1 DEF Blocks, HasHeader
  <2>2. CASE op.block = 0
    <3> DEFINE b == SlotBase(op.slot)
    <3>1. b \in Nat
      BY <1>1, Geometry, FlashStoreAssumption DEF SlotBase, Slot, FlashStoreAssumption
    <3>2. b + op.block * BlockSectors = b
      BY <2>2, <3>1, Geometry
    <3>3. b \in Block(b)
      <4>1. /\ (b \div BlockSectors) * BlockSectors <= b
            /\ b < (b \div BlockSectors) * BlockSectors + BlockSectors
            /\ (b \div BlockSectors) * BlockSectors \in Nat
        <5>1. /\ b \div BlockSectors \in Nat
              /\ (b \div BlockSectors) * BlockSectors <= b
              /\ b < (b \div BlockSectors) * BlockSectors + BlockSectors
          BY <3>1, Geometry, Floor
        <5>2. QED
          BY <5>1, Geometry
      <4> DEFINE c == (b \div BlockSectors) * BlockSectors
      <4>2. Block(b) = c .. c + BlockSectors - 1
        BY DEF Block
      <4> HIDE DEF c
      <4>3. c <= b /\ b < c + BlockSectors /\ c \in Nat
        BY <4>1 DEF c
      <4> HIDE DEF b
      <4>4. QED
        BY <3>1, <4>2, <4>3, Geometry
    <3>4. QED
      BY <1>1, <1>3, <3>2, <3>3 DEF EraseSectors
  <2>3. QED
    BY <1>1, <2>1, <2>2
<1>4. \A s, t : Owner(s, t)' => hdr'[s] # NoHeader /\ hdr'[s].task = t
  BY <1>1 DEF Owner, HasHeader
<1>5. QED
  BY <1>2, <1>3, <1>4 DEF Owner, HasHeader

(* and that what is acknowledged in other slots is spared, with all that     *)
(* lies before it.                                                           *)
LEMMA EraseSpares ==
  ASSUME SlotsInv, RecordType, AckedInv, EraseBlock
  PROVE  WordsStay
<1> DEFINE sectors == Block(SlotBase(op.slot) + op.block * BlockSectors)
<1>1. op.slot \in Slot /\ op.block \in 0 .. BlocksPerSlot - 1
  BY EraseCall
<1>2. EraseSectors(sectors) \/ UNCHANGED <<hdr, word, log, stale>>
  BY DEF EraseBlock
<1>3. CASE UNCHANGED word
  BY <1>3 DEF WordsStay, WordsKept
<1>4. CASE EraseSectors(sectors)
  <2> SUFFICES ASSUME NEW s \in Slot \ stale', NEW t \in Task, NEW a \in Area,
                      NEW e \in log'[t][a], Owner(s, t), Owner(s, t)',
                      NEW h \in Index(a), h < e.at + 2
               PROVE  word'[s][a][h] = word[s][a][h]
    BY DEF WordsStay, WordsKept
  <2>1. s # op.slot
    BY <1>4, EraseOwners DEF AckedInv
  <2>2. /\ e \in log[t][a] /\ SectorOf(e.slot, a, e.at + 1) \notin sectors
    BY <1>4 DEF EraseSectors
  <2>3. s \notin stale
    BY <1>4 DEF EraseSectors, WrongAbout
  <2>4. e.slot = s /\ Reach(s, a, e.at + 2) /\ e.at \in Nat
    BY <2>2, <2>3, LogEntries DEF AckedInv, Kept, InPlace
  <2>5. e.at + 2 <= AreaWords(a) /\ AreaWords(a) \in Nat
    BY <2>4, ReachIs, Sizes
  <2>6. e.at + 1 \in Index(a) /\ h <= e.at + 1
    BY <2>4, <2>5 DEF Index
  <2>7. PICK w \in Index(a) : w = e.at + 1
    BY <2>6
  <2>8. SectorOf(s, a, h) \notin sectors
    BY <1>1, <2>1, <2>2, <2>4, <2>6, <2>7, BlockSuffix
  <2> HIDE DEF sectors
  <2>9. QED
    BY <1>4, <2>8, EraseSectorsIs DEF RecordType
<1>5. QED
  BY <1>2, <1>3, <1>4

LEMMA EraseLive ==
  ASSUME SlotsInv, RecordType, EraseBlock, Live'
  PROVE  /\ Live /\ UNCHANGED active
         /\ \A a \in Area : \A w \in Index(a) :
              word'[active.slot][a][w] = word[active.slot][a][w]
<1> DEFINE sectors == Block(SlotBase(op.slot) + op.block * BlockSectors)
<1>1. op.pc = "block" /\ active'.valid /\ active'.slot \notin stale'
  BY EraseCall DEF Live
<1>2. UNCHANGED active /\ active.task \notin op.tasks
  <2>1. CASE op'.pc = "block" /\ op'.tasks = op.tasks /\ UNCHANGED active
    BY <2>1 DEF Live
  <2>2. CASE active' = IF \E t \in op.tasks : IsOpen(t) THEN NoActive ELSE active
    <3>1. ~\E t \in op.tasks : IsOpen(t)
      BY <1>1, <2>2, ActiveIs
    <3>2. QED
      BY <1>1, <2>2, <3>1 DEF IsOpen
  <2>3. QED
    BY <2>1, <2>2, EraseCall
<1>3. EraseSectors(sectors) \/ UNCHANGED <<hdr, word, log, stale>>
  BY DEF EraseBlock
<1> HIDE DEF sectors
<1>4. stale \subseteq stale' /\ (EraseSectors(sectors) => ~OpenHit(sectors))
  BY <1>1, <1>2, <1>3 DEF EraseSectors, WrongAbout
<1>5. Live
  BY <1>1, <1>2, <1>4 DEF Live, Opening
<1>6. active.slot \in Slot
  BY <1>1, <1>2, ActiveIs DEF RecordType, OpenType
<1>7. CASE EraseSectors(sectors)
  <2>1. \A a \in Area : \A w \in Index(a) : SectorOf(active.slot, a, w) \notin sectors
    BY <1>1, <1>2, <1>4, <1>7 DEF OpenHit
  <2>2. QED
    BY <1>2, <1>5, <1>6, <1>7, <2>1, EraseSectorsIs DEF RecordType
<1>8. CASE UNCHANGED word
  BY <1>2, <1>5, <1>8
<1>9. QED
  BY <1>3, <1>7, <1>8

LEMMA AckedEraseBlock ==
  ASSUME SlotsInv, RecordType, RecordType', AckedInv, EraseBlock
  PROVE  AckedInv'
<1>1. /\ op.pc = "block" /\ op'.pc \in {"idle", "block"}
      /\ active' \in {active, NoActive}
  BY EraseCall
<1>2. \A s \in Slot, t \in Task : Owner(s, t)' => Owner(s, t)
  BY EraseOwners DEF AckedInv
<1>3. /\ stale \subseteq stale' /\ LogShrinks /\ OwnersKept /\ ActiveStays
      /\ active'.valid => UNCHANGED active
  <2>1. stale \subseteq stale'
    BY DEF EraseBlock, EraseSectors, WrongAbout
  <2>2. LogShrinks
    <3>1. log' = log \/ \E sectors : EraseSectors(sectors)
      BY DEF EraseBlock
    <3>2. ASSUME NEW sectors, EraseSectors(sectors) PROVE LogShrinks
      BY <3>2 DEF RecordType, HistoryType, EraseSectors, LogShrinks
    <3>3. QED
      BY <3>1, <3>2 DEF LogShrinks
  <2>3. active'.valid => UNCHANGED active
    BY <1>1, ActiveIs
  <2>4. QED
    BY <1>2, <2>1, <2>2, <2>3 DEF OwnersKept, ActiveStays
<1>4. Kept'
  BY <1>3, KeptStep, EraseSpares DEF AckedInv
<1>5. OpenKept'
  <2>1. active'.valid => \A a \in Area : /\ active'.size[a] \in Nat
                                         /\ active.size[a] <= active'.size[a]
    BY <1>3, ActiveIs DEF RecordType, OpenType
  <2>2. QED
    BY <1>3, <2>1, OpenKeptStep DEF AckedInv
<1>6. OpenReach'
  BY <1>3, OpenReachStep, EraseLive DEF AckedInv, WordsKept
<1>7. Elsewhere'
  BY <1>1, <1>2, <1>3, ElsewhereStep DEF AckedInv, Opening
<1>8. Begun' /\ TailHead'
  BY <1>1 DEF Begun, Opening, TailHead
<1>9. Blocks'
  <2> SUFFICES ASSUME op'.pc = "block", op'.block > 0 PROVE hdr'[op'.slot] = NoHeader
    BY DEF Blocks, HasHeader
  <2>1. /\ op'.slot = op.slot /\ op.slot \in Slot
        /\ EraseSectors(Block(SlotBase(op.slot) + op.block * BlockSectors))
    BY EraseCall
  <2>2. ASSUME hdr'[op.slot] # NoHeader PROVE FALSE
    <3>1. PICK s \in Slot : s = op.slot
      BY <2>1
    <3>2. PICK t : t = hdr'[s].task
      OBVIOUS
    <3>3. hdr'[s] # NoHeader
      BY <2>2, <3>1
    <3>4. t \in Task
      <4>1. hdr'[s] \in Header
        BY <3>3, EraseBlockHeaders
      <4>2. QED
        BY <3>2, <4>1, HeaderIsHeader
    <3>5. Owner(s, t)'
      BY <3>2, <3>3 DEF Owner, HasHeader
    <3>6. QED
      BY <2>1, <3>1, <3>4, <3>5, EraseOwners DEF AckedInv
  <2>3. QED
    BY <2>1, <2>2
<1>10. QED
  BY <1>4, <1>5, <1>6, <1>7, <1>8, <1>9 DEF AckedInv

LEMMA AckedInit == Init => AckedInv /\ Nums
<1> SUFFICES ASSUME Init PROVE AckedInv /\ Nums
  OBVIOUS
<1>1. /\ op.pc = "idle" /\ op \notin AppendOp /\ ~active.valid
      /\ \A t \in Task, a \in Area : log[t][a] = {}
  BY ActiveIs, CallKinds DEF Init, Idle, NoLog
<1>2. \A s \in Slot, t \in Task : ~Owner(s, t)
  BY <1>1 DEF Init, Owner, HasHeader
<1>3. Kept /\ OpenKept /\ OpenReach /\ Elsewhere
  BY <1>1, <1>2 DEF Kept, OpenKept, OpenReach, Live, Elsewhere
<1>4. Begun /\ Blocks /\ TailHead /\ Nums
  BY <1>1 DEF Begun, Opening, Blocks, TailHead, Nums
<1>5. QED
  BY <1>3, <1>4 DEF AckedInv

LEMMA AckedStep ==
  ASSUME SlotsInv, RecordType, RecordType', Nums, AckedInv, [Next]_vars
  PROVE  AckedInv'
<1>1. CASE UNCHANGED vars
  <2>1. UNCHANGED <<hdr, word, log, stale, active, op>>
    BY <1>1 DEF vars
  <2>2. \A s, t : Owner(s, t)' <=> Owner(s, t)
    BY <2>1 DEF Owner, HasHeader
  <2>3. LogShrinks /\ OwnersKept /\ WordsStay /\ stale \subseteq stale' /\ ActiveStays
    BY <2>1, <2>2 DEF LogShrinks, OwnersKept, WordsStay, WordsKept, ActiveStays
  <2>4. active'.valid => \A a \in Area : /\ active'.size[a] \in Nat
                                         /\ active.size[a] <= active'.size[a]
    BY <2>1, ActiveIs DEF RecordType, OpenType
  <2>5. Kept' /\ OpenKept'
    BY <2>3, <2>4, KeptStep, OpenKeptStep DEF AckedInv
  <2>6. Live' => Live
    BY <2>1 DEF Live, Opening
  <2>7. OpenReach'
    BY <2>1, <2>3, <2>6, OpenReachStep DEF AckedInv, WordsKept
  <2>8. Elsewhere'
    BY <2>1, <2>2 DEF AckedInv, Elsewhere, Opening, Owner, HasHeader
  <2>9. Begun' /\ Blocks' /\ TailHead'
    BY <2>1 DEF AckedInv, Begun, Opening, Unlogged, Blocks, HasHeader, TailHead, Place
  <2>10. QED
    BY <2>5, <2>7, <2>8, <2>9 DEF AckedInv
<1>2. CASE HeaderNext
  BY <1>2, AckedEraseHeader, AckedProgramHeader, AckedEraseFirst, AckedStill
     DEF HeaderNext
<1>3. CASE RecordNext
  BY <1>3, AckedAppend, AckedStill DEF RecordNext
<1>4. CASE EraseNext
  BY <1>4, AckedEraseBlock, AckedStill DEF EraseNext
<1>5. CASE Reset
  BY <1>5, AckedStill
<1>6. QED
  BY <1>1, <1>2, <1>3, <1>4, <1>5 DEF Next

(* An acknowledged record stays whole and in place (AckedInPlace): the open  *)
(* slot's sizes are behind all that its task is owed, a search of an area    *)
(* does not end before it, an erase on demand begins behind the size, and a  *)
(* block that is erased for one slot takes of another at most an end.        *)
THEOREM AckedStayInPlace == Spec => []AckedInPlace
<1>1. SlotsInv /\ AckedInv => AckedInPlace
  <2> SUFFICES ASSUME SlotsInv, AckedInv, NEW s \in Slot \ (Free \union stale),
                      NEW a \in Area, NEW t, t = hdr[s].task, NEW e \in log[t][a]
               PROVE  /\ e.slot = s
                      /\ word[s][a][e.at] = e.num /\ word[s][a][e.at + 1] = e.num
                      /\ \A f \in log[t][a] \ {e} : e.num <= f.num => e.at < f.at
    BY DEF AckedInPlace
  <2>1. HasHeader(s) /\ s \in Slot \ stale
    BY DEF Free
  <2>2. t \in Task
    BY <2>1, HeaderIsHeader DEF SlotsInv, StoreType, HasHeader
  <2>3. Owner(s, t)
    BY <2>1 DEF Owner
  <2>4. QED
    BY <2>1, <2>2, <2>3 DEF AckedInv, Kept, InPlace, Ordered
<1>2. QED
  BY SlotsInit, SlotsStep, RecordTypeInit, RecordTypeStep, AckedInit, NumsStep,
     AckedStep, <1>1, PTL DEF Spec
-----------------------------------------------------------------------------
(* Fresh words.  This is about slots that the open slot was never wrong      *)
(* about, and that no begin or deletion under way is at.                     *)
Whole ==
  /\ active.valid /\ active.slot \notin holed /\ ~Opening
  /\ ~(op.pc = "block" /\ active.task \in op.tasks)

(* In a sector no word behind an erased head is written,                     *)
Closure ==
  \A s \in Slot \ holed, a \in Area : \A h, w \in Index(a) :
    (h % 2 = 0 /\ h < w /\ Sector(h) = Sector(w) /\ word[s][a][h] = Erased)
      => word[s][a][w] = Erased

(* every head before the size of the open slot and in the sector that the    *)
(* size lies in is written,                                                  *)
Solid ==
  Whole => \A a \in Area : \A h \in Index(a) :
    (h % 2 = 0 /\ h < active.size[a] /\ Sector(h) = Sector(active.size[a]))
      => word[active.slot][a][h] # Erased

(* and from the size up to the next sector to be erased nothing is, but the  *)
(* head of the record under way, as long as there is room for a record.      *)
FreshTail ==
  Whole => \A a \in Area : active.size[a] + 2 <= AreaWords(a) =>
    \A w \in Index(a) :
      (/\ active.size[a] <= w /\ w < active.next[a]
       /\ ~(op.pc = "tail" /\ a = op.area /\ w = Place))
        => word[active.slot][a][w] = Erased

FreshInv == faults = 0 => Closure /\ Solid /\ FreshTail

LEMMA SectorMonotone ==
  ASSUME NEW h \in Nat, NEW w \in Nat, h <= w
  PROVE  Sector(h) <= Sector(w) /\ Sector(h) \in Nat /\ Sector(w) \in Nat
<1> DEFINE N == SectorWords
<1>1. N \in Nat /\ N >= 2
  BY Sizes
<1>2. /\ Sector(h) \in Nat /\ Sector(h) * N <= h
      /\ Sector(w) \in Nat /\ w < Sector(w) * N + N
  BY SectorIs
<1>3. ~(Sector(w) < Sector(h)) \/ Sector(w) * N + N <= Sector(h) * N
  BY <1>1, <1>2, Products
<1>4. Sector(w) * N \in Nat /\ Sector(h) * N \in Nat
  BY <1>1, <1>2
<1> HIDE DEF N
<1>5. ~(Sector(w) < Sector(h))
  BY <1>1, <1>2, <1>3, <1>4
<1>6. QED
  BY <1>2, <1>5

(* Erasing is by sectors.                                                    *)
SectorWise ==
  \A s \in Slot \ holed', a \in Area : \A h, w \in Index(a) :
    Sector(h) = Sector(w) =>
      \/ word'[s][a][h] = Erased /\ word'[s][a][w] = Erased
      \/ word'[s][a][h] = word[s][a][h] /\ word'[s][a][w] = word[s][a][w]

LEMMA ClosureErased ==
  ASSUME Closure, SectorWise, holed \subseteq holed'
  PROVE  Closure'
<1> SUFFICES ASSUME NEW s \in Slot \ holed', NEW a \in Area,
                    NEW h \in Index(a), NEW w \in Index(a),
                    h % 2 = 0, h < w, Sector(h) = Sector(w), word'[s][a][h] = Erased
             PROVE  word'[s][a][w] = Erased
  BY DEF Closure, Sector
<1>1. word[s][a][h] = Erased => word[s][a][w] = Erased
  BY DEF Closure
<1>2. \/ word'[s][a][h] = Erased /\ word'[s][a][w] = Erased
      \/ word'[s][a][h] = word[s][a][h] /\ word'[s][a][w] = word[s][a][w]
  BY DEF SectorWise
<1>3. QED
  BY <1>1, <1>2

(* What neither the words nor the open slot notice.                          *)
LEMMA FreshKept ==
  ASSUME FreshInv, SectorWise, holed \subseteq holed', faults' = 0 => faults = 0,
         Whole' => /\ Whole /\ UNCHANGED active /\ op.pc # "tail"
                  /\ \A a \in Area : \A w \in Index(a) :
                       word'[active.slot][a][w] = word[active.slot][a][w]
  PROVE  FreshInv'
<1> SUFFICES ASSUME faults = 0 PROVE Closure' /\ Solid' /\ FreshTail'
  BY DEF FreshInv
<1>1. Closure /\ Solid /\ FreshTail
  BY DEF FreshInv
<1>2. Closure'
  BY <1>1, ClosureErased
<1>3. Solid'
  <2> SUFFICES ASSUME Whole', NEW a \in Area, NEW h \in Index(a), h % 2 = 0,
                      h < active'.size[a], Sector(h) = Sector(active'.size[a])
               PROVE  word'[active'.slot][a][h] # Erased
    BY DEF Solid, Sector
  <2>1. active' = active /\ word'[active.slot][a][h] = word[active.slot][a][h] /\ Whole
    OBVIOUS
  <2>2. word[active.slot][a][h] # Erased
    BY <1>1, <2>1 DEF Solid
  <2>3. QED
    BY <2>1, <2>2
<1>4. FreshTail'
  <2> SUFFICES ASSUME Whole', NEW a \in Area, active'.size[a] + 2 <= AreaWords(a),
                      NEW w \in Index(a), active'.size[a] <= w, w < active'.next[a]
               PROVE  word'[active'.slot][a][w] = Erased
    BY DEF FreshTail
  <2>1. active' = active /\ word'[active.slot][a][w] = word[active.slot][a][w] /\ Whole
    OBVIOUS
  <2>2. word[active.slot][a][w] = Erased
    BY <1>1, <2>1 DEF FreshTail
  <2>3. QED
    BY <2>1, <2>2
<1>5. QED
  BY <1>2, <1>3, <1>4

(* The size found on opening a slot and the border of the sector behind it.  *)
LEMMA ScanFresh ==
  ASSUME Closure, NEW s \in Slot \ holed, NEW a \in Area, NEW size \in Nat,
         size = Scan(word[s][a], a)
  PROVE  /\ \A h \in Index(a) :
              (h % 2 = 0 /\ h < size /\ Sector(h) = Sector(size))
                => word[s][a][h] # Erased
         /\ size + 2 <= AreaWords(a) =>
              \A w \in Index(a) : (size <= w /\ w < NextErase(size))
                => word[s][a][w] = Erased
<1> DEFINE j == End(Found(word[s][a], a), Records(a))
           N == SectorWords
<1>1. /\ Records(a) \in Nat \ {0} /\ AreaWords(a) \in Nat
      /\ 2 * Records(a) <= AreaWords(a) /\ AreaWords(a) < 2 * Records(a) + 2
      /\ N \in Nat /\ N >= 2
  BY Sizes
<1>2. j \in 0 .. Records(a) /\ size = 2 * j
  BY ScanIs
<1>3. /\ j < Records(a) => j \notin Found(word[s][a], a)
      /\ j > 0 => j - 1 \in Found(word[s][a], a)
  BY <1>1, EndBorder
<1>4. \A i \in Index(a) : i \in Nat /\ i < AreaWords(a)
  BY <1>1 DEF Index
<1> HIDE DEF j
<1>5. ASSUME NEW h \in Index(a), h % 2 = 0, h < size, Sector(h) = Sector(size)
      PROVE  word[s][a][h] # Erased
  <2>1. h \in Nat /\ j \in Nat /\ j > 0 /\ h <= size - 2 /\ size - 2 \in Nat
    BY <1>1, <1>2, <1>4, <1>5
  <2>2. word[s][a][2 * (j - 1)] # Erased
    BY <1>3, <2>1 DEF Found, RecordWords
  <2>3. 2 * (j - 1) = size - 2
    BY <1>2, <2>1
  <2>4. size - 2 \in Index(a)
    BY <1>1, <1>2, <2>1 DEF Index
  <2>5. PICK w \in Index(a) : w = size - 2
    BY <2>4
  <2>6. word[s][a][w] # Erased
    BY <2>2, <2>3, <2>5
  <2>7. CASE h < w
    <3>1. w \in Nat /\ h <= w /\ w <= size
      BY <1>4, <2>1, <2>5, <2>7
    <3>2. /\ Sector(h) <= Sector(w) /\ Sector(w) <= Sector(size)
          /\ Sector(h) \in Nat /\ Sector(w) \in Nat
      BY <2>1, <3>1, SectorMonotone
    <3>3. Sector(h) = Sector(w)
      BY <1>5, <3>2
    <3>4. QED
      BY <1>5, <2>6, <2>7, <3>3 DEF Closure
  <2>8. CASE h = w
    BY <2>6, <2>8
  <2>9. QED
    BY <2>1, <2>5, <2>7, <2>8
<1>6. ASSUME size + 2 <= AreaWords(a), NEW w \in Index(a), size <= w, w < NextErase(size)
      PROVE  word[s][a][w] = Erased
  <2>1. j < Records(a) /\ j \in Nat /\ w \in Nat
    BY <1>1, <1>2, <1>4, <1>6
  <2>2. word[s][a][2 * j] = Erased
    BY <1>1, <1>3, <2>1 DEF Found, RecordWords
  <2>3. PICK e \in Index(a) : e = size
    BY <1>1, <1>6 DEF Index
  <2>4. word[s][a][e] = Erased /\ e % 2 = 0 /\ e \in Nat
    BY <1>2, <2>1, <2>2, <2>3
  <2>5. CASE e = w
    BY <2>4, <2>5
  <2>6. CASE e < w
    <3>a. size <= AreaWords(a)
      BY ScanIs
    <3>1. PICK k \in Nat : NextErase(size) = k * N
      BY <3>a, NextEraseIs
    <3>2. NextErase(size) < size + N /\ NextErase(size) \in Nat
      BY <3>a, NextEraseIs
    <3>3. k * N \in Nat /\ k # 0
      BY <1>1, <1>6, <2>1, <3>1
    <3>4. k - 1 \in Nat /\ (k - 1) * N = k * N - N
      BY <1>1, <3>3
    <3>5. PICK d \in Nat : d = k - 1
      BY <3>4
    <3>6. d * N \in Nat /\ d * N + N = k * N
      BY <1>1, <3>4, <3>5
    <3> HIDE DEF N
    <3>7. /\ d * N <= e /\ e <= d * N + N - 1
          /\ d * N <= w /\ w <= d * N + N - 1
      BY <1>1, <1>6, <2>1, <2>3, <2>4, <2>6, <3>1, <3>2, <3>6
    <3>8. e \in d * N .. d * N + N - 1 /\ w \in d * N .. d * N + N - 1
      BY <1>1, <2>1, <2>4, <3>6, <3>7
    <3>9. Sector(e) = d /\ Sector(w) = d
      BY <2>1, <2>4, <3>8, SectorIs DEF N
    <3>10. QED
      BY <2>4, <2>6, <3>9 DEF Closure
  <2>7. QED
    BY <1>6, <2>1, <2>3, <2>4, <2>5, <2>6
<1>7. QED
  BY <1>5, <1>6

LEMMA FreshOpened ==
  ASSUME RecordType, FreshInv, UNCHANGED <<word, holed, faults>>, op'.pc # "tail",
         NEW t \in Task, NEW s \in Slot, active' = Opened(t, s)
  PROVE  FreshInv'
<1> SUFFICES ASSUME faults = 0 PROVE Closure' /\ Solid' /\ FreshTail'
  BY DEF FreshInv
<1>1. Closure /\ Closure'
  BY DEF FreshInv, Closure, Sector
<1>2. /\ active'.slot = s
      /\ \A a \in Area : /\ active'.size[a] = Scan(word[s][a], a)
                         /\ active'.next[a] = NextErase(Scan(word[s][a], a))
                         /\ Scan(word[s][a], a) \in Nat
  BY OpenedOk, ScanIs
<1>3. ASSUME NEW a \in Area, s \notin holed
      PROVE  /\ \A h \in Index(a) :
                  (h % 2 = 0 /\ h < active'.size[a] /\ Sector(h) = Sector(active'.size[a]))
                    => word[s][a][h] # Erased
             /\ active'.size[a] + 2 <= AreaWords(a) =>
                  \A w \in Index(a) : (active'.size[a] <= w /\ w < active'.next[a])
                    => word[s][a][w] = Erased
  <2>1. PICK size \in Nat : size = Scan(word[s][a], a)
    BY <1>2
  <2>2. active'.size[a] = size /\ active'.next[a] = NextErase(size)
    BY <1>2, <2>1
  <2>3. QED
    BY <1>1, <1>3, <2>1, <2>2, ScanFresh
<1>4. Solid'
  BY <1>2, <1>3 DEF Solid, Whole, Sector
<1>5. FreshTail'
  BY <1>2, <1>3 DEF FreshTail, Whole
<1>6. QED
  BY <1>1, <1>4, <1>5

LEMMA FreshStill ==
  ASSUME SlotsInv, RecordType, FreshInv,
         \/ OpenBegun \/ AppendFull \/ EraseAll \/ Reset
         \/ \E t \in Task : \/ BeginTask(t) \/ RewriteHeader(t) \/ DeleteTask(t)
                            \/ OpenForRead(t) \/ \E a \in Area : AppendRecord(t, a)
  PROVE  FreshInv'
<1>1. UNCHANGED <<word, holed, faults>>
  BY DEF OpenBegun, AppendFull, EraseAll, Reset, BeginTask, RewriteHeader, DeleteTask,
         EraseRequest, OpenForRead, AppendRecord, boundVars
<1>2. SectorWise
  BY <1>1 DEF SectorWise
<1>3. ASSUME Whole' => Whole /\ UNCHANGED active /\ op.pc # "tail"
      PROVE  FreshInv'
  BY <1>1, <1>2, <1>3, FreshKept
<1>4. ASSUME UNCHANGED active, op = Idle
      PROVE  FreshInv'
  BY <1>1, <1>3, <1>4 DEF Whole, Opening, Idle
<1>5. CASE OpenBegun
  <2>1. op.slot \in Slot /\ op.hdr.task \in Task /\ op'.pc # "tail"
        /\ active' = Opened(op.hdr.task, op.slot)
    BY <1>5, UnderWay, CallKinds DEF SlotsInv, OpenBegun, Idle
  <2>2. QED
    BY <1>1, <2>1, FreshOpened
<1>6. CASE AppendFull
  BY <1>1, <1>3, <1>6 DEF AppendFull, Whole, Opening
<1>7. CASE Reset
  BY <1>3, <1>7, ActiveIs DEF Reset, Whole
<1>8. CASE EraseAll \/ \E t \in Task : BeginTask(t) \/ RewriteHeader(t) \/ DeleteTask(t)
  BY <1>4, <1>8 DEF EraseAll, BeginTask, RewriteHeader, DeleteTask, EraseRequest
<1>9. ASSUME NEW t \in Task, OpenForRead(t) \/ \E a \in Area : AppendRecord(t, a)
      PROVE  FreshInv'
  <2>1. op = Idle /\ op'.pc # "tail"
    BY <1>9 DEF OpenForRead, AppendRecord, Idle
  <2>2. UNCHANGED active \/ \E s \in First(Holding(t)) : active' = Opened(t, s)
    BY <1>9 DEF OpenForRead, AppendRecord
  <2>3. UNCHANGED active \/ \E s \in Slot : active' = Opened(t, s)
    BY <2>2, FirstHolding
  <2>4. QED
    BY <1>1, <1>4, <2>1, <2>3, FreshOpened
<1>10. QED
  BY <1>5, <1>6, <1>7, <1>8, <1>9

LEMMA FreshHeader ==
  ASSUME SlotsInv, RecordType, FreshInv, EraseHeader \/ ProgramHeader
  PROVE  FreshInv'
<1>1. /\ UNCHANGED <<word, active>> /\ holed \subseteq holed'
      /\ op.pc \in {"erase_header", "program_header"}
  BY DEF EraseHeader, ProgramHeader, WrongAbout
<1>2. faults' = 0 => faults = 0
  BY DEF EraseHeader, ProgramHeader, Fault, SlotsInv, StoreType
<1>3. SectorWise
  BY <1>1 DEF SectorWise
<1>4. Whole' => Whole
  BY <1>1 DEF Whole, Opening
<1>5. QED
  BY <1>1, <1>2, <1>3, <1>4, FreshKept

LEMMA FreshEraseFirst ==
  ASSUME SlotsInv, RecordType, FreshInv, EraseFirstSector
  PROVE  FreshInv'
<1>1. PICK b \in Area :
        /\ op.pc = (IF b = "pre" THEN "erase_pre" ELSE "erase_data")
        /\ EraseSector(op.slot, b, 0) \/ EraseSectorFails(op.slot, b, 0)
        /\ op' = [op EXCEPT !.pc = IF b = "pre" THEN "erase_data" ELSE "open"]
        /\ UNCHANGED holed
  BY DEF EraseFirstSector
<1>2. op \in HeaderOp /\ op.slot \in Slot
  BY <1>1, UnderWay, CallKinds DEF SlotsInv
<1>3. faults' = 0 => faults = 0
  BY <1>1 DEF EraseSector, EraseSectorFails, Fault, SlotsInv, StoreType
<1>4. ~Whole'
  <2>1. op'.pc \in {"erase_data", "open"}
    BY <1>1, <1>2 DEF HeaderOp
  <2>2. QED
    BY <2>1 DEF Whole, Opening
<1>5. SectorWise
  <2>1. CASE UNCHANGED word
    BY <2>1 DEF SectorWise
  <2>2. CASE word' = ErasedWords(op.slot, b, 0)
    <3>1. \A r \in Slot, a \in Area : \A i \in Index(a) :
            word'[r][a][i] = IF r = op.slot /\ a = b /\ i \in 0 .. 0 + SectorWords - 1
                             THEN Erased ELSE word[r][a][i]
      BY <1>2, <2>2, EraseIs DEF RecordType
    <3>2. \A a \in Area : \A i \in Index(a) :
            i \in 0 .. 0 + SectorWords - 1 <=> Sector(i) = 0
      <4>1. 0 * SectorWords = 0
        BY Sizes
      <4>2. \A a \in Area : \A i \in Index(a) : i \in Nat
        BY SectorIn
      <4>3. QED
        BY <4>1, <4>2, SectorIs
    <3>3. \A r \in Slot, a \in Area : \A i \in Index(a) :
            word'[r][a][i] = IF r = op.slot /\ a = b /\ Sector(i) = 0
                             THEN Erased ELSE word[r][a][i]
      BY <3>1, <3>2
    <3>4. QED
      BY <3>3 DEF SectorWise
  <2>3. QED
    BY <1>1, <2>1, <2>2 DEF EraseSector, EraseSectorFails
<1>6. QED
  BY <1>1, <1>3, <1>4, <1>5, FreshKept

LEMMA EraseWhole ==
  ASSUME SlotsInv, RecordType, EraseBlock, Whole'
  PROVE  /\ Whole /\ UNCHANGED active
         /\ \A a \in Area : \A w \in Index(a) :
              word'[active.slot][a][w] = word[active.slot][a][w]
<1> DEFINE sectors == Block(SlotBase(op.slot) + op.block * BlockSectors)
<1>1. op.pc = "block" /\ active'.valid /\ active'.slot \notin holed'
  BY EraseCall DEF Whole
<1>2. UNCHANGED active /\ active.task \notin op.tasks
  <2>1. CASE op'.pc = "block" /\ op'.tasks = op.tasks /\ UNCHANGED active
    BY <2>1 DEF Whole
  <2>2. CASE active' = IF \E t \in op.tasks : IsOpen(t) THEN NoActive ELSE active
    <3>1. ~\E t \in op.tasks : IsOpen(t)
      BY <1>1, <2>2, ActiveIs
    <3>2. QED
      BY <1>1, <2>2, <3>1 DEF IsOpen
  <2>3. QED
    BY <2>1, <2>2, EraseCall
<1>3. EraseSectors(sectors) \/ UNCHANGED <<hdr, word, log, holed>>
  BY DEF EraseBlock
<1> HIDE DEF sectors
<1>4. holed \subseteq holed' /\ (EraseSectors(sectors) => ~OpenHit(sectors))
  BY <1>1, <1>2, <1>3 DEF EraseSectors, WrongAbout
<1>5. Whole
  BY <1>1, <1>2, <1>4 DEF Whole, Opening
<1>6. active.slot \in Slot
  BY <1>1, <1>2, ActiveIs DEF RecordType, OpenType
<1>7. CASE EraseSectors(sectors)
  <2>1. \A a \in Area : \A w \in Index(a) : SectorOf(active.slot, a, w) \notin sectors
    BY <1>1, <1>2, <1>4, <1>7 DEF OpenHit
  <2>2. QED
    BY <1>2, <1>5, <1>6, <1>7, <2>1, EraseSectorsIs DEF RecordType
<1>8. CASE UNCHANGED word
  BY <1>2, <1>5, <1>8
<1>9. QED
  BY <1>3, <1>7, <1>8

LEMMA FreshEraseBlock ==
  ASSUME SlotsInv, RecordType, FreshInv, EraseBlock
  PROVE  FreshInv'
<1> DEFINE sectors == Block(SlotBase(op.slot) + op.block * BlockSectors)
<1>1. EraseSectors(sectors) \/ UNCHANGED <<hdr, word, log, holed>>
  BY DEF EraseBlock
<1>2. faults' = 0 => faults = 0
  BY DEF EraseBlock, Fault, SlotsInv, StoreType
<1>3. holed \subseteq holed' /\ op.pc = "block"
  BY <1>1 DEF EraseSectors, EraseBlock, WrongAbout
<1> HIDE DEF sectors
<1>4. SectorWise
  <2>1. CASE UNCHANGED word
    BY <2>1 DEF SectorWise
  <2>2. CASE EraseSectors(sectors)
    <3>1. \A r \in Slot, a \in Area : \A i \in Index(a) :
            word'[r][a][i] = IF SectorOf(r, a, i) \in sectors
                             THEN Erased ELSE word[r][a][i]
      BY <2>2, EraseSectorsIs DEF RecordType
    <3>2. \A r \in Slot, a \in Area : \A i \in Index(a) :
            SectorOf(r, a, i) = AreaBase(r, a) + Sector(i)
      BY SectorOfIn
    <3>3. QED
      BY <3>1, <3>2 DEF SectorWise
  <2>3. QED
    BY <1>1, <2>1, <2>2
<1>5. QED
  BY <1>2, <1>3, <1>4, FreshKept, EraseWhole

(* Without faults an append goes on, and its words are erased.               *)
LEMMA FreshPlace ==
  ASSUME RecordType, FreshInv, faults = 0, op \in AppendOp, Fits, Ready,
         active.slot \notin holed
  PROVE  /\ Whole /\ Closure /\ Solid /\ FreshTail
         /\ op.pc = "prepare" => word[active.slot][op.area][Place] = Erased
         /\ word[active.slot][op.area][Place + 1] = Erased
<1>1. /\ op.area \in Area /\ Place \in Nat /\ active.valid
      /\ active.size[op.area] = Place /\ active.next[op.area] \in Nat
      /\ Place \in Index(op.area) /\ Place + 1 \in Index(op.area)
      /\ op.pc \in {"prepare", "tail"}
  BY PlaceIs, CallKinds DEF RecordType, OpenType, Place
<1>2. Whole
  BY <1>1 DEF Whole, Opening
<1>3. Closure /\ Solid /\ FreshTail
  BY DEF FreshInv
<1>4. Place + 2 <= AreaWords(op.area) /\ Place + 1 < active.next[op.area]
  BY <1>1 DEF Fits, Ready, RecordWords
<1>5. PICK p \in Index(op.area), q \in Index(op.area) : p = Place /\ q = Place + 1
  BY <1>1
<1>6. /\ active.size[op.area] + 2 <= AreaWords(op.area)
      /\ active.size[op.area] <= p /\ p < active.next[op.area]
      /\ active.size[op.area] <= q /\ q < active.next[op.area] /\ q # Place
  BY <1>1, <1>4, <1>5
<1>7. word[active.slot][op.area][q] = Erased
  BY <1>1, <1>2, <1>3, <1>6 DEF FreshTail
<1>8. op.pc = "prepare" => word[active.slot][op.area][p] = Erased
  BY <1>1, <1>2, <1>3, <1>6 DEF FreshTail
<1>9. QED
  BY <1>2, <1>3, <1>5, <1>7, <1>8

LEMMA FaultsRise ==
  ASSUME SlotsInv, Fault
  PROVE  faults' # 0
BY DEF Fault, SlotsInv, StoreType

LEMMA FreshAppendErase ==
  ASSUME SlotsInv, RecordType, FreshInv, AppendErase, faults' = 0
  PROVE  Closure' /\ Solid' /\ FreshTail'
<1> DEFINE s == active.slot
           a == op.area
           n == active.next[a]
<1>1. op \in AppendOp /\ op.pc = "prepare" /\ UNCHANGED holed
  BY UnderWay DEF SlotsInv, AppendErase
<1>2. /\ word' = ErasedWords(s, a, n) /\ UNCHANGED <<op, faults>>
      /\ active' = [active EXCEPT !.next[op.area] = @ + SectorWords]
  BY FaultsRise DEF AppendErase, EraseSector, EraseSectorFails
<1>3. /\ active \in Active /\ s \in Slot /\ a \in Area /\ active.valid
      /\ active.size \in [Area -> Nat] /\ active.next \in [Area -> Nat]
      /\ SizesOk(active) /\ SectorWords \in Nat
  BY <1>1, PlaceIs, Sizes DEF RecordType, OpenType
<1>4. /\ active'.valid /\ active'.slot = s /\ active'.task = active.task
      /\ active'.size = active.size
      /\ \A b \in Area : active'.next[b] = IF b = a THEN n + SectorWords ELSE active.next[b]
  BY <1>2, <1>3 DEF Active
<1>5. \A r \in Slot, b \in Area : \A i \in Index(b) :
        word'[r][b][i] = IF r = s /\ b = a /\ i \in n .. n + SectorWords - 1
                         THEN Erased ELSE word[r][b][i]
  BY <1>2, <1>3, EraseIs DEF RecordType
<1>6. PICK k \in Nat : n = k * SectorWords
  BY <1>3 DEF SizesOk
<1>7. \A b \in Area : \A i \in Index(b) :
        /\ i \in Nat
        /\ i \in n .. n + SectorWords - 1 <=> Sector(i) = k
  <2>1. \A b \in Area : \A i \in Index(b) : i \in Nat
    BY SectorIn
  <2>2. QED
    BY <1>6, <2>1, SectorIs
<1>8. Closure /\ Solid /\ FreshTail
  BY <1>2 DEF FreshInv
<1>9. n \in Nat /\ active.size[a] \in Nat /\ active.size[a] <= n
  BY <1>3 DEF SizesOk
<1>10. Whole' => Whole
  BY <1>1, <1>2, <1>4 DEF Whole, Opening
<1> HIDE DEF s, a, n
<1>11. Closure'
  <2>1. ASSUME NEW r \in Slot, NEW b \in Area, NEW i \in Index(b)
        PROVE  word'[r][b][i] = IF r = s /\ b = a /\ Sector(i) = k
                                THEN Erased ELSE word[r][b][i]
    <3>1. i \in n .. n + SectorWords - 1 <=> Sector(i) = k
      BY <1>7
    <3>2. word'[r][b][i] = IF r = s /\ b = a /\ i \in n .. n + SectorWords - 1
                           THEN Erased ELSE word[r][b][i]
      BY <1>5
    <3>3. QED
      BY <3>1, <3>2, Zenon
  <2>2. SectorWise
    BY <2>1 DEF SectorWise
  <2>3. QED
    BY <1>1, <1>8, <2>2, ClosureErased
<1>12. Solid'
  <2> SUFFICES ASSUME Whole', NEW b \in Area, NEW h \in Index(b), h % 2 = 0,
                      h < active.size[b], Sector(h) = Sector(active.size[b])
               PROVE  word'[s][b][h] # Erased
    BY <1>4 DEF Solid, Sector
  <2>1. word[s][b][h] # Erased
    BY <1>8, <1>10 DEF Solid, s
  <2>2. ~(b = a /\ h \in n .. n + SectorWords - 1)
    BY <1>7, <1>9
  <2>3. QED
    BY <1>3, <1>5, <2>1, <2>2
<1>13. FreshTail'
  <2> SUFFICES ASSUME Whole', NEW b \in Area, active.size[b] + 2 <= AreaWords(b),
                      NEW w \in Index(b), active.size[b] <= w, w < active'.next[b]
               PROVE  word'[s][b][w] = Erased
    BY <1>4 DEF FreshTail
  <2>1. CASE b = a /\ w \in n .. n + SectorWords - 1
    BY <1>3, <1>5, <2>1
  <2>2. CASE ~(b = a /\ w \in n .. n + SectorWords - 1)
    <3>1. w < active.next[b]
      <4>1. CASE b = a
        <5>1. active'.next[b] = n + SectorWords /\ active.next[b] = n
          BY <1>4, <4>1 DEF n, a
        <5>2. w \in Nat
          BY <1>7
        <5>3. QED
          BY <1>3, <1>9, <2>2, <4>1, <5>1, <5>2
      <4>2. CASE b # a
        BY <1>4, <4>2
      <4>3. QED
        BY <4>1, <4>2
    <3>2. word[s][b][w] = Erased
      BY <1>1, <1>8, <1>10, <3>1 DEF FreshTail, s
    <3>3. QED
      BY <1>3, <1>5, <2>2, <3>2
  <2>3. QED
    BY <2>1, <2>2
<1>14. QED
  BY <1>11, <1>12, <1>13

(* The head of a record.                                                     *)
LEMMA FreshAppendHead ==
  ASSUME SlotsInv, RecordType, FreshInv, AppendHead, faults' = 0
  PROVE  Closure' /\ Solid' /\ FreshTail'
<1> DEFINE s == active.slot
           a == op.area
           p == Place
<1>1. op \in AppendOp /\ op.pc = "prepare" /\ UNCHANGED <<holed, active>> /\ Fits /\ Ready
  BY UnderWay DEF SlotsInv, AppendHead
<1>2. /\ faults = 0
      /\ \/ ProgramOk(s, a, p, op.num) /\ op' = [op EXCEPT !.pc = "tail"]
         \/ /\ word[s][a][p] \notin {Erased, op.num}
            /\ Write(s, a, p, Garbled) /\ op' = Idle
  BY FaultsRise DEF AppendHead, ProgramOk, ProgramFails, AppendFails
<1>3. /\ s \in Slot /\ a \in Area /\ p \in Nat /\ p \in Index(a) /\ op.num \in Word
      /\ Garbled \in Word /\ op.num # Erased /\ active.valid
  BY <1>1, PlaceIs DEF RecordType, OpenType
<1>4. \A r \in Slot, b \in Area : \A i \in Index(b) :
        ~(r = s /\ b = a /\ i = p) => word'[r][b][i] = word[r][b][i]
  <2>1. CASE Write(s, a, p, op.num)
    <3>1. WordShape
      BY DEF RecordType
    <3>2. QED
      BY <1>3, <2>1, <3>1, WriteIs
  <2>2. CASE Write(s, a, p, Garbled)
    <3>1. WordShape
      BY DEF RecordType
    <3>2. QED
      BY <1>3, <2>2, <3>1, WriteIs
  <2>3. QED
    BY <1>2, <2>1, <2>2 DEF ProgramOk
<1>5. Closure /\ Solid /\ FreshTail
  BY <1>2 DEF FreshInv
<1>6. ASSUME s \notin holed
      PROVE  /\ Whole /\ word'[s][a][p] = op.num
             /\ op'.pc = "tail" /\ op'.area = a /\ Place' = p
  <2>1. Whole /\ word[s][a][p] = Erased
    BY <1>1, <1>2, <1>6, FreshPlace
  <2>2. Write(s, a, p, op.num) /\ op' = [op EXCEPT !.pc = "tail"]
    BY <1>2, <2>1 DEF ProgramOk
  <2>3. word'[s][a][p] = op.num
    <3>1. WordShape /\ Write(s, a, p, op.num)
      BY <2>2 DEF RecordType
    <3>2. QED
      BY <1>3, <3>1, WriteIs
  <2>4. op'.pc = "tail" /\ op'.area = a /\ Place' = p
    BY <1>1, <2>2 DEF AppendOp, Place
  <2>5. QED
    BY <2>1, <2>3, <2>4
<1>7. Whole' => s \notin holed
  BY <1>1 DEF Whole
<1>8. active.size[a] = p
  BY DEF Place
<1>9. \A b \in Area : \A i \in Index(b) : i \in Nat
  BY SectorIn
<1>10. Closure'
  <2> SUFFICES ASSUME NEW r \in Slot \ holed, NEW b \in Area,
                      NEW h \in Index(b), NEW w \in Index(b),
                      h % 2 = 0, h < w, Sector(h) = Sector(w), word'[r][b][h] = Erased
               PROVE  word'[r][b][w] = Erased
    BY <1>1 DEF Closure, Sector
  <2>1. CASE r = s /\ b = a /\ h = p
    BY <1>3, <1>6, <2>1
  <2>2. CASE r = s /\ b = a /\ w = p
    <3>1. word[r][b][h] = Erased
      BY <1>4, <1>9, <2>2
    <3>2. h < active.size[a] /\ Sector(h) = Sector(active.size[a])
      BY <1>8, <2>2
    <3>3. word[s][a][h] # Erased
      BY <1>3, <1>5, <1>6, <2>2, <3>2 DEF Solid
    <3>4. QED
      BY <2>2, <3>1, <3>3
  <2>3. CASE ~(r = s /\ b = a /\ h = p) /\ ~(r = s /\ b = a /\ w = p)
    <3>1. word'[r][b][h] = word[r][b][h] /\ word'[r][b][w] = word[r][b][w]
      BY <1>4, <2>3
    <3>2. QED
      BY <1>5, <3>1 DEF Closure
  <2>4. QED
    BY <2>1, <2>2, <2>3
<1>11. Solid'
  <2> SUFFICES ASSUME s \notin holed, NEW b \in Area, NEW h \in Index(b), h % 2 = 0,
                      h < active.size[b], Sector(h) = Sector(active.size[b])
               PROVE  word'[s][b][h] # Erased
    BY <1>1, <1>7 DEF Solid, Sector
  <2>1. word[s][b][h] # Erased
    BY <1>5, <1>6 DEF Solid
  <2>2. ~(b = a /\ h = p)
    BY <1>3, <1>8
  <2>3. QED
    BY <1>3, <1>4, <2>1, <2>2
<1>12. FreshTail'
  <2> SUFFICES ASSUME s \notin holed, NEW b \in Area, active.size[b] + 2 <= AreaWords(b),
                      NEW w \in Index(b), active.size[b] <= w, w < active.next[b],
                      ~(b = a /\ w = p)
               PROVE  word'[s][b][w] = Erased
    BY <1>1, <1>6, <1>7, <1>8 DEF FreshTail
  <2>1. word[s][b][w] = Erased
    BY <1>1, <1>5, <1>6 DEF FreshTail
  <2>2. QED
    BY <1>3, <1>4, <2>1
<1>13. QED
  BY <1>10, <1>11, <1>12

(* And its tail.                                                             *)
LEMMA FreshAppendTail ==
  ASSUME SlotsInv, RecordType, AckedInv, FreshInv, AppendTail, faults' = 0
  PROVE  Closure' /\ Solid' /\ FreshTail'
<1> DEFINE s == active.slot
           a == op.area
           p == Place
<1>1. op \in AppendOp /\ op.pc = "tail" /\ UNCHANGED holed /\ Fits /\ Ready
      /\ op' = Idle /\ op'.pc = "idle"
  BY UnderWay DEF SlotsInv, AppendTail, RecordType, OpenType, AppendFails, Idle
<1>2. /\ faults = 0
      /\ \/ /\ Write(s, a, p + 1, op.num)
            /\ active' = [active EXCEPT !.size[op.area] = @ + RecordWords]
         \/ /\ word[s][a][p + 1] \notin {Erased, op.num}
            /\ Write(s, a, p + 1, Garbled) /\ UNCHANGED active
  BY FaultsRise DEF AppendTail, ProgramOk, ProgramFails, AppendFails
<1>3. /\ s \in Slot /\ a \in Area /\ p \in Nat /\ p % 2 = 0
      /\ p \in Index(a) /\ p + 1 \in Index(a)
      /\ op.num \in Word /\ Garbled \in Word /\ op.num # Erased /\ active.valid
      /\ active \in Active
      /\ active.size \in [Area -> Nat] /\ active.next \in [Area -> Nat]
      /\ active.size[a] = p
  BY <1>1, PlaceIs DEF RecordType, OpenType, Place
<1>4. \A r \in Slot, b \in Area : \A i \in Index(b) :
        ~(r = s /\ b = a /\ i = p + 1) => word'[r][b][i] = word[r][b][i]
  <2>1. PICK w \in Index(a) : w = p + 1
    BY <1>3
  <2>2. PICK n \in Word : Write(s, a, w, n)
    BY <1>2, <1>3, <2>1
  <2>3. WordShape /\ s \in Slot /\ a \in Area
    BY <1>3 DEF RecordType
  <2> HIDE DEF s, a, p
  <2>4. \A r \in Slot, b \in Area : \A i \in Index(b) :
          word'[r][b][i] = IF r = s /\ b = a /\ i = w THEN n ELSE word[r][b][i]
    BY <2>2, <2>3, WriteIs
  <2>5. QED
    BY <2>1, <2>4
<1>5. Closure /\ Solid /\ FreshTail
  BY <1>2 DEF FreshInv
<1>6. ASSUME s \notin holed
      PROVE  /\ Whole /\ word'[s][a][p + 1] = op.num
             /\ word[s][a][p] = op.num
             /\ active'.slot = s /\ active'.next = active.next
             /\ \A b \in Area : active'.size[b] = IF b = a THEN p + 2 ELSE active.size[b]
  <2>1. Whole /\ word[s][a][p + 1] = Erased
    BY <1>1, <1>2, <1>6, FreshPlace
  <2>2. /\ Write(s, a, p + 1, op.num)
        /\ active' = [active EXCEPT !.size[op.area] = @ + RecordWords]
    BY <1>2, <2>1
  <2>3. word'[s][a][p + 1] = op.num
    <3>1. WordShape /\ Write(s, a, p + 1, op.num)
      BY <2>2 DEF RecordType
    <3>2. QED
      BY <1>3, <3>1, WriteIs
  <2>4. word[s][a][p] = op.num
    BY <1>1 DEF AckedInv, TailHead
  <2>5. /\ active'.slot = s /\ active'.next = active.next
        /\ active'.size = [active.size EXCEPT ![op.area] = @ + RecordWords]
    BY <1>3, <2>2 DEF Active
  <2>6. \A b \in Area : active'.size[b] = IF b = a THEN p + 2 ELSE active.size[b]
    BY <1>3, <2>5 DEF RecordWords
  <2>7. QED
    BY <2>1, <2>3, <2>4, <2>5, <2>6
<1>7. Whole' => s \notin holed
  <2>1. active'.slot = s
    BY <1>2, <1>3 DEF Active
  <2>2. QED
    BY <1>1, <2>1 DEF Whole
<1>8. \A b \in Area : \A i \in Index(b) : i \in Nat
  BY SectorIn
<1> HIDE DEF s, a, p
(* Every head from the last border up to and with this one is written.       *)
<1>9. ASSUME s \notin holed, NEW h \in Index(a), h % 2 = 0, h < p + 2,
             NEW d \in {p + 1, p + 2}, Sector(h) = Sector(d)
      PROVE  word[s][a][h] # Erased /\ word'[s][a][h] = word[s][a][h]
  <2>1. h \in Nat /\ h # p + 1
    <3>1. h \in Nat /\ p \in Nat /\ p % 2 = 0
      BY <1>3, <1>8, <1>9
    <3>2. (p + 1) % 2 = 1
      BY <3>1
    <3>3. QED
      BY <1>9, <3>1, <3>2
  <2>2. word'[s][a][h] = word[s][a][h]
    BY <1>3, <1>4, <2>1
  <2>3. CASE h = p
    BY <1>3, <1>6, <1>9, <2>2, <2>3
  <2>4. CASE h < p
    <3>1. d \in Nat /\ h <= p /\ p <= d
      BY <1>3, <2>1, <2>4
    <3>2. /\ Sector(h) <= Sector(p) /\ Sector(p) <= Sector(d)
          /\ Sector(h) \in Nat /\ Sector(p) \in Nat
      BY <1>3, <2>1, <3>1, SectorMonotone
    <3>3. Sector(h) = Sector(p)
      BY <1>9, <3>2
    <3>4. word[s][a][h] # Erased
      BY <1>3, <1>5, <1>6, <1>9, <2>4, <3>3 DEF Solid, s
    <3>5. QED
      BY <2>2, <3>4
  <2>5. QED
    BY <1>3, <1>9, <2>1, <2>3, <2>4
<1>10. Closure'
  <2> SUFFICES ASSUME NEW r \in Slot \ holed, NEW b \in Area,
                      NEW h \in Index(b), NEW w \in Index(b),
                      h % 2 = 0, h < w, Sector(h) = Sector(w), word'[r][b][h] = Erased
               PROVE  word'[r][b][w] = Erased
    BY <1>1 DEF Closure, Sector
  <2>1. CASE r = s /\ b = a /\ w = p + 1
    <3>1. h < p + 2
      <4>1. h \in Nat
        BY <1>8
      <4>2. QED
        BY <1>3, <2>1, <4>1
    <3>2. word'[s][a][h] # Erased
      BY <1>9, <2>1, <3>1
    <3>3. QED
      BY <2>1, <3>2
  <2>2. CASE ~(r = s /\ b = a /\ w = p + 1)
    <3>1. ~(r = s /\ b = a /\ h = p + 1)
      BY <1>3
    <3>2. word'[r][b][h] = word[r][b][h] /\ word'[r][b][w] = word[r][b][w]
      BY <1>4, <2>2, <3>1
    <3>3. QED
      BY <1>5, <3>2 DEF Closure
  <2>3. QED
    BY <2>1, <2>2
<1>11. Solid'
  <2> SUFFICES ASSUME s \notin holed, NEW b \in Area, NEW h \in Index(b), h % 2 = 0,
                      h < active'.size[b], Sector(h) = Sector(active'.size[b])
               PROVE  word'[s][b][h] # Erased
    BY <1>6, <1>7 DEF Solid, Sector
  <2>1. CASE b = a
    <3>1. active'.size[b] = p + 2
      BY <1>6, <2>1
    <3>2. h < p + 2 /\ Sector(h) = Sector(p + 2)
      BY <3>1
    <3>3. QED
      BY <1>9, <2>1, <3>2
  <2>2. CASE b # a
    <3>1. word[s][b][h] # Erased
      BY <1>5, <1>6, <2>2 DEF Solid, s
    <3>2. QED
      BY <1>3, <1>4, <2>2, <3>1
  <2>3. QED
    BY <2>1, <2>2
<1>12. FreshTail'
  <2> SUFFICES ASSUME s \notin holed, NEW b \in Area, active'.size[b] + 2 <= AreaWords(b),
                      NEW w \in Index(b), active'.size[b] <= w, w < active'.next[b]
               PROVE  word'[s][b][w] = Erased
    BY <1>6, <1>7 DEF FreshTail
  <2>1. /\ active.size[b] + 2 <= AreaWords(b) /\ active.size[b] <= w /\ w < active.next[b]
        /\ b = a => w # p /\ w # p + 1
    <3>1. CASE b = a
      <4>1. active'.size[b] = p + 2 /\ active.size[b] = p /\ AreaWords(b) \in Nat
            /\ active'.next[b] = active.next[b] /\ w \in Nat
        BY <1>3, <1>6, <1>8, <3>1, Sizes
      <4>2. p \in Nat
        BY <1>3
      <4>3. p + 2 <= w /\ p + 4 <= AreaWords(b) /\ w < active.next[b]
        BY <4>1, <4>2
      <4>4. p <= w /\ w # p /\ w # p + 1 /\ p + 2 <= AreaWords(b)
        BY <4>1, <4>2, <4>3
      <4>5. QED
        BY <4>1, <4>3, <4>4
    <3>2. CASE b # a
      BY <1>6, <3>2
    <3>3. QED
      BY <3>1, <3>2
  <2>2. ~(b = op.area /\ w = Place)
    BY <2>1 DEF a, p
  <2>3. word[s][b][w] = Erased
    BY <1>5, <1>6, <2>1, <2>2 DEF FreshTail, s
  <2>4. QED
    BY <1>3, <1>4, <2>1, <2>3
<1>13. QED
  BY <1>10, <1>11, <1>12

LEMMA FreshInit == Init => FreshInv
<1> SUFFICES ASSUME Init PROVE Closure /\ Solid /\ FreshTail
  BY DEF FreshInv
<1>1. ~Whole
  BY DEF Whole, Init, NoActive
<1>2. \A s \in Slot, a \in Area : \A w \in Index(a) : word[s][a][w] = Erased
  BY DEF Init, Blank
<1>3. Closure
  BY <1>2 DEF Closure
<1>4. QED
  BY <1>1, <1>3 DEF Solid, FreshTail

LEMMA FreshStep ==
  SlotsInv /\ RecordType /\ AckedInv /\ FreshInv /\ [Next]_vars => FreshInv'
<1> SUFFICES ASSUME SlotsInv, RecordType, AckedInv, FreshInv, [Next]_vars
             PROVE  FreshInv'
  OBVIOUS
<1>1. CASE HeaderNext
  BY <1>1, FreshHeader, FreshEraseFirst, FreshStill DEF HeaderNext
<1>2. CASE RecordNext
  <2>1. CASE AppendErase \/ AppendHead \/ AppendTail
    <3> SUFFICES ASSUME faults' = 0 PROVE Closure' /\ Solid' /\ FreshTail'
      BY DEF FreshInv
    <3>1. QED
      BY <2>1, FreshAppendErase, FreshAppendHead, FreshAppendTail
  <2>2. CASE ~(AppendErase \/ AppendHead \/ AppendTail)
    BY <1>2, <2>2, FreshStill DEF RecordNext
  <2>3. QED
    BY <2>1, <2>2
<1>3. CASE EraseNext
  BY <1>3, FreshEraseBlock, FreshStill DEF EraseNext
<1>4. CASE Reset
  BY <1>4, FreshStill
<1>5. CASE UNCHANGED vars
  <2>1. SectorWise
    BY <1>5 DEF SectorWise, vars
  <2>2. /\ UNCHANGED <<active, op, word, holed, faults>>
        /\ Place' = Place
    BY <1>5 DEF vars, boundVars, Place
  <2>3. (Closure <=> Closure') /\ (Whole <=> Whole')
    BY <2>2 DEF Closure, Sector, Whole, Opening
  <2>4. (Solid <=> Solid') /\ (FreshTail <=> FreshTail')
    BY <2>2, <2>3 DEF Solid, FreshTail, Sector
  <2>5. QED
    BY <2>2, <2>3, <2>4 DEF FreshInv
<1>6. QED
  BY <1>1, <1>2, <1>3, <1>4, <1>5 DEF Next

(* Erasing before programming (app_store_ensure_erased_range_locked):        *)
(* while nothing fails, and unless the deletion of a neighbour ever hit the  *)
(* slot while it was open, both words of a record go onto erased flash,      *)
(* whatever the slot held before its task was begun.                         *)
THEOREM FreshWordsOnly == Spec => []FreshWords
<1>1. SlotsInv /\ RecordType /\ FreshInv => FreshWords
  <2> SUFFICES ASSUME SlotsInv, RecordType, FreshInv, op.pc = "prepare", Fits, Ready,
                      faults = 0, active.slot \notin holed,
                      NEW w \in {Place, Place + 1}
               PROVE  word[active.slot][op.area][w] = Erased
    BY DEF FreshWords
  <2>1. op \in AppendOp
    BY UnderWay DEF SlotsInv
  <2>2. /\ word[active.slot][op.area][Place] = Erased
        /\ word[active.slot][op.area][Place + 1] = Erased
    BY <2>1, FreshPlace
  <2>3. QED
    BY <2>2
<1>2. QED
  BY SlotsInit, SlotsStep, RecordTypeInit, RecordTypeStep, AckedInit, NumsStep,
     AckedStep, FreshInit, FreshStep, <1>1, PTL DEF Spec
=============================================================================
