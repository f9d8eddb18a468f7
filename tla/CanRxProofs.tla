---------------------------- MODULE CanRxProofs -----------------------------
(***************************************************************************)
(* Proofs about CanRx: the ring of bsp_ringBuff.c behaves as a bounded     *)
(* queue of whole frames for every ring size, frame size and interleaving  *)
(* of the interrupt with the sensor task.                                  *)
(***************************************************************************)
EXTENDS CanRx, TLAPS

USE DEF RingIndex

(* A sum of an index and a length not longer than the ring wraps at most     *)
(* once, so that the remainder the code takes is a subtraction.              *)
LEMMA ModWraps ==
  ASSUME NEW n \in Nat, n < 2 * RingSize
  PROVE  n % RingSize = Wrapped(n)
<1>1. RingSize \in Nat /\ RingSize > 1
  BY RingAssumption
<1>2. CASE n < RingSize
  BY <1>1, <1>2, SMT DEF Wrapped
<1>3. CASE n >= RingSize
  <2>1. n - RingSize \in Nat /\ n - RingSize < RingSize
    BY <1>1, <1>3
  <2>2. n % RingSize = n - RingSize
    BY <1>1, <1>3, <2>1, SMT
  <2> QED BY <1>3, <2>2, <1>1 DEF Wrapped
<1> QED BY <1>1, <1>2, <1>3

(* What a ring holds is a sequence of cells that never fills the storage.    *)
LEMMA ContentType ==
  ASSUME NEW rb \in Ring
  PROVE  /\ Used(rb) \in 0 .. RingSize - 1
         /\ Content(rb) \in Seq(Cell)
         /\ Len(Content(rb)) = Used(rb)
<1>1. /\ RingSize \in Nat /\ RingSize > 1
      /\ rb.head \in 0 .. RingSize - 1 /\ rb.tail \in 0 .. RingSize - 1
      /\ rb.buffer \in [0 .. RingSize - 1 -> Cell]
  BY RingAssumption DEF Ring
<1>2. Used(rb) \in 0 .. RingSize - 1
  BY <1>1 DEF Used
<1>3. ASSUME NEW k \in 1 .. Used(rb)
      PROVE  Wrapped(rb.tail + k - 1) \in 0 .. RingSize - 1
  BY <1>1, <1>2 DEF Wrapped
<1>4. Content(rb) \in [1 .. Used(rb) -> Cell]
  BY <1>1, <1>3 DEF Content
<1> QED BY <1>2, <1>4

(* A ring that holds u cells from t to h gets n more, of which the first copy *)
(* takes as many as there are places up to the end of the storage.           *)
Layout(h, t, u, n, first) ==
  /\ h \in RingIndex /\ t \in RingIndex /\ u \in Nat /\ n \in Nat
  /\ u = IF h >= t THEN h - t ELSE RingSize - (t - h)
  /\ n + u <= RingSize - 1
  /\ first \in 0 .. n /\ h + first <= RingSize
  /\ first < n => h + first = RingSize

(* None of the places of the u cells is written to, ...                      *)
LEMMA OldPlace ==
  ASSUME NEW h, NEW t, NEW u, NEW n, NEW first, Layout(h, t, u, n, first),
         NEW k \in 1 .. u
  PROVE  LET i == Wrapped(t + k - 1)
         IN  ~(h <= i /\ i <= h + first - 1) /\ ~(i < n - first)
<1>1. RingSize \in Nat
  BY RingAssumption
<1>2. CASE h >= t
  BY <1>1, <1>2 DEF Layout, Wrapped
<1>3. CASE h < t
  BY <1>1, <1>3 DEF Layout, Wrapped
<1> QED BY <1>1, <1>2, <1>3 DEF Layout

(* ... and the j-th of the n cells gets into the place behind them.          *)
LEMMA NewPlace ==
  ASSUME NEW h, NEW t, NEW u, NEW n, NEW first, Layout(h, t, u, n, first),
         NEW j \in 1 .. n
  PROVE  LET i == Wrapped(t + (u + j) - 1)
         IN  \/ j <= first /\ h <= i /\ i <= h + first - 1 /\ i - h + 1 = j
             \/ /\ j > first /\ ~(h <= i /\ i <= h + first - 1)
                /\ i < n - first /\ first + i + 1 = j
<1>1. RingSize \in Nat
  BY RingAssumption
<1>2. CASE h >= t
  BY <1>1, <1>2 DEF Layout, Wrapped
<1>3. CASE h < t
  BY <1>1, <1>3 DEF Layout, Wrapped
<1> QED BY <1>1, <1>2, <1>3 DEF Layout

(* Pushing data there is room for appends it to what the ring holds.         *)
LEMMA PushAppends ==
  ASSUME NEW rb \in Ring, NEW data \in Seq(Cell), Len(data) <= Unused(rb)
  PROVE  /\ Push(rb, data) \in Ring
         /\ Content(Push(rb, data)) = Content(rb) \o data
<1> DEFINE new == Push(rb, data)
           n == Len(data)
           first == Shorter(n, RingSize - rb.head)
           Copied(i) == IF i \in rb.head .. rb.head + first - 1
                        THEN data[i - rb.head + 1]
                        ELSE IF i < n - first THEN data[first + i + 1]
                        ELSE rb.buffer[i]
<1>1. /\ RingSize \in Nat /\ RingSize > 1
      /\ rb.head \in 0 .. RingSize - 1 /\ rb.tail \in 0 .. RingSize - 1
      /\ rb.buffer \in [0 .. RingSize - 1 -> Cell]
      /\ n \in Nat /\ \A k \in 1 .. n : data[k] \in Cell
  BY RingAssumption DEF Ring
<1>2. /\ Used(rb) \in 0 .. RingSize - 1
      /\ Content(rb) \in Seq(Cell) /\ Len(Content(rb)) = Used(rb)
  BY ContentType
<1>3. n + Used(rb) <= RingSize - 1
  BY <1>1, <1>2 DEF Unused
<1>4. first \in 0 .. n /\ rb.head + first <= RingSize
      /\ n - first \in 0 .. RingSize - 1
      /\ (first < n => rb.head + first = RingSize)
  BY <1>1, <1>3, <1>2 DEF Shorter
<1>5. Advance(rb.head, n) = Wrapped(rb.head + n)
      /\ Wrapped(rb.head + n) \in 0 .. RingSize - 1
  <2>1. rb.head + n \in Nat /\ rb.head + n < 2 * RingSize
    BY <1>1, <1>2, <1>3
  <2>2. Advance(rb.head, n) = Wrapped(rb.head + n)
    BY <2>1, ModWraps DEF Advance
  <2>3. Wrapped(rb.head + n) \in 0 .. RingSize - 1
    BY <2>1, <1>1 DEF Wrapped
  <2> QED BY <2>2, <2>3
<1>6. /\ new.buffer = [i \in 0 .. RingSize - 1 |-> Copied(i)]
      /\ new.head = Wrapped(rb.head + n) /\ new.tail = rb.tail
      /\ new = [buffer |-> new.buffer, head |-> new.head, tail |-> new.tail]
  <2>1. ~(n > Unused(rb))
    BY <1>1, <1>2, <1>3 DEF Unused
  <2>2. new = [rb EXCEPT !.buffer = [i \in 0 .. RingSize - 1 |-> Copied(i)],
                         !.head = Advance(@, n)]
    BY <2>1 DEF Push
  <2>3. rb = [buffer |-> rb.buffer, head |-> rb.head, tail |-> rb.tail]
    BY DEF Ring
  <2> HIDE DEF new, n, first, Copied
  <2> QED BY <2>2, <2>3, <1>5
<1>7. ASSUME NEW i \in 0 .. RingSize - 1 PROVE Copied(i) \in Cell
  <2> HIDE DEF n, first
  <2>1. CASE i \in rb.head .. rb.head + first - 1
    <3>1. i - rb.head + 1 \in 1 .. n
      BY <2>1, <1>1, <1>4
    <3> QED BY <2>1, <3>1, <1>1
  <2>2. CASE i \notin rb.head .. rb.head + first - 1 /\ i < n - first
    <3>1. first + i + 1 \in 1 .. n
      BY <2>2, <1>1, <1>4
    <3> QED BY <2>2, <3>1, <1>1
  <2>3. CASE i \notin rb.head .. rb.head + first - 1 /\ ~(i < n - first)
    <3>1. Copied(i) = rb.buffer[i]
      BY <2>3, Zenon
    <3> QED BY <3>1, <1>1
  <2> QED BY <2>1, <2>2, <2>3
<1>8. new \in Ring
  <2>1. new.buffer \in [RingIndex -> Cell]
    BY <1>6, <1>7
  <2> HIDE DEF new, n, first, Copied
  <2> QED BY <2>1, <1>1, <1>5, <1>6 DEF Ring
<1> HIDE DEF new, n, first
<1>9. Used(new) = Used(rb) + n
  <2>1. Used(rb) = IF rb.head >= rb.tail THEN rb.head - rb.tail
                   ELSE RingSize - (rb.tail - rb.head)
    BY DEF Used
  <2>2. new.head = IF rb.head + n < RingSize THEN rb.head + n
                   ELSE rb.head + n - RingSize
    BY <1>1, <1>6 DEF Wrapped
  <2>3. (IF new.head >= rb.tail THEN new.head - rb.tail
         ELSE RingSize - (rb.tail - new.head)) = Used(rb) + n
    <3>1. new.head \in Nat /\ Used(rb) \in Nat
      BY <1>1, <1>2, <1>5, <1>6
    <3>2. CASE rb.head >= rb.tail
      BY <1>1, <1>3, <2>1, <2>2, <3>1, <3>2
    <3>3. CASE rb.head < rb.tail
      BY <1>1, <1>3, <2>1, <2>2, <3>1, <3>3
    <3> QED BY <1>1, <3>2, <3>3
  <2> QED BY <2>3, <1>6 DEF Used
<1>10. ASSUME NEW k \in 1 .. Used(rb) + n
       PROVE  Content(new)[k] = (Content(rb) \o data)[k]
  <2> DEFINE i == Wrapped(rb.tail + k - 1)
  <2>1. i \in 0 .. RingSize - 1
    BY <1>1, <1>2, <1>3 DEF Wrapped
  <2>2. Content(new)[k] = Copied(i)
    BY <1>6, <1>9, <2>1 DEF Content
  <2>3. Layout(rb.head, rb.tail, Used(rb), n, first)
    BY <1>1, <1>2, <1>3, <1>4 DEF Layout, Used
  <2>4. CASE k <= Used(rb)
    <3>1. (Content(rb) \o data)[k] = rb.buffer[i]
      BY <1>1, <1>2, <2>4 DEF Content, n
    <3>2. k \in 1 .. Used(rb)
      BY <1>2, <2>4
    <3>3. ~(rb.head <= i /\ i <= rb.head + first - 1) /\ ~(i < n - first)
      BY <2>3, <3>2, OldPlace
    <3> HIDE DEF i
    <3> QED BY <2>1, <2>2, <3>1, <3>3, <1>1, <1>4
  <2>5. CASE k > Used(rb)
    <3>1. PICK j \in 1 .. n : k = Used(rb) + j
      <4>1. k - Used(rb) \in 1 .. n /\ k = Used(rb) + (k - Used(rb))
        BY <1>1, <1>2, <2>5
      <4> QED BY <4>1
    <3>2. (Content(rb) \o data)[k] = data[j]
      BY <1>1, <1>2, <2>5, <3>1 DEF n
    <3>3. \/ /\ j <= first /\ rb.head <= i /\ i <= rb.head + first - 1
             /\ i - rb.head + 1 = j
          \/ /\ j > first /\ ~(rb.head <= i /\ i <= rb.head + first - 1)
             /\ i < n - first /\ first + i + 1 = j
      BY <2>3, <3>1, NewPlace
    <3> HIDE DEF i
    <3>4. Copied(i) = data[j]
      <4>1. CASE /\ rb.head <= i /\ i <= rb.head + first - 1
                 /\ i - rb.head + 1 = j
        BY <4>1, <2>1, <1>1, <1>4
      <4>2. CASE /\ ~(rb.head <= i /\ i <= rb.head + first - 1)
                 /\ i < n - first /\ first + i + 1 = j
        <5>1. i \notin rb.head .. rb.head + first - 1
          BY <4>2
        <5>2. Copied(i) = data[first + i + 1]
          BY <4>2, <5>1, Zenon
        <5> QED BY <4>2, <5>2
      <4> QED BY <3>3, <4>1, <4>2
    <3> QED BY <2>2, <3>2, <3>4
  <2>6. k <= Used(rb) \/ k > Used(rb)
    BY <1>1, <1>2
  <2> QED BY <2>4, <2>5, <2>6, Zenon
<1>11. Content(new) \in Seq(Cell) /\ Len(Content(new)) = Used(rb) + n
  BY <1>8, <1>9, ContentType
<1>12. Content(rb) \o data \in Seq(Cell)
       /\ Len(Content(rb) \o data) = Used(rb) + n
  BY <1>1, <1>2 DEF n
<1>13. Content(new) = Content(rb) \o data
  BY <1>10, <1>11, <1>12, <1>1, <1>2
<1> QED BY <1>8, <1>13 DEF new

(* Popping as many cells as there are, or fewer, returns the oldest ones in  *)
(* order and leaves the others.                                              *)
LEMMA PopTakes ==
  ASSUME NEW rb \in Ring, NEW n \in Nat \ {0}, n <= Used(rb)
  PROVE  /\ AfterPop(rb, n) \in Ring
         /\ Peek(rb, n) = SubSeq(Content(rb), 1, n)
         /\ Content(AfterPop(rb, n)) =
              SubSeq(Content(rb), n + 1, Len(Content(rb)))
<1> DEFINE new == AfterPop(rb, n)
           first == Shorter(n, RingSize - rb.tail)
<1>1. /\ RingSize \in Nat /\ RingSize > 1
      /\ rb.head \in 0 .. RingSize - 1 /\ rb.tail \in 0 .. RingSize - 1
      /\ rb.buffer \in [0 .. RingSize - 1 -> Cell]
      /\ n \in Nat
  BY RingAssumption DEF Ring
<1>2. /\ Used(rb) \in 0 .. RingSize - 1
      /\ Content(rb) \in Seq(Cell) /\ Len(Content(rb)) = Used(rb)
  BY ContentType
<1>3. Shorter(n, Used(rb)) = n
  BY <1>1, <1>2 DEF Shorter
<1>4. Peek(rb, n) = [k \in 1 .. n |-> IF k <= first THEN rb.buffer[rb.tail + k - 1]
                                     ELSE rb.buffer[k - first - 1]]
  BY <1>3, Zenon DEF Peek
<1>5. ASSUME NEW k \in 1 .. n
      PROVE  (IF k <= first THEN rb.buffer[rb.tail + k - 1]
              ELSE rb.buffer[k - first - 1]) = Content(rb)[k]
  <2>1. k \in 1 .. Used(rb)
    BY <1>1, <1>2
  <2>2. Content(rb)[k] = rb.buffer[Wrapped(rb.tail + k - 1)]
    BY <2>1 DEF Content
  <2>3. CASE k <= first
    <3>1. Wrapped(rb.tail + k - 1) = rb.tail + k - 1
      BY <1>1, <2>3 DEF Wrapped, Shorter
    <3> QED BY <2>2, <2>3, <3>1
  <2>4. CASE ~(k <= first)
    <3>1. first = RingSize - rb.tail
      BY <1>1, <2>4 DEF Shorter
    <3>2. Wrapped(rb.tail + k - 1) = k - first - 1
      BY <1>1, <2>4, <3>1 DEF Wrapped
    <3> QED BY <2>2, <2>4, <3>2
  <2> QED BY <2>3, <2>4
<1> HIDE DEF first
<1>6. Peek(rb, n) = SubSeq(Content(rb), 1, n)
  <2>1. Peek(rb, n) \in Seq(Cell) /\ Len(Peek(rb, n)) = n
        /\ \A k \in 1 .. n : Peek(rb, n)[k] = Content(rb)[k]
    BY <1>1, <1>2, <1>4, <1>5
  <2> QED BY <2>1, <1>1, <1>2
<1>7. Len(Peek(rb, n)) = n
  BY <1>6, <1>1, <1>2
<1>8. Advance(rb.tail, n) = Wrapped(rb.tail + n)
      /\ Wrapped(rb.tail + n) \in 0 .. RingSize - 1
  <2>1. rb.tail + n \in Nat /\ rb.tail + n < 2 * RingSize
    BY <1>1, <1>2
  <2>2. Advance(rb.tail, n) = Wrapped(rb.tail + n)
    BY <2>1, ModWraps DEF Advance
  <2>3. Wrapped(rb.tail + n) \in 0 .. RingSize - 1
    BY <2>1, <1>1 DEF Wrapped
  <2> QED BY <2>2, <2>3
<1>9. /\ new.buffer = rb.buffer /\ new.head = rb.head
      /\ new.tail = Wrapped(rb.tail + n)
      /\ new = [buffer |-> new.buffer, head |-> new.head, tail |-> new.tail]
  <2>1. Used(rb) # 0 /\ ~(n > Used(rb))
    BY <1>1, <1>2
  <2>2. new = [rb EXCEPT !.tail = Advance(@, n)]
    BY <1>7, <2>1, Zenon DEF AfterPop, Discard
  <2>3. rb = [buffer |-> rb.buffer, head |-> rb.head, tail |-> rb.tail]
    BY DEF Ring
  <2> HIDE DEF new
  <2> QED BY <2>2, <2>3, <1>8
<1> HIDE DEF new
<1>10. new \in Ring
  BY <1>1, <1>8, <1>9 DEF Ring
<1>11. Used(new) = Used(rb) - n
  <2>1. Wrapped(rb.tail + n) = IF rb.tail + n < RingSize THEN rb.tail + n
                               ELSE rb.tail + n - RingSize
    BY <1>1 DEF Wrapped
  <2>2. CASE rb.head >= rb.tail
    BY <1>1, <1>2, <1>9, <2>1, <2>2 DEF Used
  <2>3. CASE rb.head < rb.tail
    BY <1>1, <1>2, <1>9, <2>1, <2>3 DEF Used
  <2> QED BY <1>1, <2>2, <2>3
<1>12. ASSUME NEW k \in 1 .. Used(rb) - n
       PROVE  Content(new)[k] = Content(rb)[n + k]
  <2>1. n + k \in 1 .. Used(rb)
    BY <1>1, <1>2
  <2>2. Wrapped(Wrapped(rb.tail + n) + k - 1) = Wrapped(rb.tail + (n + k) - 1)
    <3>1. CASE rb.tail + n < RingSize
      BY <1>1, <1>2, <2>1, <3>1 DEF Wrapped
    <3>2. CASE rb.tail + n >= RingSize
      BY <1>1, <1>2, <2>1, <3>2 DEF Wrapped
    <3> QED BY <1>1, <3>1, <3>2
  <2> QED BY <1>9, <1>11, <2>1, <2>2 DEF Content
<1>13. Content(new) \in Seq(Cell) /\ Len(Content(new)) = Used(rb) - n
  BY <1>10, <1>11, ContentType
<1>14. Content(new) = SubSeq(Content(rb), n + 1, Len(Content(rb)))
  <2> DEFINE rest == SubSeq(Content(rb), n + 1, Len(Content(rb)))
  <2>1. rest \in Seq(Cell) /\ Len(rest) = Used(rb) - n
    BY <1>1, <1>2
  <2>2. \A k \in 1 .. Used(rb) - n : rest[k] = Content(rb)[n + k]
    BY <1>1, <1>2
  <2> HIDE DEF rest
  <2>3. Content(new) = rest
    BY <2>1, <2>2, <1>1, <1>2, <1>12, <1>13
  <2> QED BY <2>3 DEF rest
<1> QED BY <1>6, <1>10, <1>14 DEF new

(* The constants as the proofs below use them.                               *)
LEMMA ConstantTypes ==
  /\ MaxArrived \in Nat /\ MaxStarts \in Nat /\ Period \in Nat
  /\ ProcessMax \in Nat /\ AgeLimit \in Nat /\ FrameCells \in Nat \ {0}
  /\ RingSize \in Nat /\ RingSize > 1
<1>1. /\ MaxArrived \in Nat /\ MaxStarts \in Nat /\ Period \in Nat \ {0}
      /\ OfflineTimeout \in Nat /\ FrameCells \in Nat \ {0}
      /\ ProcessMax \in 1 .. RingFrames - 1
  BY CanRxAssumption, Zenon
<1>2. RingSize \in Nat /\ RingSize > 1
  BY RingAssumption
<1>3. ProcessMax \in Nat
  <2>1. RingFrames \in Nat
    BY <1>1, <1>2 DEF RingFrames
  <2> QED BY <1>1, <2>1
<1>4. AgeLimit \in Nat
  BY <1>1 DEF AgeLimit
<1> QED BY <1>1, <1>2, <1>3, <1>4

(* A frame is a piece of FrameCells cells.                                   *)
LEMMA FrameType ==
  ASSUME NEW k \in 1 .. MaxArrived, NEW ok \in BOOLEAN
  PROVE  Frame(k, ok) \in Seq(Cell) /\ Len(Frame(k, ok)) = FrameCells
<1>1. FrameCells \in Nat \ {0}
  BY ConstantTypes
<1>2. Cell = [num : 1 .. MaxArrived, part : 1 .. FrameCells, ok : BOOLEAN]
  BY CanRxAssumption
<1>3. \A p \in 1 .. FrameCells : [num |-> k, part |-> p, ok |-> ok] \in Cell
  BY <1>2
<1> QED BY <1>1, <1>3 DEF Frame
-----------------------------------------------------------------------------
(* Type correctness.                                                         *)

TypeInv == TypeOK /\ dropped <= arrived

LEMMA InitType == Init => TypeInv
<1> SUFFICES ASSUME Init PROVE TypeInv
  OBVIOUS
<1> USE DEF Init
<1>1. EmptyRing \in Ring
  <2>1. (CHOOSE c \in Cell : TRUE) \in Cell
    BY RingAssumption
  <2>2. 0 \in RingIndex
    BY RingAssumption
  <2> QED BY <2>1, <2>2 DEF EmptyRing, Ring
<1>2. NoRecord \in [frame : Number, offline : BOOLEAN, diag : SUBSET Diag]
  BY ConstantTypes DEF NoRecord, Number
<1>3. sticky \subseteq Diag \ {"OFFLINE"} /\ lost \subseteq 1 .. arrived
  OBVIOUS
<1>4. /\ dropped \in Number /\ lastDropped \in Number /\ latest \in Number
      /\ arrived \in Number /\ latestAge \in 0 .. AgeLimit
      /\ silence \in 0 .. AgeLimit /\ wakeIn \in 0 .. Period
      /\ taken \in 0 .. ProcessMax /\ starts \in 0 .. MaxStarts
      /\ dropped <= arrived
  BY ConstantTypes DEF Number
<1>5. frame \in Seq(Cell)
  OBVIOUS
<1> QED BY <1>1, <1>2, <1>3, <1>4, <1>5 DEF TypeInv, TypeOK

LEMMA StepType == TypeInv /\ [Next]_vars => TypeInv'
<1> SUFFICES ASSUME TypeInv, [Next]_vars PROVE TypeInv'
  OBVIOUS
<1> USE DEF TypeInv, TypeOK
<1>0. /\ MaxArrived \in Nat /\ MaxStarts \in Nat /\ Period \in Nat
      /\ ProcessMax \in Nat /\ AgeLimit \in Nat /\ FrameCells \in Nat \ {0}
  BY ConstantTypes
<1>1. ASSUME NEW ok \in BOOLEAN, NEW overrun \in {0, 1}, Receive(ok, overrun)
      PROVE  TypeInv'
  <2>1. arrived' \in 1 .. MaxArrived /\ arrived' > arrived
    BY <1>0, <1>1 DEF Receive, Number
  <2>2. ring' \in Ring
    <3>1. CASE Fits
      BY <1>1, <2>1, <3>1, FrameType, PushAppends DEF Receive, Fits
    <3>2. CASE ~Fits
      <4>1. Unused(ring) \in Nat
        BY ContentType, RingAssumption DEF Unused
      <4>2. FrameCells > Unused(ring)
        BY <1>0, <3>2, <4>1 DEF Fits
      <4>3. ring' = ring
        BY <1>1, <2>1, <4>2, FrameType DEF Receive, Push
      <4> QED BY <4>3
    <3> QED BY <3>1, <3>2
  <2>3. dropped' \in Number /\ dropped' <= arrived'
    BY <1>0, <1>1, <2>1 DEF Receive, Number
  <2>4. lost' \subseteq 1 .. arrived'
    <3>1. lost \subseteq 1 .. arrived /\ arrived \in Nat
      BY <1>0 DEF Number
    <3>2. lost' \subseteq lost \union {arrived'}
      BY <1>1 DEF Receive
    <3> QED BY <2>1, <3>1, <3>2
  <2> QED BY <1>0, <1>1, <2>1, <2>2, <2>3, <2>4
          DEF Receive, Number, sensorVars
<1>2. ASSUME Start PROVE TypeInv'
  BY <1>0, <1>2 DEF Start, sensorVars
<1>3. ASSUME Stop PROVE TypeInv'
  BY <1>3 DEF Stop, sensorVars
<1>4. ASSUME Tick PROVE TypeInv'
  BY <1>0, <1>4 DEF Tick, Later, sensorVars
<1>5. ASSUME SensorWait PROVE TypeInv'
  BY <1>0, <1>5 DEF SensorWait
<1>6. ASSUME SensorWake PROVE TypeInv'
  BY <1>0, <1>6 DEF SensorWake, Flags, Diag
<1>7. ASSUME SensorRead PROVE TypeInv'
  <2>1. ring' \in Ring
    BY <1>0, <1>7, PopTakes DEF SensorRead, FrameThere, AfterRead
  <2>2. frame' \in Seq(Cell) /\ Peek(ring, FrameCells)[1] \in Cell
    <3>1. Peek(ring, FrameCells) = SubSeq(Content(ring), 1, FrameCells)
      BY <1>0, <1>7, PopTakes DEF SensorRead, FrameThere
    <3>2. /\ Content(ring) \in Seq(Cell)
          /\ Len(Content(ring)) >= FrameCells
      BY <1>7, ContentType DEF SensorRead, FrameThere
    <3>3. frame' = Peek(ring, FrameCells)
      BY <1>7 DEF SensorRead
    <3> QED BY <3>1, <3>2, <3>3, <1>0
  <2>3. Peek(ring, FrameCells)[1].num \in Number
    <3>1. Cell = [num : 1 .. MaxArrived, part : 1 .. FrameCells, ok : BOOLEAN]
      BY CanRxAssumption, Zenon
    <3>2. Peek(ring, FrameCells)[1].num \in 1 .. MaxArrived
      BY <2>2, <3>1
    <3> QED BY <3>2, <1>0 DEF Number
  <2>4. latest' \in Number /\ latestAge' \in 0 .. AgeLimit
        /\ sticky' \subseteq Diag \ {"OFFLINE"}
    <3> DEFINE good == \A p \in 1 .. FrameCells : Peek(ring, FrameCells)[p].ok
    <3>1. CASE good
      <4>1. latest' = Peek(ring, FrameCells)[1].num /\ latestAge' = 0
            /\ sticky' = sticky
        BY <1>7, <3>1 DEF SensorRead
      <4> QED BY <1>0, <2>3, <4>1
    <3>2. CASE ~good
      <4>1. latest' = latest /\ latestAge' = latestAge
            /\ sticky' = sticky \union {"DECODE_FAIL"}
        BY <1>7, <3>2 DEF SensorRead
      <4> QED BY <4>1 DEF Diag
    <3> QED BY <3>1, <3>2
  <2> QED BY <1>0, <1>7, <2>1, <2>2, <2>4 DEF SensorRead
<1>8. ASSUME SensorReadEnd PROVE TypeInv'
  BY <1>8 DEF SensorReadEnd
<1>9. ASSUME SensorJudge PROVE TypeInv'
  BY <1>9 DEF SensorJudge, Offline, Diag
<1>10. CASE UNCHANGED vars
  BY <1>10 DEF vars, sensorVars
<1> QED BY <1>1, <1>2, <1>3, <1>4, <1>5, <1>6, <1>7, <1>8, <1>9, <1>10
        DEF Next, SensorNext

(* Every variable keeps its type; above all the indices of the ring never    *)
(* leave its storage.                                                        *)
THEOREM TypeCorrect == Spec => []TypeOK
<1>1. TypeInv => TypeOK
  BY DEF TypeInv
<1> QED BY InitType, StepType, <1>1, PTL DEF Spec
-----------------------------------------------------------------------------
(* The ring implements the queue.                                            *)

LEMMA InitFifo == Init => Queue!Init
<1> SUFFICES ASSUME Init PROVE Queue!Init
  OBVIOUS
<1>1. Used(ring) = 0
  BY RingAssumption DEF Init, EmptyRing, Used
<1>2. Content(ring) = <<>>
  BY <1>1 DEF Content
<1> QED BY <1>2 DEF Init, Queue!Init

LEMMA StepFifo ==
  TypeInv /\ [Next]_vars => [Queue!Next]_<<Content(ring), frame, dropped>>
<1> SUFFICES ASSUME TypeInv, [Next]_vars
             PROVE  [Queue!Next]_<<Content(ring), frame, dropped>>
  OBVIOUS
<1>0. /\ ring \in Ring /\ FrameCells \in Nat \ {0} /\ RingSize \in Nat
      /\ arrived \in Nat /\ MaxArrived \in Nat
  BY ConstantTypes DEF TypeInv, TypeOK, Number
<1>00. /\ Content(ring) \in Seq(Cell) /\ Len(Content(ring)) = Used(ring)
       /\ Used(ring) \in 0 .. RingSize - 1
  BY <1>0, ContentType
<1>1. ASSUME NEW ok \in BOOLEAN, NEW overrun \in {0, 1}, Receive(ok, overrun)
      PROVE  Queue!Next
  <2> DEFINE d == Frame(arrived', ok)
  <2>1. arrived' \in 1 .. MaxArrived
    BY <1>0, <1>1 DEF Receive
  <2>2. d \in Seq(Cell) /\ Len(d) = FrameCells
    BY <2>1, FrameType
  <2>3. d \in {Frame(n, k) : n \in 1 .. MaxArrived, k \in BOOLEAN}
    BY <2>1
  <2>4. ring' = Push(ring, d)
    BY <1>1 DEF Receive
  <2> HIDE DEF d
  <2>5. CASE Fits
    <3>1. Content(ring') = Content(ring) \o d
      BY <1>0, <2>2, <2>4, <2>5, PushAppends DEF Fits
    <3>2. dropped' = dropped
      BY <1>1, <2>5 DEF Receive
    <3>3. Len(Content(ring)) + Len(d) <= RingSize - 1
      BY <1>0, <1>00, <2>2, <2>5 DEF Fits, Unused
    <3>4. Queue!Put(d)
      BY <1>1, <3>1, <3>2, <3>3 DEF Queue!Put, Receive, sensorVars
    <3> QED BY <2>3, <3>4 DEF Queue!Next
  <2>6. CASE ~Fits
    <3>1. Len(d) > Unused(ring)
      BY <1>0, <1>00, <2>2, <2>6 DEF Fits, Unused
    <3>2. ring' = ring
      BY <2>4, <3>1 DEF Push
    <3>3. dropped' = dropped + 1
      BY <1>1, <2>6 DEF Receive
    <3>4. Len(Content(ring)) + Len(d) > RingSize - 1
      BY <1>0, <1>00, <2>2, <3>1 DEF Unused
    <3>5. frame' = frame
      BY <1>1 DEF Receive, sensorVars
    <3> QED BY <2>3, <3>2, <3>3, <3>4, <3>5 DEF Queue!Next, Queue!Refuse
  <2> QED BY <2>5, <2>6
<1>2. ASSUME SensorRead PROVE Queue!Next
  <2>1. Content(ring') = SubSeq(Content(ring), FrameCells + 1, Len(Content(ring)))
    BY <1>0, <1>2, PopTakes DEF SensorRead, FrameThere, AfterRead
  <2>2. Len(Content(ring)) >= FrameCells /\ dropped' = dropped
    BY <1>00, <1>2 DEF SensorRead, FrameThere
  <2>3. frame' = SubSeq(Content(ring), 1, FrameCells)
    BY <1>0, <1>2, PopTakes DEF SensorRead, FrameThere
  <2> QED BY <2>1, <2>2, <2>3 DEF Queue!Next, Queue!Get
<1>3. ASSUME UNCHANGED <<ring, frame, dropped>>
      PROVE  UNCHANGED <<Content(ring), frame, dropped>>
  BY <1>3
<1>4. ASSUME \/ Start \/ Stop \/ Tick \/ SensorWait \/ SensorWake
             \/ SensorReadEnd \/ SensorJudge \/ UNCHANGED vars
      PROVE  UNCHANGED <<ring, frame, dropped>>
  BY <1>4 DEF Start, Stop, Tick, SensorWait, SensorWake, SensorReadEnd,
              SensorJudge, vars, sensorVars
<1> QED BY <1>1, <1>2, <1>3, <1>4 DEF Next, SensorNext

(* For every size of the ring and the frames, and however the interrupt      *)
(* falls between the steps of the sensor task, the ring is a bounded queue   *)
(* of whole frames, and what the task is given is the oldest of them.        *)
THEOREM RingImplementsFifo == Spec => RingIsFifo
<1> QED BY InitType, StepType, InitFifo, StepFifo, PTL
        DEF Spec, RingIsFifo, Queue!Spec
-----------------------------------------------------------------------------
(* A gap is flagged.                                                         *)

Cells == Content(ring)

(* How many cells the sensor task may still take out in this round.          *)
MayTake == FrameCells * (ProcessMax - taken)

Unflagged == "RX_DROPPED" \notin sticky

(* A frame lost while the sensor task reads is behind all the frames that it *)
(* can still take in this round; before the next round the loss is seen.     *)
GapInv ==
  /\ latest <= arrived /\ \A i \in 1 .. Len(Cells) : Cells[i].num <= arrived
  /\ lost # {} => dropped > 0
  /\ Unflagged => lastDropped = 0
  /\ \A n \in lost : Unflagged => latest < n
  /\ \A n \in lost : Unflagged /\ sPc = "read" =>
       /\ MayTake <= Len(Cells)
       /\ \A i \in 1 .. MayTake : Cells[i].num < n

LEMMA ConcatParts ==
  ASSUME NEW S, NEW s \in Seq(S), NEW t \in Seq(S)
  PROVE  /\ Len(s \o t) = Len(s) + Len(t)
         /\ \A i \in 1 .. Len(s) : (s \o t)[i] = s[i]
         /\ \A i \in 1 .. Len(s \o t) :
               i > Len(s) => (s \o t)[i] = t[i - Len(s)]
OBVIOUS

LEMMA TimesType ==
  ASSUME NEW f \in Nat, NEW a \in Nat
  PROVE  f * a \in Nat
OBVIOUS

LEMMA TimesMonotone ==
  ASSUME NEW f \in Nat, NEW a \in Nat, NEW b \in Nat, a <= b
  PROVE  f * a <= f * b
<1>1. b - a \in Nat /\ b = a + (b - a)
  OBVIOUS
<1>2. f * (b - a) \in Nat
  BY <1>1, TimesType
<1>3. f * b = f * a + f * (b - a)
  BY <1>1
<1> QED BY <1>2, <1>3, TimesType

LEMMA TakeOne ==
  ASSUME NEW f \in Nat \ {0}, NEW a \in Nat, NEW b \in Nat, a = f + b
  PROVE  1 \in 1 .. a /\ \A i \in 1 .. b : f + i \in 1 .. a
OBVIOUS

(* What is left to take: a frame less after each one, and never more than a  *)
(* ring without room for another frame holds.                                *)
LEMMA MayTakeBounds ==
  ASSUME NEW t \in 0 .. ProcessMax
  PROVE  /\ FrameCells * (ProcessMax - t) \in Nat
         /\ FrameCells * (ProcessMax - t) <= RingSize - FrameCells
         /\ t < ProcessMax =>
              FrameCells * (ProcessMax - t)
                = FrameCells + FrameCells * (ProcessMax - (t + 1))
<1>1. /\ FrameCells \in Nat \ {0} /\ ProcessMax \in Nat /\ RingSize \in Nat
  BY ConstantTypes
<1>2. RingSize = FrameCells * RingFrames /\ ProcessMax \in 1 .. RingFrames - 1
  BY CanRxAssumption, Zenon
<1>3. RingFrames \in Nat
  BY <1>1 DEF RingFrames
<1> HIDE DEF RingFrames
<1>4. ProcessMax - t \in Nat /\ ProcessMax - t <= RingFrames - 1
      /\ RingFrames - 1 \in Nat
  BY <1>1, <1>2, <1>3
<1>5. FrameCells * (ProcessMax - t) <= FrameCells * (RingFrames - 1)
  BY <1>1, <1>4, TimesMonotone
<1>6. FrameCells * (RingFrames - 1) = RingSize - FrameCells
  BY <1>1, <1>2, <1>3
<1>7. FrameCells * (ProcessMax - t) \in Nat
  BY <1>1, <1>4, TimesType
<1>8. FrameCells * (ProcessMax - t)
        = FrameCells + FrameCells * (ProcessMax - (t + 1))
  BY <1>1
<1> QED BY <1>5, <1>6, <1>7, <1>8

LEMMA InitGap == Init => GapInv
<1> SUFFICES ASSUME Init PROVE GapInv
  OBVIOUS
<1>1. Used(ring) = 0
  BY RingAssumption DEF Init, EmptyRing, Used
<1>2. Cells = <<>>
  BY <1>1 DEF Cells, Content
<1> QED BY <1>2 DEF Init, GapInv

LEMMA StepGap == TypeInv /\ GapInv /\ [Next]_vars => GapInv'
<1> SUFFICES ASSUME TypeInv, GapInv, [Next]_vars PROVE GapInv'
  OBVIOUS
<1>0. /\ ring \in Ring /\ FrameCells \in Nat \ {0} /\ RingSize \in Nat
      /\ arrived \in Nat /\ MaxArrived \in Nat /\ ProcessMax \in Nat
      /\ taken \in 0 .. ProcessMax /\ dropped \in Nat /\ lastDropped \in Nat
      /\ latest \in Nat /\ lost \subseteq 1 .. arrived
  BY ConstantTypes DEF TypeInv, TypeOK, Number
<1>00. /\ Cells \in Seq(Cell) /\ Len(Cells) = Used(ring)
       /\ Used(ring) \in 0 .. RingSize - 1
  BY <1>0, ContentType DEF Cells
<1>000. Cell = [num : 1 .. MaxArrived, part : 1 .. FrameCells, ok : BOOLEAN]
  BY CanRxAssumption, Zenon
<1>0000. /\ MayTake \in Nat /\ MayTake <= RingSize - FrameCells
         /\ taken < ProcessMax =>
              MayTake = FrameCells + FrameCells * (ProcessMax - (taken + 1))
  BY <1>0, MayTakeBounds DEF MayTake
<1>00000. ASSUME NEW i \in 1 .. Len(Cells) PROVE Cells[i].num \in Nat
  <2>1. Cells[i] \in Cell
    BY <1>00
  <2>2. Cells[i].num \in 1 .. MaxArrived
    BY <2>1, <1>000
  <2> QED BY <2>2, <1>0
<1>1. ASSUME NEW ok \in BOOLEAN, NEW overrun \in {0, 1}, Receive(ok, overrun)
      PROVE  GapInv'
  <2> DEFINE d == Frame(arrived', ok)
  <2>1. arrived' \in 1 .. MaxArrived /\ arrived' > arrived
    BY <1>0, <1>1 DEF Receive
  <2>2. d \in Seq(Cell) /\ Len(d) = FrameCells
        /\ \A i \in 1 .. FrameCells : d[i].num = arrived'
    BY <2>1, FrameType DEF Frame
  <2>3. ring' = Push(ring, d)
    BY <1>1 DEF Receive
  <2>4. UNCHANGED <<latest, sticky, lastDropped, sPc, taken>>
        /\ MayTake' = MayTake
    BY <1>1 DEF Receive, sensorVars, MayTake
  <2> HIDE DEF d
  <2>5. CASE Fits
    <3>1. Cells' = Cells \o d
      BY <1>0, <2>2, <2>3, <2>5, PushAppends DEF Fits, Cells
    <3>2. UNCHANGED <<dropped, lost>>
      BY <1>1, <2>5 DEF Receive
    <3>3. /\ Len(Cells') = Len(Cells) + FrameCells
          /\ \A i \in 1 .. Len(Cells) : Cells'[i] = Cells[i]
          /\ \A i \in 1 .. Len(Cells') :
                i > Len(Cells) => Cells'[i] = d[i - Len(Cells)]
      <4>1. /\ Len(Cells \o d) = Len(Cells) + Len(d)
            /\ \A i \in 1 .. Len(Cells) : (Cells \o d)[i] = Cells[i]
            /\ \A i \in 1 .. Len(Cells \o d) :
                  i > Len(Cells) => (Cells \o d)[i] = d[i - Len(Cells)]
        BY <1>00, <2>2, ConcatParts, Zenon
      <4> QED BY <3>1, <4>1, <2>2, Zenon
    <3>4. ASSUME NEW i \in 1 .. Len(Cells') PROVE Cells'[i].num <= arrived'
      <4>1. CASE i <= Len(Cells)
        <5>1. i \in 1 .. Len(Cells)
          BY <4>1, <1>00
        <5>2. Cells[i].num <= arrived /\ Cells[i].num \in Nat
          BY <5>1, <1>00000 DEF GapInv
        <5> QED BY <5>1, <5>2, <3>3, <2>1, <1>0
      <4>2. CASE i > Len(Cells)
        <5>1. i - Len(Cells) \in 1 .. FrameCells
          BY <4>2, <3>3, <1>00, <1>0
        <5>2. Cells'[i].num = arrived'
          BY <5>1, <4>2, <3>3, <2>2
        <5> QED BY <5>2, <2>1
      <4> QED BY <4>1, <4>2, <1>00, <3>3, <1>0
    <3>5. ASSUME NEW n \in lost', Unflagged', sPc' = "read"
          PROVE  MayTake' <= Len(Cells')
                 /\ \A i \in 1 .. MayTake' : Cells'[i].num < n
      <4>1. MayTake <= Len(Cells) /\ \A i \in 1 .. MayTake : Cells[i].num < n
        BY <3>2, <3>5, <2>4 DEF GapInv, Unflagged
      <4>2. MayTake <= Len(Cells')
        BY <4>1, <3>3, <1>0, <1>00, <1>0000
      <4>3. ASSUME NEW i \in 1 .. MayTake PROVE Cells'[i].num < n
        <5>1. i \in 1 .. Len(Cells)
          BY <4>1, <1>00, <1>0000
        <5> QED BY <5>1, <4>1, <3>3
      <4> QED BY <4>2, <4>3, <2>4
    <3>6. latest' <= arrived'
      BY <1>0, <2>1, <2>4 DEF GapInv
    <3> QED BY <3>2, <3>4, <3>5, <3>6, <2>4 DEF GapInv, Unflagged
  <2>6. CASE ~Fits
    <3>1. Len(d) > Unused(ring)
      BY <1>0, <1>00, <2>2, <2>6 DEF Fits, Unused
    <3>2. Cells' = Cells
      BY <2>3, <3>1 DEF Push, Cells
    <3>3. dropped' = dropped + 1 /\ lost' = lost \union {arrived'}
      BY <1>1, <2>6 DEF Receive
    <3>4. Len(Cells) + FrameCells > RingSize - 1
      BY <1>0, <1>00, <2>2, <3>1 DEF Unused
    <3>5. MayTake <= Len(Cells)
      BY <3>4, <1>0, <1>00, <1>0000
    <3>6. \A i \in 1 .. Len(Cells) : Cells[i].num < arrived'
      BY <1>00000, <2>1, <1>0 DEF GapInv
    <3>7. latest < arrived' /\ latest' <= arrived'
      BY <1>0, <2>1, <2>4 DEF GapInv
    <3>8. ASSUME NEW n \in lost', Unflagged', sPc' = "read"
          PROVE  \A i \in 1 .. MayTake : Cells[i].num < n
      <4>1. CASE n = arrived'
        <5>1. \A i \in 1 .. MayTake : i \in 1 .. Len(Cells)
          BY <3>5, <1>00, <1>0000
        <5> QED BY <4>1, <5>1, <3>6
      <4>2. CASE n \in lost
        BY <4>2, <3>8, <2>4 DEF GapInv, Unflagged
      <4> QED BY <3>3, <4>1, <4>2
    <3>9. \A n \in lost' : Unflagged' => latest' < n
      BY <3>3, <3>7, <2>4 DEF GapInv, Unflagged
    <3>10. \A i \in 1 .. Len(Cells') : Cells'[i].num <= arrived'
      BY <3>2, <3>6, <1>00000, <2>1
    <3>11. dropped' > 0
      BY <3>3, <1>0
    <3>12. Unflagged' => lastDropped' = 0
      BY <2>4 DEF GapInv, Unflagged
    <3> QED BY <3>2, <3>5, <3>7, <3>8, <3>9, <3>10, <3>11, <3>12, <2>4
            DEF GapInv
  <2> QED BY <2>5, <2>6
<1>2. ASSUME SensorWake PROVE GapInv'
  <2>1. UNCHANGED <<ring, dropped, latest, arrived, lost>>
        /\ sticky' = Flags /\ lastDropped' = dropped
    BY <1>2 DEF SensorWake
  <2>2. Unflagged' => Unflagged /\ dropped = lastDropped
    BY <2>1 DEF Flags, Unflagged
  <2>3. Unflagged' => dropped = 0 /\ lost = {}
    BY <2>2, <1>0 DEF GapInv
  <2> QED BY <2>1, <2>2, <2>3 DEF GapInv, Cells
<1>3. ASSUME SensorRead PROVE GapInv'
  <2> DEFINE cells == Peek(ring, FrameCells)
  <2>1. /\ cells = SubSeq(Cells, 1, FrameCells)
        /\ Cells' = SubSeq(Cells, FrameCells + 1, Len(Cells))
        /\ FrameCells <= Len(Cells)
    BY <1>0, <1>00, <1>3, PopTakes DEF SensorRead, FrameThere, AfterRead, Cells
  <2>2. /\ UNCHANGED <<dropped, lastDropped, arrived, lost, sPc>>
        /\ sPc = "read" /\ taken < ProcessMax /\ taken' = taken + 1
    BY <1>3 DEF SensorRead
  <2>3. \/ latest' = cells[1].num /\ sticky' = sticky
        \/ latest' = latest /\ sticky' = sticky \union {"DECODE_FAIL"}
    BY <1>3 DEF SensorRead
  <2>4. cells[1] = Cells[1] /\ 1 \in 1 .. Len(Cells)
    BY <2>1, <1>00, <1>0
  <2> HIDE DEF cells
  <2>5. /\ Len(Cells') = Len(Cells) - FrameCells
        /\ \A i \in 1 .. Len(Cells') : Cells'[i] = Cells[FrameCells + i]
    BY <2>1, <1>00, <1>0
  <2>6. MayTake' = FrameCells * (ProcessMax - (taken + 1))
    BY <2>2 DEF MayTake
  <2>7. MayTake = FrameCells + MayTake' /\ MayTake' \in Nat /\ MayTake \in Nat
    <3>1. taken + 1 \in 0 .. ProcessMax
      BY <2>2, <1>0
    <3> QED BY <2>2, <2>6, <3>1, <1>0000, MayTakeBounds
  <2>8. Unflagged' => Unflagged
    BY <2>3 DEF Unflagged
  <2>9. ASSUME NEW n \in lost, Unflagged
        PROVE  /\ latest' < n /\ MayTake' <= Len(Cells')
               /\ \A i \in 1 .. MayTake' : Cells'[i].num < n
    <3>1. /\ latest < n /\ MayTake <= Len(Cells)
          /\ \A i \in 1 .. MayTake : Cells[i].num < n
      BY <2>2, <2>9 DEF GapInv
    <3>2. /\ 1 \in 1 .. MayTake
          /\ \A i \in 1 .. MayTake' : FrameCells + i \in 1 .. MayTake
      BY <2>7, <1>0, TakeOne, Zenon
    <3>3. latest' < n
      BY <2>3, <2>4, <3>1, <3>2
    <3>4. MayTake' <= Len(Cells')
      <4>1. FrameCells + MayTake' <= Len(Cells)
        BY <2>7, <3>1
      <4> QED BY <4>1, <2>5, <2>7, <1>0, <1>00
    <3>5. ASSUME NEW i \in 1 .. MayTake' PROVE Cells'[i].num < n
      <4>1. i \in 1 .. Len(Cells')
        BY <3>4, <2>7, <2>5, <2>1, <1>0, <1>00
      <4> QED BY <4>1, <3>1, <3>2, <2>5
    <3> QED BY <3>3, <3>4, <3>5
  <2>10. latest' <= arrived
    BY <2>3, <2>4 DEF GapInv
  <2>11. ASSUME NEW i \in 1 .. Len(Cells') PROVE Cells'[i].num <= arrived
    <3>1. FrameCells + i \in 1 .. Len(Cells)
      BY <2>5, <1>0, <1>00
    <3> QED BY <3>1, <2>5 DEF GapInv
  <2> QED BY <2>2, <2>8, <2>9, <2>10, <2>11 DEF GapInv
<1>4. ASSUME /\ UNCHANGED <<ring, dropped, latest, sticky, lastDropped, taken,
                            arrived, lost>>
             /\ sPc' = "read" => sPc = "read"
      PROVE  GapInv'
  BY <1>4 DEF GapInv, Cells, MayTake, Unflagged
<1>5. ASSUME \/ Start \/ Stop \/ Tick \/ SensorWait \/ SensorReadEnd
             \/ SensorJudge \/ UNCHANGED vars
      PROVE  GapInv'
  BY <1>4, <1>5 DEF Start, Stop, Tick, SensorWait, SensorReadEnd, SensorJudge,
                    sensorVars, vars
<1> QED BY <1>1, <1>2, <1>3, <1>5 DEF Next, SensorNext

(* For every size of the ring, a frame dropped for want of room is marked    *)
(* before the task takes a value from behind the gap: the ring, full when it *)
(* drops, holds more frames than the task takes in a round.                  *)
THEOREM GapsAreFlagged == Spec => []GapIsFlagged
<1>1. TypeInv /\ GapInv => GapIsFlagged
  <2> SUFFICES ASSUME TypeInv, GapInv, NEW n \in lost, n < latest, Unflagged
               PROVE  FALSE
    BY DEF GapIsFlagged, Unflagged
  <2>1. latest < n /\ latest \in Nat /\ n \in Nat
    BY ConstantTypes DEF GapInv, TypeInv, TypeOK, Number
  <2> QED BY <2>1
<1> QED BY InitType, StepType, InitGap, StepGap, <1>1, PTL DEF Spec
=============================================================================
