------------------------- MODULE EraseServiceProofs -------------------------
(***************************************************************************)
(* What holds of EraseService for any number of tasks, blocks, requests    *)
(* and failures: its types, that the mutex keeps the store to one task,    *)
(* and that the open slot has its header whenever the store is free.       *)
(***************************************************************************)
EXTENDS EraseService, TLAPS

USE DEF ProtoNext, StorageNext, EraseNext

(* A task inside the store has the mutex.                                    *)
LockInv == \A w \in InStore : holder = w

(* The storage task is in a collection that has been begun.                  *)
SessionInv ==
  /\ tPc # "idle" => session \in Task
  /\ session # None => begins # 0

(* The slots the erase task is at, and has still to go to, are the           *)
(* request's.                                                                *)
SlotInv ==
  /\ ePc = "block" => Covers(eReq, eSlot)
  /\ ePc \in {"slot", "block"} => \A t \in eLeft : Covers(eReq, t)

(* The open slot has its header, but for a slot that is being erased.        *)
HeaderInv ==
  active # None =>
    \/ header[active] # 0
    \/ ePc \in {"slot", "block"} /\ Covers(eReq, active)

HeldInv == LockInv /\ SessionInv /\ SlotInv /\ HeaderInv
-----------------------------------------------------------------------------
LEMMA NoRequestIsOne == NoRequest \in Request
BY DEF NoRequest, Request

LEMMA TypeInit ==
  Init => TypeOK
<1> SUFFICES ASSUME Init PROVE TypeOK
  OBVIOUS
<1> USE EraseServiceAssumption, NoRequestIsOne DEF Init
<1>1. StoreType
  <2>1. holder \in Who \union {"nobody"} /\ halted \in BOOLEAN
    BY DEF Who
  <2>2. inited \in BOOLEAN
    BY Zenon
  <2>3. active \in Task \union {None} /\ header \in [Task -> 0 .. MaxBegins]
    OBVIOUS
  <2> QED
    BY <2>1, <2>2, <2>3 DEF StoreType
<1>2. RequestsType
  <2>1. requests \in Seq(Request) /\ Len(requests) <= EraseDepth
    OBVIOUS
  <2>2. erasing \in BOOLEAN
    BY Zenon
  <2> QED
    BY <2>1, <2>2 DEF RequestsType
<1>3. ProtoType /\ StorageType
  BY DEF ProtoType, StorageType
<1>4. EraseType
  BY DEF EraseType
<1>5. CountType
  BY DEF CountType
<1> QED
  BY <1>1, <1>2, <1>3, <1>4, <1>5 DEF TypeOK

LEMMA GiveType ==
  ASSUME TypeOK, NEW who \in Who, Give(who)
  PROVE  holder' \in Who \union {"nobody"} /\ halted' \in BOOLEAN
BY Zenon DEF Give, TypeOK, StoreType

LEMMA ChipType ==
  ASSUME TypeOK, ChipOk \/ ChipFails
  PROVE  inited' \in BOOLEAN
BY Zenon DEF ChipOk, ChipFails, TypeOK, StoreType

(* What a step leaves alone keeps its type.                                  *)
LEMMA TypeFrame ==
  ASSUME TypeOK
  PROVE  /\ UNCHANGED <<holder, halted, storeVars>> => StoreType'
         /\ UNCHANGED <<requests, erasing>> => RequestsType'
         /\ UNCHANGED protoVars => ProtoType'
         /\ UNCHANGED storageVars => StorageType'
         /\ UNCHANGED eraseVars => EraseType'
         /\ UNCHANGED countVars => CountType'
<1>1. UNCHANGED <<holder, halted, storeVars>> => StoreType'
  BY DEF TypeOK, StoreType, storeVars
<1>2. UNCHANGED <<requests, erasing>> => RequestsType'
  BY DEF TypeOK, RequestsType
<1>3. UNCHANGED protoVars => ProtoType'
  BY DEF TypeOK, ProtoType, protoVars
<1>4. UNCHANGED storageVars => StorageType'
  BY DEF TypeOK, StorageType, storageVars
<1>5. UNCHANGED eraseVars => EraseType'
  BY DEF TypeOK, EraseType, eraseVars
<1>6. UNCHANGED countVars => CountType'
  BY DEF TypeOK, CountType, countVars
<1> QED
  BY <1>1, <1>2, <1>3, <1>4, <1>5, <1>6

LEMMA TypeProto ==
  ASSUME TypeOK, ProtoNext
  PROVE  TypeOK'
<1> USE EraseServiceAssumption, NoRequestIsOne, TypeFrame
<1>1. CASE ClearTask
  <2>1. RequestsType'
    BY <1>1 DEF ClearTask, TypeOK, RequestsType, storeVars, protoVars,
       storageVars, eraseVars, countVars
  <2>2. ProtoType'
    BY <1>1 DEF ClearTask, TypeOK, ProtoType, storeVars, protoVars,
       storageVars, eraseVars, countVars
  <2>3. CountType'
    BY <1>1 DEF ClearTask, TypeOK, CountType, storeVars, protoVars,
       storageVars, eraseVars, countVars
  <2>4. StoreType' /\ StorageType' /\ EraseType'
    BY <1>1 DEF ClearTask, storeVars, protoVars, storageVars, eraseVars,
       countVars
  <2> QED
    BY <2>1, <2>2, <2>3, <2>4 DEF TypeOK
<1>2. CASE ProtoTake
  <2>1. StoreType'
    BY <1>2 DEF ProtoTake, Take, TypeOK, StoreType, Who, storeVars,
       protoVars, storageVars, eraseVars, countVars
  <2>2. ProtoType'
    BY <1>2 DEF ProtoTake, Take, TypeOK, ProtoType, storeVars, protoVars,
       storageVars, eraseVars, countVars
  <2>3. RequestsType' /\ StorageType' /\ EraseType' /\ CountType'
    BY <1>2 DEF ProtoTake, storeVars, protoVars, storageVars, eraseVars,
       countVars
  <2> QED
    BY <2>1, <2>2, <2>3 DEF TypeOK
<1>3. CASE ClearQueued
  <2>1. StoreType'
    BY <1>3 DEF ClearQueued, ChipOk, ChipFails, Give, Accepted, TypeOK,
       StoreType, Who, storeVars, protoVars, storageVars, eraseVars,
       countVars
  <2>2. RequestsType'
    <3>1. Accepted \in Seq(Request) /\ Len(Accepted) <= EraseDepth
      BY DEF Accepted, TypeOK, RequestsType, ProtoType
    <3> QED
      BY <1>3, <3>1 DEF ClearQueued, RequestsType
  <2>3. ProtoType'
    BY <1>3 DEF ClearQueued, ChipOk, ChipFails, Give, Accepted, TypeOK,
       ProtoType, storeVars, protoVars, storageVars, eraseVars, countVars
  <2>4. CountType'
    BY <1>3 DEF ClearQueued, ChipOk, ChipFails, Give, Accepted, TypeOK,
       CountType, storeVars, protoVars, storageVars, eraseVars, countVars
  <2>5. StorageType' /\ EraseType'
    BY <1>3 DEF ClearQueued, storeVars, protoVars, storageVars, eraseVars,
       countVars
  <2> QED
    BY <2>1, <2>2, <2>3, <2>4, <2>5 DEF TypeOK
<1>4. CASE ReadCommand
  <2>1. ProtoType'
    BY <1>4 DEF ReadCommand, TypeOK, ProtoType, storeVars, protoVars,
       storageVars, eraseVars, countVars
  <2>2. StoreType' /\ RequestsType' /\ StorageType' /\ EraseType' /\ CountType'
    BY <1>4 DEF ReadCommand, storeVars, protoVars, storageVars, eraseVars,
       countVars
  <2> QED
    BY <2>1, <2>2 DEF TypeOK
<1>5. CASE ReadStore
  <2>1. StoreType'
    <3>1. holder' \in Who \union {"nobody"} /\ halted' \in BOOLEAN
      BY <1>5, GiveType DEF ReadStore, Who
    <3>2. inited' \in BOOLEAN
      BY <1>5, ChipType DEF ReadStore
    <3>3. active' \in Task \union {None} /\ header' \in [Task -> 0 .. MaxBegins]
      BY <1>5 DEF ReadStore, Opened, TypeOK, StoreType, ProtoType
    <3> QED
      BY <3>1, <3>2, <3>3 DEF StoreType
  <2>2. ProtoType'
    BY <1>5 DEF ReadStore, ChipOk, ChipFails, Give, Opened, TypeOK,
       ProtoType, storeVars, protoVars, storageVars, eraseVars, countVars
  <2>3. CountType'
    BY <1>5 DEF ReadStore, ChipOk, ChipFails, Give, Opened, TypeOK,
       CountType, storeVars, protoVars, storageVars, eraseVars, countVars
  <2>4. RequestsType' /\ StorageType' /\ EraseType'
    BY <1>5 DEF ReadStore, storeVars, protoVars, storageVars, eraseVars,
       countVars
  <2> QED
    BY <2>1, <2>2, <2>3, <2>4 DEF TypeOK
<1> QED
  BY <1>1, <1>2, <1>3, <1>4, <1>5

LEMMA TypeStorage ==
  ASSUME TypeOK, StorageNext
  PROVE  TypeOK'
<1> USE EraseServiceAssumption, NoRequestIsOne, TypeFrame
<1>1. CASE StorageBegin
  <2>1. StorageType'
    BY <1>1 DEF StorageBegin, TypeOK, StorageType, storeVars, protoVars,
       storageVars, eraseVars, countVars
  <2>2. CountType'
    BY <1>1 DEF StorageBegin, TypeOK, CountType, storeVars, protoVars,
       storageVars, eraseVars, countVars
  <2>3. StoreType' /\ RequestsType' /\ ProtoType' /\ EraseType'
    BY <1>1 DEF StorageBegin, storeVars, protoVars, storageVars,
       eraseVars, countVars
  <2> QED
    BY <2>1, <2>2, <2>3 DEF TypeOK
<1>2. CASE StorageAppend
  <2>1. StorageType'
    BY <1>2 DEF StorageAppend, TypeOK, StorageType, storeVars, protoVars,
       storageVars, eraseVars, countVars
  <2>2. StoreType' /\ RequestsType' /\ ProtoType' /\ EraseType' /\ CountType'
    BY <1>2 DEF StorageAppend, storeVars, protoVars, storageVars,
       eraseVars, countVars
  <2> QED
    BY <2>1, <2>2 DEF TypeOK
<1>3. CASE StorageTake
  <2>1. StoreType'
    BY <1>3 DEF StorageTake, Take, TypeOK, StoreType, Who, storeVars,
       protoVars, storageVars, eraseVars, countVars
  <2>2. StorageType'
    BY <1>3 DEF StorageTake, Take, TypeOK, StorageType, storeVars,
       protoVars, storageVars, eraseVars, countVars
  <2>3. RequestsType' /\ ProtoType' /\ EraseType' /\ CountType'
    BY <1>3 DEF StorageTake, storeVars, protoVars, storageVars, eraseVars,
       countVars
  <2> QED
    BY <2>1, <2>2, <2>3 DEF TypeOK
<1>4. CASE BeginTask
  <2>1. StoreType'
    <3>1. holder' \in Who \union {"nobody"} /\ halted' \in BOOLEAN
      BY <1>4, GiveType DEF BeginTask, Who
    <3>2. inited' \in BOOLEAN
      BY <1>4, ChipType DEF BeginTask
    <3>3. active' \in Task \union {None} /\ header' \in [Task -> 0 .. MaxBegins]
      BY <1>4 DEF BeginTask, TypeOK, StoreType, StorageType, CountType
    <3> QED
      BY <3>1, <3>2, <3>3 DEF StoreType
  <2>2. StorageType'
    BY <1>4 DEF BeginTask, ChipOk, ChipFails, Give, TypeOK, StorageType,
       storeVars, protoVars, storageVars, eraseVars, countVars
  <2>3. CountType'
    BY <1>4 DEF BeginTask, ChipOk, ChipFails, Give, TypeOK, CountType,
       storeVars, protoVars, storageVars, eraseVars, countVars
  <2>4. RequestsType' /\ ProtoType' /\ EraseType'
    BY <1>4 DEF BeginTask, storeVars, protoVars, storageVars, eraseVars,
       countVars
  <2> QED
    BY <2>1, <2>2, <2>3, <2>4 DEF TypeOK
<1>5. CASE AppendData
  <2>1. StoreType'
    <3>1. holder' \in Who \union {"nobody"} /\ halted' \in BOOLEAN
      BY <1>5, GiveType DEF AppendData, Who
    <3>2. inited' \in BOOLEAN
      BY <1>5, ChipType DEF AppendData
    <3>3. active' \in Task \union {None} /\ header' \in [Task -> 0 .. MaxBegins]
      BY <1>5 DEF AppendData, Opened, TypeOK, StoreType, StorageType
    <3> QED
      BY <3>1, <3>2, <3>3 DEF StoreType
  <2>2. StorageType'
    BY <1>5 DEF AppendData, ChipOk, ChipFails, Give, Opened, TypeOK,
       StorageType, storeVars, protoVars, storageVars, eraseVars,
       countVars
  <2>3. CountType'
    BY <1>5 DEF AppendData, ChipOk, ChipFails, Give, Opened, TypeOK,
       CountType, storeVars, protoVars, storageVars, eraseVars, countVars
  <2>4. RequestsType' /\ ProtoType' /\ EraseType'
    BY <1>5 DEF AppendData, storeVars, protoVars, storageVars, eraseVars,
       countVars
  <2> QED
    BY <2>1, <2>2, <2>3, <2>4 DEF TypeOK
<1> QED
  BY <1>1, <1>2, <1>3, <1>4, <1>5

LEMMA TypeErase ==
  ASSUME TypeOK, EraseNext
  PROVE  TypeOK'
<1> USE EraseServiceAssumption, NoRequestIsOne, TypeFrame
<1>1. CASE EraseReceive
  <2>1. RequestsType'
    BY <1>1 DEF EraseReceive, TypeOK, RequestsType, storeVars, protoVars,
       storageVars, eraseVars, countVars
  <2>2. EraseType'
    <3>1. Head(requests) \in Request
      BY <1>1 DEF EraseReceive, TypeOK, RequestsType
    <3> QED
      BY <1>1, <3>1 DEF EraseReceive, TypeOK, EraseType
  <2>3. StoreType' /\ ProtoType' /\ StorageType' /\ CountType'
    BY <1>1 DEF EraseReceive, storeVars, protoVars, storageVars,
       eraseVars, countVars
  <2> QED
    BY <2>1, <2>2, <2>3 DEF TypeOK
<1>2. CASE EraseTake
  <2>1. StoreType'
    BY <1>2 DEF EraseTake, Take, TypeOK, StoreType, Who, storeVars,
       protoVars, storageVars, eraseVars, countVars
  <2>2. EraseType'
    BY <1>2 DEF EraseTake, Take, TypeOK, EraseType, storeVars, protoVars,
       storageVars, eraseVars, countVars
  <2>3. RequestsType' /\ ProtoType' /\ StorageType' /\ CountType'
    BY <1>2 DEF EraseTake, storeVars, protoVars, storageVars, eraseVars,
       countVars
  <2> QED
    BY <2>1, <2>2, <2>3 DEF TypeOK
<1>3. CASE EraseInit
  <2>1. StoreType'
    BY <1>3 DEF EraseInit, ChipOk, ChipFails, Give, Targets, TypeOK,
       StoreType, Who, storeVars, protoVars, storageVars, eraseVars,
       countVars
  <2>2. EraseType'
    <3>1. Targets \subseteq Task
      BY DEF Targets, TypeOK, EraseType, Request
    <3> QED
      BY <1>3, <3>1 DEF EraseInit, TypeOK, EraseType
  <2>3. CountType'
    BY <1>3 DEF EraseInit, ChipOk, ChipFails, Give, Targets, TypeOK,
       CountType, storeVars, protoVars, storageVars, eraseVars, countVars
  <2>4. RequestsType' /\ ProtoType' /\ StorageType'
    BY <1>3 DEF EraseInit, storeVars, protoVars, storageVars, eraseVars,
       countVars
  <2> QED
    BY <2>1, <2>2, <2>3, <2>4 DEF TypeOK
<1>4. CASE EraseSlot
  <2>1. EraseType'
    BY <1>4 DEF EraseSlot, TypeOK, EraseType, storeVars, protoVars,
       storageVars, eraseVars, countVars
  <2>2. StoreType' /\ RequestsType' /\ ProtoType' /\ StorageType' /\ CountType'
    BY <1>4 DEF EraseSlot, storeVars, protoVars, storageVars, eraseVars,
       countVars
  <2> QED
    BY <2>1, <2>2 DEF TypeOK
<1>5. CASE EraseBlock
  <2>1. StoreType'
    BY <1>5 DEF EraseBlock, Erased, HeldToNextBlock, TypeOK, StoreType,
       Who, storeVars, protoVars, storageVars, eraseVars, countVars
  <2>2. EraseType'
    BY <1>5 DEF EraseBlock, Erased, HeldToNextBlock, TypeOK, EraseType,
       storeVars, protoVars, storageVars, eraseVars, countVars
  <2>3. CountType'
    BY <1>5 DEF EraseBlock, Erased, HeldToNextBlock, TypeOK, CountType,
       storeVars, protoVars, storageVars, eraseVars, countVars
  <2>4. RequestsType' /\ ProtoType' /\ StorageType'
    BY <1>5 DEF EraseBlock, storeVars, protoVars, storageVars, eraseVars,
       countVars
  <2> QED
    BY <2>1, <2>2, <2>3, <2>4 DEF TypeOK
<1>6. CASE EraseEnd
  <2>1. StoreType'
    BY <1>6 DEF EraseEnd, ActiveAfterErase, TypeOK, StoreType, Who,
       storeVars, protoVars, storageVars, eraseVars, countVars
  <2>2. EraseType'
    BY <1>6 DEF EraseEnd, ActiveAfterErase, TypeOK, EraseType, storeVars,
       protoVars, storageVars, eraseVars, countVars
  <2>3. RequestsType' /\ ProtoType' /\ StorageType' /\ CountType'
    BY <1>6 DEF EraseEnd, storeVars, protoVars, storageVars, eraseVars,
       countVars
  <2> QED
    BY <2>1, <2>2, <2>3 DEF TypeOK
<1>7. CASE EraseUnlock
  <2>1. StoreType'
    BY <1>7 DEF EraseUnlock, Give, TypeOK, StoreType, Who, storeVars,
       protoVars, storageVars, eraseVars, countVars
  <2>2. EraseType'
    BY <1>7 DEF EraseUnlock, Give, TypeOK, EraseType, storeVars,
       protoVars, storageVars, eraseVars, countVars
  <2>3. RequestsType' /\ ProtoType' /\ StorageType' /\ CountType'
    BY <1>7 DEF EraseUnlock, storeVars, protoVars, storageVars, eraseVars,
       countVars
  <2> QED
    BY <2>1, <2>2, <2>3 DEF TypeOK
<1>8. CASE EraseUnset
  <2>1. RequestsType'
    BY <1>8 DEF EraseUnset, ErasingAfterErase, TypeOK, RequestsType,
       storeVars, protoVars, storageVars, eraseVars, countVars
  <2>2. EraseType'
    BY <1>8 DEF EraseUnset, ErasingAfterErase, TypeOK, EraseType,
       storeVars, protoVars, storageVars, eraseVars, countVars
  <2>3. StoreType' /\ ProtoType' /\ StorageType' /\ CountType'
    BY <1>8 DEF EraseUnset, storeVars, protoVars, storageVars, eraseVars,
       countVars
  <2> QED
    BY <2>1, <2>2, <2>3 DEF TypeOK
<1> QED
  BY <1>1, <1>2, <1>3, <1>4, <1>5, <1>6, <1>7, <1>8

LEMMA TypeStutter ==
  ASSUME TypeOK, UNCHANGED vars
  PROVE  TypeOK'
BY TypeFrame DEF TypeOK, vars

(* The variables keep their types and the erase queue its depth, whatever    *)
(* the tasks do and whatever fails.                                          *)
THEOREM TypeCorrect == Spec => []TypeOK
<1>1. TypeOK /\ [Next]_vars => TypeOK'
  BY TypeProto, TypeStorage, TypeErase, TypeStutter DEF Next, HaltedLoop
<1> QED
  BY TypeInit, <1>1, PTL DEF Spec

(***************************************************************************)
(* One task inside the store.  A give that stops the device, because       *)
(* another task took the mutex between the two gives of a failed erase,    *)
(* leaves the mutex with the task that is inside.                          *)
(***************************************************************************)
LEMMA LockInit == Init => LockInv
BY DEF Init, LockInv, InStore, Who

LEMMA LockNext ==
  ASSUME LockInv, [Next]_vars
  PROVE  LockInv'
<1> USE DEF LockInv, InStore, Who
<1>1. CASE ClearTask
  BY <1>1 DEF ClearTask, protoVars, storageVars,
     eraseVars
<1>2. CASE ProtoTake
  BY <1>2 DEF ProtoTake, Take, protoVars, storageVars,
     eraseVars
<1>3. CASE ClearQueued
  BY <1>3 DEF ClearQueued, Give, protoVars, storageVars,
     eraseVars
<1>4. CASE ReadCommand
  BY <1>4 DEF ReadCommand, protoVars, storageVars,
     eraseVars
<1>5. CASE ReadStore
  BY <1>5 DEF ReadStore, Give, protoVars, storageVars,
     eraseVars
<1>6. CASE StorageBegin
  BY <1>6 DEF StorageBegin, protoVars, storageVars,
     eraseVars
<1>7. CASE StorageAppend
  BY <1>7 DEF StorageAppend, protoVars, storageVars,
     eraseVars
<1>8. CASE StorageTake
  BY <1>8 DEF StorageTake, Take, protoVars, storageVars,
     eraseVars
<1>9. CASE BeginTask
  BY <1>9 DEF BeginTask, Give, protoVars, storageVars,
     eraseVars
<1>10. CASE AppendData
  BY <1>10 DEF AppendData, Give, protoVars, storageVars,
     eraseVars
<1>11. CASE EraseReceive
  BY <1>11 DEF EraseReceive, protoVars, storageVars,
     eraseVars
<1>12. CASE EraseTake
  BY <1>12 DEF EraseTake, Take, protoVars, storageVars,
     eraseVars
<1>13. CASE EraseInit
  BY <1>13 DEF EraseInit, Give, protoVars, storageVars,
     eraseVars
<1>14. CASE EraseSlot
  BY <1>14 DEF EraseSlot, protoVars, storageVars,
     eraseVars
<1>15. CASE EraseBlock
  BY <1>15 DEF EraseBlock, HeldToNextBlock, protoVars, storageVars,
     eraseVars
<1>16. CASE EraseEnd
  BY <1>16 DEF EraseEnd, protoVars, storageVars,
     eraseVars
<1>17. CASE EraseUnlock
  BY <1>17 DEF EraseUnlock, Give, protoVars, storageVars,
     eraseVars
<1>18. CASE EraseUnset
  BY <1>18 DEF EraseUnset, protoVars, storageVars,
     eraseVars
<1>19. CASE UNCHANGED vars
  BY <1>19 DEF vars, protoVars, storageVars, eraseVars
<1> QED
  BY <1>1, <1>2, <1>3, <1>4, <1>5, <1>6, <1>7, <1>8, <1>9, <1>10, <1>11, <1>12, <1>13, <1>14, <1>15, <1>16, <1>17, <1>18, <1>19
     DEF Next, HaltedLoop

(* The store is never open to two tasks at once, although the erase task of  *)
(* app_storage.c gives the mutex twice when the chip cannot be initialised.  *)
THEOREM OneTaskInStore == Spec => []OneInStore
<1>1. LockInv => OneInStore
  BY DEF LockInv, OneInStore
<1>2. LockInv /\ [Next]_vars => LockInv'
  BY LockNext
<1> QED
  BY LockInit, <1>1, <1>2, PTL DEF Spec

(***************************************************************************)
(* The open slot.  The strengthening HeldInv follows a request from the    *)
(* queue to the slots it erases: as long as a slot is being erased the     *)
(* store is not free, and the open slot is forgotten before it is.         *)
(***************************************************************************)
LEMMA HeldInit == Init => HeldInv
BY LockInit DEF Init, HeldInv, SessionInv, SlotInv, HeaderInv

LEMMA SessionNext ==
  ASSUME TypeOK, SessionInv, [Next]_vars
  PROVE  SessionInv'
<1> USE EraseServiceAssumption DEF SessionInv
<1>1. begins \in Nat
  BY DEF TypeOK, CountType
<1>2. CASE ProtoNext
  BY <1>2 DEF ClearTask, ProtoTake, ClearQueued, ReadCommand, ReadStore,
     storageVars, countVars
<1>3. CASE StorageBegin
  BY <1>1, <1>3 DEF StorageBegin
<1>4. CASE StorageAppend \/ StorageTake
  BY <1>4 DEF StorageAppend, StorageTake, TypeOK, StorageType, countVars
<1>5. CASE BeginTask \/ AppendData
  BY <1>5 DEF BeginTask, AppendData
<1>6. CASE EraseNext
  BY <1>6 DEF EraseReceive, EraseTake, EraseInit, EraseSlot, EraseBlock,
     EraseEnd, EraseUnlock, EraseUnset, storageVars, countVars
<1>7. CASE UNCHANGED vars
  BY <1>7 DEF vars, storageVars, countVars
<1> QED
  BY <1>2, <1>3, <1>4, <1>5, <1>6, <1>7 DEF Next, HaltedLoop

LEMMA SlotNext ==
  ASSUME TypeOK, SlotInv, [Next]_vars
  PROVE  SlotInv'
<1> USE DEF SlotInv, Covers
<1>1. CASE ProtoNext
  BY <1>1 DEF ClearTask, ProtoTake, ClearQueued, ReadCommand, ReadStore,
     eraseVars
<1>2. CASE StorageNext
  BY <1>2 DEF StorageBegin, StorageAppend, StorageTake, BeginTask, AppendData,
     eraseVars
<1>3. CASE EraseInit
  BY <1>3 DEF EraseInit, Targets
<1>4. CASE EraseSlot
  BY <1>4 DEF EraseSlot
<1>5. CASE EraseBlock
  BY <1>5 DEF EraseBlock, HeldToNextBlock
<1>6. CASE EraseReceive \/ EraseTake \/ EraseEnd \/ EraseUnlock \/ EraseUnset
  BY <1>6 DEF EraseReceive, EraseTake, EraseEnd, EraseUnlock, EraseUnset
<1>7. CASE UNCHANGED vars
  BY <1>7 DEF vars, eraseVars
<1> QED
  BY <1>1, <1>2, <1>3, <1>4, <1>5, <1>6, <1>7 DEF Next, HaltedLoop

(* Who is inside the store has it alone, so that the open slot changes in no *)
(* other hands.                                                              *)
LEMMA HeaderNext ==
  ASSUME TypeOK, HeldInv, [Next]_vars
  PROVE  HeaderInv'
<1> USE DEF HeaderInv, Covers
<1>1. HeaderInv /\ SlotInv /\ SessionInv
  BY DEF HeldInv
<1>2. /\ active \in Task \union {None} /\ header \in [Task -> 0 .. MaxBegins]
      /\ begins \in Nat
  BY EraseServiceAssumption DEF TypeOK, StoreType, CountType
<1>3. CASE ClearTask \/ ProtoTake \/ ClearQueued \/ ReadCommand
  BY <1>1, <1>3 DEF ClearTask, ProtoTake, ClearQueued, ReadCommand, eraseVars,
     storeVars, countVars
<1>4. CASE ReadStore
  BY <1>1, <1>4 DEF ReadStore, Opened, eraseVars
<1>5. CASE StorageBegin \/ StorageAppend \/ StorageTake
  BY <1>1, <1>5 DEF StorageBegin, StorageAppend, StorageTake, eraseVars,
     storeVars, countVars
<1>6. CASE BeginTask
  <2>1. session \in Task /\ begins # 0
    BY <1>1, <1>6, EraseServiceAssumption DEF BeginTask, SessionInv
  <2> QED
    BY <1>1, <1>2, <1>6, <2>1 DEF BeginTask, eraseVars
<1>7. CASE AppendData
  BY <1>1, <1>7 DEF AppendData, Opened, eraseVars
<1>8. CASE EraseReceive \/ EraseTake \/ EraseSlot \/ EraseUnlock \/ EraseUnset
  BY <1>1, <1>8 DEF EraseReceive, EraseTake, EraseSlot, EraseUnlock,
     EraseUnset, storeVars, countVars
<1>9. CASE EraseInit
  BY <1>1, <1>9 DEF EraseInit
<1>10. CASE EraseBlock
  <2>1. Covers(eReq, eSlot)
    BY <1>1, <1>10 DEF EraseBlock, SlotInv
  <2>2. \A t \in Task : t # eSlot => Erased(eSlot, eBlock)[t] = header[t]
    BY <1>2 DEF Erased
  <2>3. header' = header \/ header' = Erased(eSlot, eBlock)
    BY <1>10 DEF EraseBlock
  <2>4. ePc' \in {"slot", "block"} /\ UNCHANGED <<eReq, active>>
    BY <1>10 DEF EraseBlock, HeldToNextBlock
  <2> QED
    BY <1>1, <1>2, <2>1, <2>2, <2>3, <2>4
<1>11. CASE EraseEnd
  BY <1>1, <1>11 DEF EraseEnd, ActiveAfterErase, countVars
<1>12. CASE UNCHANGED vars
  BY <1>1, <1>12 DEF vars, storeVars, eraseVars, countVars
<1> QED
  BY <1>3, <1>4, <1>5, <1>6, <1>7, <1>8, <1>9, <1>10, <1>11, <1>12
     DEF Next, HaltedLoop

(* A task that finds the store free finds the header of the open slot:       *)
(* app_storage.c keeps the mutex for all the blocks and forgets the slot     *)
(* before it gives it back, also when an erase fails half way.               *)
THEOREM OpenSlotHasHeader == Spec => []ActiveHasHeader
<1>1. HeldInv => ActiveHasHeader
  BY DEF HeldInv, HeaderInv, ActiveHasHeader, InStore, Who
<1>2. TypeOK /\ [Next]_vars => TypeOK'
  BY TypeProto, TypeStorage, TypeErase, TypeStutter DEF Next, HaltedLoop
<1>3. TypeOK /\ HeldInv /\ [Next]_vars => HeldInv'
  BY LockNext, SessionNext, SlotNext, HeaderNext DEF HeldInv
<1> QED
  BY TypeInit, HeldInit, <1>1, <1>2, <1>3, PTL DEF Spec

(***************************************************************************)
(* What it takes to stop the device.  The strengthening counts the         *)
(* initialisations that must have failed by the time a request is on its   *)
(* way, and by the time the mutex has been given once too early.           *)
(***************************************************************************)
FailInv ==
  /\ ~inited => initFails >= 1
  /\ ~inited /\ (requests # <<>> \/ ePc # "idle") => initFails >= 2
  /\ ePc = "unlock" /\ holder # "erase" => initFails >= 3
  /\ halted => initFails >= 3

LEMMA FailInit == Init => FailInv
BY DEF Init, FailInv

LEMMA FailNext ==
  ASSUME TypeOK, LockInv, FailInv, [Next]_vars
  PROVE  FailInv'
<1> USE DEF FailInv
<1>1. initFails \in Nat
  BY EraseServiceAssumption DEF TypeOK, CountType
<1>2. \A w \in InStore : holder = w
  BY DEF LockInv
<1>3. CASE ClearTask \/ ReadCommand \/ StorageBegin \/ StorageAppend
  BY <1>3 DEF ClearTask, ReadCommand, StorageBegin, StorageAppend, storeVars,
     eraseVars, countVars
<1>4. CASE ProtoTake \/ StorageTake
  BY <1>4 DEF ProtoTake, StorageTake, Take, storeVars, eraseVars, countVars
<1>5. CASE ClearQueued \/ ReadStore
  <2>1. holder = "proto"
    BY <1>2, <1>5 DEF ClearQueued, ReadStore, InStore, Who
  <2> QED
    BY <1>1, <1>5, <2>1 DEF ClearQueued, ReadStore, ChipOk, ChipFails, Give,
       eraseVars
<1>6. CASE BeginTask \/ AppendData
  <2>1. holder = "storage"
    BY <1>2, <1>6 DEF BeginTask, AppendData, InStore, Who
  <2> QED
    BY <1>1, <1>6, <2>1 DEF BeginTask, AppendData, ChipOk, ChipFails, Give,
       eraseVars
<1>7. CASE EraseReceive
  BY <1>7 DEF EraseReceive, storeVars, countVars
<1>8. CASE EraseInit
  <2>1. holder = "erase"
    BY <1>2, <1>8 DEF EraseInit, InStore, Who
  <2> QED
    BY <1>1, <1>8, <2>1 DEF EraseInit, ChipOk, ChipFails, Give
<1>9. CASE EraseTake \/ EraseSlot \/ EraseBlock
  BY <1>9 DEF EraseTake, EraseSlot, EraseBlock, HeldToNextBlock, storeVars,
     countVars
<1>10. CASE EraseEnd
  <2>1. holder = "erase"
    BY <1>2, <1>10 DEF EraseEnd, InStore, Who
  <2> QED
    BY <1>10, <2>1 DEF EraseEnd, countVars
<1>11. CASE EraseUnlock
  BY <1>11 DEF EraseUnlock, Give, storeVars, countVars
<1>12. CASE EraseUnset
  BY <1>12 DEF EraseUnset, storeVars, countVars
<1>13. CASE UNCHANGED vars
  BY <1>13 DEF vars, storeVars, eraseVars, countVars
<1> QED
  BY <1>3, <1>4, <1>5, <1>6, <1>7, <1>8, <1>9, <1>10, <1>11, <1>12, <1>13
     DEF Next, HaltedLoop

(* One initialisation of the chip that succeeds, at any time, and the device *)
(* is never stopped by the second give of app_storage.c:1671.                *)
THEOREM DeviceGoesOn == Spec => []HaltNeedsDeadChip
<1>1. FailInv => HaltNeedsDeadChip
  BY DEF FailInv, HaltNeedsDeadChip
<1>2. TypeOK /\ [Next]_vars => TypeOK'
  BY TypeProto, TypeStorage, TypeErase, TypeStutter DEF Next, HaltedLoop
<1>3. TypeOK /\ LockInv /\ FailInv /\ [Next]_vars => LockInv' /\ FailInv'
  BY LockNext, FailNext
<1> QED
  BY TypeInit, LockInit, FailInit, <1>1, <1>2, <1>3, PTL DEF Spec
=============================================================================
