---------------------------- MODULE EraseService ----------------------------
(***************************************************************************)
(* Erasing while the store is in use: CLEAR_TASK queues a request, the     *)
(* erase task carries it out block by block, and the storage task and the  *)
(* protocol task go on calling app_storage.c.  What keeps them apart is    *)
(* the flash mutex of app_store_lock / app_store_unlock.                   *)
(*                                                                         *)
(* Scheduling (FreeRTOS, one core): the protocol task (priority 4) is      *)
(* ahead of the storage and the erase task (both 2).  A task that has the  *)
(* mutex waits for the chip inside, so any other task can run then.  A     *)
(* mutex that is given back is free until somebody takes it: the waiting   *)
(* task of highest priority is made ready and no more, so a task of its    *)
(* own priority can take it first.                                         *)
(*                                                                         *)
(* Of the flash only the headers are kept, which are in the first block of *)
(* their slots; FlashStore has the rest.  The fault of a header commit is  *)
(* in FlashStore and Pipeline; here the chip can refuse to be initialised  *)
(* and an erase can fail.                                                  *)
(***************************************************************************)
EXTENDS Naturals, Sequences

CONSTANTS
  Task,        \* task ids
  None,        \* no task
  Blocks,      \* 64 KB blocks of a slot that are erased
  EraseDepth,  \* length of s_erase_queue
  MaxBegins,   \* bound: collections begun
  MaxClears,   \* bound: CLEAR_TASK commands
  MaxInitFails,   \* bound: initialisations that fail
  MaxEraseFails   \* bound: block erases that fail

ASSUME EraseServiceAssumption ==
  /\ None \notin Task
  /\ Blocks \in Nat \ {0} /\ EraseDepth \in Nat \ {0}
  /\ MaxBegins \in Nat /\ MaxClears \in Nat
  /\ MaxInitFails \in Nat /\ MaxEraseFails \in Nat

VARIABLES
  holder,    \* s_flash_mutex: the task that has it, or "nobody"
  halted,    \* a configASSERT of FreeRTOS has stopped the device
  inited,    \* s_flash_inited
  active,    \* s_active: the task whose slot is open, or None
  header,    \* flash: which collection each task's header is of, 0 for none
  requests,  \* s_erase_queue
  erasing,   \* TASK_EVENT_BIT_ERASING
  pPc, pReq, pTask,   \* protocol task: where it is, its CLEAR or read
  tPc, session,       \* storage task: where it is, the task it records
  ePc, eReq,          \* erase task: where it is, its request
  eSlot, eLeft, eBlock,  \* the task whose slot it erases, those after it,
                         \* blocks of the slot done
  begins, clears, initFails, eraseFails   \* history: what the bounds count

protoVars == <<pPc, pReq, pTask>>
storageVars == <<tPc, session>>
eraseVars == <<ePc, eReq, eSlot, eLeft, eBlock>>
storeVars == <<inited, active, header>>
countVars == <<begins, clears, initFails, eraseFails>>
vars == <<holder, halted, storeVars, requests, erasing, protoVars, storageVars,
          eraseVars, countVars>>
-----------------------------------------------------------------------------
(* A request; for one task, or for all (task = None).                        *)
Request == [task : Task \union {None}]

NoRequest == [task |-> None]

Who == {"proto", "storage", "erase"}

Covers(req, t) == req.task \in {t, None}

StoreType ==
  /\ holder \in Who \union {"nobody"} /\ halted \in BOOLEAN
  /\ inited \in BOOLEAN /\ active \in Task \union {None}
  /\ header \in [Task -> 0 .. MaxBegins]

RequestsType ==
  /\ requests \in Seq(Request) /\ Len(requests) <= EraseDepth
  /\ erasing \in BOOLEAN

ProtoType ==
  /\ pPc \in {"idle", "clearLock", "clear", "readLock", "read"}
  /\ pReq \in Request /\ pTask \in Task \union {None}

StorageType ==
  /\ tPc \in {"idle", "beginLock", "begin", "appendLock", "append"}
  /\ session \in Task \union {None}

EraseType ==
  /\ ePc \in {"idle", "lock", "init", "slot", "block", "unlock", "unset"}
  /\ eReq \in Request /\ eSlot \in Task \union {None} /\ eLeft \subseteq Task
  /\ eBlock \in 0 .. Blocks

CountType ==
  /\ begins \in 0 .. MaxBegins /\ clears \in 0 .. MaxClears
  /\ initFails \in 0 .. MaxInitFails /\ eraseFails \in 0 .. MaxEraseFails

(* Every variable has its type, and the erase queue keeps within its depth.  *)
TypeOK == /\ StoreType /\ RequestsType /\ ProtoType /\ StorageType
          /\ EraseType /\ CountType

(* APP_Storage_Init has run at boot (TASK_ResumeCollect), before the tasks   *)
(* were created, and may have failed.                                        *)
Init ==
  /\ holder = "nobody" /\ halted = FALSE
  /\ \/ inited = TRUE /\ initFails = 0
     \/ inited = FALSE /\ MaxInitFails > 0 /\ initFails = 1
  /\ active = None /\ header = [t \in Task |-> 0]
  /\ requests = <<>> /\ erasing = FALSE
  /\ pPc = "idle" /\ pReq = NoRequest /\ pTask = None
  /\ tPc = "idle" /\ session = None
  /\ ePc = "idle" /\ eReq = NoRequest /\ eSlot = None /\ eLeft = {}
  /\ eBlock = 0
  /\ begins = 0 /\ clears = 0 /\ eraseFails = 0
-----------------------------------------------------------------------------
(* The mutex and the chip.                                                   *)

(* app_store_lock.                                                           *)
Take(who) == holder = "nobody" /\ holder' = who

GiveUnchecked(who) == holder' = "nobody" /\ UNCHANGED halted

(* app_store_unlock.  Giving a free mutex fails and is ignored; giving       *)
(* another task's stops the device (tasks.c:6696).                           *)
Give(who) ==
  \/ holder \in {who, "nobody"} /\ holder' = "nobody" /\ UNCHANGED halted
  \/ holder \notin {who, "nobody"} /\ halted' = TRUE /\ UNCHANGED holder

(* app_store_flash_init_locked that succeeds, now or before, and that fails. *)
(* (The definitions that nothing uses are faulty variants of the one below   *)
(* them, which the properties are checked to tell apart.)                    *)
ChipOk == inited' = TRUE /\ UNCHANGED initFails

ChipFailsAgain ==
  /\ initFails < MaxInitFails
  /\ initFails' = initFails + 1
  /\ UNCHANGED inited

ChipFails ==
  /\ ~inited /\ initFails < MaxInitFails
  /\ initFails' = initFails + 1
  /\ UNCHANGED inited

(* The slot is opened if it is not open, which takes a header.               *)
Opened(t) == IF active # t /\ header[t] # 0 THEN t ELSE active

(* The storage and the erase task run while the protocol task waits.         *)
LowRunsAnyTime == ~halted

LowRuns ==
  ~halted /\ (pPc \in {"clearLock", "readLock"} => holder # "nobody")
-----------------------------------------------------------------------------
(* Protocol task.                                                            *)

(* CLEAR_TASK sets ERASING and calls APP_Storage_Init, which needs the mutex *)
(* before the request is queued.                                             *)
ClearTask ==
  /\ ~halted /\ pPc = "idle" /\ clears < MaxClears
  /\ clears' = clears + 1
  /\ \E req \in Request : pReq' = req
  /\ pPc' = "clearLock"
  /\ erasing' = TRUE
  /\ UNCHANGED <<holder, halted, storeVars, requests, pTask, storageVars,
                 eraseVars, begins, initFails, eraseFails>>

ProtoTake ==
  /\ ~halted /\ pPc \in {"clearLock", "readLock"} /\ Take("proto")
  /\ pPc' = IF pPc = "clearLock" THEN "clear" ELSE "read"
  /\ UNCHANGED <<halted, storeVars, requests, erasing, pReq, pTask,
                 storageVars, eraseVars, countVars>>

AcceptedAlways == Append(requests, pReq)

(* A request that finds the queue full is refused.                           *)
Accepted == IF Len(requests) < EraseDepth THEN Append(requests, pReq)
            ELSE requests

(* ERASING is cleared whatever became of the request, and the command is     *)
(* acknowledged.                                                             *)
ClearQueued ==
  /\ ~halted /\ pPc = "clear"
  /\ ChipOk \/ ChipFails
  /\ Give("proto")
  /\ requests' = Accepted
  /\ erasing' = FALSE
  /\ pPc' = "idle" /\ pReq' = NoRequest
  /\ UNCHANGED <<active, header, pTask, storageVars, eraseVars, begins, clears,
                 eraseFails>>

(* A command that reads the store, such as REQUEST_HISTORY.                  *)
ReadCommand ==
  /\ ~halted /\ pPc = "idle"
  /\ \E t \in Task : pTask' = t
  /\ pPc' = "readLock"
  /\ UNCHANGED <<holder, halted, storeVars, requests, erasing, pReq,
                 storageVars, eraseVars, countVars>>

ReadStore ==
  /\ ~halted /\ pPc = "read"
  /\ \/ ChipOk /\ active' = Opened(pTask)
     \/ ChipFails /\ UNCHANGED active
  /\ Give("proto")
  /\ pPc' = "idle" /\ pTask' = None
  /\ UNCHANGED <<header, requests, erasing, pReq, storageVars, eraseVars,
                 begins, clears, eraseFails>>
-----------------------------------------------------------------------------
(* Storage task.                                                             *)

(* A collection is to be recorded.                                           *)
StorageBegin ==
  /\ tPc = "idle" /\ begins < MaxBegins /\ LowRuns
  /\ \E t \in Task : session' = t
  /\ begins' = begins + 1
  /\ tPc' = "beginLock"
  /\ UNCHANGED <<holder, halted, storeVars, requests, erasing, protoVars,
                 eraseVars, clears, initFails, eraseFails>>

StorageAppend ==
  /\ tPc = "idle" /\ session # None /\ LowRuns
  /\ tPc' = "appendLock"
  /\ UNCHANGED <<holder, halted, storeVars, requests, erasing, protoVars,
                 session, eraseVars, countVars>>

StorageTake ==
  /\ tPc \in {"beginLock", "appendLock"} /\ LowRuns /\ Take("storage")
  /\ tPc' = IF tPc = "beginLock" THEN "begin" ELSE "append"
  /\ UNCHANGED <<halted, storeVars, requests, erasing, protoVars, session,
                 eraseVars, countVars>>

(* APP_Storage_BeginTaskEx2.                                                 *)
BeginTask ==
  /\ tPc = "begin" /\ LowRuns
  /\ \/ ChipOk /\ header' = [header EXCEPT ![session] = begins]
               /\ active' = session /\ UNCHANGED session
     \/ ChipFails /\ session' = None /\ UNCHANGED <<active, header>>
  /\ Give("storage")
  /\ tPc' = "idle"
  /\ UNCHANGED <<requests, erasing, protoVars, eraseVars, begins, clears,
                 eraseFails>>

(* APP_Storage_AppendData; without a header the record is lost.              *)
AppendData ==
  /\ tPc = "append" /\ LowRuns
  /\ \/ ChipOk /\ active' = Opened(session)
     \/ ChipFails /\ UNCHANGED active
  /\ Give("storage")
  /\ tPc' = "idle"
  /\ UNCHANGED <<header, requests, erasing, protoVars, session, eraseVars,
                 begins, clears, eraseFails>>
-----------------------------------------------------------------------------
(* Erase task.                                                               *)

EraseReceive ==
  /\ ePc = "idle" /\ requests # <<>> /\ LowRuns
  /\ eReq' = Head(requests) /\ requests' = Tail(requests)
  /\ erasing' = TRUE
  /\ ePc' = "lock"
  /\ UNCHANGED <<holder, halted, storeVars, protoVars, storageVars, eSlot,
                 eLeft, eBlock, countVars>>

EraseTake ==
  /\ ePc = "lock" /\ LowRuns /\ Take("erase")
  /\ ePc' = "init"
  /\ UNCHANGED <<halted, storeVars, requests, erasing, protoVars, storageVars,
                 eReq, eSlot, eLeft, eBlock, countVars>>

TargetsNotActive ==
  IF eReq.task = None THEN Task
  ELSE {t \in {eReq.task} \ {active} : header[t] # 0}

(* The tasks whose slots are erased.                                         *)
Targets == IF eReq.task = None THEN Task
           ELSE {t \in {eReq.task} : header[t] # 0}

(* With a chip that cannot be initialised the mutex is given back here, and  *)
(* once more at the end.                                                     *)
EraseInit ==
  /\ ePc = "init" /\ LowRuns
  /\ \/ /\ ChipOk /\ ePc' = "slot"
        /\ eLeft' = Targets
        /\ UNCHANGED <<holder, halted>>
     \/ /\ ChipFails /\ ePc' = "unlock"
        /\ Give("erase") /\ UNCHANGED eLeft
  /\ UNCHANGED <<active, header, requests, erasing, protoVars, storageVars,
                 eReq, eSlot, eBlock, begins, clears, eraseFails>>

(* The next slot; which tasks' slots come first is not modelled.             *)
EraseSlot ==
  /\ ePc = "slot" /\ eLeft # {} /\ LowRuns
  /\ \E t \in eLeft : eSlot' = t /\ eLeft' = eLeft \ {t}
  /\ eBlock' = 0 /\ ePc' = "block"
  /\ UNCHANGED <<holder, halted, storeVars, requests, erasing, protoVars,
                 storageVars, eReq, countVars>>

(* The header is in the first block.                                         *)
Erased(t, b) == IF b = 0 THEN [header EXCEPT ![t] = 0] ELSE header

FreeBetweenBlocks == holder' = "nobody" /\ ePc' = "lock"

HeldToNextBlock == UNCHANGED <<holder, ePc>>

(* A block erased, the last of the slot or not; a block that fails ends its  *)
(* slot.                                                                     *)
EraseBlock ==
  /\ ePc = "block" /\ LowRuns
  /\ \/ /\ header' = Erased(eSlot, eBlock)
        /\ eBlock' = (eBlock + 1) % Blocks
        /\ IF eBlock + 1 = Blocks
           THEN ePc' = "slot" /\ eSlot' = None /\ UNCHANGED holder
           ELSE HeldToNextBlock /\ UNCHANGED eSlot
        /\ UNCHANGED eraseFails
     \/ /\ eraseFails < MaxEraseFails /\ eraseFails' = eraseFails + 1
        /\ header' \in {header, Erased(eSlot, eBlock)}
        /\ ePc' = "slot" /\ eSlot' = None /\ eBlock' = 0
        /\ UNCHANGED holder
  /\ UNCHANGED <<halted, inited, active, requests, erasing, protoVars,
                 storageVars, eReq, eLeft, begins, clears, initFails>>

ActiveKept == active

(* s_active is forgotten with the task's slot, which has been found (see     *)
(* ActiveHasHeader), and by a format; also if a block has failed.            *)
ActiveAfterErase == IF eReq.task \in {active, None} THEN None ELSE active

EraseEnd ==
  /\ ePc = "slot" /\ eLeft = {} /\ LowRuns
  /\ active' = ActiveAfterErase
  /\ ePc' = "unlock"
  /\ UNCHANGED <<holder, halted, inited, header, requests, erasing, protoVars,
                 storageVars, eReq, eSlot, eLeft, eBlock, countVars>>

EraseUnlock ==
  /\ ePc = "unlock" /\ LowRuns
  /\ Give("erase")
  /\ ePc' = "unset"
  /\ UNCHANGED <<storeVars, requests, erasing, protoVars, storageVars, eReq,
                 eSlot, eLeft, eBlock, countVars>>

ErasingKept == erasing

ErasingAfterErase == FALSE

EraseUnset ==
  /\ ePc = "unset" /\ LowRuns
  /\ erasing' = ErasingAfterErase
  /\ ePc' = "idle" /\ eReq' = NoRequest
  /\ UNCHANGED <<holder, halted, storeVars, requests, protoVars, storageVars,
                 eSlot, eLeft, eBlock, countVars>>
-----------------------------------------------------------------------------
ProtoNext == ClearTask \/ ProtoTake \/ ClearQueued \/ ReadCommand \/ ReadStore

StorageNext == StorageBegin \/ StorageAppend \/ StorageTake \/ BeginTask
               \/ AppendData

EraseNext == \/ EraseReceive \/ EraseTake \/ EraseInit \/ EraseSlot
             \/ EraseBlock \/ EraseEnd \/ EraseUnlock \/ EraseUnset

(* configASSERT loops for ever.                                              *)
HaltedLoop == halted /\ UNCHANGED vars

Next == ProtoNext \/ StorageNext \/ EraseNext \/ HaltedLoop

Spec == Init /\ [][Next]_vars

(* The tasks run: the protocol task as soon as the mutex is free, the other  *)
(* two whenever they have nobody before them.  The storage task blocks in    *)
(* its receive, without the mutex, in every round; the erase task runs then  *)
(* and takes the mutex, hence SF.  No command is forced.                     *)
FairSpec ==
  /\ Spec
  /\ WF_vars(ProtoTake \/ ClearQueued \/ ReadStore)
  /\ SF_vars(StorageTake \/ BeginTask \/ AppendData)
  /\ SF_vars(EraseNext)
-----------------------------------------------------------------------------
(* Properties.                                                               *)

InStore ==
  {w \in Who : \/ w = "proto" /\ pPc \in {"clear", "read"}
               \/ w = "storage" /\ tPc \in {"begin", "append"}
               \/ w = "erase" /\ ePc \in {"init", "slot", "block"}}

(* Never are two tasks inside the store, although the erase task can give    *)
(* the mutex twice and more urgent tasks take it in between.                 *)
OneInStore == \A v, w \in InStore : v = w

(* Whoever finds the store free finds an open slot with its header: neither  *)
(* an erase of many blocks, be it broken off by a block that fails, nor a    *)
(* task begun or read in the middle of it is seen half done.                 *)
ActiveHasHeader ==
  (InStore = {} /\ active # None) => header[active] # 0

(* Giving the mutex twice stops the device (configASSERT, tasks.c:6696) only *)
(* if the chip has refused to be initialised three times on end: at boot,    *)
(* for the CLEAR_TASK and for the erase.                                     *)
HaltNeedsDeadChip == halted => initFails >= 3

(* A collection that is in flash when a request to erase it is queued is     *)
(* gone in the end, whoever uses the store meanwhile, unless the chip fails. *)
ClearedGone ==
  \A t \in Task, c \in 1 .. MaxBegins :
    (/\ header[t] = c
     /\ \E i \in 1 .. Len(requests) : Covers(requests[i], t))
      ~> (header[t] # c \/ eraseFails # 0 \/ initFails # 0)

(* ERASING does not stay set, however many erases come and fail.             *)
ErasingSettles == erasing ~> (~erasing \/ halted)

(* No command is kept waiting for the store for ever.                        *)
CommandsServed == (pPc # "idle") ~> (pPc = "idle" \/ halted)
=============================================================================
