------------------------------ MODULE Pipeline ------------------------------
(***************************************************************************)
(* The collection pipeline of the data collector: the collection plan and  *)
(* event bits of task_manager.c, the START / SELFTEST / STOP handlers of   *)
(* the protocol task, the sensor task that samples, the storage task that  *)
(* files the records in flash, and the reset that resumes a collection.    *)
(*                                                                         *)
(* Scheduling (FreeRTOS, one core, preemptive, no time slicing): the       *)
(* protocol task (priority 4) preempts the sensor task (3), which preempts *)
(* the storage task (2).  A step is what a task does between two points    *)
(* where a more urgent task may run and matter; a less urgent task runs    *)
(* only while the more urgent ones are blocked (see FlashMayRun).        *)
(*                                                                         *)
(* A local that is not read again is given its boot value.                 *)
(*                                                                         *)
(* Every call to app_storage.c holds the flash mutex to its end and is one *)
(* step here; a reset can come between any two steps.  A fault is an erase *)
(* or a program that fails (or is cut short by a reset: the commit fails,  *)
(* then Reset); reads do not fail.                                         *)
(***************************************************************************)
EXTENDS Naturals, Sequences

CONSTANTS
  Task,        \* task ids the host uses (u64, not 0; 1 is the id at boot)
  Totals,      \* sample counts a START can plan (0: no duration, or u32 wrap)
  Epochs,      \* can the header's epoch resume an empty collection?
  Commands,    \* the commands the host sends
  QueueDepth,  \* TASK_SENSOR_QUEUE_DEPTH
  FailLimit,   \* failed appends after which a record is given up
  MaxPlans,    \* bound: START and SELFTEST commands
  MaxResets,   \* bound: resets
  MaxFaults    \* bound: failed flash operations

ASSUME PipelineAssumption ==
  /\ Task \subseteq Nat \ {0} /\ 1 \in Task
  /\ Totals \subseteq Nat
  /\ Epochs \subseteq BOOLEAN
  /\ Commands \subseteq {"START", "SELFTEST", "STOP"}
  /\ QueueDepth \in Nat \ {0}
  /\ FailLimit \in Nat \ {0}
  /\ MaxPlans \in Nat /\ MaxResets \in Nat /\ MaxFaults \in Nat

VARIABLES
  plan,        \* s_collect, s_active_task_id, s_task_gen
  bits,        \* g_system_event_group
  queue,       \* g_sensor_data_queue
  sPc, sRec,   \* sensor task: where it is, the record it is building
  pPc, pId,    \* protocol task: idle or inside STOP, the id to stop
  tPc,         \* storage task: where it is
  need,        \* need_storage_session
  seenId,      \* active_task_id, the storage loop's copy of the active id
  first,       \* is the session being begun by the not-ready branch?
  ready,       \* s_storage_ready
  sessId,      \* s_storage_task_id (0: none yet)
  sessGen,     \* s_storage_task_gen
  meta,        \* what task_storage_begin_if_needed read of the plan
  preRead,     \* the storage loop's copy of TASK_IsPretest()
  hasPending,  \* s_has_pending_record
  pending,     \* s_pending_record
  failCount,   \* s_pending_fail_count
  header,      \* flash: the header of each task's slot, or NoHeader
  data,        \* flash: the formal records of each task
  preData,     \* flash: the pretest records of each task
  nextSeq,     \* s_task_seq_next
  samples,     \* history: samples taken so far, the number of the next record
  colls,       \* history: START and SELFTEST commands so far
  stopped,     \* history: collections whose STOP has been acknowledged
  resets,      \* history: resets so far
  faults       \* history: failed flash operations so far

sensorVars  == <<sPc, sRec>>
protoVars   == <<pPc, pId>>
sessionVars == <<ready, sessId, sessGen>>
pendingVars == <<hasPending, pending, failCount>>
storageVars == <<tPc, need, seenId, first, sessionVars, meta, preRead,
                 pendingVars>>
flashVars   == <<header, data, preData, nextSeq>>
histVars    == <<samples, colls, stopped, resets, faults>>
vars == <<plan, bits, queue, sensorVars, protoVars, storageVars, flashVars,
          histVars>>
-----------------------------------------------------------------------------
Bit == {"COLLECT_RUNNING", "STORAGE_READY", "QUEUE_DROPPED", "COLLECT_DONE",
        "FINALIZE_PENDING"}

(* A record as it is filed.  Only remaining_count is in the 20 bytes; num,   *)
(* coll and id are history: its place among all samples ever taken (the code *)
(* stores a timestamp), and the collection and task id of the plan that the  *)
(* sample was counted against (the code stores neither).                     *)
Record == [num : Nat, coll : Nat, id : Task, rem : Nat]

(* The collection plan.  goal, taken and overtook are history: the samples   *)
(* planned when the plan was made, the samples counted against it since, and *)
(* whether its START came while another task was still busy with the plan    *)
(* before (see Overtakes).                                                   *)
Plan == [id : Task, gen : Nat, rem : Nat, total : Nat, epoch : BOOLEAN,
         pre : BOOLEAN, resumed : BOOLEAN, coll : Nat, goal : Nat, taken : Nat,
         overtook : BOOLEAN]

NoHeader == [state |-> "none"]
Header == [state : {"RUNNING", "COMPLETED"}, seq : Nat, total : Nat,
           epoch : BOOLEAN, coll : Nat]
Meta == [id : Task, total : Nat, epoch : BOOLEAN, pre : BOOLEAN, coll : Nat]

BootPlan == [id |-> 1, gen |-> 0, rem |-> 0, total |-> 0, epoch |-> FALSE,
             pre |-> FALSE, resumed |-> FALSE, coll |-> 0, goal |-> 0,
             taken |-> 0, overtook |-> FALSE]
BootMeta == [id |-> 1, total |-> 0, epoch |-> FALSE, pre |-> FALSE, coll |-> 0]
BootRecord == [num |-> 0, coll |-> 0, id |-> 1, rem |-> 0]

HasHeader(t) == header[t] # NoHeader

PlanType ==
  /\ plan \in Plan
  /\ bits \in SUBSET Bit
  /\ queue \in Seq(Record) /\ Len(queue) <= QueueDepth

SensorType ==
  /\ sPc \in {"idle", "delay", "clear", "done", "fin", "request", "send"}
  /\ sRec \in Record

ProtoType == pPc \in {"idle", "setstate"} /\ pId \in Task

StorageType ==
  /\ tPc \in {"loop", "ident", "session", "begin", "kind", "commit", "bound",
              "recv", "append", "write", "final", "setstate", "clear"}
  /\ need \in BOOLEAN /\ seenId \in Task /\ first \in BOOLEAN
  /\ ready \in BOOLEAN /\ sessId \in Task \union {0} /\ sessGen \in Nat
  /\ meta \in Meta /\ preRead \in BOOLEAN

PendingType ==
  /\ hasPending \in BOOLEAN /\ pending \in Record
  /\ failCount \in Nat /\ failCount < FailLimit

FlashType ==
  /\ header \in [Task -> Header \union {NoHeader}]
  /\ data \in [Task -> Seq(Record)] /\ preData \in [Task -> Seq(Record)]
  /\ nextSeq \in Nat

HistType ==
  /\ samples \in Nat /\ colls \in Nat /\ stopped \in SUBSET Nat
  /\ resets \in Nat /\ faults \in Nat

(* Every variable has its type; in particular the u32 remaining_count does   *)
(* not wrap below zero and a failing record is given up at the limit.        *)
TypeOK ==
  /\ PlanType /\ SensorType /\ ProtoType
  /\ StorageType /\ PendingType
  /\ FlashType /\ HistType
-----------------------------------------------------------------------------
(* A blank device that has booted.                                           *)

Init ==
  /\ plan = BootPlan /\ bits = {} /\ queue = <<>>
  /\ sPc = "idle" /\ sRec = BootRecord
  /\ pPc = "idle" /\ pId = 1
  /\ tPc = "loop" /\ need = FALSE /\ seenId = 1 /\ first = FALSE
  /\ ready = FALSE /\ sessId = 0 /\ sessGen = 0
  /\ meta = BootMeta /\ preRead = FALSE
  /\ hasPending = FALSE /\ pending = BootRecord /\ failCount = 0
  /\ header = [t \in Task |-> NoHeader]
  /\ data = [t \in Task |-> <<>>] /\ preData = [t \in Task |-> <<>>]
  /\ nextSeq = 1
  /\ samples = 0 /\ colls = 0 /\ stopped = {} /\ resets = 0 /\ faults = 0
-----------------------------------------------------------------------------
(* Protocol task.  A handler runs to its next blocking point before any task *)
(* below it does, so START is one step and STOP is two: TASK_StopCollect,    *)
(* then APP_Storage_SetTaskState, which can wait for the flash mutex.        *)

(* The sensor task has made a plan's last decrement and is on its way to the *)
(* request to finalize it.                                                   *)
Ending == sPc \in {"clear", "done", "fin", "request"}

(* The storage task is about to bind a session of task t, with the           *)
(* generation that is read last, to a header that is or will be COMPLETED:   *)
(* it has found the plan to be a pretest, or the header is written already.  *)
BindsCompleted(t) ==
  /\ sessId = t
  /\ \/ tPc = "commit" /\ meta.pre
     \/ tPc = "bound" /\ header[t].state = "COMPLETED"

(* A START of t now makes a plan that the end or the session of the plan     *)
(* before is taken for.                                                      *)
Overtakes(t) == Ending \/ BindsCompleted(t)

(* The plan TASK_StartCollect writes: count samples to take; total is what   *)
(* its duration and period give, the number the header can restore.  (The    *)
(* definitions of this module that nothing uses are faulty variants of the   *)
(* one below them; the properties are checked to tell them apart.)           *)
NewPlanStaysResumed(t, count, total, epoch, pre) ==
  [id |-> t, gen |-> plan.gen + 1, rem |-> count, total |-> total,
   epoch |-> epoch, pre |-> pre, resumed |-> plan.resumed, coll |-> colls + 1,
   goal |-> count, taken |-> 0, overtook |-> Overtakes(t)]

NewPlan(t, count, total, epoch, pre) ==
  [id |-> t, gen |-> plan.gen + 1, rem |-> count, total |-> total,
   epoch |-> epoch, pre |-> pre, resumed |-> FALSE, coll |-> colls + 1,
   goal |-> count, taken |-> 0, overtook |-> Overtakes(t)]

(* The event bits after TASK_StartCollect or TASK_StartCollectResume.        *)
StartedBits(b, rem) ==
  LET kept == b \ {"COLLECT_DONE", "FINALIZE_PENDING", "COLLECT_RUNNING"}
  IN  IF rem # 0 THEN kept \union {"COLLECT_RUNNING"} ELSE kept

StartCollect(t, count, total, epoch, pre) ==
  /\ pPc = "idle"
  /\ colls < MaxPlans
  /\ plan' = NewPlan(t, count, total, epoch, pre)
  /\ bits' = StartedBits(bits, count)
  /\ colls' = colls + 1
  /\ UNCHANGED <<queue, sensorVars, protoVars, storageVars, flashVars,
                 samples, stopped, resets, faults>>

HandleStart ==
  /\ "START" \in Commands
  /\ \E t \in Task, total \in Totals, e \in Epochs :
       StartCollect(t, total, total, e, FALSE)

(* A pretest takes one sample; it has no duration and no absolute time base. *)
HandleSelftest ==
  /\ "SELFTEST" \in Commands
  /\ \E t \in Task : StartCollect(t, 1, 0, FALSE, TRUE)

(* STOP of another id than the active one is answered NOT_FOUND.             *)
HandleStop ==
  /\ "STOP" \in Commands
  /\ pPc = "idle"
  /\ pPc' = "setstate" /\ pId' = plan.id
  /\ bits' = (bits \ {"COLLECT_RUNNING"}) \union {"COLLECT_DONE"}
  /\ UNCHANGED <<plan, queue, sensorVars, storageVars, flashVars, histVars>>

(* A header commit erases the sector and programs it anew: it succeeds,      *)
(* fails before the erase, or fails after it and loses the header and with   *)
(* it the way to the slot's records.                                         *)
LoseHeader(t) ==
  /\ header' = [header EXCEPT ![t] = NoHeader]
  /\ data' = [data EXCEPT ![t] = <<>>]
  /\ preData' = [preData EXCEPT ![t] = <<>>]

CommitFails(t) ==
  /\ faults < MaxFaults
  /\ faults' = faults + 1
  /\ UNCHANGED <<header, data, preData>> \/ LoseHeader(t)

CommitCompleted(t) ==
  /\ HasHeader(t)
  /\ header' = [header EXCEPT ![t].state = "COMPLETED"]
  /\ UNCHANGED <<data, preData, faults>>

(* The result of the state write is ignored and the STOP acknowledged.       *)
StopPersist ==
  /\ pPc = "setstate"
  /\ \/ CommitCompleted(pId)
     \/ HasHeader(pId) /\ CommitFails(pId)
     \/ ~HasHeader(pId) /\ UNCHANGED <<header, data, preData, faults>>
  /\ pPc' = "idle" /\ pId' = 1
  /\ stopped' = stopped \union {plan.coll}
  /\ UNCHANGED <<plan, bits, queue, sensorVars, storageVars, nextSeq,
                 samples, colls, resets>>
-----------------------------------------------------------------------------
(* Sensor task.  "idle" is its 50 ms pause, and the end of a round, where it *)
(* may wait in proto_send for its live frame; "delay" is its period, with    *)
(* the waits of the ADC driver: there the storage task can run.  From the    *)
(* decrement in TASK_ConsumeOneSample to the next pause it does not block,   *)
(* but the protocol task can come in between any two of its calls.           *)

SensorCheck ==
  /\ sPc = "idle" /\ "COLLECT_RUNNING" \in bits
  /\ sPc' = "delay"
  /\ UNCHANGED <<plan, bits, queue, sRec, protoVars, storageVars, flashVars,
                 histVars>>

RemainingUnguarded == plan.rem - 1

RemainingAfterSample == IF plan.rem = 0 THEN 0 ELSE plan.rem - 1

(* The critical section of TASK_ConsumeOneSample: COLLECT_RUNNING has not    *)
(* been looked at since SensorCheck.                                         *)
SensorConsume ==
  /\ sPc = "delay"
  /\ LET left == RemainingAfterSample IN
       /\ plan' = [plan EXCEPT !.rem = left, !.taken = @ + 1]
       /\ sRec' = [num |-> samples, coll |-> plan.coll, id |-> plan.id,
                   rem |-> left]
       /\ sPc' = IF left = 0 THEN "clear" ELSE "send"
  /\ samples' = samples + 1
  /\ UNCHANGED <<bits, queue, protoVars, storageVars, flashVars, colls,
                 stopped, resets, faults>>

SensorClearMissing ==
  /\ sPc = "clear"
  /\ sPc' = "done"
  /\ UNCHANGED <<plan, bits, queue, sRec, protoVars, storageVars, flashVars,
                 histVars>>

SensorClear ==
  /\ sPc = "clear"
  /\ sPc' = "done"
  /\ bits' = bits \ {"COLLECT_RUNNING"}
  /\ UNCHANGED <<plan, queue, sRec, protoVars, storageVars, flashVars,
                 histVars>>

SensorDone ==
  /\ sPc = "done"
  /\ sPc' = "fin"
  /\ bits' = bits \union {"COLLECT_DONE"}
  /\ UNCHANGED <<plan, queue, sRec, protoVars, storageVars, flashVars,
                 histVars>>

(* The look at TASK_IsPretest and the request are two critical sections.     *)
SensorFinalize ==
  /\ sPc = "fin"
  /\ sPc' = IF plan.pre THEN "send" ELSE "request"
  /\ UNCHANGED <<plan, bits, queue, sRec, protoVars, storageVars, flashVars,
                 histVars>>

SensorRequest ==
  /\ sPc = "request"
  /\ sPc' = "send"
  /\ bits' = bits \union {"FINALIZE_PENDING"}
  /\ UNCHANGED <<plan, queue, sRec, protoVars, storageVars, flashVars,
                 histVars>>

SensorSend ==
  /\ sPc = "send"
  /\ sPc' = "idle"
  /\ \/ /\ Len(queue) < QueueDepth
        /\ queue' = Append(queue, sRec)
        /\ bits' = bits \ {"QUEUE_DROPPED"}
     \/ /\ Len(queue) = QueueDepth
        /\ bits' = bits \union {"QUEUE_DROPPED"}
        /\ UNCHANGED queue
  /\ sRec' = BootRecord
  /\ UNCHANGED <<plan, protoVars, storageVars, flashVars, histVars>>
-----------------------------------------------------------------------------
(* Storage task.  It runs while the sensor task is blocked, or while the     *)
(* protocol task waits for the flash mutex that it holds (the mutex lends it *)
(* that task's priority): then its flash call goes on to its end.            *)

SensorBlocked == sPc \in {"idle", "delay"}
FlashMayRun == SensorBlocked \/ pPc = "setstate"

NeedSessionWhileRunning == "COLLECT_RUNNING" \in bits

NeedSession == "COLLECT_RUNNING" \in bits \/ queue # <<>>

StorageLoop ==
  /\ tPc = "loop" /\ SensorBlocked
  /\ tPc' = "ident"
  /\ need' = NeedSession
  /\ UNCHANGED <<plan, bits, queue, sensorVars, protoVars, seenId, first,
                 sessionVars, meta, preRead, pendingVars, flashVars, histVars>>

(* The id and the generation are read in two critical sections; the second   *)
(* is part of StorageSession.                                                *)
StorageIdent ==
  /\ tPc = "ident" /\ SensorBlocked
  /\ tPc' = "session"
  /\ seenId' = plan.id
  /\ UNCHANGED <<plan, bits, queue, sensorVars, protoVars, need, first,
                 sessionVars, meta, preRead, pendingVars, flashVars, histVars>>

(* A session is dropped when the active task was started anew or another one *)
(* took its place; the records still queued are thrown away in the former    *)
(* case and drained into the old session first in the latter.                *)
DropSession ==
  /\ ready' = FALSE
  /\ sessId' = seenId
  /\ bits' = bits \ {"STORAGE_READY"}
  /\ first' = FALSE
  /\ tPc' = IF need THEN "begin" ELSE "recv"
  /\ sessGen' = 0

SameTaskRestarted == seenId = sessId /\ plan.gen # sessGen

StorageSession ==
  /\ tPc = "session" /\ SensorBlocked
  /\ \/ /\ ~ready /\ ~need
        /\ tPc' = "loop"
        /\ UNCHANGED <<bits, queue, need, first, sessionVars>>
     \/ /\ ~ready /\ need
        /\ tPc' = "begin"
        /\ sessId' = seenId
        /\ first' = TRUE
        /\ UNCHANGED <<bits, queue, ready, sessGen>>
     \/ /\ ready /\ SameTaskRestarted
        /\ queue' = <<>>
        /\ DropSession
     \/ /\ ready /\ seenId # sessId /\ queue = <<>>
        /\ UNCHANGED queue
        /\ DropSession
     \/ /\ ready /\ ~SameTaskRestarted /\ (seenId # sessId => queue # <<>>)
        /\ tPc' = "recv"
        /\ UNCHANGED <<bits, queue, first, sessionVars>>
  /\ need' = FALSE /\ seenId' = 1
  /\ UNCHANGED <<plan, sensorVars, protoVars, meta, preRead, pendingVars,
                 flashVars, histVars>>

(* After a failure the not-ready branch retries later; the other two go on.  *)
BeginFailed == tPc' = (IF first THEN "loop" ELSE "recv") /\ first' = FALSE

(* task_storage_begin_if_needed up to its flash call.  Flash cannot be       *)
(* initialised, or a resumed plan's slot is taken over as it is, or the      *)
(* parameters of a new plan are read into the header, each in a critical     *)
(* section of its own.  The first, the time base, is read in the step of the *)
(* look at TASK_IsResumed: a START between these two has the effect of one   *)
(* ahead of them, since it makes a plan that is not resumed.                 *)
StorageBegin ==
  /\ tPc = "begin" /\ SensorBlocked
  /\ \/ /\ faults < MaxFaults /\ faults' = faults + 1
        /\ BeginFailed /\ UNCHANGED meta
     \/ /\ plan.resumed
        /\ tPc' = "bound" /\ first' = FALSE /\ UNCHANGED <<faults, meta>>
     \/ /\ ~plan.resumed
        /\ tPc' = "kind"
        /\ meta' = [meta EXCEPT !.epoch = plan.epoch, !.total = plan.total,
                               !.coll = plan.coll]
        /\ UNCHANGED <<first, faults>>
  /\ UNCHANGED <<plan, bits, queue, sensorVars, protoVars, need, seenId,
                 sessionVars, preRead, pendingVars, flashVars, samples, colls,
                 stopped, resets>>

(* Then the period and the duration, which give the total, and last          *)
(* TASK_IsPretest, which gives the state (the phase, read before it, is not  *)
(* used).  After a START since StorageBegin the header is mixed of two       *)
(* plans: the total is the one or the other's, or any, of the period of one  *)
(* and the duration of the other.  In the history the header is of the plan  *)
(* that the state is read from.                                              *)
StorageRead ==
  /\ tPc = "kind" /\ SensorBlocked
  /\ tPc' = "commit"
  /\ \E total \in Totals \union {0, meta.total, plan.total} :
       /\ meta.coll = plan.coll => total = plan.total
       /\ meta' = [meta EXCEPT !.id = plan.id, !.total = total,
                              !.pre = plan.pre, !.coll = plan.coll]
  /\ UNCHANGED <<plan, bits, queue, sensorVars, protoVars, need, seenId, first,
                 sessionVars, preRead, pendingVars, flashVars, histVars>>

(* APP_Storage_BeginTaskEx2: a new header for the session's task, then both  *)
(* record areas erased.  A pretest is born COMPLETED, a collection RUNNING.  *)
StorageCommit ==
  /\ tPc = "commit" /\ FlashMayRun
  /\ nextSeq' = nextSeq + 1
  /\ \/ /\ header' = [header EXCEPT ![sessId] =
                        [state |-> IF meta.pre THEN "COMPLETED" ELSE "RUNNING",
                         seq |-> nextSeq, total |-> meta.total,
                         epoch |-> meta.epoch, coll |-> meta.coll]]
        /\ data' = [data EXCEPT ![sessId] = <<>>]
        /\ preData' = [preData EXCEPT ![sessId] = <<>>]
        /\ tPc' = "bound"
        /\ first' = FALSE
        /\ UNCHANGED faults
     \/ CommitFails(sessId) /\ BeginFailed
  /\ meta' = BootMeta
  /\ UNCHANGED <<plan, bits, queue, sensorVars, protoVars, need, seenId,
                 sessionVars, preRead, pendingVars, samples, colls,
                 stopped, resets>>

(* The generation is read after the flash call.                              *)
StorageBound ==
  /\ tPc = "bound" /\ SensorBlocked
  /\ tPc' = "recv"
  /\ ready' = TRUE
  /\ sessGen' = plan.gen
  /\ bits' = bits \union {"STORAGE_READY"}
  /\ UNCHANGED <<plan, queue, sensorVars, protoVars, need, seenId, first,
                 sessId, meta, preRead, pendingVars, flashVars, histVars>>

(* The receive drains the queue and keeps its last record only; it times out *)
(* on an empty queue.  Without a session the rest of the round does nothing. *)
StorageReceive ==
  /\ tPc = "recv" /\ SensorBlocked
  /\ tPc' = IF ~ready THEN "loop"
            ELSE IF hasPending \/ queue # <<>> THEN "append" ELSE "final"
  /\ \/ /\ queue # <<>>
        /\ pending' = queue[Len(queue)]
        /\ hasPending' = TRUE
        /\ failCount' = 0
        /\ queue' = <<>>
     \/ queue = <<>> /\ UNCHANGED <<queue, pendingVars>>
  /\ UNCHANGED <<plan, bits, sensorVars, protoVars, need, seenId, first,
                 sessionVars, meta, preRead, flashVars, histVars>>

StorageAppend ==
  /\ tPc = "append" /\ hasPending /\ ready /\ SensorBlocked
  /\ tPc' = "write"
  /\ preRead' = plan.pre
  /\ UNCHANGED <<plan, bits, queue, sensorVars, protoVars, need, seenId, first,
                 sessionVars, meta, pendingVars, flashVars, histVars>>

ForgetMissing == failCount' = 0 /\ UNCHANGED <<hasPending, pending>>

Forget == hasPending' = FALSE /\ pending' = BootRecord /\ failCount' = 0

(* APP_Storage_AppendData / AppendPreData.  Without a header the call fails, *)
(* unless the slot is still open from before the header was lost: then the   *)
(* record goes where nothing will find it.                                   *)
AppendOk ==
  /\ Forget
  /\ IF ~HasHeader(sessId) THEN UNCHANGED <<data, preData>>
     ELSE IF preRead
     THEN /\ preData' = [preData EXCEPT ![sessId] = Append(@, pending)]
          /\ UNCHANGED data
     ELSE /\ data' = [data EXCEPT ![sessId] = Append(@, pending)]
          /\ UNCHANGED preData

AppendFails ==
  /\ IF failCount + 1 >= FailLimit THEN Forget
     ELSE failCount' = failCount + 1 /\ UNCHANGED <<hasPending, pending>>
  /\ UNCHANGED <<data, preData>>

StorageWrite ==
  /\ tPc = "write" /\ FlashMayRun
  /\ tPc' = "final"
  /\ \/ AppendOk /\ UNCHANGED faults
     \/ AppendFails /\ ~HasHeader(sessId) /\ UNCHANGED faults
     \/ AppendFails /\ faults < MaxFaults /\ faults' = faults + 1
  /\ preRead' = FALSE
  /\ UNCHANGED <<plan, bits, queue, sensorVars, protoVars, need, seenId, first,
                 sessionVars, meta, header, nextSeq, samples,
                 colls, stopped, resets>>

FinalizeAlwaysDue == ready /\ queue = <<>>

FinalizeDue == ready /\ "FINALIZE_PENDING" \in bits /\ queue = <<>>

StorageFinal ==
  /\ tPc = "final" /\ SensorBlocked
  /\ tPc' = IF FinalizeDue THEN "setstate" ELSE "loop"
  /\ UNCHANGED <<plan, bits, queue, sensorVars, protoVars, need, seenId, first,
                 sessionVars, meta, preRead, pendingVars, flashVars, histVars>>

StorageSetState ==
  /\ tPc = "setstate" /\ FlashMayRun
  /\ \/ CommitCompleted(sessId) /\ tPc' = "clear"
     \/ HasHeader(sessId) /\ CommitFails(sessId) /\ tPc' = "loop"
     \/ ~HasHeader(sessId) /\ tPc' = "loop"
        /\ UNCHANGED <<header, data, preData, faults>>
  /\ UNCHANGED <<plan, bits, queue, sensorVars, protoVars, need, seenId, first,
                 sessionVars, meta, preRead, pendingVars, nextSeq, samples,
                 colls, stopped, resets>>

StorageClearMissing ==
  /\ tPc = "clear" /\ SensorBlocked
  /\ tPc' = "loop"
  /\ UNCHANGED <<plan, bits, queue, sensorVars, protoVars, need, seenId, first,
                 sessionVars, meta, preRead, pendingVars, flashVars, histVars>>

StorageClear ==
  /\ tPc = "clear" /\ SensorBlocked
  /\ tPc' = "loop"
  /\ bits' = bits \ {"FINALIZE_PENDING"}
  /\ UNCHANGED <<plan, queue, sensorVars, protoVars, need, seenId, first,
                 sessionVars, meta, preRead, pendingVars, flashVars, histVars>>
-----------------------------------------------------------------------------
(* A reset loses all RAM; main.c then runs TASK_ResumeCollect before any     *)
(* task exists.  s_task_seq_next is recomputed as one more than the largest  *)
(* number in flash, which orders later headers as the old value would.       *)

Running(t) == HasHeader(t) /\ header[t].state = "RUNNING"

(* APP_Storage_FindResumable: the newest RUNNING header.                     *)
Resumable(t) ==
  Running(t) /\ \A u \in Task : Running(u) => header[u].seq <= header[t].seq

RemainingFromHeader(t) == header[t].total

(* What the last stored record of t says is left.                            *)
RemainingStored(t) == data[t][Len(data[t])].rem

ResumePlan(t, rem) ==
  [id |-> t, gen |-> 1, rem |-> rem, total |-> header[t].total,
   epoch |-> TRUE, pre |-> FALSE, resumed |-> TRUE, coll |-> header[t].coll,
   goal |-> rem, taken |-> 0, overtook |-> FALSE]

StayIdle == plan' = BootPlan /\ bits' = {}

(* TASK_StartCollectResume, after the reason of the reset is written into    *)
(* the header: whatever comes of that, the collection goes on.               *)
ResumeWithoutRunning(t, rem) ==
  /\ plan' = ResumePlan(t, rem)
  /\ bits' = {}
  /\ CommitFails(t) \/ UNCHANGED <<header, data, preData, faults>>

ResumeWith(t, rem) ==
  /\ plan' = ResumePlan(t, rem)
  /\ bits' = StartedBits({}, rem)
  /\ CommitFails(t) \/ UNCHANGED <<header, data, preData, faults>>

(* TASK_ResumeCollect on the task t that FindResumable returned.             *)
ResumeCollect(t) ==
  \/ /\ data[t] # <<>> /\ RemainingStored(t) = 0
     /\ StayIdle
     /\ CommitCompleted(t) \/ CommitFails(t)
  \/ /\ data[t] # <<>> /\ RemainingStored(t) # 0
     /\ ResumeWith(t, RemainingStored(t))
  \/ /\ data[t] = <<>> /\ header[t].epoch
     /\ ResumeWith(t, header[t].total)
  \/ /\ data[t] = <<>> /\ ~header[t].epoch
     /\ StayIdle
     /\ UNCHANGED <<header, data, preData, faults>>

Reset ==
  /\ resets < MaxResets
  /\ resets' = resets + 1
  /\ queue' = <<>>
  /\ sPc' = "idle" /\ sRec' = BootRecord
  /\ pPc' = "idle" /\ pId' = 1
  /\ tPc' = "loop" /\ need' = FALSE /\ seenId' = 1 /\ first' = FALSE
  /\ ready' = FALSE /\ sessId' = 0 /\ sessGen' = 0
  /\ meta' = BootMeta /\ preRead' = FALSE
  /\ hasPending' = FALSE /\ pending' = BootRecord /\ failCount' = 0
  /\ \/ \E t \in Task : Resumable(t) /\ ResumeCollect(t)
     \/ (\A t \in Task : ~Running(t)) /\ StayIdle
        /\ UNCHANGED <<header, data, preData, faults>>
  /\ UNCHANGED <<nextSeq, samples, colls, stopped>>
-----------------------------------------------------------------------------
ProtoNext == HandleStart \/ HandleSelftest \/ HandleStop \/ StopPersist

SensorNext == \/ SensorCheck \/ SensorConsume \/ SensorClear \/ SensorDone
              \/ SensorFinalize \/ SensorRequest \/ SensorSend

StorageNext == \/ StorageLoop \/ StorageIdent \/ StorageSession \/ StorageBegin
               \/ StorageRead \/ StorageCommit \/ StorageBound
               \/ StorageReceive \/ StorageAppend \/ StorageWrite
               \/ StorageFinal \/ StorageSetState \/ StorageClear

Next == ProtoNext \/ SensorNext \/ StorageNext \/ Reset

Spec == Init /\ [][Next]_vars

(* The tasks run: the sensor task is woken by its delays and the storage     *)
(* task whenever the sensor task is blocked, which SF is about: the sensor   *)
(* task blocks again and again.  Nothing forces a command or a reset.        *)
Fairness ==
  /\ WF_vars(StopPersist)
  /\ WF_vars(SensorNext)
  /\ SF_vars(StorageNext)

FairSpec == Spec /\ Fairness
-----------------------------------------------------------------------------
(* Properties.                                                               *)

Before(s) == \A i, j \in 1 .. Len(s) : i < j => s[i].num < s[j].num
Apart(s, r) == \A i \in 1 .. Len(s), j \in 1 .. Len(r) : s[i].num # r[j].num

(* Whatever is started, stopped, reset or fails to be written, the records a *)
(* task's slot holds are in the order the samples were taken, and no sample  *)
(* is filed twice: not in one area, nor in two areas or tasks.  The storage  *)
(* loop has to keep this through its drain, its pending record and its       *)
(* retries.                                                                  *)
StoredOnce ==
  \A t \in Task :
    /\ Before(data[t]) /\ Before(preData[t])
    /\ \A u \in Task : /\ Apart(data[t], preData[u])
                       /\ t # u => /\ Apart(data[t], data[u])
                                   /\ Apart(preData[t], preData[u])

(* A plan is never charged for more samples than it has, whichever commands  *)
(* come in between the sensor task's look at COLLECT_RUNNING and its         *)
(* decrement; a plan of no samples can be charged for the one under way.     *)
SampleBudget ==
  plan.taken <= plan.goal \/ (plan.goal = 0 /\ plan.taken <= 1)

(* While no flash operation fails, a storage session is always bound to a    *)
(* task that has a header: AppendData has a slot to open.  For a resumed     *)
(* session this rests on the header found at boot.                           *)
SessionHasHeader == (faults = 0 /\ ready) => HasHeader(sessId)

(* A reset never resumes a collection whose STOP was acknowledged            *)
(* (proto_cmd_handler.c:304).                                                *)
StopIsFinal == plan.resumed => plan.coll \notin stopped

(* What a task stored is erased only to begin a plan made for that very      *)
(* task: in particular the records of a collection that is being resumed are *)
(* kept (task_storage.c:38, main.c:69).                                      *)
ErasedForOwnPlan ==
  [][\A t \in Task : (Len(data'[t]) < Len(data[t]) /\ faults' = faults)
                       => meta.id = t]_vars

(* The header of the active formal collection - the one begun for it, or the *)
(* one its session is bound to - says COMPLETED only when its samples are    *)
(* all taken or it was stopped (task_storage.c:186), or when its START came  *)
(* in the middle of the plan before: while the sensor task was on its way    *)
(* from the last decrement to the request to finalize, which then finalizes  *)
(* this plan, or while the storage task was beginning a pretest of the same  *)
(* task or binding to a COMPLETED header, which then is taken for this one's *)
(* (the generation is read last, task_storage.c:71).                         *)
Bound == ready /\ sessId = plan.id /\ sessGen = plan.gen

CompletedIsOver ==
  LET h == header[plan.id] IN
    (/\ HasHeader(plan.id) /\ h.state = "COMPLETED"
     /\ h.coll = plan.coll \/ Bound
     /\ ~plan.pre)
       => plan.rem = 0 \/ plan.coll \in stopped \/ plan.overtook

(* A task's slot holds only samples taken for that task.                     *)
FiledUnderOwnTask ==
  \A t \in Task : /\ \A i \in 1 .. Len(data[t]) : data[t][i].id = t
                  /\ \A i \in 1 .. Len(preData[t]) : preData[t][i].id = t

(* Through any number of resets the stored records of a collection count     *)
(* down: a sample that was stored is not taken again.  It is said of a slot  *)
(* that has records of its own collection only: the last record, from which  *)
(* a reset resumes, can be one that was queued for another collection.       *)
HasOwnOnly(t) ==
  HasHeader(t) /\ \A i \in 1 .. Len(data[t]) : data[t][i].coll = header[t].coll

RemainingDescends ==
  \A t \in Task : HasOwnOnly(t) =>
    \A i, j \in 1 .. Len(data[t]) : i < j => data[t][i].rem > data[t][j].rem

(* A collection that is RUNNING in flash and was not stopped does not stay   *)
(* so for ever: through resets and write failures it is carried on until it  *)
(* is COMPLETED, or its last sample is stored and only the state is left to  *)
(* be written, or there is neither a record nor a time to resume it from.    *)
RunningSettles ==
  \A t \in Task :
    Running(t) ~> \/ ~Running(t) \/ header[t].coll \in stopped
                  \/ data[t] # <<>> /\ RemainingStored(t) = 0
                  \/ data[t] = <<>> /\ ~header[t].epoch

(* A request to write COMPLETED is taken off the event group in the end,     *)
(* unless the storage task has no session then or the header is lost.        *)
FinalizeServed ==
  ("FINALIZE_PENDING" \in bits)
    ~> ("FINALIZE_PENDING" \notin bits \/ ~ready \/ ~HasHeader(sessId))

(* Records do not stay in the queue for ever.                                *)
QueueDrained == (queue # <<>>) ~> (queue = <<>>)
=============================================================================
