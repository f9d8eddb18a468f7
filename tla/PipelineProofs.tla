--------------------------- MODULE PipelineProofs ---------------------------
(***************************************************************************)
(* Proofs about the collection pipeline: its types, that records are filed *)
(* once and in the order they were taken, that no plan is overcharged,     *)
(* that a session has a header, that COMPLETED means over, and that the    *)
(* stored records of a collection count down.                              *)
(***************************************************************************)
EXTENDS Pipeline, TLAPS

(* What leaves a task's variables alone keeps their types.                   *)
LEMMA FrameType ==
  /\ SensorType /\ UNCHANGED sensorVars => SensorType'
  /\ ProtoType /\ UNCHANGED protoVars => ProtoType'
  /\ PendingType /\ UNCHANGED pendingVars => PendingType'
  /\ FlashType /\ UNCHANGED flashVars => FlashType'
  /\ HistType /\ UNCHANGED histVars => HistType'
<1>1. SensorType /\ UNCHANGED sensorVars => SensorType'
  BY DEF SensorType, sensorVars
<1>2. ProtoType /\ UNCHANGED protoVars => ProtoType'
  BY DEF ProtoType, protoVars
<1>3. PendingType /\ UNCHANGED pendingVars => PendingType'
  BY DEF PendingType, pendingVars
<1>4. FlashType /\ UNCHANGED flashVars => FlashType'
  BY DEF FlashType, flashVars
<1>5. HistType /\ UNCHANGED histVars => HistType'
  BY DEF HistType, histVars
<1>6. QED
  BY <1>1, <1>2, <1>3, <1>4, <1>5

LEMMA FrameStorageType ==
  StorageType /\ PendingType /\ UNCHANGED storageVars
    => StorageType' /\ PendingType'
<1>1. UNCHANGED storageVars => /\ UNCHANGED pendingVars
                               /\ UNCHANGED <<tPc, need, seenId, first, meta,
                                              preRead, ready, sessId, sessGen>>
  BY DEF storageVars, sessionVars
<1>2. StorageType /\ UNCHANGED storageVars => StorageType'
  BY <1>1 DEF StorageType
<1>3. QED
  BY <1>1, <1>2, FrameType

(* The plans and event bits that START and a reset make have their types.    *)
LEMMA StartCollectType ==
  ASSUME TypeOK, NEW t \in Task, NEW count \in Nat, NEW total \in Nat,
         NEW e \in BOOLEAN, NEW p \in BOOLEAN,
         StartCollect(t, count, total, e, p)
  PROVE  TypeOK'
<1>0. Overtakes(t) \in BOOLEAN
  BY DEF Overtakes, Ending, BindsCompleted
<1>1. plan' \in Plan
  BY <1>0 DEF TypeOK, PlanType, HistType, StartCollect, NewPlan, Plan
<1>2. bits' \in SUBSET Bit
  BY DEF TypeOK, PlanType, StartCollect, StartedBits, Bit
<1>3. PlanType'
  BY <1>1, <1>2 DEF TypeOK, PlanType, StartCollect
<1>4. HistType'
  BY DEF TypeOK, HistType, StartCollect
<1>5. QED
  BY <1>3, <1>4, FrameType, FrameStorageType DEF TypeOK, StartCollect

LEMMA Erased ==
  ASSUME NEW f \in [Task -> Seq(Record)], NEW t,
         NEW g, g = [f EXCEPT ![t] = <<>>]
  PROVE  g \in [Task -> Seq(Record)]
<1>1. <<>> \in Seq(Record)
  OBVIOUS
<1>2. QED
  BY <1>1

LEMMA BootTypes ==
  BootPlan \in Plan /\ BootMeta \in Meta /\ BootRecord \in Record
  BY PipelineAssumption
     DEF BootPlan, Plan, BootMeta, Meta, BootRecord, Record

LEMMA TypeInit == Init => TypeOK
<1> SUFFICES ASSUME Init PROVE TypeOK
  OBVIOUS
<1> USE PipelineAssumption
<1>1. PlanType
  BY BootTypes DEF Init, PlanType
<1>2. SensorType /\ ProtoType
  BY BootTypes DEF Init, SensorType, ProtoType
<1>3. StorageType
  BY BootTypes DEF Init, StorageType
<1>4. PendingType
  <2>1. failCount \in Nat /\ failCount < FailLimit
    BY DEF Init
  <2>2. QED
    BY <2>1, BootTypes DEF Init, PendingType
<1>5. FlashType
  BY DEF Init, FlashType
<1>6. HistType
  BY DEF Init, HistType
<1>7. QED
  BY <1>1, <1>2, <1>3, <1>4, <1>5, <1>6 DEF TypeOK

(* A header commit, whatever its outcome, leaves flash of its type.          *)
LEMMA CommitType ==
  ASSUME FlashType, HistType, NEW t, CommitFails(t) \/ CommitCompleted(t)
  PROVE  /\ header' \in [Task -> Header \union {NoHeader}]
         /\ data' \in [Task -> Seq(Record)]
         /\ preData' \in [Task -> Seq(Record)]
         /\ faults' \in Nat
<1>1. CASE CommitCompleted(t)
  <2>1. ASSUME NEW u \in Task
        PROVE  header'[u] \in Header \union {NoHeader}
    <3>1. CASE u = t
      <4>1. header[t] \in Header
        BY <1>1, <3>1 DEF CommitCompleted, HasHeader, FlashType
      <4>2. header'[u] = [header[t] EXCEPT !.state = "COMPLETED"]
        BY <1>1, <3>1 DEF CommitCompleted, FlashType
      <4>3. QED
        BY <4>1, <4>2 DEF Header
    <3>2. CASE u # t
      BY <1>1, <3>2 DEF CommitCompleted, FlashType
    <3>3. QED
      BY <3>1, <3>2
  <2>2. header' = [u \in Task |-> header'[u]]
    BY <1>1 DEF CommitCompleted, FlashType
  <2>3. QED
    BY <1>1, <2>1, <2>2 DEF CommitCompleted, FlashType, HistType
<1>2. CASE CommitFails(t)
  <2>1. CASE UNCHANGED <<header, data, preData>>
    BY <1>2, <2>1 DEF CommitFails, FlashType, HistType
  <2>2. CASE LoseHeader(t)
    <3>1. header' \in [Task -> Header \union {NoHeader}]
      BY <2>2 DEF LoseHeader, FlashType
    <3>2. data' \in [Task -> Seq(Record)]
      BY <2>2, Erased DEF LoseHeader, FlashType
    <3>3. preData' \in [Task -> Seq(Record)]
      BY <2>2, Erased DEF LoseHeader, FlashType
    <3>4. QED
      BY <1>2, <3>1, <3>2, <3>3 DEF CommitFails, HistType
  <2>3. QED
    BY <1>2, <2>1, <2>2 DEF CommitFails
<1>3. QED
  BY <1>1, <1>2

LEMMA TypeProto == TypeOK /\ ProtoNext => TypeOK'
<1> SUFFICES ASSUME TypeOK, ProtoNext PROVE TypeOK'
  OBVIOUS
<1>1. CASE HandleStart
  BY <1>1, StartCollectType, PipelineAssumption DEF HandleStart
<1>2. CASE HandleSelftest
  BY <1>2, StartCollectType DEF HandleSelftest
<1>3. CASE HandleStop
  <2>1. PlanType'
    BY <1>3 DEF HandleStop, TypeOK, PlanType, Bit
  <2>2. ProtoType'
    BY <1>3 DEF HandleStop, TypeOK, PlanType, Plan, ProtoType
  <2>3. QED
    BY <1>3, <2>1, <2>2, FrameType, FrameStorageType DEF HandleStop, TypeOK
<1>4. CASE StopPersist
  <2>1. /\ header' \in [Task -> Header \union {NoHeader}]
        /\ data' \in [Task -> Seq(Record)]
        /\ preData' \in [Task -> Seq(Record)]
        /\ faults' \in Nat
    BY <1>4, CommitType DEF StopPersist, TypeOK, FlashType, HistType
  <2>2. stopped' \in SUBSET Nat
    BY <1>4 DEF StopPersist, TypeOK, PlanType, Plan, HistType
  <2>3. PlanType' /\ ProtoType'
    BY <1>4, PipelineAssumption
       DEF StopPersist, TypeOK, PlanType, ProtoType
  <2>4. FlashType' /\ HistType'
    BY <1>4, <2>1, <2>2 DEF StopPersist, TypeOK, FlashType, HistType
  <2>5. QED
    BY <1>4, <2>3, <2>4, FrameType, FrameStorageType DEF StopPersist, TypeOK
<1>5. QED
  BY <1>1, <1>2, <1>3, <1>4 DEF ProtoNext

LEMMA TypeSensor == TypeOK /\ SensorNext => TypeOK'
<1> SUFFICES ASSUME TypeOK, SensorNext PROVE TypeOK'
  OBVIOUS
<1>1. CASE SensorCheck
  <2>1. PlanType' /\ SensorType'
    BY <1>1 DEF SensorCheck, TypeOK, PlanType, SensorType
  <2>2. QED
    BY <1>1, <2>1, FrameType, FrameStorageType DEF SensorCheck, TypeOK
<1>2. CASE SensorConsume
  <2> DEFINE left == RemainingAfterSample
  <2>1. left \in Nat
    BY DEF RemainingAfterSample, TypeOK, PlanType, Plan
  <2> HIDE DEF left
  <2>2. /\ plan' = [plan EXCEPT !.rem = left, !.taken = @ + 1]
        /\ sRec' = [num |-> samples, coll |-> plan.coll, id |-> plan.id,
                    rem |-> left]
        /\ sPc' \in {"clear", "send"}
        /\ samples' = samples + 1
        /\ UNCHANGED <<bits, queue, protoVars, storageVars, flashVars, colls,
                       stopped, resets, faults>>
    BY <1>2 DEF SensorConsume, left
  <2>3. plan' \in Plan
    <3>1. plan \in Plan
      BY DEF TypeOK, PlanType
    <3> DEFINE mid == [plan EXCEPT !.rem = left]
    <3>2. mid \in Plan
      BY <2>1, <3>1 DEF Plan
    <3>3. plan' = [mid EXCEPT !.taken = @ + 1]
      BY <2>2, <3>1 DEF Plan
    <3> HIDE DEF mid
    <3>4. QED
      BY <3>2, <3>3 DEF Plan
  <2>4. sRec' \in Record
    BY <2>1, <2>2 DEF TypeOK, PlanType, HistType, Plan, Record
  <2>5. PlanType' /\ SensorType' /\ HistType'
    BY <2>2, <2>3, <2>4 DEF TypeOK, PlanType, SensorType, HistType
  <2>6. QED
    BY <2>2, <2>5, FrameType, FrameStorageType DEF TypeOK
<1>3. CASE SensorClear \/ SensorDone \/ SensorFinalize \/ SensorRequest
  <2>1. bits' \in SUBSET Bit
    BY <1>3 DEF SensorClear, SensorDone, SensorFinalize, SensorRequest,
                TypeOK, PlanType, Bit
  <2>2. PlanType' /\ SensorType'
    BY <1>3, <2>1 DEF SensorClear, SensorDone, SensorFinalize, SensorRequest,
       TypeOK, PlanType, SensorType
  <2>3. QED
    BY <1>3, <2>2, FrameType, FrameStorageType
       DEF SensorClear, SensorDone, SensorFinalize, SensorRequest, TypeOK
<1>4. CASE SensorSend
  <2>1. queue' \in Seq(Record) /\ Len(queue') <= QueueDepth
    <3>1. CASE Len(queue) < QueueDepth /\ queue' = Append(queue, sRec)
      BY <3>1, PipelineAssumption DEF TypeOK, PlanType, SensorType
    <3>2. CASE UNCHANGED queue
      BY <3>2 DEF TypeOK, PlanType
    <3>3. QED
      BY <1>4, <3>1, <3>2 DEF SensorSend
  <2>2. sRec' \in Record
    BY <1>4, PipelineAssumption DEF SensorSend, BootRecord, Record
  <2>3. bits' \in SUBSET Bit
    BY <1>4 DEF SensorSend, TypeOK, PlanType, Bit
  <2>4. PlanType' /\ SensorType'
    BY <1>4, <2>1, <2>2, <2>3 DEF SensorSend, TypeOK, PlanType, SensorType
  <2>5. QED
    BY <1>4, <2>4, FrameType, FrameStorageType DEF SensorSend, TypeOK
<1>5. QED
  BY <1>1, <1>2, <1>3, <1>4 DEF SensorNext

LEMMA TypeStorage == TypeOK /\ StorageNext => TypeOK'
<1> SUFFICES ASSUME TypeOK, StorageNext PROVE TypeOK'
  OBVIOUS
<1> USE PipelineAssumption
<1>1. CASE StorageLoop \/ StorageIdent
  <2>1. PlanType' /\ StorageType'
    BY <1>1 DEF StorageLoop, StorageIdent, NeedSession, TypeOK, PlanType,
                Plan, StorageType, sessionVars
  <2>2. QED
    BY <1>1, <2>1, FrameType DEF StorageLoop, StorageIdent, TypeOK
<1>2. CASE StorageSession
  <2>1. bits' \in SUBSET Bit
    BY <1>2 DEF StorageSession, DropSession, TypeOK, PlanType, Bit
  <2>2. queue' \in Seq(Record) /\ Len(queue') <= QueueDepth
    <3>1. queue' = <<>> \/ queue' = queue
      BY <1>2 DEF StorageSession
    <3>2. <<>> \in Seq(Record) /\ Len(<<>>) <= QueueDepth
      OBVIOUS
    <3>3. QED
      BY <3>1, <3>2 DEF TypeOK, PlanType
  <2>3. PlanType'
    BY <1>2, <2>1, <2>2 DEF StorageSession, TypeOK, PlanType
  <2>4. StorageType'
    <3>1. /\ tPc' \in {"loop", "begin", "recv"} /\ need' = FALSE
          /\ seenId' = 1 /\ first' \in BOOLEAN
      BY <1>2 DEF StorageSession, DropSession, TypeOK, StorageType
    <3>2. ready' \in BOOLEAN /\ sessId' \in Task \union {0}
      BY <1>2 DEF StorageSession, DropSession, TypeOK, StorageType, sessionVars
    <3>3. sessGen' \in Nat
      BY <1>2 DEF StorageSession, DropSession, TypeOK, StorageType, sessionVars
    <3>4. UNCHANGED <<meta, preRead>>
      BY <1>2 DEF StorageSession
    <3>5. QED
      BY <3>1, <3>2, <3>3, <3>4 DEF TypeOK, StorageType
  <2>5. QED
    BY <1>2, <2>3, <2>4, FrameType DEF StorageSession, TypeOK
<1>3. CASE StorageBegin \/ StorageRead
  <2>1. meta' \in Meta
    <3>1. plan \in Plan /\ meta \in Meta
      BY DEF TypeOK, PlanType, StorageType
    <3>2. CASE StorageBegin
      BY <3>1, <3>2 DEF StorageBegin, Plan, Meta
    <3>3. CASE StorageRead
      <4>1. PICK total \in Totals \union {0, meta.total, plan.total} :
              meta' = [meta EXCEPT !.id = plan.id, !.total = total,
                                   !.pre = plan.pre, !.coll = plan.coll]
        BY <3>3 DEF StorageRead
      <4>2. total \in Nat
        BY <3>1 DEF Plan, Meta
      <4>3. QED
        BY <3>1, <4>1, <4>2 DEF Plan, Meta
    <3>4. QED
      BY <1>3, <3>2, <3>3
  <2>2. StorageType'
    <3>1. tPc' \in {"loop", "recv", "bound", "kind", "commit"}
      BY <1>3 DEF StorageBegin, StorageRead, BeginFailed
    <3>2. first' \in BOOLEAN
      BY <1>3 DEF StorageBegin, StorageRead, BeginFailed, TypeOK, StorageType
    <3>3. UNCHANGED <<need, seenId, ready, sessId, sessGen, preRead>>
      BY <1>3 DEF StorageBegin, StorageRead, sessionVars
    <3>4. QED
      BY <2>1, <3>1, <3>2, <3>3 DEF TypeOK, StorageType
  <2>3. UNCHANGED <<plan, bits, queue, sensorVars, protoVars, pendingVars,
                    flashVars, samples, colls, stopped, resets>>
    BY <1>3 DEF StorageBegin, StorageRead, histVars
  <2>4. faults' \in Nat
    <3>1. faults \in Nat
      BY DEF TypeOK, HistType
    <3>2. faults' = faults + 1 \/ faults' = faults
      <4>1. CASE StorageBegin
        BY <4>1 DEF StorageBegin
      <4>2. CASE StorageRead
        BY <4>2 DEF StorageRead, histVars
      <4>3. QED
        BY <1>3, <4>1, <4>2
    <3>3. QED
      BY <3>1, <3>2
  <2>5. PlanType' /\ HistType'
    BY <2>3, <2>4 DEF TypeOK, PlanType, HistType
  <2>6. QED
    BY <2>2, <2>3, <2>5, FrameType DEF TypeOK
<1>4. CASE StorageCommit
  <2>1. /\ header' \in [Task -> Header \union {NoHeader}]
        /\ data' \in [Task -> Seq(Record)]
        /\ preData' \in [Task -> Seq(Record)]
        /\ faults' \in Nat
    <3>1. CASE CommitFails(sessId)
      BY <3>1, CommitType DEF TypeOK
    <3>2. CASE ~CommitFails(sessId)
      <4> DEFINE h == [state |-> IF meta.pre THEN "COMPLETED" ELSE "RUNNING",
                       seq |-> nextSeq, total |-> meta.total,
                       epoch |-> meta.epoch, coll |-> meta.coll]
      <4>1. h \in Header
        BY DEF TypeOK, StorageType, FlashType, Header, Meta
      <4>2. /\ header' = [header EXCEPT ![sessId] = h]
            /\ data' = [data EXCEPT ![sessId] = <<>>]
            /\ preData' = [preData EXCEPT ![sessId] = <<>>]
            /\ UNCHANGED faults
        BY <1>4, <3>2 DEF StorageCommit
      <4> HIDE DEF h
      <4>3. header' \in [Task -> Header \union {NoHeader}]
        BY <4>1, <4>2 DEF TypeOK, FlashType
      <4>4. data' \in [Task -> Seq(Record)]
        BY <4>2, Erased DEF TypeOK, FlashType
      <4>5. preData' \in [Task -> Seq(Record)]
        BY <4>2, Erased DEF TypeOK, FlashType
      <4>6. QED
        BY <4>2, <4>3, <4>4, <4>5 DEF TypeOK, HistType
    <3>3. QED
      BY <3>1, <3>2
  <2>2. StorageType'
    BY <1>4, BootTypes DEF StorageCommit, BeginFailed, TypeOK, StorageType,
                           sessionVars
  <2>3. FlashType' /\ HistType' /\ PlanType'
    BY <1>4, <2>1 DEF StorageCommit, TypeOK, FlashType, HistType, PlanType
  <2>4. QED
    BY <1>4, <2>2, <2>3, FrameType DEF StorageCommit, TypeOK
<1>5. CASE StorageBound
  <2>1. PlanType' /\ StorageType'
    BY <1>5 DEF StorageBound, TypeOK, PlanType, Plan, Bit, StorageType
  <2>2. QED
    BY <1>5, <2>1, FrameType DEF StorageBound, TypeOK
<1>6. CASE StorageReceive
  <2>1. PlanType' /\ PendingType'
    <3>1. CASE queue = <<>>
      BY <1>6, <3>1, FrameType DEF StorageReceive, TypeOK, PlanType
    <3>2. CASE queue # <<>>
      <4>1. queue[Len(queue)] \in Record
        BY <3>2 DEF TypeOK, PlanType
      <4>2. /\ pending' = queue[Len(queue)] /\ hasPending' = TRUE
            /\ failCount' = 0 /\ queue' = <<>> /\ UNCHANGED <<plan, bits>>
        BY <1>6, <3>2 DEF StorageReceive
      <4>3. failCount' \in Nat /\ failCount' < FailLimit
        BY <4>2
      <4>4. queue' \in Seq(Record) /\ Len(queue') <= QueueDepth
        BY <4>2
      <4>5. QED
        BY <4>1, <4>2, <4>3, <4>4 DEF TypeOK, PlanType, PendingType
    <3>3. QED
      BY <3>1, <3>2
  <2>2. StorageType'
    BY <1>6 DEF StorageReceive, TypeOK, StorageType, sessionVars
  <2>3. QED
    BY <1>6, <2>1, <2>2, FrameType DEF StorageReceive, TypeOK
<1>7. CASE StorageAppend
  <2>1. PlanType' /\ StorageType'
    BY <1>7 DEF StorageAppend, TypeOK, PlanType, Plan, StorageType,
                sessionVars
  <2>2. QED
    BY <1>7, <2>1, FrameType DEF StorageAppend, TypeOK
<1>8. CASE StorageWrite
  <2>1. data' \in [Task -> Seq(Record)] /\ preData' \in [Task -> Seq(Record)]
    <3>1. ASSUME NEW f \in [Task -> Seq(Record)],
                 NEW g, g = [f EXCEPT ![sessId] = Append(@, pending)]
          PROVE  g \in [Task -> Seq(Record)]
      <4>1. ASSUME NEW t \in Task PROVE Append(f[t], pending) \in Seq(Record)
        BY DEF TypeOK, PendingType
      <4>2. QED
        BY <3>1, <4>1
    <3>2. /\ \/ data' = [data EXCEPT ![sessId] = Append(@, pending)]
             \/ UNCHANGED data
          /\ \/ preData' = [preData EXCEPT ![sessId] = Append(@, pending)]
             \/ UNCHANGED preData
      BY <1>8 DEF StorageWrite, AppendOk, AppendFails
    <3>3. QED
      BY <3>1, <3>2 DEF TypeOK, FlashType
  <2>2. PendingType'
    <3>1. \/ Forget
          \/ /\ failCount' = failCount + 1 /\ failCount + 1 < FailLimit
             /\ UNCHANGED <<hasPending, pending>>
      BY <1>8 DEF StorageWrite, AppendOk, AppendFails, TypeOK, PendingType
    <3>2. CASE Forget
      <4>1. failCount' \in Nat /\ failCount' < FailLimit
        BY <3>2 DEF Forget
      <4>2. QED
        BY <3>2, <4>1, BootTypes DEF Forget, PendingType
    <3>3. CASE ~Forget
      BY <3>1, <3>3 DEF TypeOK, PendingType
    <3>4. QED
      BY <3>2, <3>3
  <2>3. StorageType' /\ PlanType'
    BY <1>8 DEF StorageWrite, TypeOK, StorageType, PlanType, sessionVars
  <2>4. FlashType' /\ HistType'
    BY <1>8, <2>1 DEF StorageWrite, TypeOK, FlashType, HistType
  <2>5. QED
    BY <1>8, <2>2, <2>3, <2>4, FrameType DEF StorageWrite, TypeOK
<1>9. CASE StorageFinal \/ StorageClear
  <2>1. PlanType' /\ StorageType'
    BY <1>9 DEF StorageFinal, StorageClear, TypeOK, PlanType, Bit,
                StorageType, sessionVars
  <2>2. QED
    BY <1>9, <2>1, FrameType DEF StorageFinal, StorageClear, TypeOK
<1>10. CASE StorageSetState
  <2>1. /\ header' \in [Task -> Header \union {NoHeader}]
        /\ data' \in [Task -> Seq(Record)]
        /\ preData' \in [Task -> Seq(Record)]
        /\ faults' \in Nat
    BY <1>10, CommitType DEF StorageSetState, TypeOK, FlashType, HistType
  <2>2. StorageType' /\ PlanType'
    BY <1>10 DEF StorageSetState, TypeOK, StorageType, PlanType, sessionVars
  <2>3. FlashType' /\ HistType'
    BY <1>10, <2>1 DEF StorageSetState, TypeOK, FlashType, HistType
  <2>4. QED
    BY <1>10, <2>2, <2>3, FrameType DEF StorageSetState, TypeOK
<1>11. QED
  BY <1>1, <1>2, <1>3, <1>4, <1>5, <1>6, <1>7, <1>8, <1>9, <1>10
     DEF StorageNext

(* What TASK_ResumeCollect does with the task that FindResumable returned.   *)
LEMMA ResumeType ==
  ASSUME TypeOK, NEW t \in Task, Resumable(t), ResumeCollect(t)
  PROVE  /\ plan' \in Plan /\ bits' \in SUBSET Bit
         /\ header' \in [Task -> Header \union {NoHeader}]
         /\ data' \in [Task -> Seq(Record)]
         /\ preData' \in [Task -> Seq(Record)]
         /\ faults' \in Nat
<1>1. header[t] \in Header
  BY DEF Resumable, Running, HasHeader, TypeOK, FlashType
<1>2. ASSUME NEW rem \in Nat, ResumeWith(t, rem)
      PROVE  plan' \in Plan /\ bits' \in SUBSET Bit
  <2>1. plan' \in Plan
    BY <1>1, <1>2 DEF ResumeWith, ResumePlan, Plan, Header
  <2>2. bits' \in SUBSET Bit
    BY <1>2 DEF ResumeWith, StartedBits, Bit
  <2>3. QED
    BY <2>1, <2>2
<1>3. StayIdle => plan' \in Plan /\ bits' \in SUBSET Bit
  BY BootTypes DEF StayIdle
<1>4. data[t] # <<>> => RemainingStored(t) \in Nat
  <2>1. data[t] \in Seq(Record)
    BY DEF TypeOK, FlashType
  <2>2. data[t] # <<>> => data[t][Len(data[t])] \in Record
    BY <2>1
  <2>3. QED
    BY <2>2 DEF RemainingStored, Record
<1>5. plan' \in Plan /\ bits' \in SUBSET Bit
  BY <1>1, <1>2, <1>3, <1>4 DEF ResumeCollect, Header
<1>6. \/ CommitFails(t) \/ CommitCompleted(t)
      \/ UNCHANGED <<header, data, preData, faults>>
  BY DEF ResumeCollect, ResumeWith
<1>7. QED
  BY <1>5, <1>6, CommitType DEF TypeOK, FlashType, HistType

LEMMA TypeReset == TypeOK /\ Reset => TypeOK'
<1> SUFFICES ASSUME TypeOK, Reset PROVE TypeOK'
  OBVIOUS
<1>1. /\ plan' \in Plan /\ bits' \in SUBSET Bit
      /\ header' \in [Task -> Header \union {NoHeader}]
      /\ data' \in [Task -> Seq(Record)]
      /\ preData' \in [Task -> Seq(Record)]
      /\ faults' \in Nat
  <2>1. CASE \E t \in Task : Resumable(t) /\ ResumeCollect(t)
    BY <2>1, ResumeType
  <2>2. CASE StayIdle /\ UNCHANGED <<header, data, preData, faults>>
    BY <2>2, BootTypes DEF StayIdle, TypeOK, FlashType, HistType
  <2>3. QED
    BY <2>1, <2>2 DEF Reset
<1>2. PlanType'
  <2>1. <<>> \in Seq(Record) /\ Len(<<>>) <= QueueDepth
    BY PipelineAssumption
  <2>2. QED
    BY <1>1, <2>1 DEF Reset, PlanType
<1>3. SensorType' /\ ProtoType'
  BY BootTypes, PipelineAssumption DEF Reset, SensorType, ProtoType
<1>4. StorageType'
  BY BootTypes, PipelineAssumption DEF Reset, StorageType
<1>5. PendingType'
  <2>1. 0 \in Nat /\ 0 < FailLimit
    BY PipelineAssumption
  <2>2. QED
    BY <2>1, BootTypes DEF Reset, PendingType
<1>6. FlashType' /\ HistType'
  BY <1>1 DEF Reset, TypeOK, FlashType, HistType
<1>7. QED
  BY <1>2, <1>3, <1>4, <1>5, <1>6 DEF TypeOK

LEMMA TypeStutter == TypeOK /\ UNCHANGED vars => TypeOK'
  BY FrameType, FrameStorageType DEF TypeOK, PlanType, vars

LEMMA TypeNext == TypeOK /\ [Next]_vars => TypeOK'
  BY TypeProto, TypeSensor, TypeStorage, TypeReset, TypeStutter DEF Next

(* The type invariant: among others, remaining_count never wraps below zero, *)
(* the queue never exceeds its depth and a record that keeps failing is      *)
(* given up, for any number of tasks, plans, resets and faults.              *)
THEOREM TypeCorrect == Spec => []TypeOK
<1>1. Init => TypeOK
  BY TypeInit
<1>2. TypeOK /\ [Next]_vars => TypeOK'
  BY TypeNext
<1>3. QED
  BY <1>1, <1>2, PTL DEF Spec

(***************************************************************************)
(* No plan is overcharged.  The strengthening: of a plan with samples, what *)
(* is taken and what remains add up to what was planned; a plan without any *)
(* can only be charged for a sample whose period had begun before it.  The  *)
(* crux is that COLLECT_RUNNING is never set on an exhausted plan except    *)
(* while the sensor task is about to clear it.                              *)
(***************************************************************************)
BudgetInv ==
  /\ plan.goal # 0 => plan.taken + plan.rem = plan.goal
  /\ plan.goal = 0 => plan.rem = 0 /\ plan.taken <= 1
  /\ "COLLECT_RUNNING" \in bits /\ plan.rem = 0 => sPc = "clear"
  /\ sPc = "delay" /\ plan.rem = 0 => plan.goal = 0 /\ plan.taken = 0

LEMMA BudgetInit == Init => BudgetInv
  BY DEF Init, BootPlan, BudgetInv

LEMMA BudgetStart ==
  ASSUME TypeOK, BudgetInv, NEW t, NEW count \in Nat, NEW total, NEW e, NEW p,
         StartCollect(t, count, total, e, p)
  PROVE  BudgetInv'
<1>1. plan'.goal = count /\ plan'.rem = count /\ plan'.taken = 0
  BY DEF StartCollect, NewPlan
<1>2. "COLLECT_RUNNING" \in bits' <=> count # 0
  BY DEF StartCollect, StartedBits
<1>3. QED
  BY <1>1, <1>2 DEF BudgetInv

LEMMA BudgetResume ==
  ASSUME NEW t \in Task, NEW rem \in Nat, ResumeWith(t, rem), sPc' = "idle"
  PROVE  BudgetInv'
<1>1. plan'.goal = rem /\ plan'.rem = rem /\ plan'.taken = 0
  BY DEF ResumeWith, ResumePlan
<1>2. "COLLECT_RUNNING" \in bits' <=> rem # 0
  BY DEF ResumeWith, StartedBits
<1>3. QED
  BY <1>1, <1>2 DEF BudgetInv

(* Steps that leave the plan and the sensor task alone and set no            *)
(* COLLECT_RUNNING.                                                          *)
LEMMA BudgetFrame ==
  ASSUME BudgetInv, UNCHANGED <<plan, sPc>>,
         "COLLECT_RUNNING" \in bits' => "COLLECT_RUNNING" \in bits
  PROVE  BudgetInv'
BY DEF BudgetInv

LEMMA BudgetSensor == TypeOK /\ BudgetInv /\ SensorNext => BudgetInv'
<1> SUFFICES ASSUME TypeOK, BudgetInv, SensorNext PROVE BudgetInv'
  OBVIOUS
<1>0. plan.goal \in Nat /\ plan.taken \in Nat /\ plan.rem \in Nat
  BY DEF TypeOK, PlanType, Plan
<1>1. CASE SensorCheck
  BY <1>1 DEF SensorCheck, BudgetInv
<1>2. CASE SensorConsume
  <2>1. /\ plan'.rem = RemainingAfterSample /\ plan'.taken = plan.taken + 1
        /\ plan'.goal = plan.goal /\ UNCHANGED bits
        /\ sPc = "delay"
        /\ sPc' = IF RemainingAfterSample = 0 THEN "clear" ELSE "send"
    BY <1>2 DEF SensorConsume, TypeOK, PlanType, Plan
  <2>2. QED
    BY <1>0, <2>1 DEF RemainingAfterSample, BudgetInv
<1>3. CASE SensorClear
  BY <1>3 DEF SensorClear, BudgetInv
<1>4. CASE SensorDone \/ SensorFinalize \/ SensorRequest \/ SensorSend
  BY <1>4 DEF SensorDone, SensorFinalize, SensorRequest, SensorSend,
              BudgetInv
<1>5. QED
  BY <1>1, <1>2, <1>3, <1>4 DEF SensorNext

LEMMA BudgetNext == TypeOK /\ BudgetInv /\ [Next]_vars => BudgetInv'
<1> SUFFICES ASSUME TypeOK, BudgetInv, [Next]_vars PROVE BudgetInv'
  OBVIOUS
<1>1. CASE ProtoNext
  <2>1. CASE HandleStart
    BY <2>1, BudgetStart, PipelineAssumption DEF HandleStart
  <2>2. CASE HandleSelftest
    BY <2>2, BudgetStart DEF HandleSelftest
  <2>3. CASE HandleStop
    BY <2>3, BudgetFrame DEF HandleStop, sensorVars
  <2>4. CASE StopPersist
    BY <2>4, BudgetFrame DEF StopPersist, sensorVars
  <2>5. QED
    BY <1>1, <2>1, <2>2, <2>3, <2>4 DEF ProtoNext
<1>2. CASE SensorNext
  BY <1>2, BudgetSensor
<1>3. CASE StorageNext
  <2>1. UNCHANGED <<plan, sPc>>
    BY <1>3 DEF StorageNext, StorageLoop, StorageIdent, StorageSession,
       StorageBegin, StorageRead, StorageCommit, StorageBound, StorageReceive,
       StorageAppend, StorageWrite, StorageFinal, StorageSetState,
       StorageClear, sensorVars
  <2>2. \/ bits' = bits
        \/ bits' = bits \ {"STORAGE_READY"}
        \/ bits' = bits \union {"STORAGE_READY"}
        \/ bits' = bits \ {"FINALIZE_PENDING"}
    BY <1>3 DEF StorageNext, StorageLoop, StorageIdent, StorageSession,
       DropSession, StorageBegin, StorageRead, StorageCommit, StorageBound,
       StorageReceive, StorageAppend, StorageWrite, StorageFinal,
       StorageSetState, StorageClear
  <2>3. QED
    BY <2>1, <2>2, BudgetFrame
<1>4. CASE Reset
  <2>1. CASE StayIdle
    BY <1>4, <2>1 DEF Reset, StayIdle, BootPlan, BudgetInv
  <2>2. ASSUME NEW t \in Task, Resumable(t), ResumeCollect(t), ~StayIdle
        PROVE  BudgetInv'
    <3>1. header[t].total \in Nat
      BY <2>2 DEF Resumable, Running, HasHeader, TypeOK, FlashType, Header
    <3>2. data[t] # <<>> => RemainingStored(t) \in Nat
      <4>1. data[t] \in Seq(Record)
        BY DEF TypeOK, FlashType
      <4>2. data[t] # <<>> => data[t][Len(data[t])] \in Record
        BY <4>1
      <4>3. QED
        BY <4>2 DEF RemainingStored, Record
    <3>3. PICK rem \in Nat : ResumeWith(t, rem)
      BY <2>2, <3>1, <3>2 DEF ResumeCollect
    <3>4. QED
      BY <1>4, <3>3, BudgetResume DEF Reset
  <2>3. QED
    BY <1>4, <2>1, <2>2 DEF Reset
<1>5. CASE UNCHANGED vars
  BY <1>5, BudgetFrame DEF vars, sensorVars
<1>6. QED
  BY <1>1, <1>2, <1>3, <1>4, <1>5 DEF Next

(* No plan is charged for more samples than it has, wherever START and STOP  *)
(* come between the sensor task's steps: task_manager.c decrements under a   *)
(* critical section but clears COLLECT_RUNNING only later.                   *)
THEOREM BudgetKept == Spec => []SampleBudget
<1>1. TypeOK /\ BudgetInv => SampleBudget
  BY DEF TypeOK, PlanType, Plan, BudgetInv, SampleBudget
<1>2. QED
  BY <1>1, TypeInit, TypeNext, BudgetInit, BudgetNext, PTL DEF Spec

(***************************************************************************)
(* Records are filed once and in order.  The strengthening orders all the   *)
(* places where a record can be: what is stored was taken before what is    *)
(* pending, that before what is queued, that before what the sensor task    *)
(* holds, and that before the next sample.                                  *)
(***************************************************************************)
SeqBelow(s, n) == \A i \in 1 .. Len(s) : s[i].num < n

StoredBelow(n) ==
  \A t \in Task : SeqBelow(data[t], n) /\ SeqBelow(preData[t], n)

SensorHolds == sPc \in {"clear", "done", "fin", "request", "send"}

StoredInv == StoredOnce /\ StoredBelow(samples)

PendingInv ==
  /\ tPc = "write" => hasPending
  /\ hasPending => StoredBelow(pending.num) /\ pending.num < samples

QueueInv ==
  /\ Before(queue)
  /\ \A i \in 1 .. Len(queue) :
       /\ StoredBelow(queue[i].num) /\ queue[i].num < samples
       /\ hasPending => pending.num < queue[i].num

SensorInv ==
  SensorHolds => /\ StoredBelow(sRec.num) /\ sRec.num < samples
                 /\ hasPending => pending.num < sRec.num
                 /\ SeqBelow(queue, sRec.num)

OrderInv == StoredInv /\ PendingInv /\ QueueInv /\ SensorInv

LEMMA OrderInit == Init => OrderInv
<1> SUFFICES ASSUME Init PROVE OrderInv
  OBVIOUS
<1>1. \A t \in Task : data[t] = <<>> /\ preData[t] = <<>>
  BY DEF Init
<1>2. StoredInv
  BY <1>1 DEF StoredInv, StoredOnce, StoredBelow, SeqBelow, Before, Apart
<1>3. QED
  BY <1>2 DEF Init, OrderInv, PendingInv, QueueInv, Before, SensorInv,
              SensorHolds

(* What is apart stays so when either side is emptied.                       *)
LEMMA ApartKept ==
  ASSUME NEW s, NEW r, NEW s2, NEW r2, Apart(s, r),
         s2 = s \/ s2 = <<>>, r2 = r \/ r2 = <<>>
  PROVE  Apart(s2, r2)
<1>1. CASE s2 = <<>> \/ r2 = <<>>
  BY <1>1 DEF Apart
<1>2. CASE s2 = s /\ r2 = r
  BY <1>2
<1>3. QED
  BY <1>1, <1>2

(* Flash that only loses whole areas keeps what holds of the stored records. *)
LEMMA StoredKept ==
  ASSUME \A t \in Task : data'[t] = data[t] \/ data'[t] = <<>>,
         \A t \in Task : preData'[t] = preData[t] \/ preData'[t] = <<>>
  PROVE  /\ StoredOnce => StoredOnce'
         /\ \A n : StoredBelow(n) => StoredBelow(n)'
<1>1. \A t \in Task : /\ Before(data[t]) => Before(data'[t])
                      /\ Before(preData[t]) => Before(preData'[t])
  BY DEF Before
<1>2. \A t, u \in Task :
         /\ Apart(data[t], preData[u]) => Apart(data'[t], preData'[u])
         /\ Apart(data[t], data[u]) => Apart(data'[t], data'[u])
         /\ Apart(preData[t], preData[u]) => Apart(preData'[t], preData'[u])
  BY ApartKept
<1>3. StoredOnce => StoredOnce'
  BY <1>1, <1>2 DEF StoredOnce
<1>4. \A n : StoredBelow(n) => StoredBelow(n)'
  BY DEF StoredBelow, SeqBelow
<1>5. QED
  BY <1>3, <1>4

(* Most steps only keep or lose records: none is added anywhere.             *)
LEMMA OrderFrame ==
  ASSUME OrderInv,
         \A t \in Task : data'[t] = data[t] \/ data'[t] = <<>>,
         \A t \in Task : preData'[t] = preData[t] \/ preData'[t] = <<>>,
         samples' = samples,
         queue' = queue \/ queue' = <<>>,
         hasPending' => hasPending /\ pending' = pending,
         SensorHolds' => SensorHolds /\ sRec' = sRec,
         tPc' = "write" => hasPending' \/ (tPc = "write" /\
                                           hasPending' = hasPending)
  PROVE  OrderInv'
<1>1. StoredInv'
  BY StoredKept DEF OrderInv, StoredInv
<1>2. PendingInv'
  BY StoredKept DEF OrderInv, PendingInv
<1>3. QueueInv'
  <2>1. CASE queue' = queue
    BY <2>1, StoredKept DEF OrderInv, QueueInv
  <2>2. CASE queue' = <<>>
    BY <2>2 DEF QueueInv, Before
  <2>3. QED
    BY <2>1, <2>2
<1>4. SensorInv'
  <2>1. SensorHolds' => StoredBelow(sRec.num)'
    BY StoredKept DEF OrderInv, SensorInv
  <2>2. SensorHolds' => SeqBelow(queue', sRec'.num)
    BY DEF OrderInv, SensorInv, SeqBelow
  <2>3. QED
    BY <2>1, <2>2 DEF OrderInv, SensorInv
<1>5. QED
  BY <1>1, <1>2, <1>3, <1>4 DEF OrderInv

LEMMA NumNat ==
  ASSUME NEW s \in Seq(Record), NEW i \in 1 .. Len(s)
  PROVE  s[i].num \in Nat
<1>1. s[i] \in Record
  OBVIOUS
<1>2. QED
  BY <1>1 DEF Record

LEMMA BelowMono ==
  ASSUME TypeOK, NEW m \in Nat, NEW n \in Nat, m <= n, StoredBelow(m)
  PROVE  StoredBelow(n)
<1>1. ASSUME NEW s \in Seq(Record), SeqBelow(s, m) PROVE SeqBelow(s, n)
  <2>1. \A i \in 1 .. Len(s) : s[i].num \in Nat
    BY NumNat
  <2>2. QED
    BY <1>1, <2>1 DEF SeqBelow
<1>2. QED
  BY <1>1 DEF StoredBelow, TypeOK, FlashType

LEMMA OrderConsume == TypeOK /\ OrderInv /\ SensorConsume => OrderInv'
<1> SUFFICES ASSUME TypeOK, OrderInv, SensorConsume PROVE OrderInv'
  OBVIOUS
<1>1. /\ samples \in Nat /\ samples' = samples + 1
      /\ sRec'.num = samples
      /\ UNCHANGED <<data, preData, queue, hasPending, pending, tPc>>
  BY DEF SensorConsume, TypeOK, HistType, flashVars, storageVars, pendingVars
<1>2. StoredBelow(samples) /\ StoredOnce
  BY DEF OrderInv, StoredInv
<1>3. StoredInv'
  <2>1. StoredBelow(samples + 1)
    BY <1>1, <1>2, BelowMono
  <2>2. StoredBelow(samples)'
    BY <1>1, <2>1 DEF StoredBelow
  <2>3. StoredOnce'
    BY <1>1, <1>2 DEF StoredOnce
  <2>4. QED
    BY <2>2, <2>3 DEF StoredInv
<1>4. PendingInv'
  BY <1>1 DEF OrderInv, PendingInv, StoredBelow, TypeOK, PendingType, Record
<1>5. \A i \in 1 .. Len(queue) : queue[i].num \in Nat
  BY NumNat DEF TypeOK, PlanType
<1>6. QueueInv'
  BY <1>1, <1>5 DEF OrderInv, QueueInv, StoredBelow
<1>7. SensorInv'
  BY <1>1, <1>2 DEF OrderInv, PendingInv, QueueInv, SensorInv, SeqBelow,
                    StoredBelow
<1>8. QED
  BY <1>3, <1>4, <1>6, <1>7 DEF OrderInv

LEMMA OrderSend == TypeOK /\ OrderInv /\ SensorSend => OrderInv'
<1> SUFFICES ASSUME TypeOK, OrderInv, SensorSend PROVE OrderInv'
  OBVIOUS
<1>1. /\ UNCHANGED <<data, preData, hasPending, pending, tPc, samples>>
      /\ SensorHolds /\ ~SensorHolds'
  BY DEF SensorSend, flashVars, storageVars, pendingVars, histVars,
         SensorHolds
<1>2. CASE queue' = queue
  BY <1>1, <1>2, OrderFrame
<1>3. CASE queue' = Append(queue, sRec)
  <2>1. queue \in Seq(Record) /\ sRec \in Record
    BY DEF TypeOK, PlanType, SensorType
  <2>2. /\ Len(queue') = Len(queue) + 1 /\ Len(queue) \in Nat
        /\ queue'[Len(queue) + 1] = sRec
        /\ \A i \in 1 .. Len(queue) : queue'[i] = queue[i]
    BY <1>3, <2>1
  <2>3. \A i \in 1 .. Len(queue') : i \in 1 .. Len(queue) \/ i = Len(queue) + 1
    BY <2>2
  <2>4. Before(queue')
    BY <1>1, <2>2, <2>3 DEF OrderInv, QueueInv, SensorInv, SeqBelow, Before
  <2>5. ASSUME NEW i \in 1 .. Len(queue')
        PROVE  /\ StoredBelow(queue'[i].num) /\ queue'[i].num < samples
               /\ hasPending => pending.num < queue'[i].num
    BY <1>1, <2>2, <2>3 DEF OrderInv, QueueInv, SensorInv
  <2>6. QueueInv'
    BY <1>1, <2>4, <2>5 DEF QueueInv, StoredBelow
  <2>7. SensorInv'
    BY <1>1 DEF SensorInv
  <2>8. StoredInv' /\ PendingInv'
    BY <1>1 DEF OrderInv, StoredInv, StoredOnce, StoredBelow, PendingInv
  <2>9. QED
    BY <2>6, <2>7, <2>8 DEF OrderInv
<1>4. QED
  BY <1>2, <1>3 DEF SensorSend

LEMMA OrderReceive == TypeOK /\ OrderInv /\ StorageReceive => OrderInv'
<1> SUFFICES ASSUME TypeOK, OrderInv, StorageReceive PROVE OrderInv'
  OBVIOUS
<1>1. /\ UNCHANGED <<data, preData, samples, sPc, sRec>>
      /\ tPc' # "write"
  BY DEF StorageReceive, flashVars, sensorVars, histVars
<1>2. CASE queue = <<>>
  <2>1. UNCHANGED <<queue, hasPending, pending>>
    BY <1>2 DEF StorageReceive, pendingVars
  <2>2. QED
    BY <1>1, <2>1, OrderFrame DEF SensorHolds
<1>3. CASE queue # <<>>
  <2>1. Len(queue) \in 1 .. Len(queue)
    BY <1>3 DEF TypeOK, PlanType
  <2>2. pending' = queue[Len(queue)] /\ hasPending' = TRUE /\ queue' = <<>>
    BY <1>3 DEF StorageReceive
  <2>3. StoredInv'
    BY <1>1 DEF OrderInv, StoredInv, StoredOnce, StoredBelow
  <2>4. PendingInv'
    BY <1>1, <2>1, <2>2 DEF OrderInv, QueueInv, PendingInv, StoredBelow
  <2>5. QueueInv'
    BY <2>2 DEF QueueInv, Before
  <2>6. SensorInv'
    BY <1>1, <2>1, <2>2 DEF OrderInv, SensorInv, SensorHolds, StoredBelow,
                            SeqBelow
  <2>7. QED
    BY <2>3, <2>4, <2>5, <2>6 DEF OrderInv
<1>4. QED
  BY <1>2, <1>3

(* Appending the pending record to one area of one task.                     *)
LEMMA AppendSeq ==
  ASSUME NEW s \in Seq(Record), NEW r \in Record, SeqBelow(s, r.num)
  PROVE  /\ Len(Append(s, r)) = Len(s) + 1
         /\ \A i \in 1 .. Len(Append(s, r)) :
              Append(s, r)[i] = IF i = Len(s) + 1 THEN r ELSE s[i]
         /\ Before(s) => Before(Append(s, r))
<1>1. /\ Len(Append(s, r)) = Len(s) + 1 /\ Len(s) \in Nat
      /\ \A i \in 1 .. Len(Append(s, r)) :
           Append(s, r)[i] = IF i = Len(s) + 1 THEN r ELSE s[i]
  OBVIOUS
<1>2. Before(s) => Before(Append(s, r))
  BY <1>1 DEF Before, SeqBelow
<1>3. QED
  BY <1>1, <1>2

(* A record newer than all of q is not in q.                                 *)
LEMMA AppendApart ==
  ASSUME NEW s \in Seq(Record), NEW q \in Seq(Record), NEW r \in Record,
         SeqBelow(s, r.num), SeqBelow(q, r.num), Apart(s, q)
  PROVE  Apart(Append(s, r), q) /\ Apart(q, Append(s, r))
<1>1. /\ Len(Append(s, r)) = Len(s) + 1 /\ Len(s) \in Nat
      /\ \A i \in 1 .. Len(Append(s, r)) :
           Append(s, r)[i] = IF i = Len(s) + 1 THEN r ELSE s[i]
  BY AppendSeq
<1>2. \A i \in 1 .. Len(q) : q[i].num \in Nat /\ q[i].num < r.num
  BY NumNat DEF SeqBelow
<1>3. r.num \in Nat
  BY DEF Record
<1>4. ASSUME NEW i \in 1 .. Len(Append(s, r)), NEW j \in 1 .. Len(q)
      PROVE  Append(s, r)[i].num # q[j].num
  <2>1. CASE i = Len(s) + 1
    <3>1. Append(s, r)[i] = r
      BY <1>1, <2>1
    <3>2. QED
      BY <1>2, <1>3, <3>1
  <2>2. CASE i # Len(s) + 1
    <3>1. Append(s, r)[i] = s[i] /\ i \in 1 .. Len(s)
      BY <1>1, <2>2
    <3>2. QED
      BY <3>1 DEF Apart
  <2>3. QED
    BY <2>1, <2>2
<1>5. QED
  BY <1>4 DEF Apart

LEMMA AppendBelow ==
  ASSUME NEW s \in Seq(Record), NEW r \in Record, NEW n \in Nat,
         SeqBelow(s, n), r.num < n
  PROVE  SeqBelow(Append(s, r), n)
<1>1. /\ Len(Append(s, r)) = Len(s) + 1 /\ Len(s) \in Nat
      /\ \A i \in 1 .. Len(Append(s, r)) :
           Append(s, r)[i] = IF i = Len(s) + 1 THEN r ELSE s[i]
  OBVIOUS
<1>2. QED
  BY <1>1 DEF SeqBelow

(* Filing the pending record: it is newer than all that is stored, and older *)
(* than all that waits.                                                      *)
LEMMA OrderAppend ==
  ASSUME TypeOK, OrderInv, tPc = "write", AppendOk, tPc' = "final",
         UNCHANGED <<queue, samples, sPc, sRec>>
  PROVE  OrderInv'
<1> DEFINE n == pending.num
<1>1. /\ hasPending /\ pending \in Record /\ n \in Nat
      /\ StoredBelow(n) /\ n < samples /\ samples \in Nat
  BY DEF OrderInv, PendingInv, TypeOK, PendingType, HistType, Record
<1>2. ~hasPending'
  BY DEF AppendOk, Forget
<1>3. \A t \in Task : /\ data[t] \in Seq(Record) /\ preData[t] \in Seq(Record)
                      /\ SeqBelow(data[t], n) /\ SeqBelow(preData[t], n)
  BY <1>1 DEF StoredBelow, TypeOK, FlashType
<1>4. StoredOnce
  BY DEF OrderInv, StoredInv
<1>5. \/ UNCHANGED <<data, preData>>
      \/ /\ data' = [data EXCEPT ![sessId] = Append(@, pending)]
         /\ UNCHANGED preData
      \/ /\ preData' = [preData EXCEPT ![sessId] = Append(@, pending)]
         /\ UNCHANGED data
  BY DEF AppendOk
<1> HIDE DEF n
<1>6. /\ \A t \in Task : \/ data'[t] = data[t]
                         \/ t = sessId /\ data'[t] = Append(data[t], pending)
      /\ \A t \in Task : \/ preData'[t] = preData[t]
                         \/ /\ t = sessId
                            /\ preData'[t] = Append(preData[t], pending)
      /\ UNCHANGED data \/ UNCHANGED preData
  BY <1>5 DEF TypeOK, FlashType
<1>7. \A m \in Nat : n < m /\ StoredBelow(m) => StoredBelow(m)'
  <2>1. SUFFICES ASSUME NEW m \in Nat, n < m, StoredBelow(m)
                 PROVE  StoredBelow(m)'
    OBVIOUS
  <2>2. ASSUME NEW t \in Task
        PROVE  SeqBelow(data'[t], m) /\ SeqBelow(preData'[t], m)
    BY <1>1, <1>3, <1>6, <2>1, AppendBelow DEF StoredBelow, n
  <2>3. QED
    BY <2>2 DEF StoredBelow
<1>8. StoredOnce'
  <2>1. ASSUME NEW t \in Task PROVE Before(data'[t]) /\ Before(preData'[t])
    BY <1>1, <1>3, <1>4, <1>6, AppendSeq DEF StoredOnce, n
  <2>2. ASSUME NEW t \in Task, NEW u \in Task
        PROVE  Apart(data'[t], preData'[u])
    <3>1. Apart(data[t], preData[u])
      BY <1>4 DEF StoredOnce
    <3>2. Apart(preData[u], data[t])
      BY <3>1 DEF Apart
    <3>3. Apart(Append(data[t], pending), preData[u])
      BY <1>1, <1>3, <3>1, AppendApart DEF n
    <3>4. Apart(data[t], Append(preData[u], pending))
      BY <1>1, <1>3, <3>2, AppendApart DEF n
    <3>5. QED
      BY <1>6, <3>1, <3>3, <3>4
  <2>3. ASSUME NEW t \in Task, NEW u \in Task, t # u
        PROVE  Apart(data'[t], data'[u]) /\ Apart(preData'[t], preData'[u])
    <3>1. /\ Apart(data[t], data[u]) /\ Apart(data[u], data[t])
          /\ Apart(preData[t], preData[u]) /\ Apart(preData[u], preData[t])
      BY <1>4, <2>3 DEF StoredOnce
    <3>2. /\ Apart(Append(data[t], pending), data[u])
          /\ Apart(data[t], Append(data[u], pending))
      BY <1>1, <1>3, <3>1, AppendApart DEF n
    <3>3. /\ Apart(Append(preData[t], pending), preData[u])
          /\ Apart(preData[t], Append(preData[u], pending))
      BY <1>1, <1>3, <3>1, AppendApart DEF n
    <3>4. Apart(data'[t], data'[u])
      <4>1. CASE t = sessId
        BY <1>6, <2>3, <3>1, <3>2, <4>1
      <4>2. CASE t # sessId
        BY <1>6, <3>1, <3>2, <4>2
      <4>3. QED
        BY <4>1, <4>2
    <3>5. Apart(preData'[t], preData'[u])
      <4>1. CASE t = sessId
        BY <1>6, <2>3, <3>1, <3>3, <4>1
      <4>2. CASE t # sessId
        BY <1>6, <3>1, <3>3, <4>2
      <4>3. QED
        BY <4>1, <4>2
    <3>6. QED
      BY <3>4, <3>5
  <2>4. QED
    BY <2>1, <2>2, <2>3 DEF StoredOnce
<1>9. StoredInv' /\ PendingInv'
  BY <1>1, <1>2, <1>7, <1>8 DEF OrderInv, StoredInv, PendingInv
<1>10. QueueInv'
  <2>1. \A i \in 1 .. Len(queue) : queue[i].num \in Nat
    BY NumNat DEF TypeOK, PlanType
  <2>2. QED
    BY <1>1, <1>2, <1>7, <2>1 DEF OrderInv, QueueInv, n
<1>11. SensorInv'
  <2>1. sRec.num \in Nat
    BY DEF TypeOK, SensorType, Record
  <2>2. QED
    BY <1>1, <1>2, <1>7, <2>1 DEF OrderInv, SensorInv, SensorHolds, n
<1>12. QED
  BY <1>9, <1>10, <1>11 DEF OrderInv

LEMMA OrderStorage == TypeOK /\ OrderInv /\ StorageNext => OrderInv'
<1> SUFFICES ASSUME TypeOK, OrderInv, StorageNext PROVE OrderInv'
  OBVIOUS
<1> USE DEF storageVars, pendingVars, sessionVars, sensorVars, flashVars,
            histVars
<1>1. CASE StorageReceive
  BY <1>1, OrderReceive
<1>2. CASE StorageWrite /\ AppendOk
  BY <1>2, OrderAppend DEF StorageWrite
<1>3. CASE ~StorageReceive /\ ~(StorageWrite /\ AppendOk)
  <2>1. UNCHANGED <<samples, sPc, sRec>>
    BY <1>3 DEF StorageNext, StorageLoop, StorageIdent, StorageSession,
       StorageBegin, StorageRead, StorageCommit, StorageBound, StorageAppend,
       StorageWrite, StorageFinal, StorageSetState, StorageClear
  <2>2. queue' = queue \/ queue' = <<>>
    BY <1>3 DEF StorageNext, StorageLoop, StorageIdent, StorageSession,
       StorageBegin, StorageRead, StorageCommit, StorageBound, StorageAppend,
       StorageWrite, StorageFinal, StorageSetState, StorageClear
  <2>3. hasPending' => hasPending /\ pending' = pending
    BY <1>3 DEF StorageNext, StorageLoop, StorageIdent, StorageSession,
       StorageBegin, StorageRead, StorageCommit, StorageBound, StorageAppend,
       StorageWrite, AppendFails, Forget, StorageFinal, StorageSetState,
       StorageClear
  <2>4. tPc' = "write" => hasPending'
    BY <1>3 DEF StorageNext, StorageLoop, StorageIdent, StorageSession,
       DropSession, StorageBegin, StorageRead, StorageCommit, BeginFailed,
       StorageBound, StorageAppend, StorageWrite, StorageFinal,
       StorageSetState, StorageClear
  <2>5. \A t \in Task : /\ data'[t] = data[t] \/ data'[t] = <<>>
                        /\ preData'[t] = preData[t] \/ preData'[t] = <<>>
    BY <1>3 DEF StorageNext, StorageLoop, StorageIdent, StorageSession,
       StorageBegin, StorageRead, StorageCommit, StorageBound, StorageAppend,
       StorageWrite, AppendFails, StorageFinal, StorageSetState, StorageClear,
       CommitFails, CommitCompleted, LoseHeader, TypeOK, FlashType
  <2>6. QED
    BY <2>1, <2>2, <2>3, <2>4, <2>5, OrderFrame DEF SensorHolds
<1>4. QED
  BY <1>1, <1>2, <1>3

LEMMA OrderNext == TypeOK /\ OrderInv /\ [Next]_vars => OrderInv'
<1> SUFFICES ASSUME TypeOK, OrderInv, [Next]_vars PROVE OrderInv'
  OBVIOUS
<1> USE DEF storageVars, pendingVars, sensorVars, flashVars, histVars
<1>1. CASE ProtoNext
  <2>1. UNCHANGED <<samples, sPc, sRec, queue, hasPending, pending, tPc>>
    BY <1>1 DEF ProtoNext, HandleStart, HandleSelftest, StartCollect,
       HandleStop, StopPersist
  <2>2. \A t \in Task : /\ data'[t] = data[t] \/ data'[t] = <<>>
                        /\ preData'[t] = preData[t] \/ preData'[t] = <<>>
    BY <1>1 DEF ProtoNext, HandleStart, HandleSelftest, StartCollect,
       HandleStop, StopPersist, CommitFails, CommitCompleted, LoseHeader,
       TypeOK, FlashType
  <2>3. QED
    BY <2>1, <2>2, OrderFrame DEF SensorHolds
<1>2. CASE SensorNext
  <2>1. CASE SensorConsume
    BY <2>1, OrderConsume
  <2>2. CASE SensorSend
    BY <2>2, OrderSend
  <2>3. CASE \/ SensorCheck \/ SensorClear \/ SensorDone \/ SensorFinalize
             \/ SensorRequest
    <3>1. /\ UNCHANGED <<samples, sRec, queue, hasPending, pending, tPc,
                         data, preData>>
          /\ SensorHolds' => SensorHolds
      BY <2>3 DEF SensorCheck, SensorClear, SensorDone, SensorFinalize,
         SensorRequest, SensorHolds
    <3>2. QED
      BY <3>1, OrderFrame
  <2>4. QED
    BY <1>2, <2>1, <2>2, <2>3 DEF SensorNext
<1>3. CASE StorageNext
  BY <1>3, OrderStorage
<1>4. CASE Reset
  <2>1. \A t \in Task : /\ data'[t] = data[t] \/ data'[t] = <<>>
                        /\ preData'[t] = preData[t] \/ preData'[t] = <<>>
    BY <1>4 DEF Reset, ResumeCollect, ResumeWith, CommitFails,
       CommitCompleted, LoseHeader, TypeOK, FlashType
  <2>2. /\ samples' = samples /\ queue' = <<>> /\ ~hasPending'
        /\ ~SensorHolds' /\ tPc' = "loop"
    BY <1>4 DEF Reset, SensorHolds
  <2>3. QED
    BY <2>1, <2>2, OrderFrame
<1>5. CASE UNCHANGED vars
  BY <1>5, OrderFrame DEF vars, SensorHolds
<1>6. QED
  BY <1>1, <1>2, <1>3, <1>4, <1>5 DEF Next

(* Records are filed once, in one place, and in the order the samples were   *)
(* taken, through any number of starts, stops, resets and failed writes.     *)
THEOREM FiledOnce == Spec => []StoredOnce
<1>1. OrderInv => StoredOnce
  BY DEF OrderInv, StoredInv
<1>2. QED
  BY <1>1, TypeInit, TypeNext, OrderInit, OrderNext, PTL DEF Spec

(***************************************************************************)
(* A session has a header.  The strengthening follows the storage task from *)
(* its copy of the active id to the session: a resumed plan was read from a *)
(* header, and until START replaces it every id the storage task holds on   *)
(* the way to a session is the resumed one.                                 *)
(***************************************************************************)
Reading == tPc = "kind"
Binding == Reading \/ tPc \in {"begin", "commit", "bound"}

BindInv ==
  /\ Binding \/ ready => sessId \in Task
  /\ plan.resumed /\ tPc = "session" => seenId = plan.id
  /\ plan.resumed /\ tPc = "begin" => sessId = plan.id

HeaderInv ==
  /\ ready => HasHeader(sessId)
  /\ tPc = "bound" => HasHeader(sessId)
  /\ plan.resumed => HasHeader(plan.id)

SessionInv == BindInv /\ (faults = 0 => HeaderInv)

LEMMA SessionInit == Init => SessionInv
  BY DEF Init, BootPlan, SessionInv, BindInv, HeaderInv, Binding, Reading

(* Without a fault no header is lost.                                        *)
LEMMA HeaderKept ==
  ASSUME TypeOK, faults' = 0,
         \/ UNCHANGED <<header, faults>>
         \/ \E t : CommitCompleted(t) \/ CommitFails(t)
  PROVE  faults = 0 /\ \A u \in Task : HasHeader(u) => HasHeader(u)'
<1>1. faults \in Nat
  BY DEF TypeOK, HistType
<1>2. ~\E t : CommitFails(t)
  BY <1>1 DEF CommitFails
<1>3. CASE UNCHANGED <<header, faults>>
  BY <1>3 DEF HasHeader
<1>4. ASSUME NEW t, CommitCompleted(t), NEW u \in Task, HasHeader(u)
      PROVE  HasHeader(u)'
  <2>1. header[u] \in Header
    BY <1>4 DEF HasHeader, TypeOK, FlashType
  <2>2. \/ header'[u] = header[u]
        \/ header'[u] = [header[u] EXCEPT !.state = "COMPLETED"]
    BY <1>4 DEF CommitCompleted, TypeOK, FlashType
  <2>3. header'[u].state \in {"RUNNING", "COMPLETED"}
    BY <2>1, <2>2 DEF Header
  <2>4. QED
    BY <2>3 DEF HasHeader, NoHeader
<1>5. QED
  BY <1>2, <1>3, <1>4 DEF CommitCompleted

(* A step that binds nothing new keeps SessionInv.                           *)
LEMMA SessionFrame ==
  ASSUME TypeOK, SessionInv,
         UNCHANGED <<sessId, seenId>>,
         \/ UNCHANGED <<header, faults>>
         \/ \E t : CommitCompleted(t) \/ CommitFails(t),
         ready' => ready,
         plan'.resumed => plan.resumed /\ plan'.id = plan.id,
         tPc' = tPc \/ (tPc' # "session" /\ ~Binding')
  PROVE  SessionInv'
<1>1. BindInv'
  BY DEF SessionInv, BindInv, Binding, Reading
<1>2. ASSUME faults' = 0 PROVE HeaderInv'
  <2>1. faults = 0 /\ \A u \in Task : HasHeader(u) => HasHeader(u)'
    BY <1>2, HeaderKept
  <2>2. plan.id \in Task
    BY DEF TypeOK, PlanType, Plan
  <2>3. \A u : HasHeader(u)' <=> header'[u] # NoHeader
    BY DEF HasHeader
  <2>4. QED
    BY <2>1, <2>2, <2>3
       DEF SessionInv, BindInv, Binding, HeaderInv, HasHeader
<1>3. QED
  BY <1>1, <1>2 DEF SessionInv

LEMMA SessionProto == TypeOK /\ SessionInv /\ ProtoNext => SessionInv'
<1> SUFFICES ASSUME TypeOK, SessionInv, ProtoNext PROVE SessionInv'
  OBVIOUS
<1> USE DEF storageVars, sessionVars, flashVars, histVars
<1>1. CASE HandleStart \/ HandleSelftest
  <2>1. /\ UNCHANGED <<sessId, seenId, ready, tPc, header, faults>>
        /\ ~plan'.resumed
    BY <1>1 DEF HandleStart, HandleSelftest, StartCollect, NewPlan
  <2>2. QED
    BY <2>1, SessionFrame
<1>2. CASE HandleStop
  <2>1. UNCHANGED <<sessId, seenId, ready, tPc, plan, header, faults>>
    BY <1>2 DEF HandleStop
  <2>2. QED
    BY <2>1, SessionFrame
<1>3. CASE StopPersist
  <2>1. /\ UNCHANGED <<sessId, seenId, ready, tPc, plan>>
        /\ \/ UNCHANGED <<header, faults>>
           \/ CommitCompleted(pId) \/ CommitFails(pId)
    BY <1>3 DEF StopPersist
  <2>2. QED
    BY <2>1, SessionFrame
<1>4. QED
  BY <1>1, <1>2, <1>3 DEF ProtoNext

LEMMA SessionSensor == TypeOK /\ SessionInv /\ SensorNext => SessionInv'
<1> SUFFICES ASSUME TypeOK, SessionInv, SensorNext PROVE SessionInv'
  OBVIOUS
<1>1. UNCHANGED <<sessId, seenId, ready, tPc, header, faults>>
  BY DEF SensorNext, SensorCheck, SensorConsume, SensorClear, SensorDone,
     SensorFinalize, SensorRequest, SensorSend, storageVars, sessionVars,
     flashVars, histVars
<1>2. plan'.resumed = plan.resumed /\ plan'.id = plan.id
  BY DEF SensorNext, SensorCheck, SensorConsume, SensorClear, SensorDone,
     SensorFinalize, SensorRequest, SensorSend, TypeOK, PlanType, Plan
<1>3. QED
  BY <1>1, <1>2, SessionFrame

LEMMA SessionStorage == TypeOK /\ SessionInv /\ StorageNext => SessionInv'
<1> SUFFICES ASSUME TypeOK, SessionInv, StorageNext PROVE SessionInv'
  OBVIOUS
<1> USE DEF sessionVars, flashVars, histVars, Binding, Reading
<1>0. plan.id \in Task /\ seenId \in Task
  BY DEF TypeOK, PlanType, Plan, StorageType
<1>1. CASE StorageLoop
  BY <1>1, SessionFrame DEF StorageLoop
<1>2. CASE StorageIdent
  BY <1>2 DEF StorageIdent, SessionInv, BindInv, HeaderInv, HasHeader
<1>3. CASE StorageSession
  <2>1. /\ tPc = "session" /\ UNCHANGED <<plan, header, faults>>
        /\ \/ tPc' \in {"loop", "recv"} /\ (ready' => ready)
              /\ (ready' => sessId' = sessId)
           \/ tPc' = "begin" /\ ~ready' /\ sessId' = seenId
    BY <1>3 DEF StorageSession, DropSession, TypeOK, StorageType
  <2>2. QED
    BY <1>0, <2>1 DEF SessionInv, BindInv, HeaderInv, HasHeader
<1>4. CASE StorageBegin \/ StorageRead
  <2>1. CASE tPc' = "bound" /\ plan.resumed /\ UNCHANGED faults
    BY <1>4, <2>1
       DEF StorageBegin, StorageRead, SessionInv, BindInv, HeaderInv, HasHeader
  <2>2. CASE tPc' \in {"kind", "commit"}
    <3>1. /\ UNCHANGED <<sessId, seenId, ready, plan, header, faults>>
          /\ Binding
      BY <1>4, <2>2 DEF StorageBegin, StorageRead, BeginFailed
    <3>2. QED
      BY <2>2, <3>1 DEF SessionInv, BindInv, HeaderInv, HasHeader
  <2>3. CASE tPc' \in {"loop", "recv"} /\ faults' = faults + 1
    <3>1. UNCHANGED <<sessId, seenId, ready, plan, header>>
      BY <1>4 DEF StorageBegin, StorageRead
    <3>2. BindInv' /\ faults' # 0
      BY <2>3, <3>1 DEF SessionInv, BindInv, TypeOK, HistType
    <3>3. QED
      BY <3>2 DEF SessionInv
  <2>4. QED
    BY <1>4, <2>1, <2>2, <2>3 DEF StorageBegin, StorageRead, BeginFailed
<1>5. CASE StorageCommit
  <2>1. sessId \in Task /\ tPc = "commit"
    BY <1>5 DEF StorageCommit, SessionInv, BindInv
  <2>2. CASE CommitFails(sessId) /\ BeginFailed
    <3>1. /\ UNCHANGED <<sessId, seenId, ready, plan>>
          /\ tPc' \in {"loop", "recv"}
      BY <1>5, <2>2 DEF StorageCommit, BeginFailed
    <3>2. QED
      BY <2>2, <3>1, SessionFrame
  <2>3. CASE ~(CommitFails(sessId) /\ BeginFailed)
    <3>1. /\ UNCHANGED <<sessId, seenId, ready, plan, faults>>
          /\ tPc' = "bound"
          /\ header' = [header EXCEPT ![sessId] =
               [state |-> IF meta.pre THEN "COMPLETED" ELSE "RUNNING",
                seq |-> nextSeq, total |-> meta.total,
                epoch |-> meta.epoch, coll |-> meta.coll]]
      BY <1>5, <2>3 DEF StorageCommit
    <3>2. header'[sessId].state \in {"RUNNING", "COMPLETED"}
      BY <2>1, <3>1 DEF TypeOK, FlashType
    <3>3. header'[sessId] # NoHeader
      BY <3>2 DEF NoHeader
    <3>4. \A u \in Task : header[u] # NoHeader => header'[u] # NoHeader
      BY <3>1, <3>3 DEF TypeOK, FlashType
    <3>5. QED
      BY <1>0, <2>1, <3>1, <3>3, <3>4
         DEF SessionInv, BindInv, HeaderInv, HasHeader
  <2>4. QED
    BY <2>2, <2>3
<1>6. CASE StorageBound
  BY <1>6 DEF StorageBound, SessionInv, BindInv, HeaderInv, HasHeader
<1>7. CASE StorageReceive \/ StorageAppend \/ StorageFinal \/ StorageClear
  <2>1. /\ UNCHANGED <<sessId, seenId, ready, plan, header, faults>>
        /\ tPc' \in {"append", "write", "final", "setstate", "loop"}
    BY <1>7 DEF StorageReceive, StorageAppend, StorageFinal, StorageClear
  <2>2. QED
    BY <2>1, SessionFrame
<1>8. CASE StorageWrite
  <2>1. /\ UNCHANGED <<sessId, seenId, ready, plan, header>>
        /\ tPc' = "final" /\ (UNCHANGED faults \/ faults' = faults + 1)
    BY <1>8 DEF StorageWrite
  <2>2. CASE UNCHANGED faults
    BY <2>1, <2>2, SessionFrame
  <2>3. CASE faults' = faults + 1
    BY <2>1, <2>3 DEF SessionInv, BindInv, TypeOK, HistType
  <2>4. QED
    BY <2>1, <2>2, <2>3
<1>9. CASE StorageSetState
  <2>1. /\ UNCHANGED <<sessId, seenId, ready, plan>>
        /\ tPc' \in {"clear", "loop"}
        /\ \/ UNCHANGED <<header, faults>>
           \/ CommitCompleted(sessId) \/ CommitFails(sessId)
    BY <1>9 DEF StorageSetState
  <2>2. QED
    BY <2>1, SessionFrame
<1>10. QED
  BY <1>1, <1>2, <1>3, <1>4, <1>5, <1>6, <1>7, <1>8, <1>9 DEF StorageNext

LEMMA SessionReset == TypeOK /\ SessionInv /\ Reset => SessionInv'
<1> SUFFICES ASSUME TypeOK, SessionInv, Reset PROVE SessionInv'
  OBVIOUS
<1>1. BindInv'
  BY DEF Reset, BindInv, Binding, Reading
<1>2. ASSUME faults' = 0 PROVE HeaderInv'
  <2>1. ~ready' /\ tPc' = "loop"
    BY DEF Reset
  <2>2. CASE StayIdle
    BY <2>1, <2>2 DEF StayIdle, BootPlan, HeaderInv
  <2>3. CASE \E t \in Task : Resumable(t) /\ ResumeCollect(t) /\ ~StayIdle
    <3>1. PICK t \in Task : Resumable(t) /\ ResumeCollect(t) /\ ~StayIdle
      BY <2>3
    <3>2. PICK rem : ResumeWith(t, rem)
      BY <3>1 DEF ResumeCollect
    <3>3. HasHeader(t)
      BY <3>1 DEF Resumable, Running
    <3>4. HasHeader(t)'
      BY <1>2, <3>2, <3>3, HeaderKept DEF ResumeWith
    <3>5. plan'.id = t
      BY <3>2 DEF ResumeWith, ResumePlan
    <3>6. QED
      BY <2>1, <3>4, <3>5 DEF HeaderInv, HasHeader
  <2>4. QED
    BY <2>2, <2>3 DEF Reset
<1>3. QED
  BY <1>1, <1>2 DEF SessionInv

LEMMA SessionNext == TypeOK /\ SessionInv /\ [Next]_vars => SessionInv'
<1> SUFFICES ASSUME TypeOK, SessionInv, [Next]_vars PROVE SessionInv'
  OBVIOUS
<1>1. CASE UNCHANGED vars
  BY <1>1, SessionFrame
     DEF vars, storageVars, sessionVars, flashVars, histVars
<1>2. QED
  BY <1>1, SessionProto, SessionSensor, SessionStorage, SessionReset DEF Next

(* While no flash operation fails, a bound session's task has a header: a    *)
(* resumed session, which task_storage.c takes over without looking at       *)
(* flash, is never bound to a slot that is not there.                        *)
THEOREM SessionBound == Spec => []SessionHasHeader
<1>1. SessionInv => SessionHasHeader
  BY DEF SessionInv, HeaderInv, SessionHasHeader
<1>2. QED
  BY <1>1, TypeInit, TypeNext, SessionInit, SessionNext, PTL DEF Spec

(***************************************************************************)
(* What the steps do to headers and records, for the two invariants below. *)
(***************************************************************************)

(* The records that are on their way from the sensor task to flash.          *)
Flight ==
  {queue[i] : i \in 1 .. Len(queue)}
    \union {r \in {pending} : hasPending} \union {r \in {sRec} : SensorHolds}

LEMMA FlightType == TypeOK => Flight \subseteq Record
<1> SUFFICES ASSUME TypeOK PROVE Flight \subseteq Record
  OBVIOUS
<1>1. \A i \in 1 .. Len(queue) : queue[i] \in Record
  BY DEF TypeOK, PlanType
<1>2. pending \in Record /\ sRec \in Record
  BY DEF TypeOK, PendingType, SensorType
<1>3. QED
  BY <1>1, <1>2 DEF Flight

LEMMA FlightKept ==
  ASSUME queue' = queue \/ queue' = <<>>,
         hasPending' => hasPending /\ pending' = pending,
         SensorHolds' => SensorHolds /\ sRec' = sRec
  PROVE  Flight' \subseteq Flight
<1>1. {queue[i] : i \in 1 .. Len(queue)}' \subseteq {queue[i] : i \in 1 .. Len(queue)}
  OBVIOUS
<1>2. QED
  BY <1>1 DEF Flight

(* Only a sample adds a record: sending one on, draining the queue, filing   *)
(* and giving up do not.                                                     *)
LEMMA FlightStorage == TypeOK /\ StorageNext => Flight' \subseteq Flight
<1> SUFFICES ASSUME TypeOK, StorageNext PROVE Flight' \subseteq Flight
  OBVIOUS
<1> USE DEF storageVars, pendingVars, sessionVars, sensorVars
<1>1. CASE StorageReceive
  <2>1. UNCHANGED <<sPc, sRec>>
    BY <1>1 DEF StorageReceive
  <2>2. CASE queue = <<>>
    <3>1. UNCHANGED <<queue, hasPending, pending>>
      BY <1>1, <2>2 DEF StorageReceive
    <3>2. QED
      BY <2>1, <3>1, FlightKept DEF SensorHolds
  <2>3. CASE queue # <<>>
    <3>1. pending' = queue[Len(queue)] /\ queue' = <<>>
      BY <1>1, <2>3 DEF StorageReceive
    <3>2. Len(queue) \in 1 .. Len(queue)
      BY <2>3 DEF TypeOK, PlanType
    <3>3. Flight' \subseteq {pending'} \union {r \in {sRec} : SensorHolds}
      BY <2>1, <3>1 DEF Flight, SensorHolds
    <3>4. pending' \in Flight
      BY <3>1, <3>2 DEF Flight
    <3>5. QED
      BY <3>3, <3>4 DEF Flight
  <2>4. QED
    BY <2>2, <2>3
<1>2. CASE ~StorageReceive
  <2>1. UNCHANGED <<sPc, sRec>>
    BY <1>2 DEF StorageNext, StorageLoop, StorageIdent, StorageSession,
       StorageBegin, StorageRead, StorageCommit, StorageBound, StorageAppend,
       StorageWrite, StorageFinal, StorageSetState, StorageClear
  <2>2. queue' = queue \/ queue' = <<>>
    BY <1>2 DEF StorageNext, StorageLoop, StorageIdent, StorageSession,
       StorageBegin, StorageRead, StorageCommit, StorageBound, StorageAppend,
       StorageWrite, StorageFinal, StorageSetState, StorageClear
  <2>3. hasPending' => hasPending /\ pending' = pending
    BY <1>2 DEF StorageNext, StorageLoop, StorageIdent, StorageSession,
       StorageBegin, StorageRead, StorageCommit, StorageBound, StorageAppend,
       StorageWrite, AppendOk, AppendFails, Forget, StorageFinal,
       StorageSetState, StorageClear
  <2>4. QED
    BY <2>1, <2>2, <2>3, FlightKept DEF SensorHolds
<1>3. QED
  BY <1>1, <1>2

LEMMA FlightSteps ==
  TypeOK /\ [Next]_vars => \/ Flight' \subseteq Flight
                           \/ SensorConsume /\ Flight' \subseteq Flight \union {sRec'}
<1> SUFFICES ASSUME TypeOK, [Next]_vars
             PROVE  \/ Flight' \subseteq Flight
                    \/ SensorConsume /\ Flight' \subseteq Flight \union {sRec'}
  OBVIOUS
<1> USE DEF storageVars, pendingVars, sensorVars
<1>1. CASE ProtoNext
  <2>1. UNCHANGED <<sPc, sRec, queue, hasPending, pending>>
    BY <1>1 DEF ProtoNext, HandleStart, HandleSelftest, StartCollect,
       HandleStop, StopPersist
  <2>2. QED
    BY <2>1, FlightKept DEF SensorHolds
<1>2. CASE SensorConsume
  <2>1. UNCHANGED <<queue, hasPending, pending>>
    BY <1>2 DEF SensorConsume
  <2>2. QED
    BY <1>2, <2>1 DEF Flight
<1>3. CASE SensorSend
  <2>1. UNCHANGED <<hasPending, pending>> /\ SensorHolds /\ ~SensorHolds'
    BY <1>3 DEF SensorSend, SensorHolds
  <2>2. CASE queue' = queue
    BY <2>1, <2>2, FlightKept
  <2>3. CASE queue' = Append(queue, sRec)
    <3>1. queue \in Seq(Record) /\ sRec \in Record
      BY DEF TypeOK, PlanType, SensorType
    <3>2. ASSUME NEW i \in 1 .. Len(queue')
          PROVE  queue'[i] = sRec \/ \E j \in 1 .. Len(queue) : queue'[i] = queue[j]
      BY <2>3, <3>1
    <3>3. \A i \in 1 .. Len(queue') : queue'[i] \in Flight
      BY <2>1, <3>2 DEF Flight
    <3>4. QED
      BY <2>1, <3>3 DEF Flight
  <2>4. QED
    BY <1>3, <2>2, <2>3 DEF SensorSend
<1>4. CASE \/ SensorCheck \/ SensorClear \/ SensorDone \/ SensorFinalize
           \/ SensorRequest
  <2>1. /\ UNCHANGED <<sRec, queue, hasPending, pending>>
        /\ SensorHolds' => SensorHolds
    BY <1>4 DEF SensorCheck, SensorClear, SensorDone, SensorFinalize,
       SensorRequest, SensorHolds
  <2>2. QED
    BY <2>1, FlightKept
<1>5. CASE StorageNext
  BY <1>5, FlightStorage
<1>6. CASE Reset
  BY <1>6, FlightKept DEF Reset, SensorHolds
<1>7. CASE UNCHANGED vars
  BY <1>7, FlightKept DEF vars, SensorHolds
<1>8. QED
  BY <1>1, <1>2, <1>3, <1>4, <1>5, <1>6, <1>7 DEF Next, SensorNext

(* A commit that keeps a header keeps its collection, and marks none but the *)
(* one it is about.                                                          *)
LEMMA CommitKeeps ==
  ASSUME TypeOK, NEW t, CommitCompleted(t) \/ CommitFails(t),
         NEW u \in Task, HasHeader(u)'
  PROVE  /\ HasHeader(u) /\ header'[u].coll = header[u].coll
         /\ data'[u] = data[u]
         /\ header'[u].state = header[u].state \/ (u = t /\ CommitCompleted(t))
<1>1. CASE CommitCompleted(t)
  <2>1. /\ header' = [header EXCEPT ![t].state = "COMPLETED"] /\ HasHeader(t)
        /\ UNCHANGED data
    BY <1>1 DEF CommitCompleted
  <2>2. CASE u = t
    <3>1. header[u] \in Header
      BY <2>1, <2>2 DEF HasHeader, TypeOK, FlashType
    <3>2. header'[u] = [header[u] EXCEPT !.state = "COMPLETED"]
      BY <2>1, <2>2 DEF TypeOK, FlashType
    <3>3. header'[u].coll = header[u].coll
      BY <3>1, <3>2 DEF Header
    <3>4. QED
      BY <1>1, <2>1, <2>2, <3>3
  <2>3. CASE u # t
    <3>1. header'[u] = header[u]
      BY <2>1, <2>3 DEF TypeOK, FlashType
    <3>2. QED
      BY <2>1, <3>1 DEF HasHeader
  <2>4. QED
    BY <2>2, <2>3
<1>2. CASE CommitFails(t)
  <2>1. CASE UNCHANGED <<header, data>>
    BY <2>1 DEF HasHeader
  <2>2. CASE LoseHeader(t)
    <3>1. /\ header' = [header EXCEPT ![t] = NoHeader]
          /\ data' = [data EXCEPT ![t] = <<>>]
      BY <2>2 DEF LoseHeader
    <3>2. u # t
      BY <3>1 DEF HasHeader, TypeOK, FlashType
    <3>3. header'[u] = header[u] /\ data'[u] = data[u]
      BY <3>1, <3>2 DEF TypeOK, FlashType
    <3>4. QED
      BY <3>3 DEF HasHeader
  <2>3. QED
    BY <1>2, <2>1, <2>2 DEF CommitFails
<1>3. QED
  BY <1>1, <1>2

(* A session is begun.                                                       *)
Begun ==
  /\ header' = [header EXCEPT ![sessId] =
                  [state |-> IF meta.pre THEN "COMPLETED" ELSE "RUNNING",
                   seq |-> nextSeq, total |-> meta.total,
                   epoch |-> meta.epoch, coll |-> meta.coll]]
  /\ data' = [data EXCEPT ![sessId] = <<>>]
  /\ tPc' = "bound"

LEMMA FlashSteps ==
  ASSUME TypeOK, [Next]_vars
  PROVE  \/ UNCHANGED <<header, data>>
         \/ StorageWrite /\ UNCHANGED header
         \/ \E t : CommitCompleted(t) \/ CommitFails(t)
         \/ StorageCommit /\ Begun
<1> USE DEF flashVars
<1>1. CASE ProtoNext
  BY <1>1 DEF ProtoNext, HandleStart, HandleSelftest, StartCollect, HandleStop,
     StopPersist
<1>2. CASE SensorNext
  BY <1>2 DEF SensorNext, SensorCheck, SensorConsume, SensorClear, SensorDone,
     SensorFinalize, SensorRequest, SensorSend
<1>3. CASE StorageCommit
  BY <1>3 DEF StorageCommit, Begun
<1>4. CASE StorageNext /\ ~StorageCommit
  BY <1>4 DEF StorageNext, StorageLoop, StorageIdent, StorageSession,
     StorageBegin, StorageRead, StorageBound, StorageReceive, StorageAppend,
     StorageWrite, StorageFinal, StorageSetState, StorageClear
<1>5. CASE Reset
  BY <1>5 DEF Reset, ResumeCollect, ResumeWith
<1>6. CASE UNCHANGED vars
  BY <1>6 DEF vars
<1>7. QED
  BY <1>1, <1>2, <1>3, <1>4, <1>5, <1>6 DEF Next

LEMMA HeaderSteps ==
  ASSUME TypeOK, SessionInv, [Next]_vars, NEW u \in Task, HasHeader(u)'
  PROVE  \/ HasHeader(u) /\ header'[u].coll = header[u].coll
         \/ /\ StorageCommit /\ Begun /\ u = sessId
            /\ header'[u].coll = meta.coll /\ data'[u] = <<>>
<1>1. CASE UNCHANGED header
  BY <1>1 DEF HasHeader
<1>2. CASE \E t : CommitCompleted(t) \/ CommitFails(t)
  BY <1>2, CommitKeeps
<1>3. CASE StorageCommit /\ Begun
  <2>1. CASE u = sessId
    <3>1. header'[u].coll = meta.coll /\ data'[u] = <<>>
      BY <1>3, <2>1 DEF Begun, TypeOK, FlashType
    <3>2. QED
      BY <1>3, <2>1, <3>1
  <2>2. CASE u # sessId
    <3>1. header'[u] = header[u]
      BY <1>3, <2>2 DEF Begun, TypeOK, FlashType
    <3>2. QED
      BY <3>1 DEF HasHeader
  <2>3. QED
    BY <2>1, <2>2
<1>4. QED
  BY <1>1, <1>2, <1>3, FlashSteps

(* The plan is made by START and SELFTEST, charged by the sensor task and    *)
(* made again by a reset.                                                    *)
Started ==
  \E t \in Task, count \in Nat, total \in Nat, e \in BOOLEAN, p \in BOOLEAN :
    StartCollect(t, count, total, e, p)

LEMMA PlanSteps ==
  [Next]_vars => Started \/ SensorConsume \/ Reset \/ UNCHANGED <<plan, colls>>
<1> SUFFICES ASSUME [Next]_vars
             PROVE  Started \/ SensorConsume \/ Reset \/ UNCHANGED <<plan, colls>>
  OBVIOUS
<1> USE DEF histVars
<1>1. CASE HandleStart
  BY <1>1, PipelineAssumption DEF HandleStart, Started
<1>2. CASE HandleSelftest
  BY <1>2 DEF HandleSelftest, Started
<1>3. CASE HandleStop \/ StopPersist
  BY <1>3 DEF HandleStop, StopPersist
<1>4. CASE SensorNext
  BY <1>4 DEF SensorNext, SensorCheck, SensorClear, SensorDone,
     SensorFinalize, SensorRequest, SensorSend
<1>5. CASE StorageNext
  BY <1>5 DEF StorageNext, StorageLoop, StorageIdent, StorageSession,
     StorageBegin, StorageRead, StorageCommit, StorageBound, StorageReceive,
     StorageAppend, StorageWrite, StorageFinal, StorageSetState, StorageClear
<1>6. CASE UNCHANGED vars
  BY <1>6 DEF vars
<1>7. QED
  BY <1>1, <1>2, <1>3, <1>4, <1>5, <1>6 DEF Next, ProtoNext

LEMMA StartedIs ==
  ASSUME TypeOK, Started
  PROVE  /\ plan'.coll = colls + 1 /\ colls' = colls + 1 /\ ~plan'.resumed
         /\ plan'.overtook = Overtakes(plan'.id) /\ plan'.taken = 0
         /\ plan'.gen = plan.gen + 1 /\ plan'.id \in Task
         /\ "FINALIZE_PENDING" \notin bits'
         /\ pPc = "idle" /\ pPc' = pPc
         /\ UNCHANGED <<header, data, meta, tPc, sPc, sessId, sessGen, ready,
                        stopped>>
<1>1. PICK t \in Task, count \in Nat, total \in Nat, e \in BOOLEAN, p \in BOOLEAN :
        StartCollect(t, count, total, e, p)
  BY DEF Started
<1>2. plan' = NewPlan(t, count, total, e, p)
  BY <1>1 DEF StartCollect
<1>3. QED
  BY <1>1, <1>2 DEF StartCollect, NewPlan, StartedBits, flashVars, storageVars,
     sensorVars, sessionVars, protoVars

LEMMA ConsumedIs ==
  ASSUME TypeOK, SensorConsume
  PROVE  /\ plan'.id = plan.id /\ plan'.coll = plan.coll /\ plan'.pre = plan.pre
         /\ plan'.resumed = plan.resumed /\ plan'.overtook = plan.overtook
         /\ plan'.goal = plan.goal /\ plan'.taken = plan.taken + 1
         /\ plan'.rem = RemainingAfterSample /\ plan'.gen = plan.gen
         /\ sRec'.num = samples /\ sRec'.coll = plan.coll
         /\ sRec'.rem = RemainingAfterSample
         /\ sPc = "delay"
         /\ Ending' => RemainingAfterSample = 0
         /\ UNCHANGED <<bits, colls, header, data, meta, tPc, sessId, sessGen,
                        ready, pPc, pId, stopped>>
<1>1. /\ plan' = [plan EXCEPT !.rem = RemainingAfterSample, !.taken = @ + 1]
      /\ sRec' = [num |-> samples, coll |-> plan.coll, id |-> plan.id,
                  rem |-> RemainingAfterSample]
      /\ sPc = "delay"
      /\ sPc' = IF RemainingAfterSample = 0 THEN "clear" ELSE "send"
      /\ UNCHANGED <<bits, colls, header, data, meta, tPc, sessId, sessGen,
                     ready, pPc, pId, stopped>>
  BY DEF SensorConsume, flashVars, storageVars, sessionVars, protoVars
<1>2. plan \in Plan
  BY DEF TypeOK, PlanType
<1>3. QED
  BY <1>1, <1>2 DEF Plan, Ending

LEMMA ResetIs ==
  ASSUME TypeOK, Reset
  PROVE  /\ tPc' = "loop" /\ sPc' = "idle" /\ pPc' = "idle" /\ ~ready'
         /\ ~hasPending' /\ queue' = <<>> /\ meta' = BootMeta
         /\ UNCHANGED <<colls, stopped>>
         /\ \/ StayIdle
            \/ \E t \in Task : \E rem \in Nat :
                 /\ Running(t) /\ ResumeWith(t, rem)
                 /\ \/ data[t] # <<>> /\ rem = RemainingStored(t) /\ rem # 0
                    \/ data[t] = <<>>
<1>1. CASE StayIdle
  BY <1>1 DEF Reset
<1>2. ASSUME NEW t \in Task, Resumable(t), ResumeCollect(t), ~StayIdle
      PROVE  \E rem \in Nat :
               /\ Running(t) /\ ResumeWith(t, rem)
               /\ \/ data[t] # <<>> /\ rem = RemainingStored(t) /\ rem # 0
                  \/ data[t] = <<>>
  <2>1. header[t].total \in Nat /\ Running(t)
    BY <1>2 DEF Resumable, Running, HasHeader, TypeOK, FlashType, Header
  <2>2. data[t] # <<>> => RemainingStored(t) \in Nat
    <3>1. data[t] \in Seq(Record)
      BY DEF TypeOK, FlashType
    <3>2. data[t] # <<>> => data[t][Len(data[t])] \in Record
      BY <3>1
    <3>3. QED
      BY <3>2 DEF RemainingStored, Record
  <2>3. QED
    BY <1>2, <2>1, <2>2 DEF ResumeCollect
<1>3. QED
  BY <1>1, <1>2 DEF Reset

LEMMA MetaSteps ==
  ASSUME TypeOK, [Next]_vars
  PROVE  /\ \/ meta' = BootMeta
            \/ meta'.coll = meta.coll
            \/ meta'.coll = plan.coll /\ UNCHANGED plan
         /\ tPc' = "commit" =>
              \/ tPc = "commit" /\ UNCHANGED meta
              \/ /\ UNCHANGED plan
                 /\ meta'.coll = plan.coll /\ meta'.pre = plan.pre
         /\ Reading' \/ tPc' = "commit" =>
              \/ Reading \/ tPc = "commit"
              \/ ~plan.resumed /\ UNCHANGED plan
<1> USE DEF storageVars, Reading
<1>1. CASE ProtoNext
  BY <1>1 DEF ProtoNext, HandleStart, HandleSelftest, StartCollect, HandleStop,
     StopPersist
<1>2. CASE SensorNext
  BY <1>2 DEF SensorNext, SensorCheck, SensorConsume, SensorClear, SensorDone,
     SensorFinalize, SensorRequest, SensorSend
<1>0. meta \in Meta
  BY DEF TypeOK, StorageType
<1>3. CASE StorageBegin
  <2>1. \/ UNCHANGED meta /\ tPc' \in {"loop", "recv", "bound"}
        \/ /\ meta'.coll = plan.coll /\ tPc' = "kind"
           /\ ~plan.resumed
    BY <1>0, <1>3 DEF StorageBegin, BeginFailed, Meta
  <2>2. UNCHANGED plan
    BY <1>3 DEF StorageBegin
  <2>3. QED
    BY <2>1, <2>2
<1>4. CASE StorageRead
  <2>1. PICK total \in Totals \union {0, meta.total, plan.total} :
          meta' = [meta EXCEPT !.id = plan.id, !.total = total,
                               !.pre = plan.pre, !.coll = plan.coll]
    BY <1>4 DEF StorageRead
  <2>2. meta'.coll = plan.coll /\ meta'.pre = plan.pre
    BY <1>0, <2>1 DEF Meta
  <2>3. tPc = "kind" /\ tPc' = "commit" /\ UNCHANGED plan
    BY <1>4 DEF StorageRead
  <2>4. QED
    BY <2>2, <2>3
<1>5. CASE StorageCommit
  BY <1>5 DEF StorageCommit, BeginFailed
<1>6. CASE StorageSession
  BY <1>6 DEF StorageSession, DropSession
<1>7. CASE \/ StorageLoop \/ StorageIdent \/ StorageBound \/ StorageReceive
           \/ StorageAppend \/ StorageWrite \/ StorageFinal \/ StorageSetState
           \/ StorageClear
  BY <1>7 DEF StorageLoop, StorageIdent, StorageBound, StorageReceive,
     StorageAppend, StorageWrite, StorageFinal, StorageSetState, StorageClear
<1>8. CASE Reset
  BY <1>8 DEF Reset
<1>9. CASE UNCHANGED vars
  BY <1>9 DEF vars
<1>10. QED
  BY <1>1, <1>2, <1>3, <1>4, <1>5, <1>6, <1>7, <1>8, <1>9
     DEF Next, StorageNext

(* No place holds a collection that is still to come: a START gives its plan *)
(* a number that no record, header or half-begun session has.                *)
CollsInv ==
  /\ plan.coll <= colls /\ meta.coll <= colls
  /\ \A t \in Task : HasHeader(t) => header[t].coll <= colls
  /\ \A r \in Flight : r.coll <= colls
  /\ Reading \/ tPc = "commit" => ~plan.resumed

LEMMA CollsInit == Init => CollsInv
<1> SUFFICES ASSUME Init PROVE CollsInv
  OBVIOUS
<1>1. Flight = {}
  BY DEF Init, Flight, SensorHolds
<1>2. QED
  BY <1>1 DEF Init, BootPlan, BootMeta, HasHeader, CollsInv, Reading

(* The collection of the plan, across any step.                              *)
LEMMA PlanColl ==
  ASSUME TypeOK, SessionInv, CollsInv, [Next]_vars
  PROVE  /\ plan'.coll <= colls' /\ colls <= colls' /\ colls' \in Nat
         /\ plan'.resumed => plan.resumed \/ Reset
<1>1. plan \in Plan /\ colls \in Nat
  BY DEF TypeOK, PlanType, HistType
<1>2. CASE Started
  BY <1>1, <1>2, StartedIs
<1>3. CASE SensorConsume
  BY <1>1, <1>3, ConsumedIs DEF CollsInv, Plan
<1>4. CASE Reset
  <2>1. CASE StayIdle
    BY <1>1, <1>4, <2>1, ResetIs DEF StayIdle, BootPlan
  <2>2. ASSUME NEW t \in Task, NEW rem \in Nat, Running(t), ResumeWith(t, rem)
        PROVE  plan'.coll <= colls' /\ colls' = colls
    <3>1. plan'.coll = header[t].coll
      BY <2>2 DEF ResumeWith, ResumePlan
    <3>2. QED
      BY <1>4, <2>2, <3>1, ResetIs DEF Running, CollsInv
  <2>3. QED
    BY <1>1, <1>4, <2>1, <2>2, ResetIs
<1>5. CASE UNCHANGED <<plan, colls>>
  BY <1>1, <1>5 DEF CollsInv
<1>6. QED
  BY <1>2, <1>3, <1>4, <1>5, PlanSteps

LEMMA CollsNext == TypeOK /\ SessionInv /\ CollsInv /\ [Next]_vars => CollsInv'
<1> SUFFICES ASSUME TypeOK, SessionInv, CollsInv, [Next]_vars PROVE CollsInv'
  OBVIOUS
<1>1. /\ plan'.coll <= colls' /\ colls <= colls' /\ colls \in Nat /\ colls' \in Nat
  BY PlanColl DEF TypeOK, HistType
<1>2. plan.coll \in Nat /\ meta.coll \in Nat
  BY DEF TypeOK, PlanType, Plan, StorageType, Meta
<1>3. meta'.coll <= colls'
  BY <1>1, <1>2, MetaSteps DEF BootMeta, CollsInv
<1>4. ASSUME NEW u \in Task, HasHeader(u)' PROVE header'[u].coll <= colls'
  <2>1. \/ header'[u].coll = meta.coll
        \/ HasHeader(u) /\ header'[u].coll = header[u].coll
    BY <1>4, HeaderSteps
  <2>2. HasHeader(u) => header[u].coll \in Nat
    BY DEF HasHeader, TypeOK, FlashType, Header
  <2>3. QED
    BY <1>1, <1>2, <2>1, <2>2 DEF CollsInv
<1>5. ASSUME NEW r \in Flight' PROVE r.coll <= colls'
  <2>1. CASE r \in Flight
    <3>1. r.coll \in Nat /\ r.coll <= colls
      BY <2>1, FlightType DEF Record, CollsInv
    <3>2. QED
      BY <1>1, <3>1
  <2>2. CASE r = sRec' /\ SensorConsume
    BY <1>1, <1>2, <2>2, ConsumedIs DEF CollsInv
  <2>3. QED
    BY <1>5, <2>1, <2>2, FlightSteps
<1>6. Reading' \/ tPc' = "commit" => ~plan'.resumed
  <2> SUFFICES ASSUME Reading' \/ tPc' = "commit" PROVE ~plan'.resumed
    OBVIOUS
  <2>1. ~Reset
    BY ResetIs DEF Reading
  <2>2. Reading \/ tPc = "commit" \/ ~plan.resumed
    BY MetaSteps
  <2>3. QED
    BY <2>1, <2>2, PlanColl DEF CollsInv
<1>7. \A u \in Task : HasHeader(u)' => header'[u].coll <= colls'
  BY <1>4
<1>8. QED
  BY <1>1, <1>3, <1>5, <1>6, <1>7 DEF CollsInv, HasHeader

(***************************************************************************)
(* COMPLETED means over.  The strengthening follows the request from the   *)
(* sensor task's last decrement to the header: while the sensor task is    *)
(* ending a plan, or its request is set, or the storage task is writing it *)
(* to the header of the active plan, that plan has no samples left - or is *)
(* one that overtook.  STOP's write is about the active plan.  And it      *)
(* follows a header that is COMPLETED to the session: one that is born so  *)
(* is a pretest's, one that is taken over was written for the plan that is *)
(* resumed, and a session has the generation of the active plan only if it *)
(* was bound to that plan.                                                 *)
(***************************************************************************)
Over == plan.rem = 0 \/ plan.overtook

Taken(t) == HasHeader(t) /\ (header[t].coll = plan.coll \/ Bound)

RequestInv ==
  /\ Ending \/ "FINALIZE_PENDING" \in bits => Over
  /\ tPc = "setstate" /\ sessId = plan.id /\ Taken(plan.id) => Over
  /\ pPc = "setstate" => pId = plan.id

BindingInv ==
  /\ Binding => ~ready
  /\ ready => sessGen <= plan.gen
  /\ tPc = "commit" /\ meta.coll = plan.coll => meta.pre = plan.pre
  /\ tPc = "commit" /\ meta.pre /\ sessId = plan.id => plan.pre \/ plan.overtook
  /\ tPc = "bound" /\ sessId = plan.id /\ header[plan.id].state = "COMPLETED" =>
       plan.pre \/ Over \/ plan.coll \in stopped
  /\ plan.resumed /\ HasHeader(plan.id) => header[plan.id].coll = plan.coll

OverInv == RequestInv /\ BindingInv /\ CompletedIsOver

LEMMA OverInit == Init => OverInv
  BY DEF Init, BootPlan, OverInv, RequestInv, BindingInv, Binding, Reading, Over,
     Ending, CompletedIsOver

(* Where the request to finalize, and the writes that carry it out, come from.*)
LEMMA RequestSteps ==
  ASSUME TypeOK, [Next]_vars, ~Reset
  PROVE  /\ Ending' => Ending \/ SensorConsume
         /\ "FINALIZE_PENDING" \in bits' => Ending \/ "FINALIZE_PENDING" \in bits
         /\ tPc' = "setstate" =>
              /\ UNCHANGED sessId
              /\ tPc = "setstate" \/ "FINALIZE_PENDING" \in bits
         /\ pPc' = "setstate" =>
              \/ pId' = plan.id /\ UNCHANGED plan
              \/ pPc = "setstate" /\ UNCHANGED pId
         /\ stopped \subseteq stopped'
<1> USE DEF sensorVars, protoVars, storageVars, sessionVars, histVars, Ending
<1>1. CASE HandleStart \/ HandleSelftest
  <2>1. /\ UNCHANGED <<sPc, pPc, pId, tPc, sessId, stopped>>
        /\ "FINALIZE_PENDING" \notin bits'
    BY <1>1 DEF HandleStart, HandleSelftest, StartCollect, StartedBits
  <2>2. tPc' = "setstate" => tPc = "setstate"
    BY <2>1
  <2>3. QED
    BY <2>1, <2>2
<1>2. CASE HandleStop \/ StopPersist
  BY <1>2 DEF HandleStop, StopPersist
<1>3. CASE SensorNext
  <2>1. UNCHANGED <<pPc, pId, tPc, sessId, stopped>>
    BY <1>3 DEF SensorNext, SensorCheck, SensorConsume, SensorClear,
       SensorDone, SensorFinalize, SensorRequest, SensorSend
  <2>2. Ending' => Ending \/ SensorConsume
    BY <1>3 DEF SensorNext, SensorCheck, SensorClear, SensorDone,
       SensorFinalize, SensorRequest, SensorSend
  <2>3. "FINALIZE_PENDING" \in bits' => Ending \/ "FINALIZE_PENDING" \in bits
    BY <1>3 DEF SensorNext, SensorCheck, SensorConsume, SensorClear,
       SensorDone, SensorFinalize, SensorRequest, SensorSend
  <2>4. QED
    BY <2>1, <2>2, <2>3
<1>4. CASE StorageNext
  <2>1. UNCHANGED <<sPc, pPc, pId, stopped>>
    BY <1>4 DEF StorageNext, StorageLoop, StorageIdent, StorageSession,
       StorageBegin, StorageRead, StorageCommit, StorageBound, StorageReceive,
       StorageAppend, StorageWrite, StorageFinal, StorageSetState, StorageClear
  <2>2. "FINALIZE_PENDING" \in bits' => "FINALIZE_PENDING" \in bits
    <3>1. \/ bits' = bits
          \/ bits' = bits \ {"STORAGE_READY"}
          \/ bits' = bits \union {"STORAGE_READY"}
          \/ bits' = bits \ {"FINALIZE_PENDING"}
      BY <1>4 DEF StorageNext, StorageLoop, StorageIdent, StorageSession,
         DropSession, StorageBegin, StorageRead, StorageCommit, StorageBound,
         StorageReceive, StorageAppend, StorageWrite, StorageFinal,
         StorageSetState, StorageClear
    <3>2. QED
      BY <3>1
  <2>3. tPc' = "setstate" => StorageFinal
    BY <1>4 DEF StorageNext, StorageLoop, StorageIdent, StorageSession,
       DropSession, StorageBegin, StorageRead, BeginFailed, StorageCommit,
       StorageBound, StorageReceive, StorageAppend, StorageWrite,
       StorageSetState, StorageClear
  <2>4. tPc' = "setstate" => "FINALIZE_PENDING" \in bits /\ UNCHANGED sessId
    BY <2>3 DEF StorageFinal, FinalizeDue
  <2>5. QED
    BY <2>1, <2>2, <2>4
<1>5. CASE UNCHANGED vars
  BY <1>5 DEF vars
<1>6. QED
  BY <1>1, <1>2, <1>3, <1>4, <1>5 DEF Next, ProtoNext

(* What makes a header COMPLETED: STOP, the storage task's state write, and  *)
(* the birth of a pretest's.                                                 *)
LEMMA CompletedBy ==
  ASSUME TypeOK, [Next]_vars, ~Reset,
         NEW u \in Task, HasHeader(u)', header'[u].state = "COMPLETED"
  PROVE  \/ /\ HasHeader(u) /\ header'[u].coll = header[u].coll
            /\ \/ header[u].state = "COMPLETED"
               \/ StopPersist /\ u = pId
               \/ StorageSetState /\ u = sessId
         \/ StorageCommit /\ u = sessId /\ header'[u].coll = meta.coll /\ meta.pre
<1>1. CASE UNCHANGED header
  BY <1>1 DEF HasHeader
<1>2. ASSUME NEW t, CommitCompleted(t) \/ CommitFails(t)
      PROVE  /\ HasHeader(u) /\ header'[u].coll = header[u].coll
             /\ header[u].state = "COMPLETED" \/ (u = t /\ CommitCompleted(t))
  BY <1>2, CommitKeeps
<1>3. CASE StopPersist
  BY <1>1, <1>2, <1>3 DEF StopPersist
<1>4. CASE StorageSetState
  BY <1>1, <1>2, <1>4 DEF StorageSetState
<1>5. CASE StorageCommit
  <2>1. CASE CommitFails(sessId)
    <3>1. ~CommitCompleted(sessId)
      BY <2>1 DEF CommitFails, CommitCompleted, TypeOK, HistType
    <3>2. QED
      BY <1>2, <2>1, <3>1
  <2>2. CASE Begun
    <3> DEFINE h == [state |-> IF meta.pre THEN "COMPLETED" ELSE "RUNNING",
                     seq |-> nextSeq, total |-> meta.total,
                     epoch |-> meta.epoch, coll |-> meta.coll]
    <3>1. header' = [header EXCEPT ![sessId] = h]
      BY <2>2 DEF Begun
    <3>2. CASE u = sessId
      <4>1. header'[u] = h
        BY <3>1, <3>2 DEF TypeOK, FlashType
      <4>2. meta.pre /\ header'[u].coll = meta.coll
        BY <4>1
      <4>3. QED
        BY <1>5, <3>2, <4>2
    <3>3. CASE u # sessId
      <4>1. header'[u] = header[u]
        BY <3>1, <3>3 DEF TypeOK, FlashType
      <4>2. QED
        BY <4>1 DEF HasHeader
    <3>4. QED
      BY <3>2, <3>3
  <2>3. QED
    BY <1>5, <2>1, <2>2 DEF StorageCommit, Begun
<1>6. UNCHANGED header \/ StopPersist \/ StorageSetState \/ StorageCommit
  <2> USE DEF flashVars
  <2>1. CASE ProtoNext
    BY <2>1 DEF ProtoNext, HandleStart, HandleSelftest, StartCollect,
       HandleStop
  <2>2. CASE SensorNext
    BY <2>2 DEF SensorNext, SensorCheck, SensorConsume, SensorClear,
       SensorDone, SensorFinalize, SensorRequest, SensorSend
  <2>3. CASE StorageNext
    BY <2>3 DEF StorageNext, StorageLoop, StorageIdent, StorageSession,
       StorageBegin, StorageRead, StorageBound, StorageReceive, StorageAppend,
       StorageWrite, StorageFinal, StorageClear
  <2>4. QED
    BY <2>1, <2>2, <2>3 DEF Next, vars
<1>7. QED
  BY <1>1, <1>3, <1>4, <1>5, <1>6

(* How the storage task comes to a session.                                  *)
LEMMA BindSteps ==
  ASSUME TypeOK, [Next]_vars, ~Reset
  PROVE  /\ Binding' => ~ready' \/ (Binding /\ UNCHANGED ready)
         /\ tPc' = "commit" => UNCHANGED sessId
         /\ tPc' = "bound" =>
              /\ UNCHANGED sessId
              /\ \/ tPc = "bound"
                 \/ StorageBegin /\ plan.resumed /\ UNCHANGED header
                 \/ StorageCommit /\ Begun
         /\ ready' =>
              /\ UNCHANGED sessId
              /\ \/ ready /\ UNCHANGED sessGen
                 \/ /\ tPc = "bound" /\ tPc' = "recv" /\ sessGen' = plan.gen
                    /\ UNCHANGED <<header, stopped, plan>>
<1> USE DEF storageVars, sessionVars, flashVars, histVars, Binding, Reading
<1>1. CASE ProtoNext \/ SensorNext \/ UNCHANGED vars
  <2>1. UNCHANGED <<tPc, sessId, sessGen, ready>>
    BY <1>1 DEF ProtoNext, HandleStart, HandleSelftest, StartCollect,
       HandleStop, StopPersist, SensorNext, SensorCheck, SensorConsume,
       SensorClear, SensorDone, SensorFinalize, SensorRequest, SensorSend, vars
  <2>2. QED
    BY <2>1
<1>2. CASE StorageSession
  <2>1. /\ ready' => ready /\ UNCHANGED <<sessId, sessGen>>
        /\ tPc' \in {"loop", "recv"} \/ (tPc' = "begin" /\ ~ready')
    BY <1>2 DEF StorageSession, DropSession, TypeOK, StorageType
  <2>2. QED
    BY <2>1
<1>3. CASE StorageBegin
  BY <1>3 DEF StorageBegin, BeginFailed
<1>4. CASE StorageRead
  BY <1>4 DEF StorageRead
<1>5. CASE StorageCommit
  <2>1. tPc = "commit" /\ UNCHANGED <<sessId, sessGen, ready>>
    BY <1>5 DEF StorageCommit
  <2>2. tPc' \in {"loop", "recv"} \/ Begun
    BY <1>5 DEF StorageCommit, BeginFailed, Begun
  <2>3. QED
    BY <1>5, <2>1, <2>2 DEF Begun
<1>6. CASE StorageBound
  BY <1>6 DEF StorageBound
<1>7. CASE \/ StorageLoop \/ StorageIdent \/ StorageReceive \/ StorageAppend
           \/ StorageWrite \/ StorageFinal \/ StorageSetState \/ StorageClear
  <2>1. UNCHANGED <<sessId, sessGen, ready>> /\ ~Binding' /\ tPc # "bound"
    BY <1>7 DEF StorageLoop, StorageIdent, StorageReceive, StorageAppend,
       StorageWrite, StorageFinal, StorageSetState, StorageClear
  <2>2. QED
    BY <2>1
<1>8. QED
  BY <1>1, <1>2, <1>3, <1>4, <1>5, <1>6, <1>7 DEF Next, StorageNext

LEMMA RequestPlanKept ==
  ASSUME TypeOK, SessionInv, CollsInv, OverInv, [Next]_vars, UNCHANGED plan,
         ~Reset, ~SensorConsume
  PROVE  RequestInv'
<1>1. Over' <=> Over
  BY DEF Over
<1>2. Ending' \/ "FINALIZE_PENDING" \in bits' => Over'
  BY <1>1, RequestSteps DEF OverInv, RequestInv
<1>3. ASSUME tPc' = "setstate", sessId' = plan'.id, Taken(plan.id)'
      PROVE  Over'
  <2>1. UNCHANGED sessId /\ (tPc = "setstate" \/ "FINALIZE_PENDING" \in bits)
    BY <1>3, RequestSteps
  <2>2. plan.id \in Task
    BY DEF TypeOK, PlanType, Plan
  <2>3. ~Begun
    BY <1>3 DEF Begun
  <2>4. HasHeader(plan.id)'
    BY <1>3 DEF Taken
  <2>5. HasHeader(plan.id) /\ header'[plan.id].coll = header[plan.id].coll
    BY <2>2, <2>3, <2>4, HeaderSteps
  <2>6. Bound' => Bound
    BY <1>3, BindSteps DEF Bound
  <2>7. Taken(plan.id)
    BY <1>3, <2>5, <2>6 DEF Taken
  <2>8. QED
    BY <1>1, <1>3, <2>1, <2>7 DEF OverInv, RequestInv
<1>4. pPc' = "setstate" => pId' = plan'.id
  BY RequestSteps DEF OverInv, RequestInv
<1>5. QED
  BY <1>2, <1>3, <1>4 DEF RequestInv

LEMMA BindingPlanKept ==
  ASSUME TypeOK, SessionInv, CollsInv, OverInv, [Next]_vars, UNCHANGED plan,
         ~Reset, ~SensorConsume
  PROVE  BindingInv'
<1> DEFINE u == plan.id
<1>1. u \in Task /\ plan.gen \in Nat
  BY DEF TypeOK, PlanType, Plan
<1>2. (Binding => ~ready)'
  BY BindSteps DEF OverInv, BindingInv
<1>3. (ready => sessGen <= plan.gen)'
  <2> SUFFICES ASSUME ready' PROVE sessGen' <= plan.gen
    OBVIOUS
  <2>1. (ready /\ sessGen' = sessGen) \/ sessGen' = plan.gen
    BY BindSteps
  <2>2. QED
    BY <1>1, <2>1 DEF OverInv, BindingInv
<1>4. (tPc = "commit" /\ meta.coll = plan.coll => meta.pre = plan.pre)'
  BY MetaSteps DEF OverInv, BindingInv
<1>5. (tPc = "commit" /\ meta.pre /\ sessId = plan.id
         => plan.pre \/ plan.overtook)'
  BY MetaSteps, BindSteps DEF OverInv, BindingInv
<1>6. ASSUME tPc' = "bound", sessId' = u, header'[u].state = "COMPLETED"
      PROVE  plan.pre \/ Over \/ plan.coll \in stopped'
  <2>1. HasHeader(u)'
    BY <1>6 DEF HasHeader, NoHeader
  <2>2. sessId = u
    BY <1>6, BindSteps
  <2>3. CASE tPc = "bound"
    <3>1. CASE header[u].state = "COMPLETED"
      BY <2>2, <2>3, <3>1, RequestSteps DEF OverInv, BindingInv
    <3>2. CASE StopPersist /\ u = pId
      BY <3>2 DEF StopPersist
    <3>3. ~StorageSetState /\ ~StorageCommit
      BY <2>3 DEF StorageSetState, StorageCommit
    <3>4. QED
      BY <1>1, <1>6, <2>1, <3>1, <3>2, <3>3, CompletedBy
  <2>4. CASE StorageBegin /\ plan.resumed /\ UNCHANGED header
    <3>1. HasHeader(u) /\ header[u].state = "COMPLETED"
      BY <1>6, <2>1, <2>4 DEF HasHeader
    <3>2. header[u].coll = plan.coll
      BY <2>4, <3>1 DEF OverInv, BindingInv
    <3>3. QED
      BY <3>1, <3>2, RequestSteps DEF OverInv, CompletedIsOver, Over
  <2>5. CASE StorageCommit /\ Begun
    <3>1. meta.pre
      BY <1>1, <1>6, <2>2, <2>5 DEF Begun, TypeOK, FlashType
    <3>2. QED
      BY <2>2, <2>5, <3>1 DEF StorageCommit, OverInv, BindingInv, Over
  <2>6. QED
    BY <1>6, <2>3, <2>4, <2>5, BindSteps
<1>7. ASSUME plan.resumed, HasHeader(u)' PROVE header'[u].coll = plan.coll
  <2>1. ~StorageCommit
    BY <1>7 DEF StorageCommit, CollsInv
  <2>2. QED
    BY <1>1, <1>7, <2>1, HeaderSteps DEF OverInv, BindingInv
<1>8. Over' <=> Over
  BY DEF Over
<1>9. /\ HasHeader(u)' <=> HasHeader(plan.id)'
      /\ header'[u] = header'[plan'.id] /\ plan'.id = u
  OBVIOUS
<1> HIDE DEF u
<1>10. /\ tPc' = "bound" /\ sessId' = plan'.id
       /\ header'[plan'.id].state = "COMPLETED"
       => plan'.pre \/ Over' \/ plan'.coll \in stopped'
  BY <1>6, <1>8, <1>9
<1>11. (plan.resumed /\ HasHeader(plan.id) => header[plan.id].coll = plan.coll)'
  BY <1>7, <1>9
<1>12. QED
  BY <1>2, <1>3, <1>4, <1>5, <1>10, <1>11 DEF BindingInv

LEMMA CompletedPlanKept ==
  ASSUME TypeOK, SessionInv, CollsInv, OverInv, [Next]_vars, UNCHANGED plan,
         ~Reset, ~SensorConsume
  PROVE  CompletedIsOver'
<1>1. Over' <=> Over
  BY DEF Over
<1> DEFINE u == plan.id
<1> SUFFICES ASSUME header'[u] # NoHeader, header'[u].state = "COMPLETED",
                    header'[u].coll = plan.coll \/ Bound', ~plan.pre,
                    plan.coll \notin stopped'
             PROVE  Over
  BY <1>1 DEF CompletedIsOver, HasHeader, Over
<1>2. u \in Task
  BY DEF TypeOK, PlanType, Plan
<1>3. CASE Bound' /\ ~ready
  <2>1. /\ tPc = "bound" /\ sessId = u
        /\ header'[u] = header[u] /\ stopped' = stopped
    BY <1>3, BindSteps DEF Bound
  <2>2. QED
    BY <2>1 DEF OverInv, BindingInv
<1>4. CASE header'[u].coll = plan.coll \/ (Bound' /\ ready)
  <2>1. Bound' /\ ready => Bound
    BY BindSteps DEF Bound, OverInv, BindingInv, Binding
  <2> HIDE DEF u
  <2>2. CASE /\ HasHeader(u) /\ header'[u].coll = header[u].coll
             /\ header[u].state = "COMPLETED"
    BY <1>4, <2>1, <2>2, RequestSteps DEF OverInv, CompletedIsOver, Over, u
  <2>3. CASE StopPersist /\ u = pId
    BY <2>3 DEF StopPersist
  <2>4. CASE /\ HasHeader(u) /\ header'[u].coll = header[u].coll
             /\ StorageSetState /\ u = sessId
    BY <1>4, <2>1, <2>4 DEF StorageSetState, OverInv, RequestInv, Taken, u
  <2>5. CASE /\ StorageCommit /\ u = sessId /\ header'[u].coll = meta.coll
             /\ meta.pre
    BY <1>4, <2>5 DEF StorageCommit, OverInv, BindingInv, Binding
  <2>6. QED
    BY <1>2, <2>2, <2>3, <2>4, <2>5, CompletedBy DEF HasHeader
<1>5. QED
  BY <1>3, <1>4

LEMMA OverStart ==
  ASSUME TypeOK, SessionInv, CollsInv, OverInv, Started
  PROVE  OverInv'
<1>1. /\ colls \in Nat /\ meta.coll \in Nat
      /\ plan.gen \in Nat /\ sessGen \in Nat
  BY DEF TypeOK, HistType, StorageType, Meta, PlanType, Plan
<1>2. \A t \in Task : HasHeader(t) => header[t].coll # colls + 1
  BY <1>1 DEF CollsInv, TypeOK, FlashType, HasHeader, Header
<1>3. \A t \in Task : HasHeader(t) => header[t].coll # plan'.coll
  BY <1>2, StartedIs
<1>4. meta.coll # plan'.coll
  BY <1>1, StartedIs DEF CollsInv
<1>5. /\ header' = header /\ sessId' = sessId /\ meta' = meta /\ pPc' = "idle"
      /\ sessGen' = sessGen /\ ready' = ready /\ tPc' = tPc
      /\ plan'.id \in Task /\ plan'.gen = plan.gen + 1 /\ ~plan'.resumed
  BY StartedIs
<1>6. ready => sessGen < plan'.gen
  BY <1>1, <1>5 DEF OverInv, BindingInv
<1>7. ~Taken(plan.id)'
  BY <1>1, <1>3, <1>5, <1>6 DEF Taken, HasHeader, Bound
<1>8. /\ Ending' <=> Ending
      /\ Binding' <=> Binding
  BY StartedIs DEF Ending, Binding, Reading
<1>9. Overtakes(plan'.id) => plan'.overtook
  BY StartedIs
<1>10. RequestInv'
  BY <1>5, <1>7, <1>8, <1>9, StartedIs DEF RequestInv, Over, Overtakes
<1>11. BindingInv'
  BY <1>1, <1>4, <1>5, <1>6, <1>8, <1>9
     DEF OverInv, BindingInv, Over, Overtakes, BindsCompleted
<1>12. CompletedIsOver'
  BY <1>7 DEF Taken, CompletedIsOver
<1>13. QED
  BY <1>10, <1>11, <1>12 DEF OverInv

LEMMA OverConsume ==
  ASSUME TypeOK, OverInv, SensorConsume
  PROVE  OverInv'
<1>1. Over => Over'
  BY ConsumedIs DEF Over, RemainingAfterSample
<1>2. Ending' => Over'
  BY ConsumedIs DEF Over
<1>3. /\ plan'.id = plan.id /\ plan'.coll = plan.coll /\ plan'.pre = plan.pre
      /\ plan'.gen = plan.gen /\ plan'.resumed = plan.resumed
      /\ plan'.overtook = plan.overtook
      /\ UNCHANGED <<header, stopped, bits, tPc, sessId, sessGen, ready, meta,
                     pPc, pId>>
  BY ConsumedIs
<1>4. Bound' <=> Bound
  BY <1>3 DEF Bound
<1>5. CompletedIsOver'
  BY <1>1, <1>3, <1>4 DEF OverInv, CompletedIsOver, HasHeader, Over
<1>6. RequestInv'
  BY <1>1, <1>2, <1>3, <1>4 DEF OverInv, RequestInv, Taken, HasHeader
<1>7. BindingInv'
  BY <1>1, <1>3 DEF OverInv, BindingInv, Binding, Reading, HasHeader
<1>8. QED
  BY <1>5, <1>6, <1>7 DEF OverInv

LEMMA OverReset ==
  ASSUME TypeOK, Reset
  PROVE  OverInv'
<1>1. tPc' = "loop" /\ sPc' = "idle" /\ pPc' = "idle" /\ ~ready'
  BY ResetIs
<1>2. CASE StayIdle
  <2>1. /\ "FINALIZE_PENDING" \notin bits' /\ plan'.rem = 0 /\ ~plan'.resumed
    BY <1>2 DEF StayIdle, BootPlan
  <2>2. QED
    BY <1>1, <2>1
       DEF OverInv, RequestInv, BindingInv, Over, CompletedIsOver, Ending,
           Binding, Reading
<1>3. ASSUME NEW t \in Task, NEW rem \in Nat, Running(t), ResumeWith(t, rem)
      PROVE  OverInv'
  <2>1. /\ plan'.id = t /\ bits' = StartedBits({}, rem)
        /\ plan'.coll = header[t].coll
    BY <1>3 DEF ResumeWith, ResumePlan
  <2>2. "FINALIZE_PENDING" \notin bits'
    BY <2>1 DEF StartedBits
  <2>3. header'[t] # NoHeader => /\ header'[t].state = "RUNNING"
                                 /\ header'[t].coll = header[t].coll
    <3>1. CASE UNCHANGED header
      BY <1>3, <3>1 DEF Running
    <3>2. CASE CommitFails(t)
      <4>1. ~CommitCompleted(t)
        BY <3>2 DEF CommitFails, CommitCompleted, TypeOK, HistType
      <4>2. QED
        BY <1>3, <3>2, <4>1, CommitKeeps DEF Running, HasHeader
    <3>3. QED
      BY <1>3, <3>1, <3>2 DEF ResumeWith
  <2>4. CompletedIsOver'
    BY <2>1, <2>3 DEF CompletedIsOver, HasHeader
  <2>5. RequestInv'
    BY <1>1, <2>2 DEF RequestInv, Ending
  <2>6. BindingInv'
    BY <1>1, <2>1, <2>3 DEF BindingInv, Binding, Reading, HasHeader
  <2>7. QED
    BY <2>4, <2>5, <2>6 DEF OverInv
<1>4. QED
  BY <1>2, <1>3, ResetIs

LEMMA OverNext ==
  TypeOK /\ SessionInv /\ CollsInv /\ OverInv /\ [Next]_vars => OverInv'
  BY PlanSteps, RequestPlanKept, BindingPlanKept, CompletedPlanKept, OverStart,
     OverConsume, OverReset DEF OverInv

(* The header of the active formal collection, be it begun for it or be its  *)
(* session bound to it, says COMPLETED only when its samples are taken, its  *)
(* STOP was acknowledged, or its START overtook another task that was still  *)
(* busy with the plan before, whatever the tasks' interleaving, the faults   *)
(* and the resets (task_storage.c:36, 65 and 186, task_manager.c:171).       *)
THEOREM CompletedMeansOver == Spec => []CompletedIsOver
<1>1. OverInv => CompletedIsOver
  BY DEF OverInv
<1>2. QED
  BY <1>1, TypeInit, TypeNext, SessionInit, SessionNext, CollsInit, CollsNext,
     OverInit, OverNext, PTL DEF Spec

(***************************************************************************)
(* Stored records count down.  The strengthening follows a record from the *)
(* sample to flash: the records of one collection that are on their way    *)
(* count down in the order they were taken and are not below what the plan *)
(* has left, and a slot that may still be filed into - the bound session's *)
(* or the resumed plan's - holds nothing below either.  Not being below is *)
(* enough, because a plan that is Charged is not charged again at zero.    *)
(***************************************************************************)
Charged == plan.taken > 0 \/ plan.goal > 0

MayFile(t) == \/ t = sessId /\ (ready \/ tPc = "bound")
              \/ t = plan.id /\ plan.resumed

FlightInv ==
  /\ \A r, q \in Flight : r.coll = q.coll /\ r.num < q.num => r.rem > q.rem
  /\ \A r \in Flight : r.coll = plan.coll => r.rem >= plan.rem /\ Charged

Ahead(t, rem) ==
  /\ \A r \in Flight : r.coll = header[t].coll => rem > r.rem
  /\ plan.coll = header[t].coll => rem >= plan.rem /\ Charged

BehindInv ==
  \A t \in Task : HasOwnOnly(t) /\ MayFile(t) =>
    \A i \in 1 .. Len(data[t]) : Ahead(t, data[t][i].rem)

CountInv ==
  /\ FlightInv /\ BehindInv /\ RemainingDescends
  /\ tPc = "write" => ready

LEMMA CountInit == Init => CountInv
<1> SUFFICES ASSUME Init PROVE CountInv
  OBVIOUS
<1>1. Flight = {}
  BY DEF Init, Flight, SensorHolds
<1>2. \A t \in Task : ~HasOwnOnly(t)
  BY DEF Init, HasOwnOnly, HasHeader
<1>3. QED
  BY <1>1, <1>2 DEF Init, CountInv, FlightInv, BehindInv, RemainingDescends

(* A record is on its way in the order of the samples, the pending one first.*)
LEMMA FlightNums ==
  ASSUME TypeOK, OrderInv, NEW r \in Flight
  PROVE  /\ r.num < samples
         /\ hasPending => r = pending \/ pending.num < r.num
<1>1. CASE \E i \in 1 .. Len(queue) : r = queue[i]
  BY <1>1 DEF OrderInv, QueueInv
<1>2. CASE hasPending /\ r = pending
  BY <1>2 DEF OrderInv, PendingInv
<1>3. CASE SensorHolds /\ r = sRec
  BY <1>3 DEF OrderInv, SensorInv
<1>4. QED
  BY <1>1, <1>2, <1>3 DEF Flight

(* The pending record is filed in the slot of u.                             *)
Filed(u) ==
  /\ StorageWrite /\ u = sessId /\ tPc = "write" /\ ~hasPending'
  /\ UNCHANGED <<queue, sPc, sRec, plan>>
  /\ data'[u] = Append(data[u], pending)

LEMMA WriteSteps ==
  ASSUME TypeOK, StorageWrite, NEW u \in Task
  PROVE  data'[u] = data[u] \/ Filed(u)
<1>1. CASE UNCHANGED data
  BY <1>1
<1>2. CASE data' = [data EXCEPT ![sessId] = Append(@, pending)] /\ AppendOk
  <2>1. CASE u = sessId
    <3>1. data'[u] = Append(data[u], pending)
      BY <1>2, <2>1 DEF TypeOK, FlashType
    <3>2. QED
      BY <1>2, <2>1, <3>1 DEF Filed, StorageWrite, AppendOk, Forget, sensorVars
  <2>2. CASE u # sessId
    BY <1>2, <2>2 DEF TypeOK, FlashType
  <2>3. QED
    BY <2>1, <2>2
<1>3. QED
  BY <1>1, <1>2 DEF StorageWrite, AppendOk, AppendFails

(* A slot whose records are all of its header's collection had that header   *)
(* and those records before the step, but for one that is filed just now.    *)
LEMMA OwnSteps ==
  ASSUME TypeOK, SessionInv, [Next]_vars,
         NEW u \in Task, HasOwnOnly(u)', data'[u] # <<>>
  PROVE  /\ HasOwnOnly(u) /\ header'[u].coll = header[u].coll
         /\ \/ data'[u] = data[u]
            \/ Filed(u) /\ pending.coll = header[u].coll
<1>1. HasHeader(u)' /\ \A i \in 1 .. Len(data'[u]) : data'[u][i].coll = header'[u].coll
  BY DEF HasOwnOnly
<1>2. CASE data'[u] = data[u] /\ HasHeader(u) /\ header'[u].coll = header[u].coll
  BY <1>1, <1>2 DEF HasOwnOnly
<1>3. CASE UNCHANGED <<header, data>>
  BY <1>1, <1>2, <1>3 DEF HasHeader
<1>4. CASE \E t : CommitCompleted(t) \/ CommitFails(t)
  BY <1>1, <1>2, <1>4, CommitKeeps
<1>5. CASE StorageCommit /\ Begun
  <2>1. u # sessId
    BY <1>5 DEF Begun, TypeOK, FlashType
  <2>2. header'[u] = header[u] /\ data'[u] = data[u]
    BY <1>5, <2>1 DEF Begun, TypeOK, FlashType
  <2>3. QED
    BY <1>1, <1>2, <2>2 DEF HasHeader
<1>6. CASE StorageWrite /\ UNCHANGED header
  <2>1. HasHeader(u)
    BY <1>1, <1>6 DEF HasHeader
  <2>2. CASE Filed(u)
    <3>1. data[u] \in Seq(Record) /\ pending \in Record
      BY DEF TypeOK, FlashType, PendingType
    <3>2. data'[u] = Append(data[u], pending)
      BY <2>2 DEF Filed
    <3>3. \A i \in 1 .. Len(data[u]) : i \in 1 .. Len(data'[u]) /\ data'[u][i] = data[u][i]
      BY <3>1, <3>2
    <3>4. /\ Len(data[u]) + 1 \in 1 .. Len(data'[u])
          /\ data'[u][Len(data[u]) + 1] = pending
      BY <3>1, <3>2
    <3>5. QED
      BY <1>1, <1>6, <2>1, <2>2, <3>3, <3>4 DEF HasOwnOnly
  <2>3. CASE data'[u] = data[u]
    BY <1>2, <1>6, <2>1, <2>3
  <2>4. QED
    BY <1>6, <2>2, <2>3, WriteSteps
<1>7. QED
  BY <1>3, <1>4, <1>5, <1>6, FlashSteps

(* A slot becomes one to file into only when it is begun, empty; a resumed   *)
(* session is begun on a slot that was one already.                          *)
LEMMA MayFileSteps ==
  ASSUME TypeOK, SessionInv, [Next]_vars, ~Reset,
         plan'.resumed => plan.resumed /\ plan'.id = plan.id,
         NEW u \in Task, MayFile(u)', data'[u] # <<>>
  PROVE  MayFile(u)
<1> USE DEF storageVars, sessionVars
<1>1. CASE u = plan'.id /\ plan'.resumed
  BY <1>1 DEF MayFile
<1>2. CASE u = sessId' /\ (ready' \/ tPc' = "bound")
  <2>1. CASE ProtoNext \/ SensorNext \/ UNCHANGED vars
    <3>1. UNCHANGED <<sessId, ready, tPc>>
      BY <2>1 DEF ProtoNext, HandleStart, HandleSelftest, StartCollect,
         HandleStop, StopPersist, SensorNext, SensorCheck, SensorConsume,
         SensorClear, SensorDone, SensorFinalize, SensorRequest, SensorSend,
         vars
    <3>2. QED
      BY <1>2, <3>1 DEF MayFile
  <2>2. CASE StorageSession
    BY <1>2, <2>2 DEF StorageSession, DropSession, MayFile
  <2>3. CASE StorageBegin
    BY <1>2, <2>3 DEF StorageBegin, BeginFailed, SessionInv, BindInv, MayFile
  <2>4. CASE StorageCommit
    <3>1. sessId' = sessId /\ ready' = ready
      BY <2>4 DEF StorageCommit
    <3>2. CASE Begun
      BY <1>2, <3>1, <3>2 DEF Begun, TypeOK, FlashType
    <3>3. CASE ~Begun
      BY <1>2, <2>4, <3>1, <3>3 DEF StorageCommit, Begun, BeginFailed, MayFile
    <3>4. QED
      BY <3>2, <3>3
  <2>5. CASE StorageBound
    BY <1>2, <2>5 DEF StorageBound, MayFile
  <2>6. CASE \/ StorageLoop \/ StorageIdent \/ StorageReceive \/ StorageAppend
             \/ StorageWrite \/ StorageFinal \/ StorageSetState \/ StorageClear
             \/ StorageRead
    <3>1. UNCHANGED <<sessId, ready>> /\ tPc' # "bound"
      BY <2>6 DEF StorageRead, StorageLoop, StorageIdent, StorageReceive,
         StorageAppend, StorageWrite, StorageFinal, StorageSetState,
         StorageClear
    <3>2. QED
      BY <1>2, <3>1 DEF MayFile
  <2>7. QED
    BY <2>1, <2>2, <2>3, <2>4, <2>5, <2>6 DEF Next, StorageNext
<1>3. QED
  BY <1>1, <1>2 DEF MayFile

(* What the new sample says is left is below every count the plan has passed.*)
LEMMA LeftBelow ==
  ASSUME TypeOK, BudgetInv, SensorConsume,
         NEW rem \in Nat, rem >= plan.rem, Charged
  PROVE  rem > RemainingAfterSample
<1>1. plan.rem \in Nat /\ plan.goal \in Nat /\ plan.taken \in Nat
  BY DEF TypeOK, PlanType, Plan
<1>2. sPc = "delay"
  BY ConsumedIs
<1>3. plan.rem # 0
  BY <1>1, <1>2 DEF BudgetInv, Charged
<1>4. QED
  BY <1>1, <1>3 DEF RemainingAfterSample

LEMMA ConsumedCharged ==
  ASSUME TypeOK, SensorConsume
  PROVE  /\ Charged' /\ plan'.rem <= plan.rem /\ plan'.rem \in Nat
         /\ plan'.coll = plan.coll
<1>1. plan.rem \in Nat /\ plan.taken \in Nat
  BY DEF TypeOK, PlanType, Plan
<1>2. QED
  BY <1>1, ConsumedIs DEF Charged, RemainingAfterSample

LEMMA FlightNext ==
  ASSUME TypeOK, BudgetInv, OrderInv, SessionInv, CollsInv, CountInv,
         [Next]_vars
  PROVE  FlightInv'
<1>1. ASSUME NEW r \in Flight PROVE r.rem \in Nat /\ r.num \in Nat /\ r.coll \in Nat
  BY FlightType DEF Record
<1>2. plan.rem \in Nat /\ colls \in Nat
  BY DEF TypeOK, PlanType, Plan, HistType
<1>3. CASE SensorConsume
  <2>1. \A r \in Flight' : r \in Flight \/ r = sRec'
    BY FlightSteps
  <2>2. ASSUME NEW r \in Flight, r.coll = plan.coll
        PROVE  r.rem > RemainingAfterSample
    BY <1>1, <1>3, <2>2, LeftBelow DEF CountInv, FlightInv
  <2>3. /\ sRec'.num = samples /\ sRec'.coll = plan.coll
        /\ sRec'.rem = RemainingAfterSample /\ plan'.rem = sRec'.rem
    BY <1>3, ConsumedIs
  <2>4. /\ Charged' /\ plan'.rem <= plan.rem /\ plan'.rem \in Nat
        /\ plan'.coll = plan.coll
    BY <1>3, ConsumedCharged
  <2>5. ASSUME NEW r \in Flight', NEW q \in Flight', r.coll = q.coll, r.num < q.num
        PROVE  r.rem > q.rem
    <3>1. samples \in Nat
      BY DEF TypeOK, HistType
    <3>2. r # sRec'
      <4>1. q \in Flight => q.num < samples /\ q.num \in Nat
        BY <1>1, FlightNums
      <4>2. QED
        BY <2>1, <2>3, <2>5, <3>1, <4>1
    <3>3. CASE q = sRec'
      BY <2>1, <2>2, <2>3, <2>5, <3>2, <3>3
    <3>4. CASE q \in Flight
      BY <2>1, <2>5, <3>2, <3>4 DEF CountInv, FlightInv
    <3>5. QED
      BY <2>1, <3>3, <3>4
  <2>6. ASSUME NEW r \in Flight', r.coll = plan'.coll
        PROVE  r.rem >= plan'.rem
    <3>1. CASE r = sRec'
      BY <2>3, <2>4, <3>1
    <3>2. CASE r \in Flight
      <4>1. r.rem >= plan.rem /\ r.rem \in Nat
        BY <1>1, <2>4, <2>6, <3>2 DEF CountInv, FlightInv
      <4>2. QED
        BY <1>2, <2>4, <4>1
    <3>3. QED
      BY <2>1, <3>1, <3>2
  <2>7. QED
    BY <2>4, <2>5, <2>6 DEF FlightInv
<1>4. CASE ~SensorConsume
  <2>1. Flight' \subseteq Flight
    BY <1>4, FlightSteps
  <2>2. CASE Started
    <3>1. plan'.coll = colls + 1
      BY <2>2, StartedIs
    <3>2. \A r \in Flight : r.coll # plan'.coll
      BY <1>1, <1>2, <3>1 DEF CollsInv
    <3>3. QED
      BY <2>1, <3>2 DEF CountInv, FlightInv
  <2>3. CASE Reset
    <3>1. Flight' = {}
      BY <2>3, ResetIs DEF Flight, SensorHolds
    <3>2. QED
      BY <3>1 DEF FlightInv
  <2>4. CASE UNCHANGED plan
    BY <2>1, <2>4 DEF CountInv, FlightInv, Charged
  <2>5. QED
    BY <1>4, <2>2, <2>3, <2>4, PlanSteps
<1>5. QED
  BY <1>3, <1>4

LEMMA PlanResumed ==
  ASSUME TypeOK, [Next]_vars, ~Reset
  PROVE  plan'.resumed => plan.resumed /\ plan'.id = plan.id
  BY PlanSteps, StartedIs, ConsumedIs

(* A step that neither resumes nor files leaves a count ahead of the rest.   *)
LEMMA AheadKept ==
  ASSUME TypeOK, BudgetInv, SessionInv, CollsInv, [Next]_vars, ~Reset,
         NEW u \in Task, HasHeader(u), header'[u].coll = header[u].coll,
         NEW rem \in Nat, Ahead(u, rem)
  PROVE  Ahead(u, rem)'
<1>1. ASSUME NEW r \in Flight PROVE r.rem \in Nat /\ r.num \in Nat /\ r.coll \in Nat
  BY FlightType DEF Record
<1>2. plan.rem \in Nat /\ colls \in Nat
  BY DEF TypeOK, PlanType, Plan, HistType
<1>3. CASE SensorConsume
  <2>1. /\ Charged' /\ plan'.rem <= plan.rem /\ plan'.rem \in Nat
        /\ plan'.coll = plan.coll
    BY <1>3, ConsumedCharged
  <2>2. sRec'.coll = plan.coll /\ sRec'.rem = RemainingAfterSample
    BY <1>3, ConsumedIs
  <2>3. plan.coll = header[u].coll => rem > RemainingAfterSample
    BY <1>3, LeftBelow DEF Ahead
  <2>4. \A r \in Flight' : r.coll = header[u].coll => rem > r.rem
    BY <2>2, <2>3, FlightSteps DEF Ahead
  <2>5. plan.coll = header[u].coll => rem >= plan'.rem
    BY <1>2, <2>1 DEF Ahead
  <2>6. QED
    BY <2>1, <2>4, <2>5 DEF Ahead
<1>4. CASE ~SensorConsume
  <2>1. Flight' \subseteq Flight
    BY <1>4, FlightSteps
  <2>2. CASE Started
    <3>1. plan'.coll = colls + 1
      BY <2>2, StartedIs
    <3>2. header[u].coll \in Nat /\ header[u].coll <= colls
      BY DEF CollsInv, HasHeader, TypeOK, FlashType, Header
    <3>3. plan'.coll # header[u].coll
      BY <1>2, <3>1, <3>2
    <3>4. QED
      BY <2>1, <3>3 DEF Ahead
  <2>3. CASE UNCHANGED plan
    BY <2>1, <2>3 DEF Ahead, Charged
  <2>4. QED
    BY <1>4, <2>2, <2>3, PlanSteps
<1>5. QED
  BY <1>3, <1>4

(* What is still on its way when a record is filed was sampled after it.     *)
LEMMA FiledLater ==
  ASSUME TypeOK, OrderInv, NEW u, Filed(u)
  PROVE  /\ pending \in Flight
         /\ \A r \in Flight' : r \in Flight /\ pending.num < r.num
<1>1. hasPending
  BY DEF Filed, OrderInv, PendingInv
<1>2. pending \in Flight
  BY <1>1 DEF Flight
<1>3. queue' = queue /\ sRec' = sRec /\ sPc' = sPc /\ ~hasPending'
  BY DEF Filed
<1>4. Flight' = {queue[i] : i \in 1 .. Len(queue)} \union {r \in {sRec} : SensorHolds}
  BY <1>3 DEF Flight, SensorHolds
<1>5. \A i \in 1 .. Len(queue) : pending.num < queue[i].num
  BY <1>1 DEF OrderInv, QueueInv
<1>6. SensorHolds => pending.num < sRec.num
  BY <1>1 DEF OrderInv, SensorInv
<1>7. QED
  BY <1>2, <1>4, <1>5, <1>6 DEF Flight

LEMMA BehindReset ==
  ASSUME TypeOK, CountInv, Reset, NEW u \in Task,
         HasOwnOnly(u)', MayFile(u)', NEW i \in 1 .. Len(data'[u]),
         NEW c, c = data'[u][i].rem
  PROVE  Ahead(u, c)'
<1>1. Flight' = {}
  BY ResetIs DEF Flight, SensorHolds
<1>2. u = plan'.id /\ plan'.resumed
  BY ResetIs DEF MayFile
<1>3. ~StayIdle
  BY <1>2 DEF StayIdle, BootPlan
<1>4. PICK t \in Task : \E rem \in Nat :
        /\ Running(t) /\ ResumeWith(t, rem)
        /\ \/ data[t] # <<>> /\ rem = RemainingStored(t) /\ rem # 0
           \/ data[t] = <<>>
  BY <1>3, ResetIs
<1>5. PICK rem \in Nat :
        /\ Running(t) /\ ResumeWith(t, rem)
        /\ \/ data[t] # <<>> /\ rem = RemainingStored(t) /\ rem # 0
           \/ data[t] = <<>>
  BY <1>4
<1>6. /\ plan'.id = t /\ plan'.rem = rem /\ plan'.goal = rem
      /\ plan'.coll = header[t].coll
  BY <1>5 DEF ResumeWith, ResumePlan
<1>7. HasHeader(u)'
  BY DEF HasOwnOnly
<1>8. HasHeader(u) /\ header'[u].coll = header[u].coll /\ data'[u] = data[u]
  <2>1. CASE CommitFails(t)
    BY <1>7, <2>1, CommitKeeps
  <2>2. CASE UNCHANGED <<header, data>>
    BY <1>7, <2>2 DEF HasHeader
  <2>3. QED
    BY <1>5, <2>1, <2>2 DEF ResumeWith
<1>9. data[u] \in Seq(Record) /\ data[u] # <<>> /\ i \in 1 .. Len(data[u])
  BY <1>8 DEF TypeOK, FlashType
<1>10. rem = data[u][Len(data[u])].rem /\ rem # 0
  BY <1>2, <1>5, <1>6, <1>9 DEF RemainingStored
<1>11. HasOwnOnly(u)
  BY <1>8 DEF HasOwnOnly
<1>12. data[u][i].rem >= rem
  <2>1. Len(data[u]) \in 1 .. Len(data[u]) /\ i \in Nat
    BY <1>9
  <2>2. CASE i = Len(data[u])
    BY <1>10, <2>2
  <2>3. CASE i < Len(data[u])
    <3>1. data[u][i].rem > data[u][Len(data[u])].rem
      BY <1>9, <1>11, <2>1, <2>3 DEF CountInv, RemainingDescends
    <3>2. data[u][i] \in Record
      BY <1>9
    <3>3. QED
      BY <1>10, <3>1, <3>2 DEF Record
  <2>4. QED
    BY <1>9, <2>2, <2>3
<1>13. Charged'
  <2>1. plan'.goal > 0
    BY <1>6, <1>10
  <2>2. QED
    BY <2>1 DEF Charged
<1>14. c >= plan'.rem
  BY <1>6, <1>8, <1>12
<1>15. QED
  BY <1>1, <1>13, <1>14 DEF Ahead

LEMMA BehindNext ==
  ASSUME TypeOK, BudgetInv, OrderInv, SessionInv, CollsInv, CountInv,
         [Next]_vars,
         NEW u \in Task, HasOwnOnly(u)', MayFile(u)', NEW i \in 1 .. Len(data'[u]),
         NEW c, c = data'[u][i].rem
  PROVE  Ahead(u, c)'
<1>1. CASE Reset
  BY <1>1, BehindReset
<1>2. CASE ~Reset
  <2>1. data[u] \in Seq(Record)
    BY DEF TypeOK, FlashType
  <2>2. data'[u] # <<>>
    OBVIOUS
  <2>3. MayFile(u)
    BY <1>2, <2>2, MayFileSteps, PlanResumed
  <2>4. /\ HasOwnOnly(u) /\ header'[u].coll = header[u].coll
        /\ \/ data'[u] = data[u]
           \/ Filed(u) /\ pending.coll = header[u].coll
    BY <2>2, OwnSteps
  <2>5. \A j \in 1 .. Len(data[u]) : Ahead(u, data[u][j].rem)
    BY <2>3, <2>4 DEF CountInv, BehindInv
  <2>6. HasHeader(u)
    BY <2>4 DEF HasOwnOnly
  <2>7. ASSUME NEW j \in 1 .. Len(data[u]), c = data[u][j].rem
        PROVE  Ahead(u, c)'
    <3>1. Ahead(u, c)
      BY <2>5, <2>7
    <3>2. data[u][j] \in Record
      BY <2>1
    <3>3. c \in Nat
      BY <2>7, <3>2 DEF Record
    <3>4. QED
      BY <1>2, <2>4, <2>6, <3>1, <3>3, AheadKept
  <2>8. CASE data'[u] = data[u]
    BY <2>7, <2>8
  <2>9. CASE Filed(u) /\ pending.coll = header[u].coll
    <3>1. data'[u] = Append(data[u], pending) /\ UNCHANGED plan
      BY <2>9 DEF Filed
    <3>2. CASE i \in 1 .. Len(data[u])
      <4>1. c = data[u][i].rem
        BY <2>1, <3>1, <3>2
      <4>2. QED
        BY <2>7, <3>2, <4>1
    <3>3. CASE i = Len(data[u]) + 1
      <4>1. c = pending.rem
        BY <2>1, <3>1, <3>3
      <4>2. /\ pending \in Flight
            /\ \A r \in Flight' : r \in Flight /\ pending.num < r.num
        BY <2>9, FiledLater
      <4>3. \A r \in Flight' : r.coll = header'[u].coll => c > r.rem
        BY <2>4, <2>9, <4>1, <4>2 DEF CountInv, FlightInv
      <4>4. plan.coll = header[u].coll => c >= plan.rem /\ Charged
        BY <2>9, <4>1, <4>2 DEF CountInv, FlightInv
      <4>5. QED
        BY <2>4, <3>1, <4>3, <4>4 DEF Ahead, Charged
    <3>4. i \in 1 .. Len(data[u]) \/ i = Len(data[u]) + 1
      BY <2>1, <3>1
    <3>5. QED
      BY <3>2, <3>3, <3>4
  <2>10. QED
    BY <2>4, <2>8, <2>9
<1>3. QED
  BY <1>1, <1>2

LEMMA DescendsNext ==
  ASSUME TypeOK, OrderInv, SessionInv, CountInv, [Next]_vars
  PROVE  RemainingDescends'
<1> SUFFICES ASSUME NEW u \in Task, HasOwnOnly(u)',
                    NEW i \in 1 .. Len(data'[u]), NEW j \in 1 .. Len(data'[u]),
                    i < j
             PROVE  data'[u][i].rem > data'[u][j].rem
  BY DEF RemainingDescends
<1>1. data[u] \in Seq(Record)
  BY DEF TypeOK, FlashType
<1>2. data'[u] # <<>>
  OBVIOUS
<1>3. /\ HasOwnOnly(u)
      /\ \/ data'[u] = data[u]
         \/ Filed(u) /\ pending.coll = header[u].coll
  BY <1>2, OwnSteps
<1>4. CASE data'[u] = data[u]
  BY <1>3, <1>4 DEF CountInv, RemainingDescends
<1>5. CASE Filed(u) /\ pending.coll = header[u].coll
  <2>1. data'[u] = Append(data[u], pending)
    BY <1>5 DEF Filed
  <2>2. i \in 1 .. Len(data[u]) /\ data'[u][i] = data[u][i]
    BY <1>1, <2>1
  <2>3. CASE j \in 1 .. Len(data[u])
    <3>1. data'[u][j] = data[u][j]
      BY <1>1, <2>1, <2>3
    <3>2. QED
      BY <1>3, <2>2, <2>3, <3>1 DEF CountInv, RemainingDescends
  <2>4. CASE j = Len(data[u]) + 1
    <3>1. data'[u][j] = pending
      BY <1>1, <2>1, <2>4
    <3>2. MayFile(u)
      BY <1>5 DEF Filed, CountInv, MayFile
    <3>3. pending \in Flight
      BY <1>5, FiledLater
    <3>4. Ahead(u, data[u][i].rem)
      BY <1>3, <2>2, <3>2 DEF CountInv, BehindInv
    <3>5. QED
      BY <1>5, <2>2, <3>1, <3>3, <3>4 DEF Ahead
  <2>5. j \in 1 .. Len(data[u]) \/ j = Len(data[u]) + 1
    BY <1>1, <2>1
  <2>6. QED
    BY <2>3, <2>4, <2>5
<1>6. QED
  BY <1>3, <1>4, <1>5

LEMMA WriteReady ==
  ASSUME TypeOK, CountInv, [Next]_vars
  PROVE  tPc' = "write" => ready'
<1> USE DEF storageVars, sessionVars
<1>1. CASE ProtoNext \/ SensorNext \/ UNCHANGED vars
  BY <1>1 DEF CountInv, ProtoNext, HandleStart, HandleSelftest, StartCollect,
     HandleStop, StopPersist, SensorNext, SensorCheck, SensorConsume,
     SensorClear, SensorDone, SensorFinalize, SensorRequest, SensorSend, vars
<1>2. CASE StorageNext
  BY <1>2 DEF StorageNext, StorageLoop, StorageIdent, StorageSession,
     DropSession, StorageBegin, StorageRead, BeginFailed, StorageCommit,
     StorageBound, StorageReceive, StorageAppend, StorageWrite, StorageFinal,
     StorageSetState, StorageClear
<1>3. CASE Reset
  BY <1>3, ResetIs
<1>4. QED
  BY <1>1, <1>2, <1>3 DEF Next

LEMMA CountNext ==
  TypeOK /\ BudgetInv /\ OrderInv /\ SessionInv /\ CollsInv /\ CountInv
    /\ [Next]_vars => CountInv'
<1> SUFFICES ASSUME TypeOK, BudgetInv, OrderInv, SessionInv, CollsInv, CountInv,
                    [Next]_vars
             PROVE  CountInv'
  OBVIOUS
<1>1. ASSUME NEW u \in Task, HasOwnOnly(u)', MayFile(u)',
             NEW i \in 1 .. Len(data'[u])
      PROVE  /\ \A r \in Flight' : r.coll = header'[u].coll => data'[u][i].rem > r.rem
             /\ plan'.coll = header'[u].coll
                  => data'[u][i].rem >= plan'.rem /\ Charged'
  <2>1. \A c : c = data'[u][i].rem => Ahead(u, c)'
    BY <1>1, BehindNext
  <2>2. QED
    BY <2>1 DEF Ahead
<1>2. BehindInv'
  BY <1>1 DEF BehindInv, Ahead
<1>3. QED
  BY <1>2, FlightNext, DescendsNext, WriteReady DEF CountInv

(* Through any number of resets, faults and commands, the stored records of  *)
(* a collection that the slot holds alone count down: no sample that is in   *)
(* flash is taken again (task_manager.c:226, main.c:69).                     *)
THEOREM RecordsCountDown == Spec => []RemainingDescends
<1>1. CountInv => RemainingDescends
  BY DEF CountInv
<1>2. QED
  BY <1>1, TypeInit, TypeNext, BudgetInit, BudgetNext, OrderInit, OrderNext,
     SessionInit, SessionNext, CollsInit, CollsNext, CountInit, CountNext, PTL
     DEF Spec
=============================================================================
