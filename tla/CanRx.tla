------------------------------- MODULE CanRx --------------------------------
(***************************************************************************)
(* The liquid level on its way from the CAN bus into the records: the      *)
(* receive interrupt of bsp_can.c, which pushes frames into a ring, and    *)
(* the sensor task, which once a period takes some frames out of it        *)
(* (APP_CAN_Process), keeps the last one decoded, and judges it for the    *)
(* record it makes (APP_CAN_GetLatest).                                    *)
(*                                                                         *)
(* The interrupt may come between any two steps of the sensor task.  Time  *)
(* goes on while the sensor task waits; what it does when it is awake takes*)
(* less than a tick.  Only its comparison with a timeout matters of an     *)
(* age, so ages stop growing beyond it.  The captures of app_can.c         *)
(* (APP_CAN_StartCapture) have no caller and are left out.                 *)
(***************************************************************************)
EXTENDS RingBuff

CONSTANTS
  FrameCells,     \* sizeof(bsp_can_frame_t)
  ProcessMax,     \* APP_CAN_PROCESS_MAX_FRAMES
  Period,         \* the sampling period
  OfflineTimeout, \* APP_CAN_OFFLINE_TIMEOUT_MS
  MaxArrived,     \* bound: frames on the bus
  MaxStarts       \* bound: collections started

RingFrames == RingSize \div FrameCells

ASSUME CanRxAssumption ==
  /\ FrameCells \in Nat \ {0} /\ RingSize = FrameCells * RingFrames
  /\ ProcessMax \in 1 .. RingFrames - 1
  /\ Period \in Nat \ {0} /\ OfflineTimeout \in Nat
  /\ MaxArrived \in Nat /\ MaxStarts \in Nat
  /\ Cell = [num : 1 .. MaxArrived, part : 1 .. FrameCells, ok : BOOLEAN]

VARIABLES
  ring,        \* s_rxRb
  dropped,     \* s_rxDropped
  latest,      \* s_ctx.latest: the number of the frame, 0 for none
  latestAge,   \* now - s_ctx.latest_rx_timestamp_ms
  sticky,      \* s_ctx.sticky_diag
  lastDropped, \* s_ctx.last_dropped
  running,     \* COLLECT_RUNNING
  sPc,         \* sensor task: where it is
  wakeIn,      \* ticks until vTaskDelayUntil returns
  taken,       \* the loop counter of APP_CAN_Process
  frame,       \* its frame: the cells read from the ring last
  rec,         \* the last record made
  arrived,     \* history: frames on the bus so far
  lost,        \* history: frames there was no room for
  silence,     \* history: ticks since the last frame
  starts       \* history: collections started

sensorVars == <<latest, sticky, lastDropped, sPc, taken, frame, rec>>
vars == <<ring, dropped, latestAge, sensorVars, running, wakeIn, arrived, lost,
          silence, starts>>
-----------------------------------------------------------------------------
Number == 0 .. MaxArrived
Diag == {"OFFLINE", "DECODE_FAIL", "RX_DROPPED"}
NoRecord == [frame |-> 0, offline |-> TRUE, diag |-> {}]
AgeLimit == OfflineTimeout + Period + 1

TypeOK ==
  /\ ring \in Ring
  /\ dropped \in Number /\ lastDropped \in Number
  /\ latest \in Number /\ latestAge \in 0 .. AgeLimit
  /\ sticky \subseteq Diag \ {"OFFLINE"}
  /\ running \in BOOLEAN
  /\ sPc \in {"idle", "wait", "read", "judge"}
  /\ wakeIn \in 0 .. Period /\ taken \in 0 .. ProcessMax
  /\ frame \in Seq(Cell)
  /\ rec \in [frame : Number, offline : BOOLEAN, diag : SUBSET Diag]
  /\ arrived \in Number /\ lost \subseteq 1 .. arrived
  /\ silence \in 0 .. AgeLimit /\ starts \in 0 .. MaxStarts

Init ==
  /\ ring = EmptyRing /\ dropped = 0
  /\ latest = 0 /\ latestAge = 0 /\ sticky = {} /\ lastDropped = 0
  /\ running = FALSE /\ sPc = "idle" /\ wakeIn = 0 /\ taken = 0
  /\ frame = <<>> /\ rec = NoRecord
  /\ arrived = 0 /\ lost = {} /\ silence = AgeLimit /\ starts = 0
-----------------------------------------------------------------------------
(* The bus and the interrupt.                                                *)

Frame(n, ok) ==
  [p \in 1 .. FrameCells |-> [num |-> n, part |-> p, ok |-> ok]]

Fits == FrameCells <= Unused(ring)

(* bsp_can_rx_cb.  A frame that the mailbox lost to the next one before the  *)
(* interrupt was served (RxOverflow) is not counted.  The mailbox only takes *)
(* frames of the one id; one that is not 8 bytes long is not ok.             *)
Receive(ok, overrun) ==
  /\ arrived + overrun < MaxArrived
  /\ arrived' = arrived + overrun + 1
  /\ silence' = 0
  /\ ring' = Push(ring, Frame(arrived', ok))
  /\ IF Fits THEN UNCHANGED <<dropped, lost>>
     ELSE dropped' = dropped + 1 /\ lost' = lost \union {arrived'}
  /\ UNCHANGED <<latestAge, sensorVars, running, wakeIn, starts>>

(* START and STOP, of which only the bit COLLECT_RUNNING concerns the sensor *)
(* task here.                                                                *)
Start ==
  /\ ~running /\ starts < MaxStarts
  /\ running' = TRUE /\ starts' = starts + 1
  /\ UNCHANGED <<ring, dropped, latestAge, sensorVars, wakeIn, arrived, lost,
                 silence>>

Stop ==
  /\ running
  /\ running' = FALSE
  /\ UNCHANGED <<ring, dropped, latestAge, sensorVars, wakeIn, arrived, lost,
                 silence, starts>>

Later(age) == IF age < AgeLimit THEN age + 1 ELSE age

Tick ==
  /\ \/ sPc = "wait" /\ wakeIn > 0 /\ wakeIn' = wakeIn - 1
     \/ sPc = "idle" /\ ~running /\ UNCHANGED wakeIn
  /\ latestAge' = Later(latestAge) /\ silence' = Later(silence)
  /\ UNCHANGED <<ring, dropped, sensorVars, running, arrived, lost, starts>>
-----------------------------------------------------------------------------
(* The sensor task.  It looks at COLLECT_RUNNING before it waits for the     *)
(* period to end, not after.                                                 *)

SensorWait ==
  /\ sPc = "idle" /\ running
  /\ sPc' = "wait" /\ wakeIn' = Period
  /\ UNCHANGED <<ring, dropped, latest, latestAge, sticky, lastDropped,
                 running, taken, frame, rec, arrived, lost, silence, starts>>

(* The flags that app_can_update_dropped leaves.                             *)
FlagsFromTwo ==
  IF dropped > lastDropped + 1 THEN sticky \union {"RX_DROPPED"} ELSE sticky

Flags ==
  IF dropped # lastDropped THEN sticky \union {"RX_DROPPED"} ELSE sticky

SensorWake ==
  /\ sPc = "wait" /\ wakeIn = 0
  /\ sPc' = "read" /\ taken' = 0
  /\ sticky' = Flags /\ lastDropped' = dropped
  /\ UNCHANGED <<ring, dropped, latest, latestAge, running, wakeIn, frame, rec,
                 arrived, lost, silence, starts>>

FrameThere == Used(ring) >= FrameCells

AfterReadKept == ring

AfterRead == AfterPop(ring, FrameCells)

(* One turn of the loop of APP_CAN_Process.  The time of a frame is the time *)
(* it is taken out of the ring.                                              *)
SensorRead ==
  /\ sPc = "read" /\ taken < ProcessMax /\ FrameThere
  /\ frame' = Peek(ring, FrameCells)
  /\ IF \A p \in 1 .. FrameCells : frame'[p].ok
     THEN /\ latest' = frame'[1].num /\ latestAge' = 0
          /\ UNCHANGED sticky
     ELSE /\ sticky' = sticky \union {"DECODE_FAIL"}
          /\ UNCHANGED <<latest, latestAge>>
  /\ ring' = AfterRead
  /\ taken' = taken + 1
  /\ UNCHANGED <<dropped, lastDropped, running, sPc, wakeIn, rec, arrived,
                 lost, silence, starts>>

SensorReadEnd ==
  /\ sPc = "read" /\ (taken = ProcessMax \/ ~FrameThere)
  /\ sPc' = "judge"
  /\ UNCHANGED <<ring, dropped, latest, latestAge, sticky, lastDropped,
                 running, wakeIn, taken, frame, rec, arrived, lost, silence,
                 starts>>

Offline == latest = 0 \/ latestAge > OfflineTimeout

SensorJudge ==
  /\ sPc = "judge"
  /\ sPc' = "idle"
  /\ rec' = [frame |-> latest, offline |-> Offline,
             diag |-> IF Offline THEN sticky \union {"OFFLINE"} ELSE sticky]
  /\ UNCHANGED <<ring, dropped, latest, latestAge, sticky, lastDropped,
                 running, wakeIn, taken, frame, arrived, lost, silence,
                 starts>>
-----------------------------------------------------------------------------
SensorNext == \/ SensorWait \/ SensorWake \/ SensorRead
              \/ SensorReadEnd \/ SensorJudge

Next == \/ \E ok \in BOOLEAN, overrun \in {0, 1} : Receive(ok, overrun)
        \/ Start \/ Stop \/ Tick
        \/ SensorNext

Spec == Init /\ [][Next]_vars

(* Time passes, and the sensor task, of a high priority, gets to run.        *)
Fairness == WF_vars(Tick) /\ WF_vars(SensorNext)
FairSpec == Spec /\ Fairness
-----------------------------------------------------------------------------
(* Properties.                                                               *)

(* However often the ring has wrapped, filled up and been read with the      *)
(* interrupt in between, it implements a queue of whole frames: what the     *)
(* task is given is always the oldest frame, whole and once, and none is     *)
(* refused while there is room.                                              *)
Queue == INSTANCE ByteFifo
           WITH Data <- {Frame(n, ok) : n \in 1 .. MaxArrived, ok \in BOOLEAN},
                Portion <- FrameCells, Capacity <- RingSize - 1,
                queue <- Content(ring), got <- frame, refused <- dropped

RingIsFifo == Queue!Spec

(* When the value kept is younger than a frame there was no room for, the    *)
(* records say RX_DROPPED: a gap in the values is never passed unmarked, and *)
(* a frame dropped while the task reads is marked before the task gets to    *)
(* the frames behind the gap.  Only the captures, which nobody calls, take   *)
(* the mark away (app_can.c:129, 155), so it is the first gap since power-on *)
(* that could go wrong here.                                                 *)
GapIsFlagged ==
  (\E n \in lost : n < latest) => "RX_DROPPED" \in sticky

(* When the bus has fallen silent, as it does when the bound on frames is    *)
(* reached, and the collection goes on, the records end up saying so.        *)
SilenceShown == <>[]running => <>[]rec.offline

(* The liquid level of a record is that of a bus that was there within the   *)
(* timeout, or marked as not connected.                                      *)
OfflineShown ==
  (sPc = "judge" /\ ~Offline) => silence <= OfflineTimeout + Period
=============================================================================
