# A verified model of the BLE data collector

This directory models the firmware of the data collector
(`src/ZKFJ_BLE_wireless_uart_freertos/source`, below just `source/`): a
battery-powered MCXW716 board that samples temperature, pressure and a liquid
level from a CAN bus, files the samples in an external NOR flash and hands them
to a host over BLE. The models are written in TLA+, checked with TLC on small
instances, and the main safety properties are proved with TLAPS for instances of
every size.

Contents

1. The system: parts, state, interactions, what is hard
2. Modules and how they correspond to the code
3. Runs: what is checked, the bounds, what they show
4. Disagreements between the code and what it says of itself
5. Proofs
6. Not modelled, and why
7. Plan

## 1. The system

Everything runs on one core under FreeRTOS, preemptive, without time slicing:
the watchdog task (priority 5), the protocol task (4), the sensor task (3), the
storage task (2), the erase task (2), the LED task (1), the tasks of the BLE
host, and interrupts. Priorities decide which interleavings exist: a step of a
model is what a task does between two points at which a more urgent task can run
and see the difference.

| part | source | state | operations |
|---|---|---|---|
| collection plan | `task/task_manager.c` | `s_collect` (period, remaining and total count, time base, flags), `s_active_task_id`, `s_task_gen`, event group | `TASK_StartCollect`, `TASK_StopCollect`, `TASK_ConsumeOneSample`, `TASK_ResumeFromFlash` at boot |
| sensor task | `task/task_sensor_collect.c` | its position, the record it builds | wait a period, sample, charge the plan, send to the queue |
| storage task | `task/task_storage.c` | session (`s_storage_ready`, task id, generation), pending record and its fail count | begin a session, drain the queue, append with retries, write COMPLETED |
| flash store | `app/app_storage.c` | flash: 8 slots with a header sector and two append-only areas; RAM: the open slot `s_active`, `s_task_seq_next` | begin, append, read, set state, delete, format; search for the end of an area |
| erase service | `app/app_storage.c`, `protocol/proto_cmd_handler.c` | request queue, ERASING bit, the store's mutex | CLEAR_TASK, block erases with progress reports |
| commands | `protocol/*.c` | frame parser, command queue, connected flag | byte-wise reception, one command at a time, acknowledgement |
| history pull | `protocol/proto_cmd_handler.c` | position in the window it sends | REQUEST_HISTORY: read a chunk, send it, pause |
| CAN reception | `bsp/bsp_can.c`, `app/app_can.c` | receive ring, drop counter; last decoded value, sticky diagnosis | interrupt, `APP_CAN_Process`, `APP_CAN_GetLatest` |
| byte ring | `bsp/bsp_ringBuff.c` | buffer, head, tail | push, peek, discard, pop |
| UART log | `bsp/bsp_uart.c` | ring, chunk, busy flag | print, completion callback |
| sensors | `app/app_sensor.c`, `algorithm/*` | filters | sample and convert |

How they interact:

* host → BLE callback → parser → command queue → protocol task, which calls the
  task manager and the store;
* task manager ↔ sensor and storage tasks through the event bits
  COLLECT_RUNNING, COLLECT_DONE, FINALIZE_PENDING, QUEUE_DROPPED and through
  reads of the plan, each in a critical section of its own (so two reads are not
  consistent with each other);
* sensor task → bounded queue → storage task → store;
* the store's mutex serialises the storage, protocol and erase tasks;
* interrupt → ring → sensor task.

What is hard here: the plan, the bits and the session are changed by three tasks
in steps that are not atomic together; the device can be reset between any two
flash operations and must resume the collection that was running; erasing and
programming can fail; the store finds its own end after a reset by a search over
flash that earlier tasks have used; buffers overflow. There are no tests in the
repository. PROJECT.json lists every hazard found, at its line, with the
properties about it or the reason there is none yet.

What makes each part correct:

* pipeline: every sample is filed at most once, in order, under the task it was
  taken for; a plan is never overcharged; COMPLETED means over; STOP is final,
  also across resets; a running collection is carried to its end across resets;
* store: an acknowledged record stays in place until its task is begun anew,
  evicted or deleted; nothing is programmed onto words that are not erased; one
  slot for a task; what a reopened slot is taken to hold is what was
  acknowledged; deleting one task leaves the others alone;
* CAN reception: the ring is a queue of whole frames; a gap is marked before a
  value behind it is used; a silent bus shows in the records;
* erase service: no two tasks inside the store; nobody sees a slot half erased as
  the open one; what was asked to be erased is erased; no command waits for ever;
* commands: bytes that are lost or left over from an earlier connection never
  become a command; what is acknowledged was handled; a host that repeats gets
  through;
* history pull: the host ends up with the beginning of the file and nothing
  else, and with all of it if it goes on.

## 2. Modules

### Pipeline (`Pipeline.tla`, instances in `MCPipeline.tla`)

Plan, event bits, queue, the handlers of START, SELFTEST and STOP, the sensor
and storage tasks, the headers and records in flash, and the reset that resumes
a collection. `sPc`, `pPc` and `tPc` are the positions of the three tasks.

| actions | code |
|---|---|
| `HandleStart`, `HandleSelftest` | `proto_cmd_handler.c:251-287` with `TASK_StartCollect`, one step: nothing less urgent runs in it |
| `HandleStop`, `StopPersist` | `proto_handle_stop_collect`: two steps, because the second waits for the store's mutex |
| `SensorCheck` … `SensorSend` | the loop of `TASK_SensorCollectTask`. Its 50 ms pause and the end of a round, where it can wait to send its live frame, are one position: both lead to the look at COLLECT_RUNNING. The critical section of `TASK_ConsumeOneSample` is one step, the bit operations after it and the look at `TASK_IsPretest` between them one each: the protocol task preempts between them |
| `StorageLoop` … `StorageClear` | the loop of `task_storage.c:88-200`: copy of the session condition, id, generation, binding, begin, drain (only the newest queued record is kept as pending), append, FINALIZE |
| `StorageBegin`, `StorageRead`, `StorageCommit`, `StorageBound` | `task_storage_begin_if_needed`: the look at `TASK_IsResumed` with the time base, the other parameters of the header, its write, and the generation, which is read last. Each parameter has a critical section of its own in the code. The time base may be merged with the look, because a START between the two has the effect of one ahead of both. A START later on leaves a header mixed of two plans: the old time base, any total (of the one's period and the other's duration), and the state and the history of the plan that `TASK_IsPretest` is asked about |
| `Reset` | a reset at any step and `TASK_ResumeFromFlash` at the next boot |

Flash operations are one step each with three outcomes: done, failed without
effect, failed with the header lost. `FlashMayRun` encodes the priorities: the
storage task advances only while the sensor task is blocked, or while it holds
the mutex that STOP waits for. `samples`, `colls`, `stopped`, the `num`, `coll`
and `id` of a record and `goal`, `taken` and `overtook` of the plan are history;
no guard reads them, except that `colls` is bounded. `overtook` marks a plan whose
START came while another task was still busy with the plan before (`Overtakes`):
the sensor task on its way from the last decrement to the request to finalize
(`Ending`), or the storage task about to bind a session of the same task to a
header that is, or will be, COMPLETED (`BindsCompleted`).

### FlashStore and EndSearch (`MCFlashStore.tla`)

The store below the calls that Pipeline takes as one step: each erase of a
sector or block and each program of a piece of a record is a step of its own, is
allowed to fail having had its effect, none or part of it, and a reset can come
after each. The flash is modelled by words; a record has two (the 16 and the 4
bytes that `APP_Storage_AppendData` programs one after the other), and
programming a word that is not erased garbles it. `op` is the call under way,
of which there is one at most because calls hold the mutex. `Scan` is the size
that `app_store_scan_committed_size_locked` finds: `Found` says which records have
a head in flash, and `Search` and `End` of EndSearch are the binary search for
where they end, as a recursive function so that it can be proved about.
`NextErase` is the erase address after a reopening, `Block` what the chip erases
for an address.

Three variables are history. `log` has, for each task and area, an entry for each
record that was acknowledged: its number, the slot, and the word where it begins.
`stale` has the slots about which the open slot in RAM was wrong since their task
was begun: the deletion of a neighbour took a slot's end away while it was open, or
a begin failed after its header was programmed and left another slot open for the
same task. `holed` has those of which this was ever so, because a hole among old
records outlives the next begin, which erases only the first sectors. AckedInPlace
is about the slots that are not stale, FreshWords about those that are not holed;
section 4 says what becomes of the others.

### CanRx, RingBuff, ByteFifo (`MCCanRx.tla`)

`RingBuff` has the operations of `bsp_ringBuff.c` as operators on a ring's
state, including the two-part copies and the index arithmetic; `Content` is what
a ring stands for. `ByteFifo` is the abstract specification: a bounded queue
that takes data whole or refuses it for want of room, and gives it back oldest
first (`got` is what the last get gave). `CanRx` composes the ring with the
interrupt (`Receive`), the loop of `APP_CAN_Process` (`SensorWake`, `SensorRead`, `SensorReadEnd`), the verdict of
`APP_CAN_GetLatest` (`SensorJudge`) and time (`Tick`). The interrupt may come
between any two of these. `Queue` instantiates `ByteFifo` with the refinement
mapping `queue <- Content(ring)`, `got <- frame`, `refused <- dropped`, where
`frame` is what the sensor task read last; `RingIsFifo` is its specification and
is checked and proved of `CanRx`.

### EraseService (`EraseService.tla`)

The mutex with the task that holds it (`holder`), the request queue, the ERASING
bit, and the three tasks that meet there: `pPc`, `tPc` and `ePc` are the
positions of the protocol, storage and erase tasks. The slots are abstracted to
whether a task has a header and of which begin (`header`); which words a block
erase hits is in FlashStore.

| actions | code |
|---|---|
| `ClearTask`, `ProtoTake`, `ClearQueued` | `proto_handle_clear_task`: ERASING set, `APP_Storage_Init` under the mutex, the request queued or refused, ERASING cleared in either case |
| `ReadCommand`, `ReadStore` | any command that reads the store, and so opens another slot |
| `StorageBegin` … `AppendData` | the storage task's two calls of the store |
| `EraseReceive` … `EraseUnset` | `APP_Storage_EraseTask`: one step for each block, the error path that unlocks twice, ERASING cleared at the end |
| `HaltedLoop` | `configASSERT` after the mutex is given back by a task that does not hold it |

`Give` is `app_store_unlock` with what FreeRTOS does of it: giving back a free
mutex fails and is ignored, giving back another task's stops the device.
`LowRuns` is the priorities: the storage and erase tasks run only while the
protocol task waits for the mutex or has nothing to do.

### CommandLink (`CommandLink.tla`, `MCCommandLink.tla`)

`RxByte` takes one byte through `PROTO_FrameParseByte` (`Collecting`, one
disjunct for each state of the parser; `Checking` for the last byte) and queues
the command if it is good and there is room (`PROTO_OnRxBytes`). `DeviceTake`
and `DeviceHandle` are the loop of `PROTO_CmdTask` with its acknowledgement.
Frames with a code from 0xE0 to 0xEF (`NoCrcCmd`) are accepted without CRC. Here
they can only arise by misreading; they change nothing. The first three codes
(`SilentCmd`) are the debug commands, which print and are not acknowledged; the
others are acknowledged as unsupported (`proto_cmd_handler.c:728`). `LoseBytes`,
`Disconnect` and `Connect` are the link: the parser and the queue stay as they
are. `HostStart`, `HostRepeat`, `HostAck` are an external host, which repeats a
command until it is acknowledged.

### HistoryPull, FileTransfer (`HistoryPull.tla`)

`DeviceTake` … `DevicePause` are `proto_handle_request_history`: size of the
file and acknowledgement, then per frame a read, a transmission and a pause; the
storage task appends (`FileGrows`), commands come in and the link breaks between
any two of these. `Transmit` is `proto_send` with the BLE stack behind it: a
frame goes to the controller, is dropped because the link is down, or is lost.
The host (external) is the state machine of `doc/历史数据拉取改善.md:257-281`.
Offsets count records and not bytes.
`FileTransfer` is the abstract specification: a file that grows, of which the
host has the beginning. `Transfer` instantiates it with the mapping
`phase <- Phase` (a failed host is broken off), `PullIsTransfer` is its
specification, checked and proved of `HistoryPull`.

### Faulty variants

Some definitions are used by nothing: each is a faulty variant of the definition
below it (a dropped guard, a forgotten reset, an off-by-one), listed in
PROJECT.json under "mutants". Every property is checked to fail when the variant
takes the place of the definition, so that no property holds by itself.

## 3. Runs

| run | checks | shows |
|---|---|---|
| `pipeline_commands` | TypeOK, StoredOnce, SampleBudget, SessionHasHeader, RemainingDescends, CompletedIsOver | START, SELFTEST and STOP of two tasks in every interleaving with sampling, filing and a reset |
| `pipeline_resume` | RemainingDescends, CompletedIsOver, RunningSettles, FinalizeServed, QueueDrained | one collection through two resets, a failed flash operation and STOP, under the fairness below |
| `flash_faults` | AckedInPlace, SlotsConsistent | three tasks in two slots, with a fault, a reset, a deletion or format |
| `flash_reuse` | TypeOK, FreshWords | slots begun anew, evicted and reopened, both areas, a reset, no fault |
| `can_ring` | TypeOK, GapIsFlagged, RingIsFifo, SilenceShown | the ring wraps, fills up and drops while it is read |
| `erase_service` | TypeOK, OneInStore, ActiveHasHeader, HaltNeedsDeadChip, ClearedGone, ErasingSettles, CommandsServed | two tasks' slots cleared, begun, read and appended to, a chip that cannot be initialised, a block that fails |
| `history_pull` | TypeOK, PullIsTransfer, PullCompletes | a growing file pulled over a link that loses frames and breaks, requests repeated early, a full queue |
| `command_link` | TypeOK, NoPhantom, AckedRan, GetsThrough | frames cut short and misread, two of them with the same code, with the beginning of a debug frame in a payload |
| `pipeline_stop`, `pipeline_erase`, `flash_scan`, `flash_delete` | one property each, violated | see section 4 |

Bounds, and why they are enough:

* Pipeline: two tasks and two plans are what it takes for one plan to disturb
  another; a plan of 1 sample ends at once, one of 2 can be resumed half way, one
  of 0 is what a duration of 0 gives. The queue holds 2 instead of 32, so that
  it fills. One reset brings a resume, two a resume of a resume. One failed
  operation exercises every error path; `FailLimit` is 2, so a record is both
  retried and given up (`pipeline_resume` has one fault, so there it is only
  retried).
* FlashStore: 2 slots (of 8) for 3 tasks force evictions. A slot has 4 sectors
  (header, 1 pretest, 2 data) and a block 3, so that slots are not multiples of
  blocks, as 255 sectors are not of 16. A sector has 3 words and a record 2, so
  that records straddle sectors, as 20-byte records do in 4096 bytes. 3 begins
  and 3 or 4 records fill an area and start it again.
* CanRx: a ring of 8 cells, 2 to a frame, holds 3 frames (31 in the code); 5
  frames arrive, so it overflows, wraps, and is read while it does; 2 frames are
  read per sample (10). As in the code the ring's size is a multiple of a frame's,
  so a frame does not straddle the end of the storage; that a push or pop that
  does is right as well is in the lemmas `PushAppends` and `PopTakes`. Ages stop
  growing once they are beyond every comparison. Period and timeout are 1 tick;
  only their order matters.
* EraseService: two tasks, so that one is open while the other is erased; a slot
  of two blocks, the one with the header and another; a queue of 1 and two
  CLEAR_TASKs, so that a second comes during an erase and finds the queue empty
  or full; two begins, so that a task is begun again after it was erased. Three
  refusals of the chip are what it takes for the device to stop, which
  HaltNeedsDeadChip says and the instance can reach.
* CommandLink: three commands, two of them with the same code, so that an
  acknowledgement can be taken for that of the other; one has the bytes of a frame
  start and a debug code in its payload, one a code that needs no CRC and is
  answered; a queue of 1, so that a repetition finds it full; two troubles (lost
  bytes, a lost acknowledgement, a break, an early repetition).
* HistoryPull: a file of up to 5 records in chunks of 2, so that the last frame is
  short; windows of 2 frames, so that a pull takes two; the device's limit of 3 is
  beyond the host's, as in the code; a queue of 2 and a controller of 3 frames fill
  up; two losses, one early timeout and one break; retries up to 4, which is more
  than losses and early timeouts together, as PullCompletes needs.
* Task ids in FlashStore are symmetric (no liveness is checked there).

Deadlock is checked except in `history_pull` and `command_link`, where a host
that has finished stops; elsewhere the passing time, the idling tasks or a
repeated STOP always leave something to do.

Fairness. Pipeline: weak fairness of the sensor task and of the second half of
STOP, which are the most urgent runnable tasks again and again; strong fairness
of the storage task, which runs whenever the sensor task sleeps, that is
repeatedly and not continuously. Nothing forces the host to send, nor a reset.
CanRx: time passes, and the sensor task gets to run. `SilenceShown` needs no
fairness of the bus: the bound on frames is the bus falling silent.
EraseService: weak fairness of the protocol task, the most urgent of the three;
strong fairness of the storage and of the erase task. Both have the same
priority and there is no time slicing, so one runs until it blocks; the storage
task blocks in its receive, without the mutex, in every round, and the erase
task, if it waits for the mutex, gets it then: it is able to run again and
again, and is not passed over for ever. HistoryPull and CommandLink: weak
fairness of the device's tasks and of the host, and the link comes back after a
break. Nothing forces a command, a collection, a loss, a break or a failure;
these are bounded, so liveness is about what happens when they have ceased.

What the passing properties say is stated above each one in the modules. The
ones that took the most care: `RunningSettles` (a collection that is RUNNING in
flash does not stay so for ever, through resets and failures; its excuses are
the code's own gaps and are spelled out), `AckedInPlace` (no reopening, erase on
demand or torn record brings a later append over an acknowledged one) and
`GapIsFlagged` (a frame dropped while the task reads is marked before the task
gets to the frames behind the gap, which rests on the task reading fewer frames
per sample than the ring holds), `OneInStore` with `HaltNeedsDeadChip` (the
second unlock on the erase task's error path either finds the mutex free and
does nothing, or stops the device; it never lets two tasks in) and
`PullIsTransfer` (windows that overlap because a request was repeated, or that
go on into the next connection, never make the host take a record twice or from
behind a gap).

## 4. Disagreements

The first four are each a run that TLC must find violated; PROJECT.json quotes
the line of the repository that the code contradicts.

* `StopIsFinal`: a STOP acknowledged while the storage task is between its
  decision to begin a session and the write of the RUNNING header is undone by
  a reset: the collection is resumed.
* `ErasedForOwnPlan`: after a resume, a START of another task between the
  storage task's copy of the id and its look at the plan makes it begin the
  resumed task's slot anew: its records are erased.
* `ScanIsLog`: beginning a task erases only the first sector of each area; when
  the slot is reopened the binary search finds records of an earlier collection
  in the later sectors.
* `DeleteIsExact`: deleting by 64 KB blocks leaves the end of the slot and hits
  the slot before it.

These were met while modelling. `FiledUnderOwnTask`, `OfflineShown`, `AckedWasRun`
and the variant of `GetsThrough` can be seen by giving them to TLC; no run keeps
them.

* A formal collection can be under a COMPLETED header with all its samples left, in
  three ways; a reset then does not resume it. In the first its START comes after the
  sensor task's last decrement for the plan before and ahead of the request to
  finalize that (`task_manager.c:306-323`); the request then finalizes the new plan.
  In the second its START comes when the storage task, beginning the session of a
  SELFTEST of the same task, has found the plan to be a pretest
  (`task_storage.c:67`): the header is written COMPLETED with the pretest's
  parameters, the session gets the generation of the new plan (line 71), which is
  read last, and is not begun again. In the third its START comes when the header is
  written or taken over and the generation not read yet, and the header is
  COMPLETED: that of a pretest, or of a resumed collection that was stopped in
  between. CompletedIsOver is said of the header begun for the active collection and
  of the one its session is bound to (`Bound`). It excuses plans with such a START
  (`overtook`), and the theorem CompletedMeansOver shows that there is no other
  way. TLC finds each of the three if it is not excused.
* By the same late read of the generation, a pretest can be bound to the RUNNING
  header of the collection before it, and a START between the reads of the
  parameters (`task_storage.c:53-67`) leaves a header mixed of two plans, which is
  what a reset resumes from. No comment promises otherwise and no property here
  excludes it.
* A reset resumes from the remaining count of the last record in the slot
  (`task_manager.c:471`). If that record was queued for another collection
  (FiledUnderOwnTask), the resumed one takes too many samples or too few.
  RemainingDescends is therefore said of slots that have only records of their own
  collection (`HasOwnOnly`).
* A slot that is open while its neighbour is deleted (DeleteIsExact) is appended to
  behind a hole: after a reset the search may end before these records, although
  they were acknowledged, and a later append overwrites them. A begin of an evicted
  task that fails although its header is in flash leaves the old slot open for the
  task, and the records go there and not where the header is. AckedInPlace excuses
  these slots (`stale`), and the theorem AckedStayInPlace shows that there is no
  other way to lose an acknowledged record in place.
* `FiledUnderOwnTask` (Pipeline): queued records carry no task id and go to the
  session bound at the time.
* `AckedWasRun` (CommandLink): an acknowledgement names a code and nothing else
  (`proto_frame.c:160`). If the host repeats a command early, is acknowledged and goes
  on to another command with the same code, say a second START, the second answer to
  the first is taken for an answer to it, and the host goes on although the command
  was lost. AckedRan says what is left of it.
* `OfflineShown` (CanRx, with ProcessMax = 1): frames are stamped with the time
  they are read; frames left in the ring while nothing is collected make the
  first records of a collection report a level from a bus that has long been
  silent.
* `GetsThrough` with `HostFrames <- MCFrameEndingInSOF`: a parser that was left in
  the middle of a frame by a lost write or a break (`wireless_uart.c:775` does not
  reset it) ends in step only if no frame can start on what remains of one. A
  frame whose CRC ends in 0xA5 makes the parser take that byte for a frame start,
  and then each repetition of it: the command is never acknowledged, although
  `doc/下位机需求设计文档.md:19` promises an acknowledgement at once.
* CLEAR_TASK is described as asynchronous, "异步，立即返回" (returns at once,
  `app_storage.h:61,64`), but its `APP_Storage_Init` waits for the mutex, which an
  erase under way holds to its end; the comments at `app_storage.c:1590`, `1601`
  and `1622` say that the lock is released between the blocks. CommandsServed
  says that the wait ends.
* The error path of the erase task unlocks at `app_storage.c:1580` and again at
  `1671`; if a task that waited has taken the mutex in between, FreeRTOS stops the
  device (`tasks.c:6696`). HaltNeedsDeadChip says what it takes.
* ERASING is described as set during an erase (`task_manager.h:59`); a second
  CLEAR_TASK clears it in the middle of one (`proto_cmd_handler.c:342`).
  ErasingSettles says only that it does not stay set.
* `app_storage.h:53` has a progress of 0 mean idle or finished; an erase ends by
  reporting 100, also when a block has failed.
* A window goes on after a break if the link is back before the next pause ends
  (`proto_cmd_handler.c:505`, against the comment there and
  `doc/下位机需求设计文档.md:69`). The host copes with it (`PullIsTransfer`).
* The size of a file is read once per window (`proto_cmd_handler.c:450`), and each
  chunk is looked up by task id: if the task is begun anew or deleted between two
  frames, the rest of the window is of another collection or missing. This case
  is not in HistoryPull.
* The Python listing of `doc/历史数据拉取改善.md:324-348` takes a frame from behind a
  gap and asks for what comes after it, against the example at 395-403 of the
  same document; the model's host follows the state machine at 257-281. A read
  that fails ends a window without the status announced at 449-451.

## 5. Proofs

All proofs are checked by tlapm to the last leaf; the assumptions are those on
the constants in the modules (`PipelineAssumption`, `FlashStoreAssumption`,
`RingAssumption`, `CanRxAssumption`, `EraseServiceAssumption`,
`HistoryPullAssumption`, `CommandLinkAssumption`), which TLC evaluates on the instances.

* `PipelineProofs`
  * `TypeCorrect`: TypeOK is inductive.
  * `BudgetKept` (SampleBudget). Strengthening `BudgetInv`: what is taken and
    what remains add up to what was planned, and COLLECT_RUNNING is set on an
    exhausted plan only while the sensor task is about to clear it.
  * `FiledOnce` (StoredOnce). Strengthening `OrderInv`: a chain through all the
    places a record can be in: stored before pending before queued before the
    one the sensor task holds before the next.
  * `SessionBound` (SessionHasHeader). Strengthening `SessionInv` follows a
    resumed id through the storage task's copies to the session.
  * `CompletedMeansOver` (CompletedIsOver). `OverInv` follows COMPLETED on both its
    ways into a header. `RequestInv` is the request to finalize: while the sensor task
    is ending a plan, or the request is set, or the storage task is about to write it
    to the header of the active plan, that plan has nothing left or is one that
    overtook. `BindingInv` is the session: from the last look at `TASK_IsPretest` to
    the read of the generation, a header that is or will be COMPLETED is bound to the
    active plan only if that is a pretest, is over, or overtook. `CollsInv`: no record
    or header has the number of a collection to come, so a
    new plan is not taken for an old one.
  * `RecordsCountDown` (RemainingDescends). `CountInv`: the records of a collection
    that are on their way count down in the order they were taken and are not
    below what the plan has left (`FlightInv`); a slot that may still be filed
    into, the session's or the resumed plan's, has nothing that is not above all of
    these (`BehindInv`). A record may be equal to what the plan has left, but a
    plan that was charged is not charged again at zero.
* `EndSearchProofs`
  * `EndBorder`: for any number of records and any of them written, the search ends
    behind a record that is there and before one that is not. It is shown of a
    shortest interval of which it fails, because the library's induction rules
    cannot be used here. Its corollary for the store: a search that would end at m,
    did it see nothing behind m, ends at m or later (`Reaches`).
* `FlashStoreProofs`
  * `SlotsStayConsistent` (SlotsConsistent). Strengthening `SlotsInv`: the
    header a call is about to write is as good as written; a deletion is in the
    slot of its task; the open slot is bound or about to be.
* `FlashRecordProofs`
  * `TypesStayCorrect` (TypeOK): sizes and erase addresses stay inside their areas
    and go by whole records and sectors.
  * `AckedStayInPlace` (AckedInPlace). Strengthening `AckedInv`: what a task is owed
    is in place in the slot it owns and a search reaches behind it, whatever else
    is in the area (`Kept`); the open slot's size is behind it too (`OpenKept`) and
    a search reaches that (`OpenReach`); the rest is about calls under way: what is
    begun is owed nothing, what is being erased has lost its header first, the
    head of a record is in flash before its tail.
  * `FreshWordsOnly` (FreshWords). Strengthening `FreshInv`, while nothing failed:
    in a sector nothing is written behind an erased head (`Closure`), and so the
    search, which looks at heads, ends where nothing is written up to the next
    sector (`Solid`, `FreshTail`), also among records of an earlier collection.
* `EraseServiceProofs`
  * `TypeCorrect`: TypeOK is inductive.
  * `OneTaskInStore` (OneInStore). Strengthening `LockInv`: whoever is inside the
    store holds the mutex; the erase task's second unlock is at a position at
    which it no longer counts as inside, and stops the device if another does.
  * `OpenSlotHasHeader` (ActiveHasHeader). Strengthening `HeldInv`: besides
    `LockInv`, the storage task is in a collection that was begun, whose number is
    not 0 (`SessionInv`), the slots under erasure are the request's (`SlotInv`),
    and the open slot has a header unless it is one of these, which the erase
    task forgets before it leaves (`HeaderInv`).
  * `DeviceGoesOn` (HaltNeedsDeadChip). Strengthening `FailInv` counts the
    refusals of the chip that a request, and a mutex given too early, have behind
    them.
* `HistoryPullProofs`
  * `TypeCorrect`: TypeOK is inductive.
  * `PullImplementsTransfer`: the refinement of `FileTransfer`. Strengthening
    `PullInv`: the file is what was appended (`FileInv`); the window's position and
    buffer agree with it and its size is not less than what was owed
    (`WindowInv`); so do the frames on the air (`AirInv`); nothing is under way
    before the pull starts (`IdleInv`). A step of the host that takes a frame
    maps to `Receive`, all of the device to stutters.
* `CommandLinkProofs`
  * `TypeCorrect`: TypeOK with the module's `FreshInv`, that the parser has no payload
    before it knows its length.
  * `AckedWereHandled` (AckedRan), for any frames. Strengthening `AckInv`: every code
    under way to the host is that of a command that was handled or is one of those
    that need no CRC, which no command of the host's has, and what is queued is the
    host's or has such a code.
  * `HandledIsSpelt`: a command that is handled is a frame of the host's, each of whose
    bytes occurs in a frame that the host has started to send. Strengthening
    `SpeltInv`: so it is of the bytes on the way, of each field of the parser from
    the state on in which it is filled, and of what is queued.
    This is what the code ensures whatever the host sends. That the command itself
    was sent (NoPhantom) is only model-checked: it needs a condition on the frames
    (`OwnByte`: each has a byte that no other one has) which nothing in the code
    sees to. Without it losses can leave just the bytes of frames that were sent that
    spell one which was not, and a frame that contains another as its payload is
    read as that. The instance meets it (`MCFramesAssumption`).
* `CanRxProofs`
  * `PushAppends`, `PopTakes`: what push and pop do to the content of a ring of
    any size, wherever head and tail are; `ModWraps`, `OldPlace` and `NewPlace`
    are the index arithmetic below them.
  * `TypeCorrect`: the indices stay in the storage.
  * `RingImplementsFifo`: the refinement of `ByteFifo`; initial states map to
    initial states, every step to a step or a stutter.
  * `GapsAreFlagged` (GapIsFlagged). Strengthening `GapInv`: a frame that was lost
    and is not marked yet is younger than the value kept and than all the frames
    the task may still take in this round. When a frame is lost, the ring has no
    room for another, so it holds at least RingFrames - 1 of them, and
    ProcessMax is not more than that.

With these every invariant and every safety property that a passing run checks is
a theorem, but for NoPhantom. Only model-checked, too, is liveness (RunningSettles,
FinalizeServed,
QueueDrained, SilenceShown, ClearedGone, ErasingSettles, CommandsServed,
PullCompletes, GetsThrough), which the prover does not do: it has no ENABLED, and
these rest on fairness. The properties of the `violation` runs do not hold.

## 6. Not modelled

* Values: conversions and filters of the sensors, time stamps, the payload of
  headers, the bit fields of the CAN frame, CRCs (a frame or header is intact or
  not).
* Failing reads and a chip that cannot be identified. A read that fails is taken
  by the code as "not there" in several places; this is a listed hazard.
* The wrap of the 32-bit millisecond clock, and the wrap of duration times 1000.
* `app_can.c`'s captures: no caller.
* UART log: the text of debug output, which nothing reads back. Live stream: each
  record is sent or not, and nothing later depends on it. LED, watchdog, sensors,
  CRC, board support, FreeRTOS and the vendor's SDK (which is more than nine
  tenths of the repository's lines): see "components" in PROJECT.json.
* HistoryPull leaves out the HISTORY_SENDING bit, a chip that cannot be
  initialised, the choice of the file, more than one connection, and a file that
  is begun anew or deleted during a window (section 4).
* CommandLink leaves out the status in an acknowledgement and what the handlers
  do, which is in the other modules.
* EraseService leaves out the progress byte, read by the status report only.
* Pipeline does not delete tasks and takes each store call as atomic; FlashStore
  and EraseService have the calls in any order. They are not composed: FlashStore
  alone takes minutes at the smallest bounds that show anything.

## 7. Plan

Order: what loses data first.

1. Done: Pipeline, FlashStore, CanRx with RingBuff and ByteFifo, with their runs
   and proofs.
2. Done: EraseService, CommandLink, HistoryPull with FileTransfer, with their runs
   and proofs; the proof of GapIsFlagged.
3. Left: a file that is begun anew or deleted while it is pulled, with
   FileTransfer extended by generations of a file, and what the host would have
   to compare to notice.
4. Left: CLEAR_TASK in Pipeline: the active task's header removed under a bound
   session, FINALIZE retried for ever (`task_storage.c:191`).
5. Left: reads that fail in FlashStore (`app_storage.c:769`).
6. Done, proofs: EndSearch as a recursive function and what it computes;
   AckedInPlace, FreshWords, CompletedIsOver, RemainingDescends, AckedRan.
