----------------------------- MODULE HistoryPull -----------------------------
(***************************************************************************)
(* Pulling a task's records over BLE: REQUEST_HISTORY commands, the window *)
(* of data frames with which proto_handle_request_history answers each,    *)
(* the link that loses frames and drops, and a host that asks again for    *)
(* what it misses.                                                         *)
(*                                                                         *)
(* The protocol task handles one command at a time.  Within a window it    *)
(* can be overtaken wherever it waits: for the flash mutex in each read,   *)
(* in the transmit function, in the pause between two frames.  Meanwhile   *)
(* the storage task appends to the file, commands queue up, the link drops *)
(* and comes back.                                                         *)
(*                                                                         *)
(* The file is a sequence of records, numbered as their sample_index is;   *)
(* offsets and sizes count records.                                        *)
(* The host is the state machine of doc/历史数据拉取改善.md:257-281, the     *)
(* only description of it there is; it pulls one file.                     *)
(***************************************************************************)
EXTENDS Naturals, Sequences

CONSTANTS
  Chunk,      \* records in a data frame (PROTO_MAX_CHUNK_SIZE)
  Window,     \* the count the host asks for
  WindowMax,  \* the count the device allows
  CmdDepth,   \* length of s_cmd_queue
  AirDepth,   \* frames the BLE controller holds
  MaxRetry,   \* requests without an answer after which the host gives up
  MaxFile,    \* bound: records in the file
  MaxLost,    \* bound: frames and commands lost on the air, reads that fail
  MaxEarly,   \* bound: host timeouts with an answer still under way
  MaxBreaks   \* bound: disconnections

ASSUME HistoryPullAssumption ==
  /\ Chunk \in Nat \ {0} /\ Window \in Nat \ {0} /\ WindowMax \in Nat \ {0}
  /\ CmdDepth \in Nat \ {0} /\ AirDepth \in Nat \ {0} /\ MaxRetry \in Nat \ {0}
  /\ MaxFile \in Nat /\ MaxLost \in Nat /\ MaxEarly \in Nat
  /\ MaxBreaks \in Nat

VARIABLES
  file,     \* flash: the records of the task
  up,       \* s_ble_connected
  cmds,     \* s_cmd_queue
  dPc,      \* protocol task: where it is in the handler
  dReq,     \* its command, with the count cut to the allowed one
  total,    \* total_bytes
  pos,      \* pos
  sent,     \* frames_sent
  buf,      \* data_buf
  air,      \* what the BLE controller still has to deliver
  hPc,      \* host: where it is
  got,      \* host: the records it has; their number is the offset it expects
  want,     \* host: the count of its last request
  came,     \* host: frames that came since
  tries,    \* host: timeouts in a row
  owed,     \* history: size of the file when the pull was started
  lost, early, breaks   \* history: what the bounds count

deviceVars == <<cmds, dPc, dReq, total, pos, sent, buf>>
hostVars == <<hPc, got, want, came, tries, owed>>
boundVars == <<lost, early, breaks>>
vars == <<file, up, deviceVars, air, hostVars, boundVars>>
-----------------------------------------------------------------------------
Request == [off : Nat, count : Nat]
DataFrame == [kind : {"data"}, off : Nat, total : Nat, data : Seq(Nat)]
AckFrame == [kind : {"ack"}, ok : BOOLEAN]

BootRequest == [off |-> 0, count |-> 0]

DeviceType ==
  /\ cmds \in Seq(Request) /\ Len(cmds) <= CmdDepth
  /\ dPc \in {"idle", "size", "read", "send", "pause"}
  /\ dReq \in Request
  /\ total \in Nat /\ pos \in Nat /\ sent \in Nat /\ buf \in Seq(Nat)

HostType ==
  /\ hPc \in {"idle", "receiving", "done", "broken", "failed"}
  /\ got \in Seq(Nat) /\ want \in Nat /\ came \in Nat
  /\ tries \in Nat /\ owed \in Nat

AirType == air \in Seq(DataFrame \union AckFrame) /\ Len(air) <= AirDepth

BoundType == lost \in Nat /\ early \in Nat /\ breaks \in Nat

(* Every variable has its type; the queue and the controller keep within     *)
(* their depths.                                                             *)
TypeOK == /\ file \in Seq(Nat) /\ up \in BOOLEAN
          /\ DeviceType /\ HostType /\ AirType /\ BoundType

Init ==
  /\ file = <<>> /\ up = TRUE
  /\ cmds = <<>> /\ dPc = "idle" /\ dReq = BootRequest
  /\ total = 0 /\ pos = 0 /\ sent = 0 /\ buf = <<>>
  /\ air = <<>>
  /\ hPc = "idle" /\ got = <<>> /\ want = 0 /\ came = 0 /\ tries = 0
  /\ owed = 0
  /\ lost = 0 /\ early = 0 /\ breaks = 0
-----------------------------------------------------------------------------
Lower(a, b) == IF a < b THEN a ELSE b

(* APP_Storage_AppendData, by the storage task.                              *)
FileGrows ==
  /\ Len(file) < MaxFile
  /\ file' = Append(file, Len(file) + 1)
  /\ UNCHANGED <<up, deviceVars, air, hostVars, boundVars>>

Lose == lost < MaxLost /\ lost' = lost + 1

(* proto_send: nothing goes out while the link is down; a frame can be       *)
(* dropped, for want of a buffer or on the air, and nobody is told.  That    *)
(* the pauses give the controller the time to send all the others is assumed. *)
Transmit(frame) ==
  \/ /\ up /\ Len(air) < AirDepth
     /\ air' = Append(air, frame)
     /\ UNCHANGED lost
  \/ ~up /\ UNCHANGED <<air, lost>>
  \/ up /\ Lose /\ UNCHANGED air

DeviceTake ==
  /\ dPc = "idle" /\ cmds # <<>>
  /\ dReq' = Head(cmds) /\ cmds' = Tail(cmds)
  /\ dPc' = "size"
  /\ UNCHANGED <<file, up, total, pos, sent, buf, air, hostVars, boundVars>>

(* The size is read once; a file without records and an offset behind its    *)
(* end are refused.                                                          *)
Acceptable == Len(file) # 0 /\ dReq.off < Len(file) /\ dReq.count # 0

DeviceSize ==
  /\ dPc = "size"
  /\ Transmit([kind |-> "ack", ok |-> Acceptable])
  /\ IF Acceptable
     THEN /\ dPc' = "read"
          /\ dReq' = [dReq EXCEPT !.count = Lower(@, WindowMax)]
          /\ total' = Len(file) /\ pos' = dReq.off /\ sent' = 0
     ELSE dPc' = "idle" /\ UNCHANGED <<dReq, total, pos, sent>>
  /\ UNCHANGED <<file, up, cmds, buf, hostVars, early, breaks>>

ToRead == Lower(total - pos, Chunk)

(* (The definitions that nothing uses are faulty variants of the one below   *)
(* them, which the properties are checked to tell apart.)                    *)
ReadAtStart == dReq.off

ReadAt == pos

(* A read that fails or finds nothing ends the window without a word.        *)
DeviceRead ==
  /\ dPc = "read"
  /\ \/ /\ pos < Len(file)
        /\ buf' = SubSeq(file, ReadAt + 1, Lower(ReadAt + ToRead, Len(file)))
        /\ dPc' = "send"
        /\ UNCHANGED lost
     \/ /\ Lose \/ (pos >= Len(file) /\ UNCHANGED lost)
        /\ dPc' = "idle" /\ UNCHANGED buf
  /\ UNCHANGED <<file, up, cmds, dReq, total, pos, sent, air, hostVars, early,
                 breaks>>

PosKept == pos

NextPos == pos + Len(buf)

DeviceSend ==
  /\ dPc = "send"
  /\ Transmit([kind |-> "data", off |-> pos, total |-> total, data |-> buf])
  /\ pos' = NextPos
  /\ sent' = sent + 1
  /\ dPc' = IF sent + 1 >= dReq.count THEN "idle" ELSE "pause"
  /\ buf' = <<>>
  /\ UNCHANGED <<file, up, cmds, dReq, total, hostVars, early, breaks>>

(* After the pause the window goes on if the link is up, be it another       *)
(* connection than the one that asked, and there is more.                    *)
DevicePause ==
  /\ dPc = "pause"
  /\ dPc' = IF up /\ pos < total THEN "read" ELSE "idle"
  /\ UNCHANGED <<file, up, cmds, dReq, total, pos, sent, buf, air, hostVars,
                 boundVars>>
-----------------------------------------------------------------------------
(* Host.                                                                     *)

QueuedAlways(req) == Append(cmds, req)

(* A request that finds the queue full is dropped without a word.            *)
Queued(req) == IF Len(cmds) < CmdDepth THEN Append(cmds, req) ELSE cmds

(* A request sent, with what the host remembers of it; it can be lost on the *)
(* air.                                                                      *)
SendGet(off, count) ==
  /\ want' = count /\ came' = 0
  /\ \/ cmds' = Queued([off |-> off, count |-> count]) /\ UNCHANGED lost
     \/ Lose /\ UNCHANGED cmds

NoGet == UNCHANGED <<cmds, lost, want>>

HostStart ==
  /\ hPc = "idle" /\ up
  /\ hPc' = "receiving" /\ owed' = Len(file)
  /\ SendGet(0, Window)
  /\ UNCHANGED <<file, up, dPc, dReq, total, pos, sent, buf, air, got, tries,
                 early, breaks>>

HostResume ==
  /\ hPc = "broken" /\ up
  /\ hPc' = "receiving"
  /\ SendGet(Len(got), Window)
  /\ UNCHANGED <<file, up, dPc, dReq, total, pos, sent, buf, air, got, tries,
                 owed, early, breaks>>

(* The next frame in order is taken; the pull is complete with the last, and *)
(* asks for more with the last of a window.                                  *)
HostAccept(frame) ==
  /\ frame.off = Len(got)
  /\ got' = got \o frame.data
  /\ IF Len(got') >= frame.total
     THEN hPc' = "done" /\ came' = 0 /\ NoGet
     ELSE /\ UNCHANGED hPc
          /\ IF came + 1 >= want THEN SendGet(Len(got'), Window)
             ELSE came' = came + 1 /\ NoGet

(* A frame behind a gap asks for what is missing; one from before is a       *)
(* repetition.                                                               *)
HostReject(frame) ==
  /\ frame.off # Len(got)
  /\ UNCHANGED <<hPc, got>>
  /\ IF frame.off > Len(got) THEN SendGet(Len(got), 2)
     ELSE came' = came /\ NoGet

HostReceive ==
  /\ air # <<>>
  /\ air' = Tail(air)
  /\ LET frame == Head(air) IN
       IF hPc # "receiving" THEN UNCHANGED <<hPc, got, came, tries>> /\ NoGet
       ELSE /\ tries' = 0
            /\ IF frame.kind = "data"
               THEN HostAccept(frame) \/ HostReject(frame)
               ELSE /\ hPc' = IF frame.ok THEN hPc ELSE "failed"
                    /\ UNCHANGED <<got, came>> /\ NoGet
  /\ UNCHANGED <<file, up, dPc, dReq, total, pos, sent, buf, owed, early,
                 breaks>>

(* Nothing has come for a while: nothing is under way any more, or, MaxEarly *)
(* times, the device is just slow.                                           *)
Quiet == cmds = <<>> /\ dPc = "idle"

HostTimeout ==
  /\ hPc = "receiving" /\ up /\ air = <<>>
  /\ IF Quiet THEN UNCHANGED early ELSE early < MaxEarly /\ early' = early + 1
  /\ tries' = tries + 1
  /\ IF tries + 1 >= MaxRetry
     THEN hPc' = "failed" /\ UNCHANGED came /\ NoGet
     ELSE UNCHANGED hPc /\ SendGet(Len(got), Window)
  /\ UNCHANGED <<file, up, dPc, dReq, total, pos, sent, buf, air, got, owed,
                 breaks>>
-----------------------------------------------------------------------------
(* The link.  What the controller holds is gone; the command queue and the   *)
(* window under way are left as they are.                                    *)

Disconnect ==
  /\ up /\ breaks < MaxBreaks
  /\ breaks' = breaks + 1
  /\ up' = FALSE /\ air' = <<>>
  /\ hPc' = IF hPc = "receiving" THEN "broken" ELSE hPc
  /\ tries' = 0
  /\ UNCHANGED <<file, deviceVars, got, want, came, owed, lost, early>>

Connect ==
  /\ ~up /\ up' = TRUE
  /\ UNCHANGED <<file, deviceVars, air, hostVars, boundVars>>
-----------------------------------------------------------------------------
DeviceNext == DeviceTake \/ DeviceSize \/ DeviceRead \/ DeviceSend \/ DevicePause

HostNext == HostStart \/ HostResume \/ HostReceive \/ HostTimeout

Next == FileGrows \/ DeviceNext \/ HostNext \/ Disconnect \/ Connect

Spec == Init /\ [][Next]_vars

(* The protocol task and the host get on and the link comes back; nothing    *)
(* forces the file to grow, a loss or a break.                               *)
FairSpec ==
  Spec /\ WF_vars(DeviceNext) /\ WF_vars(HostReceive) /\ WF_vars(HostTimeout)
       /\ WF_vars(HostResume) /\ WF_vars(Connect)
-----------------------------------------------------------------------------
(* Properties.                                                               *)

Phase == IF hPc = "receiving" THEN "pulling"
         ELSE IF hPc = "failed" THEN "broken" ELSE hPc

Transfer == INSTANCE FileTransfer WITH phase <- Phase, Rec <- 1 .. MaxFile

(* Windows, losses, repeated and overtaken requests, an append between two   *)
(* frames, a window that goes on into the next connection: the host ends up  *)
(* with the beginning of the file and nothing else, and if it finishes, with *)
(* all that was there when it started.                                       *)
PullIsTransfer == Transfer!Spec

(* As long as losses and early timeouts in all are fewer than the host's     *)
(* retries, a pull of a file that has records is finished.                   *)
PullCompletes ==
  (hPc = "receiving" /\ owed # 0) ~> (hPc = "done")
=============================================================================
