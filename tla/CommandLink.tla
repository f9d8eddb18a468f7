----------------------------- MODULE CommandLink -----------------------------
(***************************************************************************)
(* From bytes to answered commands: the host writes command frames to the  *)
(* UART stream characteristic, PROTO_FrameParseByte puts them together     *)
(* again, PROTO_OnRxBytes queues them and PROTO_CmdTask handles and        *)
(* acknowledges them one by one.  Bytes get lost, the link drops in the    *)
(* middle of a frame, a queue that is full drops a command.                *)
(*                                                                         *)
(* The BLE host task runs PROTO_OnRxBytes while the protocol task waits    *)
(* for the flash or for its transmit mutex; a step takes one byte, so that *)
(* a frame may be cut into writes in any way.  Frames are given by CONSTANT *)
(* HostFrames with their CRC; that the CRC tells them from every other     *)
(* sequence of bytes is assumed.  What the handlers do is in Pipeline,     *)
(* EraseService and HistoryPull.                                           *)
(*                                                                         *)
(* The host is external: it sends one command at a time and repeats it     *)
(* until it is acknowledged; the debug commands, which need no CRC, come   *)
(* up by misreading only.                                                  *)
(***************************************************************************)
EXTENDS Naturals, Sequences

CONSTANTS
  Byte,        \* the bytes of the frames
  SOF,         \* PROTO_CMD_SOF
  NoCrcCmd,    \* the codes 0xE0 to 0xEF, which need no CRC
  SilentCmd,   \* of these the debug commands there are, 0xE0 to 0xE2
  HostFrames,  \* the frames the host sends, with their CRC
  NoFrame,     \* no command
  CmdDepth,    \* length of s_cmd_queue
  MaxTrouble   \* bound: in all, losses on the air, disconnections and host
               \* timeouts with an answer still under way

Frame == [cmd : Byte, payload : Seq(Byte), lo : Byte, hi : Byte]

ASSUME CommandLinkAssumption ==
  /\ Byte \subseteq Nat /\ SOF \in Byte
  /\ SilentCmd \subseteq NoCrcCmd /\ NoCrcCmd \subseteq Byte
  /\ \A f \in HostFrames :
       /\ f.cmd \in Byte /\ f.payload \in Seq(Byte)
       /\ f.lo \in Byte /\ f.hi \in Byte
       /\ f = [cmd |-> f.cmd, payload |-> f.payload, lo |-> f.lo, hi |-> f.hi]
       /\ Len(f.payload) \in Byte /\ f.cmd \notin NoCrcCmd
  /\ NoFrame \notin HostFrames
  /\ CmdDepth \in Nat \ {0}
  /\ MaxTrouble \in Nat

VARIABLES
  up,      \* s_ble_connected
  rest,    \* what the host still has to write of its frame
  parser,  \* s_parser
  cmds,    \* s_cmd_queue
  dCmd,    \* the command in PROTO_CmdTask's hands, or NoFrame
  acks,    \* acknowledgements on the way to the host: codes of commands
  ran,     \* history: the commands handled, those without CRC left out
  todo,    \* host: commands it has not started on
  current, \* host: the command it wants acknowledged, or NoFrame
  acked,   \* host: the commands that were
  trouble  \* history: what MaxTrouble bounds

deviceVars == <<parser, cmds, dCmd, ran>>
hostVars == <<todo, current, acked>>
vars == <<up, rest, deviceVars, acks, hostVars, trouble>>
-----------------------------------------------------------------------------
(* The parser, its buffer cut to payload_pos; the byte it has as CRC.        *)
Parser == [state : {"sof", "cmd", "len", "payload", "crcLo", "crcHi"},
           cmd : Byte \union {0}, len : Byte \union {0}, payload : Seq(Byte),
           lo : Byte \union {0}]

ResetParser == [state |-> "sof", cmd |-> 0, len |-> 0, payload |-> <<>>,
                lo |-> 0]

(* Every variable has its type: the payload does not outgrow the length      *)
(* announced for it, nor the queue its depth.                                *)
TypeOK ==
  /\ up \in BOOLEAN /\ rest \in Seq(Byte)
  /\ parser \in Parser
  /\ parser.state = "payload" => Len(parser.payload) < parser.len
  /\ parser.state \in {"crcLo", "crcHi"} => Len(parser.payload) = parser.len
  /\ cmds \in Seq(Frame) /\ Len(cmds) <= CmdDepth
  /\ dCmd \in Frame \union {NoFrame} /\ ran \subseteq Frame
  /\ acks \in Seq(Byte)
  /\ todo \subseteq HostFrames /\ current \in HostFrames \union {NoFrame}
  /\ acked \subseteq HostFrames
  /\ trouble \in Nat

Init ==
  /\ up = TRUE /\ rest = <<>>
  /\ parser = ResetParser /\ cmds = <<>> /\ dCmd = NoFrame /\ ran = {}
  /\ acks = <<>>
  /\ todo = HostFrames /\ current = NoFrame /\ acked = {}
  /\ trouble = 0
-----------------------------------------------------------------------------
(* PROTO_OnRxBytes and PROTO_FrameParseByte.                                 *)

Collecting(b) ==
  \/ parser.state = "sof" /\ b # SOF /\ parser' = parser
  \/ parser.state = "sof" /\ b = SOF
     /\ parser' = [parser EXCEPT !.state = "cmd"]
  \/ parser.state = "cmd"
     /\ parser' = [parser EXCEPT !.state = "len", !.cmd = b]
  \/ parser.state = "len"
     /\ parser' = [parser EXCEPT !.state = IF b = 0 THEN "crcLo" ELSE "payload",
                                 !.len = b]
  \/ parser.state = "payload"
     /\ parser' = [parser EXCEPT !.state = IF Len(parser.payload) + 1 >= parser.len
                                           THEN "crcLo" ELSE "payload",
                                 !.payload = Append(@, b)]
  \/ parser.state = "crcLo"
     /\ parser' = [parser EXCEPT !.state = "crcHi", !.lo = b]

(* What has come, with its last byte.                                        *)
Received(b) == [cmd |-> parser.cmd, payload |-> parser.payload,
                lo |-> parser.lo, hi |-> b]

(* (The definitions that nothing uses are faulty variants of the one below   *)
(* them, which the properties are checked to tell apart.)                    *)
GoodUnchecked(f) == TRUE

Good(f) == f.cmd \in NoCrcCmd \/ f \in HostFrames

QueuedAlways(f) == Append(cmds, f)

Queued(f) == IF Len(cmds) < CmdDepth THEN Append(cmds, f) ELSE cmds

AfterCrcPastSof == [ResetParser EXCEPT !.state = "cmd"]

AfterCrc == ResetParser

AnswerBad(f) == IF Good(f) THEN acks ELSE Append(acks, f.cmd)

(* No frame is answered on reception, be it damaged or too many.             *)
Answer(f) == acks

(* The last byte: a good frame is queued if there is room; the parser starts *)
(* anew.                                                                     *)
Checking(b) ==
  /\ parser.state = "crcHi"
  /\ cmds' = IF Good(Received(b)) THEN Queued(Received(b)) ELSE cmds
  /\ acks' = Answer(Received(b))
  /\ parser' = AfterCrc

RxByte ==
  /\ up /\ rest # <<>>
  /\ rest' = Tail(rest)
  /\ \/ Collecting(Head(rest)) /\ UNCHANGED <<cmds, acks>>
     \/ Checking(Head(rest))
  /\ UNCHANGED <<up, dCmd, ran, hostVars, trouble>>
-----------------------------------------------------------------------------
(* PROTO_CmdTask.                                                            *)

DeviceTake ==
  /\ dCmd = NoFrame /\ cmds # <<>>
  /\ dCmd' = Head(cmds) /\ cmds' = Tail(cmds)
  /\ UNCHANGED <<up, rest, parser, ran, acks, hostVars, trouble>>

Trouble == trouble < MaxTrouble /\ trouble' = trouble + 1

(* A debug command prints and is not answered; the codes next to them that   *)
(* need no CRC either are answered CMD_UNSUPPORTED and change nothing.  Every *)
(* other command is answered by one acknowledgement, with its code and a     *)
(* status.  The answer goes out if the link is up by then, be it another     *)
(* connection, and can be lost.                                              *)
DeviceHandle ==
  /\ dCmd # NoFrame
  /\ ran' = IF dCmd.cmd \in NoCrcCmd THEN ran ELSE ran \union {dCmd}
  /\ dCmd' = NoFrame
  /\ \/ /\ up /\ dCmd.cmd \notin SilentCmd
        /\ acks' = Append(acks, dCmd.cmd) /\ UNCHANGED trouble
     \/ up /\ dCmd.cmd \notin SilentCmd /\ Trouble /\ UNCHANGED acks
     \/ (~up \/ dCmd.cmd \in SilentCmd) /\ UNCHANGED <<acks, trouble>>
  /\ UNCHANGED <<up, rest, parser, cmds, hostVars>>
-----------------------------------------------------------------------------
(* Host.                                                                     *)

Bytes(f) ==
  <<SOF, f.cmd, Len(f.payload)>> \o f.payload \o <<f.lo, f.hi>>

HostStart ==
  /\ up /\ current = NoFrame
  /\ \E f \in todo :
       /\ todo' = todo \ {f}
       /\ current' = f /\ rest' = Bytes(f)
  /\ UNCHANGED <<up, deviceVars, acks, acked, trouble>>

(* A frame goes out in two writes, of which one is lost.                     *)
LoseBytes ==
  /\ up /\ rest # <<>> /\ Trouble
  /\ \/ rest' = <<>>
     \/ /\ rest = Bytes(current)
        /\ \E n \in 1 .. Len(rest) - 1 : rest' = SubSeq(rest, n + 1, Len(rest))
  /\ UNCHANGED <<up, deviceVars, acks, hostVars>>

Quiet == cmds = <<>> /\ dCmd = NoFrame

HostRepeat ==
  /\ up /\ current # NoFrame
  /\ rest = <<>> /\ acks = <<>>
  /\ IF Quiet THEN UNCHANGED trouble ELSE Trouble
  /\ rest' = Bytes(current)
  /\ UNCHANGED <<up, deviceVars, acks, hostVars>>

HostAck ==
  /\ acks # <<>>
  /\ acks' = Tail(acks)
  /\ IF current # NoFrame /\ current.cmd = Head(acks)
     THEN /\ acked' = acked \union {current}
          /\ current' = NoFrame /\ rest' = <<>>
     ELSE UNCHANGED <<acked, current, rest>>
  /\ UNCHANGED <<up, deviceVars, todo, trouble>>

(* The link.  Parser and queue stay as they are.                             *)
Disconnect ==
  /\ up /\ Trouble
  /\ up' = FALSE /\ rest' = <<>> /\ acks' = <<>>
  /\ UNCHANGED <<deviceVars, hostVars>>

Connect ==
  /\ ~up /\ up' = TRUE
  /\ UNCHANGED <<rest, deviceVars, acks, hostVars, trouble>>
-----------------------------------------------------------------------------
DeviceNext == RxByte \/ DeviceTake \/ DeviceHandle

HostNext == HostStart \/ HostRepeat \/ HostAck

Next == DeviceNext \/ HostNext \/ LoseBytes \/ Disconnect \/ Connect

Spec == Init /\ [][Next]_vars

(* The tasks run, the host goes on and the link comes back; nothing forces a *)
(* loss or a break.                                                          *)
FairSpec ==
  /\ Spec /\ WF_vars(RxByte) /\ WF_vars(DeviceTake \/ DeviceHandle)
  /\ WF_vars(HostRepeat) /\ WF_vars(HostAck)
  /\ WF_vars(Connect)
-----------------------------------------------------------------------------
(* Properties.                                                               *)

(* However frames are cut, lost in part, left half parsed by a connection    *)
(* and continued by the next: a command that changes anything is one that    *)
(* the host has sent, whole.  This is said of frames of which each has a     *)
(* byte that no other frame of the host has (OwnByte).  Without that, the    *)
(* code does not ensure it: losses can leave of the others just the bytes    *)
(* that it takes to spell a frame which was never sent.                      *)
NoPhantom == ran \subseteq HostFrames \ todo

Letters(s) == {s[i] : i \in 1 .. Len(s)}

OwnByte ==
  \A f \in HostFrames : \E b \in Letters(Bytes(f)) :
    \A g \in HostFrames \ {f} : b \notin Letters(Bytes(g))

(* When the host counts a command as acknowledged, a command with its code   *)
(* was handled, and if no other of its commands has the code it was this     *)
(* one: frames that are damaged or dropped are never acknowledged, and an    *)
(* answer to misread bytes is not taken for the answer to a command.         *)
AckedRan == \A f \in acked : \E g \in ran : g.cmd = f.cmd

(* The command itself was handled.  An acknowledgement names nothing but the *)
(* code (proto_frame.c:160), so a late one of an earlier command with the    *)
(* same code breaks this (README, section 4).                                *)
AckedWasRun == acked \subseteq ran

(* A host that repeats its command gets through, whatever is left in the     *)
(* parser: it falls back into step with the frames.  This holds of frames on *)
(* whose remains no frame can start; one whose CRC ends in the code of a     *)
(* frame start violates it (MCFrameEndingInSOF; README, section 4).          *)
GetsThrough ==
  \A f \in HostFrames : (current = f) ~> (current # f)
=============================================================================
