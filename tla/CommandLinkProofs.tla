-------------------------- MODULE CommandLinkProofs --------------------------
(***************************************************************************)
(* What holds of CommandLink for any depth of the queue and any losses:    *)
(* its types, among them that the parser never takes in more than the      *)
(* announced payload; that the host takes nothing for an acknowledgement   *)
(* but the answer to a command with that code; and what it takes to make a *)
(* command out of bytes that are left over.                                *)
(***************************************************************************)
EXTENDS CommandLink, TLAPS

(* The parser has no payload before it knows its length, and before the last *)
(* byte the one before it.                                                   *)
FreshInv ==
  /\ parser.state \in {"sof", "cmd", "len"} => parser.payload = <<>>
  /\ parser.state = "crcHi" => parser.lo \in Byte

TypeInv == TypeOK /\ FreshInv
-----------------------------------------------------------------------------
LEMMA FramesAreFrames == HostFrames \subseteq Frame
BY CommandLinkAssumption DEF Frame

LEMMA FrameBytes ==
  ASSUME NEW f \in HostFrames
  PROVE  Bytes(f) \in Seq(Byte)
<1>1. <<SOF, f.cmd, Len(f.payload)>> \in Seq(Byte) /\ <<f.lo, f.hi>> \in Seq(Byte)
  BY CommandLinkAssumption
<1>2. f.payload \in Seq(Byte)
  BY CommandLinkAssumption
<1> QED
  BY <1>1, <1>2 DEF Bytes

LEMMA ParserBoot == ResetParser \in Parser
BY DEF ResetParser, Parser

LEMMA TypeInit == Init => TypeInv
<1> SUFFICES ASSUME Init PROVE TypeInv
  OBVIOUS
<1>1. parser \in Parser /\ parser.state = "sof" /\ parser.payload = <<>>
  BY ParserBoot DEF Init, ResetParser
<1> QED
  BY <1>1, CommandLinkAssumption DEF Init, TypeInv, TypeOK, FreshInv

(* A byte that does not end a frame.                                         *)
LEMMA TypeCollecting ==
  ASSUME TypeInv, NEW b \in Byte, Collecting(b)
  PROVE  /\ parser' \in Parser
         /\ parser'.state = "payload" => Len(parser'.payload) < parser'.len
         /\ parser'.state \in {"crcLo", "crcHi"} =>
              Len(parser'.payload) = parser'.len
         /\ FreshInv'
<1> USE DEF Parser, FreshInv
<1>0. /\ parser \in Parser /\ b \in Nat
      /\ parser.state = "payload" => Len(parser.payload) < parser.len
      /\ parser.state \in {"crcLo", "crcHi"} => Len(parser.payload) = parser.len
      /\ parser.state \in {"sof", "cmd", "len"} => parser.payload = <<>>
      /\ parser.len \in Nat /\ parser.payload \in Seq(Byte)
  BY CommandLinkAssumption DEF TypeInv, TypeOK
<1>1. CASE parser.state = "sof"
  BY <1>0, <1>1 DEF Collecting
<1>2. CASE parser.state = "cmd"
  BY <1>0, <1>2 DEF Collecting
<1>3. CASE parser.state = "len"
  <2>1. CASE b = 0
    <3>1. parser' = [parser EXCEPT !.state = "crcLo", !.len = 0]
      BY <1>3, <2>1 DEF Collecting
    <3> QED
      BY <1>0, <1>3, <3>1
  <2>2. CASE b # 0
    <3>1. parser' = [parser EXCEPT !.state = "payload", !.len = b]
      BY <1>3, <2>2 DEF Collecting
    <3>2. Len(parser.payload) = 0 /\ b > 0
      BY <1>0, <1>3, <2>2
    <3> QED
      BY <1>0, <1>3, <3>1, <3>2
  <2> QED
    BY <2>1, <2>2
<1>4. CASE parser.state = "payload"
  <2>1. /\ Append(parser.payload, b) \in Seq(Byte)
        /\ Len(Append(parser.payload, b)) = Len(parser.payload) + 1
        /\ Len(parser.payload) \in Nat
    BY <1>0
  <2>2. CASE Len(parser.payload) + 1 >= parser.len
    <3>1. parser' = [parser EXCEPT !.state = "crcLo",
                                   !.payload = Append(@, b)]
      BY <1>4, <2>2 DEF Collecting
    <3>2. Len(Append(parser.payload, b)) = parser.len
      BY <1>0, <1>4, <2>1, <2>2
    <3> QED
      BY <1>0, <1>4, <2>1, <3>1, <3>2
  <2>3. CASE Len(parser.payload) + 1 < parser.len
    <3>1. parser' = [parser EXCEPT !.state = "payload",
                                   !.payload = Append(@, b)]
      <4>1. ~(Len(parser.payload) + 1 >= parser.len)
        BY <1>0, <2>1, <2>3
      <4> QED
        BY <1>4, <4>1 DEF Collecting
    <3> QED
      BY <1>0, <1>4, <2>1, <2>3, <3>1
  <2> QED
    BY <1>0, <2>1, <2>2, <2>3
<1>5. CASE parser.state = "crcLo"
  BY <1>0, <1>5 DEF Collecting
<1> QED
  BY <1>1, <1>2, <1>3, <1>4, <1>5 DEF Collecting

LEMMA ReceivedIsFrame ==
  ASSUME TypeInv, NEW b \in Byte, parser.state = "crcHi",
         Good(Received(b))
  PROVE  Received(b) \in Frame
<1>1. CASE Received(b) \in HostFrames
  BY <1>1, FramesAreFrames
<1>2. CASE Received(b).cmd \in NoCrcCmd
  <2>1. parser \in Parser /\ parser.lo \in Byte
    BY DEF TypeInv, TypeOK, FreshInv
  <2> QED
    BY <1>2, <2>1, CommandLinkAssumption DEF Received, Frame, Parser
<1> QED
  BY <1>1, <1>2 DEF Good

LEMMA TypeRx ==
  ASSUME TypeInv, RxByte
  PROVE  TypeInv'
<1>1. Head(rest) \in Byte /\ Tail(rest) \in Seq(Byte)
  BY DEF RxByte, TypeInv, TypeOK
<1>2. CASE Collecting(Head(rest)) /\ UNCHANGED <<cmds, acks>>
  BY <1>1, <1>2, TypeCollecting DEF RxByte, TypeInv, TypeOK, hostVars
<1>3. CASE Checking(Head(rest))
  <2> DEFINE f == Received(Head(rest))
  <2>1. cmds' \in Seq(Frame) /\ Len(cmds') <= CmdDepth
    <3>1. Good(f) => f \in Frame
      BY <1>1, <1>3, ReceivedIsFrame DEF Checking
    <3>2. cmds \in Seq(Frame) /\ Len(cmds) <= CmdDepth /\ CmdDepth \in Nat
      BY CommandLinkAssumption DEF TypeInv, TypeOK
    <3>3. Good(f) => Queued(f) \in Seq(Frame) /\ Len(Queued(f)) <= CmdDepth
      BY <3>1, <3>2 DEF Queued
    <3> QED
      BY <1>3, <3>2, <3>3 DEF Checking
  <2>2. acks' = acks /\ parser' = ResetParser
    BY <1>3 DEF Checking, Answer, AfterCrc
  <2>3. /\ parser' \in Parser /\ parser'.state = "sof"
        /\ parser'.payload = <<>>
    BY <2>2, ParserBoot DEF ResetParser
  <2> QED
    BY <1>1, <2>1, <2>2, <2>3 DEF RxByte, TypeInv, TypeOK, FreshInv, hostVars
<1> QED
  BY <1>2, <1>3 DEF RxByte

LEMMA TroubleType ==
  ASSUME TypeInv, Trouble \/ UNCHANGED trouble
  PROVE  trouble' \in Nat
BY DEF TypeInv, TypeOK, Trouble

LEMMA TypeDevice ==
  ASSUME TypeInv, DeviceTake \/ DeviceHandle
  PROVE  TypeInv'
<1> USE CommandLinkAssumption DEF TypeInv, TypeOK, FreshInv
<1>1. CASE DeviceTake
  <2>1. /\ Head(cmds) \in Frame /\ Tail(cmds) \in Seq(Frame)
        /\ Len(Tail(cmds)) <= CmdDepth
    BY <1>1 DEF DeviceTake
  <2> QED
    BY <1>1, <2>1 DEF DeviceTake, hostVars
<1>2. CASE DeviceHandle
  <2>1. dCmd \in Frame
    BY <1>2 DEF DeviceHandle
  <2>2. Append(acks, dCmd.cmd) \in Seq(Byte)
    BY <2>1 DEF Frame
  <2>3. acks' \in Seq(Byte)
    BY <1>2, <2>2 DEF DeviceHandle
  <2>4. trouble' \in Nat
    BY <1>2, TroubleType DEF DeviceHandle
  <2> QED
    BY <1>2, <2>1, <2>3, <2>4 DEF DeviceHandle, hostVars
<1> QED
  BY <1>1, <1>2

LEMMA TypeHost ==
  ASSUME TypeInv, HostNext \/ LoseBytes \/ Disconnect \/ Connect
  PROVE  TypeInv'
<1> USE DEF TypeInv, TypeOK, FreshInv, deviceVars
<1>1. CASE HostStart
  <2>1. PICK f \in todo : /\ todo' = todo \ {f}
                          /\ current' = f /\ rest' = Bytes(f)
    BY <1>1 DEF HostStart
  <2>2. rest' \in Seq(Byte)
    BY <2>1, FrameBytes
  <2> QED
    BY <1>1, <2>1, <2>2 DEF HostStart
<1>2. CASE HostRepeat
  <2>1. rest' \in Seq(Byte) /\ trouble' \in Nat
    BY <1>2, FrameBytes, TroubleType DEF HostRepeat
  <2> QED
    BY <1>2, <2>1 DEF HostRepeat, hostVars
<1>3. CASE HostAck
  <2>1. acks' \in Seq(Byte)
    BY <1>3 DEF HostAck
  <2>2. acked' \subseteq HostFrames /\ current' \in HostFrames \union {NoFrame}
    BY <1>3 DEF HostAck
  <2>3. rest' \in Seq(Byte)
    <3>1. rest' = <<>> \/ rest' = rest
      BY <1>3 DEF HostAck
    <3>2. CASE rest' = <<>>
      BY <3>2
    <3>3. CASE rest' = rest
      BY <3>3
    <3> QED
      BY <3>1, <3>2, <3>3
  <2> QED
    BY <1>3, <2>1, <2>2, <2>3 DEF HostAck
<1>4. CASE LoseBytes
  <2>1. \A n \in 1 .. Len(rest) - 1 : SubSeq(rest, n + 1, Len(rest)) \in Seq(Byte)
    OBVIOUS
  <2>2. rest' \in Seq(Byte)
    <3>1. <<>> \in Seq(Byte)
      OBVIOUS
    <3> QED
      BY ONLY <1>4, <2>1, <3>1 DEF LoseBytes
  <2>3. trouble' \in Nat
    BY <1>4, TroubleType DEF LoseBytes
  <2> QED
    BY <1>4, <2>2, <2>3 DEF LoseBytes, hostVars
<1>5. CASE Disconnect
  <2>1. trouble' \in Nat
    BY <1>5, TroubleType DEF Disconnect
  <2>2. up' \in BOOLEAN
    BY <1>5, Zenon DEF Disconnect
  <2> QED
    BY <1>5, <2>1, <2>2 DEF Disconnect, hostVars
<1>6. CASE Connect
  BY <1>6 DEF Connect, hostVars
<1> QED
  BY <1>1, <1>2, <1>3, <1>4, <1>5, <1>6 DEF HostNext

LEMMA TypeNext == TypeInv /\ [Next]_vars => TypeInv'
<1>1. TypeInv /\ UNCHANGED vars => TypeInv'
  BY DEF TypeInv, TypeOK, FreshInv, vars, deviceVars, hostVars
<1> QED
  BY <1>1, TypeRx, TypeDevice, TypeHost DEF Next, DeviceNext

(* The variables keep their types: the parser of proto_frame.c never takes   *)
(* in more than the length it was given, wherever a connection left it, and  *)
(* s_cmd_queue keeps its depth.                                              *)
THEOREM TypeCorrect == Spec => []TypeOK
<1>1. TypeInv => TypeOK
  BY DEF TypeInv
<1> QED
  BY TypeInit, TypeNext, <1>1, PTL DEF Spec

(***************************************************************************)
(* An acknowledgement stands for a command that was handled.  The          *)
(* strengthening: what is queued or in the protocol task's hands is the    *)
(* host's or has a code that needs no CRC, and every code on its way to    *)
(* the host is that of a command handled or one of those codes, which the  *)
(* host's commands do not have.                                            *)
(***************************************************************************)
AckInv ==
  /\ AckedRan /\ ran \subseteq HostFrames
  /\ \A i \in 1 .. Len(acks) :
       acks[i] \in NoCrcCmd \/ \E f \in ran : f.cmd = acks[i]
  /\ \A i \in 1 .. Len(cmds) : cmds[i].cmd \in NoCrcCmd \/ cmds[i] \in HostFrames
  /\ dCmd # NoFrame => dCmd.cmd \in NoCrcCmd \/ dCmd \in HostFrames

LEMMA AckInit == Init => AckInv
BY DEF Init, AckInv, AckedRan

LEMMA AckRx ==
  ASSUME TypeInv, AckInv, RxByte
  PROVE  AckInv'
<1> USE DEF AckInv, AckedRan
<1>1. CASE Collecting(Head(rest)) /\ UNCHANGED <<cmds, acks>>
  BY <1>1 DEF RxByte, hostVars
<1>2. CASE Checking(Head(rest))
  <2> DEFINE f == Received(Head(rest))
  <2>1. cmds' = cmds \/ (Good(f) /\ cmds' = Append(cmds, f))
    BY <1>2 DEF Checking, Queued
  <2>2. \A i \in 1 .. Len(cmds') :
          cmds'[i].cmd \in NoCrcCmd \/ cmds'[i] \in HostFrames
    <3>1. CASE cmds' = cmds
      BY <3>1
    <3>2. CASE Good(f) /\ cmds' = Append(cmds, f)
      <4>1. f.cmd \in NoCrcCmd \/ f \in HostFrames
        BY <3>2 DEF Good
      <4>2. cmds \in Seq(Frame)
        BY DEF TypeInv, TypeOK
      <4>3. \A i \in 1 .. Len(cmds') : cmds'[i] = IF i = Len(cmds) + 1 THEN f
                                                ELSE cmds[i]
        BY <3>2, <4>2
      <4>4. Len(cmds') = Len(cmds) + 1 /\ Len(cmds) \in Nat
        BY <3>2, <4>2
      <4> QED
        BY <4>1, <4>3, <4>4
    <3> QED
      BY <2>1, <3>1, <3>2
  <2> QED
    BY <1>2, <2>2 DEF RxByte, Checking, Answer, hostVars
<1> QED
  BY <1>1, <1>2 DEF RxByte

LEMMA AckDevice ==
  ASSUME TypeInv, AckInv, DeviceTake \/ DeviceHandle
  PROVE  AckInv'
<1> USE DEF AckInv, AckedRan
<1>1. CASE DeviceTake
  <2>1. cmds \in Seq(Frame) /\ cmds # <<>>
    BY <1>1 DEF DeviceTake, TypeInv, TypeOK
  <2>2. /\ Head(cmds) = cmds[1] /\ Len(cmds) \in Nat \ {0}
        /\ Len(Tail(cmds)) = Len(cmds) - 1
        /\ \A i \in 1 .. Len(Tail(cmds)) : Tail(cmds)[i] = cmds[i + 1]
    BY <2>1
  <2> QED
    BY <1>1, <2>2 DEF DeviceTake, hostVars
<1>2. CASE DeviceHandle
  <2>1. dCmd.cmd \notin NoCrcCmd => dCmd \in HostFrames /\ dCmd \in ran'
    BY <1>2 DEF DeviceHandle
  <2>2. ran \subseteq ran' /\ ran' \subseteq HostFrames
    BY <1>2 DEF DeviceHandle
  <2>3. \A i \in 1 .. Len(acks') :
          acks'[i] \in NoCrcCmd \/ \E f \in ran' : f.cmd = acks'[i]
    <3>1. CASE acks' = acks
      BY <2>2, <3>1
    <3>2. CASE acks' = Append(acks, dCmd.cmd)
      <4>1. acks \in Seq(Byte)
        BY DEF TypeInv, TypeOK
      <4>2. /\ Len(acks') = Len(acks) + 1 /\ Len(acks) \in Nat
            /\ \A i \in 1 .. Len(acks') :
                 acks'[i] = IF i = Len(acks) + 1 THEN dCmd.cmd ELSE acks[i]
        BY <3>2, <4>1
      <4> QED
        BY <2>1, <2>2, <3>2, <4>2
    <3> QED
      BY <1>2, <3>1, <3>2 DEF DeviceHandle
  <2> QED
    BY <1>2, <2>2, <2>3 DEF DeviceHandle, hostVars
<1> QED
  BY <1>1, <1>2

LEMMA AckHost ==
  ASSUME TypeInv, AckInv, HostNext \/ LoseBytes \/ Disconnect \/ Connect
  PROVE  AckInv'
<1> USE DEF AckInv, AckedRan, deviceVars
<1>1. CASE HostStart \/ HostRepeat
  BY <1>1 DEF HostStart, HostRepeat, hostVars
<1>2. CASE HostAck
  <2>1. acks \in Seq(Byte) /\ acks # <<>> /\ current \in HostFrames \union {NoFrame}
    BY <1>2 DEF HostAck, TypeInv, TypeOK
  <2>2. /\ Head(acks) = acks[1] /\ Len(acks) \in Nat \ {0}
        /\ Len(Tail(acks)) = Len(acks) - 1
        /\ \A i \in 1 .. Len(Tail(acks)) : Tail(acks)[i] = acks[i + 1]
    BY <2>1
  <2>3. AckedRan'
    <3>1. Head(acks) \in NoCrcCmd \/ \E g \in ran : g.cmd = Head(acks)
      BY <2>2
    <3>2. CASE current # NoFrame /\ current.cmd = Head(acks)
      <4>1. current.cmd \notin NoCrcCmd
        BY <2>1, <3>2, CommandLinkAssumption
      <4>2. acked' = acked \union {current} /\ ran' = ran
        BY <1>2, <3>2 DEF HostAck
      <4> QED
        BY <3>1, <3>2, <4>1, <4>2
    <3>3. CASE ~(current # NoFrame /\ current.cmd = Head(acks))
      <4>1. acked' = acked /\ ran' = ran
        BY <1>2, <3>3 DEF HostAck
      <4> QED
        BY <4>1
    <3> QED
      BY <3>2, <3>3
  <2> QED
    BY <1>2, <2>2, <2>3 DEF HostAck
<1>3. CASE LoseBytes \/ Connect
  BY <1>3 DEF LoseBytes, Connect, hostVars
<1>4. CASE Disconnect
  BY <1>4 DEF Disconnect, hostVars
<1> QED
  BY <1>1, <1>2, <1>3, <1>4 DEF HostNext

(* A command that the host counts as acknowledged, or another one with the   *)
(* same code, has been handled by PROTO_CmdTask, whatever was lost,          *)
(* repeated, misread, or answered on a later connection than it was sent on: *)
(* for a code that only one command has it is this command.                  *)
THEOREM AckedWereHandled == Spec => []AckedRan
<1>1. TypeInv /\ AckInv /\ [Next]_vars => AckInv'
  <2>1. AckInv /\ UNCHANGED vars => AckInv'
    BY DEF AckInv, AckedRan, vars, deviceVars, hostVars
  <2> QED
    BY <2>1, AckRx, AckDevice, AckHost DEF Next, DeviceNext
<1>2. AckInv => AckedRan
  BY DEF AckInv
<1> QED
  BY TypeInit, TypeNext, AckInit, <1>1, <1>2, PTL DEF Spec

(***************************************************************************)
(* No command from nothing.  Under any losses, a command that is handled   *)
(* is spelt with bytes of frames that the host has started on.  The        *)
(* strengthening holds the bytes on the way, each field of the parser from *)
(* the position where it is filled, and the frames put together so far to  *)
(* these bytes.                                                            *)
(***************************************************************************)
Heard == UNION {Letters(Bytes(f)) : f \in HostFrames \ todo}

Spelt(f) == f \in HostFrames /\ Letters(Bytes(f)) \subseteq Heard

ParserHeard ==
  /\ parser.state # "sof" => SOF \in Heard
  /\ parser.state \notin {"sof", "cmd"} => parser.cmd \in Heard
  /\ parser.state \notin {"sof", "cmd", "len"} => parser.len \in Heard
  /\ Letters(parser.payload) \subseteq Heard
  /\ parser.state = "crcHi" => parser.lo \in Heard

SpeltInv ==
  /\ Letters(rest) \subseteq Heard /\ ParserHeard
  /\ \A i \in 1 .. Len(cmds) : cmds[i].cmd \in NoCrcCmd \/ Spelt(cmds[i])
  /\ dCmd # NoFrame => dCmd.cmd \in NoCrcCmd \/ Spelt(dCmd)
  /\ \A f \in ran : Spelt(f)
  /\ current \notin todo

LEMMA LettersJoin ==
  ASSUME NEW s \in Seq(Byte), NEW t \in Seq(Byte)
  PROVE  Letters(s \o t) = Letters(s) \union Letters(t)
<1>1. ASSUME NEW i \in 1 .. Len(s \o t)
      PROVE  (s \o t)[i] \in Letters(s) \union Letters(t)
  <2>1. CASE i \in 1 .. Len(s)
    <3>1. (s \o t)[i] = s[i]
      BY <2>1
    <3> QED
      BY <2>1, <3>1 DEF Letters
  <2>2. CASE i \notin 1 .. Len(s)
    <3>1. i - Len(s) \in 1 .. Len(t) /\ (s \o t)[i] = t[i - Len(s)]
      BY <2>2
    <3> QED
      BY <3>1 DEF Letters
  <2> QED
    BY <2>1, <2>2
<1>2. ASSUME NEW i \in 1 .. Len(s) PROVE s[i] \in Letters(s \o t)
  <2>1. i \in 1 .. Len(s \o t) /\ (s \o t)[i] = s[i]
    OBVIOUS
  <2> QED
    BY <2>1 DEF Letters
<1>3. ASSUME NEW i \in 1 .. Len(t) PROVE t[i] \in Letters(s \o t)
  <2>1. i + Len(s) \in 1 .. Len(s \o t) /\ (s \o t)[i + Len(s)] = t[i]
    OBVIOUS
  <2> QED
    BY <2>1 DEF Letters
<1> QED
  BY <1>1, <1>2, <1>3 DEF Letters

(* The bytes of a frame are its fields.                                      *)
LEMMA FrameLetters ==
  ASSUME NEW f \in Frame, Len(f.payload) \in Byte
  PROVE  Letters(Bytes(f)) = {SOF, f.cmd, Len(f.payload), f.lo, f.hi}
                               \union Letters(f.payload)
<1> DEFINE head == <<SOF, f.cmd, Len(f.payload)>>
           crc == <<f.lo, f.hi>>
<1>1. /\ head \in Seq(Byte) /\ crc \in Seq(Byte) /\ f.payload \in Seq(Byte)
      /\ head \o f.payload \in Seq(Byte)
  BY CommandLinkAssumption DEF Frame
<1>2. Letters(head) = {SOF, f.cmd, Len(f.payload)}
  <2>1. Letters(head) = {head[1], head[2], head[3]}
    BY DEF Letters
  <2> QED
    BY <2>1
<1>3. Letters(crc) = {f.lo, f.hi}
  <2>1. Letters(crc) = {crc[1], crc[2]}
    BY DEF Letters
  <2> QED
    BY <2>1
<1>4. Bytes(f) = (head \o f.payload) \o crc
  BY DEF Bytes
<1> HIDE DEF head, crc
<1>5. Letters(Bytes(f)) = (Letters(head) \union Letters(f.payload)) \union Letters(crc)
  BY <1>1, <1>4, LettersJoin
<1> QED
  BY <1>2, <1>3, <1>5

(* What the host starts on is heard of from then on.                         *)
LEMMA HeardGrows ==
  /\ todo' \subseteq todo => Heard \subseteq Heard'
  /\ \A f \in HostFrames : f \notin todo => Spelt(f)
BY DEF Heard, Spelt

LEMMA SpeltKept ==
  ASSUME SpeltInv, todo' \subseteq todo, Letters(rest') \subseteq Heard',
         UNCHANGED deviceVars, current' \notin todo'
  PROVE  SpeltInv'
<1>1. Heard \subseteq Heard'
  BY HeardGrows
<1>2. UNCHANGED <<parser, cmds, dCmd, ran>>
  BY DEF deviceVars
<1>3. ParserHeard'
  BY <1>1, <1>2 DEF SpeltInv, ParserHeard
<1>4. \A f : Spelt(f) => Spelt(f)'
  BY <1>1 DEF Spelt
<1> QED
  BY <1>2, <1>3, <1>4 DEF SpeltInv

LEMMA SpeltInit == Init => SpeltInv
<1> SUFFICES ASSUME Init PROVE SpeltInv
  OBVIOUS
<1>1. Letters(<<>>) = {}
  BY DEF Letters
<1> QED
  BY <1>1, CommandLinkAssumption
     DEF Init, SpeltInv, ParserHeard, ResetParser

LEMMA SpeltCollecting ==
  ASSUME TypeInv, ParserHeard, NEW b \in Heard, UNCHANGED todo, Collecting(b)
  PROVE  ParserHeard'
<1>1. Heard' = Heard
  BY DEF Heard
<1>2. parser \in Parser /\ parser.payload \in Seq(Byte)
  BY DEF TypeInv, TypeOK, Parser
<1>3. CASE parser.state = "payload"
  <2>1. /\ parser'.payload = Append(parser.payload, b)
        /\ parser'.state \in {"crcLo", "payload"}
        /\ parser'.cmd = parser.cmd /\ parser'.len = parser.len
    BY <1>2, <1>3 DEF Collecting, Parser
  <2>2. \A i \in 1 .. Len(parser'.payload) :
          parser'.payload[i] = b \/ parser'.payload[i] \in Letters(parser.payload)
    <3>1. \A i \in 1 .. Len(parser'.payload) :
            parser'.payload[i] = b \/ (/\ i \in 1 .. Len(parser.payload)
                                       /\ parser'.payload[i] = parser.payload[i])
      BY <1>2, <2>1
    <3> QED
      BY <3>1 DEF Letters
  <2>3. \A i \in 1 .. Len(parser'.payload) : parser'.payload[i] \in Heard
    BY <2>2 DEF ParserHeard
  <2>4. Letters(parser'.payload) \subseteq Heard
    BY <2>3 DEF Letters
  <2> QED
    BY <1>1, <1>3, <2>1, <2>4 DEF ParserHeard
<1>4. CASE parser.state # "payload"
  BY <1>1, <1>2, <1>4 DEF Collecting, Parser, ParserHeard
<1> QED
  BY <1>3, <1>4

(* A frame that the parser has put together is spelt with heard bytes.       *)
LEMMA ReceivedSpelt ==
  ASSUME TypeInv, ParserHeard, NEW b \in Heard, parser.state = "crcHi",
         Received(b) \in HostFrames
  PROVE  Spelt(Received(b))
<1> DEFINE f == Received(b)
<1>1. f \in HostFrames /\ f \in Frame /\ Len(f.payload) \in Byte
  BY FramesAreFrames, CommandLinkAssumption
<1>2. /\ f.cmd = parser.cmd /\ f.payload = parser.payload
      /\ f.lo = parser.lo /\ f.hi = b
  BY DEF Received
<1>3. Len(f.payload) = parser.len
  BY <1>2 DEF TypeInv, TypeOK
<1> HIDE DEF f
<1>4. Letters(Bytes(f)) = {SOF, f.cmd, Len(f.payload), f.lo, f.hi}
                            \union Letters(f.payload)
  BY <1>1, FrameLetters
<1>5. Spelt(f)
  BY <1>1, <1>2, <1>3, <1>4 DEF ParserHeard, Spelt
<1> QED
  BY <1>5 DEF f

LEMMA SpeltRx ==
  ASSUME TypeInv, SpeltInv, RxByte
  PROVE  SpeltInv'
<1>1. /\ todo' = todo /\ current' = current /\ dCmd' = dCmd /\ ran' = ran
      /\ rest' = Tail(rest) /\ rest # <<>>
  BY DEF RxByte, hostVars
<1>2. Heard' = Heard
  BY <1>1 DEF Heard
<1>3. \A f : Spelt(f)' <=> Spelt(f)
  BY <1>2 DEF Spelt
<1>4. rest \in Seq(Byte)
  BY DEF TypeInv, TypeOK
<1>5. Head(rest) \in Heard /\ Letters(rest') \subseteq Heard
  <2>1. 1 \in 1 .. Len(rest) /\ Head(rest) = rest[1]
    BY <1>1, <1>4
  <2>2. \A i \in 1 .. Len(Tail(rest)) :
          i + 1 \in 1 .. Len(rest) /\ Tail(rest)[i] = rest[i + 1]
    BY <1>1, <1>4
  <2> QED
    BY <1>1, <2>1, <2>2 DEF Letters, SpeltInv
<1>6. CASE Collecting(Head(rest)) /\ UNCHANGED <<cmds, acks>>
  <2>1. ParserHeard'
    BY <1>1, <1>5, <1>6, SpeltCollecting DEF SpeltInv
  <2> QED
    BY <1>1, <1>2, <1>3, <1>5, <1>6, <2>1 DEF SpeltInv
<1>7. CASE Checking(Head(rest))
  <2> DEFINE f == Received(Head(rest))
  <2>1. /\ parser' = ResetParser
        /\ cmds' = cmds \/ (Good(f) /\ cmds' = Append(cmds, f))
    BY <1>7 DEF Checking, AfterCrc, Queued
  <2>2. Good(f) => f.cmd \in NoCrcCmd \/ Spelt(f)
    BY <1>5, <1>7, ReceivedSpelt DEF Checking, SpeltInv, Good
  <2>3. ParserHeard'
    <3>1. Letters(<<>>) = {}
      BY DEF Letters
    <3> QED
      BY <2>1, <3>1 DEF ParserHeard, ResetParser
  <2> HIDE DEF f
  <2>4. \A i \in 1 .. Len(cmds') :
          (Good(f) /\ cmds'[i] = f) \/ (i \in 1 .. Len(cmds) /\ cmds'[i] = cmds[i])
    <3>1. cmds \in Seq(Frame)
      BY DEF TypeInv, TypeOK
    <3> QED
      BY <2>1, <3>1
  <2>5. \A i \in 1 .. Len(cmds') : cmds'[i].cmd \in NoCrcCmd \/ Spelt(cmds'[i])
    BY <2>2, <2>4 DEF SpeltInv
  <2>6. \A i \in 1 .. Len(cmds') :
          \/ cmds'[i].cmd \in NoCrcCmd
          \/ cmds'[i] \in HostFrames /\ Letters(Bytes(cmds'[i])) \subseteq Heard'
    BY <1>2, <2>5 DEF Spelt
  <2> QED
    BY <1>1, <1>2, <1>3, <1>5, <2>3, <2>6 DEF SpeltInv, Spelt
<1> QED
  BY <1>6, <1>7 DEF RxByte

LEMMA SpeltDevice ==
  ASSUME TypeInv, SpeltInv, DeviceTake \/ DeviceHandle
  PROVE  SpeltInv'
<1>1. /\ todo' = todo /\ current' = current /\ rest' = rest /\ parser' = parser
  BY DEF DeviceTake, DeviceHandle, hostVars
<1>2. Heard' = Heard
  BY <1>1 DEF Heard
<1>3. \A f : Spelt(f)' <=> Spelt(f)
  BY <1>2 DEF Spelt
<1>4. ParserHeard'
  BY <1>1, <1>2 DEF SpeltInv, ParserHeard
<1>5. CASE DeviceTake
  <2>1. cmds \in Seq(Frame) /\ cmds # <<>>
    BY <1>5 DEF DeviceTake, TypeInv, TypeOK
  <2>2. /\ Head(cmds) = cmds[1] /\ 1 \in 1 .. Len(cmds)
        /\ \A i \in 1 .. Len(Tail(cmds)) :
             i + 1 \in 1 .. Len(cmds) /\ Tail(cmds)[i] = cmds[i + 1]
    BY <2>1
  <2>3. /\ dCmd' = cmds[1] /\ ran' = ran
        /\ cmds' = Tail(cmds)
    BY <1>5, <2>2 DEF DeviceTake
  <2>4. \/ dCmd'.cmd \in NoCrcCmd
        \/ dCmd' \in HostFrames /\ Letters(Bytes(dCmd')) \subseteq Heard'
    BY <1>2, <2>2, <2>3 DEF SpeltInv, Spelt
  <2>5. \A i \in 1 .. Len(cmds') :
          \/ cmds'[i].cmd \in NoCrcCmd
          \/ cmds'[i] \in HostFrames /\ Letters(Bytes(cmds'[i])) \subseteq Heard'
    BY <1>2, <2>2, <2>3 DEF SpeltInv, Spelt
  <2>6. \A f \in ran' : f \in HostFrames /\ Letters(Bytes(f)) \subseteq Heard'
    BY <1>2, <2>3 DEF SpeltInv, Spelt
  <2>7. Letters(rest') \subseteq Heard' /\ current' \notin todo'
    BY <1>1, <1>2 DEF SpeltInv
  <2> QED
    BY <1>4, <2>4, <2>5, <2>6, <2>7 DEF SpeltInv, Spelt
<1>6. CASE DeviceHandle
  <2>1. /\ dCmd # NoFrame /\ dCmd' = NoFrame /\ cmds' = cmds
        /\ ran' = IF dCmd.cmd \in NoCrcCmd THEN ran ELSE ran \union {dCmd}
    BY <1>6 DEF DeviceHandle
  <2>3. \A f \in ran' : Spelt(f)
    BY <2>1 DEF SpeltInv
  <2>4. \A f \in ran' : f \in HostFrames /\ Letters(Bytes(f)) \subseteq Heard'
    BY <1>2, <2>3 DEF Spelt
  <2>5. \A i \in 1 .. Len(cmds') :
          \/ cmds'[i].cmd \in NoCrcCmd
          \/ cmds'[i] \in HostFrames /\ Letters(Bytes(cmds'[i])) \subseteq Heard'
    BY <1>2, <2>1 DEF SpeltInv, Spelt
  <2>6. Letters(rest') \subseteq Heard' /\ current' \notin todo'
    BY <1>1, <1>2 DEF SpeltInv
  <2> QED
    BY <1>4, <2>1, <2>4, <2>5, <2>6 DEF SpeltInv, Spelt
<1> QED
  BY <1>5, <1>6

LEMMA SpeltHost ==
  ASSUME TypeInv, SpeltInv, HostNext \/ LoseBytes \/ Disconnect \/ Connect
  PROVE  SpeltInv'
<1> USE DEF hostVars
<1>0. /\ Letters(<<>>) = {} /\ Letters(rest) \subseteq Heard
      /\ rest \in Seq(Byte) /\ current \notin todo
  BY DEF Letters, SpeltInv, TypeInv, TypeOK
<1>1. CASE HostStart
  <2>1. PICK f \in todo : /\ todo' = todo \ {f}
                          /\ current' = f /\ rest' = Bytes(f)
    BY <1>1 DEF HostStart
  <2>2. f \in HostFrames /\ f \notin todo'
    BY <2>1 DEF TypeInv, TypeOK
  <2>3. Letters(rest') \subseteq Heard'
    BY <2>1, <2>2 DEF Heard
  <2> QED
    BY <1>1, <2>1, <2>2, <2>3, SpeltKept DEF HostStart
<1>2. CASE HostRepeat
  <2>1. current \in HostFrames /\ rest' = Bytes(current)
    BY <1>2 DEF HostRepeat, TypeInv, TypeOK
  <2>2. UNCHANGED <<todo, current>> /\ UNCHANGED deviceVars
    BY <1>2 DEF HostRepeat
  <2>3. Letters(rest') \subseteq Heard'
    BY <1>0, <2>1, <2>2 DEF Heard
  <2> QED
    BY <1>0, <2>2, <2>3, SpeltKept
<1>3. CASE HostAck
  <2>1. todo' = todo /\ UNCHANGED deviceVars /\ (rest' = rest \/ rest' = <<>>)
        /\ (current' = current \/ current' = NoFrame)
    BY <1>3 DEF HostAck
  <2>2. NoFrame \notin todo
    BY CommandLinkAssumption DEF TypeInv, TypeOK
  <2>3. Letters(rest') \subseteq Heard'
    BY <1>0, <2>1 DEF Heard
  <2> QED
    BY <1>0, <2>1, <2>2, <2>3, SpeltKept
<1>4. CASE LoseBytes
  <2>1. UNCHANGED <<todo, current>> /\ UNCHANGED deviceVars
    BY <1>4 DEF LoseBytes
  <2>2. ASSUME NEW n \in 1 .. Len(rest) - 1
        PROVE  Letters(SubSeq(rest, n + 1, Len(rest))) \subseteq Letters(rest)
    <3>1. \A i \in 1 .. Len(SubSeq(rest, n + 1, Len(rest))) :
            /\ n + i \in 1 .. Len(rest)
            /\ SubSeq(rest, n + 1, Len(rest))[i] = rest[n + i]
      BY <1>0
    <3> QED
      BY <3>1 DEF Letters
  <2>3. Letters(rest') \subseteq Heard
    BY <1>0, <1>4, <2>2 DEF LoseBytes
  <2>4. Heard' = Heard
    BY <2>1 DEF Heard
  <2> QED
    BY <1>0, <2>1, <2>3, <2>4, SpeltKept
<1>5. CASE Disconnect \/ Connect
  <2>1. UNCHANGED <<todo, current>> /\ UNCHANGED deviceVars
        /\ (rest' = rest \/ rest' = <<>>)
    BY <1>5 DEF Disconnect, Connect
  <2>2. Letters(rest') \subseteq Heard'
    BY <1>0, <2>1 DEF Heard
  <2> QED
    BY <1>0, <2>1, <2>2, SpeltKept
<1> QED
  BY <1>1, <1>2, <1>3, <1>4, <1>5 DEF HostNext

LEMMA SpeltNext == TypeInv /\ SpeltInv /\ [Next]_vars => SpeltInv'
<1>1. SpeltInv /\ UNCHANGED vars => SpeltInv'
  BY SpeltKept DEF vars, hostVars, SpeltInv, Heard
<1> QED
  BY <1>1, SpeltRx, SpeltDevice, SpeltHost DEF Next, DeviceNext

(* Whatever is lost and however connections break frames off, every command  *)
(* that PROTO_CmdTask handles is one of the host's frames, and each of its   *)
(* bytes occurs in a frame that the host has started to send.                *)
THEOREM HandledIsSpelt == Spec => [](\A f \in ran : Spelt(f))
<1>1. SpeltInv => \A f \in ran : Spelt(f)
  BY DEF SpeltInv
<1> QED
  BY TypeInit, TypeNext, SpeltInit, SpeltNext, <1>1, PTL DEF Spec

=============================================================================
