-------------------------- MODULE HistoryPullProofs --------------------------
(***************************************************************************)
(* What holds of HistoryPull for windows, frames, queues and files of any  *)
(* size and any losses: its types, and that a pull implements FileTransfer. *)
(***************************************************************************)
EXTENDS HistoryPull, Integers, SequenceTheorems, TLAPS

(* Records of the file from off on, at least one.                            *)
DataOk(off, data) ==
  /\ Len(data) >= 1 /\ off + Len(data) <= Len(file)
  /\ \A i \in 1 .. Len(data) : data[i] = off + i

FileInv ==
  /\ \A i \in 1 .. Len(file) : file[i] = i
  /\ Len(file) <= MaxFile /\ owed <= Len(file)

(* The size that a window goes by is at most the file's and not below the    *)
(* size at the start of the pull.                                            *)
WindowInv ==
  /\ dPc \in {"read", "send", "pause"} => total <= Len(file) /\ owed <= total
  /\ dPc = "read" => pos < total
  /\ dPc = "send" => DataOk(pos, buf)

AirInv ==
  \A j \in 1 .. Len(air) :
    air[j].kind = "data" =>
      DataOk(air[j].off, air[j].data) /\ owed <= air[j].total

(* Before the pull nothing is under way.                                     *)
IdleInv == hPc = "idle" =>
  cmds = <<>> /\ dPc = "idle" /\ air = <<>> /\ got = <<>>

PullInv == FileInv /\ WindowInv /\ AirInv /\ IdleInv
-----------------------------------------------------------------------------
LEMMA TypeInit == Init => TypeOK
<1> SUFFICES ASSUME Init PROVE TypeOK
  OBVIOUS
<1> USE HistoryPullAssumption DEF Init
<1>1. BootRequest \in Request
  BY DEF BootRequest, Request
<1>2. DeviceType
  BY <1>1 DEF DeviceType
<1>3. HostType
  BY DEF HostType
<1>4. AirType /\ BoundType
  BY DEF AirType, BoundType
<1>5. file \in Seq(Nat) /\ up \in BOOLEAN
  <2>1. file \in Seq(Nat)
    OBVIOUS
  <2>2. up \in BOOLEAN
    BY Zenon
  <2> QED
    BY <2>1, <2>2
<1> QED
  BY <1>2, <1>3, <1>4, <1>5 DEF TypeOK

LEMMA TypeFrame ==
  ASSUME TypeOK
  PROVE  /\ UNCHANGED file => file' \in Seq(Nat)
         /\ UNCHANGED up => up' \in BOOLEAN
         /\ UNCHANGED deviceVars => DeviceType'
         /\ UNCHANGED hostVars => HostType'
         /\ UNCHANGED air => AirType'
         /\ UNCHANGED boundVars => BoundType'
<1>1. UNCHANGED deviceVars => DeviceType'
  BY DEF TypeOK, DeviceType, deviceVars
<1>2. UNCHANGED hostVars => HostType'
  BY DEF TypeOK, HostType, hostVars
<1>3. UNCHANGED air => AirType'
  BY DEF TypeOK, AirType
<1>4. UNCHANGED boundVars => BoundType'
  BY DEF TypeOK, BoundType, boundVars
<1> QED
  BY <1>1, <1>2, <1>3, <1>4 DEF TypeOK

LEMMA LoseType ==
  ASSUME TypeOK, Lose \/ UNCHANGED lost
  PROVE  lost' \in Nat
<1>1. lost \in Nat
  BY DEF TypeOK, BoundType
<1> QED
  BY <1>1 DEF Lose

LEMMA TransmitType ==
  ASSUME TypeOK, NEW f \in DataFrame \union AckFrame, Transmit(f)
  PROVE  AirType' /\ lost' \in Nat
<1>1. lost' \in Nat
  BY LoseType DEF Transmit
<1>2. CASE air' = air
  BY <1>1, <1>2, TypeFrame
<1>3. CASE Len(air) < AirDepth /\ air' = Append(air, f)
  BY <1>1, <1>3, HistoryPullAssumption DEF TypeOK, AirType
<1> QED
  BY <1>1, <1>2, <1>3 DEF Transmit

LEMMA LowerType ==
  ASSUME NEW a \in Nat, NEW b \in Nat
  PROVE  Lower(a, b) \in Nat /\ Lower(a, b) <= a /\ Lower(a, b) <= b
BY DEF Lower

LEMMA TypeFile ==
  ASSUME TypeOK, FileGrows
  PROVE  TypeOK'
<1>1. file' \in Seq(Nat)
  BY DEF FileGrows, TypeOK
<1>2. up' \in BOOLEAN /\ DeviceType' /\ HostType' /\ AirType' /\ BoundType'
  BY TypeFrame DEF FileGrows
<1> QED
  BY <1>1, <1>2 DEF TypeOK

LEMMA TypeDevice ==
  ASSUME TypeOK, DeviceNext
  PROVE  TypeOK'
<1> USE HistoryPullAssumption, TypeFrame
<1>1. CASE DeviceTake
  <2>1. /\ Head(cmds) \in Request /\ Tail(cmds) \in Seq(Request)
        /\ Len(Tail(cmds)) <= CmdDepth
    BY <1>1 DEF DeviceTake, TypeOK, DeviceType
  <2>2. DeviceType'
    BY <1>1, <2>1 DEF DeviceTake, TypeOK, DeviceType
  <2>3. file' \in Seq(Nat) /\ up' \in BOOLEAN /\ HostType' /\ AirType' /\ BoundType'
    BY <1>1 DEF DeviceTake
  <2> QED
    BY <2>2, <2>3 DEF TypeOK
<1>2. CASE DeviceSize
  <2>1. [kind |-> "ack", ok |-> Acceptable] \in AckFrame
    BY Zenon DEF AckFrame, Acceptable
  <2>2. AirType' /\ lost' \in Nat
    BY <1>2, <2>1, TransmitType DEF DeviceSize
  <2>3. DeviceType'
    <3>1. dReq \in Request /\ Len(file) \in Nat
      BY DEF TypeOK, DeviceType
    <3>2. [dReq EXCEPT !.count = Lower(@, WindowMax)] \in Request
      BY <3>1, LowerType DEF Request
    <3>3. dReq.off \in Nat
      BY <3>1 DEF Request
    <3>4. CASE Acceptable
      <4>1. dReq' \in Request /\ total' \in Nat /\ pos' \in Nat /\ sent' = 0
        BY <1>2, <3>1, <3>2, <3>3, <3>4 DEF DeviceSize
      <4>2. dPc' = "read" /\ UNCHANGED <<cmds, buf>>
        BY <1>2, <3>4 DEF DeviceSize
      <4> QED
        BY <4>1, <4>2 DEF TypeOK, DeviceType
    <3>5. CASE ~Acceptable
      BY <1>2, <3>5 DEF DeviceSize, TypeOK, DeviceType
    <3> QED
      BY <3>4, <3>5
  <2>4. file' \in Seq(Nat) /\ up' \in BOOLEAN /\ HostType'
    BY <1>2 DEF DeviceSize
  <2>5. BoundType'
    BY <1>2, <2>2 DEF DeviceSize, TypeOK, BoundType
  <2> QED
    BY <2>2, <2>3, <2>4, <2>5 DEF TypeOK
<1>3. CASE DeviceRead
  <2>1. buf' \in Seq(Nat)
    <3>1. file \in Seq(Nat) /\ pos \in Nat /\ total \in Nat /\ buf \in Seq(Nat)
      BY DEF TypeOK, DeviceType
    <3>2. \A n \in Int : n <= Len(file) => SubSeq(file, pos + 1, n) \in Seq(Nat)
      BY <3>1
    <3>3. Lower(ReadAt + ToRead, Len(file)) \in Int
      BY <3>1 DEF Lower, ToRead, ReadAt
    <3>4. Lower(ReadAt + ToRead, Len(file)) <= Len(file)
      BY <3>1 DEF Lower, ToRead, ReadAt
    <3>5. CASE buf' = buf
      BY <3>1, <3>5
    <3>6. CASE buf' = SubSeq(file, ReadAt + 1, Lower(ReadAt + ToRead, Len(file)))
      BY <3>2, <3>3, <3>4, <3>6 DEF ReadAt
    <3> QED
      BY <1>3, <3>5, <3>6 DEF DeviceRead
  <2>2. DeviceType'
    BY <1>3, <2>1 DEF DeviceRead, TypeOK, DeviceType
  <2>3. BoundType'
    BY <1>3, LoseType DEF DeviceRead, TypeOK, BoundType
  <2>4. file' \in Seq(Nat) /\ up' \in BOOLEAN /\ HostType' /\ AirType'
    BY <1>3 DEF DeviceRead
  <2> QED
    BY <2>2, <2>3, <2>4 DEF TypeOK
<1>4. CASE DeviceSend
  <2>1. [kind |-> "data", off |-> pos, total |-> total, data |-> buf] \in DataFrame
    BY DEF TypeOK, DeviceType, DataFrame
  <2>2. AirType' /\ lost' \in Nat
    BY <1>4, <2>1, TransmitType DEF DeviceSend
  <2>3. DeviceType'
    <3>1. Len(buf) \in Nat /\ <<>> \in Seq(Nat)
      BY DEF TypeOK, DeviceType
    <3> QED
      BY <1>4, <3>1 DEF DeviceSend, NextPos, TypeOK, DeviceType
  <2>4. BoundType'
    BY <1>4, <2>2 DEF DeviceSend, TypeOK, BoundType
  <2>5. file' \in Seq(Nat) /\ up' \in BOOLEAN /\ HostType'
    BY <1>4 DEF DeviceSend
  <2> QED
    BY <2>2, <2>3, <2>4, <2>5 DEF TypeOK
<1>5. CASE DevicePause
  <2>1. DeviceType'
    BY <1>5 DEF DevicePause, TypeOK, DeviceType
  <2>2. file' \in Seq(Nat) /\ up' \in BOOLEAN /\ HostType' /\ AirType' /\ BoundType'
    BY <1>5 DEF DevicePause
  <2> QED
    BY <2>1, <2>2 DEF TypeOK
<1> QED
  BY <1>1, <1>2, <1>3, <1>4, <1>5 DEF DeviceNext

(* What the host changes besides its own state.                              *)
LEMMA GetType ==
  ASSUME TypeOK, NEW off \in Nat, NEW count \in Nat,
         SendGet(off, count) \/ NoGet
  PROVE  /\ cmds' \in Seq(Request) /\ Len(cmds') <= CmdDepth
         /\ lost' \in Nat /\ want' \in Nat
<1>1. cmds \in Seq(Request) /\ Len(cmds) <= CmdDepth /\ want \in Nat
  BY DEF TypeOK, DeviceType, HostType
<1>2. [off |-> off, count |-> count] \in Request
  BY DEF Request
<1>3. LET q == Queued([off |-> off, count |-> count]) IN
        q \in Seq(Request) /\ Len(q) <= CmdDepth
  BY <1>1, <1>2, HistoryPullAssumption DEF Queued
<1>4. lost' \in Nat
  BY LoseType DEF SendGet, NoGet
<1> QED
  BY <1>1, <1>3, <1>4 DEF SendGet, NoGet

LEMMA DeviceKept ==
  ASSUME TypeOK, UNCHANGED <<dPc, dReq, total, pos, sent, buf>>,
         cmds' \in Seq(Request), Len(cmds') <= CmdDepth
  PROVE  DeviceType'
BY DEF TypeOK, DeviceType

LEMMA TypeHostSends ==
  ASSUME TypeOK, HostStart \/ HostResume \/ HostTimeout
  PROVE  TypeOK'
<1> USE HistoryPullAssumption
<1>1. PICK off \in Nat, count \in Nat : SendGet(off, count) \/ NoGet
  BY DEF HostStart, HostResume, HostTimeout, TypeOK, HostType
<1>2. /\ cmds' \in Seq(Request) /\ Len(cmds') <= CmdDepth
      /\ lost' \in Nat /\ want' \in Nat
  BY <1>1, GetType
<1>3. DeviceType'
  BY <1>2, DeviceKept DEF HostStart, HostResume, HostTimeout
<1>4. came' \in Nat
  BY DEF HostStart, HostResume, HostTimeout, SendGet, TypeOK, HostType
<1>5. HostType'
  <2>1. Len(file) \in Nat
    BY DEF TypeOK
  <2>2. tries' \in Nat /\ owed' \in Nat /\ got' = got
    BY <2>1 DEF HostStart, HostResume, HostTimeout, TypeOK, HostType
  <2>3. hPc' \in {"idle", "receiving", "done", "broken", "failed"}
    BY DEF HostStart, HostResume, HostTimeout, TypeOK, HostType
  <2> QED
    BY <1>2, <1>4, <2>2, <2>3 DEF TypeOK, HostType
<1>6. early' \in Nat /\ breaks' \in Nat
  BY DEF HostStart, HostResume, HostTimeout, TypeOK, BoundType
<1>7. file' \in Seq(Nat) /\ up' \in BOOLEAN /\ AirType'
  BY TypeFrame DEF HostStart, HostResume, HostTimeout
<1> QED
  BY <1>2, <1>3, <1>5, <1>6, <1>7 DEF TypeOK, BoundType

LEMMA TypeHostReceives ==
  ASSUME TypeOK, HostReceive
  PROVE  TypeOK'
<1> USE HistoryPullAssumption
<1> DEFINE frame == Head(air)
<1>1. /\ frame \in DataFrame \union AckFrame /\ Tail(air) \in Seq(DataFrame \union AckFrame)
      /\ Len(Tail(air)) <= AirDepth
  BY DEF HostReceive, TypeOK, AirType
<1>2. /\ got' \in Seq(Nat) /\ came' \in Nat /\ tries' \in Nat
      /\ hPc' \in {"idle", "receiving", "done", "broken", "failed"}
      /\ \E off, count \in Nat : SendGet(off, count) \/ NoGet
  <2>1. /\ got \in Seq(Nat) /\ came \in Nat /\ tries \in Nat /\ want \in Nat
        /\ hPc \in {"idle", "receiving", "done", "broken", "failed"}
    BY DEF TypeOK, HostType
  <2>2. CASE hPc # "receiving" \/ frame.kind # "data"
    BY <2>1, <2>2 DEF HostReceive
  <2>3. CASE hPc = "receiving" /\ frame.kind = "data"
    <3>1. frame.data \in Seq(Nat)
      BY <1>1, <2>3 DEF DataFrame, AckFrame
    <3>2. tries' = 0 /\ (HostAccept(frame) \/ HostReject(frame))
      BY <2>3 DEF HostReceive
    <3>3. CASE HostAccept(frame)
      <4>1. got' \in Seq(Nat) /\ Len(got') \in Nat
        BY <2>1, <3>1, <3>3 DEF HostAccept
      <4>2. /\ came' \in Nat /\ hPc' \in {"done", hPc}
            /\ SendGet(Len(got'), Window) \/ NoGet
        BY <2>1, <3>3 DEF HostAccept, SendGet
      <4> QED
        BY <2>1, <3>2, <4>1, <4>2
    <3>4. CASE HostReject(frame)
      <4>1. /\ came' \in Nat /\ UNCHANGED <<hPc, got>>
            /\ SendGet(Len(got), 2) \/ NoGet
        BY <2>1, <3>4 DEF HostReject, SendGet
      <4> QED
        BY <2>1, <3>2, <4>1
    <3> QED
      BY <3>2, <3>3, <3>4
  <2> QED
    BY <2>2, <2>3
<1>3. /\ cmds' \in Seq(Request) /\ Len(cmds') <= CmdDepth
      /\ lost' \in Nat /\ want' \in Nat
  BY <1>2, GetType
<1>4. DeviceType'
  BY <1>3, DeviceKept DEF HostReceive
<1>5. HostType'
  BY <1>2, <1>3 DEF HostReceive, TypeOK, HostType
<1>6. early' \in Nat /\ breaks' \in Nat
  BY DEF HostReceive, TypeOK, BoundType
<1>7. file' \in Seq(Nat) /\ up' \in BOOLEAN
  BY TypeFrame DEF HostReceive
<1>8. AirType'
  BY <1>1 DEF HostReceive, AirType
<1> QED
  BY <1>3, <1>4, <1>5, <1>6, <1>7, <1>8 DEF TypeOK, BoundType

LEMMA TypeLink ==
  ASSUME TypeOK, Disconnect \/ Connect
  PROVE  TypeOK'
<1>1. file' \in Seq(Nat) /\ DeviceType'
  BY TypeFrame DEF Disconnect, Connect, deviceVars
<1>2. up' \in BOOLEAN
  BY Zenon DEF Disconnect, Connect
<1>3. AirType'
  <2>1. CASE air' = <<>>
    BY <2>1, HistoryPullAssumption DEF AirType
  <2>2. CASE air' = air
    BY <2>2, TypeFrame
  <2> QED
    BY <2>1, <2>2 DEF Disconnect, Connect
<1>4. HostType'
  BY DEF Disconnect, Connect, TypeOK, HostType, hostVars
<1>5. BoundType'
  BY DEF Disconnect, Connect, TypeOK, BoundType, boundVars
<1> QED
  BY <1>1, <1>2, <1>3, <1>4, <1>5 DEF TypeOK

LEMMA TypeNext == TypeOK /\ [Next]_vars => TypeOK'
<1>1. TypeOK /\ UNCHANGED vars => TypeOK'
  BY TypeFrame DEF TypeOK, vars
<1> QED
  BY <1>1, TypeFile, TypeDevice, TypeHostSends, TypeHostReceives, TypeLink
     DEF Next, HostNext

(* The variables keep their types, the command queue and the controller      *)
(* their depths, for files, windows and queues of any size.                  *)
THEOREM TypeCorrect == Spec => []TypeOK
BY TypeInit, TypeNext, PTL DEF Spec

(***************************************************************************)
(* The refinement.  The strengthening PullInv: whatever is read, sent or   *)
(* on the air is a piece of the file, and announces a size between what    *)
(* the file held when the pull was started and what it holds now.          *)
(***************************************************************************)
LEMMA PullInit == Init => PullInv
BY HistoryPullAssumption
   DEF Init, PullInv, FileInv, WindowInv, AirInv, IdleInv

LEMMA PullFile ==
  ASSUME TypeOK, PullInv, FileGrows
  PROVE  PullInv'
<1> USE DEF PullInv
<1>1. /\ Len(file') = Len(file) + 1 /\ Len(file) \in Nat
      /\ \A i \in 1 .. Len(file') :
           file'[i] = IF i = Len(file) + 1 THEN Len(file) + 1 ELSE file[i]
  BY DEF FileGrows, TypeOK
<1>2. FileInv'
  BY <1>1, HistoryPullAssumption DEF FileGrows, FileInv, hostVars, TypeOK, HostType
<1>3. WindowInv'
  <2>1. dPc = "send" => DataOk(pos, buf)'
    BY <1>1 DEF WindowInv, DataOk, FileGrows, deviceVars, TypeOK, DeviceType
  <2> QED
    BY <1>1, <2>1 DEF WindowInv, FileGrows, deviceVars, hostVars, DataOk, TypeOK,
       DeviceType
<1>4. AirInv'
  <2>1. \A j \in 1 .. Len(air) : air[j].kind = "data" =>
          DataOk(air[j].off, air[j].data)'
    <3> SUFFICES ASSUME NEW j \in 1 .. Len(air), air[j].kind = "data"
                 PROVE  DataOk(air[j].off, air[j].data)'
      BY DEF FileGrows
    <3>1. air[j].off \in Nat /\ air[j].data \in Seq(Nat)
      BY DEF TypeOK, AirType, DataFrame, AckFrame
    <3>2. /\ Len(air[j].data) >= 1
          /\ air[j].off + Len(air[j].data) <= Len(file)
          /\ \A i \in 1 .. Len(air[j].data) : air[j].data[i] = air[j].off + i
      BY Zenon DEF AirInv, DataOk
    <3>3. air[j].off + Len(air[j].data) <= Len(file')
      <4>1. Len(air[j].data) \in Nat
        BY <3>1
      <4> QED
        BY <1>1, <3>1, <3>2, <4>1
    <3> QED
      BY <3>2, <3>3, Zenon DEF DataOk, FileGrows
  <2> QED
    BY <2>1 DEF AirInv, FileGrows, hostVars
<1>5. IdleInv'
  BY DEF IdleInv, FileGrows, hostVars, deviceVars
<1> QED
  BY <1>2, <1>3, <1>4, <1>5

(* A frame sent is lost or comes last.                                       *)
LEMMA PullTransmit ==
  ASSUME TypeOK, AirInv, UNCHANGED <<file, owed>>,
         NEW f \in DataFrame \union AckFrame, Transmit(f),
         f.kind = "data" => DataOk(f.off, f.data) /\ owed <= f.total
  PROVE  AirInv'
<1>1. CASE air' = air
  BY <1>1 DEF AirInv, DataOk
<1>2. CASE air' = Append(air, f)
  <2>1. /\ Len(air') = Len(air) + 1 /\ Len(air) \in Nat
        /\ \A j \in 1 .. Len(air') :
             air'[j] = IF j = Len(air) + 1 THEN f ELSE air[j]
    BY <1>2 DEF TypeOK, AirType
  <2> QED
    BY <2>1 DEF AirInv, DataOk
<1> QED
  BY <1>1, <1>2 DEF Transmit

LEMMA PieceAt ==
  ASSUME NEW s \in Seq(Nat), NEW m \in Nat, NEW k \in Nat, 1 <= m, k <= Len(s),
         NEW i \in 1 .. k - m + 1
  PROVE  SubSeq(s, m, k)[i] = s[m + i - 1]
OBVIOUS

LEMMA Piece ==
  ASSUME NEW s \in Seq(Nat), NEW a \in Nat, NEW n \in Nat, a + n <= Len(s)
  PROVE  /\ Len(SubSeq(s, a + 1, a + n)) = n
         /\ \A i \in 1 .. n : SubSeq(s, a + 1, a + n)[i] = s[a + i]
<1>1. PICK m \in Nat, k \in Nat : m = a + 1 /\ k = a + n
  OBVIOUS
<1>2. \A i \in 1 .. k - m + 1 : SubSeq(s, m, k)[i] = s[m + i - 1]
  BY <1>1, PieceAt
<1>3. Len(SubSeq(s, m, k)) = n
  BY <1>1
<1>4. ASSUME NEW i \in 1 .. n PROVE i \in 1 .. k - m + 1 /\ m + i - 1 = a + i
  BY <1>1
<1>5. SubSeq(s, a + 1, a + n) = SubSeq(s, m, k)
  BY <1>1
<1>6. ASSUME NEW i \in 1 .. n PROVE SubSeq(s, m, k)[i] = s[a + i]
  <2>1. SubSeq(s, m, k)[i] = s[m + i - 1]
    BY <1>2, <1>4, Zenon
  <2> QED BY <2>1, <1>4, Zenon
<1> QED BY <1>3, <1>5, <1>6, Zenon

(* What DeviceRead puts in data_buf.                                         *)
LEMMA ReadIsPiece ==
  ASSUME TypeOK, PullInv, dPc = "read", pos < Len(file)
  PROVE  DataOk(pos, SubSeq(file, ReadAt + 1,
                            Lower(ReadAt + ToRead, Len(file))))
<1>1. /\ file \in Seq(Nat) /\ Len(file) \in Nat /\ pos \in Nat /\ total \in Nat
      /\ pos < total /\ total <= Len(file)
  BY DEF TypeOK, DeviceType, PullInv, WindowInv
<1>2. ToRead \in Nat /\ ToRead >= 1 /\ pos + ToRead <= Len(file)
  BY <1>1, HistoryPullAssumption DEF ToRead, Lower
<1>3. ReadAt = pos /\ Lower(ReadAt + ToRead, Len(file)) = pos + ToRead
  BY <1>1, <1>2 DEF Lower, ReadAt
<1> DEFINE d == SubSeq(file, pos + 1, pos + ToRead)
<1>4. Len(d) = ToRead /\ \A i \in 1 .. ToRead : d[i] = file[pos + i]
  BY <1>1, <1>2, Piece
<1> HIDE DEF d
<1>5. \A i \in 1 .. ToRead : file[pos + i] = pos + i
  <2>1. \A i \in 1 .. ToRead : pos + i \in 1 .. Len(file)
    BY <1>1, <1>2
  <2> QED
    BY <2>1 DEF PullInv, FileInv
<1>6. DataOk(pos, d)
  BY <1>2, <1>4, <1>5 DEF DataOk
<1> QED
  BY <1>3, <1>6 DEF d

LEMMA PullDevice ==
  ASSUME TypeOK, PullInv, DeviceNext
  PROVE  PullInv'
<1>1. UNCHANGED <<file, owed, hPc, got>>
  BY DEF DeviceNext, DeviceTake, DeviceSize, DeviceRead, DeviceSend,
     DevicePause, hostVars
<1>2. FileInv'
  BY <1>1 DEF PullInv, FileInv
<1>3. dPc # "idle" \/ cmds # <<>>
  BY DEF DeviceNext, DeviceTake, DeviceSize, DeviceRead, DeviceSend, DevicePause
<1>4. IdleInv'
  BY <1>1, <1>3 DEF PullInv, IdleInv
<1>5. CASE DeviceTake
  BY <1>1, <1>2, <1>4, <1>5
     DEF DeviceTake, PullInv, WindowInv, AirInv, DataOk
<1>6. CASE DeviceSize
  <2>1. [kind |-> "ack", ok |-> Acceptable] \in AckFrame
    BY Zenon DEF AckFrame, Acceptable
  <2>2. AirInv'
    BY <1>1, <1>6, <2>1, PullTransmit DEF DeviceSize, PullInv
  <2>3. WindowInv'
    <3>1. Acceptable =>
            Len(file) \in Nat /\ owed <= Len(file) /\ dReq.off < Len(file)
      BY DEF TypeOK, PullInv, FileInv, Acceptable
    <3> QED
      BY <1>1, <1>6, <3>1 DEF DeviceSize, WindowInv
  <2> QED
    BY <1>2, <1>4, <2>2, <2>3 DEF PullInv
<1>7. CASE DeviceRead
  <2>1. WindowInv'
    <3>1. dPc' = "send" => DataOk(pos, buf')
      BY <1>7, ReadIsPiece DEF DeviceRead
    <3> QED
      BY <1>1, <1>7, <3>1 DEF DeviceRead, PullInv, WindowInv, DataOk
  <2>2. AirInv'
    BY <1>1, <1>7 DEF DeviceRead, PullInv, AirInv, DataOk
  <2> QED
    BY <1>2, <1>4, <2>1, <2>2 DEF PullInv
<1>8. CASE DeviceSend
  <2> DEFINE f == [kind |-> "data", off |-> pos, total |-> total, data |-> buf]
  <2>1. f \in DataFrame /\ f.off = pos /\ f.data = buf /\ f.total = total
    BY DEF TypeOK, DeviceType, DataFrame
  <2>2. DataOk(pos, buf) /\ owed <= total /\ total <= Len(file)
    BY <1>8 DEF DeviceSend, PullInv, WindowInv
  <2>3. Transmit(f)
    BY <1>8 DEF DeviceSend
  <2> HIDE DEF f
  <2>4. AirInv'
    BY <1>1, <2>1, <2>2, <2>3, PullTransmit DEF PullInv
  <2>5. WindowInv'
    BY <1>1, <1>8, <2>2 DEF DeviceSend, WindowInv
  <2> QED
    BY <1>2, <1>4, <2>4, <2>5 DEF PullInv
<1>9. CASE DevicePause
  BY <1>1, <1>2, <1>4, <1>9
     DEF DevicePause, PullInv, WindowInv, AirInv, DataOk
<1> QED
  BY <1>5, <1>6, <1>7, <1>8, <1>9 DEF DeviceNext

LEMMA PullHostSends ==
  ASSUME TypeOK, PullInv, HostStart \/ HostResume \/ HostTimeout
  PROVE  PullInv'
<1>1. UNCHANGED <<file, dPc, dReq, total, pos, sent, buf, air, got>>
  BY DEF HostStart, HostResume, HostTimeout
<1>2. hPc' # "idle"
  BY DEF HostStart, HostResume, HostTimeout
<1>3. CASE HostStart
  <2>1. dPc = "idle" /\ air = <<>>
    BY <1>3 DEF HostStart, PullInv, IdleInv
  <2>2. owed' = Len(file) /\ Len(file) \in Nat
    BY <1>3 DEF HostStart, TypeOK
  <2> QED
    BY <1>1, <1>2, <2>1, <2>2
       DEF PullInv, FileInv, WindowInv, AirInv, IdleInv
<1>4. CASE HostResume \/ HostTimeout
  <2>1. owed' = owed
    BY <1>4 DEF HostResume, HostTimeout
  <2> QED
    BY <1>1, <1>2, <2>1
       DEF PullInv, FileInv, WindowInv, AirInv, IdleInv, DataOk
<1> QED
  BY <1>3, <1>4

LEMMA PullHostReceives ==
  ASSUME TypeOK, PullInv, HostReceive
  PROVE  PullInv'
<1>1. UNCHANGED <<file, dPc, dReq, total, pos, sent, buf, owed>>
  BY DEF HostReceive
<1>2. hPc # "idle"
  BY DEF HostReceive, PullInv, IdleInv
<1>3. hPc' # "idle"
  BY <1>2 DEF HostReceive, HostAccept, HostReject
<1>4. AirInv'
  <2>1. /\ Len(Tail(air)) = Len(air) - 1 /\ Len(air) \in Nat
        /\ \A j \in 1 .. Len(Tail(air)) : Tail(air)[j] = air[j + 1]
    BY DEF HostReceive, TypeOK, AirType
  <2> QED
    BY <1>1, <2>1 DEF HostReceive, PullInv, AirInv, DataOk
<1> QED
  BY <1>1, <1>3, <1>4 DEF PullInv, FileInv, WindowInv, IdleInv, DataOk

LEMMA PullLink ==
  ASSUME TypeOK, PullInv, Disconnect \/ Connect
  PROVE  PullInv'
<1>1. UNCHANGED <<file, deviceVars, owed, got>> /\ (air' = air \/ air' = <<>>)
  BY DEF Disconnect, Connect, hostVars
<1>2. hPc' = "idle" => hPc = "idle"
  BY DEF Disconnect, Connect, hostVars
<1>3. AirInv'
  BY <1>1 DEF PullInv, AirInv, DataOk
<1> QED
  BY <1>1, <1>2, <1>3
     DEF PullInv, FileInv, WindowInv, IdleInv, DataOk, deviceVars

LEMMA PullNext == TypeOK /\ PullInv /\ [Next]_vars => PullInv'
<1>1. PullInv /\ UNCHANGED vars => PullInv'
  BY DEF PullInv, FileInv, WindowInv, AirInv, IdleInv, DataOk, vars, deviceVars,
     hostVars
<1> QED
  BY <1>1, PullFile, PullDevice, PullHostSends, PullHostReceives, PullLink
     DEF Next, HostNext

LEMMA TransferInit == Init => Transfer!Init
BY DEF Init, Transfer!Init, Phase

(* A data frame that is taken brings the next piece of the file.             *)
LEMMA AcceptIsReceive ==
  ASSUME TypeOK, PullInv, HostReceive, hPc = "receiving",
         Head(air).kind = "data", HostAccept(Head(air))
  PROVE  Transfer!Receive
<1> DEFINE frame == Head(air)
           n == Len(got) + Len(frame.data)
<1>1. /\ air \in Seq(DataFrame \union AckFrame) /\ air # <<>> /\ air[1] = frame
      /\ 1 \in 1 .. Len(air)
  BY DEF HostReceive, TypeOK, AirType
<1>2. frame \in DataFrame
  BY <1>1 DEF DataFrame, AckFrame
<1>3. frame.data \in Seq(Nat) /\ frame.total \in Nat /\ frame.off = Len(got)
  BY <1>2 DEF DataFrame, HostAccept
<1>4. DataOk(Len(got), frame.data) /\ owed <= frame.total
  BY <1>1, <1>3 DEF PullInv, AirInv
<1>5. got' = got \o frame.data /\ UNCHANGED <<file, owed>>
  BY DEF HostAccept, HostReceive
<1>6. (hPc' = "done" /\ n >= frame.total) \/ hPc' = "receiving"
  <2>1. got \in Seq(Nat)
    BY DEF TypeOK, HostType
  <2>2. Len(got') = n
    BY <1>3, <1>5, <2>1
  <2> QED
    BY <2>2 DEF HostAccept
<1>7. file \in Seq(Nat) /\ Len(got) \in Nat /\ Len(frame.data) \in Nat /\ owed \in Nat
  BY <1>3 DEF TypeOK, HostType
<1> HIDE DEF frame
<1>8. Len(frame.data) >= 1 /\ n <= Len(file)
  BY <1>4 DEF DataOk
<1>9. frame.data = SubSeq(file, Len(got) + 1, n)
  <2> DEFINE piece == SubSeq(file, Len(got) + 1, n)
  <2>1. /\ Len(piece) = Len(frame.data)
        /\ \A i \in 1 .. Len(frame.data) : piece[i] = file[Len(got) + i]
    BY <1>7, <1>8, Piece
  <2>2. \A i \in 1 .. Len(frame.data) : Len(got) + i \in 1 .. Len(file)
    BY <1>7, <1>8
  <2>3. \A i \in 1 .. Len(frame.data) : piece[i] = frame.data[i]
    <3>1. \A i \in 1 .. Len(frame.data) : file[Len(got) + i] = Len(got) + i
      BY <2>2 DEF PullInv, FileInv
    <3> QED
      BY <1>4, <2>1, <3>1 DEF DataOk
  <2>4. piece \in Seq(Nat)
    BY <1>7, <1>8
  <2> HIDE DEF piece
  <2>5. piece = frame.data
    BY <1>3, <2>1, <2>3, <2>4, SeqEqual
  <2> QED
    BY <2>5 DEF piece
<1>10. n \in Len(got) + 1 .. Len(file)
  BY <1>7, <1>8
<1>11. Phase' \in IF n >= owed THEN {"pulling", "done"} ELSE {"pulling"}
  <2>1. hPc' = "done" => n >= owed
    BY <1>3, <1>4, <1>6, <1>7
  <2> QED
    BY <1>6, <2>1 DEF Phase
<1> HIDE DEF n
<1> QED
  BY <1>5, <1>9, <1>10, <1>11 DEF Transfer!Receive, Phase

LEMMA TransferStep ==
  ASSUME TypeOK, PullInv, [Next]_vars
  PROVE  [Transfer!Next]_Transfer!vars
<1> USE DEF Transfer!Next, Transfer!vars
<1>1. CASE FileGrows
  <2>1. Len(file) + 1 \in 1 .. MaxFile
    BY <1>1, HistoryPullAssumption DEF FileGrows, TypeOK
  <2>2. Transfer!Grow
    BY <1>1, <2>1 DEF FileGrows, Transfer!Grow, hostVars, Phase
  <2> QED
    BY <2>2
<1>2. CASE DeviceNext
  BY <1>2 DEF DeviceNext, DeviceTake, DeviceSize, DeviceRead, DeviceSend,
     DevicePause, hostVars, Phase
<1>3. CASE HostStart
  BY <1>3 DEF HostStart, Transfer!Start, Phase
<1>4. CASE HostResume
  BY <1>4 DEF HostResume, Transfer!Resume, Phase
<1>5. CASE HostReceive
  <2>1. CASE hPc # "receiving"
    BY <1>5, <2>1 DEF HostReceive, Phase
  <2>2. CASE hPc = "receiving" /\ Head(air).kind = "data" /\ HostAccept(Head(air))
    BY <1>5, <2>2, AcceptIsReceive
  <2>3. CASE hPc = "receiving" /\ Head(air).kind = "data" /\ HostReject(Head(air))
    BY <1>5, <2>3 DEF HostReceive, HostReject, Phase
  <2>4. CASE hPc = "receiving" /\ Head(air).kind # "data"
    BY <1>5, <2>4 DEF HostReceive, Transfer!Break, Phase
  <2> QED
    BY <1>5, <2>1, <2>2, <2>3, <2>4 DEF HostReceive
<1>6. CASE HostTimeout
  BY <1>6 DEF HostTimeout, Transfer!Break, Phase
<1>7. CASE Disconnect
  BY <1>7 DEF Disconnect, Transfer!Break, Phase
<1>8. CASE Connect \/ UNCHANGED vars
  BY <1>8 DEF Connect, vars, hostVars, Phase
<1> QED
  BY <1>1, <1>2, <1>3, <1>4, <1>5, <1>6, <1>7, <1>8 DEF Next, HostNext

(* Whatever the sizes of the frames, windows and queues, whatever is lost,   *)
(* repeated or broken off, and however the file grows meanwhile: what the    *)
(* host of HistoryPull has is the beginning of the file, and a pull that is  *)
(* done has all that the file held when it was started.                      *)
THEOREM PullImplementsTransfer == Spec => PullIsTransfer
BY TypeInit, TypeNext, PullInit, PullNext, TransferInit, TransferStep, PTL
   DEF Spec, PullIsTransfer, Transfer!Spec
==============================================================================
