--------------------------- MODULE HostOtaProofs ---------------------------
(***************************************************************************)
(* Proofs about HostOta, for every set of image sizes, any number of       *)
(* buffers and places in the transmit FIFO as long as there is one buffer  *)
(* more than places, and any number of commands, link losses,              *)
(* notifications and reboots.                                              *)
(***************************************************************************)
EXTENDS HostOta, SequenceTheorems, TLAPS

Entry == [kind : Kinds, slot : 0 .. Buffers - 1, meant : Packet]

\* What ota_adr was, in packets, when the packet was made.
AdrOf(p) == IF p.end THEN p.index + 1 ELSE p.index

Ota(i)   == fifo[i].kind = "ota"
HasStart == \E i \in DOMAIN fifo : fifo[i].kind = "start"
HasEnd   == \E i \in DOMAIN fifo : Ota(i) /\ fifo[i].meant.end
NoneOfDownload == \A i \in DOMAIN fifo : ~OfDownload(fifo[i])

(* The handle request: one at a time, and nothing of a download behind it, so  *)
(* that all packets of the last download have left when it is answered.        *)
RequestQueued ==
  \A i \in DOMAIN fifo : fifo[i].kind = "typeReq" =>
    /\ host = 1
    /\ \A j \in DOMAIN fifo : j > i => ~OfDownload(fifo[j])
    /\ \A j \in DOMAIN fifo : fifo[j].kind = "typeReq" => j = i
    /\ \A j \in DOMAIN replies : replies[j] # "typeRsp"
RequestAnswered ==
  \A i \in DOMAIN replies : replies[i] = "typeRsp" =>
    /\ host = 1 /\ NoneOfDownload
    /\ \A j \in DOMAIN replies : replies[j] = "typeRsp" => j = i
RequestInv == RequestQueued /\ RequestAnswered /\ (host = 2 => NoneOfDownload)

(* While a download runs its packets sit in the slots their place in the image *)
(* gives them, and none is further behind ota_adr than the FIFO is long.       *)
SlotInv ==
  /\ host \in {3, 4} => n \in Images
  /\ host = 3 => adr <= n
  /\ host = 4 => adr = n + 1
  /\ host \in {3, 4} => \A i \in DOMAIN fifo : Ota(i) =>
       LET a == AdrOf(fifo[i].meant) IN
       /\ a < adr /\ adr - a <= Len(fifo) + 1 - i
       /\ fifo[i].slot = Slot(a)
       /\ fifo[i].meant.end => a = n

(* What the remote has still to see, from packet "base" up to "top".           *)
Stream(base, top) ==
  /\ base <= top
  /\ \A i \in DOMAIN fifo : Ota(i) =>
       /\ base <= AdrOf(fifo[i].meant) /\ AdrOf(fifo[i].meant) < top
       /\ fifo[i].meant.end => AdrOf(fifo[i].meant) = top - 1
  /\ \A i, j \in DOMAIN fifo : Ota(i) /\ Ota(j) /\ i < j =>
       AdrOf(fifo[i].meant) < AdrOf(fifo[j].meant)
  /\ \A a \in base .. top - 1 :
       \E i \in DOMAIN fifo : Ota(i) /\ AdrOf(fifo[i].meant) = a

\* The first packet the remote has not seen; END counts as one more.
Base == IF HasStart THEN 0 ELSE IF remote.done THEN remote.next + 1 ELSE remote.next

(* Unless packets were thrown away, the FIFO continues what the remote has, or *)
(* begins with START, and reaches up to ota_adr.                               *)
StartFirst ==
  \A i, j \in DOMAIN fifo :
    fifo[i].kind = "start" /\ OfDownload(fifo[j]) /\ j # i => j > i /\ Ota(j)
Continues ==
  HasStart \/ ~lost =>
    /\ \E base, top \in Nat : base = Base /\ Stream(base, top) /\ (host \in {3, 4} => top = adr)
    /\ host = 4 => HasEnd \/ (remote.done /\ ~HasStart)
DoneIsLast ==
  remote.done /\ ~HasStart /\ ~lost => host # 3 /\ \A i \in DOMAIN fifo : ~Ota(i)
StreamInv == StartFirst /\ RemoteSeesNoGap /\ Continues /\ DoneIsLast

(* A download command anywhere on its way to state 1 has been asked for.       *)
AskedInv ==
  host = 0 => /\ sendOta => asked
              /\ regCmd = "ota" => asked
              /\ pc = "exec" /\ cmd = "ota" => asked

IInv == TypeOK /\ RequestInv /\ SlotInv /\ PayloadIntact /\ StreamInv /\ AskedInv
-----------------------------------------------------------------------------
(* What queueing and sending do to the FIFO, element by element. *)
LEMMA QueueEntry ==
  ASSUME NEW S, NEW f \in Seq(S), NEW e \in S
  PROVE  /\ Append(f, e) \in Seq(S)
         /\ Len(f) \in Nat /\ Len(Append(f, e)) = Len(f) + 1
         /\ DOMAIN f = 1 .. Len(f) /\ DOMAIN Append(f, e) = 1 .. Len(f) + 1
         /\ \A i \in 1 .. Len(f) : Append(f, e)[i] = f[i]
         /\ Append(f, e)[Len(f) + 1] = e
  BY AppendProperties, LenProperties

LEMMA SendEntry ==
  ASSUME NEW S, NEW f \in Seq(S), f # <<>>
  PROVE  /\ Tail(f) \in Seq(S)
         /\ Len(f) \in Nat \ {0} /\ Len(Tail(f)) = Len(f) - 1
         /\ DOMAIN f = 1 .. Len(f) /\ DOMAIN Tail(f) = 1 .. Len(f) - 1
         /\ \A i \in 1 .. Len(f) - 1 : Tail(f)[i] = f[i + 1]
         /\ Head(f) = f[1] /\ Head(f) \in S
  <1>1. Tail(f) \in Seq(S) /\ Len(Tail(f)) = Len(f) - 1 /\ Head(f) \in S
        /\ \A i \in 1 .. Len(Tail(f)) : Tail(f)[i] = f[i + 1]
    BY HeadTailProperties
  <1>2. Len(f) \in Nat \ {0} /\ DOMAIN f = 1 .. Len(f)
    BY EmptySeq, LenProperties
  <1>3. DOMAIN Tail(f) = 1 .. Len(f) - 1
    BY <1>1, LenProperties
  <1>4. Head(f) = f[1]
    OBVIOUS
  <1>5. QED
    BY <1>1, <1>2, <1>3, <1>4

(* The parts of the type invariant. *)
WordsOK ==
  /\ regCmd \in Commands \cup {"none"} /\ result \in {"ok", "ng", "data"}
  /\ pc \in {"load", "exec", "ota"} /\ cmd \in Commands \cup {"none"}
  /\ handle \in Reads \cup {"none"} /\ req \in Reads \cup {"none"}
FlagsOK ==
  /\ noAccept \in BOOLEAN /\ asked \in BOOLEAN /\ sendOta \in BOOLEAN
  /\ uuid \in BOOLEAN /\ lost \in BOOLEAN /\ link \in BOOLEAN
CountersOK == host \in 0 .. 4 /\ n \in Images \cup {0} /\ adr \in Nat
BufOK     == buf \in [0 .. Buffers - 1 -> Packet]
FifoOK    == fifo \in Seq(Entry) /\ Len(fifo) <= FifoSize
RepliesOK == replies \in Seq({"readRsp", "typeRsp", "errRsp"}) /\ Len(replies) <= MaxReplies
RemoteOK  == remote \in [next : Nat, err : BOOLEAN, done : BOOLEAN]
BudgetOK  == budget \in [cmds : 0 .. MaxCmds, losses : 0 .. MaxLosses, notify : 0 .. MaxNotify]

LEMMA TypeParts ==
  TypeOK <=> /\ WordsOK /\ FlagsOK /\ CountersOK /\ BufOK
             /\ FifoOK /\ RepliesOK /\ RemoteOK /\ BudgetOK
  BY DEF TypeOK, WordsOK, FlagsOK, CountersOK, BufOK, FifoOK, RepliesOK, RemoteOK, BudgetOK, Entry

(* The initial state has the types. *)
LEMMA InitTypeOK == Init => TypeOK
  <1> SUFFICES ASSUME Init PROVE TypeOK
    OBVIOUS
  <1> USE HostOtaAssumption
  <1>1. FifoOK
    BY EmptySeq DEF Init, FifoOK
  <1>2. RepliesOK
    BY EmptySeq DEF Init, RepliesOK
  <1>3. Blank \in Packet
    BY DEF Blank, Packet
  <1>4. BufOK
    BY <1>3 DEF Init, BufOK
  <1>5. RemoteOK
    BY DEF Init, FreshRemote, RemoteOK
  <1>6. BudgetOK
    BY DEF Init, BudgetOK
  <1>7. WordsOK /\ FlagsOK /\ CountersOK
    BY DEF Init, WordsOK, FlagsOK, CountersOK
  <1>8. QED
    BY <1>1, <1>2, <1>4, <1>5, <1>6, <1>7, TypeParts

(* A packet made for a place in the image goes to the slot of that place. *)
LEMMA PacketType ==
  ASSUME TypeOK, n \in Images, adr <= n
  PROVE  PacketAt(adr) \in Packet /\ Slot(adr) \in 0 .. Buffers - 1
         /\ Queued(Slot(adr), PacketAt(adr)) \in Entry /\ AdrOf(PacketAt(adr)) = adr
         /\ (PacketAt(adr).end <=> adr = n)
  <1> USE HostOtaAssumption
  <1>1. adr \in Nat /\ n \in Nat \ {0} /\ Buffers \in Nat \ {0}
    BY DEF TypeOK
  <1>2. Slot(adr) \in 0 .. Buffers - 1
    BY <1>1 DEF Slot
  <1>3. PacketAt(adr) \in Packet
    BY <1>1 DEF PacketAt, Data, EndPacket, Packet
  <1>4. Queued(Slot(adr), PacketAt(adr)) \in Entry
    BY <1>2, <1>3 DEF Queued, Entry, Kinds
  <1>5. QED
    BY <1>1, <1>2, <1>3, <1>4 DEF PacketAt, Data, EndPacket, AdrOf

(* A request or START in the FIFO. *)
LEMMA PlainType == \A k \in Kinds : Plain(k) \in Entry
  BY HostOtaAssumption DEF Plain, Entry, Blank, Packet

(* Queueing without a check for room never overfills the FIFO. *)
LEMMA PushOK ==
  ASSUME FifoOK, NEW e \in Entry, PushRaw(e)
  PROVE  FifoOK'
  <1>1. Append(fifo, e) \in Seq(Entry) /\ Len(Append(fifo, e)) = Len(fifo) + 1 /\ Len(fifo) \in Nat
    BY QueueEntry DEF FifoOK
  <1>2. QED
    BY <1>1, HostOtaAssumption DEF PushRaw, FifoOK

(* The receiver stays a receiver, whatever arrives. *)
LEMMA ReceiveType ==
  ASSUME RemoteOK, NEW p \in Packet
  PROVE  Receive(p) \in [next : Nat, err : BOOLEAN, done : BOOLEAN]
  <1>1. p.end \in BOOLEAN /\ p.index \in Nat /\ p.index + 1 \in Nat
    BY DEF Packet
  <1>2. (remote.err \/ p.index # remote.next) \in BOOLEAN
    OBVIOUS
  <1>3. (~remote.err /\ p.index + 1 = remote.next) \in BOOLEAN
    OBVIOUS
  <1>4. CASE p.end
    BY <1>3, <1>4 DEF RemoteOK, Receive
  <1>5. CASE ~p.end
    BY <1>1, <1>2, <1>5 DEF RemoteOK, Receive
  <1>6. QED
    BY <1>4, <1>5

(* Which actions touch the FIFO, and how. *)
LEMMA FifoFrame ==
  ASSUME [Next]_vars
  PROVE  \/ fifo' = fifo
         \/ PushRaw(Plain("readReq")) \/ PushRaw(Plain("typeReq")) \/ PushRaw(Plain("start"))
         \/ OtaSendData \/ Transmit
         \/ fifo' = <<>>
  BY DEF Next, MainLoop, ProcOta, Interrupt, PcWrite, LoadCmd, ExecCmd, SkipCmd, LockExpires,
           Reboot, Accept, AcceptRead, AcceptControl, AcceptOta, AcceptUnknown, SetCmdDone,
           OtaIdle, OtaReady, OtaBegin, OtaSendStart, OtaTimesOut, OtaSetResult, OtaSendData,
           SendPacket, OtaFinish, DataCallback, ReadResponse, TypeResponse, Notification,
           LinkLost, LinkConnected, Transmit, vars, reg, state, air, request

(* Every step preserves the types, given that ota_adr stays within the image. *)
LEMMA TypeStep ==
  ASSUME TypeOK, host = 3 => n \in Images /\ adr <= n, [Next]_vars
  PROVE  TypeOK'
  <1> USE HostOtaAssumption
  <1>0. /\ WordsOK /\ FlagsOK /\ CountersOK /\ BufOK
        /\ FifoOK /\ RepliesOK /\ RemoteOK /\ BudgetOK
    BY TypeParts
  <1>1. WordsOK'
    BY <1>0 DEF WordsOK, Commands, Next, MainLoop, ProcOta, Interrupt, PcWrite, LoadCmd, ExecCmd, SkipCmd, LockExpires,
           Reboot, Accept, AcceptRead, AcceptControl, AcceptOta, AcceptUnknown, SetCmdDone,
           OtaIdle, OtaReady, OtaBegin, OtaSendStart, OtaTimesOut, OtaSetResult, OtaSendData,
           SendPacket, OtaFinish, DataCallback, ReadResponse, TypeResponse, Notification,
           LinkLost, LinkConnected, Transmit, vars, reg, state, air, request
  <1>2. FlagsOK'
    BY <1>0 DEF FlagsOK, Next, MainLoop, ProcOta, Interrupt, PcWrite, LoadCmd, ExecCmd, SkipCmd, LockExpires,
           Reboot, Accept, AcceptRead, AcceptControl, AcceptOta, AcceptUnknown, SetCmdDone,
           OtaIdle, OtaReady, OtaBegin, OtaSendStart, OtaTimesOut, OtaSetResult, OtaSendData,
           SendPacket, OtaFinish, DataCallback, ReadResponse, TypeResponse, Notification,
           LinkLost, LinkConnected, Transmit, vars, reg, state, air, request
  <1>3. CountersOK'
    <2>1. CASE LoadCmd \/ ExecCmd \/ SkipCmd \/ LockExpires \/ Transmit \/ UNCHANGED vars
      <3>1. UNCHANGED <<host, n, adr>>
        BY <2>1 DEF LoadCmd, ExecCmd, SkipCmd, LockExpires, Accept, AcceptRead, AcceptControl,
             AcceptOta, AcceptUnknown, SetCmdDone, Transmit, vars, state
      <3>2. QED
        BY <1>0, <3>1 DEF CountersOK
    <2>2. CASE Interrupt \/ \E c \in Commands : PcWrite(c)
      <3>1. UNCHANGED <<n, adr>> /\ host' \in {host, 2}
        BY <2>2 DEF Interrupt, DataCallback, ReadResponse, TypeResponse, Notification, LinkLost,
             LinkConnected, PcWrite, vars, state
      <3>2. QED
        BY <1>0, <3>1 DEF CountersOK
    <2>3. CASE OtaIdle \/ OtaBegin \/ OtaTimesOut \/ OtaFinish
      <3>1. UNCHANGED <<n, adr>> /\ host' \in {host, 0, 1}
        BY <2>3 DEF OtaIdle, OtaBegin, OtaTimesOut, OtaFinish, OtaSetResult, state
      <3>2. QED
        BY <1>0, <3>1 DEF CountersOK
    <2>4. CASE OtaSendStart \/ Reboot
      <3>1. n' \in Images \cup {0} /\ adr' = 0 /\ host' \in {0, 3}
        BY <2>4 DEF OtaSendStart, Reboot
      <3>2. QED
        BY <3>1 DEF CountersOK
    <2>5. CASE OtaSendData
      <3>1. n' = n /\ adr' \in {adr, adr + 1} /\ host' \in {host, 3, 4}
        BY <2>5 DEF OtaSendData, SendPacket
      <3>2. QED
        BY <1>0, <3>1 DEF CountersOK
    <2>6. QED
      BY <2>1, <2>2, <2>3, <2>4, <2>5 DEF Next, MainLoop, ProcOta
  <1>4. OtaSendData => /\ PacketAt(adr) \in Packet /\ Slot(adr) \in 0 .. Buffers - 1
                       /\ Queued(Slot(adr), PacketAt(adr)) \in Entry
    BY PacketType DEF OtaSendData
  <1>5. BufOK'
    <2>1. Blank \in Packet
      BY DEF Blank, Packet
    <2>2. QED
      BY <1>0, <1>4, <2>1 DEF BufOK, Next, MainLoop, ProcOta, Interrupt, PcWrite, LoadCmd, ExecCmd, SkipCmd, LockExpires,
           Reboot, Accept, AcceptRead, AcceptControl, AcceptOta, AcceptUnknown, SetCmdDone,
           OtaIdle, OtaReady, OtaBegin, OtaSendStart, OtaTimesOut, OtaSetResult, OtaSendData,
           SendPacket, OtaFinish, DataCallback, ReadResponse, TypeResponse, Notification,
           LinkLost, LinkConnected, Transmit, vars, reg, state, air, request
  <1>6. FifoOK'
    <2>1. CASE fifo' = fifo
      BY <1>0, <2>1 DEF FifoOK
    <2>2. CASE PushRaw(Plain("readReq")) \/ PushRaw(Plain("typeReq")) \/ PushRaw(Plain("start"))
      BY <1>0, <2>2, PlainType, PushOK DEF Kinds
    <2>3. CASE OtaSendData
      BY <1>0, <1>4, <2>3, QueueEntry DEF OtaSendData, SendPacket, FifoOK
    <2>4. CASE Transmit
      BY <1>0, <2>4, SendEntry DEF Transmit, FifoOK
    <2>5. CASE fifo' = <<>>
      BY <2>5, EmptySeq DEF FifoOK
    <2>6. QED
      BY <2>1, <2>2, <2>3, <2>4, <2>5, FifoFrame
  <1>7. RepliesOK'
    <2>1. CASE DataCallback
      BY <1>0, <2>1, SendEntry DEF DataCallback, RepliesOK
    <2>2. CASE Transmit
      <3>1. \A r \in {"readRsp", "typeRsp", "errRsp"} :
              /\ Append(replies, r) \in Seq({"readRsp", "typeRsp", "errRsp"})
              /\ Len(Append(replies, r)) = Len(replies) + 1 /\ Len(replies) \in Nat
        BY <1>0, QueueEntry DEF RepliesOK
      <3>2. CASE OfDownload(Head(fifo))
        BY <1>0, <2>2, <3>2 DEF Transmit, RepliesOK
      <3>3. CASE ~OfDownload(Head(fifo))
        <4>1. \E r \in {"readRsp", "typeRsp", "errRsp"} : replies' = Append(replies, r)
          BY <2>2, <3>3 DEF Transmit, Answers
        <4>2. Len(replies) < MaxReplies
          BY <2>2, <3>3 DEF Transmit
        <4>3. QED
          BY <1>0, <3>1, <4>1, <4>2 DEF RepliesOK
      <3>4. QED
        BY <3>2, <3>3
    <2>3. replies' = replies \/ replies' = <<>> \/ DataCallback \/ Transmit
      BY DEF Next, MainLoop, ProcOta, Interrupt, PcWrite, LoadCmd, ExecCmd, SkipCmd, LockExpires,
           Reboot, Accept, AcceptRead, AcceptControl, AcceptOta, AcceptUnknown, SetCmdDone,
           OtaIdle, OtaReady, OtaBegin, OtaSendStart, OtaTimesOut, OtaSetResult, OtaSendData,
           SendPacket, OtaFinish, DataCallback, ReadResponse, TypeResponse, Notification,
           LinkLost, LinkConnected, Transmit, vars, reg, state, air, request
    <2>4. <<>> \in Seq({"readRsp", "typeRsp", "errRsp"}) /\ Len(<<>>) = 0
      BY EmptySeq
    <2>5. CASE replies' = <<>>
      BY <2>4, <2>5 DEF RepliesOK
    <2>6. CASE replies' = replies
      BY <1>0, <2>6 DEF RepliesOK
    <2>7. QED
      BY <2>1, <2>2, <2>3, <2>5, <2>6
  <1>8. RemoteOK'
    <2>1. CASE Transmit
      <3>1. Head(fifo) \in Entry
        BY <1>0, <2>1, SendEntry DEF Transmit, FifoOK
      <3>2. buf[Head(fifo).slot] \in Packet
        BY <1>0, <3>1 DEF BufOK, Entry
      <3>3. Receive(buf[Head(fifo).slot]) \in [next : Nat, err : BOOLEAN, done : BOOLEAN]
        BY <1>0, <3>2, ReceiveType
      <3>4. QED
        BY <1>0, <2>1, <3>3 DEF Transmit, RemoteOK, FreshRemote
    <2>2. remote' = remote \/ Transmit
      BY DEF Next, MainLoop, ProcOta, Interrupt, PcWrite, LoadCmd, ExecCmd, SkipCmd, LockExpires,
           Reboot, Accept, AcceptRead, AcceptControl, AcceptOta, AcceptUnknown, SetCmdDone,
           OtaIdle, OtaReady, OtaBegin, OtaSendStart, OtaTimesOut, OtaSetResult, OtaSendData,
           SendPacket, OtaFinish, DataCallback, ReadResponse, TypeResponse, Notification,
           LinkLost, LinkConnected, Transmit, vars, reg, state, air, request
    <2>3. QED
      BY <1>0, <2>1, <2>2 DEF RemoteOK
  <1>9. BudgetOK'
    <2>1. BudgetOK
      BY <1>0
    <2>2. CASE \E c \in Commands : PcWrite(c)
      <3>1. budget.cmds > 0 /\ budget' = [budget EXCEPT !.cmds = @ - 1]
        BY <2>2 DEF PcWrite
      <3>2. QED
        BY <2>1, <3>1 DEF BudgetOK
    <2>3. CASE Notification
      <3>1. budget.notify > 0 /\ budget' = [budget EXCEPT !.notify = @ - 1]
        BY <2>3 DEF Notification
      <3>2. QED
        BY <2>1, <3>1 DEF BudgetOK
    <2>4. CASE LinkLost
      <3>1. budget.losses > 0 /\ budget' = [budget EXCEPT !.losses = @ - 1]
        BY <2>4 DEF LinkLost
      <3>2. QED
        BY <2>1, <3>1 DEF BudgetOK
    <2>5. CASE budget' = budget
      BY <2>1, <2>5 DEF BudgetOK
    <2>6. CASE LoadCmd \/ ExecCmd \/ SkipCmd \/ LockExpires
      <3>1. budget' = budget
        BY <2>6 DEF LoadCmd, ExecCmd, SkipCmd, LockExpires, Accept, AcceptRead, AcceptControl,
             AcceptOta, AcceptUnknown, SetCmdDone
      <3>2. QED
        BY <2>5, <3>1
    <2>7. CASE Reboot \/ ProcOta
      <3>1. budget' = budget
        BY <2>7 DEF Reboot, ProcOta, OtaIdle, OtaReady, OtaBegin, OtaSendStart, OtaTimesOut,
             OtaSetResult, OtaSendData, SendPacket, OtaFinish, state, vars
      <3>2. QED
        BY <2>5, <3>1
    <2>8. CASE DataCallback \/ LinkConnected \/ Transmit \/ UNCHANGED vars
      <3>1. budget' = budget
        BY <2>8 DEF DataCallback, ReadResponse, TypeResponse, LinkConnected, Transmit, vars
      <3>2. QED
        BY <2>5, <3>1
    <2>9. QED
      BY <1>0, <2>2, <2>3, <2>4, <2>6, <2>7, <2>8 DEF Next, MainLoop, Interrupt
  <1>10. QED
    BY <1>1, <1>2, <1>3, <1>5, <1>6, <1>7, <1>8, <1>9
       DEF TypeOK, WordsOK, FlagsOK, CountersOK, BufOK, FifoOK, RepliesOK, RemoteOK, BudgetOK, Entry
-----------------------------------------------------------------------------
(* The steps as the download sees them: those that matter to it, and the others, *)
(* which queue a read request at most.                                          *)
Quiet ==
  /\ UNCHANGED <<host, uuid, n, adr, buf, lost, replies, remote>>
  /\ fifo' = fifo \/ PushRaw(Plain("readReq"))

LEMMA StepCases ==
  ASSUME [Next]_vars
  PROVE  \/ Transmit \/ OtaSendData \/ OtaBegin \/ OtaSendStart \/ OtaTimesOut
         \/ OtaFinish \/ DataCallback \/ LinkLost \/ Reboot \/ Quiet
  BY DEF Quiet, Next, MainLoop, ProcOta, Interrupt, PcWrite, LoadCmd, ExecCmd, SkipCmd,
         LockExpires, Accept, AcceptRead, AcceptControl, AcceptOta, AcceptUnknown, OtaIdle,
         Notification, LinkConnected, vars, reg, state, air, request

\* The FIFO after an entry was offered to it: the same, or one entry longer.
Longer(e) ==
  /\ Len(fifo) \in Nat /\ Len(fifo') = Len(fifo) + 1
  /\ DOMAIN fifo = 1 .. Len(fifo) /\ DOMAIN fifo' = 1 .. Len(fifo) + 1
  /\ \A i \in 1 .. Len(fifo) : fifo'[i] = fifo[i]
  /\ fifo'[Len(fifo) + 1] = e

LEMMA PushEntries ==
  ASSUME FifoOK, NEW e \in Entry, PushRaw(e)
  PROVE  \/ fifo' = fifo /\ Len(fifo) = FifoSize
         \/ Longer(e) /\ Len(fifo) < FifoSize
  <1>1. CASE Len(fifo) < FifoSize
    <2>1. fifo' = Append(fifo, e)
      BY <1>1 DEF PushRaw
    <2>2. QED
      BY <1>1, <2>1, QueueEntry DEF FifoOK, Longer
  <1>2. CASE ~(Len(fifo) < FifoSize)
    <2>1. Len(fifo) \in Nat
      BY LenProperties DEF FifoOK
    <2>2. QED
      BY <1>2, <2>1, HostOtaAssumption DEF PushRaw, FifoOK
  <1>3. QED
    BY <1>1, <1>2

\* The FIFO after its first entry was sent.
Shorter ==
  /\ Len(fifo) \in Nat \ {0} /\ Len(fifo') = Len(fifo) - 1
  /\ DOMAIN fifo = 1 .. Len(fifo) /\ DOMAIN fifo' = 1 .. Len(fifo) - 1
  /\ \A i \in DOMAIN fifo' : i \in Nat /\ i + 1 \in DOMAIN fifo /\ fifo'[i] = fifo[i + 1]
  /\ Head(fifo) = fifo[1] /\ fifo[1] \in Entry

LEMMA TransmitEntries == ASSUME FifoOK, Transmit PROVE Shorter
  <1>1. fifo' = Tail(fifo) /\ fifo # <<>>
    BY DEF Transmit
  <1>2. /\ Len(fifo) \in Nat \ {0} /\ Len(fifo') = Len(fifo) - 1
        /\ DOMAIN fifo = 1 .. Len(fifo) /\ DOMAIN fifo' = 1 .. Len(fifo) - 1
        /\ \A i \in 1 .. Len(fifo) - 1 : fifo'[i] = fifo[i + 1]
        /\ Head(fifo) = fifo[1] /\ fifo[1] \in Entry
    BY <1>1, SendEntry DEF FifoOK
  <1>3. QED
    BY <1>2 DEF Shorter

LEMMA FifoFacts ==
  ASSUME FifoOK
  PROVE  /\ Len(fifo) \in Nat /\ DOMAIN fifo = 1 .. Len(fifo)
         /\ \A i \in 1 .. Len(fifo) : fifo[i] \in Entry
  BY LenProperties, ElementOfSeq DEF FifoOK

LEMMA ClearedFifo == fifo' = <<>> => DOMAIN fifo' = {}
  OBVIOUS

-----------------------------------------------------------------------------
(* The handle request is preserved by every step. *)
LEMMA RequestStep == ASSUME TypeOK, RequestInv, [Next]_vars PROVE RequestInv'
  <1>0. FifoOK /\ RepliesOK
    BY TypeParts
  <1>1. CASE Quiet
    <2>1. CASE fifo' = fifo
      BY <1>1, <2>1 DEF Quiet, RequestInv, RequestQueued, RequestAnswered, NoneOfDownload
    <2>2. CASE Longer(Plain("readReq"))
      BY <1>1, <2>2 DEF Quiet, RequestInv, RequestQueued, RequestAnswered, NoneOfDownload, Longer, Plain, OfDownload
    <2>3. QED
      BY <1>0, <1>1, <2>1, <2>2, PushEntries, PlainType DEF Quiet, Kinds
  <1>2. CASE Transmit
    <2>1. Shorter /\ host' = host
      BY <1>0, <1>2, TransmitEntries DEF Transmit
    <2>2. CASE OfDownload(fifo[1])
      <3>1. replies' = replies
        BY <1>2, <2>1, <2>2 DEF Transmit, Shorter
      <3>2. RequestQueued'
        BY <2>1, <3>1 DEF RequestInv, RequestQueued, Shorter
      <3>3. RequestAnswered' /\ (host' = 2 => NoneOfDownload')
        BY <2>1, <3>1 DEF RequestInv, RequestAnswered, NoneOfDownload, Shorter
      <3>4. QED
        BY <3>2, <3>3 DEF RequestInv
    <2>3. ASSUME NEW a \in {"readRsp", "errRsp"}, replies' = Append(replies, a) PROVE RequestInv'
      <3>1. replies' = Append(replies, a) /\ a # "typeRsp"
        BY <2>3
      <3>2. /\ DOMAIN replies = 1 .. Len(replies) /\ DOMAIN replies' = 1 .. Len(replies) + 1
            /\ Len(replies) \in Nat
            /\ \A i \in 1 .. Len(replies) : replies'[i] = replies[i]
            /\ replies'[Len(replies) + 1] = a
        BY <1>0, <3>1, QueueEntry DEF RepliesOK
      <3>3. RequestQueued'
        <4>1. (\A j \in DOMAIN replies : replies[j] # "typeRsp")
              => \A j \in DOMAIN replies' : replies'[j] # "typeRsp"
          BY <3>2
        <4>2. QED
          BY <2>1, <4>1 DEF RequestInv, RequestQueued, Shorter
      <3>4. NoneOfDownload => NoneOfDownload'
        BY <2>1 DEF NoneOfDownload, Shorter
      <3>5. RequestAnswered'
        <4>1. \A i \in DOMAIN replies' : replies'[i] = "typeRsp" =>
                i \in DOMAIN replies /\ replies[i] = "typeRsp"
          BY <3>2
        <4>2. QED
          BY <2>1, <3>4, <4>1 DEF RequestInv, RequestAnswered
      <3>6. host' = 2 => NoneOfDownload'
        BY <2>1, <3>4 DEF RequestInv
      <3>7. QED
        BY <3>3, <3>5, <3>6 DEF RequestInv
    <2>4. CASE fifo[1].kind = "typeReq" /\ replies' = Append(replies, "typeRsp")
      <3>1. replies' = Append(replies, "typeRsp")
        BY <2>4
      <3>2. /\ DOMAIN replies = 1 .. Len(replies) /\ DOMAIN replies' = 1 .. Len(replies) + 1
            /\ Len(replies) \in Nat
            /\ \A i \in 1 .. Len(replies) : replies'[i] = replies[i]
            /\ replies'[Len(replies) + 1] = "typeRsp"
        BY <1>0, <3>1, QueueEntry DEF RepliesOK
      <3>3. /\ host = 1 /\ \A j \in DOMAIN replies : replies[j] # "typeRsp"
            /\ \A j \in DOMAIN fifo : j > 1 => ~OfDownload(fifo[j]) /\ fifo[j].kind # "typeReq"
        BY <2>1, <2>4 DEF RequestInv, RequestQueued, RequestAnswered, Shorter
      <3>4. \A j \in DOMAIN fifo' : ~OfDownload(fifo'[j]) /\ fifo'[j].kind # "typeReq"
        BY <2>1, <3>3 DEF Shorter
      <3>5. QED
        BY <2>1, <3>2, <3>3, <3>4 DEF RequestInv, RequestQueued, RequestAnswered, NoneOfDownload
    <2>5. CASE ~OfDownload(fifo[1])
      <3>1. fifo[1].kind \in {"readReq", "typeReq"}
        BY <2>1, <2>5 DEF Shorter, Entry, Kinds, OfDownload
      <3>2. PICK a \in Answers(fifo[1].kind) : replies' = Append(replies, a)
        BY <1>2, <2>1, <2>5 DEF Transmit, Shorter
      <3>3. a \in {"readRsp", "errRsp"} \/ (a = "typeRsp" /\ fifo[1].kind = "typeReq")
        BY <3>1 DEF Answers
      <3>4. QED
        BY <2>3, <2>4, <3>2, <3>3
    <2>6. QED
      BY <2>2, <2>5
  <1>3. CASE OtaSendData
    <2>1. host = 3 /\ host' \in {3, 4} /\ replies' = replies
      BY <1>3 DEF OtaSendData, SendPacket
    <2>2. CASE fifo' = fifo
      BY <2>1, <2>2 DEF RequestInv, RequestQueued, RequestAnswered
    <2>3. CASE fifo' = Append(fifo, Queued(Slot(adr), PacketAt(adr)))
      BY <2>1, <2>3, <1>0, QueueEntry DEF RequestInv, RequestQueued, RequestAnswered, Queued
    <2>4. QED
      BY <1>3, <2>2, <2>3 DEF OtaSendData, SendPacket
  <1>4. CASE OtaBegin
    <2>1. host = 0 /\ host' = 1 /\ replies' = replies /\ PushRaw(Plain("typeReq"))
      BY <1>4 DEF OtaBegin
    <2>2. CASE fifo' = fifo
      BY <2>1, <2>2 DEF RequestInv, RequestQueued, RequestAnswered
    <2>3. CASE Longer(Plain("typeReq"))
      BY <2>1, <2>3 DEF RequestInv, RequestQueued, RequestAnswered, Longer, Plain
    <2>4. QED
      BY <1>0, <2>1, <2>2, <2>3, PushEntries, PlainType DEF Kinds
  <1>5. CASE OtaSendStart
    <2>1. host = 2 /\ host' = 3 /\ replies' = replies /\ PushRaw(Plain("start"))
      BY <1>5 DEF OtaSendStart
    <2>2. CASE fifo' = fifo
      BY <2>1, <2>2 DEF RequestInv, RequestQueued, RequestAnswered
    <2>3. CASE Longer(Plain("start"))
      BY <2>1, <2>3 DEF RequestInv, RequestQueued, RequestAnswered, Longer, Plain
    <2>4. QED
      BY <1>0, <2>1, <2>2, <2>3, PushEntries, PlainType DEF Kinds
  <1>6. CASE OtaTimesOut \/ OtaFinish
    BY <1>6 DEF OtaTimesOut, OtaFinish, OtaSetResult, air, request, RequestInv, RequestQueued, RequestAnswered
  <1>7. CASE DataCallback
    <2>1. /\ DOMAIN replies = 1 .. Len(replies) /\ DOMAIN replies' = 1 .. Len(replies) - 1
          /\ Len(replies) \in Nat \ {0}
          /\ \A i \in 1 .. Len(replies) - 1 : replies'[i] = replies[i + 1]
          /\ Head(replies) = replies[1] /\ fifo' = fifo
      BY <1>0, <1>7, SendEntry DEF DataCallback, RepliesOK
    <2>2. CASE host' = host
      <3>1. RequestQueued'
        BY <2>1, <2>2 DEF RequestInv, RequestQueued
      <3>2. RequestAnswered' /\ (host' = 2 => NoneOfDownload')
        BY <2>1, <2>2 DEF RequestInv, RequestAnswered, NoneOfDownload
      <3>3. QED
        BY <3>1, <3>2 DEF RequestInv
    <2>3. CASE host = 1 /\ host' = 2 /\ replies[1] = "typeRsp"
      <3>1. NoneOfDownload /\ \A j \in DOMAIN replies : replies[j] = "typeRsp" => j = 1
        BY <2>1, <2>3 DEF RequestInv, RequestQueued, RequestAnswered
      <3>2. \A i \in DOMAIN fifo : fifo[i].kind # "typeReq"
        BY <2>1, <2>3 DEF RequestInv, RequestQueued, RequestAnswered
      <3>3. \A i \in DOMAIN replies' : replies'[i] # "typeRsp"
        BY <2>1, <3>1
      <3>4. QED
        BY <2>1, <2>3, <3>1, <3>2, <3>3 DEF RequestInv, RequestQueued, RequestAnswered, NoneOfDownload
    <2>4. QED
      BY <1>0, <1>7, <2>1, <2>2, <2>3, SendEntry DEF DataCallback, ReadResponse, TypeResponse, RepliesOK
  <1>8. CASE LinkLost \/ Reboot
    <2>1. DOMAIN fifo' = {} /\ DOMAIN replies' = {}
      BY <1>8 DEF LinkLost, Reboot
    <2>2. QED
      BY <2>1 DEF RequestInv, RequestQueued, RequestAnswered, NoneOfDownload
  <1>9. QED
    BY <1>1, <1>2, <1>3, <1>4, <1>5, <1>6, <1>7, <1>8, StepCases
-----------------------------------------------------------------------------
(* Places in the image that are less than a whole ring of buffers apart have    *)
(* different slots.                                                            *)
LEMMA SlotsDiffer ==
  ASSUME NEW a \in Nat, NEW b \in Nat, a < b, b - a < Buffers
  PROVE  Slot(a) # Slot(b)
  <1> SUFFICES ASSUME a % Buffers = b % Buffers PROVE FALSE
    BY DEF Slot
  <1>1. Buffers \in Nat \ {0}
    BY HostOtaAssumption
  <1>2. a = Buffers * (a \div Buffers) + (a % Buffers) /\ a \div Buffers \in Int
    BY <1>1
  <1>3. b = Buffers * (b \div Buffers) + (b % Buffers) /\ b \div Buffers \in Int
    BY <1>1
  <1> DEFINE q == (b \div Buffers) - (a \div Buffers)
  <1>4. q \in Int /\ b - a = Buffers * q
    BY <1>1, <1>2, <1>3
  <1> HIDE DEF q
  <1>5. q > 0
    BY <1>1, <1>4
  <1>6. Buffers * q >= Buffers
    BY <1>1, <1>4, <1>5
  <1>7. QED
    BY <1>1, <1>4, <1>6

\* What the next packet is, when it is made.
LEMMA NextPacket ==
  ASSUME TypeOK, SlotInv, OtaSendData
  PROVE  LET p == PacketAt(adr)  e == Queued(Slot(adr), p) IN
         /\ host = 3 /\ n' = n /\ n \in Nat /\ adr \in Nat /\ adr <= n
         /\ e \in Entry /\ e.kind = "ota" /\ e.slot = Slot(adr) /\ e.meant = p
         /\ Slot(adr) \in 0 .. Buffers - 1
         /\ AdrOf(p) = adr /\ (p.end <=> adr = n)
         /\ buf' = [buf EXCEPT ![Slot(adr)] = p]
         /\ \/ Len(fifo) = FifoSize /\ fifo' = fifo /\ adr' = adr /\ host' = host
            \/ Len(fifo) < FifoSize /\ Longer(e) /\ adr' = adr + 1
               /\ host' = (IF adr = n THEN 4 ELSE 3)
  <1> DEFINE p == PacketAt(adr)
             e == Queued(Slot(adr), p)
  <1>1. host = 3 /\ n \in Images /\ adr <= n /\ n' = n
    BY DEF OtaSendData, SlotInv
  <1>2. n \in Nat /\ adr \in Nat
    BY <1>1, HostOtaAssumption DEF TypeOK
  <1>3. /\ p \in Packet /\ Slot(adr) \in 0 .. Buffers - 1 /\ e \in Entry
        /\ AdrOf(p) = adr /\ (p.end <=> adr = n)
    BY <1>1, PacketType
  <1>4. e.kind = "ota" /\ e.slot = Slot(adr) /\ e.meant = p
    BY DEF Queued
  <1>5. FifoOK /\ PushRaw(e)
    BY TypeParts DEF OtaSendData, SendPacket, PushRaw
  <1>6. \/ fifo' = fifo /\ Len(fifo) = FifoSize
        \/ Longer(e) /\ Len(fifo) < FifoSize
    BY <1>3, <1>5, PushEntries
  <1>7. buf' = [buf EXCEPT ![Slot(adr)] = p]
    BY DEF OtaSendData, SendPacket
  <1>8. CASE Len(fifo) < FifoSize
    <2>1. adr' = adr + 1 /\ host' = (IF p.end THEN 4 ELSE 3)
      BY <1>8 DEF OtaSendData, SendPacket
    <2>2. Longer(e)
      BY <1>6, <1>8, HostOtaAssumption
    <2>3. QED
      BY <1>1, <1>2, <1>3, <1>4, <1>7, <1>8, <2>1, <2>2
  <1>9. CASE ~(Len(fifo) < FifoSize)
    <2>1. adr' = adr /\ host' = host /\ fifo' = fifo
      BY <1>9 DEF OtaSendData, SendPacket
    <2>2. Len(fifo) = FifoSize
      BY <1>6, <1>9
    <2>3. QED
      BY <1>1, <1>2, <1>3, <1>4, <1>7, <2>1, <2>2
  <1>10. QED
    BY <1>8, <1>9

\* Places in the image are numbers.
LEMMA AdrType == \A e \in Entry : AdrOf(e.meant) \in Nat
  BY DEF Entry, Packet, AdrOf

(* The slots of the queued packets are preserved by every step. *)
LEMMA SlotStep == ASSUME TypeOK, RequestInv, SlotInv, [Next]_vars PROVE SlotInv'
  <1>0. FifoOK /\ adr \in Nat /\ host \in 0 .. 4
    BY TypeParts DEF TypeOK
  <1>f. /\ Len(fifo) \in Nat /\ DOMAIN fifo = 1 .. Len(fifo)
        /\ \A i \in 1 .. Len(fifo) : fifo[i] \in Entry /\ AdrOf(fifo[i].meant) \in Nat
    BY <1>0, FifoFacts, AdrType
  <1>1. CASE Quiet
    <2>1. CASE fifo' = fifo
      BY <1>1, <2>1 DEF Quiet, SlotInv, Ota
    <2>2. CASE Longer(Plain("readReq"))
      BY <1>0, <1>1, <1>f, <2>2 DEF Quiet, SlotInv, Ota, Longer, Plain
    <2>3. QED
      BY <1>0, <1>1, <2>1, <2>2, PushEntries, PlainType DEF Quiet, Kinds
  <1>2. CASE Transmit
    <2>1. Shorter /\ UNCHANGED <<host, n, adr>>
      BY <1>0, <1>2, TransmitEntries DEF Transmit
    <2>2. QED
      BY <1>0, <1>f, <2>1 DEF SlotInv, Ota, Shorter
  <1>3. CASE OtaSendData
    <2>1. CASE fifo' = fifo /\ adr' = adr /\ host' = host /\ n' = n
      BY <2>1 DEF SlotInv, Ota
    <2>2. CASE fifo' # fifo \/ adr' # adr \/ host' # host
      <3> DEFINE e == Queued(Slot(adr), PacketAt(adr))
      <3>1. /\ Longer(e) /\ adr' = adr + 1 /\ n' = n /\ host = 3
            /\ host' = (IF adr = n THEN 4 ELSE 3)
            /\ adr <= n /\ n \in Nat /\ n \in Images
            /\ e.slot = Slot(adr) /\ AdrOf(e.meant) = adr /\ (e.meant.end <=> adr = n)
        BY <1>3, <2>2, NextPacket DEF SlotInv
      <3> HIDE DEF e
      <3>2. \A i \in 1 .. Len(fifo) : Ota(i) =>
              LET a == AdrOf(fifo[i].meant) IN
              /\ a < adr /\ adr - a <= Len(fifo) + 1 - i
              /\ fifo[i].slot = Slot(a) /\ (fifo[i].meant.end => a = n)
        BY <1>f, <3>1 DEF SlotInv
      <3>3. \A i \in 1 .. Len(fifo) : Ota(i)' =>
              LET a == AdrOf(fifo'[i].meant) IN
              /\ a < adr' /\ adr' - a <= Len(fifo') + 1 - i
              /\ fifo'[i].slot = Slot(a) /\ (fifo'[i].meant.end => a = n')
        BY <1>0, <1>f, <3>1, <3>2 DEF Ota, Longer
      <3>4. LET a == AdrOf(e.meant) IN
              /\ a < adr' /\ adr' - a <= Len(fifo') + 1 - (Len(fifo) + 1)
              /\ e.slot = Slot(a) /\ (e.meant.end => a = n')
        BY <1>0, <1>f, <3>1 DEF Longer
      <3>5. n' \in Images /\ (host' = 3 => adr' <= n') /\ (host' = 4 => adr' = n' + 1)
        BY <1>0, <3>1
      <3>6. QED
        BY <3>1, <3>3, <3>4, <3>5 DEF SlotInv, Longer
    <2>3. QED
      BY <1>3, <2>1, <2>2 DEF OtaSendData
  <1>4. CASE OtaSendStart
    <2>1. host = 2 /\ host' = 3 /\ n' \in Images /\ adr' = 0 /\ PushRaw(Plain("start"))
      BY <1>4 DEF OtaSendStart
    <2>2. \A i \in DOMAIN fifo : ~Ota(i)
      BY <2>1 DEF RequestInv, NoneOfDownload, OfDownload, Ota
    <2>3. n' \in Nat
      BY <2>1, HostOtaAssumption
    <2>4. \A i \in DOMAIN fifo' : ~Ota(i)'
      <3>1. CASE fifo' = fifo
        BY <2>2, <3>1 DEF Ota
      <3>2. CASE Longer(Plain("start"))
        BY <2>2, <3>2 DEF Longer, Plain, Ota
      <3>3. QED
        BY <1>0, <2>1, <3>1, <3>2, PushEntries, PlainType DEF Kinds
    <2>5. QED
      BY <2>1, <2>3, <2>4 DEF SlotInv
  <1>5. CASE OtaBegin \/ OtaTimesOut \/ OtaFinish \/ Reboot
    BY <1>5 DEF OtaBegin, OtaTimesOut, OtaFinish, OtaSetResult, Reboot, SlotInv
  <1>6. CASE DataCallback
    <2>1. fifo' = fifo /\ adr' = adr /\ n' = n /\ host' \in {host, 2}
      BY <1>6 DEF DataCallback, ReadResponse, TypeResponse
    <2>2. QED
      BY <2>1 DEF SlotInv, Ota
  <1>7. CASE LinkLost
    BY <1>7 DEF LinkLost, SlotInv
  <1>8. QED
    BY <1>1, <1>2, <1>3, <1>4, <1>5, <1>6, <1>7, StepCases

(* No queued packet is rewritten by any step. *)
LEMMA PayloadStep ==
  ASSUME TypeOK, SlotInv, PayloadIntact, [Next]_vars
  PROVE  PayloadIntact'
  <1>0. FifoOK /\ BufOK /\ adr \in Nat
    BY TypeParts DEF TypeOK
  <1>f. /\ Len(fifo) \in Nat /\ DOMAIN fifo = 1 .. Len(fifo)
        /\ \A i \in 1 .. Len(fifo) : fifo[i] \in Entry /\ AdrOf(fifo[i].meant) \in Nat
    BY <1>0, FifoFacts, AdrType
  <1>1. CASE OtaSendData
    <2> DEFINE p == PacketAt(adr)
               e == Queued(Slot(adr), p)
    <2>1. /\ host = 3 /\ Slot(adr) \in 0 .. Buffers - 1
          /\ buf' = [buf EXCEPT ![Slot(adr)] = p] /\ e.slot = Slot(adr) /\ e.meant = p
      BY <1>1, NextPacket
    <2>2. fifo' = fifo \/ Longer(e)
      BY <1>1, NextPacket
    <2>3. \A i \in 1 .. Len(fifo) : Ota(i) => fifo[i].slot # Slot(adr)
      <3> SUFFICES ASSUME NEW i \in 1 .. Len(fifo), Ota(i)
                   PROVE  fifo[i].slot # Slot(adr)
        OBVIOUS
      <3> DEFINE a == AdrOf(fifo[i].meant)
      <3>1. a < adr /\ adr - a <= Len(fifo) + 1 - i /\ fifo[i].slot = Slot(a)
        BY <1>f, <2>1 DEF SlotInv
      <3>2. a \in Nat
        BY <1>f
      <3> HIDE DEF a
      <3>3. adr - a < Buffers
        BY <1>0, <1>f, <3>1, <3>2, HostOtaAssumption DEF FifoOK
      <3>4. QED
        BY <1>0, <3>1, <3>2, <3>3, SlotsDiffer
    <2> HIDE DEF p, e
    <2>4. \A i \in 1 .. Len(fifo) : Ota(i) => buf'[fifo[i].slot] = fifo[i].meant
      BY <1>0, <1>f, <2>1, <2>3 DEF BufOK, PayloadIntact, Ota, Entry
    <2>5. buf'[e.slot] = e.meant
      BY <1>0, <2>1 DEF BufOK
    <2>6. QED
      BY <1>f, <2>2, <2>4, <2>5 DEF PayloadIntact, Ota, Longer
  <1>2. CASE Transmit
    BY <1>0, <1>2, TransmitEntries DEF Transmit, Shorter, PayloadIntact
  <1>3. CASE LinkLost \/ Reboot
    BY <1>3 DEF LinkLost, Reboot, PayloadIntact
  <1>4. CASE \E k \in Kinds \ {"ota"} : buf' = buf /\ (fifo' = fifo \/ PushRaw(Plain(k)))
    <2>1. PICK k \in Kinds \ {"ota"} : buf' = buf /\ (fifo' = fifo \/ PushRaw(Plain(k)))
      BY <1>4
    <2>2. CASE fifo' = fifo
      BY <2>1, <2>2 DEF PayloadIntact
    <2>3. CASE Longer(Plain(k))
      BY <2>1, <2>3 DEF PayloadIntact, Longer, Plain
    <2>4. QED
      BY <1>0, <2>1, <2>2, <2>3, PushEntries, PlainType
  <1>5. \/ OtaSendData \/ Transmit \/ LinkLost \/ Reboot
        \/ \E k \in Kinds \ {"ota"} : buf' = buf /\ (fifo' = fifo \/ PushRaw(Plain(k)))
    <2>1. {"readReq", "typeReq", "start"} = Kinds \ {"ota"}
      BY DEF Kinds
    <2>2. \/ OtaSendData \/ Transmit \/ LinkLost \/ Reboot
          \/ buf' = buf /\ \/ fifo' = fifo \/ PushRaw(Plain("readReq"))
                           \/ PushRaw(Plain("typeReq")) \/ PushRaw(Plain("start"))
      BY StepCases DEF Quiet, OtaBegin, OtaSendStart, OtaTimesOut, OtaFinish, OtaSetResult,
           DataCallback, air
    <2>3. QED
      BY <2>1, <2>2
  <1>6. QED
    BY <1>1, <1>2, <1>3, <1>4, <1>5
-----------------------------------------------------------------------------
(* The stream of packets is preserved by every step. *)

\* A step that queues at most a request leaves the stream as it is.
LEMMA StreamQuiet ==
  ASSUME TypeOK, StreamInv, UNCHANGED <<adr, remote, lost>>,
         host' = host \/ host' \notin {3, 4},
         \/ fifo' = fifo
         \/ Longer(Plain("readReq")) \/ Longer(Plain("typeReq"))
  PROVE  StreamInv'
  <1>1. CASE fifo' = fifo
    <2>1. StartFirst' /\ RemoteSeesNoGap' /\ DoneIsLast'
      BY <1>1 DEF StreamInv, StartFirst, RemoteSeesNoGap, DoneIsLast, HasStart, Ota
    <2>2. Continues'
      BY <1>1 DEF StreamInv, Continues, HasStart, HasEnd, Base, Stream, Ota
    <2>3. QED
      BY <2>1, <2>2 DEF StreamInv
  <1>2. CASE Longer(Plain("readReq")) \/ Longer(Plain("typeReq"))
    <2>1. PICK e : Longer(e) /\ e.kind \notin {"start", "ota"}
      BY <1>2 DEF Plain
    <2>2. (HasStart' <=> HasStart) /\ (HasEnd' <=> HasEnd)
      BY <2>1 DEF HasStart, HasEnd, Ota, Longer
    <2>3. Base' = Base
      BY <2>2 DEF Base
    <2>4. StartFirst' /\ RemoteSeesNoGap'
      BY <2>1 DEF StreamInv, StartFirst, RemoteSeesNoGap, OfDownload, Ota, Longer
    <2>5. DoneIsLast'
      BY <2>1, <2>2 DEF StreamInv, DoneIsLast, Ota, Longer
    <2>6. ASSUME NEW base \in Nat, NEW top \in Nat, Stream(base, top)
          PROVE  Stream(base, top)'
      <3>1. /\ \A i \in DOMAIN fifo : i \in DOMAIN fifo' /\ fifo'[i] = fifo[i]
            /\ \A i \in DOMAIN fifo' : Ota(i)' => i \in DOMAIN fifo /\ Ota(i) /\ fifo'[i] = fifo[i]
        BY <2>1 DEF Ota, Longer
      <3>2. \A a \in base .. top - 1 : \E i \in DOMAIN fifo' : Ota(i)' /\ AdrOf(fifo'[i].meant) = a
        BY <2>6, <3>1 DEF Stream, Ota
      <3>3. \A i, j \in DOMAIN fifo' : Ota(i)' /\ Ota(j)' /\ i < j =>
              AdrOf(fifo'[i].meant) < AdrOf(fifo'[j].meant)
        BY <2>6, <3>1 DEF Stream
      <3>4. QED
        BY <2>6, <3>1, <3>2, <3>3 DEF Stream
    <2>7. Continues'
      BY <2>2, <2>3, <2>6 DEF StreamInv, Continues
    <2>8. QED
      BY <2>4, <2>5, <2>7 DEF StreamInv
  <1>3. QED
    BY <1>1, <1>2

\* The first packet of the stream is the one the remote waits for.
LEMMA FirstOfStream ==
  ASSUME FifoOK, NEW base \in Nat, NEW top \in Nat, Stream(base, top),
         Len(fifo) > 0, Ota(1)
  PROVE  AdrOf(fifo[1].meant) = base
  <1>1. /\ Len(fifo) \in Nat /\ DOMAIN fifo = 1 .. Len(fifo) /\ 1 \in DOMAIN fifo
        /\ \A i \in DOMAIN fifo : AdrOf(fifo[i].meant) \in Nat
    BY FifoFacts, AdrType
  <1>2. base <= AdrOf(fifo[1].meant) /\ AdrOf(fifo[1].meant) < top
    BY <1>1 DEF Stream
  <1>3. base \in base .. top - 1
    BY <1>1, <1>2
  <1>4. PICK i \in DOMAIN fifo : Ota(i) /\ AdrOf(fifo[i].meant) = base
    BY <1>3 DEF Stream
  <1>5. i # 1 => AdrOf(fifo[1].meant) < AdrOf(fifo[i].meant)
    BY <1>1, <1>4 DEF Stream
  <1>6. QED
    BY <1>1, <1>2, <1>4, <1>5

\* A data packet or END goes to the end of the stream.
LEMMA StreamSend ==
  ASSUME TypeOK, SlotInv, StreamInv, OtaSendData
  PROVE  StreamInv'
  <1>1. host = 3 /\ UNCHANGED <<remote, lost>> /\ adr \in Nat
    BY DEF OtaSendData, TypeOK
  <1>2. CASE fifo' = fifo /\ adr' = adr /\ host' = host
    BY <1>1, <1>2, StreamQuiet
  <1>3. CASE ~(fifo' = fifo /\ adr' = adr /\ host' = host)
    <2> DEFINE e == Queued(Slot(adr), PacketAt(adr))
    <2>1. /\ Longer(e) /\ adr' = adr + 1 /\ adr <= n /\ n \in Nat
          /\ host' = (IF adr = n THEN 4 ELSE 3)
          /\ e.kind = "ota" /\ AdrOf(e.meant) = adr /\ (e.meant.end <=> adr = n)
      BY <1>3, NextPacket
    <2> HIDE DEF e
    <2>2. /\ \A i \in DOMAIN fifo : i \in DOMAIN fifo' /\ fifo'[i] = fifo[i]
          /\ \A i \in DOMAIN fifo' : i \in DOMAIN fifo \/ (i = Len(fifo) + 1 /\ fifo'[i] = e)
          /\ Len(fifo) + 1 \in DOMAIN fifo' /\ fifo'[Len(fifo) + 1] = e
          /\ \A i \in DOMAIN fifo : i \in Nat /\ i < Len(fifo) + 1
      BY <2>1 DEF Longer
    <2>3. HasStart' <=> HasStart
      BY <2>1, <2>2 DEF HasStart
    <2>4. Base' = Base
      BY <1>1, <2>3 DEF Base
    <2>5. StartFirst' /\ RemoteSeesNoGap'
      BY <1>1, <2>1, <2>2 DEF StreamInv, StartFirst, RemoteSeesNoGap, OfDownload, Ota
    <2>6. DoneIsLast'
      BY <1>1, <2>3 DEF StreamInv, DoneIsLast
    <2>7. host' = 4 => HasEnd'
      BY <2>1, <2>2 DEF HasEnd, Ota
    <2>8. ASSUME NEW base \in Nat, NEW top \in Nat, top = adr + 1, Stream(base, adr)
          PROVE  Stream(base, top)'
      <3>1. base <= adr + 1
        BY <1>1, <2>8 DEF Stream
      <3>2. \A i \in DOMAIN fifo : Ota(i) =>
              base <= AdrOf(fifo[i].meant) /\ AdrOf(fifo[i].meant) < adr /\ ~fifo[i].meant.end
        BY <1>1, <2>1, <2>8 DEF Stream, SlotInv
      <3>3. \A i \in DOMAIN fifo : Ota(i) => AdrOf(fifo[i].meant) \in Nat
        BY TypeParts, FifoFacts, AdrType
      <3>4. \A i \in DOMAIN fifo' : Ota(i)' =>
              /\ base <= AdrOf(fifo'[i].meant) /\ AdrOf(fifo'[i].meant) < adr + 1
              /\ fifo'[i].meant.end => AdrOf(fifo'[i].meant) = adr
        <4>1. base <= adr
          BY <2>8 DEF Stream
        <4>2. QED
          BY <1>1, <2>1, <2>2, <3>2, <3>3, <4>1 DEF Ota
      <3>5. \A i, j \in DOMAIN fifo' : Ota(i)' /\ Ota(j)' /\ i < j =>
              AdrOf(fifo'[i].meant) < AdrOf(fifo'[j].meant)
        <4> SUFFICES ASSUME NEW i \in DOMAIN fifo', NEW j \in DOMAIN fifo', Ota(i)', Ota(j)', i < j
                     PROVE  AdrOf(fifo'[i].meant) < AdrOf(fifo'[j].meant)
          OBVIOUS
        <4>1. i \in DOMAIN fifo /\ Ota(i) /\ fifo'[i] = fifo[i]
          BY <2>1, <2>2 DEF Ota, Longer
        <4>2. CASE j \in DOMAIN fifo
          BY <2>2, <2>8, <4>1, <4>2 DEF Stream, Ota
        <4>3. CASE fifo'[j] = e
          BY <2>1, <3>2, <4>1, <4>3
        <4>4. QED
          BY <2>2, <4>2, <4>3
      <3>6. \A a \in base .. adr : \E i \in DOMAIN fifo' : Ota(i)' /\ AdrOf(fifo'[i].meant) = a
        <4> SUFFICES ASSUME NEW a \in base .. adr
                     PROVE  \E i \in DOMAIN fifo' : Ota(i)' /\ AdrOf(fifo'[i].meant) = a
          OBVIOUS
        <4>1. CASE a = adr
          BY <2>1, <2>2, <4>1 DEF Ota
        <4>2. CASE a \in base .. adr - 1
          BY <2>2, <2>8, <4>2 DEF Stream, Ota
        <4>3. QED
          BY <1>1, <4>1, <4>2
      <3>7. QED
        BY <1>1, <2>8, <3>1, <3>4, <3>5, <3>6 DEF Stream
    <2>9. Continues'
      <3> SUFFICES ASSUME HasStart \/ ~lost
                   PROVE  \E base, top \in Nat : base = Base /\ Stream(base, top)' /\ top = adr'
        BY <1>1, <2>3, <2>4, <2>7 DEF Continues
      <3>1. PICK base \in Nat : base = Base /\ Stream(base, adr)
        BY <1>1 DEF StreamInv, Continues
      <3>2. adr + 1 \in Nat
        BY <1>1
      <3>3. PICK top \in Nat : top = adr + 1
        BY <3>2
      <3>4. Stream(base, top)'
        BY <2>8, <3>1, <3>3
      <3>5. QED
        BY <2>1, <3>1, <3>3, <3>4
    <2>10. QED
      BY <2>5, <2>6, <2>9 DEF StreamInv
  <1>4. QED
    BY <1>2, <1>3

\* START begins a new stream; when the FIFO refuses it, the history says so.
LEMMA StreamStart ==
  ASSUME TypeOK, RequestInv, StreamInv, OtaSendStart
  PROVE  StreamInv'
  <1>1. /\ host = 2 /\ host' = 3 /\ adr' = 0 /\ remote' = remote /\ PushRaw(Plain("start"))
        /\ lost' = (lost \/ Len(fifo) = FifoSize)
    BY DEF OtaSendStart
  <1>2. \A i \in DOMAIN fifo : ~OfDownload(fifo[i]) /\ fifo[i].kind # "start" /\ ~Ota(i)
    BY <1>1 DEF RequestInv, NoneOfDownload, OfDownload, Ota
  <1>3. CASE fifo' = fifo /\ Len(fifo) = FifoSize
    BY <1>1, <1>2, <1>3 DEF StreamInv, StartFirst, RemoteSeesNoGap, Continues, DoneIsLast, HasStart
  <1>4. CASE Longer(Plain("start"))
    <2>1. /\ \A i \in DOMAIN fifo' : ~Ota(i)'
          /\ \A i \in DOMAIN fifo' : OfDownload(fifo'[i]) => i = Len(fifo) + 1
          /\ HasStart'
      BY <1>2, <1>4 DEF Longer, Plain, Ota, OfDownload, HasStart
    <2>2. StartFirst' /\ RemoteSeesNoGap' /\ DoneIsLast'
      BY <1>1, <2>1 DEF StreamInv, StartFirst, RemoteSeesNoGap, DoneIsLast, OfDownload
    <2>3. Base' = 0
      BY <2>1 DEF Base
    <2>4. Stream(0, 0)'
      BY <2>1 DEF Stream
    <2>5. Continues'
      BY <1>1, <2>3, <2>4 DEF Continues
    <2>6. QED
      BY <2>2, <2>5 DEF StreamInv
  <1>5. QED
    BY <1>1, <1>3, <1>4, TypeParts, PushEntries, PlainType DEF Kinds

\* Clearing the FIFO leaves the stream complete or is remembered.
LEMMA StreamCleared ==
  ASSUME TypeOK, StreamInv, remote' = remote, fifo' = <<>>,
         lost' = (lost \/ \E i \in DOMAIN fifo : OfDownload(fifo[i])),
         (UNCHANGED <<host, adr>>) \/ host' = 0
  PROVE  StreamInv'
  <1>1. DOMAIN fifo' = {} /\ ~HasStart'
    BY ClearedFifo DEF HasStart
  <1>2. StartFirst' /\ RemoteSeesNoGap'
    BY <1>1 DEF StreamInv, StartFirst, RemoteSeesNoGap
  <1>3. CASE lost'
    BY <1>1, <1>2, <1>3 DEF StreamInv, Continues, DoneIsLast
  <1>4. CASE ~lost'
    <2>1. ~lost /\ ~HasStart /\ \A i \in DOMAIN fifo : ~Ota(i)
      BY <1>4 DEF HasStart, Ota, OfDownload
    <2>2. Base' = Base
      BY <1>1, <2>1 DEF Base
    <2>3. DoneIsLast'
      BY <1>1, <2>1 DEF StreamInv, DoneIsLast
    <2>4. PICK base \in Nat, top \in Nat :
            base = Base /\ Stream(base, top) /\ (host \in {3, 4} => top = adr)
      BY <2>1 DEF StreamInv, Continues
    <2>5. base .. top - 1 = {}
      BY <2>1, <2>4 DEF Stream
    <2>6. Stream(base, top)'
      BY <1>1, <2>4, <2>5 DEF Stream
    <2>7. host = 4 => remote.done
      BY <2>1 DEF StreamInv, Continues, HasEnd
    <2>8. Continues'
      BY <1>1, <2>2, <2>4, <2>6, <2>7 DEF Continues
    <2>9. QED
      BY <1>2, <2>3, <2>8 DEF StreamInv
  <1>5. QED
    BY <1>3, <1>4

\* The rest of a stream whose first packet has left.
LEMMA RestOfStream ==
  ASSUME FifoOK, Shorter, NEW base \in Nat, NEW top \in Nat, Stream(base, top)
  PROVE  /\ ~Ota(1) => Stream(base, top)'
         /\ \A next \in Nat : Ota(1) /\ next = base + 1 => Stream(next, top)'
  <1>1. /\ \A i \in DOMAIN fifo : i = 1 \/ (i - 1 \in DOMAIN fifo' /\ fifo'[i - 1] = fifo[i])
        /\ \A i \in DOMAIN fifo' : i \in Nat /\ i + 1 \in DOMAIN fifo /\ fifo'[i] = fifo[i + 1]
        /\ \A i \in DOMAIN fifo : i \in Nat /\ i >= 1 /\ AdrOf(fifo[i].meant) \in Nat
        /\ 1 \in DOMAIN fifo
    BY FifoFacts, AdrType DEF Shorter
  <1>2. \A i, j \in DOMAIN fifo' : Ota(i)' /\ Ota(j)' /\ i < j =>
          AdrOf(fifo'[i].meant) < AdrOf(fifo'[j].meant)
    <2> SUFFICES ASSUME NEW i \in DOMAIN fifo', NEW j \in DOMAIN fifo', Ota(i)', Ota(j)', i < j
                 PROVE  AdrOf(fifo'[i].meant) < AdrOf(fifo'[j].meant)
      OBVIOUS
    <2>1. Ota(i + 1) /\ Ota(j + 1) /\ i + 1 < j + 1
      BY <1>1 DEF Ota
    <2>2. QED
      BY <1>1, <2>1 DEF Stream
  <1>3. \A i \in DOMAIN fifo' : Ota(i)' =>
          /\ base <= AdrOf(fifo'[i].meant) /\ AdrOf(fifo'[i].meant) < top
          /\ fifo'[i].meant.end => AdrOf(fifo'[i].meant) = top - 1
    BY <1>1 DEF Stream, Ota
  <1>4. \A a \in base .. top - 1 : (\E i \in DOMAIN fifo' : Ota(i)' /\ AdrOf(fifo'[i].meant) = a)
                                 \/ (Ota(1) /\ AdrOf(fifo[1].meant) = a)
    <2> SUFFICES ASSUME NEW a \in base .. top - 1
                 PROVE  (\E i \in DOMAIN fifo' : Ota(i)' /\ AdrOf(fifo'[i].meant) = a)
                        \/ (Ota(1) /\ AdrOf(fifo[1].meant) = a)
      OBVIOUS
    <2>1. PICK i \in DOMAIN fifo : Ota(i) /\ AdrOf(fifo[i].meant) = a
      BY DEF Stream
    <2>2. CASE i = 1
      BY <2>1, <2>2
    <2>3. CASE i # 1
      BY <1>1, <2>1, <2>3 DEF Ota
    <2>4. QED
      BY <2>2, <2>3
  <1>5. CASE ~Ota(1)
    BY <1>2, <1>3, <1>4, <1>5 DEF Stream
  <1>6. CASE Ota(1)
    <2>1. Len(fifo) > 0
      BY DEF Shorter
    <2>2. AdrOf(fifo[1].meant) = base
      BY <1>6, <2>1, FirstOfStream
    <2>3. base < top
      BY <1>1, <1>6, <2>2 DEF Stream
    <2>4. \A i \in DOMAIN fifo' : Ota(i)' => base + 1 <= AdrOf(fifo'[i].meant)
      <3> SUFFICES ASSUME NEW i \in DOMAIN fifo', Ota(i)'
                   PROVE  base + 1 <= AdrOf(fifo'[i].meant)
        OBVIOUS
      <3>1. Ota(i + 1) /\ 1 < i + 1
        BY <1>1 DEF Ota, Shorter
      <3>2. base < AdrOf(fifo[i + 1].meant)
        BY <1>1, <1>6, <2>2, <3>1 DEF Stream
      <3>3. QED
        BY <1>1, <3>2
    <2>5. \A next \in Nat : next = base + 1 => Stream(next, top)'
      <3> SUFFICES ASSUME NEW next \in Nat, next = base + 1 PROVE Stream(next, top)'
        OBVIOUS
      <3>1. \A a \in next .. top - 1 : \E i \in DOMAIN fifo' : Ota(i)' /\ AdrOf(fifo'[i].meant) = a
        BY <1>4, <2>2
      <3>2. QED
        BY <1>2, <1>3, <2>3, <2>4, <3>1 DEF Stream
    <2>6. QED
      BY <1>6, <2>5
  <1>7. QED
    BY <1>5, <1>6

\* The radio takes the first entry, and the remote receives it.
LEMMA StreamTransmit ==
  ASSUME TypeOK, SlotInv, PayloadIntact, StreamInv, Transmit
  PROVE  StreamInv'
  <1>1. FifoOK /\ Shorter
    BY TypeParts, TransmitEntries
  <1>2. /\ UNCHANGED <<host, adr, n>> /\ adr \in Nat /\ n \in Images \cup {0}
        /\ Len(fifo) > 0 /\ 1 \in DOMAIN fifo /\ fifo[1] \in Entry
        /\ remote \in [next : Nat, err : BOOLEAN, done : BOOLEAN]
    BY <1>1 DEF Transmit, TypeOK, Shorter
  <1>3. /\ \A i \in DOMAIN fifo' : i \in Nat /\ i >= 1 /\ i + 1 \in DOMAIN fifo /\ fifo'[i] = fifo[i + 1]
        /\ \A i \in DOMAIN fifo : i = 1 \/ (i - 1 \in DOMAIN fifo' /\ fifo'[i - 1] = fifo[i])
        /\ \A i \in DOMAIN fifo : i \in Nat /\ i >= 1
    BY <1>1 DEF Shorter
  <1>4. StartFirst'
    <2> SUFFICES ASSUME NEW i \in DOMAIN fifo', NEW j \in DOMAIN fifo',
                        fifo'[i].kind = "start", OfDownload(fifo'[j]), j # i
                 PROVE  j > i /\ Ota(j)'
      BY DEF StartFirst
    <2>1. fifo[i + 1].kind = "start" /\ OfDownload(fifo[j + 1]) /\ j + 1 # i + 1
      BY <1>3
    <2>2. j + 1 > i + 1 /\ Ota(j + 1)
      BY <1>3, <2>1 DEF StreamInv, StartFirst
    <2>3. QED
      BY <1>3, <2>2 DEF Ota
  <1>5. CASE ~OfDownload(fifo[1])
    <2>1. remote' = remote /\ lost' = lost
      BY <1>1, <1>2, <1>5 DEF Transmit, Shorter, OfDownload, Entry, FlagsOK, TypeOK
    <2>2. ~Ota(1) /\ (HasStart' <=> HasStart) /\ (HasEnd' <=> HasEnd)
      <3>1. ~Ota(1) /\ fifo[1].kind # "start"
        BY <1>5 DEF Ota, OfDownload
      <3>2. HasStart' <=> HasStart
        BY <1>3, <3>1 DEF HasStart
      <3>3. HasEnd' <=> HasEnd
        BY <1>3, <3>1 DEF HasEnd, Ota
      <3>4. QED
        BY <3>1, <3>2, <3>3
    <2>3. Base' = Base
      BY <2>1, <2>2 DEF Base
    <2>4. RemoteSeesNoGap' /\ DoneIsLast'
      BY <1>2, <1>3, <2>1, <2>2 DEF StreamInv, RemoteSeesNoGap, DoneIsLast, Ota
    <2>5. \A base, top \in Nat : Stream(base, top) => Stream(base, top)'
      BY <1>1, <2>2, RestOfStream
    <2>6. Continues'
      BY <1>2, <2>1, <2>2, <2>3, <2>5 DEF StreamInv, Continues
    <2>7. QED
      BY <1>4, <2>4, <2>6 DEF StreamInv
  <1>6. CASE fifo[1].kind = "start"
    <2>1. remote' = FreshRemote /\ ~lost'
      BY <1>1, <1>6 DEF Transmit, Shorter
    <2>2. HasStart /\ ~Ota(1) /\ (HasEnd' <=> HasEnd)
      <3>1. HasStart /\ ~Ota(1)
        BY <1>2, <1>6 DEF HasStart, Ota
      <3>2. HasEnd' <=> HasEnd
        BY <1>3, <3>1 DEF HasEnd, Ota
      <3>3. QED
        BY <3>1, <3>2
    <2>3. ~HasStart'
      <3> SUFFICES ASSUME NEW i \in DOMAIN fifo', fifo'[i].kind = "start" PROVE FALSE
        BY DEF HasStart
      <3>1. fifo[i + 1].kind = "start" /\ i + 1 # 1 /\ i + 1 \in DOMAIN fifo
        BY <1>3
      <3>2. Ota(i + 1)
        BY <1>2, <1>6, <3>1 DEF StreamInv, StartFirst, OfDownload
      <3>3. QED
        BY <3>1, <3>2 DEF Ota
    <2>4. Base = 0 /\ Base' = 0
      BY <2>1, <2>2, <2>3 DEF Base, FreshRemote
    <2>5. RemoteSeesNoGap' /\ DoneIsLast'
      BY <2>1 DEF RemoteSeesNoGap, DoneIsLast, FreshRemote
    <2>6. \A base, top \in Nat : Stream(base, top) => Stream(base, top)'
      BY <1>1, <2>2, RestOfStream
    <2>7. Continues'
      BY <1>2, <2>2, <2>4, <2>6 DEF StreamInv, Continues
    <2>8. QED
      BY <1>4, <2>5, <2>7 DEF StreamInv
  <1>7. CASE Ota(1)
    <2>1. ~HasStart
      <3> SUFFICES ASSUME NEW i \in DOMAIN fifo, fifo[i].kind = "start" PROVE FALSE
        BY DEF HasStart
      <3>1. i # 1 /\ OfDownload(fifo[1])
        BY <1>7 DEF Ota, OfDownload
      <3>2. 1 > i
        BY <1>2, <3>1 DEF StreamInv, StartFirst
      <3>3. QED
        BY <1>3, <3>2
    <2>2. ~HasStart'
      BY <1>3, <2>1 DEF HasStart
    <2>3. lost' = lost /\ remote' = Receive(buf[fifo[1].slot])
      BY <1>1, <1>2, <1>7 DEF Transmit, Shorter, Ota, TypeOK
    <2>4. CASE lost
      BY <1>4, <2>2, <2>3, <2>4 DEF StreamInv, RemoteSeesNoGap, Continues, DoneIsLast
    <2>5. CASE ~lost
      <3> DEFINE p == fifo[1].meant
      <3>1. p \in Packet /\ remote' = Receive(p)
        BY <1>2, <1>7, <2>3 DEF PayloadIntact, Ota, Entry
      <3>2. ~remote.err /\ ~remote.done
        BY <1>2, <1>7, <2>1, <2>5 DEF StreamInv, RemoteSeesNoGap, DoneIsLast
      <3>3. Base = remote.next
        BY <2>1, <3>2 DEF Base
      <3>4. PICK base \in Nat, top \in Nat :
              base = remote.next /\ Stream(base, top) /\ (host \in {3, 4} => top = adr)
        BY <2>5, <3>3 DEF StreamInv, Continues
      <3>5. AdrOf(p) = base
        BY <1>1, <1>2, <1>7, <3>4, FirstOfStream
      <3>6. PICK next \in Nat : next = base + 1
        OBVIOUS
      <3>7. Stream(next, top)'
        BY <1>1, <1>7, <3>4, <3>6, RestOfStream
      <3>8. p.end => top = next
        BY <1>2, <1>7, <3>4, <3>5, <3>6 DEF Stream
      <3>9. p.end => host # 3
        <4> SUFFICES ASSUME p.end, host = 3 PROVE FALSE
          OBVIOUS
        <4>1. n \in Nat /\ adr <= n /\ AdrOf(p) < adr /\ AdrOf(p) = n
          BY <1>2, <1>7, HostOtaAssumption DEF SlotInv
        <4>2. QED
          BY <1>2, <4>1
      <3>10. host = 4 => p.end \/ HasEnd'
        <4> SUFFICES ASSUME host = 4, ~p.end PROVE HasEnd'
          OBVIOUS
        <4>1. PICK i \in DOMAIN fifo : Ota(i) /\ fifo[i].meant.end
          BY <2>5, <3>2 DEF StreamInv, Continues, HasEnd
        <4>2. i # 1
          BY <4>1
        <4>3. QED
          BY <1>3, <4>1, <4>2 DEF HasEnd, Ota
      <3> HIDE DEF p
      <3>11. CASE p.end
        <4>1. remote' = [remote EXCEPT !.done = TRUE]
          BY <3>1, <3>2, <3>4, <3>5, <3>11 DEF Receive, AdrOf
        <4>2. remote'.done /\ ~remote'.err /\ remote'.next = base
          BY <1>2, <3>2, <3>4, <4>1
        <4>3. Base' = next
          BY <2>2, <3>6, <4>2 DEF Base
        <4>4. \A i \in DOMAIN fifo' : ~Ota(i)'
          <5>1. \A i \in DOMAIN fifo' : Ota(i)' => AdrOf(fifo[i + 1].meant) \in Nat
            BY <1>1, <1>3, FifoFacts, AdrType
          <5>2. QED
            BY <1>3, <3>7, <3>8, <3>11, <5>1 DEF Stream
        <4>5. RemoteSeesNoGap' /\ DoneIsLast'
          BY <1>2, <3>9, <3>11, <4>2, <4>4 DEF RemoteSeesNoGap, DoneIsLast
        <4>6. Continues'
          BY <1>2, <2>2, <3>4, <3>7, <4>2, <4>3 DEF Continues
        <4>7. QED
          BY <1>4, <4>5, <4>6 DEF StreamInv
      <3>12. CASE ~p.end
        <4>1. remote'.next = next /\ ~remote'.err /\ ~remote'.done
          BY <1>2, <3>1, <3>2, <3>4, <3>5, <3>6, <3>12 DEF Receive, AdrOf
        <4>2. Base' = next
          BY <2>2, <4>1 DEF Base
        <4>3. RemoteSeesNoGap' /\ DoneIsLast'
          BY <4>1 DEF RemoteSeesNoGap, DoneIsLast
        <4>4. Continues'
          BY <1>2, <3>4, <3>7, <3>10, <3>12, <4>2 DEF Continues
        <4>5. QED
          BY <1>4, <4>3, <4>4 DEF StreamInv
      <3>13. QED
        BY <3>11, <3>12
    <2>6. QED
      BY <2>4, <2>5
  <1>8. QED
    BY <1>5, <1>6, <1>7 DEF OfDownload, Ota

LEMMA StreamStep ==
  ASSUME TypeOK, RequestInv, SlotInv, PayloadIntact, StreamInv, [Next]_vars
  PROVE  StreamInv'
  <1>0. FifoOK
    BY TypeParts
  <1>1. CASE Quiet
    BY <1>0, <1>1, StreamQuiet, PushEntries, PlainType DEF Quiet, Kinds
  <1>2. CASE OtaBegin
    BY <1>0, <1>2, StreamQuiet, PushEntries, PlainType DEF OtaBegin, Kinds
  <1>3. CASE OtaTimesOut \/ OtaFinish
    BY <1>3, StreamQuiet DEF OtaTimesOut, OtaFinish, OtaSetResult, air
  <1>4. CASE DataCallback
    BY <1>4, StreamQuiet DEF DataCallback, ReadResponse, TypeResponse
  <1>5. CASE LinkLost \/ Reboot
    BY <1>5, StreamCleared DEF LinkLost, Reboot
  <1>6. QED
    BY <1>1, <1>2, <1>3, <1>4, <1>5, StepCases, StreamTransmit, StreamSend, StreamStart

-----------------------------------------------------------------------------
(* A command on its way to the download stays asked for. *)
LEMMA AskedStep == ASSUME TypeOK, AskedInv, [Next]_vars PROVE AskedInv'
  <1> SUFFICES ASSUME host' = 0, ~asked'
               PROVE  ~sendOta' /\ regCmd' # "ota" /\ ~(pc' = "exec" /\ cmd' = "ota")
    BY DEF AskedInv
  <1>1. CASE OtaTimesOut \/ OtaFinish \/ Reboot
    BY <1>1 DEF OtaTimesOut, OtaFinish, Reboot, OtaReady, OtaSetResult, SetCmdDone
  <1>2. CASE host = 0 /\ ~(OtaTimesOut \/ OtaFinish \/ Reboot)
    <2>1. ~asked
      <3>1. CASE \E c \in Commands : PcWrite(c)
        BY <3>1 DEF PcWrite
      <3>2. CASE ~\E c \in Commands : PcWrite(c)
        <4>1. asked' = asked
          BY <1>2, <3>2 DEF Next, MainLoop, ProcOta, Interrupt, LoadCmd, ExecCmd, SkipCmd,
             LockExpires, OtaIdle, OtaBegin, OtaSendStart, OtaSendData, DataCallback,
             Notification, LinkLost, LinkConnected, Transmit, vars, reg
        <4>2. QED
          BY <4>1
      <3>3. QED
        BY <3>1, <3>2
    <2>2. ~sendOta /\ regCmd # "ota" /\ ~(pc = "exec" /\ cmd = "ota")
      BY <1>2, <2>1 DEF AskedInv
    <2>3. regCmd' # "ota"
      BY <1>2, <2>2 DEF Next, MainLoop, ProcOta, Interrupt, PcWrite, LoadCmd, ExecCmd,
           SkipCmd, LockExpires, Reboot, Accept, AcceptRead, AcceptControl, AcceptOta,
           AcceptUnknown, SetCmdDone, OtaIdle, OtaReady, OtaBegin, OtaSendStart, OtaTimesOut,
           OtaSetResult, OtaSendData, SendPacket, OtaFinish, DataCallback, ReadResponse,
           TypeResponse, Notification, LinkLost, LinkConnected, Transmit, vars, reg, state, air, request
    <2>4. ~(pc' = "exec" /\ cmd' = "ota")
      BY <1>2, <2>2 DEF Next, MainLoop, ProcOta, Interrupt, PcWrite, LoadCmd, ExecCmd,
           SkipCmd, LockExpires, Reboot, Accept, AcceptRead, AcceptControl, AcceptOta,
           AcceptUnknown, SetCmdDone, OtaIdle, OtaReady, OtaBegin, OtaSendStart, OtaTimesOut,
           OtaSetResult, OtaSendData, SendPacket, OtaFinish, DataCallback, ReadResponse,
           TypeResponse, Notification, LinkLost, LinkConnected, Transmit, vars, reg, state, air, request
    <2>5. ~sendOta'
      BY <1>2, <2>2 DEF Next, MainLoop, ProcOta, Interrupt, PcWrite, LoadCmd, ExecCmd,
           SkipCmd, LockExpires, Reboot, Accept, AcceptRead, AcceptControl, AcceptOta,
           AcceptUnknown, SetCmdDone, OtaIdle, OtaReady, OtaBegin, OtaSendStart, OtaTimesOut,
           OtaSetResult, OtaSendData, SendPacket, OtaFinish, DataCallback, ReadResponse,
           TypeResponse, Notification, LinkLost, LinkConnected, Transmit, vars, reg, state, air, request
    <2>6. QED
      BY <2>3, <2>4, <2>5
  <1>3. host = 0 \/ OtaTimesOut \/ OtaFinish \/ Reboot
    <2>1. OtaSendData => host' # 0
      BY DEF OtaSendData, SendPacket
    <2>2. DataCallback => host' \in {host, 2}
      BY DEF DataCallback, ReadResponse, TypeResponse
    <2>3. OtaBegin \/ OtaSendStart => host' # 0
      BY DEF OtaBegin, OtaSendStart
    <2>4. Quiet \/ LinkLost \/ Transmit => host' = host
      BY DEF Quiet, LinkLost, Transmit
    <2>5. QED
      BY <2>1, <2>2, <2>3, <2>4, StepCases
  <1>4. QED
    BY <1>1, <1>2, <1>3

-----------------------------------------------------------------------------
(* The invariant holds initially and is preserved by every step. *)
LEMMA InitIInv == Init => IInv
  <1> SUFFICES ASSUME Init PROVE IInv
    OBVIOUS
  <1>1. TypeOK
    BY InitTypeOK
  <1>2. DOMAIN fifo = {} /\ DOMAIN replies = {} /\ host = 0 /\ ~remote.done /\ ~remote.err
        /\ remote.next = 0
    BY DEF Init, FreshRemote
  <1>3. RequestInv /\ SlotInv /\ PayloadIntact
    BY <1>2 DEF RequestInv, RequestQueued, RequestAnswered, NoneOfDownload, SlotInv, PayloadIntact
  <1>4. StreamInv
    <2>1. ~HasStart /\ Base = 0 /\ Stream(0, 0)
      BY <1>2 DEF HasStart, Base, Stream
    <2>2. QED
      BY <1>2, <2>1 DEF StreamInv, StartFirst, RemoteSeesNoGap, Continues, DoneIsLast
  <1>5. AskedInv
    BY DEF Init, AskedInv
  <1>6. QED
    BY <1>1, <1>3, <1>4, <1>5 DEF IInv

LEMMA StepIInv == IInv /\ [Next]_vars => IInv'
  <1> SUFFICES ASSUME IInv, [Next]_vars PROVE IInv'
    OBVIOUS
  <1>1. host = 3 => n \in Images /\ adr <= n
    BY DEF IInv, SlotInv
  <1>2. QED
    BY <1>1, TypeStep, RequestStep, SlotStep, PayloadStep, StreamStep, AskedStep DEF IInv

LEMMA Invariance == Safety => []IInv
  BY InitIInv, StepIInv, PTL DEF Safety

(* The state keeps its types, the command register and the transmit FIFO their *)
(* bounds, whatever the image sizes, the FIFO and the number of buffers.        *)
THEOREM TypeCorrect == Spec => []TypeOK
  <1>1. IInv => TypeOK
    BY DEF IInv
  <1>2. QED
    BY <1>1, Invariance, PTL DEF Spec

(* No packet buffer is rewritten while it waits in the FIFO, as long as there is *)
(* one buffer more than the FIFO has places (proc_ota writes the next slot before *)
(* it knows whether the FIFO takes it).                                          *)
THEOREM BuffersStayIntact == Spec => []PayloadIntact
  <1>1. IInv => PayloadIntact
    BY DEF IInv
  <1>2. QED
    BY <1>1, Invariance, PTL DEF Spec

(* The remote sees a gap in the packet indices only when packets were thrown     *)
(* away: proc_ota offers a refused packet again and sends none twice.            *)
THEOREM NoGap == Spec => []RemoteSeesNoGap
  <1>1. IInv => RemoteSeesNoGap
    BY DEF IInv, StreamInv
  <1>2. QED
    BY <1>1, Invariance, PTL DEF Spec

(* ota_set_result reports success only when the receiver has END and every packet *)
(* before it, or packets of this download were thrown away.                      *)
THEOREM SuccessIsTrue == Spec => SuccessMeansReceived
  <1>1. IInv /\ [Next]_vars => [host = 4 /\ host' = 0 /\ result' = "ok" => remote.done \/ lost]_vars
    <2> SUFFICES ASSUME IInv, Next, host = 4, host' = 0, result' = "ok" PROVE remote.done \/ lost
      OBVIOUS
    <2>1. Continues /\ FifoOK
      BY TypeParts DEF IInv, StreamInv
    <2>2. OtaFinish \/ Reboot
      BY StepCases DEF Quiet, OtaSendData, OtaReady, OtaBegin, OtaSendStart, OtaTimesOut,
         SendPacket, DataCallback, ReadResponse, TypeResponse, LinkLost, Transmit
    <2>3. fifo = <<>>
      BY <2>2 DEF OtaFinish, Reboot
    <2>4. ~HasEnd
      BY <2>3 DEF HasEnd
    <2>5. QED
      BY <2>1, <2>4 DEF Continues
  <1>2. QED
    BY <1>1, Invariance, PTL DEF Spec, Safety, SuccessMeansReceived

(* The main loop begins a download only on a request of the PC that has not been *)
(* served, however often the lock expires and the command is accepted again.     *)
THEOREM BeginsWhenAsked == Spec => BeginsOnlyWhenAsked
  <1>1. IInv /\ [Next]_vars => [host = 0 /\ host' = 1 => asked]_vars
    <2> SUFFICES ASSUME IInv, Next, host = 0, host' = 1 PROVE asked
      OBVIOUS
    <2>1. OtaBegin
      BY StepCases DEF Quiet, OtaSendData, OtaSendStart, OtaTimesOut, OtaFinish, OtaSetResult,
         DataCallback, ReadResponse, TypeResponse, LinkLost, Reboot, Transmit
    <2>2. QED
      BY <2>1 DEF OtaBegin, IInv, AskedInv
  <1>2. QED
    BY <1>1, Invariance, PTL DEF Spec, Safety, BeginsOnlyWhenAsked

\* One step of proc_ota: START, or the next packet, with END as the last.
Begun == host = 2 /\ host' = 3 /\ n' \in Images /\ adr' = 0
Sent ==
  /\ host = 3 /\ n' = n /\ adr' = adr + 1
  /\ IF adr < n THEN host' = 3 ELSE host' = 4
Forward == host' = 0 \/ UNCHANGED <<host, n, adr>> \/ Begun \/ Sent

(* A download that has begun only goes forward, packet by packet to END, or ends: *)
(* no command of the PC, no lock that expires, no late answer and no lost link    *)
(* takes proc_ota back, gives it another size or makes it skip a packet.  It has  *)
(* therefore as many steps as the image has packets and three at most: START, END *)
(* and the result.  That the steps are taken, so that it ends, is fairness.       *)
THEOREM DownloadGoesForward ==
  Spec => [](host = 3 => n \in Images /\ adr <= n) /\ [][(host \in {2, 3, 4}) => Forward]_vars
  <1>1. IInv => (host = 3 => n \in Images /\ adr <= n)
    BY DEF IInv, SlotInv
  <1>2. IInv /\ [Next]_vars => [(host \in {2, 3, 4}) => Forward]_vars
    <2> SUFFICES ASSUME IInv, Next, host \in {2, 3, 4} PROVE Forward
      OBVIOUS
    <2>1. host = 3 => n \in Nat /\ adr \in Nat
      BY HostOtaAssumption DEF IInv, TypeOK
    <2>2. CASE OtaSendData
      <3>1. host = 3 /\ n' = n /\ SendPacket
        BY <2>2 DEF OtaSendData, OtaReady
      <3>2. CASE Len(fifo) < FifoSize
        <4>1. adr' = adr + 1 /\ host' = IF PacketAt(adr).end THEN 4 ELSE 3
          BY <3>1, <3>2 DEF SendPacket
        <4>2. PacketAt(adr).end <=> ~(adr < n)
          BY DEF PacketAt, Data, EndPacket
        <4>3. QED
          BY <3>1, <4>1, <4>2 DEF Forward, Sent
      <3>3. CASE ~(Len(fifo) < FifoSize)
        BY <3>1, <3>3 DEF SendPacket, Forward
      <3>4. QED
        BY <3>2, <3>3
    <2>3. CASE OtaSendStart
      BY <2>3 DEF OtaSendStart, OtaReady, Forward, Begun
    <2>4. CASE OtaTimesOut \/ OtaFinish \/ Reboot
      BY <2>4 DEF OtaTimesOut, OtaFinish, OtaSetResult, Reboot, Forward
    <2>5. CASE OtaBegin
      BY <2>5 DEF OtaBegin
    <2>6. CASE DataCallback
      <3>1. UNCHANGED <<n, adr>> /\ (ReadResponse \/ TypeResponse \/ host' = host)
        BY <2>6 DEF DataCallback
      <3>2. host' = host
        BY <3>1 DEF ReadResponse, TypeResponse
      <3>3. QED
        BY <3>1, <3>2 DEF Forward
    <2>7. CASE LinkLost \/ Transmit \/ Quiet
      BY <2>7 DEF LinkLost, Transmit, Quiet, Forward
    <2>8. QED
      BY <2>2, <2>3, <2>4, <2>5, <2>6, <2>7, StepCases
  <1>3. QED
    BY <1>1, <1>2, Invariance, PTL DEF Spec, Safety
=============================================================================
