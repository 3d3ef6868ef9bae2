------------------------------ MODULE HostOta ------------------------------
(* The dongle as the host of a firmware update of the remote control: the    *)
(* command register the PC tool writes, proc_read_att and proc_ota of the    *)
(* main loop, and the interrupt callbacks that race with both of them        *)
(* (vendor/8266_ble_master_kma_dongle/dongle.c).                             *)
(*                                                                           *)
(* A firmware image is a number of 16-byte packets; ota_adr counts packets.  *)
(* The transmit FIFO holds references to the packet buffers, as the hardware *)
(* does, so a buffer that is rewritten while it is queued changes what is    *)
(* sent.  The main loop reads the command register in one step (line 850)    *)
(* and acts on the value in a later one (line 859): an interrupt may come    *)
(* between.  The time-outs are choices: the command lock may expire on any   *)
(* pass and the download may time out on any pass.                           *)
EXTENDS Naturals, Sequences

CONSTANTS
  Images,         \* the sizes n_firmware can have, in packets
  Per16K,         \* packets in 16K of image
  Buffers,        \* entries of ota_buffer
  FifoSize,       \* packets ble_master_add_tx_packet holds
  MaxReplies,     \* bound: requests the remote has not answered yet
  MaxCmds, MaxLosses, MaxNotify   \* bounds: PC commands, link losses, notifications

ASSUME HostOtaAssumption ==
  /\ Images \subseteq Nat \ {0}
  /\ Per16K \in Nat \ {0}
  /\ Buffers \in Nat /\ FifoSize \in Nat \ {0} /\ FifoSize < Buffers
  /\ MaxReplies \in Nat \ {0}
  /\ MaxCmds \in Nat /\ MaxLosses \in Nat /\ MaxNotify \in Nat

VARIABLES
  regCmd,    \* register 0x8000: the command the PC wrote, "none" when done
  noAccept,  \* cmd_no_accept
  result,    \* register 0x8008: command result or the bytes of a read
  pc, cmd,   \* where the main loop is, and the command it has read
  handle,    \* current_red_req_handle: the read the next response answers
  req,       \* read_att_req[11]: the handle in the one read request buffer there is
  sendOta,   \* pc_tool_send_ota_cmd
  host,      \* host_ota_start
  uuid,      \* read_by_type_req_uuid holds my_OtaUUID
  n, adr,    \* n_firmware and ota_adr, in packets
  buf,       \* ota_buffer
  fifo,      \* hardware transmit FIFO
  link,      \* a connection is up (push_tx_fifo_enable)
  replies,   \* answers of the remote not yet delivered
  remote,    \* the receiver in the remote control
  asked,     \* history: the PC asked for a download that has not begun
  lost,      \* history: a packet was thrown away since the remote last saw START
  budget     \* what is left of the bounds on the environment

reg    == <<regCmd, noAccept, result, asked>>
state  == <<sendOta, host, uuid, n, adr, buf, lost>>
request == <<handle, req>>
air    == <<fifo, replies, request>>
vars   == <<reg, pc, cmd, state, air, link, remote, budget>>

\* Any handle is accepted as a read.  user_init registers att_read_rep_handler for some:
\* "read", which the remote answers, "refused", which it answers with an ATT error, and
\* the alert level; the response of an "unheard" handle goes to no handler, or to
\* one that leaves the register alone.
Reads == {"read", "alert", "refused", "unheard"}
Registered == {"read", "alert", "refused"}
Commands == Reads \cup {"control", "ota", "reboot", "unknown"}
\* The PC gives these up, as nothing clears the register.
Stuck == {"unknown", "refused", "unheard"}

\* What an OTA buffer holds: a data packet with its index, or the END command
\* with the index of the last data packet.
Packet   == [end : BOOLEAN, index : Nat]
Blank    == [end |-> FALSE, index |-> 0]
Data(k)  == [end |-> FALSE, index |-> k]

\* A FIFO entry refers to a static packet or to a slot of ota_buffer; "meant"
\* is what the code put into the slot when it queued the entry.
Plain(k)    == [kind |-> k, slot |-> 0, meant |-> Blank]
Queued(s, p) == [kind |-> "ota", slot |-> s, meant |-> p]
Kinds == {"readReq", "typeReq", "start", "ota"}
OfDownload(e) == e.kind \in {"start", "ota"}

FreshRemote == [next |-> 0, err |-> FALSE, done |-> FALSE]

Init ==
  /\ regCmd = "none" /\ noAccept = FALSE /\ result = "ng"
  /\ asked = FALSE /\ pc = "load" /\ cmd = "none"
  /\ sendOta = FALSE /\ host = 0 /\ uuid = FALSE /\ n = 0 /\ adr = 0 /\ lost = FALSE
  /\ buf = [s \in 0 .. Buffers - 1 |-> Blank]
  /\ fifo = <<>> /\ replies = <<>> /\ handle = "none" /\ req = "none" /\ link = TRUE
  /\ remote = FreshRemote
  /\ budget = [cmds |-> MaxCmds, losses |-> MaxLosses, notify |-> MaxNotify]

-----------------------------------------------------------------------------
(* The command register. *)

PushBeyondEnd(e) == fifo' = Append(fifo, e)
\* reg_dma_tx_fifo = p: no check for room; the packet is dropped when there is none.
PushRaw(e) == fifo' = IF Len(fifo) < FifoSize THEN Append(fifo, e) ELSE fifo

\* The macro SET_CMD_DONE.
SetCmdDone == regCmd' = "none" /\ noAccept' = FALSE

\* The PC tool writes a command when the register is free, or over a stuck one.
PcWrite(c) ==
  /\ regCmd \in Stuck \cup {"none"}
  /\ budget.cmds > 0
  /\ budget' = [budget EXCEPT !.cmds = @ - 1]
  /\ regCmd' = c
  /\ asked' = (asked \/ c = "ota")
  /\ UNCHANGED <<noAccept, result, pc, cmd, state, air, link, remote>>

\* Line 850.
LoadCmd ==
  /\ pc = "load" /\ pc' = "exec"
  /\ cmd' = regCmd
  /\ UNCHANGED <<reg, state, air, link, remote, budget>>

\* A read command goes out as an ATT read request, whose one buffer may be queued still.
\* The alert level is marked done at once, while its response is still to come.
AcceptRead(c) ==
  /\ PushRaw(Plain("readReq"))
  /\ handle' = c /\ req' = c
  /\ noAccept' = (c # "alert")
  /\ regCmd' = IF c = "alert" THEN "none" ELSE regCmd
  /\ UNCHANGED <<result, sendOta>>

\* Pairing and unpairing commands only set a counter and are done at once.
AcceptControl ==
  /\ result' = "ok" /\ SetCmdDone
  /\ UNCHANGED <<fifo, request, sendOta>>

AcceptOta ==
  /\ sendOta' = TRUE /\ noAccept' = TRUE
  /\ UNCHANGED <<regCmd, result, fifo, request>>

\* The default branch reports NG and leaves the command and the lock in place.
AcceptUnknown ==
  /\ result' = "ng" /\ noAccept' = TRUE
  /\ UNCHANGED <<regCmd, fifo, request, sendOta>>

Accept(c) ==
  \/ c \in Reads /\ AcceptRead(c)
  \/ c = "control" /\ AcceptControl
  \/ c = "ota" /\ AcceptOta
  \/ c = "unknown" /\ AcceptUnknown

LockBlocks  == noAccept
LockForever == FALSE
\* cmd_time_out_counter > 0x8ff0: after enough passes the lock is dropped, and
\* the command that is still in the register is accepted once more.
LockMayExpire == TRUE

\* Lines 852-918 with the command that was loaded.
ExecCmd ==
  /\ pc = "exec" /\ pc' = "ota"
  /\ ~LockBlocks
  /\ IF cmd = "none"
     THEN UNCHANGED <<regCmd, noAccept, result, fifo, request, sendOta>>
     ELSE Accept(cmd)
  /\ UNCHANGED <<asked, cmd, host, uuid, n, adr, buf, lost, replies, link, remote, budget>>

SkipCmd ==
  /\ pc = "exec" /\ pc' = "ota"
  /\ LockBlocks
  /\ UNCHANGED <<reg, cmd, state, air, link, remote, budget>>

LockExpires ==
  /\ pc = "exec" /\ pc' = "ota"
  /\ LockBlocks /\ LockMayExpire
  /\ IF cmd = "none"
     THEN noAccept' = FALSE
          /\ UNCHANGED <<regCmd, result, fifo, request, sendOta>>
     ELSE Accept(cmd)
  /\ UNCHANGED <<asked, cmd, host, uuid, n, adr, buf, lost, replies, link, remote, budget>>

\* CONTROL_REBOOT: the dongle sleeps for 10 ms and starts again with its static
\* data and the registers as user_init leaves them.  The connection is gone; the
\* remote keeps what it has received.
Reboot ==
  /\ pc = "exec" /\ cmd = "reboot" /\ (LockBlocks => LockMayExpire)
  /\ regCmd' = "none" /\ noAccept' = FALSE /\ result' = "ng"
  /\ asked' = FALSE /\ pc' = "load" /\ cmd' = "none"
  /\ sendOta' = FALSE /\ host' = 0 /\ uuid' = FALSE /\ n' = 0 /\ adr' = 0
  /\ buf' = [s \in 0 .. Buffers - 1 |-> Blank]
  /\ fifo' = <<>> /\ replies' = <<>> /\ handle' = "none" /\ req' = "none" /\ link' = FALSE
  /\ lost' = (lost \/ \E i \in DOMAIN fifo : OfDownload(fifo[i]))
  /\ UNCHANGED <<remote, budget>>

-----------------------------------------------------------------------------
(* proc_ota, called once in every pass of the main loop. *)

\* u8 ota_timeout_s = 5 + 5 * (n_firmware >> 14): eight bits, so the size an
\* erased header reads as gives 0.
TimeoutSeconds(size) == (5 + 5 * (size \div Per16K)) % 256

SlotMinusOne(a) == a % (Buffers - 1)
\* int idx = (ota_adr >> 4) & 7
Slot(a) == a % Buffers

EndPacketNext(a) == [end |-> TRUE, index |-> a]
\* adr_index_max = (ota_adr - 16) >> 4
EndPacket(a) == [end |-> TRUE, index |-> a - 1]

PacketAt(a) == IF a < n THEN Data(a) ELSE EndPacket(a)

SetResultKeepsRequest(r) ==
  /\ host' = 0 /\ result' = r /\ SetCmdDone
  /\ UNCHANGED sendOta
\* ota_set_result
OtaSetResult(r) ==
  /\ host' = 0 /\ sendOta' = FALSE /\ result' = r /\ SetCmdDone

\* Line 1624: the link is down or in the middle of an event; or the state has
\* nothing to do on this pass.
OtaIdle ==
  /\ pc = "ota" /\ pc' = "load"
  /\ UNCHANGED <<reg, cmd, state, air, link, remote, budget>>

OtaReady == pc = "ota" /\ pc' = "load" /\ link

\* State 0: the request of the PC begins the download with a request for the
\* handle of the OTA characteristic.
OtaBegin ==
  /\ OtaReady /\ host = 0 /\ sendOta
  /\ host' = 1 /\ uuid' = TRUE /\ asked' = FALSE
  /\ PushRaw(Plain("typeReq"))
  /\ UNCHANGED <<regCmd, noAccept, result, cmd, sendOta, n, adr, buf, lost,
                 replies, request, link, remote, budget>>

\* State 2: read the size from flash and send START.  A size over the limit of 124K sets
\* the state to 0 (line 1648) and line 1658 then sets it to 3 all the same.
OtaSendStart ==
  /\ OtaReady /\ host = 2
  /\ n' \in Images
  /\ host' = 3 /\ adr' = 0
  /\ PushRaw(Plain("start"))
  /\ lost' = (lost \/ Len(fifo) = FifoSize)
  /\ UNCHANGED <<reg, cmd, sendOta, uuid, buf, replies, request, link, remote, budget>>

NeverTimesOut == FALSE
MayTimeOut    == TRUE
\* State 3: the time allowed for this image is over.
OtaTimesOut ==
  /\ OtaReady /\ host = 3 /\ MayTimeOut
  /\ OtaSetResult("ng")
  /\ UNCHANGED <<asked, cmd, uuid, n, adr, buf, lost, air, link, remote, budget>>

\* The packet is written into its slot whether or not the FIFO takes it.
SendAlwaysAdvances ==
  LET p == PacketAt(adr)  s == Slot(adr) IN
  /\ buf' = [buf EXCEPT ![s] = p]
  /\ PushRaw(Queued(s, p))
  /\ adr' = adr + 1
  /\ host' = IF p.end THEN 4 ELSE 3
SendPacket ==
  LET p == PacketAt(adr)  s == Slot(adr) IN
  /\ buf' = [buf EXCEPT ![s] = p]
  /\ IF Len(fifo) < FifoSize
     THEN /\ fifo' = Append(fifo, Queued(s, p))
          /\ adr' = adr + 1
          /\ host' = IF p.end THEN 4 ELSE 3
     ELSE UNCHANGED <<fifo, adr, host>>

OtaSendData ==
  /\ OtaReady /\ host = 3
  /\ TimeoutSeconds(n) # 0
  /\ SendPacket
  /\ UNCHANGED <<reg, cmd, sendOta, uuid, n, lost, replies, request, link, remote, budget>>

\* State 4: the FIFO is empty, so everything was acknowledged.
OtaFinish ==
  /\ OtaReady /\ host = 4 /\ fifo = <<>>
  /\ OtaSetResult("ok")
  /\ UNCHANGED <<asked, cmd, uuid, n, adr, buf, lost, air, link, remote, budget>>

ProcOta == OtaIdle \/ OtaBegin \/ OtaSendStart \/ OtaTimesOut \/ OtaSendData \/ OtaFinish

-----------------------------------------------------------------------------
(* Interrupts: ble_master_data_callback and ble_event_callback. *)

\* A response is given to att_func[current_red_req_handle], so that only a registered
\* read is done; the PC's command stays where it is for any other.
ReadResponse ==
  /\ IF handle \in Registered
     THEN result' = "data" /\ handle' = "none" /\ SetCmdDone
     ELSE UNCHANGED <<regCmd, noAccept, result, handle>>
  /\ UNCHANGED <<uuid, host>>

\* att_read_by_type_rsp_handler
TypeResponse ==
  /\ IF uuid
     THEN uuid' = FALSE /\ host' = IF host = 1 THEN 2 ELSE host
     ELSE UNCHANGED <<uuid, host>>
  /\ UNCHANGED <<regCmd, noAccept, result, handle>>

\* An ATT error response has no branch.
DataCallback ==
  /\ replies # <<>>
  /\ replies' = Tail(replies)
  /\ CASE Head(replies) = "readRsp" -> ReadResponse
       [] Head(replies) = "typeRsp" -> TypeResponse
       [] OTHER -> UNCHANGED <<regCmd, noAccept, result, handle, uuid, host>>
  /\ UNCHANGED <<asked, pc, cmd, sendOta, n, adr, buf, lost, fifo, req, link, remote, budget>>

\* A notification of a characteristic read through the same handler (the battery
\* level): its bytes go to the result register and the pending read is forgotten.
Notification ==
  /\ link /\ budget.notify > 0
  /\ budget' = [budget EXCEPT !.notify = @ - 1]
  /\ result' = "data" /\ handle' = "none"
  /\ UNCHANGED <<regCmd, noAccept, asked, pc, cmd, state, fifo, replies, req, link, remote>>

\* FLG_SYS_LINK_LOST: the FIFO is cleared and whatever command is there is done.
LinkLost ==
  /\ link /\ budget.losses > 0
  /\ budget' = [budget EXCEPT !.losses = @ - 1]
  /\ link' = FALSE
  /\ fifo' = <<>> /\ replies' = <<>>
  /\ lost' = (lost \/ \E i \in DOMAIN fifo : OfDownload(fifo[i]))
  /\ SetCmdDone
  /\ UNCHANGED <<result, asked, pc, cmd, sendOta, host, uuid, n, adr, buf, request, remote>>

\* FLG_SYS_LINK_CONNECTED
LinkConnected ==
  /\ ~link /\ link' = TRUE
  /\ UNCHANGED <<reg, pc, cmd, state, air, remote, budget>>

-----------------------------------------------------------------------------
(* The other side (external): the radio sends the FIFO in order, the remote    *)
(* answers requests and checks the packet indices of a download.               *)

Receive(p) ==
  IF p.end
  THEN [remote EXCEPT !.done = ~remote.err /\ p.index + 1 = remote.next]
  ELSE [remote EXCEPT !.err = @ \/ p.index # remote.next, !.next = p.index + 1]

\* What the remote may answer, by what is in the request buffer when it is sent.
Answers(kind) ==
  CASE kind = "typeReq" -> {"typeRsp", "errRsp"}
    [] req = "read"     -> {"readRsp"}
    [] req = "refused"  -> {"errRsp"}
    [] OTHER            -> {"readRsp", "errRsp"}

Transmit ==
  /\ link /\ fifo # <<>>
  /\ LET e == Head(fifo) IN
     /\ remote' = CASE e.kind = "start" -> FreshRemote
                    [] e.kind = "ota" -> Receive(buf[e.slot])
                    [] OTHER -> remote
     /\ lost' = (lost /\ e.kind # "start")
     /\ IF OfDownload(e)
        THEN replies' = replies
        ELSE /\ Len(replies) < MaxReplies
             /\ \E a \in Answers(e.kind) : replies' = Append(replies, a)
  /\ fifo' = Tail(fifo)
  /\ UNCHANGED <<reg, pc, cmd, sendOta, host, uuid, n, adr, buf, request, link, budget>>

-----------------------------------------------------------------------------
MainLoop == LoadCmd \/ ExecCmd \/ SkipCmd \/ LockExpires \/ Reboot \/ ProcOta
Interrupt == DataCallback \/ Notification \/ LinkLost \/ LinkConnected

Next == (\E c \in Commands : PcWrite(c)) \/ MainLoop \/ Interrupt \/ Transmit

\* The main loop never stops and each of its passes reaches proc_ota, which goes on to
\* the next state or times out.  A command in the register is accepted again and again, as
\* the counter of the lock runs out; that takes 0x8ff0 passes, so the lock is held on most
\* of them, with the FIFO empty too: the radio empties it again and again.  What it
\* delivers is handled and a lost link is set up again.
Fairness ==
  /\ WF_vars(MainLoop)
  /\ SF_vars(LockExpires \/ (ExecCmd /\ cmd # "none"))
  /\ SF_vars(SkipCmd /\ fifo = <<>>) /\ []<>(fifo = <<>>)
  /\ SF_vars(OtaSendStart \/ OtaTimesOut \/ OtaFinish)
  /\ WF_vars(DataCallback) /\ WF_vars(LinkConnected)

Safety == Init /\ [][Next]_vars
Spec == Safety /\ Fairness

-----------------------------------------------------------------------------
(* Properties *)

\* Type invariant of the model's state.
TypeOK ==
  /\ regCmd \in Commands \cup {"none"} /\ noAccept \in BOOLEAN
  /\ result \in {"ok", "ng", "data"} /\ asked \in BOOLEAN
  /\ pc \in {"load", "exec", "ota"} /\ cmd \in Commands \cup {"none"}
  /\ handle \in Reads \cup {"none"} /\ req \in Reads \cup {"none"}
  /\ sendOta \in BOOLEAN /\ host \in 0 .. 4 /\ uuid \in BOOLEAN /\ lost \in BOOLEAN
  /\ n \in Images \cup {0} /\ adr \in Nat
  /\ buf \in [0 .. Buffers - 1 -> Packet]
  /\ fifo \in Seq([kind : Kinds, slot : 0 .. Buffers - 1, meant : Packet])
  /\ Len(fifo) <= FifoSize
  /\ link \in BOOLEAN
  /\ replies \in Seq({"readRsp", "typeRsp", "errRsp"}) /\ Len(replies) <= MaxReplies
  /\ remote \in [next : Nat, err : BOOLEAN, done : BOOLEAN]
  /\ budget \in [cmds : 0 .. MaxCmds, losses : 0 .. MaxLosses, notify : 0 .. MaxNotify]

\* No packet buffer is rewritten while it waits in the FIFO, although every pass
\* of proc_ota writes the next slot before it knows whether the FIFO takes it, and
\* although a download that timed out leaves its packets queued when the next one
\* begins again at slot 0.
PayloadIntact ==
  \A i \in DOMAIN fifo : fifo[i].kind = "ota" => buf[fifo[i].slot] = fifo[i].meant

\* The remote sees a gap in the packet indices only when packets were thrown away:
\* refused packets are offered again, and none is sent twice.
RemoteSeesNoGap == remote.err => lost

\* Success is reported only when the receiver has the END packet and every packet
\* before it, or packets of this download were thrown away with the link.  A reboot
\* in the middle of a download reports nothing.
SuccessMeansReceived ==
  [][host = 4 /\ host' = 0 /\ result' = "ok" => remote.done \/ lost]_vars

\* A download begins only on a request of the PC that has not been served yet: the
\* lock expiring and the command being accepted again never begins a second one.
BeginsOnlyWhenAsked == [][host = 0 /\ host' = 1 => asked]_vars

\* A download that has read its size always comes to an end.
DownloadEnds == host \in {2, 3, 4} ~> host = 0

\* A read that has a handler and that the remote answers leaves the register, although
\* its response may be lost with the link or taken for a notification, and its request
\* buffer or its answer shared with a read that has none: the lock expires and it is sent
\* again.  (A read without a handler, or that is refused, is sent for ever.)
ReadIsAnswered == regCmd = "read" ~> regCmd # "read"

-----------------------------------------------------------------------------
(* What a comment of the code claims. *)

\* Line 1735: when the FIFO is empty "all data acked,OTA OK".
AckedMeansReceived == [][host = 4 /\ host' = 0 /\ result' = "ok" => remote.done]_vars
=============================================================================
