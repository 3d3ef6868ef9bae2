----------------------------- MODULE UsbControl -----------------------------
(***************************************************************************)
(* The control endpoint of the dongle: proj/drivers/usb.c, the microphone  *)
(* part of proj/app/usbaud.c and the register access of usbhw_i.h.  The    *)
(* main loop polls usb_handle_irq; the host's tokens fall between polls.   *)
(* A transfer is a SETUP, packets of data, and a STATUS; the host may give *)
(* up at any point and begin another, and it may reset the bus.            *)
(*                                                                         *)
(* The k-th byte of descriptor d is <<d, k>>; a setting is one byte.  The  *)
(* set-up bytes, read as if they were data, are SetupBytes.  What a        *)
(* custom report does to the registers of the chip is left out.            *)
(***************************************************************************)
EXTENDS Integers, Sequences

CONSTANTS
  PacketSize,      \* bytes in a packet of endpoint 0                (8)
  DescriptorSize,  \* a function from descriptor names to sizes
  Values,          \* values the host sets
  InitialValue,    \* the value of a setting at power-on
  SetupBytes,      \* what a setting reads from a set-up packet, 0x0121
  MaxTransfers     \* bound on SETUPs

ASSUME ControlAssumption ==
  /\ PacketSize \in Nat \ {0} /\ MaxTransfers \in Nat
  /\ \A d \in DOMAIN DescriptorSize : DescriptorSize[d] \in Nat
  /\ {SetupBytes, InitialValue} \cap Values = {} /\ SetupBytes # InitialValue

\* g_rate, usb_mouse_report_proto, usb_alt_intf, mic_setting.vol_cur, host_cmd
Settings == {"idle", "protocol", "interface", "volume", "report"}
WithData == {"volume", "report"}       \* set by the data of the transfer, else by wValue

\* Requests: read a descriptor; the HID descriptor of an interface that has none;
\* a descriptor or request the dongle does not know; get and set a setting.
Requests ==
  [kind : {"descriptor"}, item : DOMAIN DescriptorSize, wLength : 1 .. 2 * PacketSize + 1, value : {SetupBytes}]
  \cup [kind : {"noHid"}, item : {"hid"}, wLength : {2 * PacketSize}, value : {SetupBytes}]
  \cup [kind : {"unknownIn", "unknownOut"}, item : {"unknown"}, wLength : {1}, value : {SetupBytes}]
  \cup [kind : {"get"}, item : Settings \ {"report"}, wLength : {1}, value : {SetupBytes}]
  \cup [kind : {"set"}, item : Settings, wLength : {1}, value : Values]

NoRequest == [kind |-> "unknownIn", item |-> "unknown", wLength |-> 1, value |-> SetupBytes]

Reads(r) == r.kind \notin {"set", "unknownOut"}
Writes(r) == ~Reads(r) /\ (r.item \in WithData \/ r.kind = "unknownOut")

VARIABLES
  host,      \* the host's transfer: phase, request, bytes read, and how it ended
  ep0,       \* the endpoint: interrupt flags, handshakes, the packet in its buffer
  dongle,    \* control_request, g_response with its length, g_stall
  settings,  \* what the requests set
  transfers  \* SETUPs left

ctlVars == <<host, ep0, dongle, settings, transfers>>

CtlInit ==
  /\ host = [phase |-> "idle", req |-> NoRequest, got |-> <<>>, result |-> "none"]
  /\ ep0 = [setup |-> FALSE, data |-> FALSE, sta |-> FALSE, reset |-> FALSE,
            dat |-> "nak", status |-> "nak", buf |-> <<>>]
  /\ dongle = [req |-> NoRequest, response |-> <<>>, stall |-> FALSE]
  /\ settings = [s \in Settings |-> InitialValue]
  /\ transfers = MaxTransfers

CtlTypeOK ==
  /\ host.phase \in {"idle", "in", "out", "status"} /\ host.req \in Requests
  /\ Len(host.got) <= host.req.wLength /\ host.result \in {"none", "done", "stalled"}
  /\ ep0.dat \in {"nak", "ack", "stall"} /\ ep0.status \in {"nak", "ack", "stall"}
  /\ Len(ep0.buf) <= PacketSize
  /\ dongle.req \in Requests /\ dongle.stall \in BOOLEAN
  /\ Len(dongle.response) <= 2 * PacketSize + 1
  /\ settings \in [Settings -> Values \cup {InitialValue, SetupBytes}] /\ transfers \in 0 .. MaxTransfers

-----------------------------------------------------------------------------
(* The firmware.  A handler maps a record of dongle, ep0 and settings.       *)

Bytes(d, n) == [k \in 1 .. n |-> <<d, k>>]
Clip(seq, n) == SubSeq(seq, 1, IF n < Len(seq) THEN n ELSE Len(seq))

\* usb_prepare_desc_data and usb_handle_std_intf_req at SETUP.  A HID descriptor
\* that does not exist leaves the response of the transfer before.
Response(d, r) ==
  Clip(CASE r.kind = "descriptor" -> Bytes(r.item, DescriptorSize[r.item])
         [] r.kind = "noHid" -> d.response
         [] OTHER -> <<>>,
       r.wLength)

\* Mutant: what has been sent is not taken off the response.
SendResponseKeeps(s) ==
  [s EXCEPT !.ep0.buf = Clip(s.dongle.response, PacketSize)]

\* usb_send_response: at most a packet, the rest waits.
SendResponse(s) ==
  [s EXCEPT !.ep0.buf = Clip(s.dongle.response, PacketSize),
            !.dongle.response = SubSeq(@, PacketSize + 1, Len(@))]

\* usbhw_read_ctrl_ep_data after the pointer was reset, at SETUP the set-up bytes.
ReadData(s, atSetup) == IF atSetup THEN SetupBytes ELSE s.ep0.buf[1]

\* usb_handle_out_class_intf_req and usb_handle_set_intf.  The volume is read
\* whatever the stage, the report only from data, the rest from wValue.
SetSetting(s, atSetup) ==
  LET r == s.dongle.req
      v == CASE r.item = "volume" -> ReadData(s, atSetup)
             [] r.item = "report" -> IF atSetup THEN s.settings.report ELSE ReadData(s, atSetup)
             [] OTHER -> r.value IN
  [s EXCEPT !.settings[r.item] = v]

\* usb_handle_request
HandleRequest(s, atSetup) ==
  LET r == s.dongle.req
      t == IF atSetup THEN [s EXCEPT !.dongle.response = Response(s.dongle, r)] ELSE s IN
  CASE r.kind \in {"descriptor", "noHid"} -> SendResponse(t)
    [] r.kind = "get" -> [s EXCEPT !.ep0.buf = <<s.settings[r.item]>>]
    [] r.kind = "set" -> SetSetting(s, atSetup)
    [] OTHER -> [s EXCEPT !.dongle.stall = TRUE]

\* usb_handle_ctl_ep_setup, usb_handle_ctl_ep_data
HandleStage(s, atSetup) ==
  LET cleared == [s EXCEPT !.dongle.stall = FALSE,
                           !.dongle.req = IF atSetup THEN host.req ELSE @]
      t == HandleRequest(cleared, atSetup) IN
  [t EXCEPT !.ep0.dat = IF t.dongle.stall THEN "stall" ELSE "ack"]

\* usb_handle_ctl_ep_status
HandleStatus(s) == [s EXCEPT !.ep0.status = IF s.dongle.stall THEN "stall" ELSE "ack"]

\* Mutant: a status token that comes with data waits for an interrupt of its own.
HandleIrqElse(s) ==
  IF s.ep0.setup THEN HandleStage([s EXCEPT !.ep0.setup = FALSE, !.ep0.sta = FALSE], TRUE)
  ELSE IF s.ep0.data THEN HandleStage([s EXCEPT !.ep0.data = FALSE, !.ep0.sta = FALSE], FALSE)
  ELSE IF s.ep0.sta THEN HandleStatus([s EXCEPT !.ep0.sta = FALSE]) ELSE s

\* usb_handle_irq serves all that is pending, in the order of a transfer.
HandleIrq(s) ==
  LET a == IF s.ep0.setup THEN HandleStage([s EXCEPT !.ep0.setup = FALSE], TRUE) ELSE s
      b == IF s.ep0.data THEN HandleStage([a EXCEPT !.ep0.data = FALSE], FALSE) ELSE a IN
  IF s.ep0.sta THEN HandleStatus([b EXCEPT !.ep0.sta = FALSE]) ELSE b

\* A bus reset puts the mouse back to the report protocol.
HandleReset(s) ==
  IF s.ep0.reset THEN [s EXCEPT !.ep0.reset = FALSE, !.settings.protocol = InitialValue] ELSE s

UsbHandleIrq ==
  /\ ep0.setup \/ ep0.data \/ ep0.sta \/ ep0.reset
  /\ LET s == HandleReset(HandleIrq([dongle |-> dongle, ep0 |-> ep0, settings |-> settings])) IN
       dongle' = s.dongle /\ ep0' = s.ep0 /\ settings' = s.settings
  /\ UNCHANGED <<host, transfers>>

-----------------------------------------------------------------------------
(* The host and the endpoint hardware (external).                            *)

Disarmed == [ep0 EXCEPT !.data = FALSE, !.sta = FALSE, !.dat = "nak", !.status = "nak"]

\* SETUP, also in the middle of a transfer, takes the place of a SETUP the firmware
\* has not seen and disarms the endpoint.  After a
\* bus reset the host waits 10 ms, so that the firmware has seen it.
HostSetup(r) ==
  /\ transfers > 0 /\ ~ep0.reset
  /\ transfers' = transfers - 1
  /\ host' = [phase |-> IF Reads(r) THEN "in" ELSE IF Writes(r) THEN "out" ELSE "status",
              req |-> r, got |-> <<>>, result |-> "none"]
  /\ ep0' = [Disarmed EXCEPT !.setup = TRUE, !.sta = ~Reads(r) /\ ~Writes(r)]
  /\ UNCHANGED <<dongle, settings>>

Ends(result) == host' = [host EXCEPT !.phase = "idle", !.result = result]

\* IN: a packet comes over; a short one, or the last of wLength, ends the data.
HostIn ==
  LET got == Clip(host.got \o ep0.buf, host.req.wLength)
      last == Len(ep0.buf) < PacketSize \/ Len(got) = host.req.wLength IN
  /\ host.phase = "in" /\ ep0.dat = "ack"
  /\ host' = [host EXCEPT !.got = got, !.phase = IF last THEN "status" ELSE @]
  /\ ep0' = [ep0 EXCEPT !.dat = "nak", !.data = TRUE, !.sta = last]
  /\ UNCHANGED <<dongle, settings, transfers>>

HostOut ==
  /\ host.phase = "out" /\ ep0.dat = "ack"
  /\ host' = [host EXCEPT !.phase = "status"]
  /\ ep0' = [ep0 EXCEPT !.dat = "nak", !.buf = <<host.req.value>>, !.data = TRUE, !.sta = TRUE]
  /\ UNCHANGED <<dongle, settings, transfers>>

HostDataStalled ==
  /\ host.phase \in {"in", "out"} /\ ep0.dat = "stall" /\ Ends("stalled")
  /\ UNCHANGED <<ep0, dongle, settings, transfers>>

HostStatus ==
  /\ host.phase = "status" /\ ep0.status # "nak"
  /\ Ends(IF ep0.status = "ack" THEN "done" ELSE "stalled")
  /\ ep0' = [ep0 EXCEPT !.status = "nak"]
  /\ UNCHANGED <<dongle, settings, transfers>>

BusReset ==
  /\ transfers > 0 /\ transfers' = transfers - 1
  /\ ep0' = [Disarmed EXCEPT !.setup = FALSE, !.reset = TRUE] /\ Ends("none")
  /\ UNCHANGED <<dongle, settings>>

-----------------------------------------------------------------------------
HostData == HostIn \/ HostOut \/ HostDataStalled \/ HostStatus

CtlNext == UsbHandleIrq \/ HostData \/ BusReset \/ \E r \in Requests : HostSetup(r)

\* The main loop goes on polling and a host that began a transfer goes on with it.
CtlFair == WF_ctlVars(UsbHandleIrq) /\ WF_ctlVars(HostData)

CtlSpec == CtlInit /\ [][CtlNext]_ctlVars
CtlFairSpec == CtlSpec /\ CtlFair
-----------------------------------------------------------------------------
Expected(r) ==
  IF r.kind = "descriptor"
    THEN host.got = Clip(Bytes(r.item, DescriptorSize[r.item]), r.wLength)
  ELSE /\ r.kind = "set" => settings[r.item] = r.value
       /\ r.kind = "get" => host.got = <<settings[r.item]>>

(* A transfer that ends well has done what it was for, whatever was given up  *)
(* half way before it: the host has read the whole descriptor, or what it     *)
(* asked for of it, and a setting has the host's value and not the set-up     *)
(* bytes it is overwritten with at first.  The one exception is the HID       *)
(* descriptor of an interface without one (usb.c:173), which is answered with *)
(* what a transfer given up has left.                                         *)
DoneMeansDone ==
  host.result = "done" => Expected(host.req) /\ host.req.kind # "unknownOut"

(* Every transfer the host does not give up ends, done or stalled, also when  *)
(* its last data and its status are pending at once and when the descriptor   *)
(* is shorter than asked for and fills its last packet.                       *)
TransferEnds == []<>(host.phase = "idle")
=============================================================================
