---------------------------- MODULE DongleInput ----------------------------
(* Keys and mouse on their way from the radio to the PC: att_keyboard,          *)
(* att_keyboard_media and att_mouse of the dongle (dongle.c), the keyboard and  *)
(* mouse reports of the USB side (proj/app/usbkb.c, usbmouse.c) and the part of *)
(* usb_handle_irq (proj/drivers/usb.c) that sends them.                         *)
(*                                                                              *)
(* The att functions run in the radio interrupt, which nothing in the main loop *)
(* holds off: it may come between any two steps of it.  The mouse frames and    *)
(* the time-outs that release what is left pressed are sent by the main loop.   *)
(* The remote may say nothing any more at any moment, and any report may follow *)
(* any other.  Everything but normal keys shares one endpoint.  What an         *)
(* endpoint holds is a set of reports, empty when it is free: one report, or    *)
(* several when the interrupt writes it between the main loop's test and its    *)
(* acknowledge; the PC gets one of them.                                        *)
EXTENDS Naturals, FiniteSets

CONSTANTS
  NormalKeys, SysKeys, MediaKeys,  \* the three classes of usbkb_separate_key_types
  NoKey,
  RingSize,     \* entries of mouse_dat_buff (8)
  MaxReports, MaxEvents  \* bounds: reports of the remote, events on the bus

Keys == NormalKeys \cup SysKeys \cup MediaKeys

ASSUME InputAssumption ==
  /\ NormalKeys \cap SysKeys = {} /\ (NormalKeys \cup SysKeys) \cap MediaKeys = {}
  /\ NoKey \notin Keys /\ RingSize \in Nat \ {0}
  /\ MaxReports \in Nat /\ MaxEvents \in Nat

VARIABLES
  not_released,    \* usbkb_not_released: the classes with a key the PC has pressed
  last,            \* last_data of usbkb_check_repeat_and_save
  ring, wptr, rptr,  \* mouse_dat_buff, usbmouse_wptr, usbmouse_rptr
  mouse_held,      \* usbmouse_not_released
  due,             \* which of the two release time-outs are over
  pc, stage,       \* the main loop's task and how far it is with it
  data, saved,     \* the frame it sends; the usbkb_not_released BM_CLR has read
  raced,           \* what the interrupt has put into endpoints since the task's test
  ep,              \* what the keyboard and the mouse endpoint hold
  suspended,       \* FLD_IRQ_USB_PWDN_EN
  host,            \* what the PC takes for pressed
  slipped,         \* history: kinds of which a mark or a release was lost to the
                   \* interrupt coming in the middle of a task, or to SetProtocol
  budget

main == <<pc, stage, data, saved>>
races == <<raced, slipped>>
rings == <<ring, wptr, rptr>>
vars == <<not_released, last, rings, mouse_held, due, main, races, ep, suspended, host, budget>>

Classes == {"normal", "sys", "media"}
KeysOf(c) == CASE c = "normal" -> NormalKeys [] c = "sys" -> SysKeys [] c = "media" -> MediaKeys
\* The 4 bytes of a mouse frame: a button is down, only movement, or all zero.
MouseData == {"down", "move", "zero"}
Endpoint(kind) == IF kind = "normal" THEN "kb" ELSE "mouse"
Report(kind, val) == [kind |-> kind, val |-> val]
Pressed(r) == IF r.kind = "mouse" THEN r.val = "down" ELSE r.val # NoKey
Presses(reports)  == {r.kind : r \in {q \in reports : Pressed(q)}}
Releases(reports) == {r.kind : r \in {q \in reports : ~Pressed(q)}}
Nothing == [normal |-> NoKey, sys |-> NoKey, media |-> NoKey, mouse |-> "zero"]

Init ==
  /\ not_released = {} /\ last = NoKey /\ mouse_held = FALSE /\ due = {}
  /\ ring = [i \in 0 .. RingSize - 1 |-> "zero"] /\ wptr = 0 /\ rptr = 0
  /\ pc = "frame" /\ stage = "test" /\ data = "zero" /\ saved = {}
  /\ raced = {} /\ slipped = {}
  /\ ep = [e \in {"kb", "mouse"} |-> {}] /\ suspended = FALSE
  /\ host = Nothing
  /\ budget = [reports |-> MaxReports, events |-> MaxEvents]

-----------------------------------------------------------------------------
(* The radio interrupt.  s is [nr, ep]. *)

Free(s, c) == s.ep[Endpoint(c)] = {}

ReleaseForgets(s, c) ==
  IF c \notin s.nr THEN s
  ELSE [nr |-> s.nr \ {c}, ep |-> IF Free(s, c) THEN [s.ep EXCEPT ![Endpoint(c)] = {Report(c, NoKey)}] ELSE s.ep]
\* usbkb_release_normal_key and its two siblings: a busy endpoint leaves the mark.
ReleaseClass(s, c) ==
  IF c \in s.nr /\ Free(s, c)
  THEN [nr |-> s.nr \ {c}, ep |-> [s.ep EXCEPT ![Endpoint(c)] = {Report(c, NoKey)}]]
  ELSE s

\* A press that meets a busy endpoint is lost.
PressClass(s, c, k) ==
  IF Free(s, c)
  THEN [nr |-> s.nr \cup {c}, ep |-> [s.ep EXCEPT ![Endpoint(c)] = {Report(c, k)}]]
  ELSE s

\* usbkb_report_normal_key, _sys_key and _media_key
ReportClass(s, c, k) == IF k \in KeysOf(c) THEN PressClass(s, c, k) ELSE ReleaseClass(s, c)

\* A key that is reported again while something is pressed only restarts the time-out.
Repeats(k) == k # NoKey /\ k = last /\ not_released # {}

\* The history: what the interrupt queued while a task is under way.  A press that
\* got through has set its mark, so the PC and the marks agree on its class again.
Queued == UNION {ep'[e] \ ep[e] : e \in {"kb", "mouse"}}
NoteRace ==
  /\ raced' = IF stage = "test" THEN {} ELSE raced \cup Queued
  /\ slipped' = slipped \ Presses(Queued)

\* att_keyboard or att_keyboard_media, calling usbkb_hid_report.
AttKeyboard(k) ==
  /\ budget.reports > 0 /\ budget' = [budget EXCEPT !.reports = @ - 1]
  /\ due' = due \ {"kb"}
  /\ last' = IF k = NoKey THEN last ELSE k
  /\ IF Repeats(k) THEN UNCHANGED <<not_released, ep>>
     ELSE LET s == ReportClass(ReportClass(ReportClass(
                     [nr |-> not_released, ep |-> ep], "normal", k), "sys", k), "media", k)
          IN not_released' = s.nr /\ ep' = s.ep
  /\ NoteRace
  /\ UNCHANGED <<rings, mouse_held, main, suspended, host>>

NextSlotNoWrap(p) == p + 1
NextSlot(p) == (p + 1) % RingSize

\* att_mouse and usbmouse_add_frame: a full ring looks empty, its frames are lost.
AttMouse(d) ==
  /\ budget.reports > 0 /\ budget' = [budget EXCEPT !.reports = @ - 1]
  /\ ring' = [ring EXCEPT ![wptr] = d] /\ wptr' = NextSlot(wptr)
  /\ UNCHANGED <<rptr, not_released, last, mouse_held, due, main, races, ep, suspended, host>>

-----------------------------------------------------------------------------
(* The main loop: usbmouse_report_frame, usbmouse_release_check and             *)
(* usbkb_release_check with its three keys.  A task tests the endpoint (Test)   *)
(* and, when it is free, fills and acknowledges it (Fill); BM_CLR reads the     *)
(* marks (Load), clears one and writes them back (Store).                       *)

Tasks == {"frame", "mouseRelease", "sys", "normal", "media"}
After(task) == [frame |-> "mouseRelease", mouseRelease |-> "sys", sys |-> "normal",
                normal |-> "media", media |-> "frame"][task]
KindOf(task) == IF task \in Classes THEN task ELSE "mouse"

\* The time-out of the keyboard is looked at once for all three classes.
KbTimeout == not_released # {} /\ "kb" \in due
Wants(task) ==
  CASE task = "frame" -> wptr # rptr
    [] task = "mouseRelease" -> mouse_held /\ "mouse" \in due
    [] task = "sys" -> KbTimeout /\ "sys" \in not_released
    [] OTHER -> task \in not_released
Skipped(task) == IF task = "sys" /\ ~KbTimeout THEN "frame" ELSE After(task)

Running == ~(pc = "frame" /\ suspended)

Test ==
  /\ stage = "test" /\ Running /\ Wants(pc) /\ ep[Endpoint(KindOf(pc))] = {}
  /\ stage' = "fill" /\ saved' = not_released
  /\ data' = IF pc = "frame" THEN ring[rptr] ELSE "zero"
  /\ UNCHANGED <<pc, not_released, last, rings, mouse_held, due, races, ep, suspended, host, budget>>

\* A frame that finds the endpoint busy stays in the ring.
Busy ==
  /\ stage = "test" /\ Running /\ Wants(pc) /\ ep[Endpoint(KindOf(pc))] # {}
  /\ pc' = After(pc)
  /\ mouse_held' = (mouse_held \/ pc = "frame")
  /\ due' = IF pc = "frame" THEN due \ {"mouse"} ELSE due
  /\ UNCHANGED <<stage, data, saved, races, not_released, last, rings, ep, suspended, host, budget>>

Nil ==
  /\ stage = "test" /\ Running /\ ~Wants(pc) /\ pc' = Skipped(pc)
  /\ UNCHANGED <<stage, data, saved, races, not_released, last, rings, mouse_held, due, ep,
                 suspended, host, budget>>

Outgoing == Report(KindOf(pc), IF pc \in Classes THEN NoKey ELSE data)

\* What the interrupt wrote since the test and what is written now share the buffer.
Fill ==
  /\ stage = "fill" /\ stage' = IF pc \in Classes THEN "load" ELSE "store"
  /\ LET e == Endpoint(KindOf(pc)) IN
     ep' = [ep EXCEPT ![e] = {Outgoing} \cup {r \in raced : Endpoint(r.kind) = e}]
  /\ UNCHANGED <<pc, data, saved, races, not_released, last, rings, mouse_held, due,
                 suspended, host, budget>>

\* usbkb_not_released is not volatile: BM_CLR may reload it or use what the test read.
Load ==
  /\ stage = "load" /\ stage' = "store"
  /\ saved' \in {saved, not_released}
  /\ UNCHANGED <<pc, data, races, not_released, last, rings, mouse_held, due, ep,
                 suspended, host, budget>>

HeldAfterNever(d) == FALSE
HeldAfter(d) == d # "zero"

StoreFrame ==
  /\ pc = "frame"
  /\ rptr' = NextSlot(rptr)
  /\ mouse_held' = HeldAfter(data)
  /\ due' = IF HeldAfter(data) THEN due \ {"mouse"} ELSE due
  /\ UNCHANGED <<not_released, slipped>>

StoreMouseRelease ==
  /\ pc = "mouseRelease" /\ mouse_held' = FALSE
  /\ UNCHANGED <<rptr, due, not_released, slipped>>

\* The history: marks the interrupt has set in the meantime are overwritten.
StoreKeyRelease ==
  /\ pc \in Classes /\ not_released' = saved \ {pc}
  /\ slipped' = slipped \cup (Presses(raced) \ not_released')
  /\ UNCHANGED <<rptr, due, mouse_held>>

Store ==
  /\ stage = "store" /\ stage' = "test" /\ pc' = After(pc)
  /\ data' = "zero" /\ saved' = {} /\ raced' = {}
  /\ StoreFrame \/ StoreMouseRelease \/ StoreKeyRelease
  /\ UNCHANGED <<last, ring, wptr, ep, suspended, host, budget>>

\* The USB reset part of usb_handle_irq: pending reports are thrown away and the PC
\* starts from nothing.
UsbReset ==
  /\ pc = "frame" /\ stage = "test"
  /\ budget.events > 0 /\ budget' = [budget EXCEPT !.events = @ - 1]
  /\ ep' = [e \in {"kb", "mouse"} |-> {}] /\ host' = Nothing /\ slipped' = {}
  /\ UNCHANGED <<not_released, last, rings, mouse_held, due, main, raced, suspended>>

\* The PC selects the report protocol: the mouse endpoint is cleared with whatever it
\* holds, and what was to be released keeps no mark.
SetProtocol ==
  /\ pc = "frame" /\ stage = "test"
  /\ budget.events > 0 /\ budget' = [budget EXCEPT !.events = @ - 1]
  /\ ep' = [ep EXCEPT !["mouse"] = {}]
  /\ slipped' = slipped \cup Releases(ep["mouse"])
  /\ UNCHANGED <<not_released, last, rings, mouse_held, due, main, raced, suspended, host>>

MainLoop == Test \/ Busy \/ Nil \/ Fill \/ Load \/ Store

-----------------------------------------------------------------------------
(* The PC and time. *)

\* Of several reports in the buffer one arrives; releases among the others are lost.
Poll(e) ==
  /\ ~suspended /\ ep[e] # {} /\ ep' = [ep EXCEPT ![e] = {}]
  /\ \E r \in ep[e] :
       /\ host' = [host EXCEPT ![r.kind] = r.val]
       /\ slipped' = (slipped \cup Releases(ep[e] \ {r})) \ Releases({r})
  /\ UNCHANGED <<not_released, last, rings, mouse_held, due, main, raced, suspended, budget>>

Suspend ==
  /\ ~suspended /\ suspended' = TRUE
  /\ budget.events > 0 /\ budget' = [budget EXCEPT !.events = @ - 1]
  /\ UNCHANGED <<not_released, last, rings, mouse_held, due, main, races, ep, host>>
Resume ==
  /\ suspended /\ suspended' = FALSE
  /\ UNCHANGED <<not_released, last, rings, mouse_held, due, main, races, ep, host, budget>>

\* While the PC is awake a waiting frame is tried on every pass, and that restarts the
\* 200 ms of the mouse.
TimePasses(t) ==
  /\ t \notin due /\ due' = due \cup {t}
  /\ t = "kb" => not_released # {}
  /\ t = "mouse" => mouse_held /\ (suspended \/ wptr = rptr)
  /\ UNCHANGED <<not_released, last, rings, mouse_held, main, races, ep, suspended, host, budget>>

Interrupt == (\E k \in Keys \cup {NoKey} : AttKeyboard(k)) \/ \E d \in MouseData : AttMouse(d)
Next ==
  \/ Interrupt \/ MainLoop \/ UsbReset \/ SetProtocol \/ Suspend \/ Resume
  \/ \E e \in {"kb", "mouse"} : Poll(e)
  \/ \E t \in {"kb", "mouse"} : TimePasses(t)

\* The main loop never stops, a PC that is awake polls every endpoint, a PC that
\* sleeps wakes up (or is of no interest), and time goes on.
Fairness ==
  /\ WF_vars(MainLoop) /\ WF_vars(Resume)
  /\ \A e \in {"kb", "mouse"} : WF_vars(Poll(e)) /\ WF_vars(TimePasses(e))

Spec == Init /\ [][Next]_vars /\ Fairness

-----------------------------------------------------------------------------
(* Properties *)

Kinds == Classes \cup {"mouse"}
Reports == (UNION {{Report(c, k) : k \in KeysOf(c) \cup {NoKey}} : c \in Classes})
           \cup {Report("mouse", d) : d \in MouseData}

\* Type invariant.
TypeOK ==
  /\ not_released \subseteq Classes /\ saved \subseteq Classes /\ slipped \subseteq Kinds
  /\ last \in Keys \cup {NoKey}
  /\ ring \in [0 .. RingSize - 1 -> MouseData] /\ data \in MouseData
  /\ wptr \in 0 .. RingSize - 1 /\ rptr \in 0 .. RingSize - 1
  /\ mouse_held \in BOOLEAN /\ due \subseteq {"kb", "mouse"} /\ suspended \in BOOLEAN
  /\ pc \in Tasks /\ stage \in {"test", "fill", "load", "store"}
  /\ ep \in [{"kb", "mouse"} -> SUBSET Reports] /\ raced \subseteq Reports
  /\ host \in [normal : NormalKeys \cup {NoKey}, sys : SysKeys \cup {NoKey},
               media : MediaKeys \cup {NoKey}, mouse : MouseData]

\* Whatever the PC takes for pressed, or is about to, is marked for release or its
\* release is on the way: nothing that is pressed is forgotten, however presses and
\* releases meet busy endpoints and full rings and wherever the interrupt comes.  The
\* kinds in slipped are excepted: a press whose mark BM_CLR overwrote, a release that
\* shared the endpoint with another report and lost, or was cleared by SetProtocol.
PressedAtPc(kind) ==
  \/ Pressed(Report(kind, host[kind]))
  \/ \E r \in ep[Endpoint(kind)] : r.kind = kind /\ Pressed(r)
AboutToMark == pc = "frame" /\ stage = "store" /\ HeldAfter(data)
Marked(kind) == IF kind = "mouse" THEN mouse_held \/ AboutToMark ELSE kind \in not_released
ReleaseQueued(kind) == \E r \in ep[Endpoint(kind)] : r.kind = kind /\ ~Pressed(r)
PressedIsTracked ==
  \A kind \in Kinds \ slipped : PressedAtPc(kind) => Marked(kind) \/ ReleaseQueued(kind)

\* When the remote falls silent, with any key or button pressed, everything at the PC
\* is released in the end: the two time-outs of usbkb_release_check and
\* usbmouse_release_check make up for every report that was lost, but for what slipped.
EverythingIsReleased ==
  <>[](\A kind \in Kinds : Pressed(Report(kind, host[kind])) => kind \in slipped)
=============================================================================
