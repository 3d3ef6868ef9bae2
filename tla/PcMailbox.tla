----------------------------- MODULE PcMailbox -----------------------------
(***************************************************************************)
(* How the dongle tells a PC tool which key is down (dongle.c): registers  *)
(* 0x8004 and 0x8005 hold one report, the tool clears 0x8004 when it has   *)
(* read them.  report_to_pc_tool runs in the radio interrupt; a release    *)
(* that finds the registers taken is left to the main loop, which tests    *)
(* and writes them too, in two steps the interrupt may come between.       *)
(***************************************************************************)
EXTENDS Integers

CONSTANTS
  MailKeys,      \* key codes
  NoMailKey,     \* no key: the code 0
  MaxReports     \* bound on the reports of the remote control

ASSUME MailboxAssumption == NoMailKey \notin MailKeys /\ MaxReports \in Nat

VARIABLES
  heldKey,       \* the key the remote has reported down
  mail,          \* 0x8004 as its mask, "free" when the tool has cleared it, and 0x8005
  release,       \* release_key_pending
  lastKey,       \* last_len and last_key of report_to_pc_tool
  looping,       \* the main loop: elsewhere ("away"), has found the registers free
                 \* and will write ("found"), was interrupted there ("hit")
  tool,          \* the key the tool takes for down, and whether it must clear 0x8004
  timedOut,      \* history: the last release was given up after 100 ms
  reports        \* reports left

mailVars == <<heldKey, mail, release, lastKey, looping, tool, timedOut, reports>>

KeysOrNone == MailKeys \cup {NoMailKey}
Free == [mask |-> "free", key |-> NoMailKey]
Released == [mask |-> "release", key |-> NoMailKey]
IsFree == mail.mask = "free"

MailInit ==
  /\ heldKey = NoMailKey /\ mail = Free /\ release = FALSE /\ lastKey = NoMailKey
  /\ looping = "away" /\ tool = [key |-> NoMailKey, read |-> FALSE]
  /\ timedOut = FALSE /\ reports = MaxReports

MailTypeOK ==
  /\ heldKey \in KeysOrNone /\ lastKey \in KeysOrNone /\ reports \in 0 .. MaxReports
  /\ mail \in [mask : {"free", "press", "repeat", "release"}, key : KeysOrNone]
  /\ release \in BOOLEAN /\ looping \in {"away", "found", "hit"} /\ timedOut \in BOOLEAN
  /\ tool \in [key : KeysOrNone, read : BOOLEAN]

-----------------------------------------------------------------------------
(* report_to_pc_tool *)

\* Mutant: a release that finds the registers taken is dropped like a press.
ReleaseReportDropped ==
  /\ timedOut' = FALSE
  /\ IF IsFree THEN mail' = Released /\ UNCHANGED release
               ELSE UNCHANGED <<mail, release>>

ReleaseReport ==
  /\ timedOut' = FALSE
  /\ IF IsFree THEN mail' = Released /\ UNCHANGED release
               ELSE release' = TRUE /\ UNCHANGED mail

\* A press that finds the registers taken is dropped.
PressReport(k) ==
  /\ mail' = IF IsFree
             THEN [mask |-> IF lastKey = k THEN "repeat" ELSE "press", key |-> k]
             ELSE mail
  /\ UNCHANGED <<release, timedOut>>

\* att_keyboard, att_keyboard_media: the remote reports what is down, a key or none.
\* Its packets are far apart: one at most falls between test and write of the loop.
ReportToPcTool(k) ==
  /\ reports > 0 /\ reports' = reports - 1
  /\ k # NoMailKey \/ heldKey # NoMailKey
  /\ IF k = NoMailKey THEN ReleaseReport ELSE PressReport(k)
  /\ heldKey' = k /\ lastKey' = k
  /\ looping # "hit" /\ looping' = IF looping = "found" THEN "hit" ELSE looping
  /\ UNCHANGED tool

-----------------------------------------------------------------------------
(* The end of main_loop. *)

TestMail ==
  /\ release /\ looping = "away" /\ IsFree
  /\ looping' = "found"
  /\ UNCHANGED <<heldKey, mail, release, lastKey, tool, timedOut, reports>>

WriteRelease ==
  /\ looping # "away" /\ looping' = "away"
  /\ mail' = Released /\ release' = FALSE
  /\ UNCHANGED <<heldKey, lastKey, tool, timedOut, reports>>

\* 100 ms after the release the main loop gives it up.
ReleaseTimesOut ==
  /\ release /\ looping = "away"
  /\ release' = FALSE /\ timedOut' = TRUE
  /\ UNCHANGED <<heldKey, mail, lastKey, looping, tool, reports>>

-----------------------------------------------------------------------------
(* The tool, over USB. *)

ToolRead ==
  /\ ~IsFree /\ ~tool.read
  /\ tool' = [key |-> mail.key, read |-> TRUE]
  /\ UNCHANGED <<heldKey, mail, release, lastKey, looping, timedOut, reports>>

ToolClear ==
  /\ tool.read
  /\ mail' = Free /\ tool' = [tool EXCEPT !.read = FALSE]
  /\ UNCHANGED <<heldKey, release, lastKey, looping, timedOut, reports>>

-----------------------------------------------------------------------------
MailNext ==
  \/ \E k \in KeysOrNone : ReportToPcTool(k)
  \/ TestMail \/ WriteRelease \/ ReleaseTimesOut
  \/ ToolRead \/ ToolClear

\* The main loop goes on and a tool that is there reads and clears.  That a
\* release finds the registers free in time is not assumed.
MailFair ==
  /\ WF_mailVars(TestMail) /\ WF_mailVars(WriteRelease)
  /\ WF_mailVars(ToolRead) /\ WF_mailVars(ToolClear)

MailSpec == MailInit /\ [][MailNext]_mailVars
MailFairSpec == MailSpec /\ MailFair
-----------------------------------------------------------------------------
(* A key that is up is up for the tool in the end, whatever it missed of the  *)
(* presses and however its clearing races the main loop and the interrupt;    *)
(* only a release the time-out gave up may leave the key down.                *)
ReleaseReachesTool ==
  <>[](heldKey = NoMailKey /\ ~timedOut => tool.key = NoMailKey)
=============================================================================
