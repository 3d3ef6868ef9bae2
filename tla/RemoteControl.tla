--------------------------- MODULE RemoteControl ---------------------------
(* The application of the remote control (vendor/8267_ble_remote): its main     *)
(* loop, key and voice handling, the key that wakes it from deep sleep, power   *)
(* management and the callbacks of the BLE stack.                               *)
(*                                                                              *)
(* The main loop is blt_brx_proc (which runs the callbacks), proc_keyboard, the *)
(* LED, blt_pm_proc and blt_brx_sleep; the user presses and releases keys at    *)
(* any moment between these steps.  A timer is a member of "due" once its time  *)
(* is over.  Deep sleep loses the RAM: waking up is a reset, with one analog    *)
(* register that survives.                                                      *)
EXTENDS Led, FiniteSets

CONSTANTS
  KbdKeys, ConsKeys, VoiceKeys,  \* keys of the standard report, the consumer report, VK_M
  NoKey,
  OtaShines,                     \* how often the LED shines for an update (200)
  MaxConns, MaxPresses           \* bounds: connections, key presses

Keys == KbdKeys \cup ConsKeys \cup VoiceKeys
Timers == {"adv60s", "idle60s", "voice1s", "conn25ms", "manual150ms", "led"}

ASSUME RemoteAssumption ==
  /\ NoKey \notin Keys
  /\ KbdKeys \cap ConsKeys = {} /\ (KbdKeys \cup ConsKeys) \cap VoiceKeys = {}
  /\ OtaShines \in 1 .. 254 /\ MaxConns \in Nat /\ MaxPresses \in Nat

VARIABLES
  pc,        \* step of the main loop, or "deep" in deep sleep
  held,      \* the key the user holds
  seen,      \* the key the last scan of the matrix found
  ui,        \* the state of the key and voice handling, see UiInit
  led,       \* device_led
  blt,       \* blt_state: "adv" or "conn"
  sendTerminate,  \* sendTerminate_before_enterDeep
  suspend,   \* the last argument of blt_enable_suspend
  ota,       \* ota_is_working
  deepReg,   \* DEEP_ANA_REG0: "none", "conn" or "adv"
  wake,      \* a key press has ended the deep sleep
  due,       \* the timers whose time is over
  host,      \* the last report of each kind the host has got in this connection
  budget

key  == <<held, seen>>
vars == <<pc, key, ui, led, blt, sendTerminate, suspend, ota, deepReg, wake, due, host, budget>>

\* ui_mic_enable, key_voice_press, key_not_released, key_type and the state and
\* the cache of the deepback key.
UiInit == [mic |-> FALSE, voicePress |-> FALSE, notReleased |-> FALSE,
           type |-> "cons", deepback |-> "idle", cache |-> NoKey]
NoReport == [kbd |-> NoKey, cons |-> NoKey]

AudioOn  == [on |-> TRUE, off |-> FALSE, repeatCount |-> LongOnOff, priority |-> 2]
AudioOff == [on |-> FALSE, off |-> TRUE, repeatCount |-> LongOnOff, priority |-> 2]
ShineOta == [on |-> TRUE, off |-> TRUE, repeatCount |-> OtaShines, priority |-> 8]

Init ==
  /\ pc = "brx" /\ held = NoKey /\ seen = NoKey
  /\ ui = UiInit /\ led = LedOff /\ blt = "adv" /\ sendTerminate = 0
  /\ suspend = "suspend" /\ ota = FALSE /\ deepReg = "none" /\ wake = FALSE
  /\ due = {} /\ host = NoReport
  /\ budget = [conns |-> MaxConns, presses |-> MaxPresses]

-----------------------------------------------------------------------------
(* The user and time. *)

Press(k) ==
  /\ held = NoKey /\ budget.presses > 0
  /\ held' = k /\ budget' = [budget EXCEPT !.presses = @ - 1]
  /\ wake' = (wake \/ pc = "deep")
  /\ UNCHANGED <<pc, seen, ui, led, blt, sendTerminate, suspend, ota, deepReg, due, host>>

Release ==
  /\ held # NoKey /\ held' = NoKey
  /\ UNCHANGED <<pc, seen, ui, led, blt, sendTerminate, suspend, ota, deepReg, wake, due, host, budget>>

\* Each timer is restarted when the code begins to look at it, so only then does
\* it matter whether its time is over.  The 60 seconds without a user event start
\* no earlier than the three short times (lines 212 and 294 restart them all), which
\* the main loop serves long before them.
LookedAt(t) ==
  CASE t = "adv60s" -> blt = "adv"
    [] t = "idle60s" -> blt = "conn" /\ ~ui.voicePress /\ ui.deepback = "idle"
    [] t = "voice1s" -> ui.voicePress
    [] t = "conn25ms" -> ui.deepback = "cache" /\ blt = "conn"
    [] t = "manual150ms" -> ui.deepback = "waitRelease"
    [] t = "led" -> LedBusy(led)

TimePasses(t) ==
  /\ pc # "deep" /\ LookedAt(t) /\ t \notin due /\ due' = due \cup {t}
  /\ UNCHANGED <<pc, key, ui, led, blt, sendTerminate, suspend, ota, deepReg, wake, host, budget>>

-----------------------------------------------------------------------------
(* blt_brx_proc and the callbacks of the BLE stack. *)

BrxNothing ==
  /\ pc = "brx" /\ pc' = "key"
  /\ UNCHANGED <<key, ui, led, blt, sendTerminate, suspend, ota, deepReg, wake, due, host, budget>>

\* task_connect
TaskConnect ==
  /\ pc = "brx" /\ pc' = "key" /\ blt = "adv"
  /\ budget.conns > 0 /\ budget' = [budget EXCEPT !.conns = @ - 1]
  /\ blt' = "conn" /\ due' = due \ {"idle60s", "conn25ms"}
  /\ UNCHANGED <<key, ui, led, sendTerminate, suspend, ota, deepReg, wake, host>>

MicOff(u) == [u EXCEPT !.mic = FALSE]
LedFor(u, v) ==   \* the LED setup in ui_enable_mic when the step turns the mic on or off
  IF u.mic = v.mic THEN led ELSE LedSetup(led, IF v.mic THEN AudioOn ELSE AudioOff)

TerminateMic(u) == MicOff(u)

\* ble_remote_terminate, for each of the reasons: the host ended the connection,
\* it timed out, or the terminate of this side was acknowledged or timed out.
BleRemoteTerminate ==
  /\ pc = "brx" /\ pc' = "key" /\ blt = "conn"
  /\ blt' = "adv" /\ host' = NoReport
  /\ sendTerminate' = IF sendTerminate = 1 THEN 2 ELSE sendTerminate
  /\ ui' = TerminateMic(ui) /\ led' = LedFor(ui, ui')
  /\ due' = due \ {"adv60s"}
  /\ UNCHANGED <<key, suspend, ota, deepReg, wake, budget>>

\* entry_ota_mode
EntryOtaMode ==
  /\ pc = "brx" /\ pc' = "key" /\ blt = "conn" /\ ~ota
  /\ ota' = TRUE /\ led' = LedSetup(led, ShineOta) /\ due' = due \ {"led"}
  /\ UNCHANGED <<key, ui, blt, sendTerminate, suspend, deepReg, wake, host, budget>>

\* deep_wakeup_proc caches the key that is held now when the register says that a
\* deep sleep had ended a connection.
DeepWakeupProc(register) ==
  IF register = "conn" /\ held # NoKey
  THEN /\ seen' = held
       /\ ui' = [UiInit EXCEPT !.notReleased = TRUE, !.deepback = "cache", !.cache = held]
  ELSE seen' = NoKey /\ ui' = UiInit

\* main from reset.
StartUp(register) ==
  /\ pc' = "brx" /\ wake' = FALSE
  /\ DeepWakeupProc(register)
  /\ led' = LedOff /\ blt' = "adv" /\ sendTerminate' = 0 /\ suspend' = "suspend"
  /\ ota' = FALSE /\ due' = {} /\ host' = NoReport
  /\ deepReg' = register
  /\ UNCHANGED <<held, budget>>

\* The OTA library ends every update, failed or not, with a reboot, which may or may
\* not clear the analog register.
OtaReboot ==
  /\ ota /\ pc = "brx"
  /\ StartUp("none") \/ StartUp(deepReg)

-----------------------------------------------------------------------------
(* proc_keyboard: a step on s = [u, h, d], the key handling, the host's view    *)
(* and the timers.                                                              *)

Connected == blt = "conn"
\* blt_push_notify: without a connection the report is dropped.
Report(s, kind, k) == IF Connected THEN [s EXCEPT !.h[kind] = k] ELSE s

PressCons(s, k) ==
  Report([s EXCEPT !.u.notReleased = TRUE, !.u.type = "cons"], "cons", k)
PressKbd(s, k) ==
  Report([s EXCEPT !.u.notReleased = TRUE, !.u.type = "kbd"], "kbd", k)
\* VK_M turns the microphone off at once, or on when it is held for a second.
PressVoice(s) ==
  IF s.u.mic THEN [s EXCEPT !.u.notReleased = TRUE, !.u.mic = FALSE]
  ELSE [s EXCEPT !.u.notReleased = TRUE, !.u.voicePress = TRUE, !.d = @ \ {"voice1s"}]
ReleaseKey(s) == Report([s EXCEPT !.u.notReleased = FALSE], s.u.type, NoKey)

\* key_change_proc
KeyChange(s0, k) ==
  LET s == [s0 EXCEPT !.u.voicePress = FALSE, !.d = @ \ {"idle60s"}] IN
  CASE k \in ConsKeys -> PressCons(s, k)
    [] k \in VoiceKeys -> PressVoice(s)
    [] k \in KbdKeys -> PressKbd(s, k)
    [] OTHER -> ReleaseKey(s)

\* deepback_pre_proc delivers the cached key when the connection is 25 ms old.
CacheReady(s, changed) ==
  ~changed /\ s.u.deepback = "cache" /\ Connected /\ "conn25ms" \in s.d
NeedsManualRelease(s) == ~(s.u.notReleased \/ s.u.cache \in VoiceKeys)
DeepbackPre(s) ==
  IF NeedsManualRelease(s)
  THEN [s EXCEPT !.u.deepback = "waitRelease", !.d = @ \ {"manual150ms"}]
  ELSE [s EXCEPT !.u.deepback = "idle"]

\* voice_press_proc after one second of VK_M
VoicePress(s) ==
  IF s.u.voicePress /\ ~s.u.mic /\ "voice1s" \in s.d
  THEN [s EXCEPT !.u.voicePress = FALSE, !.u.mic = TRUE] ELSE s

PostWithoutReport(s) ==
  IF s.u.deepback = "waitRelease" /\ "manual150ms" \in s.d
  THEN [s EXCEPT !.u.notReleased = FALSE, !.u.deepback = "idle"] ELSE s
\* deepback_post_proc: the release goes to the keyboard report whatever the key was.
DeepbackPost(s) ==
  IF s.u.deepback = "waitRelease" /\ "manual150ms" \in s.d
  THEN Report([s EXCEPT !.u.notReleased = FALSE, !.u.deepback = "idle"], "kbd", NoKey)
  ELSE s

ProcKeyboard ==
  LET s0 == [u |-> ui, h |-> host, d |-> due]
      changed == held # seen
      s1 == IF CacheReady(s0, changed) THEN KeyChange(DeepbackPre(s0), ui.cache)
            ELSE IF changed THEN KeyChange(s0, held) ELSE s0
      s3 == DeepbackPost(VoicePress(s1))
  IN /\ pc = "key" /\ pc' = "pm" /\ seen' = held
     /\ ui' = s3.u /\ host' = s3.h /\ due' = s3.d /\ led' = LedFor(ui, s3.u)
     /\ UNCHANGED <<held, blt, sendTerminate, suspend, ota, deepReg, wake, budget>>

-----------------------------------------------------------------------------
(* device_led_process and blt_pm_proc. *)

UserTask(l) == ui.notReleased \/ LedBusy(l)

AdvSleepNever(d) == FALSE
AdvSleep(d) == blt = "adv" /\ "adv60s" \in d
IdleInConn(l, d) == blt = "conn" /\ "idle60s" \in d /\ ~UserTask(l)

\* Lines 437-478: the argument of blt_enable_suspend, the terminate flag and the
\* register that tells the start-up which deep sleep this was.
PmFlag(l) == IF sendTerminate = 1 /\ UserTask(l) THEN 0 ELSE sendTerminate
PmSleep(l, d) ==
  /\ suspend' = IF AdvSleep(d) THEN "deepAdv"
                ELSE IF sendTerminate = 2 THEN "deepConn" ELSE "suspend"
  /\ deepReg' = IF AdvSleep(d) THEN "adv"
                ELSE IF sendTerminate = 2 THEN "conn" ELSE deepReg
  /\ sendTerminate' = IF IdleInConn(l, d) THEN 1 ELSE PmFlag(l)

KeepAwakeForOta == ota
KeepAwake == ui.mic \/ ota

BltPmProc ==
  LET over == "led" \in due
      l == LedProcess(led, over)
      d == IF LedBusy(led) /\ over THEN due \ {"led"} ELSE due
  IN /\ pc = "pm" /\ pc' = "sleep"
     /\ led' = l /\ due' = d
     /\ IF KeepAwake
        THEN suspend' = "disable" /\ UNCHANGED <<deepReg, sendTerminate>>
        ELSE PmSleep(l, d)
     /\ UNCHANGED <<key, ui, blt, ota, wake, host, budget>>

\* blt_brx_sleep (external): deep sleep at once when it is enabled.  A key that is
\* held wakes the chip up again.
BltBrxSleep ==
  /\ pc = "sleep"
  /\ IF suspend \in {"deepConn", "deepAdv"}
     THEN pc' = "deep" /\ wake' = (held # NoKey)
     ELSE pc' = "brx" /\ UNCHANGED wake
  /\ UNCHANGED <<key, ui, led, blt, sendTerminate, suspend, ota, deepReg, due, host, budget>>

WakeUp == pc = "deep" /\ wake /\ StartUp(deepReg)

-----------------------------------------------------------------------------
User == Release \/ \E k \in Keys : Press(k)
Callback == TaskConnect \/ BleRemoteTerminate \/ EntryOtaMode \/ OtaReboot
MainLoop == BrxNothing \/ Callback \/ ProcKeyboard \/ BltPmProc \/ BltBrxSleep \/ WakeUp

Next == User \/ MainLoop \/ \E t \in Timers : TimePasses(t)

\* The main loop never stops, time goes on, an update ends, the user lets go of
\* every key, and a terminate that was sent ends the connection (acknowledged or
\* after two seconds).
Fairness ==
  /\ WF_vars(MainLoop) /\ WF_vars(Release)
  /\ \A t \in Timers : WF_vars(TimePasses(t))
  /\ SF_vars(OtaReboot) /\ SF_vars(BleRemoteTerminate /\ sendTerminate = 1)

Safety == Init /\ [][Next]_vars
Spec == Safety /\ Fairness

-----------------------------------------------------------------------------
(* Properties *)

\* Type invariant.
TypeOK ==
  /\ pc \in {"brx", "key", "pm", "sleep", "deep"}
  /\ held \in Keys \cup {NoKey} /\ seen \in Keys \cup {NoKey}
  /\ ui \in [mic : BOOLEAN, voicePress : BOOLEAN, notReleased : BOOLEAN, type : {"kbd", "cons"},
             deepback : {"idle", "cache", "waitRelease"}, cache : Keys \cup {NoKey}]
  /\ led \in [isOn : BOOLEAN, repeatCount : 0 .. 254, priority : {0, 2, 8}, on : BOOLEAN, off : BOOLEAN]
  /\ blt \in {"adv", "conn"} /\ sendTerminate \in 0 .. 2
  /\ suspend \in {"suspend", "disable", "deepConn", "deepAdv"}
  /\ ota \in BOOLEAN /\ deepReg \in {"none", "conn", "adv"} /\ wake \in BOOLEAN
  /\ due \subseteq Timers
  /\ host \in [kbd : Keys \cup {NoKey}, cons : Keys \cup {NoKey}]
  /\ budget \in [conns : 0 .. MaxConns, presses : 0 .. MaxPresses]

\* The chip goes into deep sleep only with the connection closed, the microphone
\* off and no update running.
DeepSleepLeavesNothingOpen ==
  [][pc # "deep" /\ pc' = "deep" => blt = "adv" /\ ~ui.mic /\ ~ota]_vars

\* When the remote takes all keys for released and has no cached key to deliver, and
\* the key pressed last was of the standard report, none is pressed there at the host:
\* neither a key that woke the remote and was let go before the connection was up,
\* nor one pressed in the 150 ms before its manual release.  (After a roll from a
\* standard to a consumer key within one scan only the consumer key is released.)
NothingPending == ~ui.notReleased /\ ui.deepback = "idle"
KbdKeyIsReleased == NothingPending /\ ui.type = "kbd" => host.kbd = NoKey

\* A remote that nobody uses and that has finished what it was doing goes to sleep
\* for good, whether the host keeps the connection or not.
Quiet == held = NoKey /\ ~ui.mic /\ ~ui.notReleased /\ ~ota
QuietRemoteSleeps == <>[]Quiet => <>[](pc = "deep")

-----------------------------------------------------------------------------
(* What comments of the code claim. *)

\* Lines 261-270: a cached key that was released in the meantime "need[s] manual
\* release" and gets it: no key of the consumer report is left pressed either.
ConsKeyIsReleased == NothingPending => host.cons = NoKey

\* Line 418: the microphone is turned on by a "long press voice 1 second".
MicNeedsLongPress == [][~ui.mic /\ ui'.mic => seen' \in VoiceKeys]_vars
=============================================================================
