------------------------ MODULE RemoteControlProofs ------------------------
(***************************************************************************)
(* Proofs about RemoteControl, for every set of keys of each kind and any    *)
(* number of connections and key presses, under RemoteAssumption alone.      *)
(* They concern Safety, the specification without its fairness.              *)
(***************************************************************************)
EXTENDS RemoteControl, TLAPS

Uis    == [mic : BOOLEAN, voicePress : BOOLEAN, notReleased : BOOLEAN, type : {"kbd", "cons"},
           deepback : {"idle", "cache", "waitRelease"}, cache : Keys \cup {NoKey}]
Hosts  == [kbd : Keys \cup {NoKey}, cons : Keys \cup {NoKey}]
\* What the key handling works on.
States == [u : Uis, h : Hosts, d : SUBSET Timers]

-----------------------------------------------------------------------------
(* The invariants the key handling keeps: they speak of one of its states s.    *)

\* The 60 seconds without a user event are over only with no short time running.
IdleIsLongest(s) ==
  "idle60s" \in s.d => ~s.u.voicePress /\ s.u.deepback = "idle"
\* Without a connection no report has reached the host.
NothingSentAlone(s) == ~Connected => s.h = NoReport
\* A standard key taken for released is not pressed at the host either.
KbdReleased(s) == s.u.type = "kbd" /\ ~s.u.notReleased => s.h.kbd = NoKey

KeyInv(s) == IdleIsLongest(s) /\ NothingSentAlone(s) /\ KbdReleased(s)

Handling == [u |-> ui, h |-> host, d |-> due]

-----------------------------------------------------------------------------
(* What each part of the key handling does to its state. *)

(* A report changes only what the host has got, and that only in a connection. *)
LEMMA ReportEffect ==
  ASSUME NEW s \in States, NEW kind \in {"kbd", "cons"}, NEW k \in Keys \cup {NoKey}
  PROVE  /\ Report(s, kind, k) \in States
         /\ Report(s, kind, k).u = s.u /\ Report(s, kind, k).d = s.d
         /\ ~Connected => Report(s, kind, k).h = s.h
         /\ Connected => Report(s, kind, k).h[kind] = k
  <1>1. CASE Connected /\ kind = "kbd"
    BY <1>1 DEF Report, States, Hosts
  <1>2. CASE Connected /\ kind = "cons"
    BY <1>2 DEF Report, States, Hosts
  <1>3. CASE ~Connected
    BY <1>3 DEF Report
  <1>4. QED
    BY <1>1, <1>2, <1>3

LEMMA FreshState ==
  ASSUME NEW s0 \in States
  PROVE  LET s == [s0 EXCEPT !.u.voicePress = FALSE, !.d = @ \ {"idle60s"}]
         IN  /\ s \in States /\ s.h = s0.h /\ "idle60s" \notin s.d
             /\ s.u.voicePress = FALSE /\ s.u.mic = s0.u.mic
             /\ s.u.deepback = s0.u.deepback
  BY DEF States, Uis

\* What a key change leaves behind, from s to t.
Changed(s, t) ==
  /\ t \in States /\ "idle60s" \notin t.d /\ t.u.deepback = s.u.deepback
  /\ t.u.mic => s.u.mic
  /\ t.u.voicePress => t.u.notReleased /\ "voice1s" \notin t.d
  /\ ~Connected => t.h = s.h
  /\ NothingSentAlone(s) => KbdReleased(t)

LEMMA KeyChangeEffect ==
  ASSUME NEW s0 \in States, NEW k \in Keys \cup {NoKey}
  PROVE  Changed(s0, KeyChange(s0, k))
  <1> DEFINE s == [s0 EXCEPT !.u.voicePress = FALSE, !.d = @ \ {"idle60s"}]
  <1>1. /\ s \in States /\ s.h = s0.h /\ "idle60s" \notin s.d
        /\ s.u.voicePress = FALSE /\ s.u.mic = s0.u.mic
        /\ s.u.deepback = s0.u.deepback
    BY FreshState
  <1>2. KeyChange(s0, k) = CASE k \in ConsKeys -> PressCons(s, k)
                             [] k \in VoiceKeys -> PressVoice(s)
                             [] k \in KbdKeys -> PressKbd(s, k)
                             [] OTHER -> ReleaseKey(s)
    BY DEF KeyChange
  <1> HIDE DEF s
  <1>3. CASE k \in ConsKeys
    <2> DEFINE r == [s EXCEPT !.u.notReleased = TRUE, !.u.type = "cons"]
    <2>1. /\ r \in States /\ r.h = s.h /\ r.d = s.d /\ r.u.voicePress = FALSE
          /\ r.u.mic = s.u.mic /\ r.u.deepback = s.u.deepback /\ r.u.type = "cons"
      BY <1>1 DEF States, Uis
    <2>2. KeyChange(s0, k) = Report(r, "cons", k)
      BY <1>2, <1>3, RemoteAssumption DEF PressCons
    <2> HIDE DEF r
    <2>3. QED
      BY <1>1, <2>1, <2>2, ReportEffect DEF Changed, KbdReleased
  <1>4. CASE k \in KbdKeys
    <2> DEFINE r == [s EXCEPT !.u.notReleased = TRUE, !.u.type = "kbd"]
    <2>1. /\ r \in States /\ r.h = s.h /\ r.d = s.d /\ r.u.voicePress = FALSE
          /\ r.u.mic = s.u.mic /\ r.u.deepback = s.u.deepback /\ r.u.notReleased = TRUE
      BY <1>1 DEF States, Uis
    <2>2. KeyChange(s0, k) = Report(r, "kbd", k)
      BY <1>2, <1>4, RemoteAssumption DEF PressKbd
    <2> HIDE DEF r
    <2>3. QED
      BY <1>1, <2>1, <2>2, ReportEffect DEF Changed, KbdReleased
  <1>5. CASE k \in VoiceKeys
    <2>1. KeyChange(s0, k) = PressVoice(s)
      BY <1>2, <1>5, RemoteAssumption
    <2> DEFINE r == PressVoice(s)
    <2>2. /\ r \in States /\ r.h = s.h /\ r.d \subseteq s.d /\ r.u.notReleased = TRUE
          /\ r.u.deepback = s.u.deepback /\ (r.u.mic => s.u.mic)
          /\ r.u.voicePress => "voice1s" \notin r.d
      <3>1. CASE s.u.mic
        BY <1>1, <3>1 DEF PressVoice, States, Uis
      <3>2. CASE ~s.u.mic
        BY <1>1, <3>2 DEF PressVoice, States, Uis
      <3>3. QED
        BY <3>1, <3>2
    <2> HIDE DEF r
    <2>3. QED
      BY <1>1, <2>1, <2>2 DEF Changed, KbdReleased, r
  <1>6. CASE k = NoKey
    <2> DEFINE r == [s EXCEPT !.u.notReleased = FALSE]
    <2>1. /\ r \in States /\ r.h = s.h /\ r.d = s.d /\ r.u.voicePress = FALSE
          /\ r.u.mic = s.u.mic /\ r.u.deepback = s.u.deepback /\ r.u.type = s.u.type
          /\ s.u.type \in {"kbd", "cons"}
      BY <1>1 DEF States, Uis
    <2>2. KeyChange(s0, k) = Report(r, s.u.type, NoKey)
      BY <1>2, <1>6, RemoteAssumption DEF ReleaseKey, Keys
    <2>3. ~Connected /\ NothingSentAlone(s0) => s.h.kbd = NoKey
      BY <1>1 DEF NothingSentAlone, NoReport
    <2> HIDE DEF r
    <2>4. Report(r, s.u.type, NoKey).u.type = "kbd" /\ NothingSentAlone(s0)
            => Report(r, s.u.type, NoKey).h.kbd = NoKey
      BY <2>1, <2>3, ReportEffect
    <2>5. QED
      BY <1>1, <2>1, <2>2, <2>4, ReportEffect DEF Changed, KbdReleased
  <1>7. QED
    BY <1>3, <1>4, <1>5, <1>6 DEF Keys

LEMMA DeepbackPreEffect ==
  ASSUME NEW s \in States
  PROVE  LET t == DeepbackPre(s) IN
         t \in States /\ t.h = s.h /\ t.u.mic = s.u.mic
  <1>1. CASE NeedsManualRelease(s)
    BY <1>1 DEF DeepbackPre, States, Uis
  <1>2. CASE ~NeedsManualRelease(s)
    BY <1>2 DEF DeepbackPre, States, Uis
  <1>3. QED
    BY <1>1, <1>2

LEMMA VoicePressEffect ==
  ASSUME NEW s \in States
  PROVE  LET t == VoicePress(s) IN
         /\ t \in States /\ t.h = s.h /\ t.d = s.d /\ t.u.notReleased = s.u.notReleased
         /\ t.u.type = s.u.type /\ t.u.deepback = s.u.deepback
         /\ t.u.voicePress => s.u.voicePress
         /\ t.u.mic => s.u.mic \/ (s.u.voicePress /\ "voice1s" \in s.d)
  <1>1. CASE s.u.voicePress /\ ~s.u.mic /\ "voice1s" \in s.d
    BY <1>1 DEF VoicePress, States, Uis
  <1>2. CASE ~(s.u.voicePress /\ ~s.u.mic /\ "voice1s" \in s.d)
    BY <1>2 DEF VoicePress
  <1>3. QED
    BY <1>1, <1>2

LEMMA DeepbackPostEffect ==
  ASSUME NEW s \in States
  PROVE  LET t == DeepbackPost(s) IN
         /\ t \in States /\ t.d = s.d /\ t.u.mic = s.u.mic /\ t.u.voicePress = s.u.voicePress
         /\ KeyInv(s) => KeyInv(t)
         /\ s.u.deepback = "idle" => t = s
  <1>1. CASE s.u.deepback = "waitRelease" /\ "manual150ms" \in s.d
    <2> DEFINE r == [s EXCEPT !.u.notReleased = FALSE, !.u.deepback = "idle"]
    <2>1. /\ r \in States /\ r.h = s.h /\ r.d = s.d /\ r.u.mic = s.u.mic
          /\ r.u.voicePress = s.u.voicePress /\ r.u.deepback = "idle"
      BY DEF States, Uis
    <2>2. DeepbackPost(s) = Report(r, "kbd", NoKey)
      BY <1>1 DEF DeepbackPost
    <2> HIDE DEF r
    <2>3. NothingSentAlone(s) /\ ~Connected => s.h.kbd = NoKey
      BY DEF NothingSentAlone, NoReport
    <2>4. QED
      BY <1>1, <2>1, <2>2, <2>3, ReportEffect
      DEF KeyInv, IdleIsLongest, NothingSentAlone, KbdReleased
  <1>2. CASE ~(s.u.deepback = "waitRelease" /\ "manual150ms" \in s.d)
    BY <1>2 DEF DeepbackPost
  <1>3. QED
    BY <1>1, <1>2

\* proc_keyboard as far as the release of a cached key, and as a whole.
Scanned ==
  IF CacheReady(Handling, held # seen) THEN KeyChange(DeepbackPre(Handling), ui.cache)
  ELSE IF held # seen THEN KeyChange(Handling, held) ELSE Handling
Handled == DeepbackPost(VoicePress(Scanned))

LEMMA ProcKeyboardIs ==
  ProcKeyboard =>
    /\ pc = "key" /\ pc' = "pm" /\ seen' = held
    /\ ui' = Handled.u /\ host' = Handled.h /\ due' = Handled.d /\ led' = LedFor(ui, Handled.u)
    /\ UNCHANGED <<held, blt, sendTerminate, suspend, ota, deepReg, wake, budget>>
  BY DEF ProcKeyboard, Handled, Scanned, Handling

(* One pass of the key handling keeps the types and its invariants. *)
LEMMA HandledEffect ==
  ASSUME Handling \in States, held \in Keys \cup {NoKey}, KeyInv(Handling)
  PROVE  Handled \in States /\ KeyInv(Handled)
  <1>1. Handling.h = host /\ Handling.u = ui /\ ui.cache \in Keys \cup {NoKey}
    BY DEF Handling, States, Uis
  <1>2. Scanned \in States /\ KeyInv(Scanned)
    <2>1. CASE CacheReady(Handling, held # seen)
      <3>1. DeepbackPre(Handling) \in States /\ DeepbackPre(Handling).h = Handling.h
        BY DeepbackPreEffect
      <3>2. Changed(DeepbackPre(Handling), Scanned)
        BY <1>1, <2>1, <3>1, KeyChangeEffect DEF Scanned
      <3>3. QED
        BY <3>1, <3>2 DEF Changed, KeyInv, IdleIsLongest, NothingSentAlone
    <2>2. CASE ~CacheReady(Handling, held # seen) /\ held # seen
      <3>1. Changed(Handling, Scanned)
        BY <2>2, KeyChangeEffect DEF Scanned
      <3>2. QED
        BY <3>1 DEF Changed, KeyInv, IdleIsLongest, NothingSentAlone
    <2>3. CASE ~CacheReady(Handling, held # seen) /\ held = seen
      BY <2>3 DEF Scanned
    <2>4. QED
      BY <2>1, <2>2, <2>3
  <1>3. VoicePress(Scanned) \in States /\ KeyInv(VoicePress(Scanned))
    BY <1>2, VoicePressEffect DEF KeyInv, IdleIsLongest, NothingSentAlone, KbdReleased
  <1>4. QED
    BY <1>3, DeepbackPostEffect DEF Handled

(* With the microphone off, VK_M not waiting for its second and no cached key, a *)
(* pass leaves the microphone off, and VK_M waits only if it has just been       *)
(* pressed.                                                                      *)
LEMMA QuietPass ==
  ASSUME Handling \in States, held \in Keys \cup {NoKey},
         ui.deepback = "idle"
  PROVE  /\ Handled.u.deepback = "idle"
         /\ ~ui.mic /\ ~ui.voicePress =>
              ~Handled.u.mic /\ (Handled.u.voicePress => Handled.u.notReleased)
  <1>1. Handling.u = ui /\ Handling \in States
    BY DEF Handling
  <1>2. ~CacheReady(Handling, held # seen)
    BY <1>1 DEF CacheReady
  <1>3. /\ Scanned \in States /\ Scanned.u.deepback = "idle"
        /\ ~ui.mic /\ ~ui.voicePress =>
             /\ ~Scanned.u.mic
             /\ Scanned.u.voicePress => Scanned.u.notReleased /\ "voice1s" \notin Scanned.d
    <2>1. CASE held # seen
      <3>1. Changed(Handling, Scanned)
        BY <1>2, <2>1, KeyChangeEffect DEF Scanned
      <3>2. QED
        BY <1>1, <3>1 DEF Changed
    <2>2. CASE held = seen
      BY <1>1, <1>2, <2>2 DEF Scanned
    <2>3. QED
      BY <2>1, <2>2
  <1>4. Handled = VoicePress(Scanned)
    BY <1>3, VoicePressEffect, DeepbackPostEffect DEF Handled
  <1>5. QED
    BY <1>3, <1>4, VoicePressEffect

-----------------------------------------------------------------------------
(* Types. *)

Leds == [isOn : BOOLEAN, repeatCount : 0 .. 254, priority : {0, 2, 8}, on : BOOLEAN, off : BOOLEAN]

LEMMA LedSetupType ==
  ASSUME NEW l \in Leds, NEW cfg \in {AudioOn, AudioOff, ShineOta}
  PROVE  LedSetup(l, cfg) \in Leds
  <1>1. /\ cfg.on \in BOOLEAN /\ cfg.off \in BOOLEAN /\ cfg.priority \in {0, 2, 8}
        /\ cfg.repeatCount \in 1 .. 254 \/ cfg.repeatCount = LongOnOff
    <2>1. CASE cfg = AudioOn
      BY <2>1 DEF AudioOn
    <2>2. CASE cfg = AudioOff
      BY <2>2 DEF AudioOff
    <2>3. CASE cfg = ShineOta
      BY <2>3, RemoteAssumption DEF ShineOta
    <2>4. QED
      BY <2>1, <2>2, <2>3
  <1>2. CASE LedRefuses(l, cfg)
    BY <1>2 DEF LedSetup
  <1>3. CASE ~LedRefuses(l, cfg)
    <2> DEFINE n == IF cfg.repeatCount = LongOnOff THEN 0
                    ELSE IF cfg.on /\ cfg.off THEN cfg.repeatCount ELSE 1
    <2>1. n \in 0 .. 254
      BY <1>1
    <2>2. LedSetup(l, cfg) = [isOn |-> cfg.on, priority |-> cfg.priority, on |-> cfg.on,
                              off |-> cfg.off, repeatCount |-> n]
      BY <1>3 DEF LedSetup
    <2> HIDE DEF n
    <2>3. QED
      BY <1>1, <2>1, <2>2 DEF Leds
  <1>4. QED
    BY <1>2, <1>3

LEMMA LedProcessType ==
  ASSUME NEW l \in Leds, NEW over \in BOOLEAN
  PROVE  LedProcess(l, over) \in Leds
  <1>1. CASE LedBusy(l) /\ over /\ l.isOn
    <2> DEFINE n == IF l.off THEN l.repeatCount ELSE 0
    <2>1. n \in 0 .. 254
      BY DEF Leds
    <2>2. LedProcess(l, over) = [l EXCEPT !.isOn = FALSE, !.repeatCount = n]
      BY <1>1 DEF LedProcess, LedProc
    <2> HIDE DEF n
    <2>3. QED
      BY <2>1, <2>2 DEF Leds
  <1>2. CASE LedBusy(l) /\ over /\ ~l.isOn
    <2> DEFINE n == l.repeatCount - 1
               b == l.repeatCount > 1
    <2>1. n \in 0 .. 254
      BY <1>2 DEF Leds, LedBusy
    <2>2. b \in BOOLEAN
      OBVIOUS
    <2>3. LedProcess(l, over) = [l EXCEPT !.repeatCount = n, !.isOn = b]
      BY <1>2 DEF LedProcess, LedProc
    <2> HIDE DEF n, b
    <2>4. QED
      BY <2>1, <2>2, <2>3 DEF Leds
  <1>3. CASE ~LedBusy(l) \/ ~over
    BY <1>3 DEF LedProcess, LedProc
  <1>4. QED
    BY <1>1, <1>2, <1>3

LEMMA LedForType ==
  ASSUME led \in Leds, NEW u, NEW v
  PROVE  LedFor(u, v) \in Leds
  BY LedSetupType DEF LedFor

\* The parts of the type invariant.
WordsOK == /\ pc \in {"brx", "key", "pm", "sleep", "deep"}
           /\ held \in Keys \cup {NoKey} /\ seen \in Keys \cup {NoKey}
           /\ blt \in {"adv", "conn"} /\ due \subseteq Timers
           /\ suspend \in {"suspend", "disable", "deepConn", "deepAdv"}
           /\ deepReg \in {"none", "conn", "adv"}
FlagsOK == ota \in BOOLEAN /\ wake \in BOOLEAN
CountsOK == sendTerminate \in 0 .. 2 /\ budget \in [conns : 0 .. MaxConns, presses : 0 .. MaxPresses]

LEMMA TypeParts == TypeOK <=> WordsOK /\ FlagsOK /\ CountsOK /\ ui \in Uis /\ led \in Leds /\ host \in Hosts
  BY DEF TypeOK, WordsOK, FlagsOK, CountsOK, Uis, Leds, Hosts

LEMMA StartTypes ==
  /\ UiInit \in Uis /\ LedOff \in Leds /\ NoReport \in Hosts
  /\ \A k \in Keys : [UiInit EXCEPT !.notReleased = TRUE, !.deepback = "cache", !.cache = k] \in Uis
  <1>1. UiInit \in Uis
    BY DEF UiInit, Uis
  <1>2. LedOff \in Leds
    BY DEF LedOff, Leds
  <1>3. NoReport \in Hosts
    BY DEF NoReport, Hosts
  <1>4. ASSUME NEW k \in Keys
        PROVE  [UiInit EXCEPT !.notReleased = TRUE, !.deepback = "cache", !.cache = k] \in Uis
    BY DEF UiInit, Uis
  <1>5. QED
    BY <1>1, <1>2, <1>3, <1>4

LEMMA InitInv == Init => TypeOK /\ KeyInv(Handling)
  <1>1. ASSUME Init PROVE TypeOK
    <2>1. WordsOK /\ FlagsOK
      BY <1>1 DEF Init, WordsOK, FlagsOK
    <2>2. CountsOK
      BY <1>1, RemoteAssumption DEF Init, CountsOK
    <2>3. ui \in Uis /\ led \in Leds /\ host \in Hosts
      BY <1>1, StartTypes DEF Init
    <2>4. QED
      BY <2>1, <2>2, <2>3, TypeParts
  <1>2. ASSUME Init PROVE KeyInv(Handling)
    BY <1>2 DEF Init, Handling, KeyInv, IdleIsLongest, NothingSentAlone, KbdReleased, UiInit, NoReport
  <1>3. QED
    BY <1>1, <1>2

LEMMA HandlingType == TypeOK => Handling \in States
  BY TypeParts DEF Handling, States, WordsOK

LEMMA StartUpKeys ==
  ASSUME NEW r, StartUp(r), TypeOK
  PROVE  ui' \in Uis /\ host' = NoReport /\ due' = {} /\ seen' \in Keys \cup {NoKey} /\ led' = LedOff
         /\ KeyInv(Handling)'
  <1>1. host' = NoReport /\ due' = {} /\ led' = LedOff
    BY DEF StartUp
  <1>2. CASE r = "conn" /\ held # NoKey
    <2>1. held \in Keys
      BY <1>2 DEF TypeOK
    <2>2. ui' = [UiInit EXCEPT !.notReleased = TRUE, !.deepback = "cache", !.cache = held]
          /\ seen' = held
      BY <1>2 DEF StartUp, DeepWakeupProc
    <2>3. QED
      BY <1>1, <2>1, <2>2, StartTypes
      DEF KeyInv, IdleIsLongest, NothingSentAlone, KbdReleased, Handling, NoReport
  <1>3. CASE ~(r = "conn" /\ held # NoKey)
    <2>1. ui' = UiInit /\ seen' = NoKey
      BY <1>3 DEF StartUp, DeepWakeupProc
    <2>2. QED
      BY <1>1, <2>1, StartTypes
      DEF KeyInv, IdleIsLongest, NothingSentAlone, KbdReleased, Handling, NoReport
  <1>4. QED
    BY <1>2, <1>3

\* The steps by how they change what the key handling works on.
Resets == OtaReboot \/ WakeUp
Simple == BrxNothing \/ TaskConnect \/ EntryOtaMode \/ BltBrxSleep \/ User
          \/ BleRemoteTerminate \/ BltPmProc \/ \E t \in Timers : TimePasses(t)

LEMMA Steps == [Next]_vars => Resets \/ ProcKeyboard \/ Simple \/ UNCHANGED vars
  BY DEF Next, MainLoop, Callback, Resets, Simple

LEMMA ResetStep ==
  ASSUME TypeOK, Resets
  PROVE  \E r \in {"none", "conn", "adv"} : StartUp(r)
  BY DEF TypeOK, Resets, OtaReboot, WakeUp

(* Every step preserves the types. *)
LEMMA TypeStep == ASSUME TypeOK, KeyInv(Handling), [Next]_vars PROVE TypeOK'
  <1>0. WordsOK /\ FlagsOK /\ CountsOK /\ ui \in Uis /\ led \in Leds /\ host \in Hosts
    BY TypeParts
  <1>1. CASE Resets
    <2>1. PICK r \in {"none", "conn", "adv"} : StartUp(r)
      BY <1>1, ResetStep
    <2>2. WordsOK'
      BY <1>0, <2>1, StartUpKeys DEF WordsOK, StartUp
    <2>3. FlagsOK'
      BY <2>1 DEF FlagsOK, StartUp
    <2>4. CountsOK'
      BY <1>0, <2>1 DEF CountsOK, StartUp
    <2>5. ui' \in Uis /\ led' \in Leds /\ host' \in Hosts
      BY <2>1, StartUpKeys, StartTypes
    <2>6. QED
      BY <2>2, <2>3, <2>4, <2>5
         DEF TypeOK, WordsOK, FlagsOK, CountsOK, Uis, Leds, Hosts
  <1>2. CASE ProcKeyboard
    <2>1. Handled \in States
      BY <1>0, HandlingType, HandledEffect DEF WordsOK
    <2>2. ui' \in Uis /\ host' \in Hosts /\ due' \subseteq Timers /\ led' \in Leds
      BY <1>0, <1>2, <2>1, ProcKeyboardIs, LedForType DEF States
    <2>3. WordsOK'
      BY <1>0, <1>2, <2>2, ProcKeyboardIs DEF WordsOK
    <2>4. FlagsOK' /\ CountsOK'
      BY <1>0, <1>2, ProcKeyboardIs DEF FlagsOK, CountsOK
    <2>5. QED
      BY <2>2, <2>3, <2>4
         DEF TypeOK, WordsOK, FlagsOK, CountsOK, Uis, Leds, Hosts
  <1>3. CASE Simple \/ UNCHANGED vars
    <2>1. WordsOK'
      BY <1>0, <1>3 DEF WordsOK, Simple, BrxNothing, TaskConnect, EntryOtaMode, BltBrxSleep, User,
         Press, Release, BleRemoteTerminate, BltPmProc, PmSleep, TimePasses, vars, key
    <2>2. FlagsOK'
      BY <1>0, <1>3 DEF FlagsOK, Simple, BrxNothing, TaskConnect, EntryOtaMode, BltBrxSleep, User,
         Press, Release, BleRemoteTerminate, BltPmProc, PmSleep, TimePasses, vars, key
    <2>3. CountsOK'
      BY <1>0, <1>3, RemoteAssumption DEF CountsOK, Simple, BrxNothing, TaskConnect, EntryOtaMode,
         BltBrxSleep, User, Press, Release, BleRemoteTerminate, BltPmProc, PmSleep, PmFlag,
         TimePasses, vars, key
    <2>4. ui' \in Uis
      BY <1>0, <1>3 DEF Uis, Simple, BrxNothing, TaskConnect, EntryOtaMode, BltBrxSleep, User,
         Press, Release, BleRemoteTerminate, TerminateMic, MicOff, BltPmProc, TimePasses, vars, key
    <2>5. led' \in Leds
      <3>1. ("led" \in due) \in BOOLEAN
        OBVIOUS
      <3>2. \/ led' = led \/ led' = LedFor(ui, ui') \/ led' = LedSetup(led, ShineOta)
            \/ led' = LedProcess(led, "led" \in due)
        BY <1>3 DEF Simple, BrxNothing, TaskConnect, EntryOtaMode, BltBrxSleep, User,
           Press, Release, BleRemoteTerminate, BltPmProc, TimePasses, vars, key
      <3>3. QED
        BY <1>0, <3>1, <3>2, LedForType, LedSetupType, LedProcessType
    <2>6. host' \in Hosts
      BY <1>0, <1>3, StartTypes DEF Simple, BrxNothing, TaskConnect, EntryOtaMode, BltBrxSleep, User,
         Press, Release, BleRemoteTerminate, BltPmProc, TimePasses, vars, key
    <2>7. QED
      BY <2>1, <2>2, <2>3, <2>4, <2>5, <2>6
         DEF TypeOK, WordsOK, FlagsOK, CountsOK, Uis, Leds, Hosts
  <1>4. QED
    BY <1>1, <1>2, <1>3, Steps

-----------------------------------------------------------------------------
(* The inductive invariant. *)

\* A terminate that was sent waits in its connection for the end of it; unless an
\* update runs, nothing is going on meanwhile that could turn the microphone on.
TerminateSent ==
  sendTerminate = 1 =>
    /\ blt = "conn" /\ pc # "deep" /\ ui.deepback = "idle"
    /\ ~ota => /\ ~ui.mic
               /\ pc # "pm" => ~ui.voicePress
               /\ ui.voicePress => ui.notReleased
\* When the terminate has ended the connection the same pass of the main loop goes
\* to sleep, with the connection closed and the microphone off.
TerminateDone ==
  sendTerminate = 2 /\ ~ota =>
    /\ blt = "adv" /\ ~ui.mic /\ ui.deepback = "idle" /\ pc # "brx"
    /\ pc = "key" => ~ui.voicePress
    /\ pc = "sleep" => suspend \in {"deepConn", "deepAdv"}
AboutToSleep ==
  pc = "sleep" /\ suspend \in {"deepConn", "deepAdv"} => blt = "adv" /\ ~ui.mic /\ ~ota

IInv == TypeOK /\ KeyInv(Handling) /\ TerminateSent /\ TerminateDone /\ AboutToSleep

LEMMA KeyInvStep == ASSUME IInv, [Next]_vars PROVE KeyInv(Handling)'
  <1>0. Handling.u = ui /\ Handling.h = host /\ Handling.d = due
        /\ Handling'.u = ui' /\ Handling'.h = host' /\ Handling'.d = due'
    BY DEF Handling
  <1>1. CASE Resets
    BY <1>1, ResetStep, StartUpKeys DEF IInv
  <1>2. CASE ProcKeyboard
    <2>1. KeyInv(Handled) /\ Handled \in States
      BY HandlingType, HandledEffect DEF IInv, TypeOK
    <2>2. Handling' = Handled
      BY <1>2, <2>1, ProcKeyboardIs DEF Handling, States
    <2>3. blt' = blt
      BY <1>2, ProcKeyboardIs
    <2>4. QED
      BY <2>1, <2>2, <2>3 DEF KeyInv, IdleIsLongest, NothingSentAlone, KbdReleased, Connected
  <1>3. CASE Simple \/ UNCHANGED vars
    <2>1. /\ ui'.voicePress = ui.voicePress /\ ui'.deepback = ui.deepback
          /\ ui'.type = ui.type /\ ui'.notReleased = ui.notReleased
      <3>1. ui' = ui \/ (ui' = [ui EXCEPT !.mic = FALSE] /\ ui \in Uis)
        BY <1>3, TypeParts DEF IInv, Simple, BrxNothing, TaskConnect, EntryOtaMode, BltBrxSleep, User,
           Press, Release, BleRemoteTerminate, TerminateMic, MicOff, BltPmProc, TimePasses, vars, key
      <3>2. QED
        BY <3>1 DEF Uis
    <2>2. \/ host' = host /\ (blt' = blt \/ blt' = "conn")
          \/ host' = NoReport
      BY <1>3 DEF Simple, BrxNothing, TaskConnect, EntryOtaMode, BltBrxSleep, User,
         Press, Release, BleRemoteTerminate, BltPmProc, TimePasses, vars, key
    <2>3. "idle60s" \in due' => "idle60s" \in due \/ (~ui.voicePress /\ ui.deepback = "idle")
      <3>1. CASE \E t \in Timers : TimePasses(t)
        <4>1. PICK t \in Timers : TimePasses(t)
          BY <3>1
        <4>2. t = "idle60s" => ~ui.voicePress /\ ui.deepback = "idle"
          BY <4>1 DEF TimePasses, LookedAt
        <4>3. QED
          BY <4>1, <4>2 DEF TimePasses
      <3>2. CASE ~\E t \in Timers : TimePasses(t)
        <4>1. due' \subseteq due
          BY <1>3, <3>2 DEF Simple, BrxNothing, TaskConnect, EntryOtaMode, BltBrxSleep, User,
             Press, Release, BleRemoteTerminate, BltPmProc, vars, key
        <4>2. QED
          BY <4>1
      <3>3. QED
        BY <3>1, <3>2
    <2>4. IdleIsLongest(Handling)'
      BY <1>0, <2>1, <2>3 DEF IInv, KeyInv, IdleIsLongest
    <2>5. NothingSentAlone(Handling)'
      BY <1>0, <2>2 DEF IInv, KeyInv, NothingSentAlone, Connected
    <2>6. KbdReleased(Handling)'
      BY <1>0, <2>1, <2>2 DEF IInv, KeyInv, KbdReleased, NoReport
    <2>7. QED
      BY <2>4, <2>5, <2>6 DEF KeyInv
  <1>4. QED
    BY <1>1, <1>2, <1>3, Steps

(* The parts of the invariant about the deep sleep. *)
LEMMA SleepStep ==
  ASSUME IInv, [Next]_vars
  PROVE  TerminateSent' /\ TerminateDone' /\ AboutToSleep'
  <1>0. TypeOK /\ KeyInv(Handling) /\ TerminateSent /\ TerminateDone /\ AboutToSleep
    BY DEF IInv
  <1>1. ASSUME NEW r \in {"none", "conn", "adv"}, StartUp(r)
        PROVE  TerminateSent' /\ TerminateDone' /\ AboutToSleep'
    BY <1>1 DEF StartUp, TerminateSent, TerminateDone, AboutToSleep
  <1>2. CASE ProcKeyboard
    <2>1. ui.deepback = "idle" =>
            /\ ui'.deepback = "idle"
            /\ ~ui.mic /\ ~ui.voicePress => ~ui'.mic /\ (ui'.voicePress => ui'.notReleased)
      BY <1>0, <1>2, HandlingType, ProcKeyboardIs, QuietPass DEF TypeOK
    <2>2. pc = "key" /\ pc' = "pm" /\ UNCHANGED <<blt, sendTerminate, suspend, ota>>
      BY <1>2, ProcKeyboardIs
    <2>3. QED
      BY <1>0, <2>1, <2>2 DEF TerminateSent, TerminateDone, AboutToSleep
  <1>3. CASE BleRemoteTerminate
    <2>1. /\ pc = "brx" /\ pc' = "key" /\ blt' = "adv" /\ ota' = ota /\ suspend' = suspend
          /\ sendTerminate' = IF sendTerminate = 1 THEN 2 ELSE sendTerminate
          /\ ui' = [ui EXCEPT !.mic = FALSE] /\ ui \in Uis
      BY <1>0, <1>3, TypeParts DEF BleRemoteTerminate, TerminateMic, MicOff
    <2>2. ui'.mic = FALSE /\ ui'.voicePress = ui.voicePress /\ ui'.deepback = ui.deepback
          /\ ui'.notReleased = ui.notReleased
      BY <2>1 DEF Uis
    <2>3. QED
      BY <1>0, <2>1, <2>2 DEF TerminateSent, TerminateDone, AboutToSleep
  <1>4. CASE BltPmProc
    <2>1. /\ pc = "pm" /\ pc' = "sleep" /\ UNCHANGED <<ui, blt, ota>>
      BY <1>4 DEF BltPmProc
    <2>2. CASE KeepAwake
      BY <1>0, <1>4, <2>1, <2>2 DEF BltPmProc, KeepAwake, TerminateSent, TerminateDone, AboutToSleep
    <2>3. CASE ~KeepAwake
      <3>1. ~ui.mic /\ ~ota
        BY <2>3 DEF KeepAwake
      <3>2. PICK l, d : d \subseteq due /\ PmSleep(l, d)
        BY <1>4, <2>3 DEF BltPmProc
      <3>3. AboutToSleep'
        BY <1>0, <2>1, <3>1, <3>2 DEF PmSleep, AdvSleep, TerminateDone, AboutToSleep
      <3>4. TerminateSent'
        <4>1. CASE IdleInConn(l, d)
          BY <1>0, <2>1, <3>1, <3>2, <4>1
          DEF IdleInConn, KeyInv, IdleIsLongest, Handling, TerminateSent
        <4>2. CASE ~IdleInConn(l, d) /\ sendTerminate = 1
          BY <1>0, <2>1, <3>1, <3>2, <4>2 DEF PmSleep, PmFlag, UserTask, TerminateSent
        <4>3. CASE ~IdleInConn(l, d) /\ sendTerminate # 1
          BY <3>2, <4>3 DEF PmSleep, PmFlag, TerminateSent
        <4>4. QED
          BY <4>1, <4>2, <4>3
      <3>5. TerminateDone'
        BY <1>0, <2>1, <3>1, <3>2 DEF PmSleep, PmFlag, IdleInConn, TerminateDone
      <3>6. QED
        BY <3>3, <3>4, <3>5
    <2>4. QED
      BY <2>2, <2>3
  <1>5. CASE BltBrxSleep
    BY <1>0, <1>5 DEF BltBrxSleep, TerminateSent, TerminateDone, AboutToSleep
  <1>6. CASE TaskConnect \/ BrxNothing \/ EntryOtaMode
    BY <1>0, <1>6 DEF TaskConnect, BrxNothing, EntryOtaMode, TypeOK, TerminateSent, TerminateDone, AboutToSleep
  <1>7. CASE User \/ (\E t \in Timers : TimePasses(t)) \/ UNCHANGED vars
    BY <1>0, <1>7 DEF User, Press, Release, TimePasses, vars, key, TerminateSent, TerminateDone, AboutToSleep
  <1>8. QED
    BY <1>0, <1>1, <1>2, <1>3, <1>4, <1>5, <1>6, <1>7, Steps, ResetStep DEF Simple

-----------------------------------------------------------------------------
(* The theorems. *)

LEMMA Inductive == Safety => []IInv
  <1>1. Init => IInv
    <2>1. Init => TerminateSent /\ TerminateDone /\ AboutToSleep
      BY DEF Init, TerminateSent, TerminateDone, AboutToSleep
    <2>2. QED
      BY <2>1, InitInv DEF IInv
  <1>2. IInv /\ [Next]_vars => IInv'
    BY TypeStep, KeyInvStep, SleepStep DEF IInv
  <1>3. QED
    BY <1>1, <1>2, PTL DEF Safety

(* The variables keep their types. *)
THEOREM TypeCorrect == Safety => []TypeOK
  BY Inductive, PTL DEF IInv

(* The release of a standard key always reaches the host: when the remote takes all   *)
(* keys for released (key_change_proc, deepback_post_proc), none is pressed there.     *)
THEOREM KbdKeysAreReleased == Safety => []KbdKeyIsReleased
  <1>1. IInv => KbdKeyIsReleased
    BY DEF IInv, KeyInv, KbdReleased, Handling, KbdKeyIsReleased, NothingPending
  <1>2. QED
    BY <1>1, Inductive, PTL

(* Whichever way leads there, blt_pm_proc lets the chip go into deep sleep only with   *)
(* the connection closed, the microphone off and no update running.                    *)
THEOREM DeepSleepIsClean == Safety => DeepSleepLeavesNothingOpen
  <1>1. IInv /\ [Next]_vars => [pc # "deep" /\ pc' = "deep" => blt = "adv" /\ ~ui.mic /\ ~ota]_vars
    <2> SUFFICES ASSUME IInv, [Next]_vars, pc # "deep", pc' = "deep"
                 PROVE  blt = "adv" /\ ~ui.mic /\ ~ota
      OBVIOUS
    <2>1. CASE BltBrxSleep
      BY <2>1 DEF IInv, BltBrxSleep, AboutToSleep
    <2>2. CASE ~BltBrxSleep
      BY <2>2 DEF Next, MainLoop, Callback, BrxNothing, TaskConnect, BleRemoteTerminate, EntryOtaMode,
         OtaReboot, WakeUp, StartUp, ProcKeyboard, BltPmProc, User, Press, Release, TimePasses, vars
    <2>3. QED
      BY <2>1, <2>2
  <1>2. QED
    BY <1>1, Inductive, PTL DEF Safety, DeepSleepLeavesNothingOpen
=============================================================================
