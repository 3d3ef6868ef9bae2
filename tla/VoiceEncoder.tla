---------------------------- MODULE VoiceEncoder ----------------------------
(***************************************************************************)
(* The way of the voice through the remote control: the audio hardware     *)
(* writes samples into a buffer of two halves, task_audio (ble_remote.c)   *)
(* encodes a half that is full into a ring of packets (proc_mic_encoder in *)
(* tl_audio.c) and hands the oldest packet to the link layer.              *)
(*                                                                         *)
(* A sample is the number of its instant, from 1; 0 is memory nobody has   *)
(* written.  Encoding reads one sample at a time while the hardware goes   *)
(* on writing; Adpcm models what is done with a sample.                    *)
(***************************************************************************)
EXTENDS Integers, Sequences

CONSTANTS
  Half,           \* samples in a half, TL_MIC_BUFFER_SIZE>>2       (496)
  PacketNum,      \* TL_MIC_PACKET_BUFFER_NUM, a power of two       (4)
  MicDelay,       \* calls of task_audio before it encodes          (11)
  MaxSamples,     \* bound on the samples written
  MaxSwitches     \* bound on switching the microphone

ASSUME VoiceAssumption ==
  /\ Half \in Nat \ {0} /\ PacketNum \in Nat \ {0, 1}  \* one packet more than a full ring is not 0
  /\ MicDelay \in Nat \ {0} /\ MaxSamples \in Nat /\ MaxSwitches \in Nat

VARIABLES
  micEnable,    \* ui_mic_enable
  micDelayCnt,  \* mic_delay_cnt, which matters up to MicDelay
  written,      \* samples written since power-on
  micBuf,       \* buffer_mic
  task,         \* task_audio: where it is, the samples it has encoded, how many
                \* were written when it compared the pointers
  micRptr,      \* buffer_mic_rptr as a half, 0 or 1
  pkt,          \* buffer_mic_enc, buffer_mic_pkt_wptr and _rptr
  sent,         \* the packet the link layer got last
  switches      \* switches of the microphone left

voiceVars == <<micEnable, micDelayCnt, written, micBuf, task, micRptr, pkt, sent, switches>>

Samples == 0 .. MaxSamples
Counter == 0 .. 2 * PacketNum - 1

Away == [at |-> "idle", done |-> <<>>, seen |-> 0]

VoiceInit ==
  /\ micEnable = FALSE /\ micDelayCnt = 0 /\ written = 0
  /\ micBuf = [j \in 0 .. 2 * Half - 1 |-> 0] /\ micRptr = 0
  /\ task = Away
  /\ pkt = [enc |-> [s \in 0 .. PacketNum - 1 |-> <<>>], wptr |-> 0, rptr |-> 0]
  /\ sent = <<>> /\ switches = MaxSwitches

VoiceTypeOK ==
  /\ micEnable \in BOOLEAN /\ micDelayCnt \in 0 .. MicDelay /\ written \in Samples
  /\ micBuf \in [0 .. 2 * Half - 1 -> Samples] /\ micRptr \in {0, 1}
  /\ task.at \in {"idle", "encode", "send"} /\ task.seen \in Samples
  /\ Len(task.done) < Half /\ \A j \in DOMAIN task.done : task.done[j] \in Samples
  /\ pkt.wptr \in Counter /\ pkt.rptr \in Counter
  /\ (pkt.wptr - pkt.rptr) % (2 * PacketNum) <= PacketNum
  /\ \A s \in 0 .. PacketNum - 1 : Len(pkt.enc[s]) \in {0, Half}
  /\ Len(sent) \in {0, Half} /\ switches \in 0 .. MaxSwitches

-----------------------------------------------------------------------------
\* reg_audio_wr_ptr, the place of the next sample.
MicWptr == written % (2 * Half)

\* The audio unit.  It runs while the microphone is on.  While a half is encoded
\* it is slower than the encoder (15.5 ms against 1.2 ms a half).
MicWrite ==
  /\ micEnable /\ written < MaxSamples
  /\ task.at = "encode" => written - task.seen <= Len(task.done)
  /\ micBuf' = [micBuf EXCEPT ![MicWptr] = written + 1]
  /\ written' = written + 1
  /\ UNCHANGED <<micEnable, micDelayCnt, task, micRptr, pkt, sent, switches>>

\* ui_enable_mic, called for a key from the main loop: the pointers stay.
UiEnableMic(en) ==
  /\ task.at = "idle" /\ en # micEnable /\ switches > 0
  /\ micEnable' = en /\ micDelayCnt' = 0 /\ switches' = switches - 1
  /\ UNCHANGED <<written, micBuf, task, micRptr, pkt, sent>>

\* Mutant: a half counts as full one sample early.
HalfIsFullEarly ==
  LET l == MicWptr + 1 - micRptr * Half IN l < 0 \/ l >= Half

\* The distance of the pointers; behind the reader is as good as far ahead.
HalfIsFull ==
  LET l == MicWptr - micRptr * Half IN l < 0 \/ l >= Half

TaskAudioWaits ==
  /\ task.at = "idle" /\ micEnable /\ micDelayCnt + 1 < MicDelay
  /\ micDelayCnt' = micDelayCnt + 1
  /\ UNCHANGED <<micEnable, written, micBuf, task, micRptr, pkt, sent, switches>>

TaskAudio ==
  /\ task.at = "idle" /\ micEnable /\ micDelayCnt + 1 >= MicDelay
  /\ micDelayCnt' = MicDelay
  /\ task' = [Away EXCEPT !.at = IF HalfIsFull THEN "encode" ELSE "send", !.seen = written]
  /\ UNCHANGED <<micEnable, written, micBuf, micRptr, pkt, sent, switches>>

\* Mutant: a full ring keeps its oldest packet's place.
StoreNoDrop(p) ==
  [pkt EXCEPT !.enc[pkt.wptr % PacketNum] = p, !.wptr = (@ + 1) % (2 * PacketNum)]

\* The packet goes into the ring; a full ring gives up its oldest packet.
Store(p) ==
  LET w == (pkt.wptr + 1) % (2 * PacketNum) IN
  [enc |-> [pkt.enc EXCEPT ![pkt.wptr % PacketNum] = p],
   wptr |-> w,
   rptr |-> IF (w - pkt.rptr) % (2 * PacketNum) > PacketNum
            THEN (pkt.rptr + 1) % (2 * PacketNum) ELSE pkt.rptr]

\* mic_to_adpcm_split takes the next sample; with the last one of the half
\* proc_mic_encoder turns to the other half and stores the packet.
Encode ==
  LET done == Append(task.done, micBuf[micRptr * Half + Len(task.done)]) IN
  /\ task.at = "encode"
  /\ IF Len(done) < Half
       THEN task' = [task EXCEPT !.done = done] /\ UNCHANGED <<micRptr, pkt>>
       ELSE /\ task' = [Away EXCEPT !.at = "send"]
            /\ micRptr' = 1 - micRptr /\ pkt' = Store(done)
  /\ UNCHANGED <<micEnable, micDelayCnt, written, micBuf, sent, switches>>

\* mic_encoder_data_buffer and blt_push_notify_data, when the link layer's FIFO
\* holds fewer than 8 packets (room).
SendPacket(room) ==
  /\ task.at = "send" /\ task' = Away
  /\ IF room /\ pkt.rptr # pkt.wptr
       THEN /\ sent' = pkt.enc[pkt.rptr % PacketNum]
            /\ pkt' = [pkt EXCEPT !.rptr = (@ + 1) % (2 * PacketNum)]
       ELSE UNCHANGED <<sent, pkt>>
  /\ UNCHANGED <<micEnable, micDelayCnt, written, micBuf, micRptr, switches>>

VoiceNext ==
  \/ MicWrite \/ TaskAudioWaits \/ TaskAudio \/ Encode
  \/ \E en \in BOOLEAN : UiEnableMic(en)
  \/ \E room \in BOOLEAN : SendPacket(room)

VoiceSpec == VoiceInit /\ [][VoiceNext]_voiceVars
-----------------------------------------------------------------------------
(* A main loop that is late loses halves, and a link that is slow loses       *)
(* packets, but what the dongle gets is always a stretch of sound without a   *)
(* gap, never heard before and never older than what it has: no packet mixes  *)
(* two turns of the sample buffer, is sent twice or overtakes another.        *)
VoiceInOrder ==
  [][sent' # sent => /\ \A j \in 1 .. Half - 1 : sent'[j + 1] = sent'[j] + 1
                     /\ sent # <<>> => sent[Half] < sent'[1]
                     /\ sent'[1] > 0]_voiceVars
=============================================================================
