---------------------------- MODULE AudioBuffer ----------------------------
(* The dongle's voice path (vendor/8266_ble_master_kma_dongle/audio_buffer.c):  *)
(* compressed frames from the radio go into the ring abuf_mic, the main loop     *)
(* decodes them into the ring abuf_dec, and the USB interrupt plays abuf_dec in  *)
(* isochronous packets.                                                          *)
(*                                                                               *)
(* Three contexts share three pointers without a lock: att_mic (radio interrupt) *)
(* moves abuf_mic_wptr, the main loop moves abuf_dec_wptr, the USB interrupt     *)
(* moves abuf_dec_rptr, and all of them but the first set abuf_reset.  Both      *)
(* write pointers count frames in eight bits; abuf_dec_rptr counts samples, here *)
(* in units of half a USB packet (8 samples): a frame is an odd number of units  *)
(* (31) and a packet is two, so packets straddle frames.                         *)
EXTENDS Naturals

CONSTANTS
  Wrap,        \* where the frame counters wrap (256)
  Ring,        \* frames in abuf_mic and in abuf_dec (4)
  Units,       \* units in a decoded frame (31)
  ResetLen,    \* USB packets for which abuf_reset lasts (16)
  MaxStops, MaxPauses  \* bounds: the host stops streaming, the microphone pauses

ASSUME AudioAssumption ==
  /\ Ring \in Nat \ {0} /\ Units \in Nat \ {0, 1}
  /\ Wrap \in Nat /\ Wrap > 2 * Ring /\ Wrap % Ring = 0
  /\ ResetLen \in Nat \ {0} /\ MaxStops \in Nat /\ MaxPauses \in Nat

VARIABLES
  mic_wptr, dec_wptr,  \* abuf_mic_wptr, abuf_dec_wptr
  dec_rptr,            \* abuf_dec_rptr, in units
  reset,               \* abuf_reset
  start,               \* static start of abuf_mic_dec
  buffer_empty,        \* static buffer_empty of abuf_dec_usb
  pc,                  \* where the main loop is
  num_mic, num_dec,    \* the main loop's local copies
  skipped,             \* history: this pass dropped a frame for overflow
  streaming,           \* the host fetches a packet every millisecond
  polled, passes,      \* history: a USB packet, passes of the main loop since the last frame
  budget

ptrs   == <<mic_wptr, dec_wptr, dec_rptr>>
local  == <<num_mic, num_dec, skipped>>
world  == <<streaming, polled, passes, budget>>
vars   == <<ptrs, reset, start, buffer_empty, pc, local, world>>

FramesBehind(a, b) == (a + Wrap - (b % Wrap)) % Wrap   \* u8 difference
ReadFrame == dec_rptr \div Units
NumMic == FramesBehind(mic_wptr, dec_wptr)
NumDec == FramesBehind(dec_wptr, ReadFrame)
Succ(p) == (p + 1) % Wrap

Init ==
  /\ mic_wptr = 0 /\ dec_wptr = 0 /\ dec_rptr = 0
  /\ reset = 0 /\ start = TRUE /\ buffer_empty = TRUE
  /\ pc = "top" /\ num_mic = 0 /\ num_dec = 0 /\ skipped = FALSE
  /\ streaming = TRUE /\ polled = FALSE /\ passes = 0
  /\ budget = [stops |-> MaxStops, pauses |-> MaxPauses]

-----------------------------------------------------------------------------
(* att_mic and abuf_mic_add, in the radio interrupt: no check for room.  A frame *)
(* lasts 15 USB packets and many passes of the main loop: one packet, while the   *)
(* host streams, and two ends of a pass are what is used of that.                *)
AbufMicAdd ==
  /\ passes = 2 /\ (polled \/ ~streaming)
  /\ mic_wptr' = Succ(mic_wptr)
  /\ passes' = 0 /\ polled' = FALSE
  /\ UNCHANGED <<dec_wptr, dec_rptr, reset, start, buffer_empty, pc, local, streaming, budget>>

-----------------------------------------------------------------------------
(* The main loop: abuf_init after 200 ms without a frame, then abuf_mic_dec.     *)

Goto(l) == pc' = l

\* abuf_init clears the pointers first ...
AbufInitClear ==
  /\ pc = "top" /\ Goto("init")
  /\ budget.pauses > 0 /\ budget' = [budget EXCEPT !.pauses = @ - 1]
  /\ mic_wptr' = 0 /\ dec_wptr' = 0
  /\ UNCHANGED <<dec_rptr, reset, start, buffer_empty, local, streaming, polled, passes>>

\* ... and asks the USB side to follow afterwards.
AbufInitReset ==
  /\ pc = "init" /\ Goto("dec")
  /\ reset' = ResetLen
  /\ UNCHANGED <<ptrs, start, buffer_empty, local, world>>

NoAbufInit ==
  /\ pc = "top" /\ Goto("dec")
  /\ UNCHANGED <<ptrs, reset, start, buffer_empty, local, world>>

\* Line 227: the flag is tested in one step and acted on in the next.
TestReset ==
  /\ pc = "dec" /\ Goto(IF reset > 0 THEN "sync" ELSE "count")
  /\ skipped' = FALSE
  /\ UNCHANGED <<ptrs, reset, start, buffer_empty, num_mic, num_dec, world>>

EndPass == pc' = "top" /\ passes' = IF passes < 2 THEN passes + 1 ELSE 2

SyncWritePointer ==
  /\ pc = "sync" /\ EndPass
  /\ dec_wptr' = mic_wptr
  /\ UNCHANGED <<mic_wptr, dec_rptr, reset, start, buffer_empty, local, streaming, polled, budget>>

Count ==
  /\ pc = "count" /\ Goto("skip")
  /\ num_mic' = NumMic /\ num_dec' = NumDec
  /\ UNCHANGED <<ptrs, reset, start, buffer_empty, skipped, world>>

MicOverflowLate(k) == k > Ring + 1
MicOverflow(k) == k > Ring

\* Line 236: one frame is dropped by moving dec_wptr past it; the slot of abuf_dec
\* it passes is not written, and num_dec is not counted again.
SkipFrame ==
  /\ pc = "skip" /\ Goto("decide")
  /\ skipped' = MicOverflow(num_mic)
  /\ dec_wptr' = IF MicOverflow(num_mic) THEN Succ(dec_wptr) ELSE dec_wptr
  /\ UNCHANGED <<mic_wptr, dec_rptr, reset, start, buffer_empty, num_mic, num_dec, world>>

Ready == num_mic >= (IF start THEN 2 ELSE 1)
DecOverflow(k) == k > Ring
HasRoomForOneMore(k) == k <= Ring
HasRoom(k) == k <= Ring - 1

DecOverrun ==
  /\ pc = "decide" /\ EndPass
  /\ DecOverflow(num_dec)
  /\ reset' = ResetLen /\ start' = TRUE
  /\ UNCHANGED <<ptrs, buffer_empty, local, streaming, polled, budget>>

BeginDecode ==
  /\ pc = "decide" /\ Goto("decode")
  /\ ~DecOverflow(num_dec) /\ Ready /\ HasRoom(num_dec)
  /\ UNCHANGED <<ptrs, reset, start, buffer_empty, local, world>>

NothingToDecode ==
  /\ pc = "decide" /\ EndPass
  /\ ~DecOverflow(num_dec) /\ ~(Ready /\ HasRoom(num_dec))
  /\ UNCHANGED <<ptrs, reset, start, buffer_empty, local, streaming, polled, budget>>

\* adpcm_to_pcm runs from BeginDecode to here on slot dec_wptr & 3; the pointer
\* moves when it is done.
FinishDecode ==
  /\ pc = "decode" /\ EndPass
  /\ dec_wptr' = Succ(dec_wptr) /\ start' = FALSE
  /\ UNCHANGED <<mic_wptr, dec_rptr, reset, buffer_empty, local, streaming, polled, budget>>

MainLoop ==
  \/ AbufInitClear \/ AbufInitReset \/ NoAbufInit
  \/ TestReset \/ SyncWritePointer \/ Count \/ SkipFrame
  \/ DecOverrun \/ BeginDecode \/ NothingToDecode \/ FinishDecode

-----------------------------------------------------------------------------
(* abuf_dec_usb, in the USB interrupt, for every isochronous packet.             *)

RingUnits == Ring * Units

\* The units of abuf_dec a packet copies: the second half of a packet at the last
\* unit comes from the start of the buffer.
IsoRead(rp) ==
  LET offset == rp % RingUnits IN
  IF offset = RingUnits - 1 THEN {offset, 0} ELSE {offset, offset + 1}

AdvanceNoWrap(rp) == rp + 2
\* The pointer wraps with the frame counters and is not a multiple of the packet
\* size: the half packet past the end is dropped.
AdvanceRead(rp) == IF rp + 2 >= Wrap * Units THEN 0 ELSE rp + 2

Plays(num) == IF buffer_empty THEN num >= 3 ELSE num >= 1

FollowForever(r) == r
ResetCountdown(r) == r - 1

\* More than 4 ms after the last packet the interrupt asks for a reset itself.
AbufDecUsb(late) ==
  LET r0 == IF late THEN ResetLen ELSE reset
      rp == IF r0 > 0 THEN dec_wptr * Units ELSE dec_rptr
      num == FramesBehind(dec_wptr, rp \div Units)
  IN /\ reset' = IF r0 > 0 THEN ResetCountdown(r0) ELSE 0
     /\ dec_rptr' = IF num > 0 /\ Plays(num) THEN AdvanceRead(rp) ELSE rp
     /\ buffer_empty' = IF num = 0 THEN TRUE
                        ELSE IF Plays(num) THEN FALSE ELSE buffer_empty
     /\ UNCHANGED <<mic_wptr, dec_wptr, start, pc, local>>

UsbPacket ==
  /\ streaming /\ polled' = TRUE
  /\ AbufDecUsb(FALSE)
  /\ UNCHANGED <<streaming, passes, budget>>

HostStops ==
  /\ streaming /\ budget.stops > 0
  /\ streaming' = FALSE /\ budget' = [budget EXCEPT !.stops = @ - 1]
  /\ UNCHANGED <<ptrs, reset, start, buffer_empty, pc, local, polled, passes>>

HostResumes ==
  /\ ~streaming /\ streaming' = TRUE /\ polled' = TRUE
  /\ AbufDecUsb(TRUE)
  /\ UNCHANGED <<passes, budget>>

-----------------------------------------------------------------------------
Next == AbufMicAdd \/ MainLoop \/ UsbPacket \/ HostStops \/ HostResumes

\* The main loop never stops, the host goes on fetching packets and comes back
\* after a stop, and the microphone goes on sending.
Fairness == WF_vars(MainLoop) /\ WF_vars(UsbPacket) /\ WF_vars(HostResumes)
            /\ WF_vars(AbufMicAdd)

Spec == Init /\ [][Next]_vars /\ Fairness

-----------------------------------------------------------------------------
(* Properties *)

\* Type invariant.
TypeOK ==
  /\ mic_wptr \in 0 .. Wrap - 1 /\ dec_wptr \in 0 .. Wrap - 1
  /\ dec_rptr \in 0 .. Wrap * Units - 1
  /\ reset \in 0 .. ResetLen /\ start \in BOOLEAN /\ buffer_empty \in BOOLEAN
  /\ pc \in {"top", "init", "dec", "sync", "count", "skip", "decide", "decode"}
  /\ num_mic \in 0 .. Wrap - 1 /\ num_dec \in 0 .. Wrap - 1 /\ skipped \in BOOLEAN
  /\ streaming \in BOOLEAN /\ polled \in BOOLEAN /\ passes \in 0 .. 2
  /\ budget \in [stops : 0 .. MaxStops, pauses : 0 .. MaxPauses]

\* The USB interrupt does not play the slot the main loop is decoding into.  Two
\* cases excepted: the half packet that reaches past the last decoded frame, and
\* a pass that skipped a frame, whose copy of num_dec is one too small.
NoTornFrame ==
  pc = "decode" /\ ~skipped /\ reset = 0 /\ Plays(NumDec) /\ NumDec > 1
    => dec_wptr % Ring \notin {u \div Units : u \in IsoRead(dec_rptr)}

\* abuf_mic_add never checks for room: dropping one frame a pass is enough to keep
\* the microphone ring at most one frame over its size.
MicBacklogBounded == NumMic <= Ring + 1

\* Sound comes back after every stop, pause and overflow.
SoundComesBack == []<>(~buffer_empty)
=============================================================================
