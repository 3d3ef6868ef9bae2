------------------------------- MODULE Adpcm -------------------------------
(***************************************************************************)
(* The voice codec of vendor/common/tl_audio.c: mic_to_adpcm_split, which  *)
(* the remote control runs, and adpcm_to_pcm, which the dongle runs.  Both *)
(* keep a prediction and an index into the step table and move them by the *)
(* same rule; the encoder never tells the decoder where it is except in    *)
(* the header of a packet, so they must never part in between.             *)
(*                                                                         *)
(* The four-bit code is a record of its sign and its bits 4, 2, 1.         *)
(***************************************************************************)
EXTENDS Integers, Sequences

CONSTANTS
  SampleValues,    \* samples the microphone may deliver
  PacketSamples,   \* samples in a packet                           (248)
  MaxPackets       \* bound on the packets

\* Where the prediction is clamped; a sample is a 16-bit number, one more below.
Peak   == 32767
Trough == -32767

ASSUME CodecAssumption ==
  /\ SampleValues \subseteq Trough - 1 .. Peak
  /\ PacketSamples \in Nat \ {0} /\ MaxPackets \in Nat

steptbl == <<
  7, 8, 9, 10, 11, 12, 13, 14, 16, 17, 19, 21, 23, 25, 28, 31, 34, 37, 41, 45, 50, 55,
  60, 66, 73, 80, 88, 97, 107, 118, 130, 143, 157, 173, 190, 209, 230, 253, 279, 307,
  337, 371, 408, 449, 494, 544, 598, 658, 724, 796, 876, 963, 1060, 1166, 1282, 1411,
  1552, 1707, 1878, 2066, 2272, 2499, 2749, 3024, 3327, 3660, 4026, 4428, 4871, 5358,
  5894, 6484, 7132, 7845, 8630, 9493, 10442, 11487, 12635, 13899, 15289, 16818, 18500,
  20350, 22385, 24623, 27086, 29794, 32767 >>

Step(idx) == steptbl[idx + 1]
LastIdx == Len(steptbl) - 1

Codes == [neg : BOOLEAN, four : BOOLEAN, two : BOOLEAN, one : BOOLEAN]

VARIABLES
  coder,      \* predict and predict_idx of the encoder, static
  decoder,    \* the same of the decoder, local to a packet
  sample,     \* history: the last sample, and the state it was coded in
  position    \* packets begun, and samples of the packet done

codecVars == <<coder, decoder, sample, position>>

Within(lo, hi, x) == IF x < lo THEN lo ELSE IF x > hi THEN hi ELSE x

\* idxtbl: small codes shrink the step, large ones widen it.
IdxChange(code) ==
  IF ~code.four THEN -1
  ELSE 2 + (IF code.two THEN 4 ELSE 0) + (IF code.one THEN 2 ELSE 0)

\* How the code moves prediction and index; diffq is the change it stands for.
Moved(s, code, diffq) ==
  [predict |-> Within(Trough, Peak, IF code.neg THEN s.predict - diffq ELSE s.predict + diffq),
   idx |-> Within(0, LastIdx, s.idx + IdxChange(code))]

\* The step, its half, its quarter and its eighth, as the shifts round them.
Part(s, n) == Step(s.idx) \div n

\* mic_to_adpcm_split, one sample: three tests against what is left of the
\* difference.  The encoder moves by what it has taken off, plus the eighth.
Quantise(s, di) ==
  LET diff == di - s.predict
      size == IF diff >= 0 THEN diff ELSE -diff
      four == size >= Part(s, 1)
      rest4 == IF four THEN size - Part(s, 1) ELSE size
      two == rest4 >= Part(s, 2)
      rest2 == IF two THEN rest4 - Part(s, 2) ELSE rest4
      one == rest2 >= Part(s, 4)
      rest1 == IF one THEN rest2 - Part(s, 4) ELSE rest2 IN
  [code |-> [neg |-> diff < 0, four |-> four, two |-> two, one |-> one],
   diffq |-> Part(s, 8) + size - rest1]

\* adpcm_to_pcm adds up what the bits of the code stand for.
DiffQ(s, code) ==
  Part(s, 8) + (IF code.four THEN Part(s, 1) ELSE 0)
  + (IF code.two THEN Part(s, 2) ELSE 0) + (IF code.one THEN Part(s, 4) ELSE 0)

\* Mutant: the decoder does not stop at the end of the table.
DecoderStepUnclamped(s, code) ==
  [Moved(s, code, DiffQ(s, code)) EXCEPT
     !.idx = IF s.idx + IdxChange(code) > LastIdx THEN LastIdx - 1 ELSE @]

DecoderStep(s, code) == Moved(s, code, DiffQ(s, code))

CodecInit ==
  /\ coder = [predict |-> 0, idx |-> 1] /\ decoder = coder
  /\ sample = [value |-> 0, before |-> coder]
  /\ position = [packets |-> 0, samples |-> PacketSamples]

\* The header of a packet: the encoder's prediction and index as they are.
BeginPacket ==
  /\ position.samples = PacketSamples /\ position.packets < MaxPackets
  /\ position' = [packets |-> position.packets + 1, samples |-> 0]
  /\ decoder' = coder
  /\ UNCHANGED <<coder, sample>>

CodeSample(di) ==
  /\ position.samples < PacketSamples
  /\ LET q == Quantise(coder, di) IN
       /\ coder' = Moved(coder, q.code, q.diffq)
       /\ decoder' = DecoderStep(decoder, q.code)
  /\ sample' = [value |-> di, before |-> coder]
  /\ position' = [position EXCEPT !.samples = @ + 1]

CodecNext == BeginPacket \/ \E di \in SampleValues : CodeSample(di)

CodecSpec == CodecInit /\ [][CodecNext]_codecVars

CodecTypeOK ==
  /\ coder.predict \in Trough .. Peak /\ coder.idx \in 0 .. LastIdx
  /\ decoder.predict \in Trough .. Peak /\ decoder.idx \in 0 .. LastIdx
  /\ position \in [packets : 0 .. MaxPackets, samples : 0 .. PacketSamples]
-----------------------------------------------------------------------------
Distance(x, y) == IF x >= y THEN x - y ELSE y - x

\* The widest difference the code of a sample can express.
Reach(s) == 2 * Step(s.idx) - 1

(* The dongle plays what the remote meant: the decoder is where the encoder   *)
(* is after every sample, and when the sample was within reach of the step,   *)
(* both are off by no more than an eighth of it and the rounding of shifts.   *)
CodecFollows ==
  /\ decoder = coder
  /\ Distance(sample.value, sample.before.predict) < Reach(sample.before)
     => Distance(sample.value, coder.predict) <= Part(sample.before, 8) + 3
=============================================================================
