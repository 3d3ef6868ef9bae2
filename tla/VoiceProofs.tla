---------------------------- MODULE VoiceProofs ----------------------------
(***************************************************************************)
(* Proofs about the voice path of the remote control: the codec (Adpcm), for *)
(* every set of sample values and every packet size, and the packet ring     *)
(* (VoiceEncoder), for every size of the sample buffer and of the ring.      *)
(***************************************************************************)
EXTENDS Adpcm, VoiceEncoder, TLAPS

-----------------------------------------------------------------------------
(* The codec. *)

CodecStates == [predict : Trough .. Peak, idx : 0 .. LastIdx]

\* The types, with records where CodecTypeOK speaks of their fields only.
CodecIInv ==
  /\ coder \in CodecStates /\ decoder = coder
  /\ position \in [packets : 0 .. MaxPackets, samples : 0 .. PacketSamples]
  /\ CodecFollows

LEMMA TableSize == LastIdx = 88
  BY DEF LastIdx, steptbl

LEMMA StepTable == \A i \in 0 .. 88 : Step(i) \in Int /\ Step(i) >= 7 /\ Step(i) <= 32767
  <1>1. \A i \in 1 .. 89 : steptbl[i] \in Int /\ steptbl[i] >= 7 /\ steptbl[i] <= 32767
    BY DEF steptbl
  <1>2. \A i \in 0 .. 88 : i + 1 \in 1 .. 89
    OBVIOUS
  <1>3. QED
    BY <1>1, <1>2 DEF Step

LEMMA WithinRange ==
  ASSUME NEW lo \in Int, NEW hi \in Int, NEW x \in Int, lo <= hi
  PROVE  Within(lo, hi, x) \in lo .. hi
  BY DEF Within

LEMMA Extremes == Trough \in Int /\ Peak \in Int /\ Trough <= Peak
  BY DEF Trough, Peak

LEMMA CodecTypes ==
  ASSUME NEW s \in CodecStates
  PROVE  /\ s.predict \in Int /\ s.predict >= Trough /\ s.predict <= Peak
         /\ s.idx \in 0 .. 88
  <1>1. s.predict \in Trough .. Peak /\ s.idx \in 0 .. LastIdx
    BY DEF CodecStates
  <1>2. QED
    BY <1>1, TableSize, Extremes

(* Whatever the code, prediction and index stay within their ranges. *)
LEMMA MovedType ==
  ASSUME NEW s \in CodecStates, NEW code \in Codes, NEW diffq \in Int
  PROVE  Moved(s, code, diffq) \in CodecStates
  <1>1. s.predict \in Int /\ s.idx \in Int
    BY CodecTypes
  <1>2. IdxChange(code) \in Int
    BY DEF IdxChange
  <1>3. Within(0, LastIdx, s.idx + IdxChange(code)) \in 0 .. LastIdx
    BY <1>1, <1>2, TableSize DEF Within
  <1> DEFINE x == IF code.neg THEN s.predict - diffq ELSE s.predict + diffq
  <1>4. x \in Int
    BY <1>1
  <1> HIDE DEF x
  <1>5. Within(Trough, Peak, x) \in Trough .. Peak
    BY <1>4, Extremes, WithinRange
  <1>6. QED
    BY <1>3, <1>5 DEF Moved, CodecStates, x

LEMMA SampleRange == \A v \in SampleValues : v \in Int /\ v >= Trough - 1 /\ v <= Peak
  <1>1. SampleValues \subseteq Trough - 1 .. Peak
    BY CodecAssumption
  <1>2. QED
    BY <1>1, Extremes

\* The step as the shifts leave it.
Shifted(s) ==
  /\ Part(s, 1) \in Int /\ Part(s, 2) \in Int /\ Part(s, 4) \in Int /\ Part(s, 8) \in Int
  /\ Part(s, 1) = Step(s.idx) /\ Part(s, 1) >= 7
  /\ 2 * Part(s, 2) <= Part(s, 1) /\ Part(s, 1) <= 2 * Part(s, 2) + 1
  /\ 4 * Part(s, 4) <= Part(s, 1) /\ Part(s, 1) <= 4 * Part(s, 4) + 3
  /\ 8 * Part(s, 8) <= Part(s, 1) /\ Part(s, 1) <= 8 * Part(s, 8) + 7

LEMMA Shifts == ASSUME NEW s \in CodecStates PROVE Shifted(s)
  <1> DEFINE st == Step(s.idx)
  <1>1. st \in Int /\ st >= 7
    BY CodecTypes, StepTable
  <1> HIDE DEF st
  <1>2. st \div 1 = st
    BY <1>1
  <1>3. st \div 2 \in Int /\ 2 * (st \div 2) <= st /\ st <= 2 * (st \div 2) + 1
    BY <1>1
  <1>4. st \div 4 \in Int /\ 4 * (st \div 4) <= st /\ st <= 4 * (st \div 4) + 3
    BY <1>1
  <1>5. st \div 8 \in Int /\ 8 * (st \div 8) <= st /\ st <= 8 * (st \div 8) + 7
    BY <1>1
  <1>6. Part(s, 1) = st \div 1 /\ Part(s, 2) = st \div 2 /\ Part(s, 4) = st \div 4
        /\ Part(s, 8) = st \div 8
    BY DEF Part, st
  <1>7. QED
    BY <1>1, <1>2, <1>3, <1>4, <1>5, <1>6 DEF Shifted, st

(* Within reach of the step, a sample leaves less behind than half the step:  *)
(* the three tests of the encoder, with the roundings of the shifts.          *)
LEMMA Remainder ==
  ASSUME NEW p1 \in Int, NEW p2 \in Int, NEW p4 \in Int, NEW p8 \in Int, p1 >= 7,
         2 * p2 <= p1, p1 <= 2 * p2 + 1, 4 * p4 <= p1, p1 <= 4 * p4 + 3,
         8 * p8 <= p1, p1 <= 8 * p8 + 7,
         NEW size \in Int, size >= 0, size < 2 * p1 - 1,
         NEW rest4 \in Int, rest4 = IF size >= p1 THEN size - p1 ELSE size,
         NEW rest2 \in Int, rest2 = IF rest4 >= p2 THEN rest4 - p2 ELSE rest4,
         NEW rest1 \in Int, rest1 = IF rest2 >= p4 THEN rest2 - p4 ELSE rest2
  PROVE  rest1 >= 0 /\ rest1 <= 2 * p8 + 2 /\ rest1 - p8 <= p8 + 2
  <1>1. rest4 >= 0 /\ rest4 <= p1 - 1
    OBVIOUS
  <1>2. rest2 >= 0 /\ rest2 <= p2
    BY <1>1
  <1>3. rest1 >= 0 /\ rest1 <= p4 + 1
    BY <1>2
  <1>4. p4 <= 2 * p8 + 1
    OBVIOUS
  <1>5. QED
    BY <1>3, <1>4

(* The code the encoder writes stands for the change it makes itself: what its  *)
(* three tests have taken off is what the decoder adds up from the bits.  Within *)
(* reach of the step the sample is missed by an eighth of it at most, and 2.     *)
LEMMA QuantiseEffect ==
  ASSUME NEW s \in CodecStates, NEW di \in Int
  PROVE  LET q == Quantise(s, di)
             x == IF q.code.neg THEN s.predict - q.diffq ELSE s.predict + q.diffq
         IN  /\ q.code \in Codes /\ q.diffq \in Int /\ q.diffq = DiffQ(s, q.code)
             /\ Distance(di, s.predict) < Reach(s)
                  => x - di <= Part(s, 8) + 2 /\ di - x <= Part(s, 8) + 2
  <1> DEFINE diff == di - s.predict
             size == IF diff >= 0 THEN diff ELSE -diff
             four == size >= Part(s, 1)
             rest4 == IF four THEN size - Part(s, 1) ELSE size
             two == rest4 >= Part(s, 2)
             rest2 == IF two THEN rest4 - Part(s, 2) ELSE rest4
             one == rest2 >= Part(s, 4)
             rest1 == IF one THEN rest2 - Part(s, 4) ELSE rest2
             code == [neg |-> diff < 0, four |-> four, two |-> two, one |-> one]
  <1>1. Quantise(s, di) = [code |-> code, diffq |-> Part(s, 8) + size - rest1]
    BY DEF Quantise
  <1>2. Shifted(s) /\ s.predict \in Int
    BY Shifts, CodecTypes
  <1>3. size \in Int /\ size >= 0 /\ size = Distance(di, s.predict)
        /\ (diff < 0 => size = s.predict - di) /\ (~(diff < 0) => size = di - s.predict)
    BY <1>2 DEF Distance
  <1>4. rest4 \in Int /\ rest2 \in Int /\ rest1 \in Int
    BY <1>2, <1>3 DEF Shifted
  <1>5. code.neg = (diff < 0) /\ code.four = four /\ code.two = two /\ code.one = one
    OBVIOUS
  <1>6. code \in Codes
    <2>1. (diff < 0) \in BOOLEAN /\ four \in BOOLEAN /\ two \in BOOLEAN /\ one \in BOOLEAN
      OBVIOUS
    <2> HIDE DEF diff, four, two, one
    <2>2. QED
      BY <2>1 DEF Codes
  <1>7. Part(s, 8) + size - rest1 = DiffQ(s, code)
    <2>1. rest4 = size - (IF four THEN Part(s, 1) ELSE 0)
      BY <1>2, <1>3 DEF Shifted
    <2>2. rest2 = rest4 - (IF two THEN Part(s, 2) ELSE 0)
      BY <1>2, <1>4 DEF Shifted
    <2>3. rest1 = rest2 - (IF one THEN Part(s, 4) ELSE 0)
      BY <1>2, <1>4 DEF Shifted
    <2>4. DiffQ(s, code) = Part(s, 8) + (IF four THEN Part(s, 1) ELSE 0)
                           + (IF two THEN Part(s, 2) ELSE 0) + (IF one THEN Part(s, 4) ELSE 0)
      BY <1>5 DEF DiffQ
    <2> HIDE DEF size, four, two, one, rest4, rest2, rest1, code
    <2>5. QED
      BY <1>2, <1>3, <1>4, <2>1, <2>2, <2>3, <2>4 DEF Shifted
  <1>8. Distance(di, s.predict) < Reach(s) => rest1 >= 0 /\ rest1 - Part(s, 8) <= Part(s, 8) + 2
    <2> SUFFICES ASSUME size < 2 * Part(s, 1) - 1
                 PROVE  rest1 >= 0 /\ rest1 - Part(s, 8) <= Part(s, 8) + 2
      BY <1>2, <1>3 DEF Reach, Shifted
    <2> HIDE DEF size
    <2>1. QED
      BY <1>2, <1>3, <1>4, Remainder DEF Shifted
  <1>9. QED
    <2> HIDE DEF code, rest1
    <2> DEFINE q == Quantise(s, di)
    <2>1. q.code = code /\ q.diffq = Part(s, 8) + size - rest1
      BY <1>1
    <2>2. q.code.neg = (diff < 0)
      BY <1>5, <2>1
    <2>3. q.diffq \in Int
      BY <1>2, <1>3, <1>4, <2>1 DEF Shifted
    <2> DEFINE x == IF q.code.neg THEN s.predict - q.diffq ELSE s.predict + q.diffq
    <2>4. x - di = (IF diff < 0 THEN rest1 - Part(s, 8) ELSE Part(s, 8) - rest1)
          /\ di - x = (IF diff < 0 THEN Part(s, 8) - rest1 ELSE rest1 - Part(s, 8))
      <3> HIDE DEF q, size
      <3>1. Part(s, 8) \in Int /\ s.predict \in Int
        BY <1>2 DEF Shifted
      <3>2. CASE di - s.predict < 0
        <4>1. x = s.predict - q.diffq
          BY <2>2, <3>2
        <4>2. size = s.predict - di
          BY <1>3, <3>2
        <4> HIDE DEF x, diff
        <4>3. x - di = rest1 - Part(s, 8) /\ di - x = Part(s, 8) - rest1
          BY <1>3, <1>4, <2>1, <3>1, <4>1, <4>2
        <4>4. QED
          BY <4>3, <3>2 DEF diff
      <3>3. CASE ~(di - s.predict < 0)
        <4>1. x = s.predict + q.diffq
          BY <2>2, <3>3
        <4>2. size = di - s.predict
          BY <1>3, <3>3
        <4> HIDE DEF x, diff
        <4>3. x - di = Part(s, 8) - rest1 /\ di - x = rest1 - Part(s, 8)
          BY <1>3, <1>4, <2>1, <3>1, <4>1, <4>2
        <4>4. QED
          BY <4>3, <3>3 DEF diff
      <3>4. QED
        BY <3>2, <3>3
    <2> HIDE DEF q, x, size
    <2>5. Distance(di, s.predict) < Reach(s)
            => x - di <= Part(s, 8) + 2 /\ di - x <= Part(s, 8) + 2
      BY <1>2, <1>4, <1>8, <2>4 DEF Shifted
    <2>6. QED
      BY <1>6, <1>7, <2>1, <2>3, <2>5 DEF q, x

LEMMA CodecInitInv == CodecInit => CodecIInv
  <1> SUFFICES ASSUME CodecInit PROVE CodecIInv
    OBVIOUS
  <1>1. coder = [predict |-> 0, idx |-> 1] /\ decoder = coder /\ sample = [value |-> 0, before |-> coder]
    BY DEF CodecInit
  <1>2. 0 \in Trough .. Peak /\ 1 \in 0 .. LastIdx
    <2>1. 0 >= Trough /\ 0 <= Peak
      BY DEF Trough, Peak
    <2>2. QED
      BY <2>1, Extremes, TableSize
  <1>3. coder \in CodecStates
    BY <1>1, <1>2 DEF CodecStates
  <1>4. position \in [packets : 0 .. MaxPackets, samples : 0 .. PacketSamples]
    BY CodecAssumption DEF CodecInit
  <1>5. Distance(sample.value, coder.predict) <= Part(sample.before, 8) + 3
    <2>1. Distance(sample.value, coder.predict) = 0 /\ sample.before = coder
      BY <1>1 DEF Distance
    <2>2. Part(coder, 8) \in Int /\ Part(coder, 8) >= 0
      BY <1>3, Shifts DEF Shifted
    <2>3. QED
      BY <2>1, <2>2
  <1>6. QED
    BY <1>1, <1>3, <1>4, <1>5 DEF CodecIInv, CodecFollows

LEMMA CodeSampleStep ==
  ASSUME CodecIInv, NEW di \in SampleValues, CodeSample(di)
  PROVE  CodecIInv'
  <1> DEFINE q == Quantise(coder, di)
             x == IF q.code.neg THEN coder.predict - q.diffq ELSE coder.predict + q.diffq
  <1>1. coder \in CodecStates /\ decoder = coder
    BY DEF CodecIInv
  <1>2. coder.predict \in Int /\ coder.idx \in 0 .. 88
    BY <1>1, CodecTypes
  <1>3. di \in Int /\ di >= Trough - 1 /\ di <= Peak
    BY SampleRange
  <1>4. /\ q.code \in Codes /\ q.diffq \in Int /\ q.diffq = DiffQ(coder, q.code)
        /\ Distance(di, coder.predict) < Reach(coder)
             => x - di <= Part(coder, 8) + 2 /\ di - x <= Part(coder, 8) + 2
    BY <1>1, <1>3, QuantiseEffect
  <1>5. coder' = Moved(coder, q.code, q.diffq) /\ decoder' = DecoderStep(decoder, q.code)
        /\ sample' = [value |-> di, before |-> coder]
        /\ position' = [position EXCEPT !.samples = @ + 1] /\ position.samples < PacketSamples
    BY DEF CodeSample
  <1>6. x \in Int
    BY <1>2, <1>4
  <1>7. coder'.predict = Within(Trough, Peak, x)
    BY <1>5 DEF Moved
  <1> HIDE DEF q, x
  <1>8. coder' \in CodecStates
    BY <1>1, <1>4, <1>5, MovedType
  <1>9. decoder' = coder'
    BY <1>1, <1>4, <1>5 DEF DecoderStep
  <1>10. position' \in [packets : 0 .. MaxPackets, samples : 0 .. PacketSamples]
    <2>1. position \in [packets : 0 .. MaxPackets, samples : 0 .. PacketSamples]
      BY DEF CodecIInv
    <2>2. QED
      BY <1>5, <2>1, CodecAssumption
  <1>11. ASSUME Distance(sample'.value, sample'.before.predict) < Reach(sample'.before)
         PROVE  Distance(sample'.value, coder'.predict) <= Part(sample'.before, 8) + 3
    <2>1. sample'.value = di /\ sample'.before = coder
      BY <1>5
    <2>2. Part(coder, 8) \in Int /\ Part(coder, 8) >= 0
      BY <1>1, Shifts DEF Shifted
    <2>3. x - di <= Part(coder, 8) + 2 /\ di - x <= Part(coder, 8) + 2
      BY <1>4, <1>11, <2>1
    <2>4. coder'.predict \in Int
          /\ coder'.predict - di <= Part(coder, 8) + 3 /\ di - coder'.predict <= Part(coder, 8) + 3
      BY <1>3, <1>6, <1>7, <2>2, <2>3, Extremes DEF Within
    <2>5. QED
      BY <1>3, <2>1, <2>2, <2>4 DEF Distance
  <1>12. QED
    BY <1>8, <1>9, <1>10, <1>11 DEF CodecIInv, CodecFollows

LEMMA CodecInductive == CodecSpec => []CodecIInv
  <1>1. CodecIInv /\ [CodecNext]_codecVars => CodecIInv'
    <2> SUFFICES ASSUME CodecIInv, [CodecNext]_codecVars PROVE CodecIInv'
      OBVIOUS
    <2>1. CASE BeginPacket
      <3>1. coder' = coder /\ decoder' = coder /\ sample' = sample
            /\ position' = [packets |-> position.packets + 1, samples |-> 0]
            /\ position.packets < MaxPackets
        BY <2>1 DEF BeginPacket
      <3>2. position' \in [packets : 0 .. MaxPackets, samples : 0 .. PacketSamples]
        BY <3>1, CodecAssumption DEF CodecIInv
      <3>3. QED
        BY <3>1, <3>2 DEF CodecIInv, CodecFollows
    <2>2. CASE \E di \in SampleValues : CodeSample(di)
      BY <2>2, CodeSampleStep
    <2>3. CASE UNCHANGED codecVars
      BY <2>3 DEF codecVars, CodecIInv, CodecFollows
    <2>4. QED
      BY <2>1, <2>2, <2>3 DEF CodecNext
  <1>2. QED
    BY <1>1, CodecInitInv, PTL DEF CodecSpec

(* The predictions and the indices of encoder and decoder stay in the ranges both *)
(* clamp them to, and packets have their length.                                   *)
THEOREM CodecTypesCorrect == CodecSpec => []CodecTypeOK
  <1>1. CodecIInv => CodecTypeOK
    BY DEF CodecIInv, CodecTypeOK, CodecStates
  <1>2. QED
    BY <1>1, CodecInductive, PTL

(* mic_to_adpcm_split and adpcm_to_pcm never part within a packet, and the sound   *)
(* is off by an eighth of the step and the rounding of shifts at most.              *)
THEOREM DecoderFollows == CodecSpec => []CodecFollows
  BY CodecInductive, PTL DEF CodecIInv

-----------------------------------------------------------------------------
(* The sample buffer and the packet ring. *)

Turn == 2 * Half         \* samples in a turn of the sample buffer

\* What the encoder holds and what the ring holds, as records.
Tasks == [at : {"idle", "encode", "send"}, done : Seq(Samples), seen : Samples]
Rings == [enc : [0 .. PacketNum - 1 -> Seq(Samples)], wptr : Counter, rptr : Counter]

\* An unbroken stretch of sound of the length of a half.
Packet(p) ==
  /\ p \in Seq(Samples) /\ Len(p) = Half /\ p[1] > 0
  /\ \A j \in 1 .. Half : p[j] = p[1] + (j - 1)

Queued == (pkt.wptr - pkt.rptr) % (2 * PacketNum)   \* packets not sent yet
Place(i) == (pkt.rptr + i) % PacketNum              \* of the i-th of them, from 0

\* The sample after which the half being encoded begins.
Base == task.seen - (task.seen % Turn) - micRptr * Half

VoiceTypes ==
  /\ micEnable \in BOOLEAN /\ micDelayCnt \in 0 .. MicDelay /\ written \in Samples
  /\ micBuf \in [0 .. Turn - 1 -> Samples] /\ micRptr \in {0, 1}
  /\ task \in Tasks /\ pkt \in Rings /\ sent \in Seq(Samples) /\ switches \in 0 .. MaxSwitches

\* The buffer holds the last two halves that were written.
BufferInv ==
  \A i \in 0 .. written - 1 : written - i <= Turn => micBuf[i % Turn] = i + 1

\* While a half is encoded its samples come out in order, and the hardware does not
\* get as far as the sample the encoder reads next.
EncodeInv ==
  /\ task.at # "encode" => task.done = <<>>
  /\ task.at = "encode" =>
       /\ Len(task.done) < Half /\ \A j \in 1 .. Len(task.done) : task.done[j] = Base + j
       /\ task.seen <= written /\ written - task.seen <= Len(task.done) + 1
       /\ Base + Half <= task.seen /\ task.seen < Base + Turn

\* The packets are unbroken, the ring is in order and behind it what was sent.
RingInv ==
  /\ Queued <= PacketNum
  /\ \A s \in 0 .. PacketNum - 1 : Len(pkt.enc[s]) \in {0, Half}
  /\ \A i \in 0 .. Queued - 1 : Packet(pkt.enc[Place(i)])
  /\ \A i, j \in 0 .. Queued - 1 : i < j => pkt.enc[Place(i)][Half] < pkt.enc[Place(j)][1]
  /\ sent # <<>> =>
       Packet(sent) /\ \A i \in 0 .. Queued - 1 : sent[Half] < pkt.enc[Place(i)][1]

\* No packet holds a sample after e.
UpTo(e) ==
  /\ \A i \in 0 .. Queued - 1 : pkt.enc[Place(i)][Half] <= e
  /\ sent # <<>> => sent[Half] <= e

\* The packets end where a half of the parity of micRptr begins, and the half that is
\* being encoded begins no earlier.
OrderInv ==
  \E k, e \in 0 .. written :
    e = Turn * k + micRptr * Half /\ UpTo(e) /\ (task.at = "encode" => e <= Base)

VoiceIInv == VoiceTypes /\ BufferInv /\ EncodeInv /\ RingInv /\ OrderInv

(* Remainders. *)
LEMMA DivMod ==
  ASSUME NEW a \in Int, NEW n \in Nat \ {0}
  PROVE  a \div n \in Int /\ a % n \in 0 .. n - 1 /\ a = n * (a \div n) + (a % n)
  OBVIOUS

LEMMA Residue ==
  ASSUME NEW n \in Nat \ {0}, NEW q \in Int, NEW x \in 0 .. n - 1
  PROVE  (n * q + x) % n = x
  <1> DEFINE a == n * q + x
             d == q - (a \div n)
  <1>1. a \in Int
    OBVIOUS
  <1> HIDE DEF a
  <1>2. a \div n \in Int /\ a % n \in 0 .. n - 1 /\ a = n * (a \div n) + (a % n)
    BY <1>1, DivMod
  <1>3. d \in Int /\ n * d = (a % n) - x
    BY <1>2 DEF a
  <1> HIDE DEF d
  <1>4. d = 0
    <2>1. d >= 1 => n * d >= n
      BY <1>3
    <2>2. d <= -1 => n * d <= -n
      BY <1>3
    <2>3. QED
      BY <1>2, <1>3, <2>1, <2>2
  <1>5. a % n = x
    BY <1>2, <1>3, <1>4
  <1>6. QED
    BY <1>5 DEF a

LEMMA SmallMod ==
  ASSUME NEW n \in Nat \ {0}, NEW a \in Int
  PROVE  /\ 0 <= a /\ a < n => a % n = a
         /\ n <= a /\ a < 2 * n => a % n = a - n
         /\ 2 * n <= a /\ a < 3 * n => a % n = a - 2 * n
         /\ -n <= a /\ a < 0 => a % n = a + n
  <1>1. ASSUME 0 <= a, a < n PROVE a % n = a
    <2>1. (n * 0 + a) % n = a
      BY <1>1, Residue
    <2>2. QED
      BY <2>1
  <1>2. ASSUME n <= a, a < 2 * n PROVE a % n = a - n
    <2>1. (n * 1 + (a - n)) % n = a - n
      BY <1>2, Residue
    <2>2. n * 1 + (a - n) = a
      OBVIOUS
    <2>3. QED
      BY <2>1, <2>2
  <1>3. ASSUME 2 * n <= a, a < 3 * n PROVE a % n = a - 2 * n
    <2>1. (n * 2 + (a - 2 * n)) % n = a - 2 * n
      BY <1>3, Residue
    <2>2. n * 2 + (a - 2 * n) = a
      OBVIOUS
    <2>3. QED
      BY <2>1, <2>2
  <1>4. ASSUME -n <= a, a < 0 PROVE a % n = a + n
    <2>1. (n * (-1) + (a + n)) % n = a + n
      BY <1>4, Residue
    <2>2. n * (-1) + (a + n) = a
      OBVIOUS
    <2>3. QED
      BY <2>1, <2>2
  <1>5. QED
    BY <1>1, <1>2, <1>3, <1>4

(* The pointers of the ring, which count to twice its size, in plain numbers. *)
Ahead(w, r) == IF w >= r THEN w - r ELSE w - r + 2 * PacketNum
Turned(w)   == IF w + 1 = 2 * PacketNum THEN 0 ELSE w + 1
Slot(a) == IF a < PacketNum THEN a ELSE IF a < 2 * PacketNum THEN a - PacketNum ELSE a - 2 * PacketNum

LEMMA PointerArithmetic ==
  ASSUME NEW w \in Counter, NEW r \in Counter
  PROVE  /\ (w - r) % (2 * PacketNum) = Ahead(w, r) /\ Ahead(w, r) \in 0 .. 2 * PacketNum - 1
         /\ (w + 1) % (2 * PacketNum) = Turned(w) /\ Turned(w) \in Counter
         /\ w % PacketNum = Slot(w)
         /\ \A i \in 0 .. PacketNum : (r + i) % PacketNum = Slot(r + i)
  <1> DEFINE m == 2 * PacketNum
  <1>1. PacketNum \in Nat \ {0} /\ m \in Nat \ {0} /\ w \in 0 .. m - 1 /\ r \in 0 .. m - 1
    BY VoiceAssumption DEF Counter
  <1>2. (w - r) % m = Ahead(w, r)
    <2> HIDE DEF m
    <2> DEFINE a == w - r
    <2>1. a \in Int /\ -m <= a /\ a < m
      BY <1>1
    <2> HIDE DEF a
    <2>2. (0 <= a => a % m = a) /\ (a < 0 => a % m = a + m)
      BY <1>1, <2>1, SmallMod
    <2>3. QED
      BY <1>1, <2>2 DEF Ahead, m, a
  <1>3. Ahead(w, r) \in 0 .. m - 1 /\ Turned(w) \in 0 .. m - 1
    BY <1>1 DEF Ahead, Turned
  <1>4. (w + 1) % m = Turned(w)
    <2> HIDE DEF m
    <2> DEFINE a == w + 1
    <2>1. a \in Int /\ 0 <= a /\ a < 2 * m
      BY <1>1
    <2> HIDE DEF a
    <2>2. (0 <= a /\ a < m => a % m = a) /\ (m <= a /\ a < 2 * m => a % m = a - m)
      BY <1>1, <2>1, SmallMod
    <2>3. QED
      BY <1>1, <2>1, <2>2 DEF Turned, m, a
  <1>5. ASSUME NEW a \in Int, 0 <= a, a < 3 * PacketNum
        PROVE  a % PacketNum = Slot(a)
    <2>1. /\ 0 <= a /\ a < PacketNum => a % PacketNum = a
          /\ PacketNum <= a /\ a < 2 * PacketNum => a % PacketNum = a - PacketNum
          /\ 2 * PacketNum <= a /\ a < 3 * PacketNum => a % PacketNum = a - 2 * PacketNum
      BY <1>1, SmallMod
    <2>2. QED
      BY <1>1, <1>5, <2>1 DEF Slot
  <1>6. w \in Int /\ 0 <= w /\ w < 3 * PacketNum
    BY <1>1
  <1>7. ASSUME NEW i \in 0 .. PacketNum
        PROVE  (r + i) % PacketNum = Slot(r + i)
    <2>1. r + i \in Int /\ 0 <= r + i /\ r + i < 3 * PacketNum
      BY <1>1
    <2>2. QED
      BY <1>5, <2>1
  <1>8. QED
    BY <1>2, <1>3, <1>4, <1>5, <1>6, <1>7 DEF Counter

LEMMA QueuedIs ==
  ASSUME pkt \in Rings
  PROVE  /\ Queued = Ahead(pkt.wptr, pkt.rptr) /\ Queued \in 0 .. 2 * PacketNum - 1
         /\ \A i \in 0 .. PacketNum : Place(i) = Slot(pkt.rptr + i) /\ Place(i) \in 0 .. PacketNum - 1
         /\ (Queued = 0 <=> pkt.wptr = pkt.rptr)
         /\ Queued <= PacketNum => pkt.wptr % PacketNum = Place(Queued)
  <1>1. pkt.wptr \in Counter /\ pkt.rptr \in Counter /\ PacketNum \in Nat \ {0}
    BY VoiceAssumption DEF Rings
  <1>2. Queued = Ahead(pkt.wptr, pkt.rptr) /\ Queued \in 0 .. 2 * PacketNum - 1
    BY <1>1, PointerArithmetic DEF Queued
  <1>3. \A i \in 0 .. PacketNum : Place(i) = Slot(pkt.rptr + i)
    BY <1>1, PointerArithmetic DEF Place
  <1>4. \A i \in 0 .. PacketNum : Slot(pkt.rptr + i) \in 0 .. PacketNum - 1
    BY <1>1 DEF Counter, Slot
  <1>5. Queued = 0 <=> pkt.wptr = pkt.rptr
    BY <1>1, <1>2 DEF Ahead, Counter
  <1>6. ASSUME Queued <= PacketNum PROVE pkt.wptr % PacketNum = Place(Queued)
    <2>1. pkt.wptr % PacketNum = Slot(pkt.wptr)
      BY <1>1, PointerArithmetic
    <2>2. Place(Queued) = Slot(pkt.rptr + Queued)
      BY <1>2, <1>3, <1>6
    <2>3. Slot(pkt.wptr) = Slot(pkt.rptr + Queued)
      BY <1>1, <1>2, <1>6 DEF Ahead, Slot, Counter
    <2>4. QED
      BY <2>1, <2>2, <2>3
  <1>7. QED
    BY <1>2, <1>3, <1>4, <1>5, <1>6

\* Places of two packets differ.
LEMMA PlacesDiffer ==
  ASSUME pkt \in Rings, NEW i \in 0 .. PacketNum, NEW j \in 0 .. PacketNum,
         i < j, j - i < PacketNum
  PROVE  Place(i) # Place(j)
  <1>1. pkt.rptr \in Counter /\ PacketNum \in Nat \ {0}
    BY VoiceAssumption DEF Rings
  <1>2. Place(i) = Slot(pkt.rptr + i) /\ Place(j) = Slot(pkt.rptr + j)
    BY QueuedIs
  <1>3. QED
    BY <1>1, <1>2 DEF Slot, Counter

LEMMA PushPointers ==
  ASSUME NEW w \in Counter, NEW r \in Counter, Ahead(w, r) <= PacketNum
  PROVE  /\ Ahead(Turned(w), r) = Ahead(w, r) + 1
         /\ Ahead(w, r) = PacketNum => Ahead(Turned(w), Turned(r)) = PacketNum
  <1>1. PacketNum \in Nat \ {0, 1} /\ w \in 0 .. 2 * PacketNum - 1 /\ r \in 0 .. 2 * PacketNum - 1
    BY VoiceAssumption DEF Counter
  <1>2. Ahead(Turned(w), r) = Ahead(w, r) + 1
    BY <1>1 DEF Ahead, Turned
  <1>3. Ahead(w, r) = PacketNum => Ahead(Turned(w), Turned(r)) = PacketNum
    BY <1>1 DEF Ahead, Turned
  <1>4. QED
    BY <1>2, <1>3

LEMMA NextSlot ==
  ASSUME NEW r \in Counter, NEW i \in 0 .. PacketNum - 1
  PROVE  Slot(Turned(r) + i) = Slot(r + (i + 1))
  <1>1. PacketNum \in Nat \ {0, 1} /\ r \in 0 .. 2 * PacketNum - 1
    BY VoiceAssumption DEF Counter
  <1>2. CASE r + 1 = 2 * PacketNum
    <2>1. Turned(r) = 0
      BY <1>2 DEF Turned
    <2>2. Slot(r + (i + 1)) = Slot(i)
      BY <1>1, <1>2 DEF Slot
    <2>3. Turned(r) + i = i
      BY <1>1, <2>1
    <2>4. QED
      BY <2>2, <2>3
  <1>3. CASE r + 1 # 2 * PacketNum
    <2>1. Turned(r) + i = r + (i + 1)
      BY <1>1, <1>3 DEF Turned
    <2>2. QED
      BY <2>1
  <1>4. QED
    BY <1>2, <1>3

\* How many packets a full ring drops to store one more.
Dropped == IF Queued = PacketNum THEN 1 ELSE 0

(* Storing a packet puts it behind the others; a full ring loses the oldest. *)
LEMMA StoreEffect ==
  ASSUME pkt \in Rings, Queued <= PacketNum, NEW p \in Seq(Samples), pkt' = Store(p)
  PROVE  /\ pkt' \in Rings /\ Queued' = Queued + 1 - Dropped
         /\ \A s \in 0 .. PacketNum - 1 : pkt'.enc[s] = p \/ pkt'.enc[s] = pkt.enc[s]
         /\ \A i \in 0 .. PacketNum - 1 :
              /\ i < Queued - Dropped => pkt'.enc[Place(i)'] = pkt.enc[Place(i + Dropped)]
              /\ i = Queued - Dropped => pkt'.enc[Place(i)'] = p
  <1> DEFINE w == pkt.wptr
             r == pkt.rptr
             w2 == Turned(w)
             r2 == IF Queued = PacketNum THEN Turned(r) ELSE r
             e2 == [pkt.enc EXCEPT ![w % PacketNum] = p]
  <1>1. w \in Counter /\ r \in Counter /\ PacketNum \in Nat \ {0}
        /\ pkt.enc \in [0 .. PacketNum - 1 -> Seq(Samples)]
    BY VoiceAssumption DEF Rings
  <1>2. w2 \in Counter /\ (w + 1) % (2 * PacketNum) = w2
        /\ Turned(r) \in Counter /\ (r + 1) % (2 * PacketNum) = Turned(r)
        /\ (w2 - r) % (2 * PacketNum) = Ahead(w2, r)
    BY <1>1, PointerArithmetic
  <1>3. Queued = Ahead(w, r) /\ Queued \in 0 .. PacketNum
    BY QueuedIs
  <1>4. (w2 - r) % (2 * PacketNum) > PacketNum <=> Queued = PacketNum
    BY <1>1, <1>2, <1>3, PushPointers
  <1>5. pkt' = [enc |-> e2, wptr |-> w2, rptr |-> r2]
    BY <1>2, <1>4 DEF Store
  <1>6. w % PacketNum = Place(Queued) /\ Place(Queued) \in 0 .. PacketNum - 1
    BY <1>3, QueuedIs
  <1>7. r2 \in Counter
    BY <1>1, <1>2
  <1>8. e2 \in [0 .. PacketNum - 1 -> Seq(Samples)] /\ e2[Place(Queued)] = p
        /\ \A s \in 0 .. PacketNum - 1 : s # Place(Queued) => e2[s] = pkt.enc[s]
    BY <1>1, <1>6
  <1>9. Ahead(w2, r2) = Queued + 1 - Dropped
    <2>1. CASE Queued = PacketNum
      <3>1. Ahead(w2, Turned(r)) = PacketNum /\ Dropped = 1 /\ r2 = Turned(r)
        BY <1>1, <1>3, <2>1, PushPointers DEF Dropped
      <3>2. QED
        BY <1>1, <2>1, <3>1
    <2>2. CASE Queued # PacketNum
      <3>1. Ahead(w2, r) = Queued + 1 /\ Dropped = 0 /\ r2 = r
        BY <1>1, <1>3, <2>2, PushPointers DEF Dropped
      <3>2. QED
        BY <1>1, <1>3, <3>1
    <2>3. QED
      BY <2>1, <2>2
  <1>10. ASSUME NEW i \in 0 .. PacketNum, i + Dropped \in 0 .. PacketNum
         PROVE  Slot(r2 + i) = Place(i + Dropped)
    <2>1. Place(i + Dropped) = Slot(r + (i + Dropped))
      BY <1>10, QueuedIs
    <2>2. Slot(r2 + i) = Slot(r + (i + Dropped))
      <3>1. CASE Queued = PacketNum
        <4>1. r2 = Turned(r) /\ Dropped = 1
          BY <3>1 DEF Dropped
        <4>2. i \in 0 .. PacketNum - 1
          BY <1>1, <1>10, <4>1
        <4>3. QED
          BY <1>1, <4>1, <4>2, NextSlot
      <3>2. CASE Queued # PacketNum
        <4>1. r2 = r /\ Dropped = 0 /\ i + 0 = i
          BY <3>2 DEF Dropped
        <4>2. QED
          BY <4>1
      <3>3. QED
        BY <3>1, <3>2
    <2>3. QED
      BY <2>1, <2>2
  <1> HIDE DEF w, r, w2, r2, e2
  <1>11. pkt'.wptr = w2 /\ pkt'.rptr = r2 /\ pkt'.enc = e2
    BY <1>5
  <1>12. pkt' \in Rings
    BY <1>2, <1>5, <1>7, <1>8 DEF Rings
  <1>13. Queued' = Queued + 1 - Dropped
    <2>1. Queued' = (w2 - r2) % (2 * PacketNum)
      BY <1>11 DEF Queued
    <2>2. QED
      BY <1>2, <1>7, <1>9, <2>1, PointerArithmetic
  <1>14. \A i \in 0 .. PacketNum : Place(i)' = Slot(r2 + i)
    <2>1. \A i \in 0 .. PacketNum : Place(i)' = (r2 + i) % PacketNum
      BY <1>11 DEF Place
    <2>2. QED
      BY <1>7, <2>1, PointerArithmetic
  <1>15. Dropped \in {0, 1} /\ (Dropped = 1 <=> Queued = PacketNum)
    BY DEF Dropped
  <1>16. ASSUME NEW i \in 0 .. PacketNum - 1, i < Queued - Dropped
         PROVE  pkt'.enc[Place(i)'] = pkt.enc[Place(i + Dropped)]
    <2> DEFINE j == i + Dropped
    <2>1. i \in 0 .. PacketNum /\ j \in 0 .. PacketNum /\ j < Queued /\ Queued - j < PacketNum + 1
          /\ (Queued = PacketNum => j > 0)
      BY <1>1, <1>3, <1>15, <1>16
    <2>2. Place(i)' = Place(j)
      BY <1>10, <1>14, <2>1
    <2> HIDE DEF j
    <2>3. Queued - j < PacketNum
      BY <1>1, <1>3, <2>1
    <2>4. Place(j) # Place(Queued)
      BY <1>3, <2>1, <2>3, PlacesDiffer
    <2>5. Place(j) \in 0 .. PacketNum - 1
      BY <2>1, QueuedIs
    <2>6. pkt'.enc[Place(i)'] = pkt.enc[Place(j)]
      BY <1>8, <1>11, <2>2, <2>4, <2>5
    <2>7. QED
      BY <2>6 DEF j
  <1>17. ASSUME NEW i \in 0 .. PacketNum - 1, i = Queued - Dropped
         PROVE  pkt'.enc[Place(i)'] = p
    <2>1. i \in 0 .. PacketNum /\ i + Dropped = Queued
      BY <1>1, <1>3, <1>15, <1>17
    <2>2. Place(i)' = Place(Queued)
      BY <1>3, <1>10, <1>14, <2>1
    <2>3. QED
      BY <1>8, <1>11, <2>2
  <1>18. ASSUME NEW s \in 0 .. PacketNum - 1
         PROVE  pkt'.enc[s] = p \/ pkt'.enc[s] = pkt.enc[s]
    BY <1>8, <1>11
  <1>19. QED
    BY <1>12, <1>13, <1>16, <1>17, <1>18

(* Sending takes the oldest packet out. *)
LEMMA SendEffect ==
  ASSUME pkt \in Rings, Queued <= PacketNum, pkt.rptr # pkt.wptr,
         pkt' = [pkt EXCEPT !.rptr = (@ + 1) % (2 * PacketNum)]
  PROVE  /\ pkt' \in Rings /\ Queued > 0 /\ Queued' = Queued - 1 /\ pkt'.enc = pkt.enc
         /\ pkt.rptr % PacketNum = Place(0)
         /\ \A i \in 0 .. PacketNum - 1 : Place(i)' = Place(i + 1)
  <1> DEFINE w == pkt.wptr
             r == pkt.rptr
             r2 == Turned(r)
  <1>1. w \in Counter /\ r \in Counter /\ PacketNum \in Nat \ {0, 1}
        /\ pkt.enc \in [0 .. PacketNum - 1 -> Seq(Samples)]
    BY VoiceAssumption DEF Rings
  <1>2. r2 \in Counter /\ (r + 1) % (2 * PacketNum) = r2
    BY <1>1, PointerArithmetic
  <1>3. Queued = Ahead(w, r) /\ Queued \in 0 .. PacketNum /\ Queued > 0
    BY QueuedIs
  <1>4. pkt' = [enc |-> pkt.enc, wptr |-> w, rptr |-> r2]
    BY <1>2 DEF Rings
  <1>5. Ahead(w, r2) = Queued - 1
    <2>1. w \in 0 .. 2 * PacketNum - 1 /\ r \in 0 .. 2 * PacketNum - 1 /\ w # r
      BY <1>1 DEF Counter
    <2> HIDE DEF w, r
    <2>2. CASE r + 1 = 2 * PacketNum
      <3>1. r2 = 0
        BY <2>2 DEF Turned
      <3>2. Ahead(w, r2) = w
        BY <2>1, <3>1 DEF Ahead
      <3>3. Ahead(w, r) = w + 1
        BY <1>1, <2>1, <2>2 DEF Ahead
      <3>4. QED
        BY <1>1, <1>3, <2>1, <3>2, <3>3
    <2>3. CASE r + 1 # 2 * PacketNum
      <3>1. r2 = r + 1
        BY <2>3 DEF Turned
      <3>2. (w >= r <=> w >= r + 1) /\ w - (r + 1) = (w - r) - 1
            /\ w - (r + 1) + 2 * PacketNum = (w - r + 2 * PacketNum) - 1
        BY <1>1, <2>1
      <3>3. Ahead(w, r + 1) = Ahead(w, r) - 1
        BY <3>2 DEF Ahead
      <3>4. QED
        BY <1>3, <3>1, <3>3
    <2>4. QED
      BY <2>2, <2>3
  <1>6. \A i \in 0 .. PacketNum - 1 : Slot(r2 + i) = Place(i + 1)
    <2>1. ASSUME NEW i \in 0 .. PacketNum - 1 PROVE Slot(r2 + i) = Place(i + 1)
      <3>1. i + 1 \in 0 .. PacketNum
        BY <1>1
      <3>2. Place(i + 1) = Slot(r + (i + 1))
        BY <3>1, QueuedIs
      <3>3. QED
        BY <1>1, <3>2, NextSlot
    <2>2. QED
      BY <2>1
  <1>7. r % PacketNum = Place(0)
    BY <1>1 DEF Place, Counter
  <1> HIDE DEF w, r, r2
  <1>9. pkt'.wptr = w /\ pkt'.rptr = r2 /\ pkt'.enc = pkt.enc
    BY <1>4
  <1>10. pkt' \in Rings
    BY <1>1, <1>2, <1>4 DEF Rings
  <1>11. Queued' = Queued - 1
    <2>1. Queued' = (w - r2) % (2 * PacketNum)
      BY <1>9 DEF Queued
    <2>2. QED
      BY <1>1, <1>2, <1>5, <2>1, PointerArithmetic
  <1>12. \A i \in 0 .. PacketNum - 1 : Place(i)' = Place(i + 1)
    <2>1. \A i \in 0 .. PacketNum - 1 : Place(i)' = (r2 + i) % PacketNum
      BY <1>9 DEF Place
    <2>2. \A i \in 0 .. PacketNum - 1 : (r2 + i) % PacketNum = Slot(r2 + i)
      BY <1>1, <1>2, PointerArithmetic
    <2>3. QED
      BY <1>6, <2>1, <2>2
  <1>13. QED
    BY <1>3, <1>7, <1>9, <1>10, <1>11, <1>12 DEF r

LEMMA TurnIs == Half \in Nat /\ Half >= 1 /\ Turn \in Nat \ {0} /\ Turn = 2 * Half
  BY VoiceAssumption DEF Turn

LEMMA TurnIndex == \A a \in Int : a % Turn \in 0 .. Turn - 1
  BY TurnIs, DivMod

LEMMA DistinctResidues ==
  ASSUME NEW n \in Nat \ {0}, NEW a \in Int, NEW b \in Int, a < b, b - a < n
  PROVE  a % n # b % n
  <1> DEFINE d == (b \div n) - (a \div n)
  <1>1. /\ a \div n \in Int /\ a = n * (a \div n) + (a % n) /\ a % n \in 0 .. n - 1
        /\ b \div n \in Int /\ b = n * (b \div n) + (b % n) /\ b % n \in 0 .. n - 1
    BY DivMod
  <1>2. ASSUME a % n = b % n PROVE n * d = b - a /\ d \in Int
    BY <1>1, <1>2
  <1> HIDE DEF d
  <1>3. ASSUME d \in Int PROVE (d >= 1 => n * d >= n) /\ (d <= 0 => n * d <= 0)
    BY <1>3
  <1>4. QED
    BY <1>2, <1>3

\* A turn more is Turn samples more.
LEMMA FewerTurns ==
  ASSUME NEW n \in Nat \ {0}, NEW a \in Int, NEW b \in Int, n * a < n * b + n
  PROVE  a <= b
  <1> DEFINE d == a - b
  <1>1. d \in Int /\ n * d < n
    OBVIOUS
  <1> HIDE DEF d
  <1>2. d <= 0
    BY <1>1
  <1>3. QED
    BY <1>2 DEF d

\* The ring and the packet sent last stay as they are.
RingSame == pkt' = pkt /\ sent' = sent

LEMMA RingUnchanged ==
  ASSUME RingInv, RingSame
  PROVE  RingInv' /\ \A e \in Int : UpTo(e) => UpTo(e)'
  BY DEF RingSame, RingInv, UpTo, Queued, Place, Packet

LEMMA VoiceInitInv == VoiceInit => VoiceIInv
  <1> SUFFICES ASSUME VoiceInit PROVE VoiceIInv
    OBVIOUS
  <1>1. VoiceTypes
    <2>1. 0 \in Samples /\ 0 \in Counter /\ micDelayCnt \in 0 .. MicDelay /\ switches \in 0 .. MaxSwitches
      BY VoiceAssumption DEF VoiceInit, Samples, Counter
    <2>2. <<>> \in Seq(Samples)
      OBVIOUS
    <2>3. micBuf \in [0 .. Turn - 1 -> Samples]
      BY <2>1 DEF VoiceInit, Turn
    <2>4. task \in Tasks
      BY <2>1, <2>2 DEF VoiceInit, Away, Tasks
    <2>5. pkt \in Rings
      BY <2>1, <2>2 DEF VoiceInit, Rings
    <2>6. QED
      BY <2>1, <2>2, <2>3, <2>4, <2>5 DEF VoiceInit, VoiceTypes
  <1>2. BufferInv
    BY DEF VoiceInit, BufferInv
  <1>3. EncodeInv
    BY DEF VoiceInit, EncodeInv, Away
  <1>4. Queued = 0
    BY <1>1, QueuedIs DEF VoiceInit, VoiceTypes
  <1>5. RingInv
    BY <1>4, VoiceAssumption DEF VoiceInit, RingInv
  <1>6. OrderInv
    BY <1>4, TurnIs DEF VoiceInit, OrderInv, UpTo, Away
  <1>7. QED
    BY <1>1, <1>2, <1>3, <1>5, <1>6 DEF VoiceIInv

LEMMA MicWriteStep == ASSUME VoiceIInv, MicWrite PROVE VoiceIInv'
  <1>1. VoiceTypes /\ BufferInv /\ EncodeInv /\ RingInv /\ OrderInv
    BY DEF VoiceIInv
  <1>2. /\ micBuf' = [micBuf EXCEPT ![written % Turn] = written + 1] /\ written' = written + 1
        /\ micEnable' = micEnable /\ micDelayCnt' = micDelayCnt /\ task' = task
        /\ micRptr' = micRptr /\ pkt' = pkt /\ sent' = sent /\ switches' = switches
        /\ written < MaxSamples
        /\ task.at = "encode" => written - task.seen <= Len(task.done)
    BY DEF MicWrite, MicWptr, Turn
  <1>3. written \in Nat /\ written + 1 \in Samples
    BY <1>1, <1>2, VoiceAssumption DEF VoiceTypes, Samples
  <1>4. VoiceTypes'
    BY <1>1, <1>2, <1>3 DEF VoiceTypes
  <1>5. BufferInv'
    <2>1. ASSUME NEW i \in 0 .. written, written + 1 - i <= Turn
          PROVE  micBuf'[i % Turn] = i + 1
      <3>1. i % Turn \in 0 .. Turn - 1 /\ i \in Int
        BY TurnIndex
      <3>2. CASE i = written
        BY <1>1, <1>2, <3>1, <3>2 DEF VoiceTypes
      <3>3. CASE i # written
        <4>1. i \in 0 .. written - 1 /\ written - i <= Turn
              /\ i < written /\ written - i < Turn
          BY <1>3, <2>1, <3>3, TurnIs
        <4>2. i % Turn # written % Turn
          <5>1. Turn \in Nat \ {0} /\ written \in Int
            BY <1>3, TurnIs
          <5>2. QED
            BY <3>1, <4>1, <5>1, DistinctResidues
        <4>3. micBuf[i % Turn] = i + 1
          BY <1>1, <4>1 DEF BufferInv
        <4>4. QED
          BY <1>1, <1>2, <3>1, <4>2, <4>3 DEF VoiceTypes
      <3>4. QED
        BY <3>2, <3>3
    <2>2. (written + 1) - 1 = written
      BY <1>3
    <2>3. QED
      BY <1>2, <2>1, <2>2 DEF BufferInv
  <1>6. EncodeInv'
    <2>1. Base' = Base
      BY <1>2 DEF Base
    <2>2. task.at = "encode" => task.seen <= written + 1 /\ (written + 1) - task.seen <= Len(task.done) + 1
      BY <1>1, <1>2, <1>3 DEF VoiceTypes, Tasks, EncodeInv, Samples
    <2>3. CASE task.at = "encode"
      <3>1. /\ Len(task.done) < Half /\ \A j \in 1 .. Len(task.done) : task.done[j] = Base + j
            /\ Base + Half <= task.seen /\ task.seen < Base + Turn
        BY <1>1, <2>3 DEF EncodeInv
      <3>2. task'.at = "encode" /\ task'.done = task.done /\ task'.seen = task.seen
        BY <1>2, <2>3
      <3>3. /\ Len(task'.done) < Half /\ \A j \in 1 .. Len(task'.done) : task'.done[j] = Base' + j
            /\ Base' + Half <= task'.seen /\ task'.seen < Base' + Turn
        BY <2>1, <3>1, <3>2
      <3>4. task'.seen <= written' /\ written' - task'.seen <= Len(task'.done) + 1
        BY <1>2, <2>2, <2>3
      <3>5. QED
        BY <3>2, <3>3, <3>4 DEF EncodeInv
    <2>4. CASE task.at # "encode"
      BY <1>1, <1>2, <2>4 DEF EncodeInv
    <2>5. QED
      BY <2>3, <2>4
  <1>7. RingInv' /\ \A e \in Int : UpTo(e) => UpTo(e)'
    BY <1>1, <1>2, RingUnchanged DEF RingSame
  <1>8. OrderInv'
    <2>1. PICK k \in 0 .. written, e \in 0 .. written :
            e = Turn * k + micRptr * Half /\ UpTo(e) /\ (task.at = "encode" => e <= Base)
      BY <1>1 DEF OrderInv
    <2>2. UpTo(e)' /\ k \in 0 .. written + 1 /\ e \in 0 .. written + 1
      BY <1>3, <1>7, <2>1
    <2>3. Base' = Base
      BY <1>2 DEF Base
    <2>4. QED
      BY <1>2, <2>1, <2>2, <2>3 DEF OrderInv
  <1>9. QED
    BY <1>4, <1>5, <1>6, <1>7, <1>8 DEF VoiceIInv

\* Switching the microphone and waiting change nothing the invariant ties together.
LEMMA OtherSteps ==
  ASSUME VoiceIInv, TaskAudioWaits \/ (\E en \in BOOLEAN : UiEnableMic(en)) \/ UNCHANGED voiceVars
  PROVE  VoiceIInv'
  <1>1. VoiceTypes /\ BufferInv /\ EncodeInv /\ RingInv /\ OrderInv
    BY DEF VoiceIInv
  <1>2. written' = written /\ micBuf' = micBuf /\ task' = task /\ micRptr' = micRptr
        /\ pkt' = pkt /\ sent' = sent
    BY DEF TaskAudioWaits, UiEnableMic, voiceVars
  <1>3. micEnable' \in BOOLEAN /\ micDelayCnt' \in 0 .. MicDelay /\ switches' \in 0 .. MaxSwitches
    BY <1>1, VoiceAssumption DEF VoiceTypes, TaskAudioWaits, UiEnableMic, voiceVars
  <1>4. VoiceTypes' /\ BufferInv'
    BY <1>1, <1>2, <1>3 DEF VoiceTypes, BufferInv
  <1>5. EncodeInv'
    BY <1>1, <1>2 DEF EncodeInv, Base
  <1>6. RingInv' /\ \A e \in Int : UpTo(e) => UpTo(e)'
    BY <1>1, <1>2, RingUnchanged DEF RingSame
  <1>7. OrderInv'
    <2>1. PICK k \in 0 .. written, e \in 0 .. written :
            e = Turn * k + micRptr * Half /\ UpTo(e) /\ (task.at = "encode" => e <= Base)
      BY <1>1 DEF OrderInv
    <2>2. UpTo(e)' /\ Base' = Base
      BY <1>2, <1>6, <2>1 DEF Base
    <2>3. QED
      BY <1>2, <2>1, <2>2 DEF OrderInv
  <1>8. QED
    BY <1>4, <1>5, <1>6, <1>7 DEF VoiceIInv

LEMMA TaskAudioStep == ASSUME VoiceIInv, TaskAudio PROVE VoiceIInv'
  <1> DEFINE t == written \div Turn
             u == written % Turn
  <1>1. VoiceTypes /\ BufferInv /\ EncodeInv /\ RingInv /\ OrderInv
    BY DEF VoiceIInv
  <1>2. /\ micDelayCnt' = MicDelay /\ micEnable' = micEnable /\ written' = written
        /\ micBuf' = micBuf /\ micRptr' = micRptr /\ pkt' = pkt /\ sent' = sent
        /\ switches' = switches
    BY DEF TaskAudio
  <1>3. task' = [at |-> IF HalfIsFull THEN "encode" ELSE "send", done |-> <<>>, seen |-> written]
    BY DEF TaskAudio, Away
  <1>4. task'.at \in {"encode", "send"} /\ task'.done = <<>> /\ task'.seen = written
        /\ (task'.at = "encode" => HalfIsFull)
    BY <1>3
  <1>5. written \in Samples /\ written \in Nat /\ micRptr \in {0, 1}
    BY <1>1, VoiceAssumption DEF VoiceTypes, Samples
  <1>6. task' \in Tasks
    <2>1. <<>> \in Seq(Samples)
      OBVIOUS
    <2>2. QED
      BY <1>3, <1>5, <2>1 DEF Tasks
  <1>7. VoiceTypes' /\ BufferInv'
    BY <1>1, <1>2, <1>6, VoiceAssumption DEF VoiceTypes, BufferInv
  <1>8. t \in Int /\ u \in 0 .. Turn - 1 /\ written = Turn * t + u
    <2>1. written \in Int /\ Turn \in Nat \ {0}
      BY <1>5, TurnIs
    <2>2. QED
      BY <2>1, DivMod
  <1>9. Base' = (written - u) - micRptr * Half
    BY <1>2, <1>4 DEF Base
  <1>10. task'.at = "encode" => (u - micRptr * Half < 0 \/ u - micRptr * Half >= Half)
    BY <1>4 DEF HalfIsFull, MicWptr, Turn
  <1> HIDE DEF t, u
  <1>11. task'.at = "encode" => (micRptr = 0 /\ u >= Half) \/ (micRptr = 1 /\ u < Half)
    BY <1>5, <1>8, <1>10, TurnIs
  <1>12. EncodeInv'
    <2>1. Len(task'.done) = 0
      BY <1>4
    <2>2. task'.at = "encode" => Base' + Half <= written /\ written < Base' + Turn
      BY <1>5, <1>8, <1>9, <1>11, TurnIs
    <2>3. written - written = 0
      BY <1>5
    <2>4. CASE task'.at = "encode"
      <3>1. /\ 0 < Half /\ \A j \in 1 .. 0 : task'.done[j] = Base' + j
            /\ written <= written /\ written - written <= 0 + 1
        BY <1>5, <2>3, TurnIs
      <3>2. QED
        BY <1>2, <1>4, <2>1, <2>2, <2>4, <3>1 DEF EncodeInv
    <2>5. CASE task'.at # "encode"
      BY <1>4, <2>5 DEF EncodeInv
    <2>6. QED
      BY <2>4, <2>5
  <1>13. RingInv' /\ \A e \in Int : UpTo(e) => UpTo(e)'
    BY <1>1, <1>2, RingUnchanged DEF RingSame
  <1>14. OrderInv'
    <2>1. PICK k \in 0 .. written, e \in 0 .. written :
            e = Turn * k + micRptr * Half /\ UpTo(e) /\ (task.at = "encode" => e <= Base)
      BY <1>1 DEF OrderInv
    <2>2. UpTo(e)'
      BY <1>13, <2>1
    <2>3. ASSUME task'.at = "encode" PROVE e <= Base'
      <3>1. CASE micRptr = 0
        <4>1. e = Turn * k /\ Base' = Turn * t
          BY <1>5, <1>8, <1>9, <2>1, <3>1, TurnIs
        <4>2. k <= t
          BY <1>5, <1>8, <2>1, <4>1, TurnIs, FewerTurns
        <4>3. QED
          BY <1>8, <4>1, <4>2, TurnIs
      <3>2. CASE micRptr = 1
        <4>1. e = Turn * k + Half /\ Base' = Turn * t - Half /\ u < Half
          BY <1>5, <1>8, <1>9, <1>11, <2>1, <2>3, <3>2, TurnIs
        <4>2. k + 1 <= t
          BY <1>5, <1>8, <2>1, <4>1, TurnIs, FewerTurns
        <4>3. Turn * (k + 1) <= Turn * t
          BY <1>8, <4>2, TurnIs
        <4>4. QED
          BY <1>8, <2>1, <4>1, <4>3, TurnIs
      <3>3. QED
        BY <1>5, <3>1, <3>2
    <2>4. QED
      BY <1>2, <2>1, <2>2, <2>3 DEF OrderInv
  <1>15. QED
    BY <1>7, <1>12, <1>13, <1>14 DEF VoiceIInv

\* The sample the encoder takes is the one that follows what it has.
NextSample == micBuf[micRptr * Half + Len(task.done)]

LEMMA NextSampleIs ==
  ASSUME VoiceIInv, task.at = "encode"
  PROVE  /\ NextSample = Base + Len(task.done) + 1 /\ NextSample \in Samples
         /\ Len(task.done) \in Nat /\ Len(task.done) < Half
         /\ Base \in Nat /\ Base + Half <= written /\ written \in Nat
         /\ \E k \in Nat : Base + Half = Turn * k + (1 - micRptr) * Half
  <1> DEFINE len == Len(task.done)
             s == task.seen \div Turn
             v == task.seen % Turn
             x == micRptr * Half + len
             b == Base
  <1>1. VoiceTypes /\ BufferInv /\ EncodeInv /\ OrderInv
    BY DEF VoiceIInv
  <1>2. written \in Nat /\ written \in Samples /\ micRptr \in {0, 1} /\ task.seen \in Nat /\ len \in Nat
    BY <1>1, VoiceAssumption DEF VoiceTypes, Samples, Tasks
  <1>3. /\ len < Half /\ task.seen <= written /\ written - task.seen <= len + 1
        /\ b + Half <= task.seen /\ task.seen < b + Turn
    BY <1>1 DEF EncodeInv
  <1>4. s \in Int /\ v \in 0 .. Turn - 1 /\ task.seen = Turn * s + v
    <2>1. task.seen \in Int /\ Turn \in Nat \ {0}
      BY <1>2, TurnIs
    <2>2. QED
      BY <2>1, DivMod
  <1>5. b = (task.seen - v) - micRptr * Half
    BY DEF Base
  <1>6. \E e \in Nat : e <= b
    BY <1>1, <1>2 DEF OrderInv
  <1> HIDE DEF len, s, v, b
  <1>7. b \in Nat
    <2>1. b \in Int
      BY <1>2, <1>4, <1>5, TurnIs
    <2>2. QED
      BY <1>6, <2>1
  <1>8. x \in 0 .. Turn - 1
    BY <1>2, <1>3, TurnIs
  <1>9. \E q \in Int : b + len = Turn * q + x
    <2>1. CASE micRptr = 0
      <3>1. b + len = Turn * s + x
        BY <1>2, <1>4, <1>5, <2>1, TurnIs
      <3>2. QED
        BY <1>4, <3>1
    <2>2. CASE micRptr = 1
      <3>1. b + len = Turn * s - Half + len /\ x = Half + len
        BY <1>2, <1>4, <1>5, <2>2, TurnIs
      <3>2. Turn * (s - 1) = Turn * s - Turn
        BY <1>4, TurnIs
      <3>3. b + len = Turn * (s - 1) + x
        BY <1>2, <1>4, <3>1, <3>2, TurnIs
      <3>4. QED
        BY <1>4, <3>3
    <2>3. QED
      BY <1>2, <2>1, <2>2
  <1>10. \E k \in Nat : b + Half = Turn * k + (1 - micRptr) * Half
    <2>1. CASE micRptr = 0
      <3>1. b = Turn * s /\ b + Half = Turn * s + (1 - micRptr) * Half
        BY <1>2, <1>4, <1>5, <2>1, TurnIs
      <3>2. 0 <= s
        <4>1. Turn * 0 < Turn * s + Turn
          BY <1>7, <3>1, TurnIs
        <4>2. QED
          BY <1>4, <4>1, TurnIs, FewerTurns
      <3>3. QED
        BY <1>4, <3>1, <3>2
    <2>2. CASE micRptr = 1
      <3>1. b + Half = Turn * s /\ b + Half = Turn * s + (1 - micRptr) * Half
        BY <1>2, <1>4, <1>5, <2>2, TurnIs
      <3>2. 0 <= s
        <4>1. Turn * 0 < Turn * s + Turn
          BY <1>7, <3>1, TurnIs
        <4>2. QED
          BY <1>4, <4>1, TurnIs, FewerTurns
      <3>3. QED
        BY <1>4, <3>1, <3>2
    <2>3. QED
      BY <1>2, <2>1, <2>2
  <1>11. micBuf[x] = (b + len) + 1
    <2> DEFINE i == b + len
    <2>1. i \in Int /\ i \in 0 .. written - 1 /\ written - i <= Turn
      BY <1>2, <1>3, <1>7, TurnIs
    <2>2. i % Turn = x
      <3>1. PICK q \in Int : i = Turn * q + x
        BY <1>9
      <3> HIDE DEF i, x
      <3>2. QED
        BY <1>8, <3>1, TurnIs, Residue
    <2> HIDE DEF i, x
    <2>3. micBuf[i % Turn] = i + 1
      BY <1>1, <2>1 DEF BufferInv
    <2>4. QED
      BY <2>2, <2>3 DEF i
  <1>12. micBuf[x] \in Samples
    BY <1>1, <1>8 DEF VoiceTypes
  <1>13. b + Half <= written
    BY <1>2, <1>3, <1>7, TurnIs
  <1>14. QED
    BY <1>2, <1>3, <1>7, <1>10, <1>11, <1>12, <1>13 DEF NextSample, len, b

LEMMA EncodeSampleStep ==
  ASSUME VoiceIInv, Encode, Len(task.done) + 1 < Half
  PROVE  VoiceIInv'
  <1> DEFINE len == Len(task.done)
             done == Append(task.done, NextSample)
  <1>1. VoiceTypes /\ BufferInv /\ EncodeInv /\ RingInv /\ OrderInv
    BY DEF VoiceIInv
  <1>2. task.at = "encode" /\ task.done \in Seq(Samples) /\ task.seen \in Samples
    BY <1>1 DEF VoiceTypes, Tasks, Encode
  <1>3. /\ NextSample = Base + len + 1 /\ NextSample \in Samples /\ len \in Nat
        /\ Base \in Nat /\ written \in Nat
    BY <1>2, NextSampleIs
  <1>4. done \in Seq(Samples) /\ Len(done) = len + 1 /\ done[len + 1] = NextSample
        /\ \A j \in 1 .. len : done[j] = task.done[j]
    BY <1>2, <1>3
  <1>5. /\ task' = [task EXCEPT !.done = done] /\ micRptr' = micRptr /\ pkt' = pkt
        /\ micEnable' = micEnable /\ micDelayCnt' = micDelayCnt /\ written' = written
        /\ micBuf' = micBuf /\ sent' = sent /\ switches' = switches
    BY <1>4 DEF Encode, NextSample
  <1> HIDE DEF done
  <1>6. task'.at = "encode" /\ task'.done = done /\ task'.seen = task.seen /\ task' \in Tasks
    BY <1>1, <1>2, <1>4, <1>5 DEF VoiceTypes, Tasks
  <1>7. VoiceTypes' /\ BufferInv'
    BY <1>1, <1>5, <1>6 DEF VoiceTypes, BufferInv
  <1>8. Base' = Base
    BY <1>5, <1>6 DEF Base
  <1>9. EncodeInv'
    <2>1. /\ \A j \in 1 .. len : task.done[j] = Base + j
          /\ task.seen <= written /\ written - task.seen <= len + 1
          /\ Base + Half <= task.seen /\ task.seen < Base + Turn
      BY <1>1, <1>2 DEF EncodeInv
    <2>2. \A j \in 1 .. len + 1 : done[j] = Base + j
      <3>1. ASSUME NEW j \in 1 .. len + 1 PROVE done[j] = Base + j
        <4>1. CASE j = len + 1
          BY <1>3, <1>4, <4>1
        <4>2. CASE j # len + 1
          <5>1. j \in 1 .. len
            BY <1>3, <4>2
          <5>2. QED
            BY <1>4, <2>1, <5>1
        <4>3. QED
          BY <4>1, <4>2
      <3>2. QED
        BY <3>1
    <2>3. written - task.seen <= (len + 1) + 1
      BY <1>2, <1>3, <2>1, VoiceAssumption DEF Samples
    <2> HIDE DEF len
    <2>4. /\ Len(task'.done) < Half /\ Len(task'.done) = len + 1
          /\ \A j \in 1 .. Len(task'.done) : task'.done[j] = Base' + j
      BY <1>4, <1>6, <1>8, <2>2 DEF len
    <2>5. task'.seen <= written' /\ written' - task'.seen <= Len(task'.done) + 1
          /\ Base' + Half <= task'.seen /\ task'.seen < Base' + Turn
      BY <1>5, <1>6, <1>8, <2>1, <2>3, <2>4
    <2>6. QED
      BY <1>6, <2>4, <2>5 DEF EncodeInv
  <1>10. RingInv' /\ \A e \in Int : UpTo(e) => UpTo(e)'
    BY <1>1, <1>5, RingUnchanged DEF RingSame
  <1>11. OrderInv'
    <2>1. PICK k \in 0 .. written, e \in 0 .. written :
            e = Turn * k + micRptr * Half /\ UpTo(e) /\ (task.at = "encode" => e <= Base)
      BY <1>1 DEF OrderInv
    <2>2. UpTo(e)'
      BY <1>10, <2>1
    <2>3. QED
      BY <1>2, <1>5, <1>6, <1>8, <2>1, <2>2 DEF OrderInv
  <1>12. QED
    BY <1>7, <1>9, <1>10, <1>11 DEF VoiceIInv

LEMMA PacketGrows ==
  ASSUME NEW p, Packet(p)
  PROVE  p[1] \in Nat /\ p[Half] \in Nat /\ p[1] <= p[Half]
  <1>1. p[1] \in Samples /\ p[Half] \in Samples /\ p[Half] = p[1] + (Half - 1)
    BY TurnIs DEF Packet
  <1>2. QED
    BY <1>1, TurnIs, VoiceAssumption DEF Samples

LEMMA StoreKeepsOrder ==
  ASSUME pkt \in Rings, RingInv, NEW p, Packet(p), NEW e \in Int, UpTo(e), e < p[1],
         pkt' = Store(p), sent' = sent
  PROVE  pkt' \in Rings /\ RingInv' /\ (\A f \in Int : p[Half] <= f => UpTo(f)')
  <1> DEFINE Old(i) == pkt.enc[Place(i)]
             New(i) == pkt'.enc[Place(i)']
             n == Queued
             d == Dropped
  <1>1. p \in Seq(Samples) /\ Len(p) = Half /\ PacketNum \in Nat \ {0, 1} /\ n <= PacketNum
        /\ n \in 0 .. PacketNum
    BY QueuedIs, VoiceAssumption DEF Packet, RingInv
  <1>2. p[1] \in Int /\ p[Half] \in Int /\ p[1] <= p[Half]
    BY PacketGrows
  <1>3. /\ pkt' \in Rings /\ Queued' = n + 1 - d
        /\ \A s \in 0 .. PacketNum - 1 : pkt'.enc[s] = p \/ pkt'.enc[s] = pkt.enc[s]
        /\ \A i \in 0 .. PacketNum - 1 : /\ i < n - d => New(i) = Old(i + d)
                                         /\ i = n - d => New(i) = p
    BY <1>1, StoreEffect
  <1>4. d \in {0, 1} /\ (d = 1 <=> n = PacketNum)
    BY DEF Dropped
  <1>5. /\ \A i \in 0 .. n - 1 : Packet(Old(i)) /\ Old(i)[Half] <= e
        /\ \A i, j \in 0 .. n - 1 : i < j => Old(i)[Half] < Old(j)[1]
        /\ sent # <<>> => Packet(sent) /\ sent[Half] <= e
                          /\ \A i \in 0 .. n - 1 : sent[Half] < Old(i)[1]
    BY DEF RingInv, UpTo
  <1> HIDE DEF n, d, Old, New
  <1>6. n + 1 - d \in 0 .. PacketNum
    BY <1>1, <1>4
  <1>7. ASSUME NEW i \in 0 .. (n + 1 - d) - 1
        PROVE  \/ i < n - d /\ i + d \in 0 .. n - 1 /\ New(i) = Old(i + d)
               \/ i = n - d /\ New(i) = p
    <2>1. i \in 0 .. PacketNum - 1
      BY <1>1, <1>4, <1>6
    <2>2. (i < n - d /\ i + d \in 0 .. n - 1) \/ i = n - d
      BY <1>1, <1>4
    <2>3. QED
      BY <1>3, <2>1, <2>2
  <1>8. ASSUME NEW i \in 0 .. (n + 1 - d) - 1
        PROVE  /\ Packet(New(i)) /\ New(i)[Half] <= p[Half]
               /\ sent # <<>> => sent[Half] < New(i)[1]
    <2>1. CASE i < n - d /\ i + d \in 0 .. n - 1 /\ New(i) = Old(i + d)
      <3>1. Packet(Old(i + d)) /\ Old(i + d)[Half] <= e
            /\ (sent # <<>> => sent[Half] < Old(i + d)[1])
        BY <1>5, <2>1
      <3>2. Old(i + d)[Half] \in Int
        BY <3>1, PacketGrows
      <3>3. QED
        BY <1>2, <2>1, <3>1, <3>2
    <2>2. CASE i = n - d /\ New(i) = p
      <3>1. sent # <<>> => sent[Half] < p[1]
        BY <1>2, <1>5, PacketGrows
      <3>2. QED
        BY <1>2, <2>2, <3>1
    <2>3. QED
      BY <1>7, <2>1, <2>2
  <1>9. ASSUME NEW i \in 0 .. (n + 1 - d) - 1, NEW j \in 0 .. (n + 1 - d) - 1, i < j
        PROVE  New(i)[Half] < New(j)[1]
    <2>1. i < n - d /\ i + d \in 0 .. n - 1 /\ New(i) = Old(i + d)
      BY <1>1, <1>4, <1>7, <1>9
    <2>2. CASE j < n - d /\ j + d \in 0 .. n - 1 /\ New(j) = Old(j + d)
      <3>1. i + d < j + d
        BY <1>4, <1>9
      <3>2. QED
        BY <1>5, <2>1, <2>2, <3>1
    <2>3. CASE j = n - d /\ New(j) = p
      <3>1. Packet(Old(i + d)) /\ Old(i + d)[Half] <= e
        BY <1>5, <2>1
      <3>2. Old(i + d)[Half] \in Int
        BY <3>1, PacketGrows
      <3>3. QED
        BY <1>2, <2>1, <2>3, <3>1, <3>2
    <2>4. QED
      BY <1>7, <2>2, <2>3
  <1>10. \A s \in 0 .. PacketNum - 1 : Len(pkt'.enc[s]) \in {0, Half}
    BY <1>1, <1>3 DEF RingInv
  <1>11. RingInv'
    <2>1. Queued' <= PacketNum
      BY <1>1, <1>3, <1>6 DEF n, d
    <2>2. \A i \in 0 .. Queued' - 1 : Packet(New(i))
      BY <1>3, <1>8
    <2>3. \A i, j \in 0 .. Queued' - 1 : i < j => New(i)[Half] < New(j)[1]
      BY <1>3, <1>9
    <2>4. sent # <<>> => Packet(sent) /\ \A i \in 0 .. Queued' - 1 : sent[Half] < New(i)[1]
      BY <1>3, <1>5, <1>8
    <2>5. QED
      BY <1>10, <2>1, <2>2, <2>3, <2>4 DEF RingInv, New, Packet
  <1>12. ASSUME NEW f \in Int, p[Half] <= f PROVE UpTo(f)'
    <2>1. ASSUME NEW i \in 0 .. Queued' - 1 PROVE New(i)[Half] <= f
      <3>1. Packet(New(i)) /\ New(i)[Half] <= p[Half]
        BY <1>3, <1>8
      <3>2. New(i)[Half] \in Int
        BY <3>1, PacketGrows
      <3>3. QED
        BY <1>2, <1>12, <3>1, <3>2
    <2>2. sent # <<>> => sent[Half] <= f
      BY <1>2, <1>5, <1>12, PacketGrows
    <2>3. QED
      BY <2>1, <2>2 DEF UpTo, New
  <1>13. QED
    BY <1>3, <1>11, <1>12

LEMMA EncodePacketStep ==
  ASSUME VoiceIInv, Encode, Len(task.done) + 1 >= Half
  PROVE  VoiceIInv'
  <1> DEFINE len == Len(task.done)
             done == Append(task.done, NextSample)
  <1>1. VoiceTypes /\ BufferInv /\ EncodeInv /\ RingInv /\ OrderInv
    BY DEF VoiceIInv
  <1>2. task.at = "encode" /\ task.done \in Seq(Samples) /\ task.seen \in Samples
    BY <1>1 DEF VoiceTypes, Tasks, Encode
  <1>3. /\ NextSample = Base + len + 1 /\ NextSample \in Samples /\ len \in Nat /\ len < Half
        /\ Base \in Nat /\ Base + Half <= written /\ written \in Nat
        /\ \E k \in Nat : Base + Half = Turn * k + (1 - micRptr) * Half
    BY <1>2, NextSampleIs
  <1>4. len + 1 = Half
    BY <1>3, TurnIs
  <1>5. done \in Seq(Samples) /\ Len(done) = Half /\ done[Half] = NextSample
        /\ \A j \in 1 .. len : done[j] = task.done[j]
    BY <1>2, <1>3, <1>4
  <1>6. /\ task' = [Away EXCEPT !.at = "send"] /\ micRptr' = 1 - micRptr /\ pkt' = Store(done)
        /\ micEnable' = micEnable /\ micDelayCnt' = micDelayCnt /\ written' = written
        /\ micBuf' = micBuf /\ sent' = sent /\ switches' = switches
    BY <1>5, TurnIs DEF Encode, NextSample
  <1> DEFINE b == Base
  <1>7. \A j \in 1 .. Half : done[j] = b + j
    <2>1. ASSUME NEW j \in 1 .. Half PROVE done[j] = b + j
      <3>1. CASE j = Half
        BY <1>3, <1>4, <1>5, <3>1, TurnIs
      <3>2. CASE j # Half
        <4>1. j \in 1 .. len
          BY <1>3, <1>4, <3>2, TurnIs
        <4>2. done[j] = task.done[j] /\ task.done[j] = b + j
          BY <1>1, <1>2, <1>5, <4>1 DEF EncodeInv
        <4>3. QED
          BY <4>2
      <3>3. QED
        BY <3>1, <3>2
    <2>2. QED
      BY <2>1
  <1>8. done[1] = b + 1 /\ done[Half] = b + Half /\ b \in Nat
    BY <1>3, <1>7, TurnIs
  <1> HIDE DEF done, b
  <1>9. Packet(done)
    <2>1. \A j \in 1 .. Half : done[j] = done[1] + (j - 1)
      BY <1>7, <1>8
    <2>2. QED
      BY <1>5, <1>8, <2>1 DEF Packet
  <1>10. PICK k \in 0 .. written, e \in 0 .. written :
           e = Turn * k + micRptr * Half /\ UpTo(e) /\ (task.at = "encode" => e <= Base)
    BY <1>1 DEF OrderInv
  <1>11. e \in Int /\ e < done[1]
    BY <1>2, <1>3, <1>8, <1>10 DEF b
  <1>12. pkt' \in Rings /\ RingInv' /\ (\A f \in Int : done[Half] <= f => UpTo(f)')
    BY <1>1, <1>6, <1>9, <1>10, <1>11, StoreKeepsOrder DEF VoiceTypes
  <1>13. task' = [at |-> "send", done |-> <<>>, seen |-> 0]
    BY <1>6 DEF Away
  <1>14. task' \in Tasks
    <2>1. <<>> \in Seq(Samples) /\ 0 \in Samples
      BY VoiceAssumption DEF Samples
    <2>2. QED
      BY <1>13, <2>1 DEF Tasks
  <1>15. VoiceTypes' /\ BufferInv'
    BY <1>1, <1>6, <1>12, <1>14 DEF VoiceTypes, BufferInv
  <1>16. EncodeInv'
    BY <1>13 DEF EncodeInv
  <1>17. OrderInv'
    <2>1. PICK m \in Nat : Base + Half = Turn * m + (1 - micRptr) * Half
      BY <1>3
    <2>2. PICK f \in Int : f = Base + Half
      BY <1>3, TurnIs
    <2>3. UpTo(f)' /\ f = Turn * m + micRptr' * Half
      BY <1>6, <1>8, <1>12, <2>1, <2>2 DEF b
    <2>4. f \in 0 .. written
      BY <1>3, <2>2, TurnIs
    <2>5. m \in 0 .. written
      <3>1. micRptr \in {0, 1}
        BY <1>1 DEF VoiceTypes
      <3>2. Turn * m <= f
        BY <2>1, <2>2, <3>1, TurnIs
      <3>3. m <= Turn * m
        BY TurnIs
      <3>4. QED
        BY <1>3, <2>4, <3>2, <3>3, TurnIs
    <2>6. task'.at # "encode"
      BY <1>13
    <2>7. QED
      BY <1>6, <2>3, <2>4, <2>5, <2>6 DEF OrderInv
  <1>18. QED
    BY <1>12, <1>15, <1>16, <1>17 DEF VoiceIInv

LEMMA SendPacketStep ==
  ASSUME VoiceIInv, NEW room \in BOOLEAN, SendPacket(room)
  PROVE  VoiceIInv' /\ (sent' # sent => Packet(sent') /\ (sent # <<>> => sent[Half] < sent'[1]))
  <1>1. VoiceTypes /\ BufferInv /\ EncodeInv /\ RingInv /\ OrderInv
    BY DEF VoiceIInv
  <1>2. /\ task' = [at |-> "idle", done |-> <<>>, seen |-> 0] /\ micEnable' = micEnable
        /\ micDelayCnt' = micDelayCnt /\ written' = written /\ micBuf' = micBuf
        /\ micRptr' = micRptr /\ switches' = switches
    BY DEF SendPacket, Away
  <1>3. task' \in Tasks
    <2>1. <<>> \in Seq(Samples) /\ 0 \in Samples
      BY VoiceAssumption DEF Samples
    <2>2. QED
      BY <1>2, <2>1 DEF Tasks
  <1>4. BufferInv' /\ EncodeInv'
    BY <1>1, <1>2 DEF BufferInv, EncodeInv
  <1>5. PICK k \in 0 .. written, e \in 0 .. written :
           e = Turn * k + micRptr * Half /\ UpTo(e) /\ (task.at = "encode" => e <= Base)
    BY <1>1 DEF OrderInv
  <1>6. ASSUME RingInv', UpTo(e)', pkt' \in Rings, sent' \in Seq(Samples) PROVE VoiceIInv'
    <2>1. OrderInv'
      BY <1>2, <1>5, <1>6 DEF OrderInv
    <2>2. VoiceTypes'
      BY <1>1, <1>2, <1>3, <1>6 DEF VoiceTypes
    <2>3. QED
      BY <1>4, <1>6, <2>1, <2>2 DEF VoiceIInv
  <1>7. CASE room /\ pkt.rptr # pkt.wptr
    <2> DEFINE Old(i) == pkt.enc[Place(i)]
               New(i) == pkt'.enc[Place(i)']
               n == Queued
    <2>1. sent' = pkt.enc[pkt.rptr % PacketNum]
          /\ pkt' = [pkt EXCEPT !.rptr = (@ + 1) % (2 * PacketNum)]
      BY <1>7 DEF SendPacket
    <2>2. /\ pkt' \in Rings /\ n > 0 /\ Queued' = n - 1 /\ pkt'.enc = pkt.enc
          /\ pkt.rptr % PacketNum = Place(0)
          /\ \A i \in 0 .. PacketNum - 1 : Place(i)' = Place(i + 1)
      BY <1>1, <1>7, <2>1, SendEffect DEF VoiceTypes, RingInv
    <2>3. n \in 0 .. PacketNum /\ PacketNum \in Nat \ {0, 1}
      BY <1>1, QueuedIs, VoiceAssumption DEF VoiceTypes, RingInv
    <2>4. /\ \A i \in 0 .. n - 1 : Packet(Old(i)) /\ Old(i)[Half] <= e
          /\ \A i, j \in 0 .. n - 1 : i < j => Old(i)[Half] < Old(j)[1]
          /\ sent # <<>> => \A i \in 0 .. n - 1 : sent[Half] < Old(i)[1]
      BY <1>1, <1>5 DEF RingInv, UpTo
    <2>5. sent' = Old(0)
      BY <2>1, <2>2
    <2> HIDE DEF n
    <2>6. \A i \in 0 .. (n - 1) - 1 : i + 1 \in 0 .. n - 1 /\ New(i) = Old(i + 1)
      BY <2>2, <2>3
    <2> HIDE DEF Old, New
    <2>7. 0 \in 0 .. n - 1
      BY <2>2, <2>3
    <2>8. Packet(sent') /\ sent'[Half] <= e /\ (sent # <<>> => sent[Half] < sent'[1])
      BY <2>4, <2>5, <2>7
    <2>9. RingInv'
      <3>1. Queued' <= PacketNum /\ \A s \in 0 .. PacketNum - 1 : Len(pkt'.enc[s]) \in {0, Half}
        BY <1>1, <2>2, <2>3 DEF RingInv, n
      <3>2. \A i \in 0 .. Queued' - 1 : Packet(New(i)) /\ sent'[Half] < New(i)[1]
        <4>1. ASSUME NEW i \in 0 .. (n - 1) - 1
              PROVE  Packet(New(i)) /\ sent'[Half] < New(i)[1]
          <5>1. i + 1 \in 0 .. n - 1 /\ New(i) = Old(i + 1) /\ 0 < i + 1
            BY <2>6
          <5>2. QED
            BY <2>4, <2>5, <2>7, <5>1
        <4>2. QED
          BY <2>2, <4>1
      <3>3. \A i, j \in 0 .. Queued' - 1 : i < j => New(i)[Half] < New(j)[1]
        <4>1. ASSUME NEW i \in 0 .. (n - 1) - 1, NEW j \in 0 .. (n - 1) - 1, i < j
              PROVE  New(i)[Half] < New(j)[1]
          <5>1. /\ i + 1 \in 0 .. n - 1 /\ New(i) = Old(i + 1)
                /\ j + 1 \in 0 .. n - 1 /\ New(j) = Old(j + 1) /\ i + 1 < j + 1
            BY <2>6, <4>1
          <5>2. QED
            BY <2>4, <5>1
        <4>2. QED
          BY <2>2, <4>1
      <3>4. QED
        BY <2>8, <3>1, <3>2, <3>3 DEF RingInv, New, Packet
    <2>10. UpTo(e)'
      <3>1. \A i \in 0 .. Queued' - 1 : New(i)[Half] <= e
        BY <2>2, <2>4, <2>6
      <3>2. QED
        BY <2>8, <3>1 DEF UpTo, New
    <2>11. QED
      BY <1>6, <2>2, <2>8, <2>9, <2>10 DEF Packet
  <1>8. CASE ~(room /\ pkt.rptr # pkt.wptr)
    <2>1. pkt' = pkt /\ sent' = sent
      BY <1>8 DEF SendPacket
    <2>2. RingInv' /\ UpTo(e)'
      BY <1>1, <1>5, <2>1, RingUnchanged DEF RingSame
    <2>3. QED
      BY <1>1, <1>6, <2>1, <2>2 DEF VoiceTypes
  <1>9. QED
    BY <1>7, <1>8

LEMMA VoiceStep ==
  ASSUME VoiceIInv, [VoiceNext]_voiceVars
  PROVE  /\ VoiceIInv'
         /\ sent' # sent => Packet(sent') /\ (sent # <<>> => sent[Half] < sent'[1])
  <1>1. CASE MicWrite
    BY <1>1, MicWriteStep DEF MicWrite
  <1>2. CASE TaskAudioWaits
    BY <1>2, OtherSteps DEF TaskAudioWaits
  <1>3. CASE TaskAudio
    BY <1>3, TaskAudioStep DEF TaskAudio
  <1>4. CASE Encode
    <2>1. sent' = sent
      BY <1>4 DEF Encode
    <2>2. Len(task.done) \in Nat
      <3>1. task.done \in Seq(Samples)
        BY DEF VoiceIInv, VoiceTypes, Tasks
      <3>2. QED
        BY <3>1
    <2>3. Len(task.done) + 1 < Half \/ Len(task.done) + 1 >= Half
      BY <2>2, TurnIs
    <2>4. QED
      BY <1>4, <2>1, <2>3, EncodeSampleStep, EncodePacketStep
  <1>5. CASE \E en \in BOOLEAN : UiEnableMic(en)
    BY <1>5, OtherSteps DEF UiEnableMic
  <1>6. CASE \E room \in BOOLEAN : SendPacket(room)
    BY <1>6, SendPacketStep
  <1>7. CASE UNCHANGED voiceVars
    BY <1>7, OtherSteps DEF voiceVars
  <1>8. QED
    BY <1>1, <1>2, <1>3, <1>4, <1>5, <1>6, <1>7 DEF VoiceNext

LEMMA VoiceInductive == VoiceSpec => []VoiceIInv
  <1>1. VoiceIInv /\ [VoiceNext]_voiceVars => VoiceIInv'
    BY VoiceStep
  <1>2. QED
    BY <1>1, VoiceInitInv, PTL DEF VoiceSpec

(* task_audio, the hardware and the link layer keep every pointer in its range,   *)
(* the ring holds its number of packets at most, and a packet is whole.           *)
THEOREM VoiceTypesCorrect == VoiceSpec => []VoiceTypeOK
  <1>1. VoiceIInv => VoiceTypeOK
    <2> SUFFICES ASSUME VoiceIInv PROVE VoiceTypeOK
      OBVIOUS
    <2>1. VoiceTypes /\ EncodeInv /\ RingInv
      BY DEF VoiceIInv
    <2>2. task.at \in {"idle", "encode", "send"} /\ task.seen \in Samples /\ task.done \in Seq(Samples)
          /\ pkt.wptr \in Counter /\ pkt.rptr \in Counter
      BY <2>1 DEF VoiceTypes, Tasks, Rings
    <2>3. Len(task.done) < Half
      <3>1. Len(<<>>) = 0
        OBVIOUS
      <3>2. QED
        BY <2>1, <3>1, TurnIs DEF EncodeInv
    <2>4. \A j \in DOMAIN task.done : task.done[j] \in Samples
      BY <2>2
    <2>5. Queued <= PacketNum /\ \A s \in 0 .. PacketNum - 1 : Len(pkt.enc[s]) \in {0, Half}
      BY <2>1 DEF RingInv
    <2>6. Len(sent) \in {0, Half}
      <3>1. CASE sent = <<>>
        BY <3>1
      <3>2. CASE sent # <<>>
        BY <2>1, <3>2 DEF RingInv, Packet
      <3>3. QED
        BY <3>1, <3>2
    <2>7. QED
      BY <2>1, <2>2, <2>3, <2>4, <2>5, <2>6 DEF VoiceTypeOK, VoiceTypes, Turn, Queued
  <1>2. QED
    BY <1>1, VoiceInductive, PTL

(* Whatever the order in which the hardware writes, task_audio encodes and the    *)
(* link layer takes packets: what leaves is an unbroken stretch of sound, later   *)
(* than all that left before.                                                      *)
THEOREM SoundStaysInOrder == VoiceSpec => VoiceInOrder
  <1> DEFINE Ordered ==
        sent' # sent => /\ \A j \in 1 .. Half - 1 : sent'[j + 1] = sent'[j] + 1
                        /\ sent # <<>> => sent[Half] < sent'[1]
                        /\ sent'[1] > 0
  <1>1. ASSUME NEW p, Packet(p) PROVE p[1] > 0 /\ \A j \in 1 .. Half - 1 : p[j + 1] = p[j] + 1
    <2>1. p[1] > 0 /\ p[1] \in Nat /\ \A j \in 1 .. Half : p[j] = p[1] + (j - 1)
      BY <1>1, PacketGrows DEF Packet
    <2>2. ASSUME NEW j \in 1 .. Half - 1 PROVE p[j + 1] = p[j] + 1
      <3>1. j \in 1 .. Half /\ j + 1 \in 1 .. Half
        BY TurnIs
      <3>2. QED
        BY <2>1, <3>1
    <2>3. QED
      BY <2>1, <2>2
  <1>2. VoiceIInv /\ [VoiceNext]_voiceVars => Ordered
    BY <1>1, VoiceStep
  <1>3. VoiceSpec => [][Ordered]_voiceVars
    BY <1>2, VoiceInductive, PTL DEF VoiceSpec
  <1>4. QED
    BY <1>3, PTL DEF VoiceInOrder
=============================================================================
