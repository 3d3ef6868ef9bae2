-------------------------- MODULE AudioBufferProofs --------------------------
(***************************************************************************)
(* Proofs about the dongle's voice path, for every size of the rings and   *)
(* of a frame: the pointers keep their ranges, the ring of compressed      *)
(* frames overflows by one frame at most, and the USB interrupt does not   *)
(* play the frame the main loop decodes into.                              *)
(*                                                                         *)
(* Neither of the two safety properties is inductive.  What the main loop  *)
(* remembers of the pointers (num_mic, num_dec) has to be related to where *)
(* they are by the time it acts on it, with two interrupts moving them in  *)
(* between; and a frame arrives after two ends of a pass only, so that a   *)
(* whole pass, which drops a frame too many, lies between two frames.      *)
(***************************************************************************)
EXTENDS AudioBuffer, Integers, TLAPS

\* What the main loop knows of abuf_mic, and how full it is when a frame may arrive.
MicInv ==
  /\ NumMic <= Ring + 1
  /\ passes = 2 => NumMic <= Ring
  /\ passes = 1 /\ pc \in {"decide", "decode"} => NumMic <= Ring
  /\ pc = "skip" => NumMic = num_mic \/ (passes = 0 /\ NumMic = num_mic + 1)
  /\ pc = "decide" /\ num_mic >= 1 => NumMic >= 1
  /\ pc = "decode" => NumMic >= 1

\* The USB side only takes frames away from what the main loop counted.
DecInv ==
  /\ pc = "skip" \/ (pc \in {"decide", "decode"} /\ ~skipped) => NumDec <= num_dec
  /\ pc = "decode" => num_dec <= Ring - 1

IInv == TypeOK /\ MicInv /\ DecInv

-----------------------------------------------------------------------------
(* Remainders. *)
LEMMA DivMod ==
  ASSUME NEW a \in Int, NEW n \in Nat \ {0}
  PROVE  a \div n \in Int /\ a % n \in 0 .. n - 1 /\ a = n * (a \div n) + (a % n)
  OBVIOUS

LEMMA Residue ==
  ASSUME NEW n \in Nat \ {0}, NEW q \in Int, NEW x \in 0 .. n - 1
  PROVE  (n * q + x) % n = x
  <1> DEFINE a == n * q + x
             d == q - (a \div n)
  <1>1. a \in Int
    OBVIOUS
  <1> HIDE DEF a
  <1>2. a \div n \in Int /\ a % n \in 0 .. n - 1 /\ a = n * (a \div n) + (a % n)
    BY <1>1, DivMod
  <1>3. d \in Int /\ n * d = (a % n) - x
    BY <1>2 DEF a
  <1> HIDE DEF d
  <1>4. d = 0
    <2>1. d >= 1 => n * d >= n
      BY <1>3
    <2>2. d <= -1 => n * d <= -n
      BY <1>3
    <2>3. QED
      BY <1>2, <1>3, <2>1, <2>2
  <1>5. a % n = x
    BY <1>2, <1>3, <1>4
  <1>6. QED
    BY <1>5 DEF a

LEMMA SmallMod ==
  ASSUME NEW n \in Nat \ {0}, NEW a \in Int
  PROVE  /\ 0 <= a /\ a < n => a % n = a
         /\ n <= a /\ a < 2 * n => a % n = a - n
         /\ 2 * n <= a /\ a < 3 * n => a % n = a - 2 * n
         /\ -n <= a /\ a < 0 => a % n = a + n
  <1>1. ASSUME 0 <= a, a < n PROVE a % n = a
    <2>1. (n * 0 + a) % n = a
      BY <1>1, Residue
    <2>2. QED
      BY <2>1
  <1>2. ASSUME n <= a, a < 2 * n PROVE a % n = a - n
    <2>1. (n * 1 + (a - n)) % n = a - n
      BY <1>2, Residue
    <2>2. n * 1 + (a - n) = a
      OBVIOUS
    <2>3. QED
      BY <2>1, <2>2
  <1>3. ASSUME 2 * n <= a, a < 3 * n PROVE a % n = a - 2 * n
    <2>1. (n * 2 + (a - 2 * n)) % n = a - 2 * n
      BY <1>3, Residue
    <2>2. n * 2 + (a - 2 * n) = a
      OBVIOUS
    <2>3. QED
      BY <2>1, <2>2
  <1>4. ASSUME -n <= a, a < 0 PROVE a % n = a + n
    <2>1. (n * (-1) + (a + n)) % n = a + n
      BY <1>4, Residue
    <2>2. n * (-1) + (a + n) = a
      OBVIOUS
    <2>3. QED
      BY <2>1, <2>2
  <1>5. QED
    BY <1>1, <1>2, <1>3, <1>4


-----------------------------------------------------------------------------
(* The counters. *)
LEMMA Sizes ==
  /\ Ring \in Nat /\ Ring >= 1 /\ Units \in Nat /\ Units >= 2
  /\ Wrap \in Nat \ {0} /\ Wrap > 2 * Ring /\ ResetLen \in Nat /\ ResetLen >= 1
  /\ Wrap * Units \in Nat
  BY AudioAssumption

\* The difference of two frame counters in plain numbers.
Behind(a, b) == IF a >= b THEN a - b ELSE (a - b) + Wrap

LEMMA FramesBehindIs ==
  ASSUME NEW a \in 0 .. Wrap - 1, NEW b \in 0 .. Wrap - 1
  PROVE  FramesBehind(a, b) = Behind(a, b) /\ FramesBehind(a, b) \in 0 .. Wrap - 1
  <1>1. Wrap \in Nat \ {0}
    BY Sizes
  <1>2. b % Wrap = b
    BY <1>1, SmallMod
  <1> DEFINE d == a + (Wrap - b)
  <1>3. d \in Int /\ 0 <= d /\ d < 2 * Wrap /\ FramesBehind(a, b) = d % Wrap
    BY <1>1, <1>2 DEF FramesBehind
  <1> HIDE DEF d
  <1>4. (d < Wrap => d % Wrap = d) /\ (d >= Wrap => d % Wrap = d - Wrap)
    BY <1>1, <1>3, SmallMod
  <1>5. QED
    BY <1>1, <1>3, <1>4 DEF Behind, d

LEMMA SuccIs ==
  ASSUME NEW a \in 0 .. Wrap - 1
  PROVE  Succ(a) = (IF a + 1 = Wrap THEN 0 ELSE a + 1) /\ Succ(a) \in 0 .. Wrap - 1
  <1>1. Wrap \in Nat \ {0}
    BY Sizes
  <1> DEFINE d == a + 1
  <1>2. d \in Int /\ 0 <= d /\ d <= Wrap /\ Wrap < 2 * Wrap
    BY <1>1
  <1> HIDE DEF d
  <1>3. (d < Wrap => d % Wrap = d) /\ (d = Wrap => d % Wrap = d - Wrap)
    BY <1>1, <1>2, SmallMod
  <1>4. QED
    BY <1>1, <1>2, <1>3 DEF Succ, d

\* One frame more at the writer, one frame more at the reader.
LEMMA BehindSucc ==
  ASSUME NEW a \in 0 .. Wrap - 1, NEW b \in 0 .. Wrap - 1
  PROVE  /\ FramesBehind(a, b) < Wrap - 1 => FramesBehind(Succ(a), b) = FramesBehind(a, b) + 1
         /\ FramesBehind(a, b) > 0 => FramesBehind(a, Succ(b)) = FramesBehind(a, b) - 1
         /\ FramesBehind(a, a) = 0
  <1>1. Wrap \in Nat \ {0} /\ Wrap > 2
    BY Sizes
  <1>2. /\ FramesBehind(a, b) = Behind(a, b) /\ FramesBehind(Succ(a), b) = Behind(Succ(a), b)
        /\ FramesBehind(a, Succ(b)) = Behind(a, Succ(b)) /\ FramesBehind(a, a) = Behind(a, a)
    BY SuccIs, FramesBehindIs
  <1>3. Behind(a, b) < Wrap - 1 => Behind(Succ(a), b) = Behind(a, b) + 1
    <2>1. Succ(a) = IF a + 1 = Wrap THEN 0 ELSE a + 1
      BY SuccIs
    <2>2. QED
      BY <1>1, <2>1 DEF Behind
  <1>4. Behind(a, b) > 0 => Behind(a, Succ(b)) = Behind(a, b) - 1
    <2>1. Succ(b) = IF b + 1 = Wrap THEN 0 ELSE b + 1
      BY SuccIs
    <2>2. QED
      BY <1>1, <2>1 DEF Behind
  <1>5. Behind(a, a) = 0
    BY DEF Behind
  <1>6. QED
    BY <1>2, <1>3, <1>4, <1>5

\* The frame of a unit.
LEMMA FrameOf ==
  ASSUME NEW f \in Int, NEW x \in 0 .. Units - 1
  PROVE  (Units * f + x) \div Units = f
  <1> DEFINE a == Units * f + x
             d == f - (a \div Units)
  <1>1. a \in Int /\ Units \in Nat \ {0}
    BY Sizes
  <1> HIDE DEF a
  <1>2. a \div Units \in Int /\ a % Units \in 0 .. Units - 1
        /\ a = Units * (a \div Units) + (a % Units)
    BY <1>1, DivMod
  <1>3. d \in Int /\ Units * d = (a % Units) - x
    BY <1>1, <1>2 DEF a
  <1> HIDE DEF d
  <1>4. d = 0
    <2>1. (d >= 1 => Units * d >= Units) /\ (d <= -1 => Units * d <= -Units)
      BY <1>1, <1>3
    <2>2. QED
      BY <1>1, <1>2, <1>3, <2>1
  <1>5. QED
    BY <1>2, <1>4 DEF a, d

LEMMA FrameIs ==
  ASSUME NEW u \in Int, NEW f \in Int, Units * f <= u, u < Units * f + Units
  PROVE  u \div Units = f
  <1>1. PICK x \in 0 .. Units - 1 : u = Units * f + x
    <2>1. u - Units * f \in 0 .. Units - 1 /\ u = Units * f + (u - Units * f)
      BY Sizes
    <2>2. QED
      BY <2>1
  <1>2. QED
    BY <1>1, FrameOf

LEMMA FrameBounds ==
  ASSUME NEW u \in 0 .. Wrap * Units - 1
  PROVE  /\ u \div Units \in 0 .. Wrap - 1
         /\ Units * (u \div Units) <= u /\ u < Units * (u \div Units) + Units
  <1> DEFINE f == u \div Units
  <1>1. u \in Int /\ Units \in Nat \ {0} /\ Units >= 2 /\ Wrap \in Nat
    BY Sizes
  <1>2. f \in Int /\ u % Units \in 0 .. Units - 1 /\ u = Units * f + (u % Units)
    BY <1>1, DivMod
  <1> HIDE DEF f
  <1>3. f >= 0
    <2>1. f <= -1 => Units * f <= -Units
      BY <1>1, <1>2
    <2>2. QED
      BY <1>1, <1>2, <2>1
  <1>4. f <= Wrap - 1
    <2>1. f >= Wrap => Units * f >= Units * Wrap
      BY <1>1, <1>2
    <2>2. Units * Wrap = Wrap * Units
      BY <1>1
    <2>3. QED
      BY <1>1, <1>2, <2>1, <2>2, Sizes
  <1>5. QED
    BY <1>1, <1>2, <1>3, <1>4 DEF f

\* A packet of two units reaches into the next frame at most.
LEMMA ReadAdvances ==
  ASSUME NEW rp \in 0 .. Wrap * Units - 1
  PROVE  /\ AdvanceRead(rp) \in 0 .. Wrap * Units - 1
         /\ \/ AdvanceRead(rp) \div Units = rp \div Units
            \/ AdvanceRead(rp) \div Units = Succ(rp \div Units)
  <1> DEFINE f == rp \div Units
             n == Wrap * Units
  <1>1. f \in 0 .. Wrap - 1 /\ Units * f <= rp /\ rp < Units * f + Units
    BY FrameBounds
  <1>2. n \in Nat /\ rp \in 0 .. n - 1 /\ Units \in Nat /\ Units >= 2 /\ Wrap \in Nat /\ Wrap >= 1
    BY Sizes
  <1>3. n = Units * (Wrap - 1) + Units
    BY <1>2
  <1>4. Succ(f) = IF f + 1 = Wrap THEN 0 ELSE f + 1
    BY <1>1, SuccIs
  <1>5. AdvanceRead(rp) = IF rp + 2 >= n THEN 0 ELSE rp + 2
    BY DEF AdvanceRead
  <1> HIDE DEF f, n
  <1>6. AdvanceRead(rp) \in 0 .. n - 1
    BY <1>2, <1>5
  <1>7. CASE rp + 2 >= n
    <2>1. Units * (Wrap - 1) <= rp /\ rp < Units * (Wrap - 1) + Units
      BY <1>2, <1>3, <1>7
    <2>2. f = Wrap - 1
      <3>1. Wrap - 1 \in Int /\ rp \in Int
        BY <1>2
      <3>2. QED
        BY <2>1, <3>1, FrameIs DEF f
    <2>3. 0 \div Units = 0
      <3>1. Units * 0 = 0 /\ 0 \in Int
        BY <1>2
      <3>2. QED
        BY <1>2, <3>1, FrameIs
    <2>4. AdvanceRead(rp) \div Units = Succ(f)
      BY <1>2, <1>4, <1>5, <1>7, <2>2, <2>3
    <2>5. QED
      BY <1>6, <2>4 DEF f, n
  <1>8. CASE rp + 2 < n
    <2> DEFINE u == rp + 2
    <2>1. u \in 0 .. n - 1 /\ u \in Int /\ AdvanceRead(rp) = u
      BY <1>2, <1>5, <1>8
    <2>2. u \div Units \in 0 .. Wrap - 1
      BY <2>1, FrameBounds DEF n
    <2>3. CASE u < Units * f + Units
      <3>1. Units * f <= u
        BY <1>1, <1>2
      <3>2. u \div Units = f
        BY <1>1, <2>1, <2>3, <3>1, FrameIs
      <3>3. QED
        BY <1>6, <2>1, <3>2 DEF f, n
    <2>4. CASE ~(u < Units * f + Units)
      <3>1. Units * (f + 1) = Units * f + Units
        BY <1>1, <1>2
      <3>2. Units * (f + 1) <= u /\ u < Units * (f + 1) + Units
        BY <1>1, <1>2, <2>4, <3>1
      <3>3. u \div Units = f + 1
        <4>1. f + 1 \in Int
          BY <1>1
        <4>2. QED
          BY <2>1, <3>2, <4>1, FrameIs
      <3>4. u \div Units = Succ(f)
        BY <1>1, <1>2, <1>4, <2>2, <3>3
      <3>5. QED
        BY <1>6, <2>1, <3>4 DEF f, n
    <2>5. QED
      BY <2>3, <2>4
  <1>9. QED
    BY <1>2, <1>7, <1>8

LEMMA WriteFrame ==
  ASSUME NEW f \in 0 .. Wrap - 1
  PROVE  f * Units \in 0 .. Wrap * Units - 1 /\ (f * Units) \div Units = f
  <1>1. Units \in Nat /\ Units >= 2 /\ Wrap \in Nat /\ Wrap >= 1
    BY Sizes
  <1>2. f * Units = Units * f /\ f * Units >= 0
    BY <1>1
  <1>3. f * Units <= (Wrap - 1) * Units /\ (Wrap - 1) * Units = Wrap * Units - Units
    BY <1>1
  <1>4. f * Units \in Int /\ Wrap * Units \in Int
    BY <1>1
  <1>5. (f * Units) \div Units = f
    BY <1>1, <1>2, <1>4, FrameIs
  <1>6. QED
    BY <1>1, <1>2, <1>3, <1>4, <1>5

LEMMA Frames ==
  TypeOK => /\ ReadFrame \in 0 .. Wrap - 1 /\ NumMic \in 0 .. Wrap - 1 /\ NumDec \in 0 .. Wrap - 1
            /\ Succ(mic_wptr) \in 0 .. Wrap - 1 /\ Succ(dec_wptr) \in 0 .. Wrap - 1
  BY FrameBounds, FramesBehindIs, SuccIs DEF TypeOK, ReadFrame, NumMic, NumDec

\* What a USB packet does: it never plays more than there is.
LEMMA UsbEffect ==
  ASSUME TypeOK, NEW late \in BOOLEAN, AbufDecUsb(late)
  PROVE  /\ reset' \in 0 .. ResetLen /\ dec_rptr' \in 0 .. Wrap * Units - 1
         /\ buffer_empty' \in BOOLEAN /\ NumDec' <= NumDec
         /\ mic_wptr' = mic_wptr /\ dec_wptr' = dec_wptr /\ start' = start /\ pc' = pc
         /\ num_mic' = num_mic /\ num_dec' = num_dec /\ skipped' = skipped
  <1> DEFINE r0 == IF late THEN ResetLen ELSE reset
             rp == IF r0 > 0 THEN dec_wptr * Units ELSE dec_rptr
             num == FramesBehind(dec_wptr, rp \div Units)
  <1>1. /\ reset' = IF r0 > 0 THEN r0 - 1 ELSE 0
        /\ dec_rptr' = IF num > 0 /\ Plays(num) THEN AdvanceRead(rp) ELSE rp
        /\ buffer_empty' = IF num = 0 THEN TRUE
                           ELSE IF Plays(num) THEN FALSE ELSE buffer_empty
        /\ mic_wptr' = mic_wptr /\ dec_wptr' = dec_wptr /\ start' = start /\ pc' = pc
        /\ num_mic' = num_mic /\ num_dec' = num_dec /\ skipped' = skipped
    BY DEF AbufDecUsb, ResetCountdown, local
  <1>2. /\ dec_wptr \in 0 .. Wrap - 1 /\ dec_rptr \in 0 .. Wrap * Units - 1
        /\ reset \in 0 .. ResetLen /\ buffer_empty \in BOOLEAN
    BY DEF TypeOK
  <1>3. r0 \in 0 .. ResetLen
    BY <1>2, Sizes
  <1>4. rp \in 0 .. Wrap * Units - 1 /\ (r0 > 0 => rp \div Units = dec_wptr)
    BY <1>2, WriteFrame
  <1>5. NumDec = FramesBehind(dec_wptr, dec_rptr \div Units)
        /\ NumDec' = FramesBehind(dec_wptr, dec_rptr' \div Units)
    BY <1>1 DEF NumDec, ReadFrame
  <1>6. rp \div Units \in 0 .. Wrap - 1 /\ dec_rptr \div Units \in 0 .. Wrap - 1
    BY <1>2, <1>4, FrameBounds
  <1>7. num \in 0 .. Wrap - 1 /\ (r0 > 0 => num = 0) /\ (~(r0 > 0) => num = NumDec)
    BY <1>2, <1>4, <1>5, <1>6, FramesBehindIs, BehindSucc
  <1>8. NumDec \in 0 .. Wrap - 1
    BY <1>2, <1>5, <1>6, FramesBehindIs
  <1> HIDE DEF r0, rp
  <1>9. dec_rptr' \in 0 .. Wrap * Units - 1
    BY <1>1, <1>4, ReadAdvances
  <1>10. FramesBehind(dec_wptr, dec_rptr' \div Units) <= num
    <2>1. CASE num > 0 /\ Plays(num)
      <3>1. \/ dec_rptr' \div Units = rp \div Units
            \/ dec_rptr' \div Units = Succ(rp \div Units)
        BY <1>1, <1>4, <2>1, ReadAdvances
      <3>2. FramesBehind(dec_wptr, Succ(rp \div Units)) = num - 1
        BY <1>2, <1>6, <2>1, BehindSucc
      <3>3. QED
        BY <1>7, <3>1, <3>2
    <2>2. CASE ~(num > 0 /\ Plays(num))
      BY <1>1, <1>7, <2>2
    <2>3. QED
      BY <2>1, <2>2
  <1> HIDE DEF num
  <1>11. NumDec' <= NumDec
    BY <1>5, <1>7, <1>8, <1>10
  <1>12. reset' \in 0 .. ResetLen
    BY <1>1, <1>3, Sizes
  <1>13. buffer_empty' \in BOOLEAN
    BY <1>1, <1>2
  <1>14. QED
    BY <1>1, <1>9, <1>11, <1>12, <1>13

-----------------------------------------------------------------------------
(* Type correctness. *)

Words ==
  /\ mic_wptr \in 0 .. Wrap - 1 /\ dec_wptr \in 0 .. Wrap - 1
  /\ dec_rptr \in 0 .. Wrap * Units - 1
  /\ num_mic \in 0 .. Wrap - 1 /\ num_dec \in 0 .. Wrap - 1
Flags ==
  /\ start \in BOOLEAN /\ buffer_empty \in BOOLEAN /\ skipped \in BOOLEAN
  /\ streaming \in BOOLEAN /\ polled \in BOOLEAN
Counts ==
  /\ reset \in 0 .. ResetLen /\ passes \in 0 .. 2
  /\ budget \in [stops : 0 .. MaxStops, pauses : 0 .. MaxPauses]
Places == pc \in {"top", "init", "dec", "sync", "count", "skip", "decide", "decode"}

LEMMA TypeParts == TypeOK <=> Words /\ Flags /\ Counts /\ Places
  BY DEF TypeOK, Words, Flags, Counts, Places

LEMMA InitType == Init => TypeOK
  <1> SUFFICES ASSUME Init PROVE TypeOK
    OBVIOUS
  <1>1. 0 \in 0 .. Wrap - 1 /\ 0 \in 0 .. Wrap * Units - 1
    <2>1. Wrap * Units >= 1
      BY Sizes
    <2>2. QED
      BY <2>1, Sizes
  <1>2. MaxStops \in 0 .. MaxStops /\ MaxPauses \in 0 .. MaxPauses /\ 0 \in 0 .. ResetLen
    BY AudioAssumption
  <1>3. budget \in [stops : 0 .. MaxStops, pauses : 0 .. MaxPauses]
    BY <1>2 DEF Init
  <1>4. Words
    BY <1>1 DEF Init, Words
  <1>5. Flags
    BY DEF Init, Flags
  <1>6. Counts /\ Places
    BY <1>2, <1>3 DEF Init, Counts, Places
  <1>7. QED
    BY <1>4, <1>5, <1>6, TypeParts

LEMMA TypeStep == ASSUME TypeOK, Next PROVE TypeOK'
  <1>1. Words /\ Flags /\ Counts /\ Places
    BY TypeParts
  <1>2. NumMic \in 0 .. Wrap - 1 /\ NumDec \in 0 .. Wrap - 1
        /\ Succ(mic_wptr) \in 0 .. Wrap - 1 /\ Succ(dec_wptr) \in 0 .. Wrap - 1
        /\ 0 \in 0 .. Wrap - 1
    BY Frames, Sizes
  <1>3. CASE AbufMicAdd
    <2>1. Words' /\ Flags' /\ Places'
      BY <1>1, <1>2, <1>3 DEF AbufMicAdd, local, Words, Flags, Places
    <2>2. Counts'
      BY <1>1, <1>3 DEF AbufMicAdd, Counts
    <2>3. QED
      BY <2>1, <2>2 DEF TypeOK, Words, Flags, Counts, Places
  <1>4. CASE MainLoop
    <2>1. Words' /\ Flags' /\ Places'
      <3>1. CASE AbufInitClear \/ AbufInitReset \/ NoAbufInit \/ TestReset
        <4>1. CASE AbufInitClear
          BY <1>1, <1>2, <4>1 DEF AbufInitClear, Goto, local, Words, Flags, Places
        <4>2. CASE AbufInitReset
          BY <1>1, <4>2 DEF AbufInitReset, Goto, ptrs, local, world, Words, Flags, Places
        <4>3. CASE NoAbufInit
          BY <1>1, <4>3 DEF NoAbufInit, Goto, ptrs, local, world, Words, Flags, Places
        <4>4. CASE TestReset
          BY <1>1, <4>4 DEF TestReset, Goto, ptrs, world, Words, Flags, Places
        <4>5. QED
          BY <3>1, <4>1, <4>2, <4>3, <4>4
      <3>2. CASE SyncWritePointer \/ Count \/ SkipFrame
        <4>1. CASE SyncWritePointer
          BY <1>1, <4>1 DEF SyncWritePointer, EndPass, local, Words, Flags, Places
        <4>2. CASE Count
          BY <1>1, <1>2, <4>2 DEF Count, Goto, ptrs, world, Words, Flags, Places
        <4>3. CASE SkipFrame
          BY <1>1, <1>2, <4>3 DEF SkipFrame, MicOverflow, Goto, world, Words, Flags, Places
        <4>4. QED
          BY <3>2, <4>1, <4>2, <4>3
      <3>3. CASE DecOverrun \/ BeginDecode \/ NothingToDecode \/ FinishDecode
        BY <1>1, <1>2, <3>3
           DEF DecOverrun, BeginDecode, NothingToDecode, FinishDecode, Goto, EndPass,
               ptrs, local, world, Words, Flags, Places
      <3>4. QED
        BY <1>4, <3>1, <3>2, <3>3 DEF MainLoop
    <2>2. Counts'
      <3>1. reset' = reset \/ reset' = ResetLen
        BY <1>4 DEF MainLoop, AbufInitClear, AbufInitReset, NoAbufInit, TestReset,
                    SyncWritePointer, Count, SkipFrame, DecOverrun, BeginDecode,
                    NothingToDecode, FinishDecode
      <3>2. passes' = passes \/ passes' = (IF passes < 2 THEN passes + 1 ELSE 2)
        BY <1>4 DEF MainLoop, AbufInitClear, AbufInitReset, NoAbufInit, TestReset,
                    SyncWritePointer, Count, SkipFrame, DecOverrun, BeginDecode,
                    NothingToDecode, FinishDecode, EndPass, world
      <3>3. budget' = budget \/ (budget.pauses > 0
                                 /\ budget' = [budget EXCEPT !.pauses = @ - 1])
        BY <1>4 DEF MainLoop, AbufInitClear, AbufInitReset, NoAbufInit, TestReset,
                    SyncWritePointer, Count, SkipFrame, DecOverrun, BeginDecode,
                    NothingToDecode, FinishDecode, world
      <3>4. reset' \in 0 .. ResetLen
        BY <1>1, <3>1, Sizes DEF Counts
      <3>5. passes' \in 0 .. 2
        BY <1>1, <3>2 DEF Counts
      <3>6. budget' \in [stops : 0 .. MaxStops, pauses : 0 .. MaxPauses]
        BY <1>1, <3>3, AudioAssumption DEF Counts
      <3>7. QED
        BY <3>4, <3>5, <3>6 DEF Counts
    <2>3. QED
      BY <2>1, <2>2 DEF TypeOK, Words, Flags, Counts, Places
  <1>5. ASSUME NEW late \in BOOLEAN, AbufDecUsb(late)
        PROVE  Words' /\ start' \in BOOLEAN /\ buffer_empty' \in BOOLEAN
               /\ skipped' \in BOOLEAN /\ reset' \in 0 .. ResetLen /\ Places'
    BY <1>1, <1>5, UsbEffect DEF Words, Flags, Places
  <1>6. CASE UsbPacket
    <2>1. /\ AbufDecUsb(FALSE) /\ streaming' = streaming /\ polled' = TRUE
          /\ passes' = passes /\ budget' = budget
      BY <1>6 DEF UsbPacket
    <2>2. QED
      BY <1>1, <1>5, <2>1 DEF TypeOK, Words, Flags, Counts, Places
  <1>7. CASE HostStops
    <2>1. budget' \in [stops : 0 .. MaxStops, pauses : 0 .. MaxPauses]
      BY <1>1, <1>7, AudioAssumption DEF HostStops, Counts
    <2>2. QED
      BY <1>1, <1>7, <2>1 DEF HostStops, ptrs, local, TypeOK, Words, Flags, Counts, Places
  <1>8. CASE HostResumes
    <2>1. /\ AbufDecUsb(TRUE) /\ streaming' = TRUE /\ polled' = TRUE
          /\ passes' = passes /\ budget' = budget
      BY <1>8 DEF HostResumes
    <2>2. QED
      BY <1>1, <1>5, <2>1 DEF TypeOK, Words, Flags, Counts, Places
  <1>9. QED
    BY <1>3, <1>4, <1>6, <1>7, <1>8 DEF Next

-----------------------------------------------------------------------------
(* The two rings. *)

\* A step that leaves what MicInv speaks of keeps it.
LEMMA MicSame ==
  ASSUME MicInv, mic_wptr' = mic_wptr, dec_wptr' = dec_wptr, passes' = passes,
         num_mic' = num_mic, pc' = pc \/ pc' \notin {"skip", "decide", "decode"}
  PROVE  MicInv'
  BY DEF MicInv, NumMic

LEMMA RingStep == ASSUME IInv, Next PROVE MicInv' /\ DecInv'
  <1>1. TypeOK /\ MicInv /\ DecInv
    BY DEF IInv
  <1>2. /\ NumMic \in 0 .. Wrap - 1 /\ NumDec \in 0 .. Wrap - 1 /\ passes \in 0 .. 2
        /\ num_mic \in 0 .. Wrap - 1 /\ num_dec \in 0 .. Wrap - 1
        /\ mic_wptr \in 0 .. Wrap - 1 /\ dec_wptr \in 0 .. Wrap - 1
    BY <1>1, Frames DEF TypeOK
  <1>3. /\ NumMic < Wrap - 1 => FramesBehind(Succ(mic_wptr), dec_wptr) = NumMic + 1
        /\ NumMic > 0 => FramesBehind(mic_wptr, Succ(dec_wptr)) = NumMic - 1
        /\ FramesBehind(mic_wptr, mic_wptr) = 0
    BY <1>2, BehindSucc DEF NumMic
  <1>4. CASE AbufMicAdd
    <2>1. /\ passes = 2 /\ passes' = 0 /\ mic_wptr' = Succ(mic_wptr) /\ dec_wptr' = dec_wptr
          /\ dec_rptr' = dec_rptr /\ pc' = pc /\ num_mic' = num_mic /\ num_dec' = num_dec
          /\ skipped' = skipped
      BY <1>4 DEF AbufMicAdd, local
    <2>2. NumMic <= Ring /\ NumMic' = NumMic + 1
      <3>1. NumMic <= Ring
        BY <1>1, <2>1 DEF MicInv
      <3>2. NumMic < Wrap - 1
        BY <1>2, <3>1, Sizes
      <3>3. NumMic' = FramesBehind(Succ(mic_wptr), dec_wptr)
        BY <2>1 DEF NumMic
      <3>4. QED
        BY <1>3, <3>1, <3>2, <3>3
    <2>3. MicInv'
      BY <1>1, <1>2, <2>1, <2>2, Sizes DEF MicInv
    <2>4. DecInv'
      BY <1>1, <2>1 DEF DecInv, NumDec, ReadFrame
    <2>5. QED
      BY <2>3, <2>4
  <1>5. CASE AbufInitClear
    <2>1. pc' = "init" /\ mic_wptr' = 0 /\ dec_wptr' = 0
      BY <1>5 DEF AbufInitClear, Goto
    <2>2. 0 \in 0 .. Wrap - 1
      BY Sizes
    <2>3. NumMic' = 0
      BY <2>1, <2>2, BehindSucc DEF NumMic
    <2>4. QED
      BY <2>1, <2>3, Sizes DEF MicInv, DecInv
  <1>6. CASE AbufInitReset \/ NoAbufInit \/ TestReset
    <2>1. pc' \in {"dec", "sync", "count"} /\ mic_wptr' = mic_wptr /\ dec_wptr' = dec_wptr
          /\ passes' = passes /\ num_mic' = num_mic
      BY <1>6 DEF AbufInitReset, NoAbufInit, TestReset, Goto, ptrs, local, world
    <2>2. QED
      BY <1>1, <2>1, MicSame DEF DecInv
  <1>7. CASE SyncWritePointer
    <2>1. pc' = "top" /\ mic_wptr' = mic_wptr /\ dec_wptr' = mic_wptr
      BY <1>7 DEF SyncWritePointer, EndPass
    <2>2. NumMic' = 0
      BY <1>3, <2>1 DEF NumMic
    <2>3. QED
      BY <2>1, <2>2, Sizes DEF MicInv, DecInv
  <1>8. CASE Count
    <2>1. /\ pc' = "skip" /\ mic_wptr' = mic_wptr /\ dec_wptr' = dec_wptr
          /\ dec_rptr' = dec_rptr /\ passes' = passes /\ num_mic' = NumMic /\ num_dec' = NumDec
      BY <1>8 DEF Count, Goto, ptrs, world
    <2>2. NumMic' = NumMic /\ NumDec' = NumDec
      BY <2>1 DEF NumMic, NumDec, ReadFrame
    <2>3. QED
      BY <1>1, <1>2, <2>1, <2>2 DEF MicInv, DecInv
  <1>9. CASE SkipFrame
    <2>1. /\ pc = "skip" /\ pc' = "decide" /\ passes' = passes
          /\ num_mic' = num_mic /\ num_dec' = num_dec
          /\ mic_wptr' = mic_wptr /\ dec_rptr' = dec_rptr
          /\ skipped' = (num_mic > Ring)
          /\ dec_wptr' = IF num_mic > Ring THEN Succ(dec_wptr) ELSE dec_wptr
      BY <1>9 DEF SkipFrame, MicOverflow, Goto, world
    <2>2. NumMic = num_mic \/ (passes = 0 /\ NumMic = num_mic + 1)
      BY <1>1, <2>1 DEF MicInv
    <2>3. CASE num_mic > Ring
      <3>1. NumMic' = FramesBehind(mic_wptr, Succ(dec_wptr)) /\ skipped'
        BY <2>1, <2>3 DEF NumMic
      <3>2. NumMic > 0
        BY <1>2, <2>2, <2>3, Sizes
      <3>3. NumMic' = NumMic - 1
        BY <1>3, <3>1, <3>2
      <3>4. NumMic <= Ring + 1 /\ (passes = 2 => NumMic <= Ring)
        BY <1>1 DEF MicInv
      <3>5. QED
        BY <1>2, <2>1, <2>2, <2>3, <3>1, <3>3, <3>4, Sizes DEF MicInv, DecInv
    <2>4. CASE ~(num_mic > Ring)
      <3>1. NumMic' = NumMic /\ NumDec' = NumDec /\ ~skipped'
        BY <2>1, <2>4 DEF NumMic, NumDec, ReadFrame
      <3>2. NumMic <= Ring + 1 /\ (passes = 2 => NumMic <= Ring)
        BY <1>1 DEF MicInv
      <3>3. MicInv'
        BY <1>2, <2>1, <2>2, <2>4, <3>1, <3>2, Sizes DEF MicInv
      <3>4. DecInv'
        BY <1>1, <2>1, <3>1 DEF DecInv
      <3>5. QED
        BY <3>3, <3>4
    <2>5. QED
      BY <2>3, <2>4
  <1>10. CASE DecOverrun \/ NothingToDecode
    <2>1. /\ pc = "decide" /\ pc' = "top" /\ mic_wptr' = mic_wptr /\ dec_wptr' = dec_wptr
          /\ passes' = IF passes < 2 THEN passes + 1 ELSE 2
      BY <1>10 DEF DecOverrun, NothingToDecode, EndPass, ptrs
    <2>2. NumMic' = NumMic
      BY <2>1 DEF NumMic
    <2>3. QED
      BY <1>1, <1>2, <2>1, <2>2 DEF MicInv, DecInv
  <1>11. CASE BeginDecode
    <2>1. /\ pc = "decide" /\ pc' = "decode" /\ mic_wptr' = mic_wptr /\ dec_wptr' = dec_wptr
          /\ dec_rptr' = dec_rptr /\ passes' = passes /\ num_mic' = num_mic
          /\ num_dec' = num_dec /\ skipped' = skipped
          /\ num_mic >= 1 /\ num_dec <= Ring - 1
      BY <1>2, <1>11 DEF BeginDecode, Goto, ptrs, world, local, Ready, HasRoom
    <2>2. NumMic' = NumMic /\ NumDec' = NumDec
      BY <2>1 DEF NumMic, NumDec, ReadFrame
    <2>3. QED
      BY <1>1, <2>1, <2>2 DEF MicInv, DecInv
  <1>12. CASE FinishDecode
    <2>1. /\ pc = "decode" /\ pc' = "top" /\ mic_wptr' = mic_wptr /\ dec_wptr' = Succ(dec_wptr)
          /\ passes' = IF passes < 2 THEN passes + 1 ELSE 2
      BY <1>12 DEF FinishDecode, EndPass
    <2>2. NumMic >= 1 /\ NumMic <= Ring + 1
      BY <1>1, <2>1 DEF MicInv
    <2>3. NumMic' = NumMic - 1
      BY <1>2, <1>3, <2>1, <2>2 DEF NumMic
    <2>4. QED
      BY <1>2, <2>1, <2>2, <2>3, Sizes DEF MicInv, DecInv
  <1>13. CASE UsbPacket \/ HostResumes
    <2>1. PICK late \in BOOLEAN : AbufDecUsb(late) /\ passes' = passes
      BY <1>13 DEF UsbPacket, HostResumes
    <2>2. /\ NumDec' <= NumDec /\ mic_wptr' = mic_wptr /\ dec_wptr' = dec_wptr /\ pc' = pc
          /\ num_mic' = num_mic /\ num_dec' = num_dec /\ skipped' = skipped
          /\ dec_rptr' \in 0 .. Wrap * Units - 1
      BY <1>1, <2>1, UsbEffect
    <2>3. MicInv'
      BY <1>1, <2>1, <2>2, MicSame
    <2>4. NumDec' \in 0 .. Wrap - 1
      BY <1>2, <2>2, FrameBounds, FramesBehindIs DEF NumDec, ReadFrame
    <2>5. DecInv'
      BY <1>1, <1>2, <2>2, <2>4 DEF DecInv
    <2>6. QED
      BY <2>3, <2>5
  <1>14. CASE HostStops
    <2>1. /\ mic_wptr' = mic_wptr /\ dec_wptr' = dec_wptr /\ dec_rptr' = dec_rptr /\ pc' = pc
          /\ num_mic' = num_mic /\ num_dec' = num_dec /\ skipped' = skipped /\ passes' = passes
      BY <1>14 DEF HostStops, ptrs, local
    <2>2. QED
      BY <1>1, <2>1, MicSame DEF DecInv, NumDec, ReadFrame
  <1>15. QED
    BY <1>4, <1>5, <1>6, <1>7, <1>8, <1>9, <1>10, <1>11, <1>12, <1>13, <1>14
       DEF Next, MainLoop

LEMMA InitInv == Init => IInv
  <1> SUFFICES ASSUME Init PROVE IInv
    OBVIOUS
  <1>1. 0 \in 0 .. Wrap - 1
    BY Sizes
  <1>2. NumMic = 0
    BY <1>1, BehindSucc DEF Init, NumMic
  <1>3. QED
    BY <1>2, InitType, Sizes DEF Init, IInv, MicInv, DecInv

LEMMA Inductive == Spec => []IInv
  <1>1. IInv /\ [Next]_vars => IInv'
    <2>1. ASSUME IInv, Next PROVE IInv'
      BY <2>1, TypeStep, RingStep DEF IInv
    <2>2. ASSUME IInv, UNCHANGED vars PROVE IInv'
      <3>1. TypeOK'
        BY <2>2 DEF IInv, TypeOK, vars, ptrs, local, world
      <3>2. MicInv' /\ DecInv'
        BY <2>2 DEF IInv, MicInv, DecInv, NumMic, NumDec, ReadFrame, vars, ptrs, local, world
      <3>3. QED
        BY <3>1, <3>2 DEF IInv
    <2>3. QED
      BY <2>1, <2>2
  <1>2. QED
    BY <1>1, InitInv, PTL DEF Spec

-----------------------------------------------------------------------------
(* What USB plays and what the main loop writes. *)

\* The place in a ring of n of a counter that is d ahead of another.
LEMMA AheadInRing ==
  ASSUME NEW n \in Nat \ {0}, NEW f \in Int, NEW d \in Int, 0 < d, d < n
  PROVE  (f + d) % n # f % n
  <1> DEFINE a == f + d
             q == (a \div n) - (f \div n)
  <1>1. a \in Int /\ a - f = d
    OBVIOUS
  <1> HIDE DEF a
  <1>2. /\ f \div n \in Int /\ f = n * (f \div n) + (f % n) /\ f % n \in 0 .. n - 1
        /\ a \div n \in Int /\ a = n * (a \div n) + (a % n) /\ a % n \in 0 .. n - 1
    BY <1>1, DivMod
  <1>3. ASSUME a % n = f % n PROVE n * q = d /\ q \in Int
    BY <1>1, <1>2, <1>3
  <1> HIDE DEF q
  <1>4. ASSUME q \in Int PROVE (q >= 1 => n * q >= n) /\ (q <= 0 => n * q <= 0)
    BY <1>4
  <1>5. QED
    BY <1>3, <1>4 DEF a

\* The wrap of the counters is the end of a turn of the ring.
LEMMA WrapInRing ==
  ASSUME NEW a \in Int
  PROVE  (a - Wrap) % Ring = a % Ring
  <1> DEFINE t == Wrap \div Ring
             g == a \div Ring
             x == a % Ring
  <1>1. Ring \in Nat \ {0} /\ Wrap \in Int /\ Wrap % Ring = 0
    BY AudioAssumption
  <1>2. t \in Int /\ Wrap = Ring * t
    BY <1>1, DivMod
  <1>3. g \in Int /\ x \in 0 .. Ring - 1 /\ a = Ring * g + x
    BY <1>1, DivMod
  <1> HIDE DEF t, g, x
  <1>4. a - Wrap = Ring * (g - t) + x
    BY <1>1, <1>2, <1>3
  <1>5. (Ring * (g - t) + x) % Ring = x
    BY <1>1, <1>2, <1>3, Residue
  <1>6. QED
    BY <1>4, <1>5 DEF x

\* A packet reads the frame of the read pointer and, at its last unit, the next one.
LEMMA PacketFrames ==
  ASSUME NEW rp \in 0 .. Wrap * Units - 1, NEW u \in IsoRead(rp)
  PROVE  \/ u \div Units = (rp \div Units) % Ring
         \/ u \div Units = (rp \div Units + 1) % Ring
  <1> DEFINE f == rp \div Units
             g == f \div Ring
             h == f % Ring
             x == rp - Units * f
             n == Ring * Units
             o == Units * h + x
  <1>1. f \in 0 .. Wrap - 1 /\ f \in Int /\ Units * f <= rp /\ rp < Units * f + Units
    BY FrameBounds
  <1>2. Units \in Nat /\ Units >= 2 /\ Ring \in Nat \ {0} /\ rp \in Int /\ n \in Nat \ {0}
    BY Sizes
  <1>3. x \in 0 .. Units - 1 /\ rp = Units * f + x
    BY <1>1, <1>2
  <1>4. g \in Int /\ h \in 0 .. Ring - 1 /\ f = Ring * g + h
    BY <1>1, <1>2, DivMod
  <1> HIDE DEF f, g, h, x
  <1>5. o \in 0 .. n - 1
    <2>1. Units * h <= Units * (Ring - 1) /\ Units * (Ring - 1) = n - Units /\ Units * h >= 0
      BY <1>2, <1>4
    <2>2. QED
      BY <1>2, <1>3, <1>4, <2>1
  <1>6. rp = n * g + o
    <2>1. Units * (Ring * g + h) = n * g + Units * h
      BY <1>2, <1>4
    <2>2. QED
      BY <1>2, <1>3, <1>4, <2>1
  <1>7. rp % n = o
    <2> HIDE DEF n, o
    <2>1. (n * g + o) % n = o
      BY <1>2, <1>4, <1>5, Residue
    <2>2. QED
      BY <1>6, <2>1
  <1>8. u = o \/ (u = o + 1 /\ o # n - 1) \/ (u = 0 /\ o = n - 1)
    BY <1>7 DEF IsoRead, RingUnits
  <1>9. o \div Units = h
    BY <1>2, <1>3, <1>4, FrameOf
  <1>10. (f + 1) % Ring = IF h + 1 = Ring THEN 0 ELSE h + 1
    <2>1. CASE h + 1 = Ring
      <3>1. f + 1 = Ring * (g + 1) + 0 /\ g + 1 \in Int
        BY <1>2, <1>4, <2>1
      <3>2. (Ring * (g + 1) + 0) % Ring = 0
        BY <1>2, <3>1, Residue
      <3>3. QED
        BY <2>1, <3>1, <3>2
    <2>2. CASE h + 1 # Ring
      <3>1. f + 1 = Ring * g + (h + 1) /\ h + 1 \in 0 .. Ring - 1
        BY <1>2, <1>4, <2>2
      <3>2. (Ring * g + (h + 1)) % Ring = h + 1
        BY <1>2, <1>4, <3>1, Residue
      <3>3. QED
        BY <2>2, <3>1, <3>2
    <2>3. QED
      BY <2>1, <2>2
  <1>11. CASE u = o
    BY <1>9, <1>11 DEF h, f
  <1>12. CASE u = o + 1 /\ o # n - 1
    <2>1. CASE x + 1 < Units
      <3>1. u = Units * h + (x + 1) /\ x + 1 \in 0 .. Units - 1
        BY <1>2, <1>3, <1>4, <1>12, <2>1
      <3>2. u \div Units = h
        BY <1>4, <3>1, FrameOf
      <3>3. QED
        BY <3>2 DEF h, f
    <2>2. CASE ~(x + 1 < Units)
      <3>1. u = Units * (h + 1) + 0 /\ h + 1 \in Int /\ 0 \in 0 .. Units - 1
        BY <1>2, <1>3, <1>4, <1>12, <2>2
      <3>2. u \div Units = h + 1
        BY <3>1, FrameOf
      <3>3. h + 1 # Ring
        <4>1. h + 1 = Ring => Units * (h + 1) = n
          BY <1>2, <1>4
        <4>2. QED
          BY <1>2, <1>5, <1>12, <3>1, <4>1
      <3>4. QED
        BY <1>10, <3>2, <3>3 DEF f
    <2>3. QED
      BY <2>1, <2>2
  <1>13. CASE u = 0 /\ o = n - 1
    <2>1. 0 \div Units = 0
      <3>1. Units * 0 + 0 = 0 /\ 0 \in 0 .. Units - 1
        BY <1>2
      <3>2. QED
        BY <3>1, FrameOf
    <2>2. h + 1 = Ring
      <3>1. h + 1 < Ring => Units * (h + 1) <= Units * (Ring - 1)
        BY <1>2, <1>4
      <3>2. Units * (h + 1) = Units * h + Units /\ Units * (Ring - 1) = n - Units
        BY <1>2, <1>4
      <3>3. QED
        BY <1>2, <1>3, <1>4, <1>13, <3>1, <3>2
    <2>3. QED
      BY <1>10, <1>13, <2>1, <2>2 DEF f
  <1>14. QED
    BY <1>8, <1>11, <1>12, <1>13

LEMMA NothingTorn == IInv => NoTornFrame
  <1> SUFFICES ASSUME IInv, pc = "decode", ~skipped, NumDec > 1,
                      NEW u \in IsoRead(dec_rptr), dec_wptr % Ring = u \div Units
               PROVE  FALSE
    BY DEF NoTornFrame
  <1> DEFINE f == ReadFrame
             k == NumDec
             w == dec_wptr
  <1>1. /\ f \in 0 .. Wrap - 1 /\ w \in 0 .. Wrap - 1 /\ dec_rptr \in 0 .. Wrap * Units - 1
        /\ k \in 0 .. Wrap - 1 /\ num_dec \in 0 .. Wrap - 1
    BY Frames DEF IInv, TypeOK
  <1>2. k <= num_dec /\ num_dec <= Ring - 1 /\ k > 1
    BY DEF IInv, DecInv
  <1>3. k = Behind(w, f)
    BY <1>1, FramesBehindIs DEF NumDec
  <1>4. u \div Units = f % Ring \/ u \div Units = (f + 1) % Ring
    BY <1>1, PacketFrames DEF ReadFrame
  <1>5. Ring \in Nat \ {0} /\ Wrap \in Nat
    BY Sizes, AudioAssumption
  <1> HIDE DEF f, k, w
  <1>6. (f + k) % Ring = w % Ring
    <2>1. f + k = w \/ (f + k = w + Wrap)
      BY <1>1, <1>3, <1>5 DEF Behind
    <2>2. (f + k) - Wrap = w => w % Ring = (f + k) % Ring
      <3>1. f + k \in Int
        BY <1>1
      <3>2. QED
        BY <3>1, WrapInRing
    <2>3. QED
      BY <1>1, <1>5, <2>1, <2>2
  <1>7. (f + k) % Ring # f % Ring
    <2>1. f \in Int /\ k \in Int /\ 0 < k /\ k < Ring
      BY <1>1, <1>2, <1>5
    <2>2. QED
      BY <1>5, <2>1, AheadInRing
  <1>8. (f + k) % Ring # (f + 1) % Ring
    <2> DEFINE g == f + 1
               j == k - 1
    <2>1. g \in Int /\ j \in Int /\ 0 < j /\ j < Ring /\ g + j = f + k
      BY <1>1, <1>2, <1>5
    <2> HIDE DEF g, j
    <2>2. (g + j) % Ring # g % Ring
      BY <1>5, <2>1, AheadInRing
    <2>3. QED
      BY <2>1, <2>2 DEF g
  <1>9. QED
    BY <1>4, <1>6, <1>7, <1>8 DEF w

-----------------------------------------------------------------------------
(* The pointers, the counters and where the main loop is keep their ranges, for   *)
(* every size of the rings.                                                        *)
THEOREM TypeCorrect == Spec => []TypeOK
  <1>1. IInv => TypeOK
    BY DEF IInv
  <1>2. QED
    BY <1>1, Inductive, PTL

(* One frame dropped a pass is enough: the ring abuf_mic_add writes without a look *)
(* is one frame over its size at most.                                             *)
THEOREM BacklogIsBounded == Spec => []MicBacklogBounded
  <1>1. IInv => MicBacklogBounded
    BY DEF IInv, MicInv, MicBacklogBounded
  <1>2. QED
    BY <1>1, Inductive, PTL

(* The USB interrupt does not play the frame adpcm_to_pcm is writing, wherever it  *)
(* comes between the test for room and the end of the decoding.                    *)
THEOREM FramesAreWhole == Spec => []NoTornFrame
  BY Inductive, NothingTorn, PTL
=============================================================================
