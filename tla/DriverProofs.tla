---------------------------- MODULE DriverProofs ----------------------------
(***************************************************************************)
(* Proofs about the small parts.  The ring of key matrices of the matrix   *)
(* keyboard is a queue that drops its oldest entry, for every matrix of    *)
(* keys and every sequence of calls, and the driver does not stop scanning *)
(* too early; a control transfer runs out, and one that ends well has done *)
(* what it was for, for every set of descriptors, every packet size and    *)
(* transfers given up at any point; a release that the PC tool is to see   *)
(* is not lost on its way; and the allocators neither lose nor mix up      *)
(* bytes or blocks, for every size of the memory and the pool and every    *)
(* order of frees.  The last section is about MCDrivers, the parts         *)
(* together.                                                               *)
(***************************************************************************)
EXTENDS MCDrivers, VoiceProofs, SequenceTheorems, FiniteSetTheorems

-----------------------------------------------------------------------------
(* The ring of four.  n entries from read pointer r on. *)

Stored(ring, w, x) == [ring EXCEPT ![w % 4] = x]
RingPutInto(q, x) == Append(IF Len(q) = 4 THEN Tail(q) ELSE q, x)

RingQueue(ring, r, n) == [j \in 1 .. n |-> Remap(ring[(r + j - 1) % 4])]

LEMMA Mod4 ==
  ASSUME NEW x \in 0 .. 15, NEW y \in 0 .. 15
  PROVE  /\ x % 4 \in 0 .. 3
         /\ x % 4 = y % 4 <=> \/ x - y = 0 \/ x - y = 4 \/ x - y = 8 \/ x - y = 12
                             \/ y - x = 4 \/ y - x = 8 \/ y - x = 12
  OBVIOUS

LEMMA RemapIs == \A m \in Matrices : Remap(m) \in Matrices
  BY DEF Remap, Matrices

LEMMA QueueIs ==
  ASSUME NEW ring \in [0 .. 3 -> Matrices], NEW r \in 0 .. 7, NEW n \in 0 .. 4
  PROVE  /\ RingQueue(ring, r, n) \in Seq(Matrices) /\ Len(RingQueue(ring, r, n)) = n
         /\ \A j \in 1 .. n : RingQueue(ring, r, n)[j] = Remap(ring[(r + j - 1) % 4])
  <1> DEFINE q == RingQueue(ring, r, n)
  <1>1. q = [j \in 1 .. n |-> Remap(ring[(r + j - 1) % 4])]
    BY DEF RingQueue
  <1>2. ASSUME NEW j \in 1 .. n PROVE Remap(ring[(r + j - 1) % 4]) \in Matrices
    <2>1. (r + j - 1) % 4 \in 0 .. 3
      OBVIOUS
    <2>2. QED
      BY <2>1, RemapIs
  <1>3. q \in [1 .. n -> Matrices]
    BY <1>1, <1>2
  <1> HIDE DEF q
  <1>4. q \in Seq(Matrices) /\ Len(q) = n
    BY <1>3
  <1>5. QED
    BY <1>1, <1>4 DEF q

\* A matrix is pushed at the write pointer: the oldest of four makes room.
\* x comes into the ring: the pointers, n apart, go on to r2 and n2.
PushMoves(ring, x, r, w, n, r2, n2) ==
  /\ ring \in [0 .. 3 -> Matrices] /\ x \in Matrices /\ r \in 0 .. 7 /\ w \in 0 .. 7
  /\ n \in 0 .. 4 /\ r2 \in 0 .. 7 /\ n2 \in 1 .. 4
  /\ w = r + n \/ w = r + n - 8
  /\ \/ n = 4 /\ (r2 = r + 1 \/ r2 = r - 7) /\ n2 = 4
     \/ n # 4 /\ r2 = r /\ n2 = n + 1

LEMMA RingPut ==
  ASSUME NEW ring, NEW x, NEW r, NEW w, NEW n, NEW r2, NEW n2,
         PushMoves(ring, x, r, w, n, r2, n2)
  PROVE  /\ Stored(ring, w, x) \in [0 .. 3 -> Matrices]
         /\ RingQueue(Stored(ring, w, x), r2, n2) = RingPutInto(RingQueue(ring, r, n), Remap(x))
  <1> DEFINE ring2 == Stored(ring, w, x)
  <1>a. ring2 = [ring EXCEPT ![w % 4] = x]
    BY DEF Stored
  <1>b. /\ ring \in [0 .. 3 -> Matrices] /\ x \in Matrices /\ r \in 0 .. 7 /\ w \in 0 .. 7
        /\ n \in 0 .. 4 /\ r2 \in 0 .. 7 /\ n2 \in 1 .. 4
    BY DEF PushMoves
  <1> HIDE DEF ring2
  <1>0. /\ w = r + n \/ w = r + n - 8
        /\ \/ n = 4 /\ n2 = 4 /\ (r2 = r + 1 \/ r2 = r - 7)
           \/ n < 4 /\ n2 = n + 1 /\ r2 = r
        /\ r2 \in 0 .. 7
    BY <1>b DEF PushMoves
  <1>1. ring2 \in [0 .. 3 -> Matrices] /\ r2 \in 0 .. 7 /\ n2 \in 1 .. 4
    BY <1>b, <1>a
  <1> DEFINE q == RingQueue(ring, r, n)
             q2 == RingQueue(ring2, r2, n2)
             t == IF Len(q) = 4 THEN Tail(q) ELSE q
             p == Append(t, Remap(x))
  <1>2. q \in Seq(Matrices) /\ Len(q) = n /\ \A j \in 1 .. n : q[j] = Remap(ring[(r + j - 1) % 4])
    BY <1>b, QueueIs
  <1>3. q2 \in Seq(Matrices) /\ Len(q2) = n2 /\ \A j \in 1 .. n2 : q2[j] = Remap(ring2[(r2 + j - 1) % 4])
    <2>1. n2 \in 0 .. 4
      BY <1>b, <1>1
    <2>2. QED
      BY <1>b, <1>1, <2>1, QueueIs
  <1> HIDE DEF q, q2
  <1>4. t \in Seq(Matrices) /\ Len(t) = n2 - 1
        /\ \A j \in 1 .. n2 - 1 : t[j] = IF n = 4 THEN q[j + 1] ELSE q[j]
    BY <1>0, <1>b, <1>2
  <1> HIDE DEF t
  <1>5. p \in Seq(Matrices) /\ Len(p) = n2 /\ p[n2] = Remap(x) /\ \A j \in 1 .. n2 - 1 : p[j] = t[j]
    <2>1. Remap(x) \in Matrices /\ Len(t) + 1 = n2
      BY <1>b, <1>1, <1>4, RemapIs
    <2>2. QED
      BY <1>b, <1>4, <2>1, AppendProperties
  <1> HIDE DEF p
  <1>6. ASSUME NEW j \in 1 .. n2 PROVE q2[j] = p[j]
    <2>1. CASE j = n2
      <3>1. (r2 + j - 1) % 4 = w % 4 /\ w % 4 \in 0 .. 3
        <4>1. PICK a : a = r2 + j - 1
          OBVIOUS
        <4>2. a \in 0 .. 15 /\ w \in 0 .. 15 /\ (a - w = 0 \/ a - w = 8 \/ w - a = 8)
          BY <1>b, <1>0, <2>1, <4>1
        <4>3. a % 4 = w % 4 /\ w % 4 \in 0 .. 3
          BY <4>2, Mod4
        <4>4. QED
          BY <4>1, <4>3
      <3>2. ring2[w % 4] = x
        BY <1>b, <1>a, <3>1
      <3>3. QED
        BY <1>b, <1>3, <1>5, <2>1, <3>1, <3>2
    <2>2. CASE j # n2
      <3>1. j \in 1 .. n2 - 1
        BY <1>b, <1>1, <2>2
      <3>2. (r2 + j - 1) % 4 # w % 4 /\ (r2 + j - 1) % 4 \in 0 .. 3 /\ w % 4 \in 0 .. 3
        <4>1. PICK a : a = r2 + j - 1
          OBVIOUS
        <4>2. a \in 0 .. 15 /\ w \in 0 .. 15
          BY <1>b, <1>0, <3>1, <4>1
        <4>3. ~(\/ a - w = 0 \/ a - w = 4 \/ a - w = 8 \/ a - w = 12
                \/ w - a = 4 \/ w - a = 8 \/ w - a = 12)
          BY <1>b, <1>0, <3>1, <4>1
        <4>4. a % 4 # w % 4 /\ a % 4 \in 0 .. 3 /\ w % 4 \in 0 .. 3
          BY <4>2, <4>3, Mod4
        <4>5. QED
          BY <4>1, <4>4
      <3>3. q2[j] = Remap(ring[(r2 + j - 1) % 4])
        BY <1>b, <1>a, <1>3, <3>2
      <3>4. CASE n = 4
        <4>1. (r2 + j - 1) % 4 = (r + (j + 1) - 1) % 4 /\ j + 1 \in 1 .. n
          <5>1. PICK a, b : a = r2 + j - 1 /\ b = r + (j + 1) - 1
            OBVIOUS
          <5>2. a \in 0 .. 15 /\ b \in 0 .. 15 /\ (a - b = 0 \/ b - a = 8) /\ j + 1 \in 1 .. n
            BY <1>b, <1>0, <3>1, <3>4, <5>1
          <5>3. a % 4 = b % 4
            BY <5>2, Mod4
          <5>4. QED
            BY <5>1, <5>2, <5>3
        <4>2. QED
          BY <1>b, <1>2, <1>4, <1>5, <3>1, <3>3, <3>4, <4>1
      <3>5. CASE n # 4
        <4>1. r2 = r /\ j \in 1 .. n
          BY <1>0, <1>b, <3>1, <3>5
        <4>2. QED
          BY <1>b, <1>2, <1>4, <1>5, <3>1, <3>3, <3>5, <4>1
      <3>6. QED
        BY <1>b, <3>4, <3>5
    <2>3. QED
      BY <1>b, <2>1, <2>2
  <1>7. q2 = p
    <2>1. Len(q2) = Len(p) /\ \A j \in 1 .. Len(q2) : q2[j] = p[j]
      BY <1>b, <1>3, <1>5, <1>6
    <2>2. QED
      BY <1>b, <1>3, <1>5, <2>1, SeqEqual
  <1>8. QED
    BY <1>b, <1>1, <1>7 DEF q, q2, p, t, ring2, RingPutInto

\* Reading takes the oldest.
LEMMA RingGet ==
  ASSUME NEW ring \in [0 .. 3 -> Matrices], NEW r \in 0 .. 7, NEW n \in 1 .. 4
  PROVE  LET q == RingQueue(ring, r, n) IN
         /\ q # <<>> /\ Head(q) = Remap(ring[r % 4]) /\ Tail(q) = RingQueue(ring, (r + 1) % 8, n - 1)
  <1> DEFINE q == RingQueue(ring, r, n)
             r2 == (r + 1) % 8
             q2 == RingQueue(ring, r2, n - 1)
  <1>1. q \in Seq(Matrices) /\ Len(q) = n /\ \A j \in 1 .. n : q[j] = Remap(ring[(r + j - 1) % 4])
    <2>1. n \in 0 .. 4
      OBVIOUS
    <2>2. QED
      BY <2>1, QueueIs
  <1>2. r2 \in 0 .. 7 /\ n - 1 \in 0 .. 4
    OBVIOUS
  <1>3. /\ q2 \in Seq(Matrices) /\ Len(q2) = n - 1
        /\ \A j \in 1 .. n - 1 : q2[j] = Remap(ring[(r2 + j - 1) % 4])
    <2> HIDE DEF r2
    <2>1. QED
      BY <1>2, QueueIs
  <1>4. \A j \in 1 .. n - 1 : (r2 + j - 1) % 4 = (r + (j + 1) - 1) % 4 /\ j + 1 \in 1 .. n
    OBVIOUS
  <1> HIDE DEF q, q2, r2
  <1>5. Tail(q) \in Seq(Matrices) /\ Len(Tail(q)) = n - 1 /\ \A j \in 1 .. n - 1 : Tail(q)[j] = q[j + 1]
    BY <1>1
  <1>6. \A j \in 1 .. n - 1 : Tail(q)[j] = q2[j]
    BY <1>1, <1>3, <1>4, <1>5
  <1>7. Tail(q) = q2
    BY <1>3, <1>5, <1>6, SeqEqual
  <1>8. q # <<>> /\ Head(q) = q[1] /\ (r + 1 - 1) % 4 = r % 4
    BY <1>1
  <1>9. QED
    BY <1>1, <1>7, <1>8 DEF q, q2, r2

-----------------------------------------------------------------------------
(* What every call leaves.  The refinement needs more than the types: the     *)
(* pointers count to eight, and nothing but KeyFits says that the four places *)
(* hold all that lies between them.                                           *)

KbType ==
  [notReleased : BOOLEAN, releaseCnt : 0 .. ReleaseCnt,
   retLast : SUBSET Lines(KeyPositions), need : SUBSET Lines(KeyPositions),
   pre : Matrices, last : Matrices, wptr : 0 .. 7, rptr : 0 .. 7, fresh : BOOLEAN]

KeyFits == (kb.wptr - kb.rptr) % 8 <= 4

KeyInv == KeyTypeOK /\ KeyFits

Queue == [j \in DOMAIN Unread |-> Remap(Unread[j])]

LEMMA KeyTypes ==
  KeyTypeOK <=>
    /\ keysDown \in Matrices /\ gpioIrq \in BOOLEAN
    /\ kbCall \in {Idle} \cup {"lines", "rows"} \X Modes
    /\ kb \in KbType /\ kbRing \in [0 .. 3 -> Matrices] /\ kbEvent \in Matrices /\ slips \in Nat
    /\ keyBudget \in [changes : 0 .. MaxChanges, holds : 0 .. MaxHolds]
  <1>1. 2 * RingSize - 1 = 7 /\ RingSize - 1 = 3
    BY DEF RingSize
  <1>2. QED
    BY <1>1 DEF KeyTypeOK, KbType

LEMMA KeyTypesNext ==
  KeyTypeOK' <=>
    /\ keysDown' \in Matrices /\ gpioIrq' \in BOOLEAN
    /\ kbCall' \in {Idle} \cup {"lines", "rows"} \X Modes
    /\ kb' \in KbType /\ kbRing' \in [0 .. 3 -> Matrices] /\ kbEvent' \in Matrices /\ slips' \in Nat
    /\ keyBudget' \in [changes : 0 .. MaxChanges, holds : 0 .. MaxHolds]
  <1>1. 2 * RingSize - 1 = 7 /\ RingSize - 1 = 3
    BY DEF RingSize
  <1>2. QED
    BY <1>1 DEF KeyTypeOK, KbType

LEMMA LinesOf == \A m \in Matrices : Lines(m) \in SUBSET Lines(KeyPositions)
  BY DEF Lines, Matrices

LEMMA KeyCount ==
  ASSUME kb \in KbType
  PROVE  (kb.wptr - kb.rptr) % 8 \in 0 .. 7
  BY DEF KbType

LEMMA QueueOf ==
  ASSUME kb \in KbType
  PROVE  Queue = RingQueue(kbRing, kb.rptr, (kb.wptr - kb.rptr) % 8)
  <1> DEFINE n == (kb.wptr - kb.rptr) % 8
  <1>1. 2 * RingSize = 8 /\ RingSize = 4
    BY DEF RingSize
  <1>2. Unread = [j \in 1 .. n |-> kbRing[(kb.rptr + j - 1) % 4]]
    BY <1>1 DEF Unread
  <1> HIDE DEF n
  <1>3. QED
    BY <1>2 DEF Queue, RingQueue, n

LEMMA QueueOfNext ==
  ASSUME kb' \in KbType
  PROVE  Queue' = RingQueue(kbRing', kb'.rptr, (kb'.wptr - kb'.rptr) % 8)
  <1> DEFINE n == (kb'.wptr - kb'.rptr) % 8
  <1>1. 2 * RingSize = 8 /\ RingSize = 4
    BY DEF RingSize
  <1>2. Unread' = [j \in 1 .. n |-> kbRing'[(kb'.rptr + j - 1) % 4]]
    BY <1>1 DEF Unread
  <1> HIDE DEF n
  <1>3. QED
    BY <1>2 DEF Queue, RingQueue, n

LEMMA KeyInitInv == KeyInit => KeyInv /\ KeyQueue!Init
  <1> SUFFICES ASSUME KeyInit PROVE KeyInv /\ KeyQueue!Init
    OBVIOUS
  <1>1. kb \in KbType
    BY KeyAssumption DEF KeyInit, KbType, Matrices
  <1>2. KeyTypeOK
    <2>1. RingSize - 1 = 3
      BY DEF RingSize
    <2>2. kbRing \in [0 .. 3 -> Matrices]
      BY <2>1 DEF KeyInit, Matrices
    <2>3. keyBudget \in [changes : 0 .. MaxChanges, holds : 0 .. MaxHolds]
      BY KeyAssumption DEF KeyInit
    <2>4. keysDown \in Matrices /\ gpioIrq \in BOOLEAN /\ kbCall = Idle /\ kbEvent \in Matrices /\ slips \in Nat
      BY DEF KeyInit, Matrices
    <2>5. QED
      BY <1>1, <2>2, <2>3, <2>4, KeyTypes
  <1>3. kb.wptr - kb.rptr = 0
    BY DEF KeyInit
  <1>4. KeyFits
    BY <1>3 DEF KeyFits
  <1>5. Queue = RingQueue(kbRing, kb.rptr, 0)
    BY <1>1, <1>3, QueueOf
  <1>6. Queue = <<>>
    BY <1>5 DEF RingQueue
  <1>7. kbEvent \in Matrices
    BY DEF KeyInit, Matrices
  <1>8. QED
    BY <1>2, <1>4, <1>6, <1>7 DEF KeyInv, KeyQueue!Init, Queue

\* Everything but kb_scan_key_value leaves the ring alone.
RingKept ==
  kbRing' = kbRing /\ kb'.wptr = kb.wptr /\ kb'.rptr = kb.rptr /\ kbEvent' = kbEvent

LEMMA RingKeptIsStutter ==
  ASSUME KeyInv, KeyTypeOK', RingKept
  PROVE  KeyInv' /\ Queue' = Queue /\ kbEvent' = kbEvent
  <1>1. kb \in KbType /\ kb' \in KbType
    BY KeyTypes, KeyTypesNext DEF KeyInv
  <1>2. Queue' = Queue
    BY <1>1 DEF RingKept, Queue, Unread
  <1>3. KeyFits'
    BY DEF KeyInv, KeyFits, RingKept
  <1>4. QED
    BY <1>2, <1>3 DEF KeyInv, RingKept

LEMMA KeyUserStep ==
  ASSUME KeyInv, NEW k \in KeyPositions, KeyPress(k) \/ KeyRelease(k)
  PROVE  KeyTypeOK' /\ RingKept
  <1>1. /\ keysDown \in Matrices /\ gpioIrq \in BOOLEAN
        /\ kbCall \in {Idle} \cup {"lines", "rows"} \X Modes
        /\ kb \in KbType /\ kbRing \in [0 .. 3 -> Matrices] /\ kbEvent \in Matrices /\ slips \in Nat
        /\ keyBudget \in [changes : 0 .. MaxChanges, holds : 0 .. MaxHolds]
    BY KeyTypes DEF KeyInv
  <1>2. UNCHANGED <<kbCall, kb, kbRing, kbEvent>>
    BY DEF KeyPress, KeyRelease
  <1>3. keyBudget' \in [changes : 0 .. MaxChanges, holds : 0 .. MaxHolds]
    BY <1>1, KeyAssumption DEF KeyPress, KeyRelease, SpendChange
  <1>4. keysDown' \in Matrices
    BY <1>1 DEF KeyPress, KeyRelease, Matrices
  <1>5. gpioIrq' \in BOOLEAN
    BY <1>1 DEF KeyPress, KeyRelease
  <1>s. slips' \in Nat
    <2>1. slips' = slips \/ slips' = slips + 1
      BY DEF KeyPress, KeyRelease
    <2>2. QED
      BY <1>1, <2>1
  <1>6. QED
    BY <1>1, <1>2, <1>3, <1>4, <1>5, <1>s, KeyTypesNext DEF RingKept

LEMMA ScanKeyStep ==
  ASSUME KeyInv, NEW mode \in Modes, KbScanKey(mode)
  PROVE  KeyTypeOK' /\ RingKept
  <1>1. /\ keysDown \in Matrices /\ gpioIrq \in BOOLEAN
        /\ kb \in KbType /\ kbRing \in [0 .. 3 -> Matrices] /\ kbEvent \in Matrices /\ slips \in Nat
        /\ keyBudget \in [changes : 0 .. MaxChanges, holds : 0 .. MaxHolds]
    BY KeyTypes DEF KeyInv
  <1>2. UNCHANGED <<keysDown, kbRing, kbEvent, slips>> /\ gpioIrq' = FALSE
    BY DEF KbScanKey
  <1>3. keyBudget' \in [changes : 0 .. MaxChanges, holds : 0 .. MaxHolds]
    <2>1. CallAllowed(mode)
      BY DEF KbScanKey
    <2>2. \/ keyBudget' = keyBudget
          \/ keyBudget.holds > 0 /\ keyBudget' = [keyBudget EXCEPT !.holds = @ - 1]
      BY <2>1 DEF CallAllowed, Modes
    <2>3. QED
      BY <1>1, <2>2, KeyAssumption
  <1>4. kbCall' \in {Idle} \cup {"lines", "rows"} \X Modes
    BY DEF KbScanKey
  <1> DEFINE wanted == mode = "poweron" \/ gpioIrq \/ kb.notReleased
  <1>5. wanted \in BOOLEAN /\ kb' = [kb EXCEPT !.fresh = FALSE, !.notReleased = wanted]
    BY DEF KbScanKey
  <1> HIDE DEF wanted
  <1>6. kb' \in KbType /\ kb'.wptr = kb.wptr /\ kb'.rptr = kb.rptr
    BY <1>1, <1>5 DEF KbType
  <1>7. QED
    BY <1>1, <1>2, <1>3, <1>4, <1>6, KeyTypesNext DEF RingKept

LEMMA FindLinesStep ==
  ASSUME KeyInv, KbFindLines
  PROVE  KeyTypeOK' /\ RingKept
  <1>1. /\ keysDown \in Matrices /\ gpioIrq \in BOOLEAN
        /\ kbCall \in {Idle} \cup {"lines", "rows"} \X Modes
        /\ kb \in KbType /\ kbRing \in [0 .. 3 -> Matrices] /\ kbEvent \in Matrices /\ slips \in Nat
        /\ keyBudget \in [changes : 0 .. MaxChanges, holds : 0 .. MaxHolds]
    BY KeyTypes DEF KeyInv
  <1>2. UNCHANGED <<keysDown, gpioIrq, kbRing, kbEvent, keyBudget>> /\ slips' \in Nat
    BY <1>1 DEF KbFindLines
  <1> DEFINE lines == Lines(keysDown)
             t1 == IF lines # {} THEN [kb EXCEPT !.releaseCnt = ReleaseCnt, !.retLast = lines] ELSE kb
             t == KbKeyPressed(kb)
  <1>3. lines \in SUBSET Lines(KeyPositions)
    BY <1>1, LinesOf
  <1> HIDE DEF lines
  <1>4. t1 \in KbType /\ t1.wptr = kb.wptr /\ t1.rptr = kb.rptr
    <2>1. ReleaseCnt \in 0 .. ReleaseCnt
      BY KeyAssumption
    <2>2. CASE lines # {}
      <3>1. t1 = [kb EXCEPT !.releaseCnt = ReleaseCnt, !.retLast = lines]
        BY <2>2
      <3> HIDE DEF t1
      <3>2. QED
        BY <1>1, <1>3, <2>1, <3>1 DEF KbType
    <2>3. CASE lines = {}
      BY <1>1, <2>3
    <2>4. QED
      BY <2>2, <2>3
  <1> HIDE DEF t1
  <1>5. t = IF t1.releaseCnt > 0 THEN [t1 EXCEPT !.releaseCnt = @ - 1, !.need = t1.retLast]
                                 ELSE [t1 EXCEPT !.need = {}]
    BY DEF KbKeyPressed, t1, lines
  <1> HIDE DEF t
  <1>6. t \in KbType /\ t.wptr = kb.wptr /\ t.rptr = kb.rptr
    <2>1. CASE t1.releaseCnt > 0
      <3>1. t1.releaseCnt \in 0 .. ReleaseCnt /\ ReleaseCnt \in Nat
        BY <1>4, KeyAssumption DEF KbType
      <3>2. t1.releaseCnt - 1 \in 0 .. ReleaseCnt
        BY <2>1, <3>1
      <3>3. t = [t1 EXCEPT !.releaseCnt = @ - 1, !.need = t1.retLast]
        BY <1>5, <2>1
      <3>4. QED
        BY <1>4, <3>2, <3>3 DEF KbType
    <2>2. CASE ~(t1.releaseCnt > 0)
      BY <1>4, <1>5, <2>2 DEF KbType
    <2>3. QED
      BY <2>1, <2>2
  <1>7. kb' = [t EXCEPT !.notReleased = t.need # {}]
    BY DEF KbFindLines, t
  <1>8. kb' \in KbType /\ kb'.wptr = kb.wptr /\ kb'.rptr = kb.rptr
    BY <1>6, <1>7 DEF KbType
  <1>9. kbCall' \in {Idle} \cup {"lines", "rows"} \X Modes
    BY <1>1 DEF KbFindLines, Idle
  <1>10. QED
    BY <1>1, <1>2, <1>8, <1>9, KeyTypesNext DEF RingKept

\* The scan itself: the matrix is pushed if the filter let a change through, and
\* the oldest one is taken if the call reads; one call may do both.
LEMMA ScanValueStep ==
  ASSUME KeyInv, KbScanKeyValue
  PROVE  KeyInv' /\ KeyQueue!Next
  <1>1. /\ keysDown \in Matrices /\ gpioIrq \in BOOLEAN
        /\ kb \in KbType /\ kbRing \in [0 .. 3 -> Matrices] /\ kbEvent \in Matrices /\ slips \in Nat
        /\ keyBudget \in [changes : 0 .. MaxChanges, holds : 0 .. MaxHolds]
    BY KeyTypes DEF KeyInv
  <1>2. UNCHANGED <<keysDown, gpioIrq, slips, keyBudget>> /\ kbCall' = Idle
    BY DEF KbScanKeyValue
  <1> DEFINE cur == IF kbCall[2] = "poweron" THEN Pressed ELSE Debounce(Pressed)
             s == [kb EXCEPT !.pre = Pressed, !.last = cur]
             t == IF cur # kb.last THEN Pushed(s) ELSE s
             ring == IF cur # kb.last THEN [kbRing EXCEPT ![kb.wptr % RingSize] = cur] ELSE kbRing
             n == (kb.wptr - kb.rptr) % 8
             n2 == (t.wptr - t.rptr) % 8
             read == ~(kbCall[2] \in {"invalid", "peek"} \/ t.wptr = t.rptr)
  <1>3. Pressed \in Matrices /\ cur \in Matrices
    BY <1>1 DEF Pressed, Debounce, Matrices, KbType
  <1>4. /\ kbRing' = ring
        /\ ~read => kb' = t /\ kbEvent' = kbEvent
        /\ read => kb' = [t EXCEPT !.rptr = (@ + 1) % 8] /\ kbEvent' = Remap(ring[t.rptr % 4])
    BY DEF KbScanKeyValue, RingSize
  <1>5. kb.wptr \in 0 .. 7 /\ kb.rptr \in 0 .. 7 /\ n \in 0 .. 4
    <2>1. kb.wptr \in 0 .. 7 /\ kb.rptr \in 0 .. 7
      BY <1>1 DEF KbType
    <2>2. QED
      BY <2>1 DEF KeyInv, KeyFits
  <1> HIDE DEF cur
  <1>6. s \in KbType /\ s.wptr = kb.wptr /\ s.rptr = kb.rptr
    BY <1>1, <1>3 DEF KbType
  <1>7. Queue = RingQueue(kbRing, kb.rptr, n)
    BY <1>1, QueueOf
  <1> HIDE DEF s
  <1>8. /\ t \in KbType /\ n2 \in 0 .. 4 /\ ring \in [0 .. 3 -> Matrices]
        /\ RingQueue(ring, t.rptr, n2) \in KeyQueue!MaybePut(Queue)
    <2>1. CASE cur = kb.last
      <3>1. t = s /\ ring = kbRing
        BY <2>1
      <3>2. n2 = n /\ t.rptr = kb.rptr
        BY <1>6, <3>1
      <3> HIDE DEF t, ring, n, n2
      <3>3. QED
        BY <1>1, <1>5, <1>6, <1>7, <3>1, <3>2 DEF KeyQueue!MaybePut, Queue
    <2>2. CASE cur # kb.last
      <3> DEFINE w2 == (kb.wptr + 1) % 8
                 r2 == IF (w2 - kb.rptr) % 8 > 4 THEN (w2 - 4) % 8 ELSE kb.rptr
      <3>1. t = [s EXCEPT !.wptr = w2, !.rptr = r2]
        BY <1>6, <2>2 DEF Pushed, RingSize
      <3>2. /\ w2 \in 0 .. 7 /\ r2 \in 0 .. 7
            /\ \/ n = 4 /\ r2 = (kb.rptr + 1) % 8 /\ (w2 - r2) % 8 = 4
               \/ n # 4 /\ r2 = kb.rptr /\ (w2 - r2) % 8 = n + 1
        BY <1>5
      <3> HIDE DEF w2, r2
      <3>3. t \in KbType /\ t.wptr = w2 /\ t.rptr = r2
        BY <1>6, <3>1, <3>2 DEF KbType
      <3>4. n2 = (w2 - r2) % 8
        BY <3>3
      <3>5. ring = Stored(kbRing, kb.wptr, cur)
        BY <2>2 DEF RingSize, Stored
      <3>6. n = (kb.wptr - kb.rptr) % 8
        OBVIOUS
      <3> HIDE DEF t, ring, n, n2
      <3>7. \/ n = 4 /\ r2 = (kb.rptr + 1) % 8 /\ n2 = 4
            \/ n # 4 /\ r2 = kb.rptr /\ n2 = n + 1
        BY <3>2, <3>4
      <3>8. /\ ring \in [0 .. 3 -> Matrices] /\ r2 \in 0 .. 7 /\ n2 \in 1 .. 4
            /\ RingQueue(ring, r2, n2)
               = RingPutInto(RingQueue(kbRing, kb.rptr, n), Remap(cur))
        <4>1. PICK f, w, r, x, m : f = kbRing /\ w = kb.wptr /\ r = kb.rptr /\ x = cur /\ m = n
          OBVIOUS
        <4>2. /\ f \in [0 .. 3 -> Matrices] /\ w \in 0 .. 7 /\ r \in 0 .. 7 /\ x \in Matrices
              /\ m \in 0 .. 4 /\ r2 \in 0 .. 7 /\ n2 \in 1 .. 4
          BY <1>1, <1>3, <1>5, <3>2, <3>7, <4>1
        <4>a. PushMoves(f, x, r, w, m, r2, n2)
          <5>1. m = (w - r) % 8
            BY <3>6, <4>1
          <5>2. w = r + m \/ w = r + m - 8
            BY <4>2, <5>1
          <5>3. \/ m = 4 /\ r2 = (r + 1) % 8 /\ n2 = 4
                \/ m # 4 /\ r2 = r /\ n2 = m + 1
            BY <3>7, <4>1
          <5>4. QED
            BY <4>2, <5>2, <5>3 DEF PushMoves
        <4>3. /\ Stored(f, w, x) \in [0 .. 3 -> Matrices]
              /\ RingQueue(Stored(f, w, x), r2, n2) = RingPutInto(RingQueue(f, r, m), Remap(x))
          BY <4>a, RingPut
        <4>4. QED
          BY <3>5, <4>1, <4>2, <4>3
      <3>9. Remap(cur) \in Matrices
        BY <1>3, RemapIs
      <3>10. QED
        <4>1. RingPutInto(Queue, Remap(cur)) = KeyQueue!PutInto(Queue, Remap(cur))
          BY DEF RingPutInto, KeyQueue!PutInto, RingSize
        <4>2. QED
          BY <1>7, <3>3, <3>8, <3>9, <4>1 DEF KeyQueue!MaybePut, Queue
    <2>3. QED
      BY <2>1, <2>2
  <1>9. t.wptr \in 0 .. 7 /\ t.rptr \in 0 .. 7
    BY <1>8 DEF KbType
  <1>10. n2 = (t.wptr - t.rptr) % 8
    OBVIOUS
  <1>11. read => t.wptr # t.rptr
    OBVIOUS
  <1> HIDE DEF t, ring, n, n2, read
  <1>12. CASE ~read
    <2>1. kb' = t /\ kbRing' = ring /\ kbEvent' = kbEvent
      BY <1>4, <1>12
    <2>2. KeyTypeOK'
      BY <1>1, <1>2, <1>8, <2>1, KeyTypesNext
    <2>3. KeyFits'
      BY <1>8, <1>10, <2>1 DEF KeyFits
    <2>4. Queue' = RingQueue(ring, t.rptr, n2)
      <3>1. kb' \in KbType
        BY <1>8, <2>1
      <3>2. Queue' = RingQueue(kbRing', kb'.rptr, (kb'.wptr - kb'.rptr) % 8)
        BY <3>1, QueueOfNext
      <3>3. QED
        BY <1>10, <2>1, <3>2
    <2>5. KeyQueue!Put
      BY <1>8, <2>1, <2>4 DEF KeyQueue!Put, Queue
    <2>6. QED
      BY <2>2, <2>3, <2>5 DEF KeyInv, KeyQueue!Next
  <1>13. CASE read
    <2> DEFINE r3 == (t.rptr + 1) % 8
    <2>1. kb' = [t EXCEPT !.rptr = r3] /\ kbRing' = ring /\ kbEvent' = Remap(ring[t.rptr % 4])
      BY <1>4, <1>13
    <2>2. n2 \in 1 .. 4
      <3>1. PICK a, b : a = t.wptr /\ b = t.rptr
        OBVIOUS
      <3>2. a \in 0 .. 7 /\ b \in 0 .. 7 /\ a # b
        BY <1>9, <1>11, <1>13, <3>1
      <3>3. (a - b) % 8 # 0
        BY <3>2
      <3>4. QED
        BY <1>8, <1>10, <3>1, <3>3
    <2>3. r3 \in 0 .. 7 /\ (t.wptr - r3) % 8 = n2 - 1
      <3>1. PICK a, b, m : a = t.wptr /\ b = t.rptr /\ m = n2
        OBVIOUS
      <3>2. a \in 0 .. 7 /\ b \in 0 .. 7 /\ m \in 1 .. 4 /\ m = (a - b) % 8
        BY <1>9, <1>10, <2>2, <3>1
      <3>3. \/ b < 7 /\ r3 = b + 1
            \/ b = 7 /\ r3 = 0
        BY <3>1, <3>2
      <3>4. a = b + m \/ a = b + m - 8
        BY <3>2
      <3> HIDE DEF r3
      <3>5. r3 \in 0 .. 7 /\ (a - r3) % 8 = m - 1
        BY <3>2, <3>3, <3>4
      <3>6. QED
        BY <3>1, <3>5
    <2>4. t.rptr % 4 \in 0 .. 3
      BY <1>9
    <2> HIDE DEF r3
    <2>5. kb' \in KbType /\ kb'.wptr = t.wptr /\ kb'.rptr = r3
      BY <1>8, <2>1, <2>3 DEF KbType
    <2>6. kbEvent' \in Matrices
      BY <1>8, <2>1, <2>4, RemapIs
    <2>7. KeyTypeOK'
      BY <1>1, <1>2, <1>8, <2>1, <2>5, <2>6, KeyTypesNext
    <2>8. KeyFits'
      BY <2>2, <2>3, <2>5 DEF KeyFits
    <2>9. Queue' = RingQueue(ring, r3, n2 - 1)
      <3>1. Queue' = RingQueue(kbRing', kb'.rptr, (kb'.wptr - kb'.rptr) % 8)
        BY <2>5, QueueOfNext
      <3>2. QED
        BY <2>1, <2>3, <2>5, <3>1
    <2>10. LET q == RingQueue(ring, t.rptr, n2) IN
             q # <<>> /\ Head(q) = Remap(ring[t.rptr % 4]) /\ Tail(q) = RingQueue(ring, r3, n2 - 1)
      BY <1>8, <1>9, <2>2, RingGet DEF r3
    <2>11. KeyQueue!Get
      <3>1. PICK q : q \in KeyQueue!MaybePut(Queue) /\ q # <<>> /\ Head(q) = kbEvent' /\ Tail(q) = Queue'
        BY <1>8, <2>1, <2>9, <2>10
      <3>2. QED
        BY <3>1 DEF KeyQueue!Get, Queue
    <2>12. QED
      BY <2>7, <2>8, <2>11 DEF KeyInv, KeyQueue!Next
  <1>14. QED
    BY <1>12, <1>13

-----------------------------------------------------------------------------
LEMMA KeyStep ==
  ASSUME KeyInv, [KeyNext]_keyVars
  PROVE  KeyInv' /\ [KeyQueue!Next]_<<Queue, kbEvent>>
  <1>1. CASE KeyUser
    <2>1. PICK k \in KeyPositions : KeyPress(k) \/ KeyRelease(k)
      BY <1>1 DEF KeyUser
    <2>2. QED
      BY <2>1, KeyUserStep, RingKeptIsStutter
  <1>2. ASSUME NEW mode \in Modes, KbScanKey(mode) PROVE KeyInv' /\ [KeyQueue!Next]_<<Queue, kbEvent>>
    BY <1>2, ScanKeyStep, RingKeptIsStutter
  <1>3. CASE KbFindLines
    BY <1>3, FindLinesStep, RingKeptIsStutter
  <1>4. CASE KbScanKeyValue
    BY <1>4, ScanValueStep
  <1>5. CASE UNCHANGED keyVars
    <2>1. KeyTypeOK' /\ RingKept
      BY <1>5 DEF keyVars, KeyInv, KeyTypeOK, RingKept
    <2>2. QED
      BY <2>1, RingKeptIsStutter
  <1>6. QED
    BY <1>1, <1>2, <1>3, <1>4, <1>5 DEF KeyNext

(* The variables of the scan keep their types whatever the user does and      *)
(* however the driver is called; the two pointers stay below eight and never  *)
(* more than the four places of the ring apart (keyboard.c:432-435).          *)
THEOREM KeyTypesCorrect == KeySpec => [](KeyTypeOK /\ KeyFits)
  <1>1. KeyInit => KeyInv
    BY KeyInitInv
  <1>2. KeyInv /\ [KeyNext]_keyVars => KeyInv'
    BY KeyStep
  <1>3. KeyInv => KeyTypeOK /\ KeyFits
    BY DEF KeyInv
  <1>4. QED
    BY <1>1, <1>2, <1>3, PTL DEF KeySpec

(* The ring is a lossy queue of four: whatever the matrix of keys, how often  *)
(* ever the user presses and releases, and however many scans are not read,   *)
(* the caller gets the remapped matrices in the order of the scans, none of   *)
(* them twice, and only the oldest are dropped (matrix_buff, keyboard.c).     *)
THEOREM MatricesAreQueued == KeySpec => KeyRingIsLossyQueue
  <1>1. KeyInit => KeyInv /\ KeyQueue!Init
    BY KeyInitInv
  <1>2. KeyInv /\ [KeyNext]_keyVars => KeyInv' /\ [KeyQueue!Next]_KeyQueue!vars
    BY KeyStep DEF KeyQueue!vars, Queue
  <1>3. QED
    BY <1>1, <1>2, PTL DEF KeySpec, KeyRingIsLossyQueue, KeyQueue!Spec

-----------------------------------------------------------------------------
(* When the driver stops scanning. *)

Watching == kbCall # Idle \/ gpioIrq \/ kb.notReleased

(* What the filter holds m scans after the last one that found a line active, *)
(* when a key slipped into s of them: two scans without a key empty it, and   *)
(* it takes two with a key to fill it again.                                  *)
Settled(m, s) ==
  /\ s = 0 => (m >= 1 => kb.pre = {}) /\ (m >= 2 => kb.last = {})
  /\ s = 1 => (m >= 3 => kb.last = {} \/ kb.pre = {}) /\ (m >= 4 => kb.last = {})

WakeInv == keysDown # {} => gpioIrq \/ kb.notReleased

CallInv ==
  /\ kbCall # Idle => kb.notReleased /\ ~kb.fresh
  /\ kb.releaseCnt > 0 => kb.retLast # {}
  /\ ~kb.notReleased => kb.releaseCnt = 0
  /\ kb.fresh \/ kbCall = <<"lines", "poweron">> => kb.releaseCnt = 0
  /\ kbCall[1] = "rows" => kb.releaseCnt <= ReleaseCnt - 1
  /\ kbCall = <<"rows", "poweron">> => kb.releaseCnt = ReleaseCnt - 1

\* release_cnt counts the scans; a key that is down at the rows of one that found no
\* line active has slipped in.
FilterInv ==
  IF kbCall[1] = "rows"
    THEN kb.releaseCnt < ReleaseCnt - 1 =>
           \/ slips > 1
           \/ slips = 1 /\ Settled(ReleaseCnt - 2 - kb.releaseCnt, 0)
           \/ keysDown = {} /\ Settled(ReleaseCnt - 2 - kb.releaseCnt, slips)
    ELSE Settled(ReleaseCnt - 1 - kb.releaseCnt, slips)

RecordInv ==
  /\ Newest = kb.last
  /\ keyBudget.holds = MaxHolds =>
       /\ kb.wptr = kb.rptr /\ kbEvent = Remap(kb.last)
       /\ kbCall[2] \in {"none", "poweron", "read"}

ScanInv == WakeInv /\ CallInv /\ FilterInv /\ RecordInv

LEMMA LinesEmpty == \A m : Lines(m) = {} <=> m = {}
  BY DEF Lines

LEMMA NewestIs ==
  Newest = kbRing[(kb.wptr - 1) % 4]
  BY DEF Newest, RingSize

\* The place before place w of the ring.
LEMMA PlaceBefore ==
  ASSUME NEW w \in 0 .. 7
  PROVE  (w - 1) % 4 \in 0 .. 3 /\ (((w + 1) % 8) - 1) % 4 = w % 4
  OBVIOUS

LEMMA ScanInit == KeyInit => ScanInv
  <1>1. SUFFICES ASSUME KeyInit PROVE ScanInv
    OBVIOUS
  <1>2. WakeInv /\ CallInv
    BY <1>1, KeyAssumption DEF KeyInit, WakeInv, CallInv, Idle
  <1>3. kbCall[1] # "rows" /\ kb.pre = {} /\ kb.last = {}
    BY <1>1 DEF KeyInit, Idle
  <1>4. FilterInv
    BY <1>3 DEF FilterInv, Settled
  <1>5. RecordInv
    <2>1. kbRing = [i \in 0 .. 3 |-> {}] /\ kb.wptr = 0 /\ kb.rptr = 0 /\ kbEvent = {} /\ kbCall[2] = "none"
      BY <1>1 DEF KeyInit, Idle, RingSize
    <2>2. (kb.wptr - 1) % 4 \in 0 .. 3
      BY <2>1, PlaceBefore
    <2>3. Newest = {}
      BY <2>1, <2>2, NewestIs
    <2>4. Remap({}) = {}
      BY DEF Remap
    <2>5. QED
      BY <1>3, <2>1, <2>3, <2>4 DEF RecordInv
  <1>6. QED
    BY <1>2, <1>4, <1>5 DEF ScanInv

LEMMA ScanUserStep ==
  ASSUME KeyInv, ScanInv, NEW k \in KeyPositions, KeyPress(k) \/ KeyRelease(k)
  PROVE  ScanInv'
  <1>1. /\ kbCall' = kbCall /\ kb' = kb /\ kbRing' = kbRing /\ kbEvent' = kbEvent
        /\ keyBudget'.holds = keyBudget.holds /\ slips \in Nat
        /\ gpioIrq \in BOOLEAN /\ kb \in KbType
    BY KeyTypes DEF KeyInv, KeyPress, KeyRelease, SpendChange
  <1>2. WakeInv'
    <2>1. CASE KeyPress(k)
      <3>1. keysDown = {} => gpioIrq'
        BY <2>1, LinesEmpty DEF KeyPress
      <3>2. gpioIrq => gpioIrq'
        BY <2>1 DEF KeyPress
      <3>3. QED
        BY <1>1, <3>1, <3>2 DEF ScanInv, WakeInv
    <2>2. CASE KeyRelease(k)
      BY <1>1, <2>2 DEF ScanInv, WakeInv, KeyRelease
    <2>3. QED
      BY <2>1, <2>2
  <1>3. CallInv'
    BY <1>1 DEF ScanInv, CallInv
  <1>4. RecordInv'
    BY <1>1 DEF ScanInv, RecordInv, Newest
  <1>5. FilterInv'
    <2>1. CASE kbCall[1] # "rows" \/ ~(kb.releaseCnt < ReleaseCnt - 1)
      <3>1. slips' = slips
        BY <2>1 DEF KeyPress, KeyRelease
      <3>2. QED
        BY <1>1, <2>1, <3>1 DEF ScanInv, FilterInv, Settled
    <2>2. CASE kbCall[1] = "rows" /\ kb.releaseCnt < ReleaseCnt - 1
      <3> DEFINE m == ReleaseCnt - 2 - kb.releaseCnt
      <3>1. \/ slips > 1
            \/ slips = 1 /\ Settled(m, 0)
            \/ keysDown = {} /\ Settled(m, slips)
        BY <2>2 DEF ScanInv, FilterInv
      <3>2. \A j : Settled(m, j)' <=> Settled(m, j)
        BY <1>1 DEF Settled
      <3>3. \/ slips' > 1
            \/ slips' = 1 /\ Settled(m, 0)
            \/ keysDown' = {} /\ Settled(m, slips')
        <4>1. CASE KeyPress(k)
          <5>1. slips' = slips + 1
            BY <2>2, <4>1 DEF KeyPress
          <5> HIDE DEF m
          <5>2. QED
            BY <1>1, <3>1, <5>1
        <4>2. CASE KeyRelease(k)
          <5>1. slips' = slips /\ keysDown # {}
            BY <4>2 DEF KeyRelease
          <5> HIDE DEF m
          <5>2. QED
            BY <3>1, <5>1
        <4>3. QED
          BY <4>1, <4>2
      <3>4. m' = m
        BY <1>1
      <3>5. QED
        BY <1>1, <2>2, <3>2, <3>3, <3>4 DEF FilterInv, Settled
    <2>3. QED
      BY <2>1, <2>2
  <1>6. QED
    BY <1>2, <1>3, <1>4, <1>5 DEF ScanInv

LEMMA ScanBeginStep ==
  ASSUME KeyInv, ScanInv, NEW mode \in Modes, KbScanKey(mode)
  PROVE  ScanInv'
  <1> DEFINE wanted == mode = "poweron" \/ gpioIrq \/ kb.notReleased
  <1>1. /\ kbCall = Idle /\ CallAllowed(mode)
        /\ kbCall' = IF wanted THEN <<"lines", mode>> ELSE Idle
        /\ kb' = [kb EXCEPT !.fresh = FALSE, !.notReleased = wanted]
        /\ keysDown' = keysDown /\ kbRing' = kbRing /\ kbEvent' = kbEvent /\ slips' = slips
    BY DEF KbScanKey
  <1>2. gpioIrq \in BOOLEAN /\ kb \in KbType /\ keyBudget \in [changes : 0 .. MaxChanges, holds : 0 .. MaxHolds]
    BY KeyTypes DEF KeyInv
  <1>3. kb.notReleased \in BOOLEAN /\ wanted \in BOOLEAN
    BY <1>2 DEF KbType
  <1>4. wanted <=> mode = "poweron" \/ gpioIrq \/ kb.notReleased
    OBVIOUS
  <1> HIDE DEF wanted
  <1>5. /\ kb'.notReleased = wanted /\ kb'.fresh = FALSE /\ kb'.releaseCnt = kb.releaseCnt
        /\ kb'.retLast = kb.retLast /\ kb'.pre = kb.pre /\ kb'.last = kb.last
        /\ kb'.wptr = kb.wptr /\ kb'.rptr = kb.rptr
    BY <1>1, <1>2, <1>3 DEF KbType
  <1>6. kbCall' = Idle \/ kbCall' = <<"lines", mode>>
    BY <1>1, <1>3
  <1>7. kbCall[1] = "idle" /\ kbCall'[1] \in {"idle", "lines"} /\ kbCall' # <<"rows", "poweron">>
    BY <1>1, <1>6 DEF Idle
  <1>8. mode = "poweron" => kb.fresh /\ keyBudget' = keyBudget
    BY <1>1 DEF CallAllowed
  <1>9. WakeInv'
    BY <1>1, <1>4, <1>5 DEF ScanInv, WakeInv
  <1>10. CallInv'
    <2>1. kbCall' # Idle => kb'.notReleased /\ ~kb'.fresh
      BY <1>1, <1>3, <1>5
    <2>2. kb'.releaseCnt > 0 => kb'.retLast # {}
      BY <1>5 DEF ScanInv, CallInv
    <2>3. ~kb'.notReleased => kb'.releaseCnt = 0
      BY <1>4, <1>5 DEF ScanInv, CallInv
    <2>4. kb'.fresh \/ kbCall' = <<"lines", "poweron">> => kb'.releaseCnt = 0
      <3>1. kbCall' = <<"lines", "poweron">> => mode = "poweron"
        BY <1>6 DEF Idle
      <3>2. QED
        BY <1>5, <1>8, <3>1 DEF ScanInv, CallInv
    <2>5. QED
      BY <1>7, <2>1, <2>2, <2>3, <2>4 DEF CallInv
  <1>11. FilterInv'
    BY <1>1, <1>5, <1>7 DEF ScanInv, FilterInv, Settled
  <1>12. RecordInv'
    <2>1. Newest' = Newest
      BY <1>1, <1>5 DEF Newest
    <2>2. ASSUME keyBudget'.holds = MaxHolds
          PROVE  keyBudget.holds = MaxHolds /\ mode \in {"poweron", "read"}
      <3>1. MaxHolds \in Nat /\ keyBudget.holds \in 0 .. MaxHolds
        BY <1>2, KeyAssumption
      <3>2. \/ mode \in {"poweron", "read"} /\ keyBudget' = keyBudget
            \/ keyBudget' = [keyBudget EXCEPT !.holds = @ - 1]
        BY <1>1 DEF CallAllowed, Modes
      <3>3. keyBudget' = [keyBudget EXCEPT !.holds = @ - 1] => keyBudget'.holds = keyBudget.holds - 1
        BY <1>2
      <3>4. QED
        BY <2>2, <3>1, <3>2, <3>3
    <2>3. keyBudget'.holds = MaxHolds => kbCall'[2] \in {"none", "poweron", "read"}
      BY <1>6, <2>2 DEF Idle
    <2>4. QED
      BY <1>1, <1>5, <2>1, <2>2, <2>3 DEF ScanInv, RecordInv
  <1>13. QED
    BY <1>9, <1>10, <1>11, <1>12 DEF ScanInv

\* The lines are active if a key is down; after that the scan goes on for
\* ReleaseCnt - 1 calls on the lines that were active last.
LEMMA FindLinesIs ==
  ASSUME KeyInv, KbFindLines
  PROVE  /\ kb'.pre = kb.pre /\ kb'.last = kb.last /\ kb'.fresh = kb.fresh
         /\ IF keysDown # {}
              THEN /\ kb'.releaseCnt = ReleaseCnt - 1 /\ kb'.retLast # {}
                   /\ kb'.notReleased /\ kbCall' = <<"rows", kbCall[2]>>
              ELSE /\ kb'.retLast = kb.retLast
                   /\ IF kb.releaseCnt > 0
                        THEN /\ kb'.releaseCnt = kb.releaseCnt - 1
                             /\ kb.retLast # {} => kb'.notReleased /\ kbCall' = <<"rows", kbCall[2]>>
                        ELSE kb'.releaseCnt = 0 /\ ~kb'.notReleased /\ kbCall' = Idle
  <1>1. kb \in KbType /\ keysDown \in Matrices
    BY KeyTypes DEF KeyInv
  <1> DEFINE lines == Lines(keysDown)
             t1 == IF lines # {} THEN [kb EXCEPT !.releaseCnt = ReleaseCnt, !.retLast = lines] ELSE kb
             t == KbKeyPressed(kb)
  <1>2. lines # {} <=> keysDown # {}
    BY LinesEmpty
  <1> HIDE DEF lines
  <1>3. /\ t1.pre = kb.pre /\ t1.last = kb.last /\ t1.fresh = kb.fresh /\ DOMAIN t1 = DOMAIN kb
        /\ keysDown # {} => t1.releaseCnt = ReleaseCnt /\ t1.retLast = lines
        /\ keysDown = {} => t1 = kb
    <2>1. CASE keysDown # {}
      <3>1. t1 = [kb EXCEPT !.releaseCnt = ReleaseCnt, !.retLast = lines]
        BY <1>2, <2>1
      <3> HIDE DEF t1
      <3>2. QED
        BY <1>1, <2>1, <3>1 DEF KbType
    <2>2. CASE keysDown = {}
      BY <1>2, <2>2
    <2>3. QED
      BY <2>1, <2>2
  <1> HIDE DEF t1
  <1>4. t = IF t1.releaseCnt > 0 THEN [t1 EXCEPT !.releaseCnt = @ - 1, !.need = t1.retLast]
                                 ELSE [t1 EXCEPT !.need = {}]
    BY DEF KbKeyPressed, t1, lines
  <1> HIDE DEF t
  <1>5. DOMAIN t1 = {"notReleased", "releaseCnt", "retLast", "need", "pre", "last", "wptr", "rptr", "fresh"}
    BY <1>1, <1>3 DEF KbType
  <1>6. /\ t.pre = kb.pre /\ t.last = kb.last /\ t.fresh = kb.fresh /\ t.retLast = t1.retLast
        /\ DOMAIN t = DOMAIN t1
        /\ t.releaseCnt = IF t1.releaseCnt > 0 THEN t1.releaseCnt - 1 ELSE t1.releaseCnt
        /\ t.need = IF t1.releaseCnt > 0 THEN t1.retLast ELSE {}
    BY <1>3, <1>4, <1>5
  <1>7. /\ kb' = [t EXCEPT !.notReleased = t.need # {}]
        /\ kbCall' = IF t.need # {} THEN <<"rows", kbCall[2]>> ELSE Idle
    BY DEF KbFindLines, t
  <1>8. /\ kb'.pre = kb.pre /\ kb'.last = kb.last /\ kb'.fresh = kb.fresh /\ kb'.retLast = t1.retLast
        /\ kb'.releaseCnt = t.releaseCnt /\ kb'.notReleased = (t.need # {})
    BY <1>5, <1>6, <1>7
  <1>9. CASE keysDown # {}
    <2>1. t1.releaseCnt = ReleaseCnt /\ t1.retLast = lines /\ lines # {} /\ ReleaseCnt > 0
      BY <1>2, <1>3, <1>9, KeyAssumption
    <2>2. QED
      BY <1>6, <1>7, <1>8, <1>9, <2>1
  <1>10. CASE keysDown = {}
    <2>1. t1 = kb /\ kb.releaseCnt \in Nat
      BY <1>1, <1>3, <1>10 DEF KbType
    <2>2. CASE kb.releaseCnt > 0
      <3>1. t.need = kb.retLast /\ kb'.releaseCnt = kb.releaseCnt - 1 /\ kb'.retLast = kb.retLast
        BY <1>6, <1>8, <2>1, <2>2
      <3>2. QED
        BY <1>7, <1>8, <1>10, <2>2, <3>1
    <2>3. CASE ~(kb.releaseCnt > 0)
      <3>1. t.need = {} /\ kb'.releaseCnt = 0 /\ kb'.retLast = kb.retLast
        BY <1>6, <1>8, <2>1, <2>3
      <3>2. QED
        BY <1>7, <1>8, <1>10, <2>3, <3>1
    <2>4. QED
      BY <2>2, <2>3
  <1>11. QED
    BY <1>9, <1>10

LEMMA ScanLinesStep ==
  ASSUME KeyInv, ScanInv, KbFindLines
  PROVE  ScanInv'
  <1> DEFINE d == kb.releaseCnt
             mode == kbCall[2]
  <1>1. /\ kbCall[1] = "lines" /\ keysDown' = keysDown /\ gpioIrq' = gpioIrq
        /\ kbRing' = kbRing /\ kbEvent' = kbEvent /\ keyBudget' = keyBudget
        /\ slips' = IF keysDown # {} THEN 0 ELSE slips
    BY DEF KbFindLines
  <1>2. kb \in KbType /\ kbCall \in {Idle} \cup {"lines", "rows"} \X Modes
    BY KeyTypes DEF KeyInv
  <1>3. kbCall # Idle /\ kbCall = <<"lines", mode>> /\ mode \in Modes
    BY <1>1, <1>2 DEF Idle
  <1>4. kb'.wptr = kb.wptr /\ kb'.rptr = kb.rptr
    BY FindLinesStep DEF RingKept
  <1>5. ~kb.fresh /\ (d > 0 => kb.retLast # {}) /\ (mode = "poweron" => d = 0) /\ d \in 0 .. ReleaseCnt
    BY <1>2, <1>3 DEF ScanInv, CallInv, KbType
  <1>6. /\ kb'.pre = kb.pre /\ kb'.last = kb.last /\ ~kb'.fresh
        /\ \/ /\ keysDown # {} /\ slips' = 0 /\ kb'.releaseCnt = ReleaseCnt - 1 /\ kb'.retLast # {}
              /\ kb'.notReleased /\ kbCall' = <<"rows", mode>>
           \/ /\ keysDown = {} /\ slips' = slips /\ d > 0 /\ kb'.releaseCnt = d - 1 /\ kb'.retLast # {}
              /\ kb'.notReleased /\ kbCall' = <<"rows", mode>>
           \/ /\ keysDown = {} /\ slips' = slips /\ d = 0 /\ kb'.releaseCnt = 0
              /\ ~kb'.notReleased /\ kbCall' = Idle
    BY <1>1, <1>5, FindLinesIs
  <1>7. Settled(ReleaseCnt - 1 - d, slips)
    BY <1>1 DEF ScanInv, FilterInv
  <1> HIDE DEF d, mode
  <1>8. ReleaseCnt \in Nat \ {0}
    BY KeyAssumption
  <1>9. WakeInv'
    BY <1>1, <1>6 DEF WakeInv
  <1>10. CallInv'
    <2>1. /\ kbCall' # Idle => kb'.notReleased /\ ~kb'.fresh
          /\ kb'.releaseCnt > 0 => kb'.retLast # {}
          /\ ~kb'.notReleased => kb'.releaseCnt = 0
      BY <1>6, <1>8
    <2>2. ~(kb'.fresh \/ kbCall' = <<"lines", "poweron">>)
      BY <1>6 DEF Idle
    <2>3. kb'.releaseCnt <= ReleaseCnt - 1
      BY <1>5, <1>6, <1>8
    <2>4. kbCall' = <<"rows", "poweron">> => kb'.releaseCnt = ReleaseCnt - 1
      BY <1>5, <1>6 DEF Idle
    <2>5. QED
      BY <2>1, <2>2, <2>3, <2>4 DEF CallInv
  <1>11. FilterInv'
    <2>1. \A m, j : Settled(m, j)' <=> Settled(m, j)
      BY <1>6 DEF Settled
    <2>2. CASE keysDown # {}
      BY <1>6, <1>8, <2>2 DEF FilterInv
    <2>3. CASE keysDown = {} /\ d > 0
      <3>1. ReleaseCnt - 2 - (d - 1) = ReleaseCnt - 1 - d
        BY <1>5, <1>8
      <3>2. kbCall'[1] = "rows" /\ keysDown' = {} /\ slips' = slips /\ kb'.releaseCnt = d - 1
        BY <1>1, <1>6, <2>3
      <3>3. Settled(ReleaseCnt - 2 - kb.releaseCnt, slips)'
        BY <1>6, <1>7, <2>1, <3>1, <3>2 DEF Settled
      <3>4. QED
        BY <3>2, <3>3 DEF FilterInv
    <2>4. CASE keysDown = {} /\ ~(d > 0)
      <3>1. kbCall' = Idle /\ slips' = slips /\ kb'.releaseCnt = d
        BY <1>6, <2>4
      <3>2. QED
        BY <1>6, <1>7, <3>1 DEF FilterInv, Settled, Idle
    <2>5. QED
      BY <2>2, <2>3, <2>4
  <1>12. RecordInv'
    <2>1. Newest' = Newest
      BY <1>1, <1>4 DEF Newest
    <2>2. kbCall'[2] \in {"none", kbCall[2]}
      BY <1>6 DEF Idle, mode
    <2>3. QED
      BY <1>1, <1>4, <1>6, <2>1, <2>2 DEF ScanInv, RecordInv
  <1>13. QED
    BY <1>9, <1>10, <1>11, <1>12 DEF ScanInv

\* What the filter makes of the rows.
Filtered == IF kbCall[2] = "poweron" THEN Pressed ELSE Debounce(Pressed)

LEMMA ScanValueIs ==
  ASSUME KeyInv, KbScanKeyValue
  PROVE  /\ kb'.pre = Pressed /\ kb'.last = Filtered
         /\ kb'.notReleased = kb.notReleased /\ kb'.releaseCnt = kb.releaseCnt
         /\ kb'.retLast = kb.retLast /\ kb'.fresh = kb.fresh
         /\ IF Filtered = kb.last
              THEN /\ kbRing' = kbRing /\ kb'.wptr = kb.wptr
                   /\ kb.wptr = kb.rptr => kb'.rptr = kb.rptr /\ kbEvent' = kbEvent
              ELSE /\ kbRing' = [kbRing EXCEPT ![kb.wptr % 4] = Filtered]
                   /\ kb'.wptr = (kb.wptr + 1) % 8
                   /\ kb.wptr = kb.rptr /\ kbCall[2] \notin {"invalid", "peek"} =>
                        kb'.rptr = kb'.wptr /\ kbEvent' = Remap(Filtered)
  <1> DEFINE cur == Filtered
             s == [kb EXCEPT !.pre = Pressed, !.last = cur]
             t == IF cur # kb.last THEN Pushed(s) ELSE s
             ring == IF cur # kb.last THEN [kbRing EXCEPT ![kb.wptr % RingSize] = cur] ELSE kbRing
             read == ~(kbCall[2] \in {"invalid", "peek"} \/ t.wptr = t.rptr)
             Fields == {"notReleased", "releaseCnt", "retLast", "need", "pre", "last", "wptr", "rptr", "fresh"}
  <1>1. /\ keysDown \in Matrices /\ kb \in KbType /\ kbRing \in [0 .. 3 -> Matrices]
        /\ DOMAIN kb = Fields
    BY KeyTypes DEF KeyInv, KbType
  <1>2. /\ kbRing' = ring
        /\ ~read => kb' = t /\ kbEvent' = kbEvent
        /\ read => kb' = [t EXCEPT !.rptr = (@ + 1) % 8] /\ kbEvent' = Remap(ring[t.rptr % 4])
    BY DEF KbScanKeyValue, RingSize, Filtered
  <1>3. kb.wptr \in 0 .. 7 /\ kb.rptr \in 0 .. 7
    BY <1>1 DEF KbType
  <1>4. /\ s.pre = Pressed /\ s.last = cur /\ s.wptr = kb.wptr /\ s.rptr = kb.rptr
        /\ s.notReleased = kb.notReleased /\ s.releaseCnt = kb.releaseCnt
        /\ s.retLast = kb.retLast /\ s.fresh = kb.fresh /\ DOMAIN s = Fields
    BY <1>1
  <1> HIDE DEF s, cur
  <1>5. CASE cur = kb.last
    <2>1. t = s /\ ring = kbRing
      BY <1>5
    <2> HIDE DEF t, ring
    <2>2. \/ kb' = s /\ kbEvent' = kbEvent
          \/ kb' = [s EXCEPT !.rptr = (@ + 1) % 8] /\ s.wptr # s.rptr
      BY <1>2, <2>1
    <2>3. /\ kb'.pre = s.pre /\ kb'.last = s.last /\ kb'.notReleased = s.notReleased
          /\ kb'.releaseCnt = s.releaseCnt /\ kb'.retLast = s.retLast /\ kb'.fresh = s.fresh
          /\ kb'.wptr = s.wptr
      BY <1>4, <2>2
    <2>4. kb.wptr = kb.rptr => kb'.rptr = kb.rptr /\ kbEvent' = kbEvent
      BY <1>4, <2>2
    <2>5. QED
      BY <1>2, <1>4, <1>5, <2>1, <2>3, <2>4 DEF cur
  <1>6. CASE cur # kb.last
    <2> DEFINE w2 == (kb.wptr + 1) % 8
               r2 == IF (w2 - kb.rptr) % 8 > 4 THEN (w2 - 4) % 8 ELSE kb.rptr
    <2>1. t = [s EXCEPT !.wptr = w2, !.rptr = r2]
      BY <1>4, <1>6 DEF Pushed, RingSize
    <2>2. ring = [kbRing EXCEPT ![kb.wptr % 4] = cur]
      BY <1>6 DEF RingSize
    <2>3. kb.wptr = kb.rptr => r2 = kb.wptr /\ w2 # r2
      BY <1>3
    <2>4. kb.wptr % 4 \in 0 .. 3
      BY <1>3
    <2> HIDE DEF w2, r2, t, ring
    <2>5. /\ t.pre = s.pre /\ t.last = s.last /\ t.notReleased = s.notReleased
          /\ t.releaseCnt = s.releaseCnt /\ t.retLast = s.retLast /\ t.fresh = s.fresh
          /\ t.wptr = w2 /\ t.rptr = r2 /\ DOMAIN t = Fields
      BY <1>4, <2>1
    <2>6. /\ kb'.pre = s.pre /\ kb'.last = s.last /\ kb'.notReleased = s.notReleased
          /\ kb'.releaseCnt = s.releaseCnt /\ kb'.retLast = s.retLast /\ kb'.fresh = s.fresh
          /\ kb'.wptr = w2
      BY <1>2, <2>5
    <2>7. ASSUME kb.wptr = kb.rptr, kbCall[2] \notin {"invalid", "peek"}
          PROVE  kb'.rptr = w2 /\ kbEvent' = Remap(cur)
      <3>1. read
        BY <2>3, <2>5, <2>7
      <3>2. kb' = [t EXCEPT !.rptr = (@ + 1) % 8] /\ kbEvent' = Remap(ring[t.rptr % 4])
        BY <1>2, <3>1
      <3>3. kb'.rptr = (kb.wptr + 1) % 8
        BY <2>3, <2>5, <2>7, <3>2
      <3>4. ring[kb.wptr % 4] = cur
        BY <1>1, <2>2, <2>4
      <3>5. QED
        BY <2>3, <2>5, <2>7, <3>2, <3>3, <3>4 DEF w2
    <2>8. QED
      BY <1>2, <1>4, <1>6, <2>2, <2>6, <2>7 DEF cur, w2
  <1>7. QED
    BY <1>5, <1>6

LEMMA ScanRowsStep ==
  ASSUME KeyInv, ScanInv, KbScanKeyValue
  PROVE  ScanInv'
  <1> DEFINE d == kb.releaseCnt
             m == ReleaseCnt - 2 - d
  <1>1. /\ kbCall[1] = "rows" /\ kbCall' = Idle /\ keysDown' = keysDown /\ slips' = slips
        /\ keyBudget' = keyBudget
    BY DEF KbScanKeyValue
  <1>2. kb \in KbType /\ kbRing \in [0 .. 3 -> Matrices] /\ kbCall \in {Idle} \cup {"lines", "rows"} \X Modes
    BY KeyTypes DEF KeyInv
  <1>3. kbCall # Idle /\ kbCall = <<"rows", kbCall[2]>>
    BY <1>1, <1>2 DEF Idle
  <1>4. kb.notReleased /\ ~kb.fresh /\ d <= ReleaseCnt - 1 /\ d \in Nat
    BY <1>1, <1>2, <1>3 DEF ScanInv, CallInv, KbType
  <1>5. /\ kb'.pre = Pressed /\ kb'.last = Filtered /\ kb'.notReleased /\ kb'.releaseCnt = d
        /\ kb'.retLast = kb.retLast /\ ~kb'.fresh
    BY <1>4, ScanValueIs
  <1>6. WakeInv'
    BY <1>5 DEF WakeInv
  <1>7. CallInv'
    <2>1. kb'.releaseCnt > 0 => kb'.retLast # {}
      BY <1>5 DEF ScanInv, CallInv
    <2>2. QED
      BY <1>1, <1>5, <2>1 DEF CallInv, Idle
  <1>8. FilterInv'
    <2>1. SUFFICES Settled(ReleaseCnt - 1 - d, slips)'
      BY <1>1, <1>5 DEF FilterInv, Settled, Idle
    <2>2. ReleaseCnt \in Nat \ {0}
      BY KeyAssumption
    <2>3. CASE d = ReleaseCnt - 1
      BY <1>1, <1>5, <2>2, <2>3 DEF Settled
    <2>4. CASE d # ReleaseCnt - 1
      <3>1. d < ReleaseCnt - 1 /\ m \in Nat /\ ReleaseCnt - 1 - d = m + 1
        BY <1>4, <2>2, <2>4
      <3>2. kbCall[2] # "poweron"
        BY <1>3, <2>4 DEF ScanInv, CallInv
      <3>3. kb'.last = ((kb.pre \cap Pressed) \ kb.last) \cup (kb.last \cap (kb.pre \cup Pressed))
        BY <1>5, <3>2 DEF Filtered, Debounce
      <3>4. \/ slips > 1
            \/ slips = 1 /\ Settled(m, 0)
            \/ keysDown = {} /\ Settled(m, slips)
        BY <1>1, <3>1 DEF ScanInv, FilterInv
      <3>5. keysDown = {} => kb'.pre = {} /\ kb'.last = kb.last \cap kb.pre
        BY <1>5, <3>3 DEF Pressed
      <3>6. kb.pre = {} /\ kb.last = {} => kb'.last = {}
        BY <3>3
      <3> DEFINE n == m + 1
      <3>7. n \in Nat /\ m = n - 1
        BY <3>1
      <3> HIDE DEF m, n
      <3>8. /\ slips = 0 => (n >= 1 => kb'.pre = {}) /\ (n >= 2 => kb'.last = {})
            /\ slips = 1 => (n >= 3 => kb'.last = {} \/ kb'.pre = {}) /\ (n >= 4 => kb'.last = {})
        <4>1. CASE slips > 1
          BY <4>1
        <4>2. CASE slips = 1 /\ Settled(m, 0)
          BY <3>6, <3>7, <4>2 DEF Settled
        <4>3. CASE keysDown = {} /\ Settled(m, slips)
          <5>1. kb'.pre = {}
            BY <3>5, <4>3
          <5>2. kb.last = {} \/ kb.pre = {} => kb'.last = {}
            BY <3>5, <4>3
          <5>3. QED
            BY <3>7, <4>3, <5>1, <5>2 DEF Settled
        <4>4. QED
          BY <3>4, <4>1, <4>2, <4>3
      <3>9. ReleaseCnt - 1 - d = n
        BY <3>1 DEF n
      <3>10. QED
        BY <1>1, <3>8, <3>9, <1>5 DEF Settled
    <2>5. QED
      BY <2>3, <2>4
  <1>9. RecordInv'
    <2>1. kb.wptr \in 0 .. 7
      BY <1>2 DEF KbType
    <2>2. Newest' = kb'.last
      <3>1. Newest' = kbRing'[(kb'.wptr - 1) % 4]
        BY DEF Newest, RingSize
      <3>2. CASE Filtered = kb.last
        BY <1>5, <3>1, <3>2, ScanValueIs, NewestIs DEF ScanInv, RecordInv
      <3>3. CASE Filtered # kb.last
        <4>1. kbRing' = [kbRing EXCEPT ![kb.wptr % 4] = Filtered] /\ kb'.wptr = (kb.wptr + 1) % 8
          BY <3>3, ScanValueIs
        <4>2. (((kb.wptr + 1) % 8) - 1) % 4 = kb.wptr % 4
          BY <2>1, PlaceBefore
        <4>3. kb.wptr % 4 \in 0 .. 3
          BY <2>1
        <4>4. (kb'.wptr - 1) % 4 = kb.wptr % 4
          BY <4>1, <4>2
        <4>5. QED
          BY <1>2, <1>5, <3>1, <4>1, <4>3, <4>4
      <3>4. QED
        BY <3>2, <3>3
    <2>3. ASSUME keyBudget'.holds = MaxHolds
          PROVE  kb'.wptr = kb'.rptr /\ kbEvent' = Remap(kb'.last)
      <3>1. /\ kb.wptr = kb.rptr /\ kbEvent = Remap(kb.last)
            /\ kbCall[2] \in {"none", "poweron", "read"}
        BY <1>1, <2>3 DEF ScanInv, RecordInv
      <3>2. QED
        BY <1>5, <3>1, ScanValueIs
    <2>4. kbCall'[2] \in {"none", "poweron", "read"}
      BY <1>1 DEF Idle
    <2>5. QED
      BY <2>2, <2>3, <2>4 DEF RecordInv
  <1>10. QED
    BY <1>6, <1>7, <1>8, <1>9 DEF ScanInv

(* The driver stops scanning only when the keys are up, and by then its record *)
(* says so, and a caller who always reads has been told - whatever the matrix  *)
(* and the user's presses and releases, unless two presses slipped between     *)
(* the lines and the rows.  That takes five calls, the last that finds a line  *)
(* active among them; the driver makes six (release_cnt, keyboard.c:359-370).  *)
(* It is why the keys settle: the main loop only has to go on calling.         *)
THEOREM ScanningStopsReleased ==
  KeySpec => [](~Watching =>
                  /\ keysDown = {}
                  /\ ReleaseCnt >= 5 /\ slips <= 1 => Newest = {}
                  /\ keyBudget.holds = MaxHolds => kbEvent = Remap(Newest))
  <1> DEFINE Stops == ~Watching =>
                        /\ keysDown = {}
                        /\ ReleaseCnt >= 5 /\ slips <= 1 => Newest = {}
                        /\ keyBudget.holds = MaxHolds => kbEvent = Remap(Newest)
  <1>1. KeyInit => KeyInv /\ ScanInv
    BY KeyInitInv, ScanInit
  <1>2. KeyInv /\ ScanInv /\ [KeyNext]_keyVars => KeyInv' /\ ScanInv'
    <2>1. SUFFICES ASSUME KeyInv, ScanInv, [KeyNext]_keyVars PROVE KeyInv' /\ ScanInv'
      OBVIOUS
    <2>2. KeyInv'
      BY <2>1, KeyStep
    <2>3. CASE KeyUser
      <3>1. PICK k \in KeyPositions : KeyPress(k) \/ KeyRelease(k)
        BY <2>3 DEF KeyUser
      <3>2. QED
        BY <2>1, <2>2, <3>1, ScanUserStep
    <2>4. ASSUME NEW mode \in Modes, KbScanKey(mode) PROVE ScanInv'
      BY <2>1, <2>4, ScanBeginStep
    <2>5. CASE KbFindLines
      <3>1. KeyInv /\ ScanInv /\ KbFindLines
        BY <2>1, <2>5
      <3>2. QED
        BY <2>2, <3>1, ScanLinesStep
    <2>6. CASE KbScanKeyValue
      <3>1. KeyInv /\ ScanInv /\ KbScanKeyValue
        BY <2>1, <2>6
      <3>2. QED
        BY <2>2, <3>1, ScanRowsStep
    <2>7. CASE UNCHANGED keyVars
      <3>1. /\ kbCall' = kbCall /\ kb' = kb /\ kbRing' = kbRing /\ kbEvent' = kbEvent
            /\ keyBudget' = keyBudget /\ slips' = slips /\ keysDown' = keysDown /\ gpioIrq' = gpioIrq
        BY <2>7 DEF keyVars
      <3>2. WakeInv'
        BY <2>1, <3>1 DEF ScanInv, WakeInv
      <3>3. CallInv'
        BY <2>1, <3>1 DEF ScanInv, CallInv
      <3>4. FilterInv'
        <4>1. \A m, j : Settled(m, j)' <=> Settled(m, j)
          BY <3>1 DEF Settled
        <4>2. FilterInv
          BY <2>1 DEF ScanInv
        <4>3. QED
          BY <3>1, <4>1, <4>2 DEF FilterInv, Settled
      <3>5. RecordInv'
        BY <2>1, <3>1 DEF ScanInv, RecordInv, Newest
      <3>6. QED
        BY <2>2, <3>2, <3>3, <3>4, <3>5 DEF ScanInv
    <2>8. QED
      BY <2>1, <2>2, <2>3, <2>4, <2>5, <2>6, <2>7 DEF KeyNext
  <1>3. KeyInv /\ ScanInv => Stops
    <2>1. SUFFICES ASSUME KeyInv, ScanInv, ~Watching
                   PROVE  /\ keysDown = {}
                          /\ ReleaseCnt >= 5 /\ slips <= 1 => Newest = {}
                          /\ keyBudget.holds = MaxHolds => kbEvent = Remap(Newest)
      OBVIOUS
    <2>2. kbCall = Idle /\ ~gpioIrq /\ ~kb.notReleased
      BY <2>1 DEF Watching
    <2>3. keysDown = {} /\ kb.releaseCnt = 0
      BY <2>1, <2>2 DEF ScanInv, WakeInv, CallInv
    <2>4. Newest = kb.last /\ (keyBudget.holds = MaxHolds => kbEvent = Remap(kb.last))
      BY <2>1 DEF ScanInv, RecordInv
    <2>5. Settled(ReleaseCnt - 1, slips)
      <3>1. ReleaseCnt - 1 - kb.releaseCnt = ReleaseCnt - 1
        BY <2>3, KeyAssumption
      <3>2. QED
        BY <2>1, <2>2, <3>1 DEF ScanInv, FilterInv, Idle
    <2>6. slips \in Nat
      BY <2>1, KeyTypes DEF KeyInv
    <2>7. ReleaseCnt >= 5 /\ slips <= 1 => kb.last = {}
      BY <2>5, <2>6, KeyAssumption DEF Settled
    <2>8. QED
      BY <2>3, <2>4, <2>7
  <1>4. QED
    BY <1>1, <1>2, <1>3, PTL DEF KeySpec

-----------------------------------------------------------------------------
(* The control endpoint.  n bytes of a descriptor from the (a + 1)-st on, and *)
(* how many of them the host is to get.                                       *)

Portion(d, a, n) == [k \in 1 .. n |-> <<d, a + k>>]
Wanted(r) == IF r.wLength < DescriptorSize[r.item] THEN r.wLength ELSE DescriptorSize[r.item]

\* What can stand in a packet, a response or a setting.
Marks == Values \cup {InitialValue, SetupBytes}
Cells == ((DOMAIN DescriptorSize) \X Nat) \cup Marks
AtMost(n) == {q \in Seq(Cells) : Len(q) <= n}

HostT == [phase : {"idle", "in", "out", "status"}, req : Requests, got : Seq(Cells),
          result : {"none", "done", "stalled"}]
EpT == [setup : BOOLEAN, data : BOOLEAN, sta : BOOLEAN, reset : BOOLEAN,
        dat : {"nak", "ack", "stall"}, status : {"nak", "ack", "stall"}, buf : AtMost(PacketSize)]
DongleT == [req : Requests, response : AtMost(2 * PacketSize + 1), stall : BOOLEAN]
SettingsT == [Settings -> Marks]

CtlTypes ==
  /\ host \in HostT /\ Len(host.got) <= host.req.wLength
  /\ ep0 \in EpT /\ dongle \in DongleT /\ settings \in SettingsT
  /\ transfers \in 0 .. MaxTransfers

(* The interrupt flags.  A SETUP stands alone or with the status of a         *)
(* transfer without data; a packet is answered before the next one moves; and *)
(* an idle endpoint has nothing pending but a reset.                          *)
FlagInv ==
  /\ host.phase = "idle" => ~ep0.setup /\ ~ep0.data /\ ~ep0.sta
  /\ host.phase # "idle" => ~ep0.reset /\ host.result = "none"
  /\ ep0.setup => /\ ~ep0.data /\ ep0.dat = "nak" /\ host.got = <<>>
                  /\ ep0.sta <=> host.phase = "status"
  /\ ep0.data => ep0.dat = "nak" /\ host.phase \in {"in", "status"}
  /\ ep0.sta => ep0.setup \/ ep0.data
  /\ host.phase = "status" /\ (ep0.setup \/ ep0.data) => ep0.sta /\ ep0.status = "nak"
  /\ host.phase \in {"in", "out"} => ~ep0.sta /\ ep0.status = "nak"

\* The direction of the data; the firmware has the request once SETUP is served.
RequestInv ==
  /\ host.phase = "in" => Reads(host.req)
  /\ host.phase = "out" => Writes(host.req)
  /\ host.phase = "status" => /\ host.req.kind # "unknownOut"
                              /\ ep0.setup => ~Reads(host.req) /\ ~Writes(host.req)
  /\ host.phase # "idle" /\ ~ep0.setup => dongle.req = host.req
  /\ host.phase = "out" /\ ~ep0.setup /\ host.req.kind = "unknownOut" => ep0.dat = "stall"

(* A descriptor is cut in three: the host has the first part, the endpoint    *)
(* the next packet unless it has just gone, and the response the rest.  A     *)
(* packet that is short is the last.                                          *)
Halfway(g, c) ==
  LET w == Wanted(host.req)
      d == host.req.item IN
  /\ g + c <= w
  /\ host.got = Portion(d, 0, g) /\ dongle.response = Portion(d, w - c, c)
  /\ ep0.data => g + c = w
  /\ ~ep0.data => /\ ep0.buf = Portion(d, g, w - g - c) /\ w - g - c <= PacketSize
                  /\ w - g - c < PacketSize => c = 0

DescriptorInv ==
  host.req.kind = "descriptor" =>
    /\ host.phase = "in" /\ ~ep0.setup => \E g, c \in Nat : Halfway(g, c)
    /\ host.phase = "status" => host.got = Portion(host.req.item, 0, Wanted(host.req))

SettingInv ==
  /\ host.req.kind = "get" =>
       /\ host.phase = "in" /\ ~ep0.setup =>
            ~ep0.data /\ host.got = <<>> /\ ep0.buf = <<settings[host.req.item]>>
       /\ host.phase = "status" => host.got = <<settings[host.req.item]>>
  /\ host.req.kind = "set" /\ host.phase = "status" =>
       /\ ep0.data => ep0.buf = <<host.req.value>>
       /\ ~ep0.setup /\ ~ep0.data => settings[host.req.item] = host.req.value

DoneInv == DoneMeansDone /\ (host.result = "done" => ~ep0.reset)

CtlInv == CtlTypes /\ FlagInv /\ RequestInv /\ DescriptorInv /\ SettingInv /\ DoneInv

-----------------------------------------------------------------------------
(* Cutting a descriptor into parts.                                          *)

LEMMA PartIs ==
  ASSUME NEW d \in DOMAIN DescriptorSize, NEW a \in Nat, NEW n \in Nat
  PROVE  /\ Portion(d, a, n) \in Seq(Cells) /\ Len(Portion(d, a, n)) = n
         /\ \A k \in 1 .. n : Portion(d, a, n)[k] = <<d, a + k>>
  <1> DEFINE p == Portion(d, a, n)
  <1>1. p = [k \in 1 .. n |-> <<d, a + k>>]
    BY DEF Portion
  <1>2. ASSUME NEW k \in 1 .. n PROVE <<d, a + k>> \in Cells
    <2>1. a + k \in Nat
      OBVIOUS
    <2>2. QED
      BY <2>1 DEF Cells
  <1>3. p \in [1 .. n -> Cells]
    BY <1>1, <1>2
  <1> HIDE DEF p
  <1>4. p \in Seq(Cells) /\ Len(p) = n
    BY <1>3
  <1>5. QED
    BY <1>1, <1>4 DEF p

LEMMA ClipIs ==
  ASSUME NEW S, NEW q \in Seq(S), NEW n \in Nat
  PROVE  /\ Clip(q, n) \in Seq(S)
         /\ Len(Clip(q, n)) = IF n < Len(q) THEN n ELSE Len(q)
         /\ \A k \in 1 .. Len(Clip(q, n)) : Clip(q, n)[k] = q[k]
  <1> DEFINE m == IF n < Len(q) THEN n ELSE Len(q)
  <1>1. m \in Nat /\ m <= Len(q) /\ Clip(q, n) = SubSeq(q, 1, m)
    BY DEF Clip
  <1> HIDE DEF m
  <1>2. Clip(q, n) \in Seq(S) /\ Len(Clip(q, n)) = m /\ \A k \in 1 .. m : Clip(q, n)[k] = q[k]
    BY <1>1
  <1>3. QED
    BY <1>2 DEF m

LEMMA RestIs ==
  ASSUME NEW S, NEW q \in Seq(S), NEW m \in Nat
  PROVE  /\ SubSeq(q, m + 1, Len(q)) \in Seq(S)
         /\ Len(SubSeq(q, m + 1, Len(q))) = IF m < Len(q) THEN Len(q) - m ELSE 0
         /\ \A k \in 1 .. Len(SubSeq(q, m + 1, Len(q))) : SubSeq(q, m + 1, Len(q))[k] = q[m + k]
  OBVIOUS

LEMMA PartEmpty == \A d, a : Portion(d, a, 0) = <<>>
  BY DEF Portion

LEMMA PartClip ==
  ASSUME NEW d \in DOMAIN DescriptorSize, NEW a \in Nat, NEW n \in Nat, NEW m \in Nat
  PROVE  Clip(Portion(d, a, n), m) = Portion(d, a, IF m < n THEN m ELSE n)
  <1> DEFINE l == IF m < n THEN m ELSE n
             p == Portion(d, a, n)
             c == Clip(p, m)
             z == Portion(d, a, l)
  <1>1. p \in Seq(Cells) /\ Len(p) = n /\ \A k \in 1 .. n : p[k] = <<d, a + k>>
    BY PartIs
  <1>2. l \in Nat /\ l <= n
    OBVIOUS
  <1> HIDE DEF p
  <1>3. c \in Seq(Cells) /\ Len(c) = l /\ \A k \in 1 .. Len(c) : c[k] = p[k]
    BY <1>1, ClipIs
  <1> HIDE DEF c, l
  <1>4. z \in Seq(Cells) /\ Len(z) = l /\ \A k \in 1 .. l : z[k] = <<d, a + k>>
    BY <1>2, PartIs
  <1> HIDE DEF z
  <1>5. ASSUME NEW k \in 1 .. l PROVE c[k] = z[k]
    <2>1. k \in 1 .. n /\ k \in 1 .. Len(c)
      BY <1>2, <1>3
    <2>2. QED
      BY <1>1, <1>3, <1>4, <2>1
  <1>6. c = z
    BY <1>3, <1>4, <1>5, SeqEqual
  <1>7. QED
    BY <1>6 DEF c, z, p, l

LEMMA PartRest ==
  ASSUME NEW d \in DOMAIN DescriptorSize, NEW a \in Nat, NEW n \in Nat, NEW m \in Nat, m <= n
  PROVE  SubSeq(Portion(d, a, n), m + 1, n) = Portion(d, a + m, n - m)
  <1> DEFINE p == Portion(d, a, n)
             r == SubSeq(p, m + 1, Len(p))
             z == Portion(d, a + m, n - m)
  <1>1. p \in Seq(Cells) /\ Len(p) = n /\ \A k \in 1 .. n : p[k] = <<d, a + k>>
    BY PartIs
  <1>2. a + m \in Nat /\ n - m \in Nat
    OBVIOUS
  <1>3. z \in Seq(Cells) /\ Len(z) = n - m /\ \A k \in 1 .. n - m : z[k] = <<d, (a + m) + k>>
    BY <1>2, PartIs
  <1> HIDE DEF p, z
  <1>4. r \in Seq(Cells) /\ Len(r) = n - m /\ \A k \in 1 .. Len(r) : r[k] = p[m + k]
    <2>1. /\ r \in Seq(Cells) /\ Len(r) = IF m < Len(p) THEN Len(p) - m ELSE 0
          /\ \A k \in 1 .. Len(r) : r[k] = p[m + k]
      BY <1>1, RestIs
    <2> HIDE DEF r
    <2>2. QED
      BY <1>1, <2>1
  <1> HIDE DEF r
  <1>5. ASSUME NEW k \in 1 .. n - m PROVE r[k] = z[k]
    <2>1. m + k \in 1 .. n /\ (a + m) + k = a + (m + k) /\ k \in 1 .. Len(r)
      BY <1>4
    <2>2. p[m + k] = <<d, a + (m + k)>> /\ z[k] = <<d, (a + m) + k>>
      BY <1>1, <1>3, <2>1
    <2>3. QED
      BY <1>4, <2>1, <2>2
  <1>6. r = z
    BY <1>3, <1>4, <1>5, SeqEqual
  <1>7. QED
    BY <1>1, <1>6 DEF r, z, p

LEMMA PartCat ==
  ASSUME NEW d \in DOMAIN DescriptorSize, NEW g \in Nat, NEW b \in Nat
  PROVE  Portion(d, 0, g) \o Portion(d, g, b) = Portion(d, 0, g + b)
  <1> DEFINE p == Portion(d, 0, g)
             q == Portion(d, g, b)
             z == Portion(d, 0, g + b)
             c == p \o q
  <1>1. p \in Seq(Cells) /\ Len(p) = g /\ \A k \in 1 .. g : p[k] = <<d, 0 + k>>
    BY PartIs
  <1>2. q \in Seq(Cells) /\ Len(q) = b /\ \A k \in 1 .. b : q[k] = <<d, g + k>>
    BY PartIs
  <1>3. z \in Seq(Cells) /\ Len(z) = g + b /\ \A k \in 1 .. g + b : z[k] = <<d, 0 + k>>
    <2>1. g + b \in Nat
      OBVIOUS
    <2>2. QED
      BY <2>1, PartIs
  <1> HIDE DEF p, q, z
  <1>4. /\ c \in Seq(Cells) /\ Len(c) = g + b
        /\ \A k \in 1 .. g + b : c[k] = IF k <= g THEN p[k] ELSE q[k - g]
    BY <1>1, <1>2, ConcatProperties
  <1> HIDE DEF c
  <1>5. ASSUME NEW k \in 1 .. g + b PROVE c[k] = z[k]
    <2>1. CASE k <= g
      <3>1. k \in 1 .. g
        BY <2>1
      <3>2. p[k] = <<d, 0 + k>> /\ z[k] = <<d, 0 + k>>
        BY <1>1, <1>3, <3>1
      <3>3. QED
        BY <1>4, <2>1, <3>2
    <2>2. CASE ~(k <= g)
      <3>1. k - g \in 1 .. b /\ g + (k - g) = 0 + k
        BY <2>2
      <3>2. QED
        BY <1>2, <1>3, <1>4, <2>2, <3>1
    <2>3. QED
      BY <2>1, <2>2
  <1>6. c = z
    BY <1>3, <1>4, <1>5, SeqEqual
  <1>7. QED
    BY <1>6 DEF c, p, q, z

-----------------------------------------------------------------------------
(* What a stage of the firmware does, request by request.                    *)

StateT == [dongle : DongleT, ep0 : EpT, settings : SettingsT]
Unknown == {"unknownIn", "unknownOut"}

\* The interrupt flags and the status handshake.
SameFlags(t, s) ==
  /\ t.ep0.setup = s.ep0.setup /\ t.ep0.data = s.ep0.data /\ t.ep0.sta = s.ep0.sta
  /\ t.ep0.reset = s.ep0.reset /\ t.ep0.status = s.ep0.status

LEMMA RequestIs ==
  ASSUME NEW r \in Requests
  PROVE  /\ r.kind \in {"descriptor", "noHid", "get", "set"} \cup Unknown
         /\ r.wLength \in 1 .. 2 * PacketSize + 1 /\ r.value \in Marks
         /\ r.kind = "descriptor" => r.item \in DOMAIN DescriptorSize
         /\ r.kind \in {"get", "noHid"} => r.wLength <= 2 * PacketSize
         /\ r.kind = "get" => r.wLength = 1
         /\ r.kind \in {"get", "set"} => r.item \in Settings
         /\ r.kind = "set" => r.value \in Values
         /\ r.kind \in Unknown => r.item = "unknown"
  <1>1. PacketSize \in Nat \ {0}
    BY ControlAssumption
  <1>2. CASE r \in [kind : {"descriptor"}, item : DOMAIN DescriptorSize, wLength : 1 .. 2 * PacketSize + 1,
                    value : {SetupBytes}]
    BY <1>1, <1>2 DEF Marks, Unknown
  <1>3. CASE r \in [kind : {"noHid"}, item : {"hid"}, wLength : {2 * PacketSize}, value : {SetupBytes}]
    BY <1>1, <1>3 DEF Marks, Unknown
  <1>4. CASE r \in [kind : {"unknownIn", "unknownOut"}, item : {"unknown"}, wLength : {1}, value : {SetupBytes}]
    BY <1>1, <1>4 DEF Marks, Unknown
  <1>5. CASE r \in [kind : {"get"}, item : Settings \ {"report"}, wLength : {1}, value : {SetupBytes}]
    BY <1>1, <1>5 DEF Marks, Unknown
  <1>6. CASE r \in [kind : {"set"}, item : Settings, wLength : {1}, value : Values]
    BY <1>1, <1>6 DEF Marks, Unknown
  <1>7. QED
    BY <1>2, <1>3, <1>4, <1>5, <1>6 DEF Requests

LEMMA WantedIs ==
  ASSUME NEW r \in Requests, r.kind = "descriptor"
  PROVE  /\ Wanted(r) \in Nat /\ Wanted(r) <= r.wLength /\ r.item \in DOMAIN DescriptorSize
         /\ DescriptorSize[r.item] \in Nat
         /\ Clip(Bytes(r.item, DescriptorSize[r.item]), r.wLength) = Portion(r.item, 0, Wanted(r))
  <1>1. r.item \in DOMAIN DescriptorSize /\ r.wLength \in Nat
    BY RequestIs
  <1>2. DescriptorSize[r.item] \in Nat
    BY <1>1, ControlAssumption
  <1>3. Bytes(r.item, DescriptorSize[r.item]) = Portion(r.item, 0, DescriptorSize[r.item])
    <2>1. \A k \in 1 .. DescriptorSize[r.item] : 0 + k = k
      BY <1>2
    <2>2. QED
      BY <2>1 DEF Bytes, Portion
  <1>4. QED
    BY <1>1, <1>2, <1>3, PartClip DEF Wanted

LEMMA ResponseIs ==
  ASSUME NEW d \in DongleT, NEW r \in Requests
  PROVE  /\ Response(d, r) \in AtMost(2 * PacketSize + 1)
         /\ r.kind = "descriptor" => Response(d, r) = Portion(r.item, 0, Wanted(r))
  <1>0. r.wLength \in Nat /\ r.wLength <= 2 * PacketSize + 1
    BY RequestIs, ControlAssumption
  <1>1. CASE r.kind = "descriptor"
    <2>1. Response(d, r) = Portion(r.item, 0, Wanted(r))
      BY <1>1, WantedIs DEF Response
    <2>2. Wanted(r) \in Nat /\ Wanted(r) <= r.wLength /\ r.item \in DOMAIN DescriptorSize
      BY <1>1, WantedIs
    <2>3. Response(d, r) \in Seq(Cells) /\ Len(Response(d, r)) = Wanted(r)
      BY <2>1, <2>2, PartIs
    <2>4. Wanted(r) <= 2 * PacketSize + 1
      BY <1>0, <2>2, ControlAssumption
    <2>5. QED
      BY <1>1, <2>1, <2>3, <2>4 DEF AtMost
  <1>2. CASE r.kind # "descriptor"
    <2> DEFINE q == IF r.kind = "noHid" THEN d.response ELSE <<>>
    <2>1. Response(d, r) = Clip(q, r.wLength)
      BY <1>2 DEF Response
    <2>2. q \in Seq(Cells)
      BY DEF DongleT, AtMost
    <2> HIDE DEF q
    <2>3. Response(d, r) \in Seq(Cells) /\ Len(Response(d, r)) <= r.wLength
      BY <1>0, <2>1, <2>2, ClipIs
    <2>4. QED
      BY <1>0, <1>2, <2>3, ControlAssumption DEF AtMost
  <1>3. QED
    BY <1>1, <1>2

LEMMA SendIs ==
  ASSUME NEW s \in StateT
  PROVE  LET t == SendResponse(s) IN
         /\ t \in StateT /\ SameFlags(t, s) /\ t.settings = s.settings
         /\ t.dongle.req = s.dongle.req /\ t.dongle.stall = s.dongle.stall
         /\ t.ep0.buf = Clip(s.dongle.response, PacketSize)
         /\ t.dongle.response = SubSeq(s.dongle.response, PacketSize + 1, Len(s.dongle.response))
  <1> DEFINE q == s.dongle.response
             b == Clip(q, PacketSize)
             r == SubSeq(q, PacketSize + 1, Len(q))
             t == SendResponse(s)
  <1>0. s.dongle \in DongleT /\ s.ep0 \in EpT /\ s.settings \in SettingsT
    BY DEF StateT
  <1>1. PacketSize \in Nat /\ q \in Seq(Cells) /\ Len(q) <= 2 * PacketSize + 1
    BY <1>0, ControlAssumption DEF DongleT, AtMost
  <1>2. t = [s EXCEPT !.ep0.buf = b, !.dongle.response = r]
    BY DEF SendResponse
  <1>3. b \in AtMost(PacketSize)
    <2> HIDE DEF q
    <2>1. QED
      BY <1>1, ClipIs DEF AtMost
  <1>4. r \in AtMost(2 * PacketSize + 1)
    <2> HIDE DEF q
    <2>1. r \in Seq(Cells) /\ Len(r) = IF PacketSize < Len(q) THEN Len(q) - PacketSize ELSE 0
      BY <1>1, RestIs
    <2>2. Len(q) \in Nat
      BY <1>1
    <2> HIDE DEF r
    <2>3. Len(r) <= 2 * PacketSize + 1
      BY <1>1, <2>1, <2>2
    <2>4. QED
      BY <2>1, <2>3 DEF AtMost
  <1> HIDE DEF b, r
  <1>5. t = [s EXCEPT !.ep0 = [s.ep0 EXCEPT !.buf = b], !.dongle = [s.dongle EXCEPT !.response = r]]
    BY <1>2 DEF StateT
  <1>6. [s.ep0 EXCEPT !.buf = b] \in EpT /\ [s.dongle EXCEPT !.response = r] \in DongleT
    BY <1>0, <1>3, <1>4 DEF EpT, DongleT
  <1>7. /\ t \in StateT /\ t.settings = s.settings
        /\ t.ep0 = [s.ep0 EXCEPT !.buf = b] /\ t.dongle = [s.dongle EXCEPT !.response = r]
    BY <1>5, <1>6 DEF StateT
  <1>8. SameFlags(t, s) /\ t.ep0.buf = b
    BY <1>0, <1>7 DEF SameFlags, EpT
  <1>9. t.dongle.req = s.dongle.req /\ t.dongle.stall = s.dongle.stall /\ t.dongle.response = r
    BY <1>0, <1>7 DEF DongleT
  <1>10. QED
    BY <1>7, <1>8, <1>9 DEF b, r, t

\* The request a stage serves, and what it leaves of each kind.
StageRequest(s, atSetup) == IF atSetup THEN host.req ELSE s.dongle.req

Readable(s, atSetup) ==
  StageRequest(s, atSetup).kind = "set" /\ ~atSetup => s.ep0.buf[1] \in Marks

Served(t, s, r, resp, atSetup) ==
  /\ r.kind \in {"descriptor", "noHid"} =>
       /\ t.ep0.buf = Clip(resp, PacketSize) /\ t.settings = s.settings
       /\ t.dongle.response = SubSeq(resp, PacketSize + 1, Len(resp))
  /\ r.kind = "get" => t.ep0.buf = <<s.settings[r.item]>> /\ t.settings = s.settings
  /\ r.kind = "set" =>
       /\ t.ep0.buf = s.ep0.buf
       /\ r.item \notin WithData => t.settings[r.item] = r.value
       /\ r.item \in WithData /\ ~atSetup => t.settings[r.item] = s.ep0.buf[1]
  /\ r.kind \in Unknown => t.settings = s.settings

LEMMA HandleRequestIs ==
  ASSUME NEW s \in StateT, NEW atSetup \in BOOLEAN, ~s.dongle.stall,
         s.dongle.req.kind = "set" /\ ~atSetup => s.ep0.buf[1] \in Marks
  PROVE  LET t == HandleRequest(s, atSetup)
             r == s.dongle.req
             resp == IF atSetup THEN Response(s.dongle, r) ELSE s.dongle.response IN
         /\ t \in StateT /\ SameFlags(t, s) /\ t.dongle.req = r
         /\ t.dongle.stall <=> r.kind \in Unknown
         /\ Served(t, s, r, resp, atSetup)
  <1> DEFINE t == HandleRequest(s, atSetup)
             r == s.dongle.req
             resp == IF atSetup THEN Response(s.dongle, r) ELSE s.dongle.response
             s1 == IF atSetup THEN [s EXCEPT !.dongle.response = Response(s.dongle, r)] ELSE s
  <1>0. s.dongle \in DongleT /\ s.ep0 \in EpT /\ s.settings \in SettingsT
    BY DEF StateT
  <1>1. r \in Requests
    BY <1>0 DEF DongleT
  <1>2. r.kind \in {"descriptor", "noHid", "get", "set"} \cup Unknown
    BY <1>1, RequestIs
  <1>3. t = CASE r.kind \in {"descriptor", "noHid"} -> SendResponse(s1)
              [] r.kind = "get" -> [s EXCEPT !.ep0.buf = <<s.settings[r.item]>>]
              [] r.kind = "set" -> SetSetting(s, atSetup)
              [] OTHER -> [s EXCEPT !.dongle.stall = TRUE]
    BY DEF HandleRequest
  <1>4. CASE r.kind \in {"descriptor", "noHid"}
    <2>1. resp \in AtMost(2 * PacketSize + 1)
      BY <1>0, <1>1, ResponseIs DEF DongleT
    <2>2. /\ s1 \in StateT /\ SameFlags(s1, s) /\ s1.settings = s.settings
          /\ s1.dongle.req = r /\ ~s1.dongle.stall /\ s1.dongle.response = resp
      <3>1. CASE atSetup
        <4>1. s1 = [s EXCEPT !.dongle = [s.dongle EXCEPT !.response = resp]]
          BY <3>1 DEF StateT
        <4> HIDE DEF resp, s1
        <4>2. [s.dongle EXCEPT !.response = resp] \in DongleT
          BY <1>0, <2>1 DEF DongleT
        <4>3. s1 \in StateT /\ s1.dongle = [s.dongle EXCEPT !.response = resp] /\ s1.ep0 = s.ep0
              /\ s1.settings = s.settings
          BY <4>1, <4>2 DEF StateT
        <4>4. QED
          BY <1>0, <4>3 DEF SameFlags, DongleT
      <3>2. CASE ~atSetup
        BY <3>2 DEF SameFlags
      <3>3. QED
        BY <3>1, <3>2
    <2>3. t = SendResponse(s1)
      BY <1>3, <1>4
    <2> HIDE DEF t, s1, resp
    <2>4. /\ t \in StateT /\ SameFlags(t, s1) /\ t.settings = s1.settings
          /\ t.dongle.req = s1.dongle.req /\ t.dongle.stall = s1.dongle.stall
          /\ t.ep0.buf = Clip(s1.dongle.response, PacketSize)
          /\ t.dongle.response = SubSeq(s1.dongle.response, PacketSize + 1, Len(s1.dongle.response))
      BY <2>2, <2>3, SendIs
    <2>5. SameFlags(t, s)
      BY <2>2, <2>4 DEF SameFlags
    <2>6. Served(t, s, r, resp, atSetup)
      BY <1>4, <2>2, <2>4 DEF Served, Unknown
    <2>7. r.kind \notin Unknown
      BY <1>4 DEF Unknown
    <2>8. QED
      BY <2>2, <2>4, <2>5, <2>6, <2>7 DEF t, resp
  <1>5. CASE r.kind = "get"
    <2> DEFINE b == <<s.settings[r.item]>>
    <2>1. r.item \in Settings /\ PacketSize \in Nat \ {0}
      BY <1>1, <1>5, RequestIs, ControlAssumption
    <2>2. s.settings[r.item] \in Cells
      BY <1>0, <2>1 DEF SettingsT, Cells
    <2>3. b \in AtMost(PacketSize)
      BY <2>1, <2>2 DEF AtMost
    <2>4. t = [s EXCEPT !.ep0 = [s.ep0 EXCEPT !.buf = b]]
      BY <1>3, <1>5 DEF StateT
    <2> HIDE DEF b, t
    <2>5. [s.ep0 EXCEPT !.buf = b] \in EpT
      BY <1>0, <2>3 DEF EpT
    <2>6. t \in StateT /\ t.ep0 = [s.ep0 EXCEPT !.buf = b] /\ t.dongle = s.dongle /\ t.settings = s.settings
      BY <2>4, <2>5 DEF StateT
    <2>7. SameFlags(t, s) /\ t.ep0.buf = b
      BY <1>0, <2>6 DEF SameFlags, EpT
    <2>8. Served(t, s, r, resp, atSetup)
      BY <1>5, <2>6, <2>7 DEF Served, Unknown, b
    <2>9. QED
      BY <1>5, <2>6, <2>7, <2>8 DEF t, Unknown
  <1>6. CASE r.kind = "set"
    <2> DEFINE v == CASE r.item = "volume" -> ReadData(s, atSetup)
                      [] r.item = "report" -> IF atSetup THEN s.settings.report ELSE ReadData(s, atSetup)
                      [] OTHER -> r.value
    <2>1. r.item \in Settings /\ r.value \in Marks
      BY <1>1, <1>6, RequestIs
    <2>2. SetupBytes \in Marks /\ s.settings.report \in Marks
      BY <1>0 DEF SettingsT, Settings, Marks
    <2>3. v \in Marks
      BY <1>6, <2>1, <2>2 DEF ReadData
    <2>4. /\ r.item \notin WithData => v = r.value
          /\ r.item \in WithData /\ ~atSetup => v = s.ep0.buf[1]
      BY DEF WithData, ReadData
    <2>5. t = [s EXCEPT !.settings = [s.settings EXCEPT ![r.item] = v]]
      <3>1. t = [s EXCEPT !.settings[r.item] = v]
        BY <1>3, <1>6 DEF SetSetting
      <3> HIDE DEF t, v
      <3>2. QED
        BY <3>1 DEF StateT
    <2> HIDE DEF v, t
    <2>6. [s.settings EXCEPT ![r.item] = v] \in SettingsT
      BY <1>0, <2>3 DEF SettingsT
    <2>7. t \in StateT /\ t.ep0 = s.ep0 /\ t.dongle = s.dongle
          /\ t.settings = [s.settings EXCEPT ![r.item] = v]
      BY <2>5, <2>6 DEF StateT
    <2>8. t.settings[r.item] = v
      BY <1>0, <2>1, <2>7 DEF SettingsT
    <2>9. Served(t, s, r, resp, atSetup)
      BY <1>6, <2>4, <2>7, <2>8 DEF Served, Unknown
    <2>10. QED
      BY <1>6, <2>7, <2>9 DEF t, Unknown, SameFlags
  <1>7. CASE r.kind \in Unknown
    <2>1. t = [s EXCEPT !.dongle = [s.dongle EXCEPT !.stall = TRUE]]
      BY <1>3, <1>7 DEF Unknown, StateT
    <2> HIDE DEF t
    <2>2. [s.dongle EXCEPT !.stall = TRUE] \in DongleT
      BY <1>0 DEF DongleT
    <2>3. t \in StateT /\ t.ep0 = s.ep0 /\ t.dongle = [s.dongle EXCEPT !.stall = TRUE]
          /\ t.settings = s.settings
      BY <2>1, <2>2 DEF StateT
    <2>4. t.dongle.req = r /\ t.dongle.stall
      BY <1>0, <2>3 DEF DongleT
    <2>5. Served(t, s, r, resp, atSetup)
      BY <1>7, <2>3 DEF Served, Unknown
    <2>6. QED
      BY <1>7, <2>3, <2>4, <2>5 DEF t, SameFlags
  <1>8. QED
    BY <1>2, <1>4, <1>5, <1>6, <1>7

LEMMA StageIs ==
  ASSUME NEW s \in StateT, NEW atSetup \in BOOLEAN, host \in HostT, Readable(s, atSetup)
  PROVE  LET t == HandleStage(s, atSetup)
             r == StageRequest(s, atSetup)
             resp == IF atSetup THEN Response(s.dongle, r) ELSE s.dongle.response IN
         /\ t \in StateT /\ SameFlags(t, s) /\ t.dongle.req = r
         /\ t.dongle.stall <=> r.kind \in Unknown
         /\ t.ep0.dat = IF r.kind \in Unknown THEN "stall" ELSE "ack"
         /\ Served(t, s, r, resp, atSetup)
  <1> DEFINE t == HandleStage(s, atSetup)
             r == StageRequest(s, atSetup)
             resp == IF atSetup THEN Response(s.dongle, r) ELSE s.dongle.response
             c == [s EXCEPT !.dongle.stall = FALSE, !.dongle.req = IF atSetup THEN host.req ELSE @]
             h == HandleRequest(c, atSetup)
             hs == IF h.dongle.stall THEN "stall" ELSE "ack"
  <1>0. s.dongle \in DongleT /\ s.ep0 \in EpT /\ s.settings \in SettingsT /\ host.req \in Requests
    BY DEF StateT, HostT
  <1>1. r \in Requests
    BY <1>0 DEF DongleT, StageRequest
  <1>2. c = [s EXCEPT !.dongle = [s.dongle EXCEPT !.stall = FALSE, !.req = r]]
    BY <1>0 DEF StateT, DongleT, StageRequest
  <1>3. t = [h EXCEPT !.ep0.dat = hs]
    BY DEF HandleStage
  <1> HIDE DEF t, c, hs
  <1>4. [s.dongle EXCEPT !.stall = FALSE, !.req = r] \in DongleT
    BY <1>0, <1>1 DEF DongleT
  <1>5. c \in StateT /\ c.dongle = [s.dongle EXCEPT !.stall = FALSE, !.req = r]
        /\ c.ep0 = s.ep0 /\ c.settings = s.settings
    BY <1>2, <1>4 DEF StateT
  <1>6. c.dongle.req = r /\ ~c.dongle.stall /\ c.dongle.response = s.dongle.response
    BY <1>0, <1>5 DEF DongleT
  <1>7. Response(c.dongle, r) = Response(s.dongle, r)
    BY <1>6 DEF Response
  <1>8. c.dongle.req.kind = "set" /\ ~atSetup => c.ep0.buf[1] \in Marks
    BY <1>5, <1>6 DEF Readable
  <1> HIDE DEF r, h
  <1>9. /\ h \in StateT /\ SameFlags(h, c) /\ h.dongle.req = r /\ (h.dongle.stall <=> r.kind \in Unknown)
        /\ Served(h, c, r, resp, atSetup)
    BY <1>5, <1>6, <1>7, <1>8, HandleRequestIs DEF h
  <1>10. h.dongle \in DongleT /\ h.ep0 \in EpT /\ h.settings \in SettingsT
    BY <1>9 DEF StateT
  <1>11. t = [h EXCEPT !.ep0 = [h.ep0 EXCEPT !.dat = hs]]
    BY <1>3, <1>9 DEF StateT
  <1>12. hs \in {"nak", "ack", "stall"}
    BY DEF hs
  <1>13. [h.ep0 EXCEPT !.dat = hs] \in EpT
    BY <1>10, <1>12 DEF EpT
  <1>14. t \in StateT /\ t.ep0 = [h.ep0 EXCEPT !.dat = hs] /\ t.dongle = h.dongle /\ t.settings = h.settings
    BY <1>9, <1>11, <1>13 DEF StateT
  <1>15. SameFlags(t, s) /\ t.ep0.buf = h.ep0.buf /\ t.ep0.dat = hs
    BY <1>5, <1>9, <1>10, <1>14 DEF SameFlags, EpT
  <1>16. hs = IF r.kind \in Unknown THEN "stall" ELSE "ack"
    BY <1>9 DEF hs
  <1>17. Served(t, s, r, resp, atSetup)
    BY <1>5, <1>9, <1>14, <1>15 DEF Served
  <1>18. QED
    BY <1>9, <1>14, <1>15, <1>16, <1>17 DEF t, r

-----------------------------------------------------------------------------
(* A poll of the main loop that finds an interrupt.                          *)

Before0 == [dongle |-> dongle, ep0 |-> ep0, settings |-> settings]
After0 == [dongle |-> dongle', ep0 |-> ep0', settings |-> settings']
Pending == IF ep0.setup THEN Response(dongle, host.req) ELSE dongle.response

\* In a transfer the one thing pending is served, and its status with it.
Answered ==
  /\ dongle' \in DongleT /\ ep0' \in EpT /\ settings' \in SettingsT
  /\ host' = host /\ transfers' = transfers
  /\ ~ep0'.setup /\ ~ep0'.data /\ ~ep0'.sta /\ ~ep0'.reset
  /\ dongle'.req = host.req
  /\ ep0'.dat = IF host.req.kind \in Unknown THEN "stall" ELSE "ack"
  /\ ~ep0.sta => ep0'.status = ep0.status
  /\ ep0.sta => ep0'.status # "nak"
  /\ ep0.setup \/ ep0.data
  /\ Served(After0, Before0, host.req, Pending, ep0.setup)

LEMMA IrqAnswers ==
  ASSUME CtlTypes, FlagInv, RequestInv, SettingInv, UsbHandleIrq, host.phase # "idle"
  PROVE  Answered
  <1> DEFINE s0 == Before0
             at == ep0.setup
             base == IF at THEN [s0 EXCEPT !.ep0.setup = FALSE] ELSE [s0 EXCEPT !.ep0.data = FALSE]
             z == HandleStage(base, at)
             f == IF ep0.sta THEN HandleStatus([z EXCEPT !.ep0.sta = FALSE]) ELSE z
  <1>0. host \in HostT /\ ep0 \in EpT /\ dongle \in DongleT /\ settings \in SettingsT /\ host.req \in Requests
    BY DEF CtlTypes, HostT
  <1>1. at \in BOOLEAN /\ (at \/ ep0.data) /\ ~(at /\ ep0.data) /\ ~ep0.reset
    BY <1>0 DEF FlagInv, UsbHandleIrq, EpT
  <1>2. s0 \in StateT /\ s0.ep0 = ep0 /\ s0.dongle = dongle /\ s0.settings = settings
    BY <1>0 DEF Before0, StateT
  <1>3. HandleIrq(s0) = f
    <2>1. CASE at
      BY <1>1, <1>2, <2>1 DEF HandleIrq
    <2>2. CASE ~at
      BY <1>1, <1>2, <2>2 DEF HandleIrq
    <2>3. QED
      BY <1>1, <2>1, <2>2
  <1>4. LET s == HandleReset(f) IN dongle' = s.dongle /\ ep0' = s.ep0 /\ settings' = s.settings
    BY <1>3 DEF UsbHandleIrq, Before0
  <1> HIDE DEF s0, z, f
  <1> DEFINE e == IF at THEN [ep0 EXCEPT !.setup = FALSE] ELSE [ep0 EXCEPT !.data = FALSE]
  <1>5. base = [s0 EXCEPT !.ep0 = e]
    BY <1>2 DEF StateT
  <1>6. /\ e \in EpT /\ ~e.setup /\ ~e.data /\ e.sta = ep0.sta /\ ~e.reset
        /\ e.status = ep0.status /\ e.buf = ep0.buf
    BY <1>0, <1>1 DEF EpT
  <1> HIDE DEF base, e
  <1>7. base \in StateT /\ base.ep0 = e /\ base.dongle = dongle /\ base.settings = settings
    BY <1>2, <1>5, <1>6 DEF StateT
  <1>8. StageRequest(base, at) = host.req
    <2>1. ~at => dongle.req = host.req
      BY DEF RequestInv
    <2>2. QED
      BY <1>7, <2>1 DEF StageRequest
  <1>9. Readable(base, at)
    <2>1. SUFFICES ASSUME host.req.kind = "set", ~at PROVE ep0.buf[1] \in Marks
      BY <1>6, <1>7, <1>8 DEF Readable
    <2>2. ep0.data
      BY <1>1, <2>1
    <2>3. host.phase = "status"
      <3>1. host.phase \in {"in", "status"} /\ (host.phase = "in" => Reads(host.req))
        BY <2>2 DEF FlagInv, RequestInv
      <3>2. QED
        BY <2>1, <3>1 DEF Reads
    <2>4. ep0.buf = <<host.req.value>>
      BY <2>1, <2>2, <2>3 DEF SettingInv
    <2>5. QED
      BY <1>0, <2>4, RequestIs
  <1>10. /\ z \in StateT /\ SameFlags(z, base) /\ z.dongle.req = host.req
         /\ z.dongle.stall <=> host.req.kind \in Unknown
         /\ z.ep0.dat = IF host.req.kind \in Unknown THEN "stall" ELSE "ack"
         /\ Served(z, base, host.req, Pending, at)
    <2>1. (IF at THEN Response(base.dongle, host.req) ELSE base.dongle.response) = Pending
      BY <1>7 DEF Pending
    <2>2. QED
      BY <1>0, <1>1, <1>7, <1>8, <1>9, <2>1, StageIs DEF z
  <1>11. z.ep0 \in EpT /\ z.dongle \in DongleT /\ z.settings \in SettingsT
    BY <1>10 DEF StateT
  <1>12. /\ ~z.ep0.setup /\ ~z.ep0.data /\ z.ep0.sta = ep0.sta /\ ~z.ep0.reset
         /\ z.ep0.status = ep0.status
    BY <1>6, <1>7, <1>10 DEF SameFlags
  <1>13. /\ f \in StateT /\ f.dongle = z.dongle /\ f.settings = z.settings
         /\ ~f.ep0.setup /\ ~f.ep0.data /\ ~f.ep0.sta /\ ~f.ep0.reset
         /\ f.ep0.dat = z.ep0.dat /\ f.ep0.buf = z.ep0.buf
         /\ ~ep0.sta => f.ep0.status = ep0.status
         /\ ep0.sta => f.ep0.status # "nak"
    <2>1. CASE ~ep0.sta
      BY <1>10, <1>12, <2>1 DEF f
    <2>2. CASE ep0.sta
      <3> DEFINE h == IF z.dongle.stall THEN "stall" ELSE "ack"
                 e2 == [z.ep0 EXCEPT !.sta = FALSE, !.status = h]
      <3>1. f = [z EXCEPT !.ep0 = e2]
        BY <1>10, <1>11, <2>2 DEF f, HandleStatus, StateT, EpT
      <3>2. /\ e2 \in EpT /\ ~e2.setup /\ ~e2.data /\ ~e2.sta /\ ~e2.reset
            /\ e2.dat = z.ep0.dat /\ e2.buf = z.ep0.buf /\ e2.status # "nak"
        BY <1>11, <1>12 DEF EpT
      <3> HIDE DEF e2
      <3>3. f \in StateT /\ f.ep0 = e2 /\ f.dongle = z.dongle /\ f.settings = z.settings
        BY <1>10, <3>1, <3>2 DEF StateT
      <3>4. QED
        BY <2>2, <3>2, <3>3
    <2>3. QED
      BY <2>1, <2>2
  <1>14. HandleReset(f) = f
    BY <1>13 DEF HandleReset
  <1>15. dongle' = f.dongle /\ ep0' = f.ep0 /\ settings' = f.settings
    BY <1>4, <1>14
  <1>16. dongle' \in DongleT /\ ep0' \in EpT /\ settings' \in SettingsT
    BY <1>13, <1>15 DEF StateT
  <1>17. Served(After0, Before0, host.req, Pending, ep0.setup)
    <2>1. /\ After0.ep0.buf = z.ep0.buf /\ After0.settings = z.settings
          /\ After0.dongle.response = z.dongle.response
      BY <1>13, <1>15 DEF After0
    <2>2. Before0.ep0.buf = base.ep0.buf /\ Before0.settings = base.settings
      BY <1>6, <1>7 DEF Before0
    <2>3. QED
      BY <1>10, <2>1, <2>2 DEF Served
  <1>18. host' = host /\ transfers' = transfers
    BY DEF UsbHandleIrq
  <1>19. QED
    BY <1>1, <1>10, <1>13, <1>15, <1>16, <1>17, <1>18 DEF Answered

\* The next packet of a descriptor, and what is left of it.
LEMMA NextPacket ==
  ASSUME NEW d \in DOMAIN DescriptorSize, NEW g \in Nat, NEW n \in Nat, NEW w, w = g + n
  PROVE  \E c \in Nat :
           LET p == Portion(d, g, n) IN
           /\ g + c <= w /\ Clip(p, PacketSize) = Portion(d, g, w - g - c)
           /\ SubSeq(p, PacketSize + 1, Len(p)) = Portion(d, w - c, c)
           /\ w - g - c <= PacketSize /\ (w - g - c < PacketSize => c = 0)
  <1> DEFINE p == Portion(d, g, n)
             c == IF PacketSize <= n THEN n - PacketSize ELSE 0
  <1>0. PacketSize \in Nat \ {0}
    BY ControlAssumption
  <1>1. Clip(p, PacketSize) = Portion(d, g, IF PacketSize < n THEN PacketSize ELSE n)
    BY <1>0, PartClip
  <1>2. p \in Seq(Cells) /\ Len(p) = n
    BY PartIs
  <1>3. /\ c \in Nat /\ g + c <= w /\ w - g - c = IF PacketSize < n THEN PacketSize ELSE n
        /\ w - g - c <= PacketSize /\ (w - g - c < PacketSize => c = 0)
    BY <1>0
  <1>4. SubSeq(p, PacketSize + 1, Len(p)) = Portion(d, w - c, c)
    <2>1. CASE PacketSize <= n
      <3>1. SubSeq(p, PacketSize + 1, n) = Portion(d, g + PacketSize, n - PacketSize)
        BY <1>0, <2>1, PartRest
      <3>2. w - c = g + PacketSize /\ c = n - PacketSize
        BY <1>0, <2>1
      <3> HIDE DEF p, c
      <3>3. QED
        BY <1>2, <3>1, <3>2
    <2>2. CASE ~(PacketSize <= n)
      <3>1. c = 0
        BY <2>2
      <3>2. SubSeq(p, PacketSize + 1, Len(p)) = <<>>
        <4> HIDE DEF p
        <4>1. QED
          BY <1>0, <1>2, <2>2, SubSeqEmpty
      <3> HIDE DEF p, c
      <3>3. QED
        BY <3>1, <3>2, PartEmpty
    <2>3. QED
      BY <2>1, <2>2
  <1> HIDE DEF c, p
  <1>5. QED
    BY <1>1, <1>3, <1>4 DEF p

-----------------------------------------------------------------------------
(* Each step keeps the invariant.                                            *)

LEMMA CtlHostTypes ==
  ASSUME CtlTypes
  PROVE  /\ host.phase \in {"idle", "in", "out", "status"} /\ host.req \in Requests
         /\ host.got \in Seq(Cells) /\ host.result \in {"none", "done", "stalled"}
         /\ ep0.setup \in BOOLEAN /\ ep0.data \in BOOLEAN /\ ep0.sta \in BOOLEAN /\ ep0.reset \in BOOLEAN
         /\ ep0.dat \in {"nak", "ack", "stall"} /\ ep0.status \in {"nak", "ack", "stall"}
         /\ ep0.buf \in Seq(Cells) /\ Len(ep0.buf) <= PacketSize
  BY DEF CtlTypes, HostT, EpT, AtMost

LEMMA CtlInitInv == CtlInit => CtlInv
  <1> SUFFICES ASSUME CtlInit PROVE CtlInv
    OBVIOUS
  <1>0. PacketSize \in Nat \ {0} /\ MaxTransfers \in Nat
    BY ControlAssumption
  <1>1. NoRequest \in Requests
    BY DEF NoRequest, Requests
  <1>2. host \in HostT /\ host.got = <<>> /\ host.req = NoRequest /\ host.phase = "idle" /\ host.result = "none"
    BY <1>1 DEF CtlInit, HostT
  <1>3. <<>> \in AtMost(PacketSize) /\ <<>> \in AtMost(2 * PacketSize + 1)
    BY <1>0 DEF AtMost
  <1>4. ep0 \in EpT /\ ~ep0.setup /\ ~ep0.data /\ ~ep0.sta
    BY <1>3 DEF CtlInit, EpT
  <1>5. dongle \in DongleT
    BY <1>1, <1>3 DEF CtlInit, DongleT
  <1>6. settings \in SettingsT /\ transfers \in 0 .. MaxTransfers
    BY <1>0 DEF CtlInit, SettingsT, Marks
  <1>7. Len(host.got) <= host.req.wLength
    BY <1>2 DEF NoRequest
  <1>8. CtlTypes
    BY <1>2, <1>4, <1>5, <1>6, <1>7 DEF CtlTypes
  <1>9. FlagInv /\ RequestInv
    BY <1>2, <1>4 DEF FlagInv, RequestInv
  <1>10. DescriptorInv /\ SettingInv /\ DoneInv
    BY <1>2 DEF DescriptorInv, SettingInv, DoneInv, DoneMeansDone
  <1>11. QED
    BY <1>8, <1>9, <1>10 DEF CtlInv

\* A poll between transfers finds a bus reset and nothing else.
LEMMA ResetStep ==
  ASSUME CtlInv, UsbHandleIrq, host.phase = "idle"
  PROVE  CtlInv'
  <1>0. host \in HostT /\ ep0 \in EpT /\ dongle \in DongleT /\ settings \in SettingsT
    BY DEF CtlInv, CtlTypes
  <1>1. ~ep0.setup /\ ~ep0.data /\ ~ep0.sta /\ ep0.reset
    BY DEF CtlInv, FlagInv, UsbHandleIrq
  <1> DEFINE s0 == Before0
             e == [ep0 EXCEPT !.reset = FALSE]
             v == [settings EXCEPT !.protocol = InitialValue]
  <1>2. s0 \in StateT /\ s0.ep0 = ep0 /\ s0.dongle = dongle /\ s0.settings = settings
    BY <1>0 DEF Before0, StateT
  <1>3. HandleIrq(s0) = s0
    BY <1>1, <1>2 DEF HandleIrq
  <1>4. HandleReset(s0) = [s0 EXCEPT !.ep0 = e, !.settings = v]
    <2>1. HandleReset(s0) = [s0 EXCEPT !.ep0.reset = FALSE, !.settings.protocol = InitialValue]
      BY <1>1, <1>2 DEF HandleReset
    <2> HIDE DEF s0
    <2>2. QED
      BY <1>2, <2>1 DEF StateT
  <1>5. LET s == HandleReset(s0) IN dongle' = s.dongle /\ ep0' = s.ep0 /\ settings' = s.settings
    BY <1>3 DEF UsbHandleIrq, Before0
  <1>6. e \in EpT /\ ~e.setup /\ ~e.data /\ ~e.sta /\ ~e.reset
    BY <1>0, <1>1 DEF EpT
  <1>7. v \in SettingsT
    BY <1>0 DEF SettingsT, Marks
  <1> HIDE DEF s0, e, v
  <1>8. dongle' = dongle /\ ep0' = e /\ settings' = v
    BY <1>2, <1>4, <1>5 DEF StateT
  <1>9. host' = host /\ transfers' = transfers
    BY DEF UsbHandleIrq
  <1>10. host.result # "done"
    BY <1>1 DEF CtlInv, DoneInv
  <1>11. CtlTypes'
    BY <1>6, <1>7, <1>8, <1>9 DEF CtlInv, CtlTypes
  <1>12. FlagInv' /\ RequestInv'
    BY <1>6, <1>8, <1>9 DEF FlagInv, RequestInv
  <1>13. DescriptorInv' /\ SettingInv' /\ DoneInv'
    BY <1>9, <1>10 DEF DescriptorInv, SettingInv, DoneInv, DoneMeansDone
  <1>14. QED
    BY <1>11, <1>12, <1>13 DEF CtlInv

LEMMA IrqStep ==
  ASSUME CtlInv, UsbHandleIrq, host.phase # "idle"
  PROVE  CtlInv'
  <1> DEFINE r == host.req
             w == Wanted(r)
  <1>a. Answered
    BY IrqAnswers DEF CtlInv
  <1>b. CtlTypes /\ FlagInv /\ RequestInv /\ DescriptorInv /\ SettingInv /\ DoneInv
    BY DEF CtlInv
  <1>1. /\ host.phase \in {"in", "out", "status"} /\ r \in Requests
        /\ ep0.setup \in BOOLEAN /\ ep0.data \in BOOLEAN /\ ep0.sta \in BOOLEAN
    BY <1>b, CtlHostTypes
  <1>2. /\ dongle' \in DongleT /\ ep0' \in EpT /\ settings' \in SettingsT
        /\ host' = host /\ transfers' = transfers
        /\ ~ep0'.setup /\ ~ep0'.data /\ ~ep0'.sta /\ ~ep0'.reset
        /\ dongle'.req = r
        /\ ep0'.dat = IF r.kind \in Unknown THEN "stall" ELSE "ack"
        /\ ~ep0.sta => ep0'.status = ep0.status
        /\ ep0.setup \/ ep0.data
    BY <1>a DEF Answered
  <1>3. /\ r.kind \in {"descriptor", "noHid"} =>
             /\ ep0'.buf = Clip(Pending, PacketSize) /\ settings' = settings
             /\ dongle'.response = SubSeq(Pending, PacketSize + 1, Len(Pending))
        /\ r.kind = "get" => ep0'.buf = <<settings[r.item]>> /\ settings' = settings
        /\ r.kind = "set" =>
             /\ r.item \notin WithData => settings'[r.item] = r.value
             /\ r.item \in WithData /\ ~ep0.setup => settings'[r.item] = ep0.buf[1]
    BY <1>a DEF Answered, Served, After0, Before0
  <1>4. CtlTypes'
    BY <1>b, <1>2 DEF CtlTypes
  <1>5. FlagInv'
    <2>1. host.phase \in {"in", "out"} => ~ep0.sta /\ ep0.status = "nak"
      BY <1>b DEF FlagInv
    <2>2. host.result = "none"
      BY <1>b DEF FlagInv
    <2>3. QED
      BY <1>2, <2>1, <2>2 DEF FlagInv
  <1>6. RequestInv'
    <2>1. host.phase = "out" => ep0.setup
      BY <1>b, <1>2 DEF FlagInv
    <2>2. /\ host.phase = "in" => Reads(r)
          /\ host.phase = "out" => Writes(r)
          /\ host.phase = "status" => r.kind # "unknownOut"
      BY <1>b DEF RequestInv
    <2>3. host'.req = r /\ host'.phase = host.phase
      BY <1>2
    <2>4. QED
      BY <1>2, <2>2, <2>3 DEF RequestInv, Unknown, Reads, Writes
  <1>7. DescriptorInv'
    <2>1. SUFFICES ASSUME r.kind = "descriptor"
                   PROVE  /\ host.phase = "in" => \E g, c \in Nat : Halfway(g, c)'
                          /\ host.phase = "status" => host.got = Portion(r.item, 0, w)
      BY <1>2 DEF DescriptorInv
    <2>2. host.phase = "status" => host.got = Portion(r.item, 0, w)
      BY <1>b, <2>1 DEF DescriptorInv
    <2>3. ASSUME host.phase = "in" PROVE \E g, c \in Nat : Halfway(g, c)'
      <3>1. w \in Nat /\ r.item \in DOMAIN DescriptorSize
        BY <1>1, <2>1, WantedIs
      <3>2. \E g, n \in Nat : w = g + n /\ host.got = Portion(r.item, 0, g) /\ Pending = Portion(r.item, g, n)
        <4>1. CASE ep0.setup
          <5>1. host.got = <<>>
            BY <1>b, <4>1 DEF FlagInv
          <5>2. Pending = Portion(r.item, 0, w)
            BY <1>b, <1>1, <2>1, <4>1, ResponseIs DEF Pending, CtlTypes
          <5>3. w = 0 + w /\ host.got = Portion(r.item, 0, 0)
            BY <3>1, <5>1, PartEmpty
          <5>4. QED
            BY <3>1, <5>2, <5>3
        <4>2. CASE ~ep0.setup
          <5>1. PICK g \in Nat, c \in Nat : Halfway(g, c)
            BY <1>b, <2>1, <2>3, <4>2 DEF DescriptorInv
          <5>2. ep0.data
            BY <1>2, <4>2
          <5>3. g + c = w /\ host.got = Portion(r.item, 0, g) /\ dongle.response = Portion(r.item, w - c, c)
            BY <5>1, <5>2 DEF Halfway
          <5>4. w - c = g
            BY <3>1, <5>3
          <5>5. Pending = Portion(r.item, g, c)
            BY <4>2, <5>3, <5>4 DEF Pending
          <5>6. QED
            BY <5>3, <5>5
        <4>3. QED
          BY <1>1, <4>1, <4>2
      <3>3. PICK g \in Nat, n \in Nat :
              w = g + n /\ host.got = Portion(r.item, 0, g) /\ Pending = Portion(r.item, g, n)
        BY <3>2
      <3>4. PICK c \in Nat :
              /\ g + c <= w /\ Clip(Pending, PacketSize) = Portion(r.item, g, w - g - c)
              /\ SubSeq(Pending, PacketSize + 1, Len(Pending)) = Portion(r.item, w - c, c)
              /\ w - g - c <= PacketSize /\ (w - g - c < PacketSize => c = 0)
        BY <3>1, <3>3, NextPacket
      <3>5. Halfway(g, c)'
        BY <1>2, <1>3, <2>1, <3>3, <3>4 DEF Halfway
      <3>6. QED
        BY <3>5
    <2>4. QED
      BY <2>2, <2>3
  <1>8. SettingInv'
    <2>1. ASSUME r.kind = "get", host.phase = "in"
          PROVE  host.got = <<>> /\ ep0'.buf = <<settings'[r.item]>>
      <3>1. ep0.setup
        BY <1>b, <1>1, <1>2, <2>1 DEF SettingInv
      <3>2. QED
        BY <1>b, <1>3, <2>1, <3>1 DEF FlagInv
    <2>2. ASSUME r.kind = "get", host.phase = "status"
          PROVE  host.got = <<settings'[r.item]>>
      BY <1>b, <1>3, <2>2 DEF SettingInv
    <2>3. ASSUME r.kind = "set", host.phase = "status"
          PROVE  settings'[r.item] = r.value
      <3>1. CASE r.item \notin WithData
        BY <1>3, <2>3, <3>1
      <3>2. CASE r.item \in WithData
        <4>1. ~ep0.setup
          BY <1>b, <2>3, <3>2 DEF RequestInv, Writes, Reads
        <4>2. ep0.buf = <<r.value>>
          BY <1>b, <1>2, <2>3, <4>1 DEF SettingInv
        <4>3. QED
          BY <1>3, <2>3, <3>2, <4>1, <4>2
      <3>3. QED
        BY <3>1, <3>2
    <2>4. QED
      BY <1>2, <2>1, <2>2, <2>3 DEF SettingInv
  <1>9. DoneInv'
    <2>1. host.result = "none"
      BY <1>b DEF FlagInv
    <2>2. QED
      BY <1>2, <2>1 DEF DoneInv, DoneMeansDone
  <1>10. QED
    BY <1>4, <1>5, <1>6, <1>7, <1>8, <1>9 DEF CtlInv

LEMMA HostSetupStep ==
  ASSUME CtlInv, NEW r \in Requests, HostSetup(r)
  PROVE  CtlInv'
  <1>a. CtlTypes /\ FlagInv /\ RequestInv /\ DescriptorInv /\ SettingInv /\ DoneInv
    BY DEF CtlInv
  <1> DEFINE p == IF Reads(r) THEN "in" ELSE IF Writes(r) THEN "out" ELSE "status"
             st == ~Reads(r) /\ ~Writes(r)
  <1>1. /\ host' = [phase |-> p, req |-> r, got |-> <<>>, result |-> "none"]
        /\ ep0' = [Disarmed EXCEPT !.setup = TRUE, !.sta = st]
        /\ transfers > 0 /\ transfers' = transfers - 1 /\ ~ep0.reset
        /\ dongle' = dongle /\ settings' = settings
    BY DEF HostSetup
  <1>2. st \in BOOLEAN /\ p \in {"in", "out", "status"} /\ (st <=> p = "status")
        /\ (p = "in" => Reads(r)) /\ (p = "out" => Writes(r))
    OBVIOUS
  <1>3. ep0 \in EpT
    BY <1>a DEF CtlTypes
  <1> HIDE DEF p, st
  <1>4. /\ ep0' \in EpT /\ ep0'.setup /\ ~ep0'.data /\ ep0'.sta = st /\ ~ep0'.reset
        /\ ep0'.dat = "nak" /\ ep0'.status = "nak"
    BY <1>1, <1>2, <1>3 DEF EpT, Disarmed
  <1>5. /\ host' \in HostT /\ host'.phase = p /\ host'.req = r /\ host'.got = <<>>
        /\ host'.result = "none"
    BY <1>1, <1>2 DEF HostT
  <1>6. CtlTypes'
    <2>1. 0 <= r.wLength
      BY RequestIs, ControlAssumption
    <2>2. transfers' \in 0 .. MaxTransfers
      BY <1>a, <1>1, ControlAssumption DEF CtlTypes
    <2>3. QED
      BY <1>a, <1>1, <1>4, <1>5, <2>1, <2>2 DEF CtlTypes
  <1>7. FlagInv'
    BY <1>2, <1>4, <1>5 DEF FlagInv
  <1>8. RequestInv'
    BY <1>2, <1>4, <1>5 DEF RequestInv, Reads, Writes, p
  <1>9. DescriptorInv'
    <2>1. p = "status" => r.kind # "descriptor"
      BY DEF p, Reads
    <2>2. QED
      BY <1>4, <1>5, <2>1 DEF DescriptorInv
  <1>10. SettingInv'
    <2>1. p = "status" => r.kind # "get"
      BY DEF p, Reads
    <2>2. QED
      BY <1>4, <1>5, <2>1 DEF SettingInv
  <1>11. DoneInv'
    BY <1>5 DEF DoneInv, DoneMeansDone
  <1>12. QED
    BY <1>6, <1>7, <1>8, <1>9, <1>10, <1>11 DEF CtlInv

LEMMA HostInStep ==
  ASSUME CtlInv, HostIn
  PROVE  CtlInv'
  <1>a. CtlTypes /\ FlagInv /\ RequestInv /\ DescriptorInv /\ SettingInv /\ DoneInv
    BY DEF CtlInv
  <1>b. /\ host.req \in Requests /\ host.got \in Seq(Cells) /\ ep0.buf \in Seq(Cells)
        /\ Len(ep0.buf) <= PacketSize
        /\ ep0.setup \in BOOLEAN /\ ep0.data \in BOOLEAN
    BY <1>a, CtlHostTypes
  <1> DEFINE r == host.req
             got == Clip(host.got \o ep0.buf, r.wLength)
             last == Len(ep0.buf) < PacketSize \/ Len(got) = r.wLength
             p == IF last THEN "status" ELSE "in"
  <1>1. /\ host.phase = "in" /\ ep0.dat = "ack"
        /\ host' = [host EXCEPT !.got = got, !.phase = p]
        /\ ep0' = [ep0 EXCEPT !.dat = "nak", !.data = TRUE, !.sta = last]
        /\ UNCHANGED <<dongle, settings, transfers>>
    BY DEF HostIn
  <1>2. ~ep0.setup /\ ~ep0.data /\ ~ep0.reset /\ host.result = "none" /\ ep0.status = "nak"
        /\ Reads(r) /\ dongle.req = r
    BY <1>a, <1>1 DEF FlagInv, RequestInv
  <1>3. r.wLength \in Nat /\ r.wLength >= 1 /\ PacketSize \in Nat \ {0}
    BY <1>b, RequestIs, ControlAssumption
  <1>4. got \in Seq(Cells) /\ Len(got) <= r.wLength
    <2>1. host.got \o ep0.buf \in Seq(Cells)
      BY <1>b, ConcatProperties
    <2>2. PICK q \in Seq(Cells) : q = host.got \o ep0.buf
      BY <2>1
    <2>3. /\ Clip(q, r.wLength) \in Seq(Cells)
          /\ Len(Clip(q, r.wLength)) = IF r.wLength < Len(q) THEN r.wLength ELSE Len(q)
      BY <1>3, ClipIs
    <2>4. Len(Clip(q, r.wLength)) <= r.wLength
      BY <1>3, <2>3
    <2>5. QED
      BY <2>2, <2>3, <2>4
  <1>5. last \in BOOLEAN /\ p \in {"in", "status"} /\ (p = "status" <=> last)
    OBVIOUS
  <1>c. last <=> Len(ep0.buf) < PacketSize \/ Len(got) = r.wLength
    OBVIOUS
  <1> HIDE DEF last, p
  <1>6. /\ ep0' \in EpT /\ ~ep0'.setup /\ ep0'.data /\ ep0'.sta = last /\ ~ep0'.reset
        /\ ep0'.dat = "nak" /\ ep0'.status = "nak" /\ ep0'.buf = ep0.buf
    BY <1>a, <1>1, <1>2, <1>5 DEF CtlTypes, EpT
  <1>7. /\ host' \in HostT /\ host'.phase = p /\ host'.req = r /\ host'.got = got
        /\ host'.result = "none"
    <2> HIDE DEF got
    <2>1. QED
      BY <1>a, <1>1, <1>2, <1>4, <1>5 DEF CtlTypes, HostT
  <1> HIDE DEF got
  <1>8. CtlTypes'
    BY <1>a, <1>1, <1>4, <1>6, <1>7 DEF CtlTypes
  <1>9. FlagInv'
    BY <1>5, <1>6, <1>7 DEF FlagInv
  <1>10. RequestInv'
    BY <1>1, <1>2, <1>5, <1>6, <1>7 DEF RequestInv, Reads
  <1>11. DescriptorInv'
    <2>1. SUFFICES ASSUME r.kind = "descriptor"
                   PROVE  /\ ~last => \E g, c \in Nat : Halfway(g, c)'
                          /\ last => got = Portion(r.item, 0, Wanted(r))
      BY <1>5, <1>7 DEF DescriptorInv
    <2> DEFINE w == Wanted(r)
               d == r.item
    <2>2. w \in Nat /\ w <= r.wLength /\ d \in DOMAIN DescriptorSize
      BY <1>b, <2>1, WantedIs
    <2>3. PICK g \in Nat, c \in Nat : Halfway(g, c)
      BY <1>a, <1>1, <1>2, <2>1 DEF DescriptorInv
    <2>4. /\ g + c <= w /\ host.got = Portion(d, 0, g) /\ dongle.response = Portion(d, w - c, c)
          /\ ep0.buf = Portion(d, g, w - g - c) /\ w - g - c <= PacketSize
          /\ w - g - c < PacketSize => c = 0
      BY <1>2, <2>3 DEF Halfway
    <2> DEFINE b == w - g - c
    <2>5. b \in Nat /\ g + b + c = w /\ g + b <= w
      BY <2>2, <2>4
    <2> HIDE DEF b, w, d
    <2>6. host.got \o ep0.buf = Portion(d, 0, g + b)
      BY <2>2, <2>4, <2>5, PartCat DEF b
    <2>7. got = Portion(d, 0, g + b)
      <3>1. got = Portion(d, 0, IF r.wLength < g + b THEN r.wLength ELSE g + b)
        <4>1. 0 \in Nat /\ g + b \in Nat
          BY <2>5
        <4>2. QED
          BY <1>3, <2>2, <2>6, <4>1, PartClip DEF got
      <3>2. ~(r.wLength < g + b)
        BY <1>3, <2>2, <2>5
      <3>3. QED
        BY <3>1, <3>2
    <2>8. Len(got) = g + b /\ Len(ep0.buf) = b
      <3>1. 0 \in Nat /\ g + b \in Nat
        BY <2>5
      <3>2. Len(Portion(d, 0, g + b)) = g + b /\ Len(Portion(d, g, b)) = b
        BY <2>2, <2>5, <3>1, PartIs
      <3>3. QED
        BY <2>4, <2>7, <3>2 DEF b
    <2>9. CASE last
      <3>1. b < PacketSize \/ g + b = r.wLength
        BY <1>c, <2>8, <2>9
      <3>2. b < PacketSize => c = 0
        BY <2>4 DEF b
      <3>3. g + b = w
        BY <1>3, <2>2, <2>5, <3>1, <3>2
      <3>4. QED
        BY <2>7, <2>9, <3>3 DEF d, w
    <2>10. CASE ~last
      <3>1. PICK g2 \in Nat : g2 = g + b
        BY <2>5
      <3>2. g2 + c <= w /\ g2 + c = w
        BY <2>2, <2>5, <3>1
      <3>3. got = Portion(d, 0, g2) /\ dongle.response = Portion(d, w - c, c)
        BY <2>4, <2>7, <3>1 DEF d, w
      <3>4. Halfway(g2, c)'
        BY <1>1, <1>6, <1>7, <3>2, <3>3 DEF Halfway, d, w
      <3>5. QED
        BY <2>10, <3>4
    <2>11. QED
      BY <1>5, <2>9, <2>10
  <1>12. SettingInv'
    <2>1. r.kind # "set"
      BY <1>2 DEF Reads
    <2>2. ASSUME r.kind = "get"
          PROVE  last /\ got = <<settings[r.item]>>
      <3>1. host.got = <<>> /\ ep0.buf = <<settings[r.item]>>
        BY <1>a, <1>1, <1>2, <2>2 DEF SettingInv
      <3>2. r.wLength = 1
        BY <1>b, <2>2, RequestIs
      <3>3. host.got \o ep0.buf = ep0.buf
        BY <1>b, <3>1, ConcatEmptySeq
      <3>4. got = Clip(ep0.buf, 1)
        BY <3>2, <3>3 DEF got
      <3>5. /\ got \in Seq(Cells) /\ Len(got) = IF 1 < Len(ep0.buf) THEN 1 ELSE Len(ep0.buf)
            /\ \A k \in 1 .. Len(got) : got[k] = ep0.buf[k]
        BY <1>b, <3>4, ClipIs
      <3>6. Len(got) = 1 /\ got[1] = settings[r.item]
        BY <3>1, <3>5
      <3>7. got = <<settings[r.item]>>
        BY <3>5, <3>6
      <3>8. QED
        BY <1>c, <3>2, <3>6, <3>7
    <2>3. QED
      BY <1>1, <1>5, <1>6, <1>7, <2>1, <2>2 DEF SettingInv
  <1>13. DoneInv'
    BY <1>7 DEF DoneInv, DoneMeansDone
  <1>14. QED
    BY <1>8, <1>9, <1>10, <1>11, <1>12, <1>13 DEF CtlInv

LEMMA HostOutStep ==
  ASSUME CtlInv, HostOut
  PROVE  CtlInv'
  <1>a. CtlTypes /\ FlagInv /\ RequestInv /\ DescriptorInv /\ SettingInv /\ DoneInv
    BY DEF CtlInv
  <1> DEFINE r == host.req
             b == <<r.value>>
  <1>1. /\ host.phase = "out" /\ ep0.dat = "ack"
        /\ host' = [host EXCEPT !.phase = "status"]
        /\ ep0' = [ep0 EXCEPT !.dat = "nak", !.buf = b, !.data = TRUE, !.sta = TRUE]
        /\ UNCHANGED <<dongle, settings, transfers>>
    BY DEF HostOut
  <1>2. ~ep0.setup /\ ~ep0.reset /\ host.result = "none" /\ ep0.status = "nak"
        /\ Writes(r) /\ dongle.req = r
    BY <1>a, <1>1, CtlHostTypes DEF FlagInv, RequestInv
  <1>3. r \in Requests /\ r.kind # "unknownOut" /\ r.kind = "set" /\ r.item \in WithData
    <2>1. r \in Requests
      BY <1>a, CtlHostTypes
    <2>2. r.kind # "unknownOut"
      BY <1>a, <1>1, <1>2 DEF RequestInv
    <2>3. QED
      BY <1>2, <2>1, <2>2, RequestIs DEF Reads, Writes
  <1>4. b \in AtMost(PacketSize)
    <2>1. r.value \in Cells /\ PacketSize \in Nat \ {0}
      BY <1>3, RequestIs, ControlAssumption DEF Cells
    <2>2. QED
      BY <2>1 DEF AtMost
  <1> HIDE DEF b
  <1>5. /\ ep0' \in EpT /\ ~ep0'.setup /\ ep0'.data /\ ep0'.sta /\ ~ep0'.reset
        /\ ep0'.dat = "nak" /\ ep0'.status = "nak" /\ ep0'.buf = b
    BY <1>a, <1>1, <1>2, <1>4 DEF CtlTypes, EpT
  <1>6. /\ host' \in HostT /\ host'.phase = "status" /\ host'.req = r /\ host'.got = host.got
        /\ host'.result = "none"
    BY <1>a, <1>1, <1>2 DEF CtlTypes, HostT
  <1>7. CtlTypes'
    BY <1>a, <1>1, <1>5, <1>6 DEF CtlTypes
  <1>8. FlagInv'
    BY <1>5, <1>6 DEF FlagInv
  <1>9. RequestInv'
    BY <1>1, <1>2, <1>3, <1>5, <1>6 DEF RequestInv
  <1>10. DescriptorInv' /\ SettingInv'
    BY <1>3, <1>5, <1>6 DEF DescriptorInv, SettingInv, b
  <1>11. DoneInv'
    BY <1>6 DEF DoneInv, DoneMeansDone
  <1>12. QED
    BY <1>7, <1>8, <1>9, <1>10, <1>11 DEF CtlInv

LEMMA HostStalledStep ==
  ASSUME CtlInv, HostDataStalled
  PROVE  CtlInv'
  <1>a. CtlTypes /\ FlagInv /\ RequestInv /\ DescriptorInv /\ SettingInv /\ DoneInv
    BY DEF CtlInv
  <1>1. /\ host.phase \in {"in", "out"} /\ ep0.dat = "stall"
        /\ host' = [host EXCEPT !.phase = "idle", !.result = "stalled"]
        /\ UNCHANGED <<ep0, dongle, settings, transfers>>
    BY DEF HostDataStalled, Ends
  <1>2. ~ep0.setup /\ ~ep0.data /\ ~ep0.sta /\ ~ep0.reset
    BY <1>a, <1>1 DEF FlagInv
  <1>3. /\ host' \in HostT /\ host'.phase = "idle" /\ host'.req = host.req /\ host'.got = host.got
        /\ host'.result = "stalled"
    BY <1>a, <1>1 DEF CtlTypes, HostT
  <1>4. CtlTypes'
    BY <1>a, <1>1, <1>3 DEF CtlTypes
  <1>5. FlagInv' /\ RequestInv' /\ DescriptorInv' /\ SettingInv'
    BY <1>1, <1>2, <1>3 DEF FlagInv, RequestInv, DescriptorInv, SettingInv
  <1>6. DoneInv'
    BY <1>3 DEF DoneInv, DoneMeansDone
  <1>7. QED
    BY <1>4, <1>5, <1>6 DEF CtlInv

\* The status handshake of the host: here the transfer has done what it was for.
LEMMA HostStatusStep ==
  ASSUME CtlInv, HostStatus
  PROVE  CtlInv'
  <1>a. CtlTypes /\ FlagInv /\ RequestInv /\ DescriptorInv /\ SettingInv /\ DoneInv
    BY DEF CtlInv
  <1> DEFINE x == IF ep0.status = "ack" THEN "done" ELSE "stalled"
  <1>1. /\ host.phase = "status" /\ ep0.status # "nak"
        /\ host' = [host EXCEPT !.phase = "idle", !.result = x]
        /\ ep0' = [ep0 EXCEPT !.status = "nak"]
        /\ UNCHANGED <<dongle, settings, transfers>>
    BY DEF HostStatus, Ends
  <1>2. ~ep0.setup /\ ~ep0.data /\ ~ep0.sta /\ ~ep0.reset /\ host.req.kind # "unknownOut"
    BY <1>a, <1>1 DEF FlagInv, RequestInv
  <1>b. x \in {"done", "stalled"}
    OBVIOUS
  <1> HIDE DEF x
  <1>3. /\ host' \in HostT /\ host'.phase = "idle" /\ host'.req = host.req /\ host'.got = host.got
        /\ host'.result = x
    BY <1>a, <1>1, <1>b DEF CtlTypes, HostT
  <1>4. ep0' \in EpT /\ ~ep0'.setup /\ ~ep0'.data /\ ~ep0'.sta /\ ~ep0'.reset
    BY <1>a, <1>1, <1>2 DEF CtlTypes, EpT
  <1>5. CtlTypes'
    BY <1>a, <1>1, <1>3, <1>4 DEF CtlTypes
  <1>6. FlagInv' /\ RequestInv' /\ DescriptorInv' /\ SettingInv'
    BY <1>3, <1>4 DEF FlagInv, RequestInv, DescriptorInv, SettingInv
  <1>7. Expected(host.req)'
    <2>1. host.req \in Requests
      BY <1>a, CtlHostTypes
    <2>2. CASE host.req.kind = "descriptor"
      <3>1. host.got = Portion(host.req.item, 0, Wanted(host.req))
        BY <1>a, <1>1, <2>2 DEF DescriptorInv
      <3>2. host.got = Clip(Bytes(host.req.item, DescriptorSize[host.req.item]), host.req.wLength)
        BY <2>1, <2>2, <3>1, WantedIs
      <3>3. QED
        BY <1>3, <2>2, <3>2 DEF Expected
    <2>3. CASE host.req.kind # "descriptor"
      <3>1. /\ host.req.kind = "set" => settings[host.req.item] = host.req.value
            /\ host.req.kind = "get" => host.got = <<settings[host.req.item]>>
        BY <1>a, <1>1, <1>2 DEF SettingInv
      <3>2. QED
        BY <1>1, <1>3, <2>3, <3>1 DEF Expected
    <2>4. QED
      BY <2>2, <2>3
  <1>8. DoneInv'
    BY <1>2, <1>3, <1>4, <1>7 DEF DoneInv, DoneMeansDone
  <1>9. QED
    BY <1>5, <1>6, <1>8 DEF CtlInv

LEMMA BusResetStep ==
  ASSUME CtlInv, BusReset
  PROVE  CtlInv'
  <1>a. CtlTypes /\ FlagInv /\ RequestInv /\ DescriptorInv /\ SettingInv /\ DoneInv
    BY DEF CtlInv
  <1>1. /\ host' = [host EXCEPT !.phase = "idle", !.result = "none"]
        /\ ep0' = [Disarmed EXCEPT !.setup = FALSE, !.reset = TRUE]
        /\ transfers > 0 /\ transfers' = transfers - 1
        /\ UNCHANGED <<dongle, settings>>
    BY DEF BusReset, Ends
  <1>2. /\ host' \in HostT /\ host'.phase = "idle" /\ host'.req = host.req /\ host'.got = host.got
        /\ host'.result = "none"
    BY <1>a, <1>1 DEF CtlTypes, HostT
  <1>3. ep0' \in EpT /\ ~ep0'.setup /\ ~ep0'.data /\ ~ep0'.sta
    BY <1>a, <1>1 DEF CtlTypes, EpT, Disarmed
  <1>4. transfers' \in 0 .. MaxTransfers
    BY <1>a, <1>1, ControlAssumption DEF CtlTypes
  <1>5. CtlTypes'
    BY <1>a, <1>1, <1>2, <1>3, <1>4 DEF CtlTypes
  <1>6. FlagInv' /\ RequestInv' /\ DescriptorInv' /\ SettingInv'
    BY <1>2, <1>3 DEF FlagInv, RequestInv, DescriptorInv, SettingInv
  <1>7. DoneInv'
    BY <1>2 DEF DoneInv, DoneMeansDone
  <1>8. QED
    BY <1>5, <1>6, <1>7 DEF CtlInv

LEMMA CtlStep ==
  ASSUME CtlInv, [CtlNext]_ctlVars
  PROVE  CtlInv'
  <1>1. CASE UsbHandleIrq
    BY <1>1, ResetStep, IrqStep
  <1>2. CASE HostData
    BY <1>2, HostInStep, HostOutStep, HostStalledStep, HostStatusStep DEF HostData
  <1>3. CASE BusReset
    BY <1>3, BusResetStep
  <1>4. CASE \E r \in Requests : HostSetup(r)
    BY <1>4, HostSetupStep
  <1>5. CASE UNCHANGED ctlVars
    BY <1>5 DEF ctlVars, CtlInv, CtlTypes, FlagInv, RequestInv, DescriptorInv, Halfway, SettingInv,
                DoneInv, DoneMeansDone, Expected
  <1>6. QED
    BY <1>1, <1>2, <1>3, <1>4, <1>5 DEF CtlNext

(* The endpoint keeps its types, whatever the host asks, gives up or resets:  *)
(* a packet never exceeds the packet size and a response never the buffer     *)
(* (usb_send_response, usb.c).                                                *)
THEOREM ControlTypesCorrect == CtlSpec => []CtlTypeOK
  <1>1. CtlInit => CtlInv
    BY CtlInitInv
  <1>2. CtlInv /\ [CtlNext]_ctlVars => CtlInv'
    BY CtlStep
  <1>3. CtlInv => CtlTypeOK
    BY DEF CtlInv, CtlTypes, CtlTypeOK, HostT, EpT, DongleT, SettingsT, AtMost, Marks
  <1>4. QED
    BY <1>1, <1>2, <1>3, PTL DEF CtlSpec

(* A control transfer that ends well has done what it was for: the host has   *)
(* the descriptor, or what it asked for of it, and a setting the host's       *)
(* value, whatever the descriptors and their sizes, the packet size and the   *)
(* transfers and resets before (usb_handle_irq, usb_handle_request).          *)
THEOREM DoneIsDone == CtlSpec => []DoneMeansDone
  <1>1. CtlInit => CtlInv
    BY CtlInitInv
  <1>2. CtlInv /\ [CtlNext]_ctlVars => CtlInv'
    BY CtlStep
  <1>3. CtlInv => DoneMeansDone
    BY DEF CtlInv, DoneInv
  <1>4. QED
    BY <1>1, <1>2, <1>3, PTL DEF CtlSpec

-----------------------------------------------------------------------------
(* A transfer goes on and runs out. *)

Due == ep0.setup \/ ep0.data \/ ep0.sta \/ ep0.reset

(* While a transfer is on, the firmware has an interrupt to serve, or the     *)
(* endpoint has answered and the host moves on: the guard of UsbHandleIrq or  *)
(* of a disjunct of HostData holds (usb_handle_irq never leaves a handshake   *)
(* out).                                                                      *)
NoOneWaits ==
  host.phase # "idle" =>
    \/ Due
    \/ host.phase \in {"in", "out"} /\ ep0.dat # "nak"
    \/ host.phase = "status" /\ ep0.status # "nak"

\* The phases a transfer still has.
PhasesLeft(p) == IF p \in {"in", "out"} THEN 2 ELSE IF p = "status" THEN 1 ELSE 0

\* A SETUP or a reset is spent; or a phase ends; or the host has read more of what it
\* asked for; or the firmware has served all there was.
RunsOut ==
  \/ transfers' < transfers
  \/ transfers' = transfers /\ PhasesLeft(host'.phase) < PhasesLeft(host.phase)
  \/ /\ transfers' = transfers /\ host'.phase = host.phase /\ host'.req = host.req
     /\ host.req.wLength - Len(host'.got) \in 0 .. host.req.wLength - Len(host.got) - 1
  \/ transfers' = transfers /\ host' = host /\ Due /\ ~Due'

LEMMA WaitsStep ==
  ASSUME CtlInv, NoOneWaits, [CtlNext]_ctlVars
  PROVE  NoOneWaits'
  <1>a. CtlTypes /\ FlagInv /\ RequestInv /\ SettingInv
    BY DEF CtlInv
  <1>b. ep0 \in EpT /\ host \in HostT
    BY <1>a DEF CtlTypes
  <1>1. CASE UsbHandleIrq
    <2>1. host' = host
      BY <1>1 DEF UsbHandleIrq
    <2>2. SUFFICES ASSUME host.phase # "idle" PROVE NoOneWaits'
      BY <2>1 DEF NoOneWaits
    <2>3. Answered
      BY <1>1, <1>a, <2>2, IrqAnswers
    <2>4. ep0'.dat # "nak" /\ (ep0.sta => ep0'.status # "nak") /\ (ep0.setup \/ ep0.data)
      BY <2>3 DEF Answered
    <2>5. host.phase \in {"in", "out", "status"}
      BY <1>b, <2>2 DEF HostT
    <2>6. host.phase = "status" => ep0.sta
      BY <1>a, <2>4 DEF FlagInv
    <2>7. QED
      BY <2>1, <2>4, <2>5, <2>6 DEF NoOneWaits
  <1>2. CASE HostIn \/ HostOut
    <2>1. ep0'.data
      BY <1>2, <1>b DEF HostIn, HostOut, EpT
    <2>2. QED
      BY <2>1 DEF NoOneWaits, Due
  <1>3. CASE HostDataStalled \/ HostStatus \/ BusReset
    <2>1. host'.phase = "idle"
      BY <1>3, <1>b DEF HostDataStalled, HostStatus, BusReset, Ends, HostT
    <2>2. QED
      BY <2>1 DEF NoOneWaits
  <1>4. CASE \E r \in Requests : HostSetup(r)
    <2>1. ep0'.setup
      BY <1>4, <1>b DEF HostSetup, Disarmed, EpT
    <2>2. QED
      BY <2>1 DEF NoOneWaits, Due
  <1>5. CASE UNCHANGED ctlVars
    BY <1>5 DEF ctlVars, NoOneWaits, Due
  <1>6. QED
    BY <1>1, <1>2, <1>3, <1>4, <1>5 DEF CtlNext, HostData

LEMMA MoreRead ==
  ASSUME NEW g \in Nat, NEW b \in Nat, NEW w \in Nat, NEW t, NEW n, t = g + b,
         n = IF w < t THEN w ELSE t, n # w, b >= 1
  PROVE  w - n \in 0 .. w - g - 1
  OBVIOUS

LEMMA RunsOutStep ==
  ASSUME CtlInv, CtlInv', CtlNext
  PROVE  RunsOut
  <1>a. CtlTypes /\ FlagInv /\ RequestInv /\ SettingInv /\ CtlTypes'
    BY DEF CtlInv
  <1>b. /\ ep0 \in EpT /\ host \in HostT /\ transfers \in Nat
        /\ host.req \in Requests /\ host.got \in Seq(Cells) /\ ep0.buf \in Seq(Cells)
        /\ PacketSize \in Nat \ {0} /\ host.req.wLength \in Nat
    BY <1>a, CtlHostTypes, RequestIs, ControlAssumption DEF CtlTypes
  <1>1. CASE UsbHandleIrq
    <2>1. host' = host /\ transfers' = transfers /\ Due
      BY <1>1 DEF UsbHandleIrq, Due
    <2>2. ~Due'
      <3>1. CASE host.phase # "idle"
        <4>1. Answered
          BY <1>1, <1>a, <3>1, IrqAnswers
        <4>2. QED
          BY <4>1 DEF Answered, Due
      <3>2. CASE host.phase = "idle"
        <4>1. ~ep0.setup /\ ~ep0.data /\ ~ep0.sta /\ ep0.reset
          BY <1>a, <2>1, <3>2 DEF FlagInv, Due
        <4> DEFINE s0 == [dongle |-> dongle, ep0 |-> ep0, settings |-> settings]
        <4>2. HandleIrq(s0) = s0
          BY <4>1 DEF HandleIrq
        <4>3. ep0' = HandleReset(s0).ep0
          BY <1>1, <4>2 DEF UsbHandleIrq
        <4>4. ep0' = [ep0 EXCEPT !.reset = FALSE]
          BY <4>1, <4>3 DEF HandleReset
        <4>5. QED
          BY <1>b, <4>1, <4>4 DEF EpT, Due
      <3>3. QED
        BY <3>1, <3>2
    <2>3. QED
      BY <2>1, <2>2 DEF RunsOut
  <1>2. CASE HostIn
    <2> DEFINE got == Clip(host.got \o ep0.buf, host.req.wLength)
               last == Len(ep0.buf) < PacketSize \/ Len(got) = host.req.wLength
    <2>1. /\ host.phase = "in" /\ transfers' = transfers
          /\ host' = [host EXCEPT !.got = got, !.phase = IF last THEN "status" ELSE @]
      BY <1>2 DEF HostIn
    <2>2. /\ host'.got = got /\ host'.req = host.req
          /\ host'.phase = IF last THEN "status" ELSE "in"
      BY <1>b, <2>1 DEF HostT
    <2>3. CASE last
      BY <2>1, <2>2, <2>3 DEF RunsOut, PhasesLeft
    <2>4. CASE ~last
      <3>1. PICK q \in Seq(Cells) : q = host.got \o ep0.buf
        BY <1>b, ConcatProperties
      <3>2. Len(q) = Len(host.got) + Len(ep0.buf)
        BY <1>b, <3>1, ConcatProperties
      <3>3. Len(got) = IF host.req.wLength < Len(q) THEN host.req.wLength ELSE Len(q)
        BY <1>b, <3>1, ClipIs
      <3>4. Len(host.got) \in Nat /\ Len(ep0.buf) \in Nat
        BY <1>b, LenProperties
      <3>5. Len(ep0.buf) >= 1 /\ Len(got) # host.req.wLength
        <4>1. ~(Len(ep0.buf) < PacketSize) /\ Len(got) # host.req.wLength
          BY <2>4
        <4>2. PacketSize \in Nat /\ PacketSize >= 1
          BY ControlAssumption
        <4>3. QED
          BY <3>4, <4>1, <4>2
      <3>6. host.req.wLength - Len(got) \in 0 .. host.req.wLength - Len(host.got) - 1
        <4>1. host.req.wLength \in Nat
          BY <1>b
        <4> HIDE DEF got
        <4>2. QED
          BY <3>2, <3>3, <3>4, <3>5, <4>1, MoreRead
      <3>7. host.req.wLength - Len(host'.got) \in 0 .. host.req.wLength - Len(host.got) - 1
        <4>1. host'.got = got
          BY <2>2
        <4> HIDE DEF got
        <4>2. QED
          BY <3>6, <4>1
      <3>8. host'.phase = host.phase
        BY <2>1, <2>2, <2>4
      <3>9. QED
        BY <2>1, <2>2, <3>7, <3>8 DEF RunsOut
    <2>5. QED
      BY <2>3, <2>4
  <1>3. CASE HostOut
    <2>1. host.phase = "out" /\ host'.phase = "status" /\ transfers' = transfers
      BY <1>3, <1>b DEF HostOut, HostT
    <2>2. QED
      BY <2>1 DEF RunsOut, PhasesLeft
  <1>4. CASE HostDataStalled \/ HostStatus
    <2>1. /\ host.phase \in {"in", "out", "status"} /\ host'.phase = "idle"
          /\ transfers' = transfers
      BY <1>4, <1>b DEF HostDataStalled, HostStatus, Ends, HostT
    <2>2. QED
      BY <2>1 DEF RunsOut, PhasesLeft
  <1>5. CASE BusReset \/ \E r \in Requests : HostSetup(r)
    <2>1. transfers > 0 /\ transfers' = transfers - 1
      BY <1>5 DEF BusReset, HostSetup
    <2>2. QED
      BY <1>b, <2>1 DEF RunsOut
  <1>6. QED
    BY <1>1, <1>2, <1>3, <1>4, <1>5 DEF CtlNext, HostData

(* A transfer never waits for what nobody will do, and it runs out: every     *)
(* step of the host and of usb_handle_irq spends a SETUP or reset, ends a     *)
(* phase, reads more of at most wLength bytes or serves the interrupts that   *)
(* are due.  That a host and a main loop that go on end it is then fairness.  *)
THEOREM TransferGoesOn == CtlSpec => []NoOneWaits /\ [][RunsOut]_ctlVars
  <1>1. CtlInit => CtlInv /\ NoOneWaits
    BY CtlInitInv DEF CtlInit, NoOneWaits
  <1>2. CtlInv /\ NoOneWaits /\ [CtlNext]_ctlVars => CtlInv' /\ NoOneWaits' /\ [RunsOut]_ctlVars
    <2>1. SUFFICES ASSUME CtlInv, NoOneWaits, [CtlNext]_ctlVars
                   PROVE  CtlInv' /\ NoOneWaits' /\ (CtlNext => RunsOut)
      OBVIOUS
    <2>2. CtlInv'
      BY <2>1, CtlStep
    <2>3. NoOneWaits'
      BY <2>1, WaitsStep
    <2>4. CtlNext => RunsOut
      BY <2>1, <2>2, RunsOutStep
    <2>5. QED
      BY <2>2, <2>3, <2>4
  <1>3. QED
    BY <1>1, <1>2, PTL DEF CtlSpec

-----------------------------------------------------------------------------
(* The two allocators.  The blocks of q lie in the order of the list from the *)
(* first byte on, side by side up to what is free, and are filled.            *)

EndIn(m, b) == m[b].ptr + m[b].size

Sorted(q, m, a) ==
  /\ \A i, j \in 1 .. Len(q) : i < j => q[i] # q[j] /\ EndIn(m, q[i]) <= m[q[j]].ptr
  /\ \A i \in 1 .. Len(q) : EndIn(m, q[i]) <= MmemSize - a
  /\ q # <<>> => m[q[1]].ptr = 0

Gapless(q, m, a) ==
  /\ \A j \in 1 .. Len(q) - 1 : m[q[j + 1]].ptr = EndIn(m, q[j])
  /\ q # <<>> => EndIn(m, q[Len(q)]) = MmemSize - a
  /\ q = <<>> => a = MmemSize

Filled(q, m, mem) ==
  \A i \in 1 .. Len(q) : \A o \in m[q[i]].ptr .. EndIn(m, q[i]) - 1 : mem[o] = q[i]

BlockT == [ptr : 0 .. MmemSize, size : BlockSizes \cup {0}]

MmemInv ==
  /\ Sorted(mmemList, mmem, avail) /\ Gapless(mmemList, mmem, avail)
  /\ Filled(mmemList, mmem, memory)

MemInv == MemTypeOK /\ MmemInv /\ PoolIsSound

LEMMA MmemTypes ==
  ASSUME MemTypeOK
  PROVE  /\ MmemSize \in Nat /\ avail \in Nat /\ avail <= MmemSize
         /\ mmemList \in Seq(Blocks) /\ Len(mmemList) \in Nat
         /\ DOMAIN mmemList = 1 .. Len(mmemList)
         /\ \A j \in 1 .. Len(mmemList) : mmemList[j] \in Blocks
         /\ \A b \in Blocks : /\ mmem[b].ptr \in Nat /\ mmem[b].size \in Nat
                              /\ mmem[b].size \in BlockSizes \cup {0}
                              /\ EndIn(mmem, b) \in Nat
  <1>1. mmemList \in Seq(Blocks)
    BY DEF MemTypeOK
  <1>2. /\ Len(mmemList) \in Nat /\ DOMAIN mmemList = 1 .. Len(mmemList)
        /\ \A j \in 1 .. Len(mmemList) : mmemList[j] \in Blocks
    BY <1>1, LenProperties
  <1>3. MmemSize \in Nat /\ avail \in Nat /\ avail <= MmemSize
    BY MemoryAssumption DEF MemTypeOK
  <1>4. ASSUME NEW b \in Blocks
        PROVE  /\ mmem[b].ptr \in Nat /\ mmem[b].size \in Nat
               /\ mmem[b].size \in BlockSizes \cup {0} /\ EndIn(mmem, b) \in Nat
    <2>1. mmem[b] \in [ptr : 0 .. MmemSize, size : BlockSizes \cup {0}]
      BY DEF MemTypeOK
    <2>2. mmem[b].ptr \in 0 .. MmemSize /\ mmem[b].size \in BlockSizes \cup {0}
      BY <2>1
    <2>3. \A x \in BlockSizes \cup {0} : x \in Nat
      BY MemoryAssumption
    <2>4. QED
      BY <2>2, <2>3, <1>3 DEF EndIn
  <1>5. QED
    BY <1>1, <1>2, <1>3, <1>4

LEMMA ManagedIs ==
  ASSUME MemTypeOK
  PROVE  Managed = {mmemList[j] : j \in 1 .. Len(mmemList)}
  BY MmemTypes DEF Managed

LEMMA Sound == MemInv => MemoryIsSound
  <1> SUFFICES ASSUME MemInv PROVE MemoryIsSound
    OBVIOUS
  <1>1. MemTypeOK /\ MmemInv /\ PoolIsSound
    BY DEF MemInv
  <1>2. \A b \in Managed : \A o \in Span(b) : memory[o] = b
    BY <1>1, ManagedIs DEF MmemInv, Filled, Span, End, EndIn
  <1>3. QED
    BY <1>1, <1>2 DEF MmemInv, Gapless, MemoryIsSound, End, EndIn

\* The list and the blocks after a block was added behind the others.
LEMMA AllocEffect ==
  ASSUME MemInv, NEW b \in Blocks, NEW size \in BlockSizes, MmemAlloc(b, size)
  PROVE  /\ mmemList' \in Seq(Blocks) /\ Len(mmemList') = Len(mmemList) + 1
         /\ \A j \in 1 .. Len(mmemList) : /\ mmemList'[j] = mmemList[j] /\ mmemList[j] # b
                                          /\ mmem'[mmemList[j]] = mmem[mmemList[j]]
         /\ mmemList'[Len(mmemList) + 1] = b
         /\ mmem'[b].ptr = MmemSize - avail /\ mmem'[b].size = size
         /\ mmem' \in [Blocks -> BlockT]
         /\ size \in Nat /\ avail' = avail - size /\ avail' \in Nat /\ avail' <= MmemSize
  <1>1. MemTypeOK
    BY DEF MemInv
  <1>2. size \in Nat
    BY MemoryAssumption
  <1>3. /\ mmemList' \in Seq(Blocks) /\ Len(mmemList') = Len(mmemList) + 1
        /\ \A j \in 1 .. Len(mmemList) : mmemList'[j] = mmemList[j]
        /\ mmemList'[Len(mmemList) + 1] = b
    <2>1. mmemList \in Seq(Blocks) /\ mmemList' = Append(mmemList, b)
      BY <1>1, MmemTypes DEF MmemAlloc
    <2>2. QED
      BY <2>1, AppendProperties
  <1>4. \A j \in 1 .. Len(mmemList) : mmemList[j] # b /\ mmemList[j] \in Blocks
    BY <1>1, ManagedIs, MmemTypes DEF MmemAlloc
  <1>5. /\ avail \in Nat /\ avail <= MmemSize /\ MmemSize \in Nat /\ avail >= size
        /\ avail' = avail - size
    BY <1>1, MmemTypes DEF MmemAlloc
  <1>6. /\ mmem \in [Blocks -> BlockT]
        /\ mmem' = [mmem EXCEPT ![b] = [ptr |-> MmemSize - avail, size |-> size]]
    BY <1>1 DEF MemTypeOK, MmemAlloc, BlockT
  <1>7. [ptr |-> MmemSize - avail, size |-> size] \in BlockT
    BY <1>5 DEF BlockT
  <1>8. QED
    BY <1>2, <1>3, <1>4, <1>5, <1>6, <1>7

LEMMA AllocStep ==
  ASSUME MemInv, NEW b \in Blocks, NEW size \in BlockSizes, MmemAlloc(b, size)
  PROVE  MemTypeOK' /\ MmemInv'
  <1> DEFINE n == Len(mmemList)
             q == mmemList'
             m == mmem'
  <1>1. MemTypeOK /\ Sorted(mmemList, mmem, avail) /\ Gapless(mmemList, mmem, avail)
        /\ Filled(mmemList, mmem, memory)
    BY DEF MemInv, MmemInv
  <1>2. n \in Nat /\ MmemSize \in Nat /\ avail \in Nat /\ avail <= MmemSize
    BY <1>1, MmemTypes
  <1>3. /\ q \in Seq(Blocks) /\ Len(q) = n + 1 /\ q[n + 1] = b
        /\ \A j \in 1 .. n : q[j] = mmemList[j] /\ mmemList[j] # b /\ m[q[j]] = mmem[mmemList[j]]
        /\ m[b].ptr = MmemSize - avail /\ m[b].size = size
        /\ size \in Nat /\ avail' = avail - size /\ avail' \in Nat /\ avail' <= MmemSize
    BY AllocEffect
  <1>4. EndIn(m, b) = MmemSize - avail'
    BY <1>2, <1>3 DEF EndIn
  <1>5. ASSUME NEW j \in 1 .. n
        PROVE  /\ q[j] = mmemList[j] /\ mmemList[j] \in Blocks /\ mmemList[j] # b
               /\ EndIn(m, q[j]) = EndIn(mmem, mmemList[j]) /\ m[q[j]].ptr = mmem[mmemList[j]].ptr
               /\ EndIn(mmem, mmemList[j]) \in Nat /\ mmem[mmemList[j]].ptr \in Nat
               /\ EndIn(mmem, mmemList[j]) <= MmemSize - avail
    <2>1. mmemList[j] \in Blocks
      BY <1>1, MmemTypes
    <2>2. EndIn(mmem, mmemList[j]) \in Nat /\ mmem[mmemList[j]].ptr \in Nat
      BY <1>1, <2>1, MmemTypes
    <2>3. EndIn(mmem, mmemList[j]) <= MmemSize - avail
      BY <1>1 DEF Sorted
    <2>4. QED
      BY <2>1, <2>2, <2>3, <1>3 DEF EndIn
  <1>6. memory' = [o \in Offsets |-> IF o \in MmemSize - avail .. MmemSize - avail + size - 1
                                     THEN b ELSE memory[o]]
    BY DEF MmemAlloc
  <1> HIDE DEF n, q, m
  <1>7. MemTypeOK'
    <2>1. mmem' \in [Blocks -> [ptr : 0 .. MmemSize, size : BlockSizes \cup {0}]]
      BY AllocEffect DEF BlockT
    <2>2. memory' \in [Offsets -> Blocks \cup {NoBlock}]
      BY <1>1, <1>6 DEF MemTypeOK
    <2>3. QED
      BY <1>1, <1>2, <1>3, <2>1, <2>2 DEF MemTypeOK, MmemAlloc, q
  <1>8. Sorted(q, m, avail')
    <2>1. ASSUME NEW i \in 1 .. n + 1, NEW j \in 1 .. n + 1, i < j
          PROVE  q[i] # q[j] /\ EndIn(m, q[i]) <= m[q[j]].ptr
      <3>1. i \in 1 .. n
        BY <2>1, <1>2
      <3>2. CASE j \in 1 .. n
        <4>1. mmemList[i] # mmemList[j] /\ EndIn(mmem, mmemList[i]) <= mmem[mmemList[j]].ptr
          BY <2>1, <1>1, <3>1, <3>2 DEF Sorted, n
        <4>2. QED
          BY <4>1, <1>5, <3>1, <3>2
      <3>3. CASE j = n + 1
        BY <3>1, <3>3, <1>3, <1>5
      <3>4. QED
        BY <3>2, <3>3, <1>2
    <2>2. ASSUME NEW i \in 1 .. n + 1 PROVE EndIn(m, q[i]) <= MmemSize - avail'
      <3>1. CASE i \in 1 .. n
        BY <3>1, <1>2, <1>3, <1>5
      <3>2. CASE i = n + 1
        BY <3>2, <1>2, <1>3, <1>4
      <3>3. QED
        BY <3>1, <3>2, <1>2
    <2>3. m[q[1]].ptr = 0
      <3>1. CASE n = 0
        <4>1. mmemList = <<>>
          BY <3>1, <1>1, MmemTypes, EmptySeq DEF n
        <4>2. avail = MmemSize
          BY <4>1, <1>1 DEF Gapless
        <4>3. QED
          BY <4>2, <3>1, <1>2, <1>3
      <3>2. CASE n # 0
        <4>1. mmemList # <<>> /\ 1 \in 1 .. n
          BY <3>2, <1>2, EmptySeq DEF n
        <4>2. QED
          BY <4>1, <1>1, <1>5 DEF Sorted
      <3>3. QED
        BY <3>1, <3>2
    <2>4. QED
      BY <2>1, <2>2, <2>3, <1>2, <1>3 DEF Sorted
  <1>9. Filled(q, m, memory')
    <2> SUFFICES ASSUME NEW i \in 1 .. n + 1, NEW o \in m[q[i]].ptr .. EndIn(m, q[i]) - 1
                 PROVE  memory'[o] = q[i]
      BY <1>3 DEF Filled
    <2>1. CASE i \in 1 .. n
      <3>1. o \in mmem[mmemList[i]].ptr .. EndIn(mmem, mmemList[i]) - 1
        BY <2>1, <1>5
      <3>2. memory[o] = mmemList[i]
        BY <2>1, <3>1, <1>1 DEF Filled, n
      <3>3. o \in Int /\ o >= 0 /\ o < MmemSize - avail
        BY <2>1, <3>1, <1>5, <1>2
      <3>4. o \in Offsets
        BY <3>3, <1>2 DEF Offsets
      <3>5. QED
        BY <2>1, <3>2, <3>3, <3>4, <1>2, <1>3, <1>5, <1>6
    <2>2. CASE i = n + 1
      <3>1. o \in MmemSize - avail .. MmemSize - avail + size - 1
        BY <2>2, <1>2, <1>3 DEF EndIn
      <3>2. o \in Offsets
        BY <3>1, <1>2, <1>3 DEF Offsets
      <3>3. QED
        BY <2>2, <3>1, <3>2, <1>3, <1>6
    <2>3. QED
      BY <2>1, <2>2, <1>2
  <1>10. Gapless(q, m, avail')
    <2>1. ASSUME NEW j \in 1 .. n PROVE m[q[j + 1]].ptr = EndIn(m, q[j])
      <3>1. CASE j = n
        <4>1. mmemList # <<>>
          BY <3>1, <2>1, <1>2, EmptySeq DEF n
        <4>2. EndIn(mmem, mmemList[n]) = MmemSize - avail
          BY <4>1, <1>1 DEF Gapless, n
        <4>3. QED
          BY <4>2, <3>1, <2>1, <1>3, <1>5
      <3>2. CASE j # n
        <4>1. j \in 1 .. n - 1 /\ j + 1 \in 1 .. n
          BY <3>2, <2>1, <1>2
        <4>2. mmem[mmemList[j + 1]].ptr = EndIn(mmem, mmemList[j])
          BY <4>1, <1>1 DEF Gapless, n
        <4>3. QED
          BY <4>1, <4>2, <2>1, <1>5
      <3>3. QED
        BY <3>1, <3>2
    <2>2. q # <<>>
      BY <1>2, <1>3, EmptySeq
    <2>3. Len(q) - 1 = n
      BY <1>2, <1>3
    <2>4. QED
      BY <2>1, <2>2, <2>3, <1>3, <1>4 DEF Gapless
  <1>11. QED
    BY <1>7, <1>8, <1>9, <1>10 DEF MmemInv, q, m

\* The place in the list before b was taken out of it, p being the place of b.
Old(p, i) == IF i < p THEN i ELSE i + 1

LEMMA PlaceIs ==
  ASSUME MemTypeOK, NEW b \in Managed
  PROVE  PlaceOf(b) \in 1 .. Len(mmemList) /\ mmemList[PlaceOf(b)] = b
  <1>1. \E j \in DOMAIN mmemList : mmemList[j] = b
    BY DEF Managed
  <1>2. PlaceOf(b) \in DOMAIN mmemList /\ mmemList[PlaceOf(b)] = b
    BY <1>1 DEF PlaceOf
  <1>3. QED
    BY <1>2, MmemTypes

LEMMA Removed ==
  ASSUME NEW S, NEW q \in Seq(S), NEW p \in 1 .. Len(q)
  PROVE  LET r == SubSeq(q, 1, p - 1) \o SubSeq(q, p + 1, Len(q)) IN
         r \in Seq(S) /\ Len(r) = Len(q) - 1
         /\ \A i \in 1 .. Len(q) - 1 : r[i] = q[Old(p, i)]
  <1> DEFINE u == SubSeq(q, 1, p - 1)
             v == SubSeq(q, p + 1, Len(q))
             n == Len(q)
  <1>1. n \in Nat /\ \A i \in 1 .. n : q[i] \in S
    BY LenProperties
  <1>2. u \in Seq(S) /\ Len(u) = p - 1 /\ \A i \in 1 .. p - 1 : u[i] = q[i]
    <2>1. \A i \in 1 .. p - 1 : q[i] \in S
      BY <1>1
    <2>2. /\ u \in Seq(S) /\ Len(u) = IF 1 <= p - 1 THEN (p - 1) - 1 + 1 ELSE 0
          /\ \A i \in 1 .. (p - 1) - 1 + 1 : u[i] = q[1 + i - 1]
      BY <1>1, <2>1, SubSeqProperties
    <2>3. QED
      BY <1>1, <2>2
  <1>3. v \in Seq(S) /\ Len(v) = n - p /\ \A i \in 1 .. n - p : v[i] = q[p + i]
    <2>1. \A i \in p + 1 .. n : q[i] \in S
      BY <1>1
    <2>2. /\ v \in Seq(S) /\ Len(v) = IF p + 1 <= n THEN n - (p + 1) + 1 ELSE 0
          /\ \A i \in 1 .. n - (p + 1) + 1 : v[i] = q[p + 1 + i - 1]
      BY <1>1, <2>1, SubSeqProperties
    <2>3. QED
      BY <1>1, <2>2
  <1> HIDE DEF u, v
  <1>4. /\ u \o v \in Seq(S) /\ Len(u \o v) = Len(u) + Len(v)
        /\ \A i \in 1 .. Len(u) + Len(v) : (u \o v)[i] = IF i <= Len(u) THEN u[i] ELSE v[i - Len(u)]
    BY <1>2, <1>3, ConcatProperties
  <1>5. Len(u) + Len(v) = n - 1
    BY <1>1, <1>2, <1>3
  <1>6. ASSUME NEW i \in 1 .. n - 1 PROVE (u \o v)[i] = q[Old(p, i)]
    <2>1. CASE i < p
      BY <2>1, <1>1, <1>2, <1>4, <1>5 DEF Old
    <2>2. CASE ~(i < p)
      <3>1. i - (p - 1) \in 1 .. n - p
        BY <2>2, <1>1
      <3>2. p + (i - (p - 1)) = i + 1
        BY <1>1
      <3>3. (u \o v)[i] = v[i - (p - 1)]
        BY <2>2, <1>1, <1>2, <1>4, <1>5
      <3>4. v[i - (p - 1)] = q[p + (i - (p - 1))]
        BY <3>1, <1>3
      <3>5. QED
        BY <2>2, <3>2, <3>3, <3>4 DEF Old
    <2>3. QED
      BY <2>1, <2>2
  <1>7. QED
    BY <1>4, <1>5, <1>6 DEF u, v

\* The list and the blocks after b was freed: those behind it have moved down.
LEMMA FreeEffect ==
  ASSUME MemInv, NEW b \in Blocks, MmemFree(b)
  PROVE  \E p \in 1 .. Len(mmemList) :
           /\ mmemList[p] = b
           /\ mmemList' \in Seq(Blocks) /\ Len(mmemList') = Len(mmemList) - 1
           /\ \A i \in 1 .. Len(mmemList) - 1 : mmemList'[i] = mmemList[Old(p, i)]
           /\ \A j \in 1 .. Len(mmemList) :
                /\ j <= p => mmem'[mmemList[j]] = mmem[mmemList[j]]
                /\ j > p  => /\ mmem'[mmemList[j]].ptr = mmem[mmemList[j]].ptr - mmem[b].size
                             /\ mmem'[mmemList[j]].size = mmem[mmemList[j]].size
                             /\ EndIn(mmem, b) <= mmem[mmemList[j]].ptr
           /\ Behind(b) = {mmemList[j] : j \in p + 1 .. Len(mmemList)}
           /\ PlaceOf(b) = p
  <1> DEFINE p == PlaceOf(b)
             n == Len(mmemList)
  <1>1. MemTypeOK /\ Sorted(mmemList, mmem, avail)
    BY DEF MemInv, MmemInv
  <1>2. p \in 1 .. n /\ mmemList[p] = b /\ n \in Nat
    BY <1>1, PlaceIs, MmemTypes DEF MmemFree
  <1>3. Behind(b) = {mmemList[j] : j \in p + 1 .. n}
    BY DEF Behind
  <1>4. mmemList \in Seq(Blocks)
    BY <1>1, MmemTypes
  <1>5. mmemList' = SubSeq(mmemList, 1, p - 1) \o SubSeq(mmemList, p + 1, n)
    BY DEF MmemFree
  <1> HIDE DEF p
  <1>6. /\ mmemList' \in Seq(Blocks) /\ Len(mmemList') = n - 1
        /\ \A i \in 1 .. n - 1 : mmemList'[i] = mmemList[Old(p, i)]
    BY <1>2, <1>4, <1>5, Removed
  <1>7. \A j \in 1 .. n : mmemList[j] \in Behind(b) <=> j > p
    <2> SUFFICES ASSUME NEW j \in 1 .. n PROVE mmemList[j] \in Behind(b) <=> j > p
      OBVIOUS
    <2>1. CASE j > p
      BY <2>1, <1>2, <1>3
    <2>2. CASE ~(j > p)
      <3>1. \A i \in p + 1 .. n : mmemList[j] # mmemList[i]
        BY <2>2, <1>1, <1>2 DEF Sorted
      <3>2. QED
        BY <2>2, <3>1, <1>3
    <2>3. QED
      BY <2>1, <2>2
  <1>8. mmem' = [c \in Blocks |-> IF c \in Behind(b) THEN [mmem[c] EXCEPT !.ptr = @ - mmem[b].size]
                                                     ELSE mmem[c]]
    BY DEF MmemFree, MovedDown
  <1>9. ASSUME NEW j \in 1 .. n
        PROVE  /\ j <= p => mmem'[mmemList[j]] = mmem[mmemList[j]]
               /\ j > p  => /\ mmem'[mmemList[j]].ptr = mmem[mmemList[j]].ptr - mmem[b].size
                            /\ mmem'[mmemList[j]].size = mmem[mmemList[j]].size
                            /\ EndIn(mmem, b) <= mmem[mmemList[j]].ptr
    <2>1. mmemList[j] \in Blocks
      BY <1>1, MmemTypes
    <2>2. mmem[mmemList[j]] \in [ptr : 0 .. MmemSize, size : BlockSizes \cup {0}]
      BY <2>1, <1>1 DEF MemTypeOK
    <2>3. CASE j <= p
      BY <2>1, <2>3, <1>2, <1>7, <1>8
    <2>4. CASE j > p
      <3>1. mmem'[mmemList[j]] = [mmem[mmemList[j]] EXCEPT !.ptr = @ - mmem[b].size]
        BY <2>1, <2>4, <1>7, <1>8
      <3>2. EndIn(mmem, mmemList[p]) <= mmem[mmemList[j]].ptr
        BY <2>4, <1>1, <1>2 DEF Sorted
      <3>3. QED
        BY <3>1, <3>2, <2>2, <2>4, <1>2
    <2>5. QED
      BY <2>3, <2>4, <1>2
  <1>10. QED
    BY <1>2, <1>3, <1>6, <1>9 DEF p

LEMMA FreeStep ==
  ASSUME MemInv, NEW b \in Blocks, MmemFree(b)
  PROVE  MemTypeOK' /\ MmemInv'
  <1> DEFINE n == Len(mmemList)
             l == mmemList
             q == mmemList'
             m == mmem'
             size == mmem[b].size
  <1>1. MemTypeOK /\ Sorted(l, mmem, avail) /\ Gapless(l, mmem, avail) /\ Filled(l, mmem, memory)
    BY DEF MemInv, MmemInv
  <1>2. n \in Nat /\ MmemSize \in Nat /\ avail \in Nat /\ avail <= MmemSize
    BY <1>1, MmemTypes
  <1>3. PICK p \in 1 .. n :
           /\ l[p] = b
           /\ q \in Seq(Blocks) /\ Len(q) = n - 1
           /\ \A i \in 1 .. n - 1 : q[i] = l[Old(p, i)]
           /\ \A j \in 1 .. n :
                /\ j <= p => m[l[j]] = mmem[l[j]]
                /\ j > p  => /\ m[l[j]].ptr = mmem[l[j]].ptr - size
                             /\ m[l[j]].size = mmem[l[j]].size
                             /\ EndIn(mmem, b) <= mmem[l[j]].ptr
           /\ Behind(b) = {l[j] : j \in p + 1 .. n}
           /\ PlaceOf(b) = p
    BY FreeEffect
  <1>4. /\ memory' = IF Behind(b) = {} THEN memory
                     ELSE Memmove(memory, mmem[b].ptr, End(b), MmemSize - avail - End(b))
        /\ avail' = avail + size
    <2>1. ASSUME Behind(b) # {} PROVE mmem[l[PlaceOf(b) + 1]].ptr = End(b)
      <3>1. p \in 1 .. n - 1
        BY <2>1, <1>2, <1>3
      <3>2. mmem[l[p + 1]].ptr = EndIn(mmem, l[p])
        BY <3>1, <1>1 DEF Gapless
      <3>3. QED
        BY <3>2, <1>3 DEF End, EndIn
    <2>2. QED
      BY <2>1 DEF MmemFree
  <1>5. ASSUME NEW j \in 1 .. n
        PROVE  /\ l[j] \in Blocks /\ mmem[l[j]].ptr \in Nat /\ mmem[l[j]].size \in Nat
               /\ EndIn(mmem, l[j]) = mmem[l[j]].ptr + mmem[l[j]].size
               /\ EndIn(mmem, l[j]) <= MmemSize - avail
    <2>1. l[j] \in Blocks
      BY <1>1, MmemTypes
    <2>2. mmem[l[j]].ptr \in Nat /\ mmem[l[j]].size \in Nat
      BY <2>1, <1>1, MmemTypes
    <2>3. EndIn(mmem, l[j]) <= MmemSize - avail
      BY <1>1 DEF Sorted
    <2>4. QED
      BY <2>1, <2>2, <2>3 DEF EndIn
  <1>6. /\ mmem[b].ptr \in Nat /\ size \in Nat /\ EndIn(mmem, b) = mmem[b].ptr + size
        /\ EndIn(mmem, b) <= MmemSize - avail /\ End(b) = EndIn(mmem, b)
    BY <1>3, <1>5 DEF End, EndIn
  <1>7. avail' \in Nat /\ avail' <= MmemSize
    BY <1>2, <1>4, <1>6
  <1>8. mmem' = [c \in Blocks |-> IF c \in Behind(b) THEN [mmem[c] EXCEPT !.ptr = @ - mmem[b].size]
                                                     ELSE mmem[c]]
    BY DEF MmemFree, MovedDown
  <1> HIDE DEF n, l, q, m, size
  <1>9. ASSUME NEW i \in 1 .. n - 1
        PROVE  /\ Old(p, i) \in 1 .. n /\ Old(p, i) # p /\ q[i] = l[Old(p, i)]
               /\ i < p => /\ Old(p, i) = i /\ m[q[i]].ptr = mmem[l[i]].ptr
                           /\ EndIn(m, q[i]) = EndIn(mmem, l[i])
                           /\ EndIn(mmem, l[i]) <= mmem[b].ptr
               /\ i >= p => /\ Old(p, i) = i + 1 /\ m[q[i]].ptr = mmem[l[i + 1]].ptr - size
                            /\ EndIn(m, q[i]) = EndIn(mmem, l[i + 1]) - size
                            /\ EndIn(mmem, b) <= mmem[l[i + 1]].ptr
    <2>1. Old(p, i) \in 1 .. n /\ Old(p, i) # p /\ q[i] = l[Old(p, i)]
      BY <1>2, <1>3 DEF Old
    <2>2. CASE i < p
      <3>1. Old(p, i) = i /\ i \in 1 .. n /\ q[i] = l[i]
        BY <2>1, <2>2, <1>2 DEF Old
      <3>2. m[l[i]] = mmem[l[i]]
        BY <3>1, <2>2, <1>2, <1>3
      <3>3. EndIn(mmem, l[i]) <= mmem[l[p]].ptr
        BY <3>1, <2>2, <1>1, <1>2 DEF Sorted, n, l
      <3>4. QED
        BY <3>1, <3>2, <3>3, <2>1, <2>2, <1>3 DEF EndIn
    <2>3. CASE i >= p
      <3>1. Old(p, i) = i + 1 /\ i + 1 \in 1 .. n /\ i + 1 > p /\ q[i] = l[i + 1]
        BY <2>1, <2>3, <1>2 DEF Old
      <3>2. /\ m[l[i + 1]].ptr = mmem[l[i + 1]].ptr - size
            /\ m[l[i + 1]].size = mmem[l[i + 1]].size
            /\ EndIn(mmem, b) <= mmem[l[i + 1]].ptr
        BY <3>1, <1>3
      <3>3. mmem[l[i + 1]].ptr \in Nat /\ mmem[l[i + 1]].size \in Nat
        BY <3>1, <1>5
      <3>4. EndIn(m, q[i]) = EndIn(mmem, l[i + 1]) - size
        BY <3>1, <3>2, <3>3, <1>6 DEF EndIn
      <3>5. QED
        BY <3>1, <3>2, <3>4, <2>1, <2>3, <1>2
    <2>4. QED
      BY <2>2, <2>3, <1>2
  <1>10. MemTypeOK'
    <2>1. ASSUME NEW c \in Blocks PROVE m[c] \in BlockT
      <3>1. mmem[c] \in BlockT
        BY <1>1 DEF MemTypeOK, BlockT
      <3>2. CASE c \notin Behind(b)
        BY <3>1, <3>2, <1>8 DEF m
      <3>3. CASE c \in Behind(b)
        <4>1. PICK j \in p + 1 .. n : c = l[j]
          BY <3>3, <1>3
        <4>2. j \in 1 .. n /\ j > p
          BY <4>1, <1>2
        <4>3. EndIn(mmem, b) <= mmem[c].ptr /\ mmem[c].ptr \in Nat
          BY <4>1, <4>2, <1>3, <1>5
        <4>4. m[c] = [mmem[c] EXCEPT !.ptr = @ - size]
          BY <3>3, <1>8 DEF m, size
        <4>5. mmem[c].ptr - size \in 0 .. MmemSize
          BY <3>1, <4>3, <1>2, <1>6 DEF BlockT
        <4>6. QED
          BY <3>1, <4>4, <4>5 DEF BlockT
      <3>4. QED
        BY <3>2, <3>3
    <2>2. mmem' \in [Blocks -> [ptr : 0 .. MmemSize, size : BlockSizes \cup {0}]]
      BY <2>1, <1>8 DEF m, BlockT
    <2>3. memory' \in [Offsets -> Blocks \cup {NoBlock}]
      <3>1. CASE Behind(b) = {}
        BY <3>1, <1>1, <1>4 DEF MemTypeOK
      <3>2. CASE Behind(b) # {}
        <4> DEFINE k == MmemSize - avail - End(b)
                   d == mmem[b].ptr
        <4>1. memory' = [o \in Offsets |-> IF o \notin d .. d + k - 1 THEN memory[o]
                                           ELSE memory[End(b) + (o - d)]]
          BY <3>2, <1>4, <1>6 DEF Memmove
        <4>2. ASSUME NEW o \in Offsets, o \in d .. d + k - 1 PROVE End(b) + (o - d) \in Offsets
          BY <4>2, <1>2, <1>6 DEF Offsets
        <4>3. QED
          BY <4>1, <4>2, <1>1 DEF MemTypeOK
      <3>3. QED
        BY <3>1, <3>2
    <2>4. mmemList' \in Seq(Blocks)
      BY <1>3 DEF q
    <2>5. avail' \in 0 .. MmemSize
      BY <1>2, <1>7
    <2>6. pool' = pool /\ owned' = owned
      BY DEF MmemFree
    <2>7. QED
      BY <1>1, <2>2, <2>3, <2>4, <2>5, <2>6 DEF MemTypeOK
  <1>11. Sorted(q, m, avail')
    <2>1. ASSUME NEW i \in 1 .. n - 1, NEW j \in 1 .. n - 1, i < j
          PROVE  q[i] # q[j] /\ EndIn(m, q[i]) <= m[q[j]].ptr
      <3>1. Old(p, i) \in 1 .. n /\ Old(p, j) \in 1 .. n /\ Old(p, i) < Old(p, j)
        BY <2>1, <1>2 DEF Old
      <3>2. /\ l[Old(p, i)] # l[Old(p, j)]
            /\ EndIn(mmem, l[Old(p, i)]) <= mmem[l[Old(p, j)]].ptr
        BY <3>1, <1>1 DEF Sorted, n, l
      <3>3. /\ mmem[l[Old(p, j)]].ptr \in Nat /\ mmem[l[Old(p, i)]].ptr \in Nat
            /\ EndIn(mmem, l[Old(p, i)]) \in Nat
        BY <3>1, <1>5
      <3>4. CASE j < p \/ i >= p
        BY <3>2, <3>3, <3>4, <2>1, <1>2, <1>6, <1>9
      <3>5. CASE i < p /\ j >= p
        BY <3>2, <3>3, <3>5, <2>1, <1>2, <1>6, <1>9
      <3>6. QED
        BY <3>4, <3>5, <2>1, <1>2
    <2>2. ASSUME NEW i \in 1 .. n - 1 PROVE EndIn(m, q[i]) <= MmemSize - avail'
      <3>1. CASE i < p
        BY <3>1, <1>2, <1>4, <1>5, <1>6, <1>9 DEF size
      <3>2. CASE i >= p
        <4>1. i + 1 \in 1 .. n
          BY <1>2
        <4>2. EndIn(mmem, l[i + 1]) <= MmemSize - avail /\ EndIn(mmem, l[i + 1]) \in Nat
          BY <4>1, <1>5
        <4>3. QED
          BY <3>2, <4>2, <1>2, <1>4, <1>6, <1>9 DEF size
      <3>3. QED
        BY <3>1, <3>2, <1>2
    <2>3. ASSUME q # <<>> PROVE m[q[1]].ptr = 0
      <3>1. n - 1 >= 1 /\ 1 \in 1 .. n - 1 /\ 1 \in 1 .. n
        BY <2>3, <1>2, <1>3, EmptySeq
      <3>2. l # <<>>
        BY <3>1, <1>2, EmptySeq DEF n, l
      <3>3. mmem[l[1]].ptr = 0
        BY <3>2, <1>1 DEF Sorted
      <3>4. CASE 1 < p
        BY <3>1, <3>3, <3>4, <1>9
      <3>5. CASE 1 >= p
        <4>1. p = 1 /\ 1 + 1 \in 1 .. n
          BY <3>1, <3>5, <1>2
        <4>2. mmem[l[1 + 1]].ptr = EndIn(mmem, l[1])
          BY <3>1, <1>1 DEF Gapless, n, l
        <4>3. EndIn(mmem, l[1]) = size
          BY <4>1, <3>3, <1>3, <1>6
        <4>4. m[q[1]].ptr = mmem[l[1 + 1]].ptr - size
          BY <3>1, <3>5, <1>9
        <4>5. QED
          BY <4>2, <4>3, <4>4, <1>6
      <3>6. QED
        BY <3>4, <3>5, <1>2
    <2>4. QED
      BY <2>1, <2>2, <2>3, <1>2, <1>3 DEF Sorted
  <1>12. Filled(q, m, memory')
    <2> SUFFICES ASSUME NEW i \in 1 .. n - 1, NEW o \in m[q[i]].ptr .. EndIn(m, q[i]) - 1
                 PROVE  memory'[o] = q[i]
      BY <1>3 DEF Filled
    <2> DEFINE k == MmemSize - avail - End(b)
               d == mmem[b].ptr
    <2>1. Behind(b) # {} =>
            memory' = [x \in Offsets |-> IF x \notin d .. d + k - 1 THEN memory[x]
                                         ELSE memory[End(b) + (x - d)]]
      BY <1>4, <1>6 DEF Memmove
    <2>2. CASE i < p
      <3>1. i \in 1 .. n /\ q[i] = l[i] /\ o \in mmem[l[i]].ptr .. EndIn(mmem, l[i]) - 1
        BY <2>2, <1>2, <1>9
      <3>2. memory[o] = l[i]
        BY <3>1, <1>1 DEF Filled, n, l
      <3>3. o \in Int /\ o >= 0 /\ o < d
        BY <3>1, <2>2, <1>2, <1>5, <1>6, <1>9
      <3>4. o \in Offsets /\ o \notin d .. d + k - 1
        BY <3>3, <1>2, <1>6 DEF Offsets
      <3>5. QED
        BY <2>1, <3>1, <3>2, <3>4, <1>4
    <2>3. CASE i >= p
      <3>1. i + 1 \in p + 1 .. n /\ i + 1 \in 1 .. n /\ q[i] = l[i + 1]
        BY <2>3, <1>2, <1>9
      <3>2. /\ mmem[l[i + 1]].ptr \in Nat /\ mmem[l[i + 1]].size \in Nat
            /\ EndIn(mmem, l[i + 1]) = mmem[l[i + 1]].ptr + mmem[l[i + 1]].size
            /\ EndIn(mmem, l[i + 1]) <= MmemSize - avail
            /\ EndIn(mmem, b) <= mmem[l[i + 1]].ptr
        BY <3>1, <2>3, <1>5, <1>9
      <3>3. o \in mmem[l[i + 1]].ptr - size .. EndIn(mmem, l[i + 1]) - size - 1
        BY <2>3, <1>9
      <3>4. o + size \in mmem[l[i + 1]].ptr .. EndIn(mmem, l[i + 1]) - 1
        BY <3>2, <3>3, <1>6
      <3>5. memory[o + size] = l[i + 1]
        BY <3>1, <3>4, <1>1 DEF Filled, n, l
      <3>6. o \in d .. d + k - 1 /\ o \in Offsets /\ End(b) + (o - d) = o + size
        BY <3>2, <3>3, <1>2, <1>6 DEF Offsets
      <3>7. Behind(b) # {}
        BY <3>1, <1>3
      <3>8. QED
        BY <2>1, <3>1, <3>5, <3>6, <3>7
    <2>4. QED
      BY <2>2, <2>3, <1>2
  <1>13. Gapless(q, m, avail')
    <2>1. ASSUME NEW j \in 1 .. n - 1 - 1 PROVE m[q[j + 1]].ptr = EndIn(m, q[j])
      <3>1. j \in 1 .. n - 1 /\ j + 1 \in 1 .. n - 1 /\ j + 1 + 1 \in 1 .. n
            /\ j \in 1 .. n /\ j + 1 \in 1 .. n
        BY <1>2
      <3>2. /\ mmem[l[j + 1]].ptr = EndIn(mmem, l[j])
            /\ mmem[l[j + 1 + 1]].ptr = EndIn(mmem, l[j + 1])
        BY <3>1, <1>1 DEF Gapless, n, l
      <3>3. CASE j + 1 < p
        BY <3>1, <3>2, <3>3, <1>2, <1>9
      <3>4. CASE j + 1 = p
        <4>1. m[q[j + 1]].ptr = mmem[l[j + 1 + 1]].ptr - size
          BY <3>1, <3>4, <1>2, <1>9
        <4>2. EndIn(m, q[j]) = EndIn(mmem, l[j])
          BY <3>1, <3>4, <1>2, <1>9
        <4>3. EndIn(mmem, l[j + 1]) = mmem[l[j + 1]].ptr + size
          BY <3>4, <1>3, <1>6
        <4>4. mmem[l[j + 1]].ptr \in Nat
          BY <3>1, <1>5
        <4>5. QED
          BY <3>2, <4>1, <4>2, <4>3, <4>4, <1>6
      <3>5. CASE j + 1 > p
        <4>1. m[q[j + 1]].ptr = mmem[l[j + 1 + 1]].ptr - size
          BY <3>1, <3>5, <1>2, <1>9
        <4>2. EndIn(m, q[j]) = EndIn(mmem, l[j + 1]) - size
          BY <3>1, <3>5, <1>2, <1>9
        <4>3. QED
          BY <3>2, <4>1, <4>2
      <3>6. QED
        BY <3>1, <3>3, <3>4, <3>5, <1>2
    <2>2. l # <<>>
      BY <1>2, EmptySeq DEF n, l
    <2>3. EndIn(mmem, l[n]) = MmemSize - avail
      BY <2>2, <1>1 DEF Gapless, n, l
    <2>4. ASSUME q # <<>> PROVE EndIn(m, q[n - 1]) = MmemSize - avail'
      <3>1. n - 1 \in 1 .. n - 1 /\ n \in 1 .. n
        BY <2>4, <1>2, <1>3, EmptySeq
      <3>2. CASE n - 1 < p
        <4>1. p = n
          BY <3>2, <1>2
        <4>2. mmem[l[n - 1 + 1]].ptr = EndIn(mmem, l[n - 1])
          BY <3>1, <1>1 DEF Gapless, n, l
        <4>3. n - 1 + 1 = n
          BY <1>2
        <4>4. EndIn(m, q[n - 1]) = EndIn(mmem, l[n - 1])
          BY <3>1, <3>2, <1>9
        <4>5. mmem[b].ptr + size = MmemSize - avail /\ mmem[l[n]].ptr = mmem[b].ptr
          BY <4>1, <2>3, <1>3, <1>6
        <4>6. EndIn(m, q[n - 1]) = mmem[b].ptr
          BY <4>2, <4>3, <4>4, <4>5
        <4>7. mmem[b].ptr = MmemSize - (avail + size)
          BY <4>5, <1>2, <1>6
        <4>8. QED
          BY <4>6, <4>7, <1>4 DEF size
      <3>3. CASE n - 1 >= p
        <4>1. EndIn(m, q[n - 1]) = EndIn(mmem, l[n - 1 + 1]) - size
          BY <3>1, <3>3, <1>9
        <4>2. n - 1 + 1 = n
          BY <1>2
        <4>3. QED
          BY <4>1, <4>2, <2>3, <1>2, <1>4, <1>6 DEF size
      <3>4. QED
        BY <3>2, <3>3, <1>2
    <2>5. ASSUME q = <<>> PROVE avail' = MmemSize
      <3>1. n = 1 /\ p = 1
        BY <2>5, <1>2, <1>3, EmptySeq
      <3>2. mmem[l[1]].ptr = 0
        BY <2>2, <1>1 DEF Sorted
      <3>3. mmem[b].ptr + size = MmemSize - avail
        BY <3>1, <2>3, <1>3, <1>6
      <3>4. mmem[b].ptr = 0
        BY <3>1, <3>2, <1>3
      <3>5. avail + size = MmemSize
        BY <3>3, <3>4, <1>2, <1>6
      <3>6. QED
        BY <3>5, <1>4 DEF size
    <2>6. QED
      BY <2>1, <2>4, <2>5, <1>2, <1>3 DEF Gapless
  <1>14. QED
    BY <1>10, <1>11, <1>12, <1>13 DEF MmemInv, q, m

\* The free list c of the pool with its length n.
FreeList(c, n) ==
  /\ n = Cardinality(PoolBlocks \ owned) /\ IsFiniteSet(PoolBlocks \ owned)
  /\ {c[j] : j \in 1 .. n} = PoolBlocks \ owned
  /\ pool.free = IF n = 0 THEN NoBlock ELSE c[1]
  /\ \A j \in 1 .. n : pool.next[c[j]] = IF j = n THEN NoBlock ELSE c[j + 1]
  /\ \A i, j \in 1 .. n : c[i] = c[j] => i = j

LEMMA FreeListIs ==
  ASSUME MemInv
  PROVE  \E n \in Nat : \E c \in [1 .. n -> PoolBlocks] : FreeList(c, n)
  <1> DEFINE rest == PoolBlocks \ owned
             n == Cardinality(rest)
  <1>1. PoolIsSound
    BY DEF MemInv
  <1>2. IsFiniteSet(rest) /\ n \in Nat
    <2>1. PoolCount \in Int
      BY MemoryAssumption
    <2>2. IsFiniteSet(PoolBlocks)
      BY <2>1, FS_Interval DEF PoolBlocks
    <2>3. IsFiniteSet(rest)
      BY <2>2, FS_Subset
    <2>4. QED
      BY <2>3, FS_CardinalityType
  <1>3. PICK c \in [1 .. n -> PoolBlocks] : {c[j] : j \in 1 .. n} = rest /\ IsFreeList(c, n)
    BY <1>1 DEF PoolIsSound
  <1> HIDE DEF rest
  <1>4. \A i, j \in 1 .. n : c[i] = c[j] => i = j
    <2>1. c \in [1 .. n -> rest]
      BY <1>3
    <2>2. c \in Surjection(1 .. n, rest)
      BY <2>1, <1>3 DEF Surjection
    <2>3. IsFiniteSet(1 .. n) /\ Cardinality(1 .. n) = n
      BY <1>2, FS_Interval
    <2>4. c \in Injection(1 .. n, rest)
      BY <2>2, <2>3, FS_SurjSameCardinalityImpliesInj
    <2>5. QED
      BY <2>4 DEF Injection, IsInjective
  <1>5. QED
    BY <1>2, <1>3, <1>4 DEF IsFreeList, FreeList, rest

PoolT == [free : PoolBlocks \cup {NoBlock}, next : [PoolBlocks -> PoolBlocks \cup {NoBlock}]]

\* A free list d of k blocks makes the pool sound.
LEMMA PoolFrom ==
  ASSUME NEW k \in Nat, NEW d \in [1 .. k -> PoolBlocks], k = Cardinality(PoolBlocks \ owned'),
         {d[j] : j \in 1 .. k} = PoolBlocks \ owned',
         pool'.free = IF k = 0 THEN NoBlock ELSE d[1],
         \A j \in 1 .. k : pool'.next[d[j]] = IF j = k THEN NoBlock ELSE d[j + 1]
  PROVE  PoolIsSound'
  BY DEF PoolIsSound, IsFreeList, PoolBlocks

\* Taking a block from the head of the free list.
LEMMA PoolAllocStep ==
  ASSUME MemInv, MempoolAlloc
  PROVE  pool' \in PoolT /\ owned' \subseteq PoolBlocks /\ PoolIsSound'
  <1>0. PICK n \in Nat : \E c \in [1 .. n -> PoolBlocks] : FreeList(c, n)
    BY FreeListIs
  <1>1. PICK c \in [1 .. n -> PoolBlocks] :
           /\ n = Cardinality(PoolBlocks \ owned) /\ IsFiniteSet(PoolBlocks \ owned)
           /\ {c[j] : j \in 1 .. n} = PoolBlocks \ owned
           /\ pool.free = IF n = 0 THEN NoBlock ELSE c[1]
           /\ \A j \in 1 .. n : pool.next[c[j]] = IF j = n THEN NoBlock ELSE c[j + 1]
           /\ \A i, j \in 1 .. n : c[i] = c[j] => i = j
    BY <1>0 DEF FreeList
  <1>a. n = Cardinality(PoolBlocks \ owned) /\ IsFiniteSet(PoolBlocks \ owned)
    BY <1>1
  <1>b. /\ \A j \in 1 .. n : c[j] \in PoolBlocks \ owned
        /\ \A x \in PoolBlocks \ owned : \E j \in 1 .. n : c[j] = x
    BY <1>1
  <1> DEFINE p == c[1]
             d == [j \in 1 .. n - 1 |-> c[j + 1]]
  <1>2. /\ n # 0 /\ pool.free = p /\ p \in PoolBlocks /\ p \in PoolBlocks \ owned
        /\ owned' = owned \cup {p} /\ pool' = [pool EXCEPT !.free = pool.next[@]]
    <2>1. pool.free # NoBlock
      BY DEF MempoolAlloc
    <2>2. n # 0 /\ pool.free = p
      BY <2>1, <1>1
    <2>3. 1 \in 1 .. n
      BY <2>2
    <2>4. p \in PoolBlocks \ owned
      BY <2>3, <1>b
    <2>5. owned' = owned \cup {p} /\ pool' = [pool EXCEPT !.free = pool.next[@]]
      BY <2>2 DEF MempoolAlloc
    <2>6. QED
      BY <2>2, <2>4, <2>5
  <1>3. pool \in PoolT /\ owned \subseteq PoolBlocks
    BY DEF MemInv, MemTypeOK, PoolT
  <1>4. pool'.free = pool.next[p] /\ pool'.next = pool.next /\ pool' \in PoolT
    <2>1. pool.next[p] \in PoolBlocks \cup {NoBlock}
      BY <1>2, <1>3 DEF PoolT
    <2>2. QED
      BY <2>1, <1>2, <1>3 DEF PoolT
  <1>5. owned' \subseteq PoolBlocks /\ PoolBlocks \ owned' = (PoolBlocks \ owned) \ {p}
    BY <1>2, <1>3
  <1>6. n - 1 = Cardinality(PoolBlocks \ owned')
    <2>1. Cardinality((PoolBlocks \ owned) \ {p})
            = IF p \in PoolBlocks \ owned THEN Cardinality(PoolBlocks \ owned) - 1
                                         ELSE Cardinality(PoolBlocks \ owned)
      BY <1>a, FS_RemoveElement
    <2>2. QED
      BY <2>1, <1>2, <1>5, <1>a
  <1>7. n - 1 \in Nat /\ d \in [1 .. n - 1 -> PoolBlocks]
    <2>1. \A j \in 1 .. n - 1 : j + 1 \in 1 .. n /\ c[j + 1] \in PoolBlocks
      BY <1>b
    <2>2. n - 1 \in Nat
      BY <1>2
    <2>3. QED
      BY <2>1, <2>2
  <1>8. {d[j] : j \in 1 .. n - 1} = PoolBlocks \ owned'
    <2>1. ASSUME NEW j \in 1 .. n - 1 PROVE d[j] \in PoolBlocks \ owned'
      <3>1. j + 1 \in 1 .. n /\ j + 1 # 1 /\ d[j] = c[j + 1] /\ 1 \in 1 .. n
        BY <1>2
      <3>2. c[j + 1] \in PoolBlocks \ owned /\ c[j + 1] # p
        BY <3>1, <1>1
      <3>3. QED
        BY <3>1, <3>2, <1>5
    <2>2. ASSUME NEW x \in PoolBlocks \ owned' PROVE \E j \in 1 .. n - 1 : d[j] = x
      <3>1. x \in PoolBlocks \ owned /\ x # p
        BY <1>5
      <3>2. PICK i \in 1 .. n : c[i] = x
        BY <3>1, <1>b
      <3>3. i # 1 /\ i - 1 \in 1 .. n - 1 /\ (i - 1) + 1 = i
        BY <3>1, <3>2
      <3>4. d[i - 1] = x
        BY <3>2, <3>3
      <3>5. QED
        BY <3>3, <3>4
    <2> HIDE DEF d
    <2>3. QED
      BY <2>1, <2>2
  <1>9. pool'.free = IF n - 1 = 0 THEN NoBlock ELSE d[1]
    <2>1. 1 \in 1 .. n
      BY <1>2
    <2>2. pool.next[c[1]] = IF 1 = n THEN NoBlock ELSE c[1 + 1]
      BY <2>1, <1>1
    <2>3. (n - 1 = 0 <=> 1 = n) /\ (n - 1 # 0 => 1 \in 1 .. n - 1)
      BY <1>2
    <2>4. n - 1 # 0 => d[1] = c[1 + 1]
      BY <2>3
    <2>5. pool'.free = pool.next[c[1]]
      BY <1>4
    <2> HIDE DEF d
    <2>6. QED
      BY <2>2, <2>3, <2>4, <2>5
  <1>10. ASSUME NEW j \in 1 .. n - 1
         PROVE  pool'.next[d[j]] = IF j = n - 1 THEN NoBlock ELSE d[j + 1]
    <2>1. j + 1 \in 1 .. n /\ d[j] = c[j + 1] /\ (j = n - 1 <=> j + 1 = n)
      OBVIOUS
    <2>2. pool'.next[d[j]] = IF j + 1 = n THEN NoBlock ELSE c[j + 1 + 1]
      BY <2>1, <1>1, <1>4
    <2>3. j # n - 1 => d[j + 1] = c[j + 1 + 1]
      OBVIOUS
    <2>4. QED
      BY <2>1, <2>2, <2>3
  <1> HIDE DEF d
  <1>11. PoolIsSound'
    BY <1>6, <1>7, <1>8, <1>9, <1>10, PoolFrom
  <1>12. QED
    BY <1>4, <1>5, <1>11

\* Putting a block at the head of the free list.
LEMMA PoolFreeStep ==
  ASSUME MemInv, NEW p \in PoolBlocks, MempoolFree(p)
  PROVE  pool' \in PoolT /\ owned' \subseteq PoolBlocks /\ PoolIsSound'
  <1>0. PICK n \in Nat : \E c \in [1 .. n -> PoolBlocks] : FreeList(c, n)
    BY FreeListIs
  <1>1. PICK c \in [1 .. n -> PoolBlocks] :
           /\ n = Cardinality(PoolBlocks \ owned) /\ IsFiniteSet(PoolBlocks \ owned)
           /\ {c[j] : j \in 1 .. n} = PoolBlocks \ owned
           /\ pool.free = IF n = 0 THEN NoBlock ELSE c[1]
           /\ \A j \in 1 .. n : pool.next[c[j]] = IF j = n THEN NoBlock ELSE c[j + 1]
           /\ \A i, j \in 1 .. n : c[i] = c[j] => i = j
    BY <1>0 DEF FreeList
  <1>a. n = Cardinality(PoolBlocks \ owned) /\ IsFiniteSet(PoolBlocks \ owned)
    BY <1>1
  <1>b. /\ \A j \in 1 .. n : c[j] \in PoolBlocks \ owned
        /\ \A x \in PoolBlocks \ owned : \E j \in 1 .. n : c[j] = x
    BY <1>1
  <1> DEFINE d == [j \in 1 .. n + 1 |-> IF j = 1 THEN p ELSE c[j - 1]]
  <1>2. /\ p \in owned /\ owned' = owned \ {p}
        /\ pool' = [free |-> p, next |-> [pool.next EXCEPT ![p] = pool.free]]
    BY DEF MempoolFree
  <1>3. pool \in PoolT /\ owned \subseteq PoolBlocks
    BY DEF MemInv, MemTypeOK, PoolT
  <1>4. /\ pool'.free = p /\ pool'.next[p] = pool.free /\ pool' \in PoolT
        /\ \A x \in PoolBlocks : x # p => pool'.next[x] = pool.next[x]
    <2>1. pool.next \in [PoolBlocks -> PoolBlocks \cup {NoBlock}] /\ pool.free \in PoolBlocks \cup {NoBlock}
      BY <1>3 DEF PoolT
    <2>2. [pool.next EXCEPT ![p] = pool.free] \in [PoolBlocks -> PoolBlocks \cup {NoBlock}]
      BY <2>1
    <2>3. QED
      BY <2>1, <2>2, <1>2 DEF PoolT
  <1>5. owned' \subseteq PoolBlocks /\ PoolBlocks \ owned' = (PoolBlocks \ owned) \cup {p}
        /\ p \notin PoolBlocks \ owned
    BY <1>2, <1>3
  <1>6. n + 1 = Cardinality(PoolBlocks \ owned')
    <2>1. Cardinality((PoolBlocks \ owned) \cup {p})
            = IF p \in PoolBlocks \ owned THEN Cardinality(PoolBlocks \ owned)
                                         ELSE Cardinality(PoolBlocks \ owned) + 1
      BY <1>a, FS_AddElement
    <2>2. QED
      BY <2>1, <1>5, <1>a
  <1>7. n + 1 \in Nat /\ d \in [1 .. n + 1 -> PoolBlocks]
    <2>1. \A j \in 1 .. n + 1 : j # 1 => j - 1 \in 1 .. n /\ c[j - 1] \in PoolBlocks
      BY <1>b
    <2>2. QED
      BY <2>1
  <1>8. {d[j] : j \in 1 .. n + 1} = PoolBlocks \ owned'
    <2>1. ASSUME NEW j \in 1 .. n + 1 PROVE d[j] \in PoolBlocks \ owned'
      <3>1. CASE j = 1
        BY <3>1, <1>5
      <3>2. CASE j # 1
        <4>1. j - 1 \in 1 .. n /\ d[j] = c[j - 1]
          BY <3>2
        <4>2. QED
          BY <4>1, <1>1, <1>5
      <3>3. QED
        BY <3>1, <3>2
    <2>2. ASSUME NEW x \in PoolBlocks \ owned' PROVE \E j \in 1 .. n + 1 : d[j] = x
      <3>1. CASE x = p
        <4>1. 1 \in 1 .. n + 1 /\ d[1] = x
          BY <3>1
        <4>2. QED
          BY <4>1
      <3>2. CASE x # p
        <4>1. PICK i \in 1 .. n : c[i] = x
          BY <3>2, <1>5, <1>b
        <4>2. i + 1 \in 1 .. n + 1 /\ i + 1 # 1 /\ (i + 1) - 1 = i
          OBVIOUS
        <4>3. d[i + 1] = x
          BY <4>1, <4>2
        <4>4. QED
          BY <4>2, <4>3
      <3>3. QED
        BY <3>1, <3>2
    <2> HIDE DEF d
    <2>3. QED
      BY <2>1, <2>2
  <1>9. pool'.free = IF n + 1 = 0 THEN NoBlock ELSE d[1]
    BY <1>4
  <1>10. ASSUME NEW j \in 1 .. n + 1
         PROVE  pool'.next[d[j]] = IF j = n + 1 THEN NoBlock ELSE d[j + 1]
    <2>1. CASE j = 1
      <3>1. pool'.next[d[j]] = IF n = 0 THEN NoBlock ELSE c[1]
        BY <2>1, <1>1, <1>4
      <3>2. n # 0 => d[j + 1] = c[1]
        BY <2>1
      <3>3. n = 0 <=> j = n + 1
        BY <2>1
      <3>4. QED
        BY <3>1, <3>2, <3>3
    <2>2. CASE j # 1
      <3>1. j - 1 \in 1 .. n /\ d[j] = c[j - 1] /\ (j = n + 1 <=> j - 1 = n)
        BY <2>2
      <3>2. c[j - 1] \in PoolBlocks \ owned
        BY <3>1, <1>b
      <3>3. pool'.next[c[j - 1]] = pool.next[c[j - 1]]
        BY <3>2, <1>4, <1>5
      <3>4. pool.next[c[j - 1]] = IF j - 1 = n THEN NoBlock ELSE c[(j - 1) + 1]
        BY <3>1, <1>1
      <3>5. j # n + 1 => d[j + 1] = c[(j - 1) + 1]
        BY <2>2
      <3>6. QED
        BY <3>1, <3>3, <3>4, <3>5
    <2>3. QED
      BY <2>1, <2>2
  <1> HIDE DEF d
  <1>11. PoolIsSound'
    BY <1>6, <1>7, <1>8, <1>9, <1>10, PoolFrom
  <1>12. QED
    BY <1>4, <1>5, <1>11

LEMMA MemInitInv == MemInit => MemInv
  <1> SUFFICES ASSUME MemInit PROVE MemInv
    OBVIOUS
  <1> DEFINE c == [j \in 1 .. PoolCount |-> j]
  <1>1. MmemSize \in Nat /\ PoolCount \in Nat /\ PoolCount # 0
    BY MemoryAssumption
  <1>2. mmemList = <<>> /\ mmemList \in Seq(Blocks) /\ Len(mmemList) = 0
    BY EmptySeq DEF MemInit
  <1>3. MmemInv
    BY <1>1, <1>2 DEF MmemInv, Sorted, Gapless, Filled, MemInit
  <1>4. MemTypeOK
    <2>1. memory \in [Offsets -> Blocks \cup {NoBlock}]
      BY DEF MemInit
    <2>2. mmem \in [Blocks -> [ptr : 0 .. MmemSize, size : BlockSizes \cup {0}]]
      BY <1>1 DEF MemInit
    <2>3. \A p \in PoolBlocks : p # PoolCount => p + 1 \in PoolBlocks
      BY <1>1 DEF PoolBlocks
    <2>4. pool \in [free : PoolBlocks \cup {NoBlock},
                    next : [PoolBlocks -> PoolBlocks \cup {NoBlock}]]
      BY <2>3, <1>1 DEF MemInit, PoolBlocks
    <2>5. QED
      BY <1>1, <1>2, <2>1, <2>2, <2>4 DEF MemTypeOK, MemInit
  <1>5. PoolIsSound
    <2>1. PoolBlocks \ owned = 1 .. PoolCount
      BY DEF MemInit, PoolBlocks
    <2>2. Cardinality(1 .. PoolCount) = PoolCount
      BY <1>1, FS_Interval
    <2>3. c \in [1 .. PoolCount -> PoolBlocks] /\ {c[j] : j \in 1 .. PoolCount} = 1 .. PoolCount
      BY DEF PoolBlocks
    <2>4. pool.free = IF PoolCount = 0 THEN NoBlock ELSE c[1]
      BY <1>1 DEF MemInit
    <2>5. ASSUME NEW j \in 1 .. PoolCount
          PROVE  pool.next[c[j]] = IF j = PoolCount THEN NoBlock ELSE c[j + 1]
      BY <1>1 DEF MemInit, PoolBlocks
    <2> HIDE DEF c
    <2>6. QED
      BY <2>1, <2>2, <2>3, <2>4, <2>5 DEF PoolIsSound, IsFreeList
  <1>6. QED
    BY <1>3, <1>4, <1>5 DEF MemInv

LEMMA MemInvStep == MemInv /\ [MemNext]_memVars => MemInv'
  <1> SUFFICES ASSUME MemInv, [MemNext]_memVars PROVE MemInv'
    OBVIOUS
  <1>1. ASSUME NEW b \in Blocks, NEW size \in BlockSizes, MmemAlloc(b, size) PROVE MemInv'
    <2>1. pool' = pool /\ owned' = owned
      BY <1>1 DEF MmemAlloc
    <2>2. MemTypeOK' /\ MmemInv'
      BY <1>1, AllocStep
    <2>3. QED
      BY <2>1, <2>2 DEF MemInv, PoolIsSound, IsFreeList
  <1>2. ASSUME NEW b \in Blocks, MmemFree(b) PROVE MemInv'
    <2>1. pool' = pool /\ owned' = owned
      BY <1>2 DEF MmemFree
    <2>2. MemTypeOK' /\ MmemInv'
      BY <1>2, FreeStep
    <2>3. QED
      BY <2>1, <2>2 DEF MemInv, PoolIsSound, IsFreeList
  <1>3. ASSUME pool' \in PoolT, owned' \subseteq PoolBlocks, PoolIsSound',
               UNCHANGED <<memory, mmemList, mmem, avail>>
        PROVE  MemInv'
    BY <1>3 DEF MemInv, MemTypeOK, MmemInv, PoolT
  <1>4. CASE MempoolAlloc
    BY <1>3, <1>4, PoolAllocStep DEF MempoolAlloc
  <1>5. ASSUME NEW p \in PoolBlocks, MempoolFree(p) PROVE MemInv'
    BY <1>3, <1>5, PoolFreeStep DEF MempoolFree
  <1>6. CASE UNCHANGED memVars
    BY <1>6 DEF memVars, MemInv, MemTypeOK, MmemInv, PoolIsSound, IsFreeList
  <1>7. QED
    BY <1>1, <1>2, <1>4, <1>5, <1>6 DEF MemNext

(* The allocators keep their types: a block never starts or ends outside the  *)
(* memory, what is free never becomes negative.                               *)
THEOREM MemoryTypesCorrect == MemSpec => []MemTypeOK
  <1>1. MemInv => MemTypeOK
    BY DEF MemInv
  <1>2. QED
    BY <1>1, MemInitInv, MemInvStep, PTL DEF MemSpec

(* Every owner finds his own bytes whatever was freed and moved, the blocks   *)
(* lie without a gap, and every block of the pool is held or on the free list *)
(* once.                                                                      *)
THEOREM BytesAreKept == MemSpec => []MemoryIsSound
  BY Sound, MemInitInv, MemInvStep, PTL DEF MemSpec

-----------------------------------------------------------------------------
(* The registers of the PC tool.                                             *)
Mails == [mask : {"free", "press", "repeat", "release"}, key : KeysOrNone]
Tools == [key : KeysOrNone, read : BOOLEAN]

\* MailTypeOK in two parts, the second of Booleans.
MailValues ==
  /\ heldKey \in KeysOrNone /\ lastKey \in KeysOrNone /\ reports \in 0 .. MaxReports
  /\ mail \in Mails /\ looping \in {"away", "found", "hit"} /\ tool \in Tools
MailFlags == release \in BOOLEAN /\ timedOut \in BOOLEAN

LEMMA MailTypesAre == MailTypeOK <=> MailValues /\ MailFlags
  BY DEF MailTypeOK, MailValues, MailFlags, Mails, Tools

LEMMA MailConstants == Free \in Mails /\ Released \in Mails /\ NoMailKey \in KeysOrNone
  BY DEF Free, Released, KeysOrNone, Mails

(* What the tool finds in the registers is a report, and the main loop stands *)
(* in one of its three places, whoever comes in between.                      *)
THEOREM MailTypesCorrect == MailSpec => []MailTypeOK
  <1>1. MailInit => MailTypeOK
    <2> SUFFICES ASSUME MailInit PROVE MailValues /\ MailFlags
      BY MailTypesAre
    <2>1. MailFlags
      BY DEF MailInit, MailFlags
    <2>2. MailValues
      BY MailConstants, MailboxAssumption DEF MailInit, MailValues, Tools
    <2>3. QED
      BY <2>1, <2>2
  <1>2. MailTypeOK /\ [MailNext]_mailVars => MailTypeOK'
    <2> SUFFICES ASSUME MailValues, MailFlags, [MailNext]_mailVars PROVE MailValues' /\ MailFlags'
      BY MailTypesAre, PTL
    <2>1. ASSUME NEW k \in KeysOrNone, ReportToPcTool(k) PROVE MailValues' /\ MailFlags'
      <3>1. MailFlags'
        BY <2>1 DEF MailFlags, ReportToPcTool, ReleaseReport, PressReport
      <3>2. mail' \in Mails
        <4>1. CASE k = NoMailKey
          BY <2>1, <4>1, MailConstants DEF MailValues, ReportToPcTool, ReleaseReport
        <4>2. CASE k # NoMailKey
          <5>1. mail' = mail \/ mail' = [mask |-> "repeat", key |-> k]
                \/ mail' = [mask |-> "press", key |-> k]
            BY <2>1, <4>2 DEF ReportToPcTool, PressReport
          <5>2. QED
            BY <5>1 DEF MailValues, Mails
        <4>3. QED
          BY <4>1, <4>2
      <3>3. reports' \in 0 .. MaxReports /\ heldKey' = k /\ lastKey' = k /\ tool' = tool
            /\ looping' \in {"away", "found", "hit"}
        BY <2>1, MailboxAssumption DEF MailValues, ReportToPcTool
      <3>4. QED
        BY <3>1, <3>2, <3>3 DEF MailValues
    <2>2. CASE TestMail \/ WriteRelease \/ ReleaseTimesOut
      <3>1. MailFlags'
        BY <2>2 DEF MailFlags, TestMail, WriteRelease, ReleaseTimesOut
      <3>2. MailValues'
        BY <2>2, MailConstants DEF MailValues, TestMail, WriteRelease, ReleaseTimesOut
      <3>3. QED
        BY <3>1, <3>2
    <2>3. CASE ToolRead \/ ToolClear
      <3>1. MailFlags'
        BY <2>3 DEF MailFlags, ToolRead, ToolClear
      <3>2. tool' \in Tools /\ mail' \in Mails
        <4>1. CASE ToolRead
          <5>1. tool' = [key |-> mail.key, read |-> TRUE] /\ mail' = mail
            BY <4>1 DEF ToolRead
          <5>2. mail.key \in KeysOrNone
            BY DEF MailValues, Mails
          <5>3. QED
            BY <5>1, <5>2 DEF MailValues, Tools
        <4>2. CASE ToolClear
          <5>1. tool' = [tool EXCEPT !.read = FALSE] /\ mail' = Free
            BY <4>2 DEF ToolClear
          <5>2. QED
            BY <5>1, MailConstants DEF MailValues, Tools
        <4>3. QED
          BY <2>3, <4>1, <4>2
      <3>3. QED
        BY <2>3, <3>1, <3>2 DEF MailValues, ToolRead, ToolClear
    <2>4. CASE UNCHANGED mailVars
      BY <2>4 DEF mailVars, MailValues, MailFlags
    <2>5. QED
      BY <2>1, <2>2, <2>3, <2>4 DEF MailNext
  <1>3. QED
    BY <1>1, <1>2, PTL DEF MailSpec

-----------------------------------------------------------------------------
(* The release of a key. *)

Unwritten == heldKey = NoMailKey /\ ~timedOut /\ (tool.key # NoMailKey \/ mail.key # NoMailKey)
UnderWay == release \/ looping # "away" \/ (mail = Released /\ ~tool.read)

(* What the tool reads it clears; nothing is written between the test of the  *)
(* main loop and its write but by the interrupt, and the release that it puts *)
(* there is not yet cleared if the tool still takes a key for down.           *)
MailInv ==
  /\ tool.read => ~IsFree
  /\ looping = "found" => IsFree
  /\ looping = "hit" /\ heldKey = NoMailKey =>
       mail.key = NoMailKey /\ (tool.key # NoMailKey => ~tool.read)
  /\ Unwritten => UnderWay

LEMMA MailReportStep ==
  ASSUME MailTypeOK, MailInv, NEW k \in KeysOrNone, ReportToPcTool(k)
  PROVE  MailInv'
  <1>1. /\ heldKey' = k /\ tool' = tool /\ looping # "hit"
        /\ looping' = IF looping = "found" THEN "hit" ELSE looping
    BY DEF ReportToPcTool
  <1>2. CASE k = NoMailKey
    <2>1. /\ ~timedOut'
          /\ IF IsFree THEN mail' = Released /\ release' = release
                       ELSE release' = TRUE /\ mail' = mail
      BY <1>2 DEF ReportToPcTool, ReleaseReport
    <2>2. CASE IsFree
      <3>1. mail' = Released /\ ~tool.read
        BY <2>1, <2>2 DEF MailInv
      <3>2. QED
        BY <1>1, <3>1 DEF MailInv, Unwritten, UnderWay, Released, IsFree
    <2>3. CASE ~IsFree
      BY <1>1, <2>1, <2>3 DEF MailInv, UnderWay, IsFree
    <2>4. QED
      BY <2>2, <2>3
  <1>3. CASE k # NoMailKey
    <2>1. IF IsFree THEN mail'.mask \in {"press", "repeat"} ELSE mail' = mail
      BY <1>3 DEF ReportToPcTool, PressReport
    <2>2. (tool.read => ~IsFree')
      BY <2>1 DEF MailInv, IsFree
    <2>3. looping' # "found"
      BY <1>1
    <2>4. QED
      BY <1>1, <1>3, <2>2, <2>3 DEF MailInv, Unwritten
  <1>4. QED
    BY <1>2, <1>3

LEMMA MailLoopStep ==
  ASSUME MailTypeOK, MailInv, TestMail \/ WriteRelease \/ ReleaseTimesOut
  PROVE  MailInv'
  <1>1. CASE TestMail
    BY <1>1 DEF TestMail, MailInv, UnderWay, IsFree
  <1>2. CASE WriteRelease
    <2>1. /\ looping \in {"found", "hit"} /\ looping' = "away" /\ mail' = Released
          /\ heldKey' = heldKey /\ tool' = tool
      BY <1>2 DEF WriteRelease, MailTypeOK
    <2>2. mail'.key = NoMailKey /\ ~IsFree'
      BY <2>1 DEF Released, IsFree
    <2>3. heldKey = NoMailKey /\ tool.key # NoMailKey => ~tool.read
      BY <2>1 DEF MailInv
    <2>4. Unwritten' => UnderWay'
      BY <2>1, <2>2, <2>3 DEF Unwritten, UnderWay
    <2>5. QED
      BY <2>1, <2>2, <2>4 DEF MailInv
  <1>3. CASE ReleaseTimesOut
    BY <1>3 DEF ReleaseTimesOut, MailInv, Unwritten, IsFree
  <1>4. QED
    BY <1>1, <1>2, <1>3

LEMMA MailToolStep ==
  ASSUME MailTypeOK, MailInv, ToolRead \/ ToolClear
  PROVE  MailInv'
  <1>1. /\ heldKey' = heldKey /\ looping' = looping /\ release' = release /\ timedOut' = timedOut
    BY DEF ToolRead, ToolClear
  <1>2. CASE ToolRead
    <2>1. ~IsFree /\ ~tool.read /\ tool'.key = mail.key /\ tool'.read /\ mail' = mail
      BY <1>2 DEF ToolRead
    <2>2. mail = Released => mail.key = NoMailKey
      BY DEF Released
    <2>3. Unwritten' => UnderWay'
      BY <1>1, <2>1, <2>2 DEF MailInv, Unwritten, UnderWay
    <2>4. QED
      BY <1>1, <2>1, <2>3 DEF MailInv, IsFree
  <1>3. CASE ToolClear
    <2>1. tool.read /\ mail' = Free /\ tool'.key = tool.key /\ ~tool'.read
      <3>1. tool.read /\ mail' = Free /\ tool' = [tool EXCEPT !.read = FALSE]
        BY <1>3 DEF ToolClear
      <3>2. tool \in [key : KeysOrNone, read : BOOLEAN]
        BY DEF MailTypeOK
      <3>3. QED
        BY <3>1, <3>2
    <2>2. mail'.key = NoMailKey /\ IsFree'
      BY <2>1 DEF Free, IsFree
    <2>3. Unwritten' => UnderWay'
      BY <1>1, <2>1, <2>2 DEF MailInv, Unwritten, UnderWay
    <2>4. QED
      BY <1>1, <2>1, <2>2, <2>3 DEF MailInv
  <1>4. QED
    BY <1>2, <1>3

(* A release is never lost on its way: while no key is held and the tool or   *)
(* the registers still have one, the release is pending, or is about to be    *)
(* written, or stands in the registers unread - unless the time-out gave it   *)
(* up - whoever comes between the main loop's test of the registers and its   *)
(* write (report_to_pc_tool and the end of main_loop, dongle.c).  It is why a *)
(* release reaches a tool that goes on reading.                               *)
THEOREM ReleaseIsUnderWay == MailSpec => [](Unwritten => UnderWay)
  <1>1. MailInit => MailInv
    BY DEF MailInit, MailInv, Unwritten, Free, IsFree
  <1>2. MailTypeOK /\ MailInv /\ [MailNext]_mailVars => MailInv'
    <2>1. SUFFICES ASSUME MailTypeOK, MailInv, [MailNext]_mailVars PROVE MailInv'
      OBVIOUS
    <2>2. ASSUME NEW k \in KeysOrNone, ReportToPcTool(k) PROVE MailInv'
      BY <2>1, <2>2, MailReportStep
    <2>3. CASE TestMail \/ WriteRelease \/ ReleaseTimesOut
      BY <2>1, <2>3, MailLoopStep
    <2>4. CASE ToolRead \/ ToolClear
      BY <2>1, <2>4, MailToolStep
    <2>5. CASE UNCHANGED mailVars
      BY <2>1, <2>5 DEF mailVars, MailInv, Unwritten, UnderWay, IsFree
    <2>6. QED
      BY <2>1, <2>2, <2>3, <2>4, <2>5 DEF MailNext
  <1>3. MailInv => (Unwritten => UnderWay)
    BY DEF MailInv
  <1>4. QED
    BY <1>1, <1>2, <1>3, MailTypesCorrect, PTL DEF MailSpec

-----------------------------------------------------------------------------
(* The parts together.  A step of one is a step or a stutter of each.        *)

LEMMA StepsOfParts ==
  ASSUME [Next]_vars
  PROVE  /\ [KeyNext]_keyVars /\ [VoiceNext]_voiceVars /\ [CodecNext]_codecVars
         /\ [MailNext]_mailVars /\ [CtlNext]_ctlVars /\ [MemNext]_memVars
  <1>1. CASE Keys
    BY <1>1 DEF Keys
  <1>2. CASE Voice
    BY <1>2 DEF Voice
  <1>3. CASE Codec
    BY <1>3 DEF Codec
  <1>4. CASE Mail
    BY <1>4 DEF Mail
  <1>5. CASE Usb
    BY <1>5 DEF Usb
  <1>6. CASE Memory
    BY <1>6 DEF Memory
  <1>7. CASE UNCHANGED vars
    BY <1>7 DEF vars
  <1>8. QED
    BY <1>1, <1>2, <1>3, <1>4, <1>5, <1>6, <1>7 DEF Next

(* A behaviour of the parts together is a behaviour of each: what is proved   *)
(* of the matrix driver, the microphone, the codec, the registers of the PC   *)
(* tool, the control endpoint and the allocators alone holds of them together. *)
THEOREM PartsKeepApart ==
  Spec => KeySpec /\ VoiceSpec /\ CodecSpec /\ MailSpec /\ CtlSpec /\ MemSpec
  <1>1. Init => KeyInit /\ VoiceInit /\ CodecInit /\ MailInit /\ CtlInit /\ MemInit
    BY DEF Init
  <1>2. [Next]_vars => /\ [KeyNext]_keyVars /\ [VoiceNext]_voiceVars /\ [CodecNext]_codecVars
                       /\ [MailNext]_mailVars /\ [CtlNext]_ctlVars /\ [MemNext]_memVars
    BY StepsOfParts
  <1>3. QED
    BY <1>1, <1>2, PTL DEF Spec, KeySpec, VoiceSpec, CodecSpec, MailSpec, CtlSpec, MemSpec

(* Every part keeps its types, the packet ring of the microphone never holds  *)
(* more packets than it has places, and what is free of the memory never      *)
(* becomes negative, whichever part runs.                                     *)
THEOREM PartsKeepTypes == Spec => []TypeOK
  BY PartsKeepApart, KeyTypesCorrect, VoiceTypesCorrect, CodecTypesCorrect, MailTypesCorrect,
     ControlTypesCorrect, MemoryTypesCorrect, PTL DEF TypeOK

(* What the runs check of the parts together, for every value of the          *)
(* constants: the decoder follows the encoder, a transfer that ended well was *)
(* carried out, the bytes stay with their owners, the matrices are queued and *)
(* the sound leaves in order.                                                 *)
THEOREM PartsAreSound ==
  Spec => /\ [](CodecFollows /\ DoneMeansDone /\ MemoryIsSound)
          /\ KeyRingIsLossyQueue /\ VoiceInOrder
  BY PartsKeepApart, DecoderFollows, DoneIsDone, BytesAreKept, MatricesAreQueued,
     SoundStaysInOrder, PTL
=============================================================================
