------------------------------ MODULE KeyScan ------------------------------
(***************************************************************************)
(* The matrix keyboard driver (proj/drivers/keyboard.c, keyboard.h) as the *)
(* remote control calls it: once with KB_NUMLOCK_STATUS_POWERON after deep *)
(* sleep and then from every turn of the main loop.                        *)
(*                                                                         *)
(* A key is <<scan line, drive pin>>.  A call first asks whether any scan  *)
(* line is active (kb_key_pressed), then reads the matrix row by row,      *)
(* filters it, pushes a changed matrix into a ring of four and returns the *)
(* oldest unread matrix.  The user presses and releases keys between any   *)
(* two of these steps; the GPIO unit latches a falling scan line.          *)
(***************************************************************************)
EXTENDS Integers, FiniteSets, Sequences

CONSTANTS
  KeyPositions,   \* the keys of the matrix, as <<scan line, drive pin>>
  ReleaseCnt,     \* calls that go on scanning after the last active line  (6)
  KeyMax,         \* KB_RETURN_KEY_MAX                                     (6)
  MaxChanges,     \* bound on presses and releases
  MaxHolds        \* bound on calls that do not read the ring

ASSUME KeyAssumption ==
  /\ KeyPositions \subseteq Nat \X Nat
  /\ ReleaseCnt \in Nat \ {0} /\ KeyMax \in Nat \ {0}
  /\ MaxChanges \in Nat /\ MaxHolds \in Nat

RingSize == 4
Matrices == SUBSET KeyPositions

\* How the driver is called.  "invalid" is KB_NUMLOCK_STATUS_INVALID, "peek" is
\* read_key = 0; the remote uses "poweron" and "read".
Modes == {"poweron", "read", "peek", "invalid"}

VARIABLES
  keysDown,    \* keys the user holds
  gpioIrq,     \* FLD_IRQ_GPIO_EN in reg_irq_src
  kbCall,      \* what the call looks at next, "lines" or "rows", and its mode
  kb,          \* the driver's static data, see KeyInit
  kbRing,      \* matrix_buff
  kbEvent,     \* the last matrix a call has read out of the ring, as kb_event
  slips,       \* history: presses between the lines, found idle, and the rows of a call
               \* since a call last found a line active
  keyBudget    \* changes and not reading calls left

keyVars == <<keysDown, gpioIrq, kbCall, kb, kbRing, kbEvent, slips, keyBudget>>

Idle == <<"idle", "none">>   \* the main loop is elsewhere

Lines(m) == {k[1] : k \in m}

KeyInit ==
  /\ keysDown = {} /\ gpioIrq = FALSE /\ kbCall = Idle
  /\ kb = [notReleased |-> FALSE, releaseCnt |-> 0, retLast |-> {}, need |-> {},
           pre |-> {}, last |-> {}, wptr |-> 0, rptr |-> 0, fresh |-> TRUE]
  /\ kbRing = [s \in 0 .. RingSize - 1 |-> {}] /\ kbEvent = {} /\ slips = 0
  /\ keyBudget = [changes |-> MaxChanges, holds |-> MaxHolds]

KeyTypeOK ==
  /\ keysDown \in Matrices /\ gpioIrq \in BOOLEAN /\ kbCall \in {Idle} \cup {"lines", "rows"} \X Modes
  /\ kb \in [notReleased : BOOLEAN, releaseCnt : 0 .. ReleaseCnt,
             retLast : SUBSET Lines(KeyPositions), need : SUBSET Lines(KeyPositions),
             pre : Matrices, last : Matrices,
             wptr : 0 .. 2 * RingSize - 1, rptr : 0 .. 2 * RingSize - 1, fresh : BOOLEAN]
  /\ kbRing \in [0 .. RingSize - 1 -> Matrices] /\ kbEvent \in Matrices /\ slips \in Nat
  /\ keyBudget \in [changes : 0 .. MaxChanges, holds : 0 .. MaxHolds]

-----------------------------------------------------------------------------
(* The user.  Only a line that was idle falls, so only then is the edge seen. *)

SpendChange ==
  keyBudget.changes > 0 /\ keyBudget' = [keyBudget EXCEPT !.changes = @ - 1]

KeyPress(k) ==
  /\ k \notin keysDown /\ SpendChange
  /\ keysDown' = keysDown \cup {k}
  /\ gpioIrq' = (gpioIrq \/ k[1] \notin Lines(keysDown))
  /\ slips' = IF kbCall[1] = "rows" /\ kb.releaseCnt < ReleaseCnt - 1 THEN slips + 1 ELSE slips
  /\ UNCHANGED <<kbCall, kb, kbRing, kbEvent>>

KeyRelease(k) ==
  /\ k \in keysDown /\ SpendChange
  /\ keysDown' = keysDown \ {k}
  /\ UNCHANGED <<gpioIrq, kbCall, kb, kbRing, kbEvent, slips>>

-----------------------------------------------------------------------------
(* kb_key_pressed: the active lines; for a while after the last of them the   *)
(* lines that were active then, so that the release is scanned as well.       *)
(* kb_scan_key stores them in scan_pin_need.                                  *)

\* Mutant: one more call after the last active line, where the filter needs two.
KbKeyPressedShort(s) ==
  LET lines == Lines(keysDown) IN
  [s EXCEPT !.releaseCnt = IF lines # {} THEN 1 ELSE 0,
            !.retLast = IF lines # {} THEN lines ELSE @,
            !.need = IF lines # {} \/ s.releaseCnt > 0 THEN s.retLast \cup lines ELSE {}]

KbKeyPressed(s) ==
  LET lines == Lines(keysDown)
      t == IF lines # {} THEN [s EXCEPT !.releaseCnt = ReleaseCnt, !.retLast = lines] ELSE s IN
  IF t.releaseCnt > 0 THEN [t EXCEPT !.releaseCnt = @ - 1, !.need = t.retLast]
                      ELSE [t EXCEPT !.need = {}]

CallAllowed(mode) ==
  CASE mode = "poweron" -> kb.fresh /\ keyBudget' = keyBudget
    [] mode = "read"    -> keyBudget' = keyBudget
    [] OTHER            -> keyBudget.holds > 0 /\ keyBudget' = [keyBudget EXCEPT !.holds = @ - 1]

\* kb_scan_key: nothing is scanned unless an edge was seen, a key has not been
\* released yet or the remote was just switched on.
KbScanKey(mode) ==
  LET wanted == mode = "poweron" \/ gpioIrq \/ kb.notReleased IN
  /\ kbCall = Idle /\ CallAllowed(mode)
  /\ kbCall' = IF wanted THEN <<"lines", mode>> ELSE Idle
  /\ kb' = [kb EXCEPT !.fresh = FALSE, !.notReleased = wanted]
  /\ gpioIrq' = FALSE
  /\ UNCHANGED <<keysDown, kbRing, kbEvent, slips>>

KbFindLines ==
  LET t == KbKeyPressed(kb) IN
  /\ kbCall[1] = "lines"
  /\ kbCall' = IF t.need # {} THEN <<"rows", kbCall[2]>> ELSE Idle
  /\ kb' = [t EXCEPT !.notReleased = t.need # {}]
  /\ slips' = IF keysDown # {} THEN 0 ELSE slips
  /\ UNCHANGED <<keysDown, gpioIrq, kbRing, kbEvent, keyBudget>>

-----------------------------------------------------------------------------
(* kb_scan_key_value. *)

\* The rows, read on the lines that were active at the beginning of the call.
Pressed == {k \in keysDown : k[1] \in kb.need}

\* key_debounce_filter: a key goes down or up when two scans in a row say so.
Debounce(raw) == ((kb.pre \cap raw) \ kb.last) \cup (kb.last \cap (kb.pre \cup raw))

\* Mutant: the read pointer is not pushed ahead of the write pointer.
PushedNoDrop(s) == [s EXCEPT !.wptr = (@ + 1) % (2 * RingSize)]

\* The pointers after a push: they count to twice the ring, an unread entry that
\* is overwritten is skipped.
Pushed(s) ==
  LET w == (s.wptr + 1) % (2 * RingSize) IN
  [s EXCEPT !.wptr = w,
            !.rptr = IF (w - @) % (2 * RingSize) > RingSize
                     THEN (w - RingSize) % (2 * RingSize) ELSE @]

\* kb_remap_key_code stops after KB_RETURN_KEY_MAX keys, drive pin by drive pin.
Before(j, k) == j[2] < k[2] \/ (j[2] = k[2] /\ j[1] < k[1])
Remap(m) == {k \in m : Cardinality({j \in m : Before(j, k)}) < KeyMax}

KbScanKeyValue ==
  LET raw == Pressed
      mode == kbCall[2]
      cur == IF mode = "poweron" THEN raw ELSE Debounce(raw)
      s == [kb EXCEPT !.pre = raw, !.last = cur]
      t == IF cur # kb.last THEN Pushed(s) ELSE s
      ring == IF cur # kb.last THEN [kbRing EXCEPT ![kb.wptr % RingSize] = cur] ELSE kbRing IN
  /\ kbCall[1] = "rows" /\ kbCall' = Idle
  /\ kbRing' = ring
  /\ IF mode \in {"invalid", "peek"} \/ t.wptr = t.rptr
       THEN kb' = t /\ UNCHANGED kbEvent
       ELSE /\ kb' = [t EXCEPT !.rptr = (@ + 1) % (2 * RingSize)]
            /\ kbEvent' = Remap(ring[t.rptr % RingSize])
  /\ UNCHANGED <<keysDown, gpioIrq, slips, keyBudget>>

-----------------------------------------------------------------------------
KeyUser == \E k \in KeyPositions : KeyPress(k) \/ KeyRelease(k)

KeyNext == KeyUser \/ (\E mode \in Modes : KbScanKey(mode)) \/ KbFindLines \/ KbScanKeyValue

\* The main loop never stops calling the driver, in the end only to read.
KeyFair == WF_keyVars(KbScanKey("read")) /\ WF_keyVars(KbFindLines) /\ WF_keyVars(KbScanKeyValue)

KeySpec == KeyInit /\ [][KeyNext]_keyVars
KeyFairSpec == KeySpec /\ KeyFair
-----------------------------------------------------------------------------
\* The matrix the driver has recorded last.
Newest == kbRing[(kb.wptr - 1) % RingSize]

\* Unread matrices, the oldest first.
Unread == [j \in 1 .. (kb.wptr - kb.rptr) % (2 * RingSize) |->
             kbRing[(kb.rptr + j - 1) % RingSize]]

(* No press and no release is lost for good, although scanning stops when no  *)
(* line is active, is restarted by an edge only and filters what it reads:    *)
(* once the user holds still, the last matrix the driver recorded is the one  *)
(* he holds, and a caller that always reads has got it - unless a key went    *)
(* down, twice since a call last found it down, just after the lines were     *)
(* found idle and before the rows were read, and up again before the next     *)
(* call: six calls are too few to see two scans without it.                   *)
KeysSettle ==
  <>[](slips <= 1 =>
         /\ Newest = keysDown
         /\ keyBudget.holds = MaxHolds => kbEvent = Remap(keysDown))

(* The ring of four with pointers that count to eight is a queue that drops   *)
(* its oldest entry: the caller gets what it can of each matrix, at most      *)
(* KeyMax keys, in the order of the scans and never twice, also when the      *)
(* scans are not read for a while.                                            *)
KeyQueue == INSTANCE LossyQueue
  WITH Items <- Matrices, Capacity <- RingSize, got <- kbEvent,
       queue <- [j \in DOMAIN Unread |-> Remap(Unread[j])]
KeyRingIsLossyQueue == KeyQueue!Spec
=============================================================================
