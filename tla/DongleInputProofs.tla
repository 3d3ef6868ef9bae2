------------------------- MODULE DongleInputProofs -------------------------
(* Proofs about DongleInput, for every set of keys, every size of the mouse     *)
(* ring, any number of reports, resets and suspends, and the radio interrupt at *)
(* any step of the main loop.                                                   *)
EXTENDS DongleInput, TLAPS

\* An endpoint holds reports of the kinds that go there.
EndpointKinds == \A e \in {"kb", "mouse"} : \A r \in ep[e] : Endpoint(r.kind) = e

\* What the interrupt does to a task that is under way is in raced: every mark it sets,
\* everything it puts into the endpoint the task has found free; and until that
\* endpoint is filled, a press among it has its mark or its release.
RacedInv ==
  /\ \A r \in raced : r.kind \in Classes
  /\ stage = "test" => raced = {}
  /\ stage # "test" => not_released \ saved \subseteq Presses(raced)
  /\ stage = "fill" => /\ ep[Endpoint(KindOf(pc))] \subseteq raced
                       /\ Presses(raced) \subseteq not_released \cup Releases(raced)

\* Only keys are released with BM_CLR, and only a frame carries a button.
StageInv ==
  /\ stage = "load" => pc \in Classes
  /\ stage # "test" /\ pc # "frame" => data = "zero"

\* A release that is in the endpoint is still there while its mark is being cleared,
\* unless the PC has it, it slipped, or a new press of its kind came in between.
SentInv ==
  /\ stage \in {"load", "store"} /\ ~Pressed(Outgoing)
  /\ KindOf(pc) \notin slipped \cup Presses(raced)
  /\ PressedAtPc(KindOf(pc))
  => ReleaseQueued(KindOf(pc))

IInv == TypeOK /\ EndpointKinds /\ RacedInv /\ StageInv /\ SentInv /\ PressedIsTracked

-----------------------------------------------------------------------------
(* What the two endpoints carry. *)
LEMMA ReportTypes ==
  /\ \A c \in Classes : \A k \in KeysOf(c) \cup {NoKey} : Report(c, k) \in Reports
  /\ \A d \in MouseData : Report("mouse", d) \in Reports
  /\ \A r \in Reports : \/ r.kind \in Classes /\ r.val \in KeysOf(r.kind) \cup {NoKey}
                        \/ r.kind = "mouse" /\ r.val \in MouseData
  <1>1. \A c \in Classes : \A k \in KeysOf(c) \cup {NoKey} : Report(c, k) \in Reports
    BY DEF Reports
  <1>2. \A d \in MouseData : Report("mouse", d) \in Reports
    BY DEF Reports
  <1>3. ASSUME NEW r \in Reports
        PROVE  \/ r.kind \in Classes /\ r.val \in KeysOf(r.kind) \cup {NoKey}
               \/ r.kind = "mouse" /\ r.val \in MouseData
    <2>1. CASE \E c \in Classes : \E k \in KeysOf(c) \cup {NoKey} : r = Report(c, k)
      BY <2>1 DEF Report
    <2>2. CASE \E d \in MouseData : r = Report("mouse", d)
      BY <2>2 DEF Report
    <2>3. QED
      BY <2>1, <2>2 DEF Reports
  <1>4. QED
    BY <1>1, <1>2, <1>3

\* The state the radio interrupt works on.
Shared == [nr : SUBSET Classes, ep : [{"kb", "mouse"} -> SUBSET Reports]]

LEMMA EndpointType == \A k \in Kinds : Endpoint(k) \in {"kb", "mouse"}
  BY DEF Endpoint

(* One class of a report is handled within the types. *)
LEMMA ReportClassType ==
  ASSUME NEW s \in Shared, NEW c \in Classes, NEW k \in Keys \cup {NoKey}
  PROVE  ReportClass(s, c, k) \in Shared
  <1>1. s.nr \in SUBSET Classes /\ s.ep \in [{"kb", "mouse"} -> SUBSET Reports]
    BY DEF Shared
  <1>2. Report(c, NoKey) \in Reports /\ Endpoint(c) \in {"kb", "mouse"}
    BY ReportTypes, EndpointType DEF Kinds
  <1>3. PressClass(s, c, k) \in Shared \/ k \notin KeysOf(c)
    <2>1. CASE k \in KeysOf(c)
      <3>1. Report(c, k) \in Reports
        BY <2>1, ReportTypes
      <3>2. [s.ep EXCEPT ![Endpoint(c)] = {Report(c, k)}] \in [{"kb", "mouse"} -> SUBSET Reports]
        BY <1>1, <1>2, <3>1
      <3>3. QED
        BY <1>1, <3>2 DEF PressClass, Shared
    <2>2. QED
      BY <2>1
  <1>4. ReleaseClass(s, c) \in Shared
    <2>1. [s.ep EXCEPT ![Endpoint(c)] = {Report(c, NoKey)}] \in [{"kb", "mouse"} -> SUBSET Reports]
      BY <1>1, <1>2
    <2>2. QED
      BY <1>1, <2>1 DEF ReleaseClass, Shared
  <1>5. QED
    BY <1>3, <1>4 DEF ReportClass

\* The parts of the type invariant.
WordsOK == not_released \subseteq Classes /\ saved \subseteq Classes /\ last \in Keys \cup {NoKey}
           /\ due \subseteq {"kb", "mouse"} /\ pc \in Tasks /\ slipped \subseteq Kinds
RingOK  == ring \in [0 .. RingSize - 1 -> MouseData] /\ data \in MouseData
           /\ wptr \in 0 .. RingSize - 1 /\ rptr \in 0 .. RingSize - 1
FlagsOK == mouse_held \in BOOLEAN /\ suspended \in BOOLEAN
           /\ stage \in {"test", "fill", "load", "store"}
EpOK    == ep \in [{"kb", "mouse"} -> SUBSET Reports] /\ raced \subseteq Reports
HostOK  == host \in [normal : NormalKeys \cup {NoKey}, sys : SysKeys \cup {NoKey},
                     media : MediaKeys \cup {NoKey}, mouse : MouseData]

LEMMA TypeParts == TypeOK <=> WordsOK /\ RingOK /\ FlagsOK /\ EpOK /\ HostOK
  BY DEF TypeOK, WordsOK, RingOK, FlagsOK, EpOK, HostOK

LEMMA NextSlotType == \A p \in 0 .. RingSize - 1 : NextSlot(p) \in 0 .. RingSize - 1
  BY InputAssumption DEF NextSlot

\* What the radio interrupt leaves behind, after all three classes.
Handled(k) ==
  ReportClass(ReportClass(ReportClass([nr |-> not_released, ep |-> ep], "normal", k), "sys", k),
              "media", k)

LEMMA HandledType ==
  ASSUME TypeOK, NEW k \in Keys \cup {NoKey}
  PROVE  Handled(k) \in Shared
  <1>1. [nr |-> not_released, ep |-> ep] \in Shared
    BY DEF TypeOK, Shared
  <1>2. {"normal", "sys", "media"} = Classes
    BY DEF Classes
  <1>3. ReportClass([nr |-> not_released, ep |-> ep], "normal", k) \in Shared
    BY <1>1, <1>2, ReportClassType
  <1>4. ReportClass(ReportClass([nr |-> not_released, ep |-> ep], "normal", k), "sys", k) \in Shared
    BY <1>2, <1>3, ReportClassType
  <1>5. QED
    BY <1>2, <1>4, ReportClassType DEF Handled

LEMMA KindOfType == KindOf(pc) \in Kinds /\ Endpoint(KindOf(pc)) \in {"kb", "mouse"}
  BY EndpointType DEF KindOf, Kinds

LEMMA OutgoingType == TypeOK => Outgoing \in Reports /\ Outgoing.kind = KindOf(pc)
  <1> SUFFICES ASSUME TypeOK PROVE Outgoing \in Reports /\ Outgoing.kind = KindOf(pc)
    OBVIOUS
  <1>1. CASE pc \in Classes
    BY <1>1, ReportTypes DEF Outgoing, KindOf, Report
  <1>2. CASE pc \notin Classes
    <2>1. data \in MouseData /\ Outgoing = Report("mouse", data)
      BY <1>2 DEF TypeOK, Outgoing, KindOf
    <2>2. QED
      BY <1>2, <2>1, ReportTypes DEF KindOf, Report
  <1>3. QED
    BY <1>1, <1>2

-----------------------------------------------------------------------------
(* What the interrupt does.  t is what handling the classes C of a report has     *)
(* made of s: an endpoint is only written when it is free, and a class only        *)
(* changes its mark along with a report of its own that says so.                   *)
Worked(s, t, C) ==
  /\ \A e \in {"kb", "mouse"} :
       \/ t.ep[e] = s.ep[e]
       \/ /\ s.ep[e] = {}
          /\ \E q \in Reports : /\ t.ep[e] = {q} /\ q.kind \in C /\ Endpoint(q.kind) = e
                                /\ Pressed(q) <=> q.kind \in t.nr
  /\ \A c \in Classes :
       \/ c \in s.nr <=> c \in t.nr
       \/ c \in C /\ s.ep[Endpoint(c)] = {} /\ \E q \in Reports : t.ep[Endpoint(c)] = {q} /\ q.kind = c

LEMMA ReportClassWorked ==
  ASSUME NEW s, NEW t \in Shared, NEW C \in SUBSET Classes, Worked(s, t, C),
         NEW c \in Classes \ C, NEW k \in Keys \cup {NoKey}
  PROVE  Worked(s, ReportClass(t, c, k), C \cup {c})
  <1> DEFINE u == ReportClass(t, c, k)
  <1>1. t.ep \in [{"kb", "mouse"} -> SUBSET Reports] /\ Endpoint(c) \in {"kb", "mouse"}
        /\ t.nr \subseteq Classes
    BY EndpointType DEF Shared, Kinds
  <1>2. CASE u = t
    <2>1. \A e \in {"kb", "mouse"} :
            \/ t.ep[e] = s.ep[e]
            \/ /\ s.ep[e] = {}
               /\ \E q \in Reports : /\ t.ep[e] = {q} /\ q.kind \in C \cup {c} /\ Endpoint(q.kind) = e
                                     /\ Pressed(q) <=> q.kind \in t.nr
      BY DEF Worked
    <2>2. \A d \in Classes :
            \/ d \in s.nr <=> d \in t.nr
            \/ /\ d \in C \cup {c} /\ s.ep[Endpoint(d)] = {}
               /\ \E q \in Reports : t.ep[Endpoint(d)] = {q} /\ q.kind = d
      BY DEF Worked
    <2>3. QED
      BY <1>2, <2>1, <2>2 DEF Worked
  <1>3. CASE u # t
    <2>1. PICK q \in Reports : /\ q.kind = c
                               /\ u.ep = [t.ep EXCEPT ![Endpoint(c)] = {q}]
                               /\ t.ep[Endpoint(c)] = {}
                               /\ Pressed(q) <=> c \in u.nr
                               /\ \A d \in Classes \ {c} : d \in u.nr <=> d \in t.nr
      <3>1. CASE k \in KeysOf(c)
        <4> DEFINE q == Report(c, k)
        <4>1. q \in Reports /\ q.kind = c
          BY <3>1, ReportTypes DEF Report
        <4>2. Free(t, c) /\ u = [nr |-> t.nr \cup {c}, ep |-> [t.ep EXCEPT ![Endpoint(c)] = {q}]]
          BY <1>3, <3>1 DEF ReportClass, PressClass
        <4>3. k # NoKey /\ c # "mouse"
          BY <3>1, InputAssumption DEF KeysOf, Classes, Keys
        <4>4. Pressed(q)
          BY <4>3 DEF Pressed, Report
        <4> HIDE DEF q
        <4>5. u.nr = t.nr \cup {c} /\ u.ep = [t.ep EXCEPT ![Endpoint(c)] = {q}]
          BY <4>2
        <4>6. t.ep[Endpoint(c)] = {}
          BY <4>2 DEF Free
        <4> HIDE DEF u
        <4>7. (Pressed(q) <=> c \in u.nr) /\ \A d \in Classes \ {c} : d \in u.nr <=> d \in t.nr
          BY <4>4, <4>5
        <4>8. QED
          BY <4>1, <4>5, <4>6, <4>7
      <3>2. CASE k \notin KeysOf(c)
        <4> DEFINE q == Report(c, NoKey)
        <4>1. q \in Reports /\ q.kind = c
          BY ReportTypes DEF Report
        <4>2. Free(t, c) /\ u = [nr |-> t.nr \ {c}, ep |-> [t.ep EXCEPT ![Endpoint(c)] = {q}]]
          BY <1>3, <3>2 DEF ReportClass, ReleaseClass
        <4>3. ~Pressed(q)
          BY DEF Pressed, Report, Classes
        <4> HIDE DEF q
        <4>4. u.nr = t.nr \ {c} /\ u.ep = [t.ep EXCEPT ![Endpoint(c)] = {q}]
          BY <4>2
        <4>5. t.ep[Endpoint(c)] = {}
          BY <4>2 DEF Free
        <4> HIDE DEF u
        <4>6. (Pressed(q) <=> c \in u.nr) /\ \A d \in Classes \ {c} : d \in u.nr <=> d \in t.nr
          BY <4>3, <4>4
        <4>7. QED
          BY <4>1, <4>4, <4>5, <4>6
      <3>3. QED
        BY <3>1, <3>2
    <2>2. u.ep[Endpoint(c)] = {q} /\ \A e \in {"kb", "mouse"} : e # Endpoint(c) => u.ep[e] = t.ep[e]
      BY <1>1, <2>1
    <2> HIDE DEF u
    <2>3. s.ep[Endpoint(c)] = {}
      <3>1. \/ t.ep[Endpoint(c)] = s.ep[Endpoint(c)]
            \/ \E p \in Reports : t.ep[Endpoint(c)] = {p}
        BY <1>1 DEF Worked
      <3>2. QED
        BY <2>1, <3>1
    <2>4. ASSUME NEW e \in {"kb", "mouse"}, u.ep[e] # s.ep[e]
          PROVE  /\ s.ep[e] = {}
                 /\ \E p \in Reports : /\ u.ep[e] = {p} /\ p.kind \in C \cup {c} /\ Endpoint(p.kind) = e
                                       /\ Pressed(p) <=> p.kind \in u.nr
      <3>1. CASE e = Endpoint(c)
        BY <2>1, <2>2, <2>3, <3>1
      <3>2. CASE e # Endpoint(c)
        <4>1. u.ep[e] = t.ep[e]
          BY <2>2, <3>2
        <4>2. /\ s.ep[e] = {}
              /\ \E p \in Reports : /\ t.ep[e] = {p} /\ p.kind \in C /\ Endpoint(p.kind) = e
                                    /\ Pressed(p) <=> p.kind \in t.nr
          BY <2>4, <4>1 DEF Worked
        <4>3. PICK p \in Reports : /\ t.ep[e] = {p} /\ p.kind \in C /\ Endpoint(p.kind) = e
                                   /\ Pressed(p) <=> p.kind \in t.nr
          BY <4>2
        <4>4. p.kind \in Classes \ {c}
          BY <4>3
        <4>5. Pressed(p) <=> p.kind \in u.nr
          BY <2>1, <4>3, <4>4
        <4>6. QED
          BY <4>1, <4>2, <4>3, <4>5
      <3>3. QED
        BY <3>1, <3>2
    <2>5. ASSUME NEW d \in Classes, ~(d \in s.nr <=> d \in u.nr)
          PROVE  /\ d \in C \cup {c} /\ s.ep[Endpoint(d)] = {}
                 /\ \E p \in Reports : u.ep[Endpoint(d)] = {p} /\ p.kind = d
      <3>1. CASE d = c
        BY <2>1, <2>2, <2>3, <3>1
      <3>2. CASE d # c
        <4>1. d \in C /\ s.ep[Endpoint(d)] = {} /\ \E p \in Reports : t.ep[Endpoint(d)] = {p} /\ p.kind = d
          BY <2>1, <2>5, <3>2 DEF Worked
        <4>2. Endpoint(d) # Endpoint(c) /\ Endpoint(d) \in {"kb", "mouse"}
          BY <2>1, <4>1, EndpointType DEF Kinds
        <4>3. u.ep[Endpoint(d)] = t.ep[Endpoint(d)]
          BY <2>2, <4>2
        <4>4. QED
          BY <4>1, <4>3
      <3>3. QED
        BY <3>1, <3>2
    <2>6. Worked(s, u, C \cup {c})
      BY <2>4, <2>5 DEF Worked
    <2>7. QED
      BY <2>6 DEF u
  <1>4. QED
    BY <1>2, <1>3

LEMMA HandledWorked ==
  ASSUME TypeOK, NEW k \in Keys \cup {NoKey}
  PROVE  Worked([nr |-> not_released, ep |-> ep], Handled(k), Classes)
  <1> DEFINE s0 == [nr |-> not_released, ep |-> ep]
             s1 == ReportClass(s0, "normal", k)
             s2 == ReportClass(s1, "sys", k)
  <1>1. s0 \in Shared /\ Worked(s0, s0, {})
    BY DEF TypeOK, Shared, Worked
  <1>2. {"normal", "sys", "media"} = Classes
    BY DEF Classes
  <1> HIDE DEF s0
  <1>3. s1 \in Shared /\ Worked(s0, s1, {"normal"})
    <2>1. {} \in SUBSET Classes /\ "normal" \in Classes \ {} /\ {} \cup {"normal"} = {"normal"}
      BY <1>2
    <2>2. Worked(s0, s1, {} \cup {"normal"})
      BY <1>1, <2>1, ReportClassWorked
    <2>3. QED
      BY <1>1, <2>1, <2>2, ReportClassType
  <1> HIDE DEF s1
  <1>4. s2 \in Shared /\ Worked(s0, s2, {"normal", "sys"})
    <2>1. /\ {"normal"} \in SUBSET Classes /\ "sys" \in Classes \ {"normal"}
          /\ {"normal"} \cup {"sys"} = {"normal", "sys"}
      BY <1>2
    <2>2. Worked(s0, s2, {"normal"} \cup {"sys"})
      BY <1>3, <2>1, ReportClassWorked
    <2>3. QED
      BY <1>3, <2>1, <2>2, ReportClassType
  <1> HIDE DEF s2
  <1>5. Worked(s0, ReportClass(s2, "media", k), Classes)
    <2>1. /\ {"normal", "sys"} \in SUBSET Classes /\ "media" \in Classes \ {"normal", "sys"}
          /\ {"normal", "sys"} \cup {"media"} = Classes
      BY <1>2
    <2>2. Worked(s0, ReportClass(s2, "media", k), {"normal", "sys"} \cup {"media"})
      BY <1>4, <2>1, ReportClassWorked
    <2>3. QED
      BY <2>1, <2>2
  <1>6. QED
    BY <1>5 DEF Handled, s0, s1, s2

(* What a keyboard report of the remote does, said with what it has queued. *)
LEMMA KeyboardEffect ==
  ASSUME TypeOK, NEW k \in Keys \cup {NoKey}, AttKeyboard(k)
  PROVE  /\ not_released' \subseteq Classes /\ ep' \in [{"kb", "mouse"} -> SUBSET Reports]
         /\ \A q \in Queued : /\ q \in Reports /\ q.kind \in Classes
                              /\ q \in ep'[Endpoint(q.kind)]
                              /\ Pressed(q) <=> q.kind \in not_released'
         /\ \A e \in {"kb", "mouse"} : /\ ep[e] \subseteq ep'[e]
                                       /\ ep'[e] \subseteq ep[e] \cup {q \in Queued : Endpoint(q.kind) = e}
         /\ not_released' \ not_released \subseteq Presses(Queued)
         /\ not_released \ not_released' \subseteq Releases(Queued)
  <1> DEFINE s == [nr |-> not_released, ep |-> ep]
             t == [nr |-> not_released', ep |-> ep']
  <1>1. t \in Shared /\ Worked(s, t, Classes)
    <2>1. CASE Repeats(k)
      <3>1. UNCHANGED <<not_released, ep>>
        BY <2>1 DEF AttKeyboard
      <3>2. QED
        BY <3>1 DEF Shared, Worked, TypeOK
    <2>2. CASE ~Repeats(k)
      <3>1. not_released' = Handled(k).nr /\ ep' = Handled(k).ep
        BY <2>2 DEF AttKeyboard, Handled
      <3>2. Handled(k) \in Shared /\ Worked(s, Handled(k), Classes)
        BY HandledType, HandledWorked
      <3>3. QED
        BY <3>1, <3>2 DEF Shared, Worked
    <2>3. QED
      BY <2>1, <2>2
  <1>2. not_released' \subseteq Classes /\ ep' \in [{"kb", "mouse"} -> SUBSET Reports]
    BY <1>1 DEF Shared
  <1>3. ASSUME NEW e \in {"kb", "mouse"}
        PROVE  \/ ep'[e] = ep[e]
               \/ /\ ep[e] = {}
                  /\ \E q \in Reports : /\ ep'[e] = {q} /\ q.kind \in Classes /\ Endpoint(q.kind) = e
                                        /\ Pressed(q) <=> q.kind \in not_released'
    BY <1>1 DEF Worked
  <1>4. ASSUME NEW c \in Classes, ~(c \in not_released <=> c \in not_released')
        PROVE  ep[Endpoint(c)] = {} /\ \E q \in Reports : ep'[Endpoint(c)] = {q} /\ q.kind = c
    BY <1>1, <1>4 DEF Worked
  <1>5. Queued = (ep'["kb"] \ ep["kb"]) \cup (ep'["mouse"] \ ep["mouse"])
    BY DEF Queued
  <1>6. \A q \in Queued : /\ q \in Reports /\ q.kind \in Classes
                          /\ q \in ep'[Endpoint(q.kind)]
                          /\ Pressed(q) <=> q.kind \in not_released'
    <2>1. SUFFICES ASSUME NEW e \in {"kb", "mouse"}, NEW q \in ep'[e] \ ep[e]
                   PROVE  /\ q \in Reports /\ q.kind \in Classes
                          /\ q \in ep'[Endpoint(q.kind)]
                          /\ Pressed(q) <=> q.kind \in not_released'
      BY <1>5
    <2>2. PICK p \in Reports : /\ ep'[e] = {p} /\ p.kind \in Classes /\ Endpoint(p.kind) = e
                               /\ Pressed(p) <=> p.kind \in not_released'
      BY <1>3
    <2>3. q = p
      BY <2>2
    <2>4. QED
      BY <2>2, <2>3
  <1>7. ASSUME NEW e \in {"kb", "mouse"}
        PROVE  /\ ep[e] \subseteq ep'[e]
               /\ ep'[e] \subseteq ep[e] \cup {q \in Queued : Endpoint(q.kind) = e}
    <2>1. CASE ep'[e] = ep[e]
      BY <2>1
    <2>2. CASE ep'[e] # ep[e]
      <3>1. PICK p \in Reports : ep[e] = {} /\ ep'[e] = {p} /\ Endpoint(p.kind) = e
        BY <1>3, <2>2
      <3>2. p \in Queued
        BY <1>5, <3>1
      <3>3. QED
        BY <3>1, <3>2
    <2>3. QED
      BY <2>1, <2>2
  <1>8. ASSUME NEW c \in Classes, ~(c \in not_released <=> c \in not_released')
        PROVE  \E q \in Queued : q.kind = c /\ (Pressed(q) <=> c \in not_released')
    <2>1. PICK q \in Reports : ep[Endpoint(c)] = {} /\ ep'[Endpoint(c)] = {q} /\ q.kind = c
      BY <1>4, <1>8
    <2>2. Endpoint(c) \in {"kb", "mouse"}
      BY EndpointType DEF Kinds
    <2>3. q \in Queued
      BY <1>5, <2>1, <2>2
    <2>4. QED
      BY <1>6, <2>1, <2>3
  <1>9. not_released' \ not_released \subseteq Presses(Queued)
    <2>1. SUFFICES ASSUME NEW c \in not_released' \ not_released PROVE c \in Presses(Queued)
      OBVIOUS
    <2>2. PICK q \in Queued : q.kind = c /\ Pressed(q)
      BY <1>2, <1>8
    <2>3. QED
      BY <2>2 DEF Presses
  <1>10. not_released \ not_released' \subseteq Releases(Queued)
    <2>1. SUFFICES ASSUME NEW c \in not_released \ not_released' PROVE c \in Releases(Queued)
      OBVIOUS
    <2>2. c \in Classes
      BY DEF TypeOK
    <2>3. PICK q \in Queued : q.kind = c /\ ~Pressed(q)
      BY <1>8, <2>2
    <2>4. QED
      BY <2>3 DEF Releases
  <1>11. QED
    BY <1>2, <1>6, <1>7, <1>9, <1>10

(* Every step preserves the types. *)
LEMMA TypeStep == ASSUME TypeOK, [Next]_vars PROVE TypeOK'
  <1>0. WordsOK /\ RingOK /\ FlagsOK /\ EpOK /\ HostOK
    BY TypeParts
  <1>1. ASSUME NEW k \in Keys \cup {NoKey}, AttKeyboard(k)
        PROVE  not_released' \subseteq Classes /\ EpOK'
    <2>1. not_released' \subseteq Classes /\ ep' \in [{"kb", "mouse"} -> SUBSET Reports]
          /\ Queued \subseteq Reports
      BY <1>1, KeyboardEffect
    <2>2. raced' \subseteq Reports
      BY <1>0, <1>1, <2>1 DEF AttKeyboard, NoteRace, EpOK
    <2>3. QED
      BY <2>1, <2>2 DEF EpOK
  <1>2. WordsOK'
    <2>1. CASE \E k \in Keys \cup {NoKey} : AttKeyboard(k)
      <3>1. PICK k \in Keys \cup {NoKey} : AttKeyboard(k)
        BY <2>1
      <3>2. not_released' \subseteq Classes
        BY <1>1, <3>1
      <3>3. slipped' \subseteq Kinds
        BY <1>0, <3>1 DEF AttKeyboard, NoteRace, WordsOK
      <3>4. QED
        BY <1>0, <3>1, <3>2, <3>3 DEF AttKeyboard, WordsOK, main
    <2>2. CASE Store
      <3>1. After(pc) \in Tasks
        BY <1>0 DEF WordsOK, Tasks, After
      <3>2. not_released' \subseteq Classes /\ due' \subseteq {"kb", "mouse"}
        BY <1>0, <2>2 DEF WordsOK, Store, StoreFrame, StoreMouseRelease, StoreKeyRelease
      <3>3. slipped' \subseteq Kinds
        <4>1. CASE StoreKeyRelease
          <5>1. \A q \in Reports : q.kind \in Kinds
            BY ReportTypes DEF Kinds
          <5>2. Presses(raced) \subseteq Kinds
            BY <1>0, <5>1 DEF Presses, EpOK
          <5>3. QED
            BY <1>0, <4>1, <5>2 DEF WordsOK, StoreKeyRelease
        <4>2. CASE ~StoreKeyRelease
          BY <1>0, <2>2, <4>2 DEF WordsOK, Store, StoreFrame, StoreMouseRelease
        <4>3. QED
          BY <4>1, <4>2
      <3>4. QED
        BY <1>0, <2>2, <3>1, <3>2, <3>3 DEF WordsOK, Store
    <2>3. CASE SetProtocol \/ \E e \in {"kb", "mouse"} : Poll(e)
      <3>1. PICK e \in {"kb", "mouse"} : slipped' \subseteq slipped \cup Releases(ep[e])
        BY <2>3 DEF SetProtocol, Poll, Releases
      <3>2. \A q \in Reports : q.kind \in Kinds
        BY ReportTypes DEF Kinds
      <3>3. Releases(ep[e]) \subseteq Kinds
        BY <1>0, <3>2 DEF Releases, EpOK
      <3>4. UNCHANGED <<not_released, saved, last, due, pc>>
        BY <2>3 DEF SetProtocol, Poll, main
      <3>5. QED
        BY <1>0, <3>1, <3>3, <3>4 DEF WordsOK
    <2>4. CASE Test \/ Busy \/ Nil \/ Fill \/ Load
      <3>1. \A t \in Tasks : After(t) \in Tasks /\ Skipped(t) \in Tasks
        BY DEF Tasks, After, Skipped
      <3>2. QED
        BY <1>0, <2>4, <3>1 DEF WordsOK, Test, Busy, Nil, Fill, Load, races
    <2>5. CASE \/ (\E d \in MouseData : AttMouse(d)) \/ UsbReset \/ Suspend \/ Resume
               \/ (\E t \in {"kb", "mouse"} : TimePasses(t)) \/ UNCHANGED vars
      BY <1>0, <2>5 DEF WordsOK, AttMouse, UsbReset, Suspend, Resume, TimePasses, vars, main, races
    <2>6. QED
      BY <2>1, <2>2, <2>3, <2>4, <2>5 DEF Next, Interrupt, MainLoop
  <1>3. RingOK'
    <2>1. CASE Store
      BY <1>0, <2>1, NextSlotType DEF RingOK, Store, StoreFrame, StoreMouseRelease,
         StoreKeyRelease, MouseData
    <2>2. CASE Test
      BY <1>0, <2>2 DEF RingOK, Test, rings, MouseData
    <2>3. CASE \E d \in MouseData : AttMouse(d)
      BY <1>0, <2>3, NextSlotType DEF RingOK, AttMouse, main
    <2>4. CASE Busy \/ Nil \/ Fill \/ Load
      BY <1>0, <2>4 DEF RingOK, Busy, Nil, Fill, Load, rings
    <2>5. CASE \/ (\E k \in Keys \cup {NoKey} : AttKeyboard(k)) \/ UsbReset \/ SetProtocol
               \/ Suspend \/ Resume \/ (\E e \in {"kb", "mouse"} : Poll(e))
               \/ (\E t \in {"kb", "mouse"} : TimePasses(t)) \/ UNCHANGED vars
      <3>1. UNCHANGED <<rings, data>>
        BY <2>5 DEF AttKeyboard, UsbReset, SetProtocol, Suspend, Resume, Poll, TimePasses, vars, main
      <3>2. QED
        BY <1>0, <3>1 DEF RingOK, rings
    <2>6. QED
      BY <2>1, <2>2, <2>3, <2>4, <2>5 DEF Next, Interrupt, MainLoop
  <1>4. FlagsOK'
    <2>1. CASE MainLoop
      BY <1>0, <2>1 DEF FlagsOK, MainLoop, Test, Busy, Nil, Fill, Load, Store, StoreFrame,
         HeldAfter, StoreMouseRelease, StoreKeyRelease
    <2>2. CASE ~MainLoop
      BY <1>0, <2>2 DEF FlagsOK, Next, Interrupt, AttKeyboard, AttMouse, UsbReset, SetProtocol,
         Suspend, Resume, Poll, TimePasses, vars, main
    <2>3. QED
      BY <2>1, <2>2
  <1>5. EpOK'
    <2>1. CASE Fill
      <3>1. Outgoing \in Reports
        BY OutgoingType
      <3>2. QED
        BY <1>0, <2>1, <3>1, KindOfType DEF Fill, EpOK, races
    <2>2. CASE UsbReset
      BY <1>0, <2>2 DEF UsbReset, EpOK
    <2>3. CASE SetProtocol \/ \E e \in {"kb", "mouse"} : Poll(e)
      BY <1>0, <2>3 DEF SetProtocol, Poll, EpOK
    <2>4. CASE Store
      BY <1>0, <2>4 DEF Store, EpOK
    <2>5. CASE ~(\/ Fill \/ UsbReset \/ SetProtocol \/ (\E e \in {"kb", "mouse"} : Poll(e)) \/ Store
                 \/ \E k \in Keys \cup {NoKey} : AttKeyboard(k))
      <3>1. UNCHANGED <<ep, raced>>
        BY <2>5 DEF Next, Interrupt, MainLoop, AttMouse, Test, Busy, Nil, Load, Suspend, Resume,
           TimePasses, vars, races
      <3>2. QED
        BY <1>0, <3>1 DEF EpOK
    <2>6. QED
      BY <1>1, <2>1, <2>2, <2>3, <2>4, <2>5
  <1>6. HostOK'
    <2>1. CASE UsbReset
      BY <2>1 DEF UsbReset, Nothing, HostOK, MouseData
    <2>2. ASSUME NEW e \in {"kb", "mouse"}, Poll(e) PROVE HostOK'
      <3>1. PICK r \in ep[e] : host' = [host EXCEPT ![r.kind] = r.val]
        BY <2>2 DEF Poll
      <3>2. \/ r.kind \in Classes /\ r.val \in KeysOf(r.kind) \cup {NoKey}
            \/ r.kind = "mouse" /\ r.val \in MouseData
        BY <1>0, <2>2, ReportTypes DEF EpOK
      <3>3. CASE r.kind = "normal" /\ r.val \in NormalKeys \cup {NoKey}
        BY <1>0, <3>1, <3>3 DEF HostOK
      <3>4. CASE r.kind = "sys" /\ r.val \in SysKeys \cup {NoKey}
        BY <1>0, <3>1, <3>4 DEF HostOK
      <3>5. CASE r.kind = "media" /\ r.val \in MediaKeys \cup {NoKey}
        BY <1>0, <3>1, <3>5 DEF HostOK
      <3>6. CASE r.kind = "mouse" /\ r.val \in MouseData
        BY <1>0, <3>1, <3>6 DEF HostOK
      <3>7. QED
        BY <3>2, <3>3, <3>4, <3>5, <3>6 DEF Classes, KeysOf
    <2>3. UsbReset \/ (\E e \in {"kb", "mouse"} : Poll(e)) \/ host' = host
      BY DEF Next, Interrupt, MainLoop, AttKeyboard, AttMouse, Test, Busy, Nil, Fill, Load, Store,
         SetProtocol, Suspend, Resume, TimePasses, vars
    <2>4. QED
      BY <1>0, <2>1, <2>2, <2>3 DEF HostOK
  <1>7. QED
    BY <1>2, <1>3, <1>4, <1>5, <1>6, TypeParts DEF TypeOK, WordsOK, RingOK, FlagsOK, EpOK, HostOK

-----------------------------------------------------------------------------
(* Every step preserves the rest of the invariant. *)
Rest == EndpointKinds /\ RacedInv /\ StageInv /\ SentInv /\ PressedIsTracked

LEMMA NoStep ==
  ASSUME Rest, UNCHANGED <<not_released, mouse_held, pc, stage, data, saved, raced, slipped, ep, host>>
  PROVE  Rest'
  <1>1. EndpointKinds' /\ StageInv'
    BY DEF Rest, EndpointKinds, StageInv
  <1>2. RacedInv'
    BY DEF Rest, RacedInv
  <1>3. \A kind : /\ PressedAtPc(kind)' = PressedAtPc(kind) /\ ReleaseQueued(kind)' = ReleaseQueued(kind)
                  /\ Marked(kind)' = Marked(kind)
    BY DEF PressedAtPc, ReleaseQueued, Marked, AboutToMark
  <1>4. SentInv'
    BY <1>3 DEF Rest, SentInv, Outgoing
  <1>5. PressedIsTracked'
    BY <1>3 DEF Rest, PressedIsTracked
  <1>6. QED
    BY <1>1, <1>2, <1>4, <1>5 DEF Rest

LEMMA AttKeyboardStep ==
  ASSUME TypeOK, Rest, NEW k \in Keys \cup {NoKey}, AttKeyboard(k)
  PROVE  Rest'
  <1>1. UNCHANGED <<mouse_held, pc, stage, data, saved, host>>
    BY DEF AttKeyboard, main
  <1>2. raced' = (IF stage = "test" THEN {} ELSE raced \cup Queued) /\ slipped' = slipped \ Presses(Queued)
    BY DEF AttKeyboard, NoteRace
  <1>3. /\ \A q \in Queued : /\ q \in Reports /\ q.kind \in Classes
                             /\ q \in ep'[Endpoint(q.kind)]
                             /\ Pressed(q) <=> q.kind \in not_released'
        /\ \A e \in {"kb", "mouse"} : /\ ep[e] \subseteq ep'[e]
                                      /\ ep'[e] \subseteq ep[e] \cup {q \in Queued : Endpoint(q.kind) = e}
        /\ not_released' \ not_released \subseteq Presses(Queued)
        /\ not_released \ not_released' \subseteq Releases(Queued)
    BY KeyboardEffect
  <1> DEFINE Q == Queued
  <1> HIDE DEF Q
  <1>4. EndpointKinds'
    <2>1. ASSUME NEW e \in {"kb", "mouse"}, NEW r \in ep'[e] PROVE Endpoint(r.kind) = e
      BY <1>3, <2>1 DEF Rest, EndpointKinds
    <2>2. QED
      BY <2>1 DEF EndpointKinds
  <1>5. StageInv'
    BY <1>1 DEF Rest, StageInv
  <1>6. stage # "test" => /\ Presses(raced') = Presses(raced) \cup Presses(Queued)
                          /\ Releases(raced') = Releases(raced) \cup Releases(Queued)
    BY <1>2 DEF Presses, Releases
  <1>7. RacedInv'
    <2>1. \A r \in raced' : r.kind \in Classes
      BY <1>2, <1>3 DEF Rest, RacedInv
    <2>2. stage' = "test" => raced' = {}
      BY <1>1, <1>2
    <2>3. stage' # "test" => not_released' \ saved' \subseteq Presses(raced')
      BY <1>1, <1>3, <1>6 DEF Rest, RacedInv
    <2>4. ASSUME stage' = "fill"
          PROVE  /\ ep'[Endpoint(KindOf(pc'))] \subseteq raced'
                 /\ Presses(raced') \subseteq not_released' \cup Releases(raced')
      <3>1. ep[Endpoint(KindOf(pc))] \subseteq raced /\ raced' = raced \cup Queued
            /\ Presses(raced) \subseteq not_released \cup Releases(raced)
        BY <1>1, <1>2, <2>4 DEF Rest, RacedInv
      <3>2. ep'[Endpoint(KindOf(pc))] \subseteq ep[Endpoint(KindOf(pc))] \cup Queued
        BY <1>3, KindOfType
      <3>3. Presses(Queued) \subseteq not_released'
        BY <1>3 DEF Presses
      <3>4. Presses(raced') \subseteq not_released' \cup Releases(raced')
        BY <1>1, <1>3, <1>6, <2>4, <3>1, <3>3
      <3>5. QED
        BY <1>1, <3>1, <3>2, <3>4
    <2>5. QED
      BY <2>1, <2>2, <2>3, <2>4 DEF RacedInv
  <1>8. ASSUME NEW kind \in Kinds PROVE ReleaseQueued(kind) => ReleaseQueued(kind)'
    BY <1>3, EndpointType DEF ReleaseQueued
  <1>9. ASSUME NEW kind \in Kinds, PressedAtPc(kind)', kind \notin Presses(Queued)
        PROVE  PressedAtPc(kind)
    <2>1. \A q \in Queued : q.kind = kind => ~Pressed(q)
      BY <1>9 DEF Presses
    <2>2. QED
      BY <1>1, <1>3, <1>9, <2>1, EndpointType DEF PressedAtPc
  <1>10. SentInv'
    <2>1. SUFFICES ASSUME stage \in {"load", "store"}, ~Pressed(Outgoing), PressedAtPc(KindOf(pc))',
                          KindOf(pc) \notin slipped' \cup Presses(raced')
                   PROVE  ReleaseQueued(KindOf(pc))'
      <3>1. KindOf(pc)' = KindOf(pc) /\ Outgoing' = Outgoing
        BY <1>1 DEF KindOf, Outgoing
      <3>2. QED
        BY <1>1, <3>1 DEF SentInv, PressedAtPc, ReleaseQueued
    <2>2. KindOf(pc) \notin slipped \cup Presses(raced) /\ KindOf(pc) \notin Presses(Queued)
      BY <1>2, <1>6, <2>1
    <2>3. PressedAtPc(KindOf(pc))
      <3> DEFINE K == KindOf(pc)
      <3>1. K \in Kinds /\ K \notin Presses(Queued)
        BY <2>2, KindOfType
      <3>2. Pressed(Report(K, host'[K])) \/ \E r \in ep'[Endpoint(K)] : r.kind = K /\ Pressed(r)
        BY <1>1, <2>1 DEF PressedAtPc, KindOf
      <3> HIDE DEF K
      <3>3. PressedAtPc(K)
        BY <1>1, <1>3, <3>1, <3>2, EndpointType DEF PressedAtPc, Presses
      <3>4. QED
        BY <3>3 DEF K
    <2>4. ReleaseQueued(KindOf(pc))
      BY <2>1, <2>2, <2>3 DEF Rest, SentInv
    <2>5. QED
      <3>1. PICK r \in ep[Endpoint(KindOf(pc))] : r.kind = KindOf(pc) /\ ~Pressed(r)
        BY <2>4 DEF ReleaseQueued
      <3>2. r \in ep'[Endpoint(KindOf(pc))]
        BY <1>3, KindOfType
      <3>3. KindOf(pc') = KindOf(pc)
        BY <1>1
      <3>4. QED
        BY <3>1, <3>2, <3>3 DEF ReleaseQueued
  <1>11. PressedIsTracked'
    <2>1. SUFFICES ASSUME NEW kind \in Kinds, kind \notin slipped', PressedAtPc(kind)'
                   PROVE  Marked(kind)' \/ ReleaseQueued(kind)'
      BY DEF PressedIsTracked
    <2>2. CASE kind \in Presses(Queued)
      <3>1. kind \in not_released' /\ kind # "mouse"
        BY <1>3, <2>2 DEF Presses, Classes
      <3>2. QED
        BY <3>1 DEF Marked
    <2>3. CASE kind \notin Presses(Queued)
      <3>1. Marked(kind) \/ ReleaseQueued(kind)
        BY <1>2, <1>9, <2>1, <2>3 DEF Rest, PressedIsTracked
      <3>2. CASE kind = "mouse" \/ kind \in not_released'
        <4>1. Marked(kind) => Marked(kind)'
          BY <1>1, <3>2 DEF Marked, AboutToMark
        <4>2. QED
          BY <1>8, <3>1, <4>1
      <3>3. CASE kind # "mouse" /\ kind \notin not_released'
        <4>1. Marked(kind) => kind \in Releases(Queued)
          BY <1>3, <3>3 DEF Marked
        <4>2. kind \in Releases(Queued) => ReleaseQueued(kind)'
          BY <1>3 DEF Releases, ReleaseQueued
        <4>3. QED
          BY <1>8, <3>1, <4>1, <4>2
      <3>4. QED
        BY <3>2, <3>3
    <2>4. QED
      BY <2>2, <2>3
  <1>12. QED
    BY <1>4, <1>5, <1>7, <1>10, <1>11 DEF Rest

LEMMA TestStep ==
  ASSUME TypeOK, Rest, Test \/ Busy \/ Nil
  PROVE  Rest'
  <1>1. /\ stage = "test" /\ UNCHANGED <<not_released, raced, slipped, ep, host>>
        /\ mouse_held => mouse_held'
        /\ stage' \in {"test", "fill"}
    <2>1. stage = "test" /\ UNCHANGED <<not_released, raced, slipped, ep, host>>
      BY DEF Test, Busy, Nil, races
    <2>2. CASE Test
      BY <2>1, <2>2 DEF Test
    <2>3. CASE Busy
      BY <2>1, <2>3 DEF Busy, TypeOK
    <2>4. CASE Nil
      BY <2>1, <2>4 DEF Nil
    <2>5. QED
      BY <2>1, <2>2, <2>3, <2>4
  <1>2. raced = {} /\ Presses(raced) = {}
    BY <1>1 DEF Rest, RacedInv, Presses
  <1>3. stage' = "fill" => /\ saved' = not_released /\ pc' = pc /\ ep[Endpoint(KindOf(pc))] = {}
                           /\ pc # "frame" => data' = "zero"
    BY <1>1 DEF Test, Busy, Nil
  <1>4. EndpointKinds'
    BY <1>1 DEF Rest, EndpointKinds
  <1>5. RacedInv' /\ StageInv'
    BY <1>1, <1>2, <1>3 DEF RacedInv, StageInv
  <1>6. SentInv'
    BY <1>1 DEF SentInv
  <1>7. \A kind : /\ PressedAtPc(kind)' = PressedAtPc(kind) /\ ReleaseQueued(kind)' = ReleaseQueued(kind)
                  /\ Marked(kind) => Marked(kind)'
    BY <1>1 DEF PressedAtPc, ReleaseQueued, Marked, AboutToMark
  <1>8. PressedIsTracked'
    BY <1>1, <1>7 DEF Rest, PressedIsTracked
  <1>9. QED
    BY <1>4, <1>5, <1>6, <1>8 DEF Rest

LEMMA FillStep ==
  ASSUME TypeOK, Rest, Fill
  PROVE  Rest'
  <1> DEFINE K == KindOf(pc)
             e == Endpoint(K)
  <1>1. /\ stage = "fill" /\ stage' = (IF pc \in Classes THEN "load" ELSE "store")
        /\ UNCHANGED <<not_released, mouse_held, pc, data, saved, raced, slipped, host>>
    BY DEF Fill, races
  <1>2. K \in Kinds /\ e \in {"kb", "mouse"} /\ Outgoing.kind = K
    BY KindOfType, OutgoingType
  <1>3. /\ ep'[e] = {Outgoing} \cup {r \in raced : Endpoint(r.kind) = e}
        /\ \A x \in {"kb", "mouse"} : x # e => ep'[x] = ep[x]
    BY <1>2 DEF Fill, TypeOK
  <1>4. /\ ep[e] \subseteq raced /\ \A r \in raced : r.kind \in Classes
        /\ Presses(raced) \subseteq not_released \cup Releases(raced)
    BY <1>1 DEF Rest, RacedInv
  <1>5. EndpointKinds'
    <2>1. ASSUME NEW x \in {"kb", "mouse"}, NEW r \in ep'[x] PROVE Endpoint(r.kind) = x
      BY <1>2, <1>3 DEF Rest, EndpointKinds
    <2>2. QED
      BY <2>1 DEF EndpointKinds
  <1>6. RacedInv'
    BY <1>1 DEF Rest, RacedInv
  <1>7. StageInv'
    BY <1>1 DEF Rest, StageInv
  <1>8. ~Pressed(Outgoing) => \E r \in ep'[e] : r.kind = K /\ ~Pressed(r)
    BY <1>2, <1>3
  <1>9. KindOf(pc') = K /\ Outgoing' = Outgoing
    BY <1>1 DEF Outgoing
  <1>10. SentInv'
    <2>1. ~Pressed(Outgoing) => ReleaseQueued(K)'
      BY <1>1, <1>8 DEF ReleaseQueued
    <2>2. QED
      BY <1>1, <1>9, <2>1 DEF SentInv, ReleaseQueued
  <1>11. PressedIsTracked'
    <2>1. SUFFICES ASSUME NEW kind \in Kinds, kind \notin slipped',
                          \/ Pressed(Report(kind, host'[kind]))
                          \/ \E r \in ep'[Endpoint(kind)] : r.kind = kind /\ Pressed(r)
                   PROVE  \/ IF kind = "mouse" THEN mouse_held' \/ AboutToMark' ELSE kind \in not_released'
                          \/ \E r \in ep'[Endpoint(kind)] : r.kind = kind /\ ~Pressed(r)
      BY DEF PressedIsTracked, PressedAtPc, Marked, ReleaseQueued
    <2>2. ASSUME PressedAtPc(kind)
          PROVE  \/ IF kind = "mouse" THEN mouse_held ELSE kind \in not_released
                 \/ \E r \in ep[Endpoint(kind)] : r.kind = kind /\ ~Pressed(r)
      <3>1. ~AboutToMark
        BY <1>1 DEF AboutToMark
      <3>2. QED
        BY <1>1, <2>1, <2>2, <3>1 DEF Rest, PressedIsTracked, Marked, ReleaseQueued
    <2>3. CASE kind = K
      <3>1. CASE Pressed(Outgoing)
        <4>1. pc \notin Classes /\ HeldAfter(data)
          BY <3>1 DEF Outgoing, Pressed, Report, HeldAfter, KindOf, Classes
        <4>2. pc = "frame"
          BY <1>1, <4>1 DEF Rest, StageInv, HeldAfter
        <4>3. AboutToMark' /\ kind = "mouse"
          BY <1>1, <2>3, <4>1, <4>2 DEF AboutToMark, KindOf
        <4>4. QED
          BY <4>3
      <3>2. CASE ~Pressed(Outgoing)
        BY <1>8, <2>3, <3>2
      <3>3. QED
        BY <3>1, <3>2
    <2>4. CASE kind # K /\ Endpoint(kind) # e
      <3>1. ep'[Endpoint(kind)] = ep[Endpoint(kind)]
        BY <1>3, <2>4, EndpointType
      <3>2. PressedAtPc(kind)
        BY <1>1, <2>1, <3>1 DEF PressedAtPc
      <3>3. QED
        BY <1>1, <2>2, <3>1, <3>2
    <2>5. CASE kind # K /\ Endpoint(kind) = e
      <3>1. \A r \in raced : r.kind = kind => r \in ep'[e]
        BY <1>3, <2>5
      <3>2. CASE kind \in Presses(raced)
        <4>1. kind # "mouse"
          BY <1>4, <3>2 DEF Presses, Classes
        <4>2. kind \in Releases(raced) => \E r \in ep'[e] : r.kind = kind /\ ~Pressed(r)
          BY <3>1 DEF Releases
        <4>3. QED
          BY <1>1, <1>4, <2>5, <3>2, <4>1, <4>2
      <3>3. CASE kind \notin Presses(raced)
        <4>1. Pressed(Report(kind, host[kind]))
          BY <1>1, <1>2, <1>3, <2>1, <2>5, <3>3 DEF Presses
        <4>2. PressedAtPc(kind)
          BY <4>1 DEF PressedAtPc
        <4>3. QED
          BY <1>1, <1>4, <2>2, <2>5, <3>1, <4>2
      <3>4. QED
        BY <3>2, <3>3
    <2>6. QED
      BY <2>3, <2>4, <2>5
  <1>12. QED
    BY <1>5, <1>6, <1>7, <1>10, <1>11 DEF Rest

LEMMA LoadStep ==
  ASSUME Rest, Load
  PROVE  Rest'
  <1>1. /\ stage = "load" /\ stage' = "store" /\ saved' \in {saved, not_released}
        /\ UNCHANGED <<not_released, mouse_held, pc, data, raced, slipped, ep, host>>
    BY DEF Load, races
  <1>2. pc \in Classes /\ pc # "frame"
    BY <1>1 DEF Rest, StageInv, Classes
  <1>3. EndpointKinds' /\ StageInv'
    BY <1>1 DEF Rest, EndpointKinds, StageInv
  <1>4. RacedInv'
    BY <1>1 DEF Rest, RacedInv
  <1>5. \A kind : /\ PressedAtPc(kind)' = PressedAtPc(kind) /\ ReleaseQueued(kind)' = ReleaseQueued(kind)
                  /\ Marked(kind) => Marked(kind)'
    BY <1>1, <1>2 DEF PressedAtPc, ReleaseQueued, Marked, AboutToMark
  <1>6. Outgoing' = Outgoing /\ KindOf(pc') = KindOf(pc)
    BY <1>1 DEF Outgoing
  <1>7. SentInv'
    <2>1. PressedAtPc(KindOf(pc))' = PressedAtPc(KindOf(pc))
          /\ ReleaseQueued(KindOf(pc))' = ReleaseQueued(KindOf(pc))
      BY <1>1 DEF PressedAtPc, ReleaseQueued
    <2>2. QED
      BY <1>1, <1>6, <2>1 DEF Rest, SentInv
  <1>8. PressedIsTracked'
    BY <1>1, <1>5 DEF Rest, PressedIsTracked
  <1>9. QED
    BY <1>3, <1>4, <1>7, <1>8 DEF Rest

LEMMA StoreStep ==
  ASSUME TypeOK, Rest, Store
  PROVE  Rest'
  <1>1. /\ stage = "store" /\ stage' = "test" /\ raced' = {}
        /\ UNCHANGED <<ep, host>>
    BY DEF Store
  <1>2. EndpointKinds'
    BY <1>1 DEF Rest, EndpointKinds
  <1>3. RacedInv' /\ StageInv' /\ SentInv'
    BY <1>1 DEF RacedInv, StageInv, SentInv
  <1>4. ASSUME NEW kind \in Kinds, kind \notin slipped', PressedAtPc(kind)
        PROVE  \/ IF kind = "mouse" THEN mouse_held' ELSE kind \in not_released'
               \/ ReleaseQueued(kind)
    <2>1. "mouse" \notin Presses(raced)
      BY DEF Rest, RacedInv, Presses, Classes
    <2>2. CASE StoreKeyRelease
      <3>1. /\ pc \in Classes /\ not_released' = saved \ {pc} /\ mouse_held' = mouse_held
            /\ slipped' = slipped \cup (Presses(raced) \ not_released')
        BY <2>2 DEF StoreKeyRelease
      <3>2. ~AboutToMark
        BY <3>1 DEF AboutToMark, Classes
      <3>3. CASE kind = pc
        <4>1. kind = KindOf(pc) /\ kind \notin slipped \cup Presses(raced)
          BY <1>4, <3>1, <3>3 DEF KindOf
        <4>2. ~Pressed(Outgoing)
          BY <3>1 DEF Outgoing, KindOf, Pressed, Report, Classes
        <4>3. QED
          BY <1>1, <1>4, <4>1, <4>2 DEF Rest, SentInv
      <3>4. CASE kind # pc
        <4>1. Marked(kind) \/ ReleaseQueued(kind)
          BY <1>4, <3>1 DEF Rest, PressedIsTracked
        <4>2. CASE kind = "mouse"
          BY <3>1, <3>2, <4>1, <4>2 DEF Marked
        <4>3. CASE kind # "mouse"
          <5>1. not_released \ saved \subseteq Presses(raced)
            BY <1>1 DEF Rest, RacedInv
          <5>2. kind \in not_released => kind \in not_released'
            BY <1>4, <3>1, <3>4, <5>1
          <5>3. QED
            BY <4>1, <4>3, <5>2 DEF Marked
        <4>4. QED
          BY <4>2, <4>3
      <3>5. QED
        BY <3>3, <3>4
    <2>3. CASE StoreFrame \/ StoreMouseRelease
      <3>1. UNCHANGED <<not_released, slipped>> /\ pc \notin Classes
        BY <2>3 DEF StoreFrame, StoreMouseRelease, Classes
      <3>2. CASE kind # "mouse"
        BY <1>4, <3>1, <3>2 DEF Rest, PressedIsTracked, Marked
      <3>3. CASE kind = "mouse" /\ ~mouse_held'
        <4>1. data = "zero"
          <5>1. CASE StoreFrame
            BY <3>3, <5>1 DEF StoreFrame, HeldAfter
          <5>2. CASE StoreMouseRelease
            BY <1>1, <5>2 DEF StoreMouseRelease, Rest, StageInv
          <5>3. QED
            BY <2>3, <5>1, <5>2
        <4>2. KindOf(pc) = "mouse" /\ ~Pressed(Outgoing)
          BY <3>1, <4>1 DEF KindOf, Outgoing, Pressed, Report
        <4>3. QED
          BY <1>1, <1>4, <2>1, <3>1, <3>3, <4>2 DEF Rest, SentInv
      <3>4. QED
        BY <3>2, <3>3
    <2>4. QED
      BY <2>2, <2>3 DEF Store
  <1>5. PressedIsTracked'
    <2>1. \A kind : PressedAtPc(kind)' = PressedAtPc(kind) /\ ReleaseQueued(kind)' = ReleaseQueued(kind)
      BY <1>1 DEF PressedAtPc, ReleaseQueued
    <2>2. QED
      BY <1>4, <2>1 DEF PressedIsTracked, Marked
  <1>6. QED
    BY <1>2, <1>3, <1>5 DEF Rest

LEMMA UsbResetStep ==
  ASSUME Rest, UsbReset
  PROVE  Rest'
  <1>1. /\ stage = "test" /\ stage' = "test" /\ raced' = raced
        /\ host' = Nothing /\ ep' = [e \in {"kb", "mouse"} |-> {}]
    BY DEF UsbReset, main
  <1>2. \A kind \in Kinds : ~Pressed(Report(kind, host'[kind])) /\ ep'[Endpoint(kind)] = {}
    BY <1>1, EndpointType DEF Nothing, Pressed, Report, Kinds, Classes
  <1>3. EndpointKinds'
    BY <1>1 DEF EndpointKinds
  <1>4. RacedInv' /\ StageInv' /\ SentInv'
    BY <1>1 DEF Rest, RacedInv, StageInv, SentInv
  <1>5. PressedIsTracked'
    BY <1>2 DEF PressedIsTracked, PressedAtPc
  <1>6. QED
    BY <1>3, <1>4, <1>5 DEF Rest

(* A poll or SetProtocol empties endpoint e: of what it held, r at most is delivered, *)
(* and the releases among the others slip.                                             *)
LEMMA EmptiedStep ==
  ASSUME TypeOK, Rest, NEW e \in {"kb", "mouse"},
         ep' = [ep EXCEPT ![e] = {}],
         UNCHANGED <<not_released, mouse_held, pc, stage, data, saved, raced>>,
         \/ host' = host /\ slipped' = slipped \cup Releases(ep[e])
         \/ \E r \in ep[e] : /\ host' = [host EXCEPT ![r.kind] = r.val]
                             /\ slipped' = (slipped \cup Releases(ep[e] \ {r})) \ Releases({r})
  PROVE  Rest'
  <1>1. ep'[e] = {} /\ \A x \in {"kb", "mouse"} : x # e => ep'[x] = ep[x]
    BY DEF TypeOK
  <1>2. EndpointKinds'
    BY <1>1 DEF Rest, EndpointKinds
  <1>3. RacedInv'
    <2>1. ep'[Endpoint(KindOf(pc))] \subseteq ep[Endpoint(KindOf(pc))]
      BY <1>1, KindOfType
    <2>2. QED
      BY <2>1 DEF Rest, RacedInv
  <1>4. StageInv'
    BY DEF Rest, StageInv
  <1>5. ASSUME NEW kind \in Kinds, kind \notin slipped', PressedAtPc(kind)'
        PROVE  kind \notin slipped /\ PressedAtPc(kind) /\ (ReleaseQueued(kind) => ReleaseQueued(kind)')
    <2>1. Endpoint(kind) \in {"kb", "mouse"} /\ ep'[Endpoint(kind)] \subseteq ep[Endpoint(kind)]
      BY <1>1, EndpointType
    <2>2. Pressed(Report(kind, host'[kind])) \/ \E q \in ep'[Endpoint(kind)] : q.kind = kind /\ Pressed(q)
      BY <1>5 DEF PressedAtPc
    <2>3. (kind \notin Releases(ep[e]) /\ ReleaseQueued(kind) => ReleaseQueued(kind)')
      <3>1. SUFFICES ASSUME kind \notin Releases(ep[e]), ReleaseQueued(kind) PROVE ReleaseQueued(kind)'
        OBVIOUS
      <3>2. PICK q \in ep[Endpoint(kind)] : q.kind = kind /\ ~Pressed(q)
        BY <3>1 DEF ReleaseQueued
      <3>3. Endpoint(kind) # e
        BY <3>1, <3>2 DEF Releases
      <3>4. QED
        BY <1>1, <2>1, <3>2, <3>3 DEF ReleaseQueued
    <2>4. CASE host' = host /\ slipped' = slipped \cup Releases(ep[e])
      <3>1. kind \notin slipped /\ kind \notin Releases(ep[e])
        BY <1>5, <2>4
      <3>2. PressedAtPc(kind)
        BY <2>1, <2>2, <2>4 DEF PressedAtPc
      <3>3. QED
        BY <2>3, <3>1, <3>2
    <2>5. ASSUME NEW r \in ep[e], host' = [host EXCEPT ![r.kind] = r.val],
                 slipped' = (slipped \cup Releases(ep[e] \ {r})) \ Releases({r})
          PROVE  kind \notin slipped /\ kind \notin Releases(ep[e]) /\ PressedAtPc(kind)
      <3>1. r.kind \in Kinds
        BY ReportTypes DEF TypeOK, Kinds
      <3>2. Releases(ep[e]) = Releases(ep[e] \ {r}) \cup Releases({r})
        BY DEF Releases
      <3>3. CASE r.kind = kind
        <4>1. host'[kind] = r.val
          BY <2>5, <3>3 DEF TypeOK, Kinds, Classes
        <4>2. Endpoint(kind) = e
          BY <3>3 DEF Rest, EndpointKinds
        <4>3. Pressed(r)
          BY <1>1, <2>2, <3>3, <4>1, <4>2 DEF Pressed, Report
        <4>4. Releases({r}) = {}
          BY <4>3 DEF Releases
        <4>5. PressedAtPc(kind)
          BY <3>3, <4>2, <4>3 DEF PressedAtPc
        <4>6. QED
          BY <1>5, <2>5, <3>2, <4>4, <4>5
      <3>4. CASE r.kind # kind
        <4>1. host'[kind] = host[kind]
          BY <2>5, <3>1, <3>4 DEF TypeOK, Kinds, Classes
        <4>2. kind \notin Releases({r})
          BY <3>4 DEF Releases
        <4>3. PressedAtPc(kind)
          BY <2>1, <2>2, <4>1 DEF PressedAtPc
        <4>4. QED
          BY <1>5, <2>5, <3>2, <4>2, <4>3
      <3>5. QED
        BY <3>3, <3>4
    <2>6. QED
      BY <2>3, <2>4, <2>5
  <1>6. SentInv'
    <2> DEFINE K == KindOf(pc)
    <2>1. K \in Kinds /\ KindOf(pc') = K /\ Outgoing' = Outgoing
      BY KindOfType DEF Outgoing
    <2>2. SUFFICES ASSUME stage \in {"load", "store"}, ~Pressed(Outgoing),
                          K \notin slipped' \cup Presses(raced), PressedAtPc(K)'
                   PROVE  ReleaseQueued(K)'
      BY <2>1 DEF SentInv, PressedAtPc, ReleaseQueued
    <2>3. PressedAtPc(KindOf(pc)) /\ KindOf(pc) \notin slipped
      BY <1>5, <2>1, <2>2
    <2>4. ReleaseQueued(KindOf(pc))
      BY <2>2, <2>3 DEF Rest, SentInv
    <2>5. QED
      BY <1>5, <2>1, <2>2, <2>4
  <1>7. PressedIsTracked'
    <2>1. \A kind : Marked(kind)' = Marked(kind)
      BY DEF Marked, AboutToMark
    <2>2. QED
      BY <1>5, <2>1 DEF Rest, PressedIsTracked
  <1>8. QED
    BY <1>2, <1>3, <1>4, <1>6, <1>7 DEF Rest

LEMMA StepIInv ==
  ASSUME IInv, [Next]_vars
  PROVE  IInv'
  <1>0. TypeOK /\ Rest /\ TypeOK'
    BY TypeStep DEF IInv, Rest
  <1> SUFFICES Rest'
    BY <1>0 DEF IInv, Rest
  <1>1. ASSUME NEW k \in Keys \cup {NoKey}, AttKeyboard(k) PROVE Rest'
    BY <1>0, <1>1, AttKeyboardStep
  <1>2. CASE Test \/ Busy \/ Nil
    BY <1>0, <1>2, TestStep
  <1>3. CASE Fill
    BY <1>0, <1>3, FillStep
  <1>4. CASE Load
    BY <1>0, <1>4, LoadStep
  <1>5. CASE Store
    BY <1>0, <1>5, StoreStep
  <1>6. CASE UsbReset
    BY <1>0, <1>6, UsbResetStep
  <1>7. CASE SetProtocol
    <2>1. /\ ep' = [ep EXCEPT !["mouse"] = {}]
          /\ UNCHANGED <<not_released, mouse_held, pc, stage, data, saved, raced>>
          /\ host' = host /\ slipped' = slipped \cup Releases(ep["mouse"])
      BY <1>7 DEF SetProtocol, main
    <2>2. QED
      BY <1>0, <2>1, EmptiedStep
  <1>8. ASSUME NEW e \in {"kb", "mouse"}, Poll(e) PROVE Rest'
    <2>1. /\ ep' = [ep EXCEPT ![e] = {}]
          /\ UNCHANGED <<not_released, mouse_held, pc, stage, data, saved, raced>>
          /\ \E r \in ep[e] : /\ host' = [host EXCEPT ![r.kind] = r.val]
                              /\ slipped' = (slipped \cup Releases(ep[e] \ {r})) \ Releases({r})
      BY <1>8 DEF Poll, main
    <2>2. QED
      BY <1>0, <2>1, EmptiedStep
  <1>9. CASE \/ (\E d \in MouseData : AttMouse(d)) \/ Suspend \/ Resume
             \/ (\E t \in {"kb", "mouse"} : TimePasses(t)) \/ UNCHANGED vars
    <2>1. UNCHANGED <<not_released, mouse_held, pc, stage, data, saved, raced, slipped, ep, host>>
      BY <1>9 DEF AttMouse, Suspend, Resume, TimePasses, vars, main, races
    <2>2. QED
      BY <1>0, <2>1, NoStep
  <1>10. QED
    BY <1>1, <1>2, <1>3, <1>4, <1>5, <1>6, <1>7, <1>8, <1>9 DEF Next, Interrupt, MainLoop

LEMMA InitIInv == Init => IInv
  <1> SUFFICES ASSUME Init PROVE IInv
    OBVIOUS
  <1>1. WordsOK /\ FlagsOK
    BY DEF Init, WordsOK, FlagsOK, Tasks
  <1>2. RingOK
    BY InputAssumption DEF Init, RingOK, MouseData
  <1>3. EpOK /\ HostOK
    BY DEF Init, EpOK, HostOK, Nothing, MouseData
  <1>4. stage = "test" /\ raced = {} /\ \A e \in {"kb", "mouse"} : ep[e] = {}
    BY DEF Init
  <1>5. EndpointKinds /\ RacedInv /\ StageInv /\ SentInv
    BY <1>4 DEF EndpointKinds, RacedInv, StageInv, SentInv
  <1>6. \A kind \in Kinds : ~Pressed(Report(kind, host[kind])) /\ ep[Endpoint(kind)] = {}
    BY EndpointType DEF Init, Nothing, Pressed, Report, Kinds, Classes
  <1>7. PressedIsTracked
    BY <1>6 DEF PressedIsTracked, PressedAtPc
  <1>8. QED
    BY <1>1, <1>2, <1>3, <1>5, <1>7, TypeParts DEF IInv

(* The marks, the mouse ring, the endpoints and what the PC takes for pressed keep *)
(* their types, wherever the radio interrupt comes.                                *)
THEOREM TypeCorrect == Spec => []TypeOK
  <1>1. Init => TypeOK
    BY InitIInv DEF IInv
  <1>2. TypeOK /\ [Next]_vars => TypeOK'
    BY TypeStep
  <1>3. QED
    BY <1>1, <1>2, PTL DEF Spec

(* Nothing that is pressed at the PC is forgotten by usbkb_not_released and          *)
(* usbmouse_not_released, with the radio interrupt between any two steps of the main *)
(* loop: what BM_CLR, a shared endpoint or SetProtocol can lose is all in slipped.   *)
THEOREM NothingPressedIsForgotten == Spec => []PressedIsTracked
  <1>1. IInv /\ [Next]_vars => IInv'
    BY StepIInv
  <1>2. IInv => PressedIsTracked
    BY DEF IInv
  <1>3. QED
    BY <1>1, <1>2, InitIInv, PTL DEF Spec
=============================================================================
