--------------------------- MODULE OtaBootProofs ----------------------------
(***************************************************************************)
(* Proofs about OtaBoot, for every size of the flash, every set of image   *)
(* sizes and any number of power cuts, faults and updates.                 *)
(***************************************************************************)
EXTENDS OtaBoot, TLAPS

(* Where the loader is and what it may rely on there. *)

\* no update pending: a whole image, at most an unfinished download
IdleInv ==
  /\ pc \in {"reset", "app"}
  /\ OldWhole \/ NewWhole
  /\ dl # -1 => /\ pc = "app" /\ dl \in 0 .. newSize /\ OldWhole
                /\ \A p \in Pages : p < dl => area[p] = "new"

\* an update is pending: the source is complete until the program area is
SourceInv == AreaWhole \/ (NewWhole /\ area[0] = "erased")

\* the copy loop has verified every page before i
CopyInv ==
  \/ /\ n = newSize /\ AreaWhole
     /\ \A p \in Pages : p < i => slot[p] = "new"
  \/ n = -1 /\ pc = "copy" /\ NewWhole /\ area[0] = "erased"

\* the wipe loop starts with the header
WipeInv ==
  /\ n \in {-1, newSize} /\ NewWhole
  /\ i > 0 => area[0] = "erased"

PendingInv ==
  /\ pc # "app" /\ dl = -1
  /\ SourceInv
  /\ newSize > LimitPages => OldWhole /\ AreaWhole /\ pc \in {"reset", "header", "hang"}
  /\ pc = "hang" => newSize > LimitPages
  /\ pc = "header" => Startable
  /\ pc \in {"copy", "write", "verify"} => CopyInv
  /\ pc = "wipe" => WipeInv
  /\ pc = "clear" => NewWhole

IndexInv ==
  /\ n <= SlotPages
  /\ pc \in {"write", "verify"} => i < n

IInv ==
  /\ TypeOK
  /\ IndexInv
  /\ ~torn => /\ flag = "clear" => IdleInv
              /\ flag = "set" => PendingInv
-----------------------------------------------------------------------------
(* Stepping back to the start of a sector never leaves the flash and never *)
(* moves forward (i &= 0xfff000).                                          *)
LEMMA SectorStartBound == ASSUME NEW p \in Nat PROVE SectorStart(p) \in 0 .. p
  BY SectorAssumption DEF SectorStart

(* A whole image has readable start-up code, so the device starts.         *)
LEMMA WholeIsStartable == ASSUME TypeOK, OldWhole \/ NewWhole PROVE Startable
  BY SlotAssumption DEF TypeOK, OldWhole, NewWhole, Startable, Pages

(* The invariant holds initially. *)
LEMMA InitIInv == Init => IInv
  <1> SUFFICES ASSUME Init PROVE IInv
    OBVIOUS
  <1>1. oldSize \in 1 .. SlotPages /\ newSize \in 1 .. SlotPages
    BY SizesAssumption DEF Init
  <1>2. slot \in [Pages -> Content] /\ area \in [Pages -> Content]
    BY DEF Init, Content
  <1>3. TypeOK
    <2>1. torn \in BOOLEAN /\ pc \in {"reset"} /\ flag \in {"clear"}
      BY DEF Init
    <2>2. i \in Nat /\ n \in Int /\ dl \in Int /\ cuts \in Nat /\ faults \in Nat /\ updates \in Nat
      BY DEF Init
    <2>3. QED
      BY <1>1, <1>2, <2>1, <2>2 DEF TypeOK
  <1>4. IndexInv
    BY SlotAssumption DEF Init, IndexInv
  <1>5. IdleInv
    BY DEF Init, IdleInv, OldWhole
  <1>6. QED
    BY <1>3, <1>4, <1>5 DEF Init, IInv

(* Types and loop bounds are preserved by every step. *)
LEMMA TypeStep == TypeOK /\ IndexInv /\ [Next]_vars => TypeOK' /\ IndexInv'
  <1> SUFFICES ASSUME TypeOK, IndexInv, [Next]_vars PROVE TypeOK' /\ IndexInv'
    OBVIOUS
  <1> USE SlotAssumption, SectorAssumption, BoundAssumption
  <1>1. CASE StartUp
    BY <1>1 DEF StartUp, TypeOK, IndexInv, Running
  <1>2. CASE ReadHeader
    BY <1>2 DEF ReadHeader, HeaderValues, TypeOK, IndexInv, Running
  <1>3. CASE CopyErase
    BY <1>3 DEF CopyErase, Erase, Sound, Fault, TypeOK, IndexInv, Running, Content
  <1>4. CASE CopyWrite
    BY <1>4 DEF CopyWrite, Program, Sound, Fault, TypeOK, IndexInv, Running, Content, Pages
  <1>5. CASE CopyVerify
    BY <1>5, SectorStartBound DEF CopyVerify, TypeOK, IndexInv, Running
  <1>6. CASE CopyDone
    BY <1>6 DEF CopyDone, TypeOK, IndexInv, Running
  <1>7. CASE Wipe
    BY <1>7 DEF Wipe, Erase, TypeOK, IndexInv, Running, Content
  <1>8. CASE WipeDone \/ ClearFlag
    BY <1>8 DEF WipeDone, ClearFlag, TypeOK, IndexInv, Running
  <1>9. CASE AppStartDownload
    BY <1>9, SizesAssumption DEF AppStartDownload, TypeOK, IndexInv, Running, Content
  <1>10. CASE AppWrite
    BY <1>10 DEF AppWrite, TypeOK, IndexInv, Running, Content
  <1>11. CASE AppCommit
    BY <1>11 DEF AppCommit, TypeOK, IndexInv, Running
  <1>12. CASE Power
    <2> USE DEF TypeOK, IndexInv, Running, Content, Cut
    <2>1. CASE PowerCut
      BY <2>1 DEF PowerCut
    <2>2. CASE CutCopyErase
      BY <2>2 DEF CutCopyErase, Erase
    <2>3. CASE CutCopyWrite
      <3>1. slot' \in [Pages -> Content] /\ area' = area /\ torn' = torn
        BY <2>3 DEF CutCopyWrite
      <3>2. QED
        BY <2>3, <3>1 DEF CutCopyWrite
    <2>4. CASE CutWipe
      BY <2>4 DEF CutWipe, Erase
    <2>5. CASE CutAppWrite
      <3>1. area' \in [Pages -> Content] /\ slot' = slot /\ torn' = torn
        BY <2>5 DEF CutAppWrite
      <3>2. QED
        BY <2>5, <3>1 DEF CutAppWrite
    <2>6. QED
      BY <1>12, <2>1, <2>2, <2>3, <2>4, <2>5 DEF Power
  <1>13. CASE UNCHANGED vars
    BY <1>13 DEF vars, TypeOK, IndexInv
  <1>14. QED
    BY <1>1, <1>2, <1>3, <1>4, <1>5, <1>6, <1>7, <1>8, <1>9, <1>10, <1>11, <1>12, <1>13
       DEF Next, Boot, App
(* Once the header sector was torn, the history variable says so for good. *)
LEMMA TornForGood == [Next]_vars /\ ~torn' => ~torn
  BY DEF Next, vars, StartUp, Boot, ReadHeader, CopyErase, CopyWrite, CopyVerify, CopyDone,
         Wipe, WipeDone, ClearFlag, App, AppStartDownload, AppWrite, AppCommit,
         Power, PowerCut, CutCopyErase, CutCopyWrite, CutWipe, CutAppWrite

(* Every step preserves the invariant. *)
LEMMA StepIInv == IInv /\ [Next]_vars => IInv'
  <1> SUFFICES ASSUME IInv, [Next]_vars, ~torn', TypeOK'
               PROVE  (flag' = "clear" => IdleInv') /\ (flag' = "set" => PendingInv')
    BY TypeStep DEF IInv
  <1> USE SlotAssumption, SectorAssumption
  <1>0. 0 \in Pages /\ \A p \in Pages : p \in Nat /\ p < SlotPages
    BY DEF Pages
  <1>1. ~torn
    BY TornForGood
  <1>2. TypeOK /\ IndexInv /\ (flag = "clear" => IdleInv) /\ (flag = "set" => PendingInv)
    BY <1>1 DEF IInv
  <1>3. flag \in {"clear", "set"}
    BY <1>2 DEF TypeOK
  <1>4. CASE StartUp
    <2>1. CASE flag = "clear"
      <3>1. Startable
        BY <1>2, <2>1, WholeIsStartable DEF IdleInv
      <3>2. QED
        BY <1>2, <1>4, <2>1, <3>1 DEF StartUp, IdleInv, OldWhole, NewWhole
    <2>2. CASE flag = "set"
      <3>1. newSize > LimitPages => Startable
        BY <1>2, <2>2, WholeIsStartable DEF PendingInv
      <3>2. QED
        BY <1>2, <1>4, <2>2, <3>1
           DEF StartUp, PendingInv, SourceInv, OldWhole, NewWhole, AreaWhole, Startable
    <2>3. QED
      BY <1>3, <2>1, <2>2
  <1>5. CASE ReadHeader
    <2>1. flag = "set" /\ PendingInv /\ flag' = "set"
      BY <1>2, <1>3, <1>5 DEF ReadHeader, IdleInv
    <2>2. \/ AreaWhole /\ n' = newSize
          \/ NewWhole /\ area[0] = "erased" /\ n' = -1
      BY <1>0, <1>2, <1>5, <2>1 DEF ReadHeader, HeaderValues, PendingInv, SourceInv, AreaWhole, TypeOK
    <2>3. (SourceInv /\ dl = -1)' /\ pc' \in {"hang", "copy"} /\ (newSize' > LimitPages => OldWhole' /\ AreaWhole')
      BY <1>5, <2>1
         DEF ReadHeader, PendingInv, SourceInv, OldWhole, NewWhole, AreaWhole
    <2>4. pc' = "hang" => newSize' > LimitPages
      BY <1>5, <2>2, LimitAssumption DEF ReadHeader
    <2>5. newSize' > LimitPages => pc' = "hang"
      <3>1. newSize > LimitPages => n' = newSize
        BY <1>0, <1>2, <2>1, <2>2 DEF PendingInv, AreaWhole, TypeOK
      <3>2. QED
        BY <1>5, <3>1 DEF ReadHeader
    <2>6. pc' = "copy" => CopyInv'
      BY <1>0, <1>5, <2>2 DEF ReadHeader, CopyInv, NewWhole, AreaWhole
    <2>7. QED
      BY <2>1, <2>3, <2>4, <2>5, <2>6 DEF PendingInv
  <1>6. CASE CopyErase
    <2>1. flag = "set" /\ PendingInv /\ flag' = "set" /\ i < n /\ CopyInv
      BY <1>2, <1>3, <1>6 DEF CopyErase, IdleInv, PendingInv
    <2>2. n = newSize /\ AreaWhole /\ \A p \in Pages : p < i => slot[p] = "new"
      BY <1>2, <2>1 DEF CopyInv, TypeOK
    <2>3. \A p \in Pages : p < i => slot'[p] = "new"
      BY <1>0, <1>2, <1>6, <2>2 DEF CopyErase, Erase, Sector, TypeOK
    <2>4. QED
      BY <1>6, <2>1, <2>2, <2>3
         DEF CopyErase, PendingInv, SourceInv, CopyInv, AreaWhole
  <1>7. CASE CopyWrite
    <2>1. flag = "set" /\ PendingInv /\ flag' = "set" /\ i < n /\ CopyInv
      BY <1>2, <1>3, <1>7 DEF CopyWrite, IdleInv, PendingInv, IndexInv
    <2>2. n = newSize /\ AreaWhole /\ \A p \in Pages : p < i => slot[p] = "new"
      BY <1>2, <2>1 DEF CopyInv, TypeOK
    <2>3. \A p \in Pages : p < i => slot'[p] = "new"
      BY <1>0, <1>2, <1>7, <2>2 DEF CopyWrite, TypeOK
    <2>4. QED
      BY <1>7, <2>1, <2>2, <2>3
         DEF CopyWrite, PendingInv, SourceInv, CopyInv, AreaWhole
  <1>8. CASE CopyVerify
    <2>1. flag = "set" /\ PendingInv /\ flag' = "set" /\ i < n /\ CopyInv
      BY <1>2, <1>3, <1>8 DEF CopyVerify, IdleInv, PendingInv, IndexInv
    <2>2. n = newSize /\ AreaWhole /\ \A p \in Pages : p < i => slot[p] = "new"
      BY <1>2, <2>1 DEF CopyInv, TypeOK
    <2>3. \A p \in Pages : p < i' => slot[p] = "new"
      <3>1. CASE slot[i] = area[i]
        <4>1. i \in Pages /\ area[i] = "new"
          BY <1>2, <2>1, <2>2 DEF AreaWhole, TypeOK, Pages
        <4>2. QED
          BY <1>0, <1>2, <1>8, <2>2, <3>1, <4>1 DEF CopyVerify, TypeOK
      <3>2. CASE slot[i] # area[i]
        <4>1. i' \in 0 .. i
          BY <1>2, <1>8, <3>2, SectorStartBound DEF CopyVerify, TypeOK
        <4>2. QED
          BY <1>0, <1>2, <2>2, <4>1 DEF TypeOK
      <3>3. QED
        BY <3>1, <3>2
    <2>4. QED
      BY <1>8, <2>1, <2>2, <2>3
         DEF CopyVerify, PendingInv, SourceInv, CopyInv, AreaWhole
  <1>9. CASE CopyDone
    <2>1. flag = "set" /\ PendingInv /\ flag' = "set" /\ CopyInv
      BY <1>2, <1>3, <1>9 DEF CopyDone, IdleInv, PendingInv
    <2>2. NewWhole /\ n \in {-1, newSize}
      BY <1>0, <1>2, <1>9, <2>1 DEF CopyDone, CopyInv, NewWhole, TypeOK
    <2>3. QED
      BY <1>9, <2>1, <2>2
         DEF CopyDone, PendingInv, SourceInv, WipeInv, NewWhole, AreaWhole
  <1>10. CASE Wipe
    <2>1. flag = "set" /\ PendingInv /\ flag' = "set" /\ WipeInv
      BY <1>2, <1>3, <1>10 DEF Wipe, IdleInv, PendingInv
    <2>2. area'[0] = "erased"
      BY <1>0, <1>2, <1>10, <2>1 DEF Wipe, WipeInv, Erase, Sector, TypeOK
    <2>3. QED
      BY <1>2, <1>10, <2>1, <2>2
         DEF Wipe, PendingInv, SourceInv, WipeInv, NewWhole, TypeOK
  <1>11. CASE WipeDone
    BY <1>2, <1>3, <1>11
       DEF WipeDone, IdleInv, PendingInv, SourceInv, WipeInv, NewWhole, AreaWhole
  <1>12. CASE ClearFlag
    BY <1>2, <1>3, <1>12
       DEF ClearFlag, IdleInv, PendingInv, NewWhole
  <1>13. CASE AppStartDownload
    <2>1. flag = "clear" /\ IdleInv /\ flag' = "clear"
      BY <1>2, <1>3, <1>13 DEF AppStartDownload, PendingInv
    <2>2. OldWhole'
      BY <1>0, <1>2, <1>13, <2>1 DEF AppStartDownload, IdleInv, OldWhole, NewWhole, TypeOK
    <2>3. dl' = 0 /\ 0 \in 0 .. newSize'
      BY <1>13 DEF AppStartDownload, TypeOK
    <2>4. QED
      BY <1>0, <1>13, <2>1, <2>2, <2>3 DEF AppStartDownload, IdleInv
  <1>14. CASE AppWrite
    <2>1. flag = "clear" /\ IdleInv /\ flag' = "clear"
      BY <1>2, <1>3, <1>14 DEF AppWrite, PendingInv
    <2>2. OldWhole' /\ pc' = "app"
      BY <1>2, <1>14, <2>1 DEF AppWrite, IdleInv, OldWhole, TypeOK
    <2>3. ASSUME dl' # -1
          PROVE  dl' \in 0 .. newSize /\ \A p \in Pages : p < dl' => area'[p] = "new"
      BY <1>0, <1>2, <1>14, <2>1, <2>3 DEF AppWrite, IdleInv, TypeOK
    <2>4. QED
      BY <1>14, <2>1, <2>2, <2>3 DEF AppWrite, IdleInv
  <1>15. CASE AppCommit
    <2>1. flag = "clear" /\ IdleInv /\ flag' = "set"
      BY <1>2, <1>3, <1>15 DEF AppCommit, PendingInv
    <2>2. AreaWhole /\ OldWhole
      BY <1>2, <1>15, <2>1 DEF AppCommit, IdleInv, AreaWhole, TypeOK
    <2>3. QED
      BY <1>15, <2>1, <2>2 DEF AppCommit, PendingInv, SourceInv, OldWhole, AreaWhole
  <1>16. CASE Power
    <2>1. pc' = "reset" /\ dl' = -1 /\ UNCHANGED <<flag, oldSize, newSize>>
      BY <1>16 DEF Power, PowerCut, CutCopyErase, CutCopyWrite, CutWipe, CutAppWrite, Cut
    <2>2. CASE PowerCut
      BY <1>2, <1>3, <2>1, <2>2
         DEF PowerCut, IdleInv, PendingInv, SourceInv, OldWhole, NewWhole, AreaWhole
    <2>3. CASE CutCopyErase \/ CutCopyWrite
      <3>1. flag = "set" /\ PendingInv /\ i < n /\ pc \in {"copy", "write"} /\ area' = area
        BY <1>2, <1>3, <2>3
           DEF CutCopyErase, CutCopyWrite, Cut, IdleInv, IndexInv
      <3>2. AreaWhole /\ ~(newSize > LimitPages)
        BY <1>2, <3>1 DEF PendingInv, CopyInv, TypeOK
      <3>3. QED
        BY <2>1, <3>1, <3>2 DEF PendingInv, SourceInv, AreaWhole
    <2>4. CASE CutWipe
      <3>1. flag = "set" /\ PendingInv /\ slot' = slot /\ pc = "wipe" /\ i # 0
        BY <1>2, <1>3, <2>4 DEF CutWipe, Cut, IdleInv
      <3>2. NewWhole /\ area[0] = "erased" /\ ~(newSize > LimitPages)
        BY <1>2, <3>1 DEF PendingInv, WipeInv, TypeOK
      <3>3. area'[0] = "erased"
        BY <1>0, <1>2, <2>4, <3>1, <3>2 DEF CutWipe, Erase, Sector, TypeOK
      <3>4. QED
        BY <2>1, <3>1, <3>2, <3>3 DEF PendingInv, SourceInv, NewWhole
    <2>5. CASE CutAppWrite
      <3>1. flag = "clear" /\ IdleInv /\ slot' = slot
        BY <1>2, <1>3, <2>5 DEF CutAppWrite, Cut, PendingInv
      <3>2. QED
        BY <2>1, <3>1 DEF IdleInv, OldWhole, NewWhole
    <2>6. QED
      BY <1>16, <2>2, <2>3, <2>4, <2>5 DEF Power
  <1>17. CASE UNCHANGED vars
    BY <1>2, <1>17
       DEF vars, IdleInv, PendingInv, SourceInv, CopyInv, WipeInv, OldWhole, NewWhole, AreaWhole, Startable
  <1>18. QED
    BY <1>4, <1>5, <1>6, <1>7, <1>8, <1>9, <1>10, <1>11, <1>12, <1>13, <1>14, <1>15, <1>16, <1>17
       DEF Next, Boot, App

LEMMA Invariance == Spec => []IInv
  BY InitIInv, StepIInv, PTL DEF Spec

(* Type correctness, for every configuration. *)
THEOREM TypeCorrect == Spec => []TypeOK
  BY Invariance, PTL DEF IInv

(* The application only ever runs from a whole image (or after a power cut *)
(* inside the erase of the header sector).                                 *)
THEOREM AppSafe == Spec => []AppRunsWholeImage
  <1>1. IInv => AppRunsWholeImage
    BY DEF IInv, TypeOK, AppRunsWholeImage, IdleInv, PendingInv
  <1>2. QED
    BY <1>1, Invariance, PTL

(* The loader never destroys its only source. *)
THEOREM SourceSafe == Spec => []SourceUntilInstalled
  <1>1. IInv => SourceUntilInstalled
    BY DEF IInv, SourceUntilInstalled, PendingInv, SourceInv
  <1>2. QED
    BY <1>1, Invariance, PTL

(* An oversized image leaves the program area untouched. *)
THEOREM HangSafe == Spec => []HangKeepsOldImage
  <1>1. IInv => HangKeepsOldImage
    BY DEF IInv, TypeOK, HangKeepsOldImage, IdleInv, PendingInv
  <1>2. QED
    BY <1>1, Invariance, PTL

(* The device can be left unbootable only while the first page is rewritten,*)
(* and only a step of that window makes it so.                             *)
THEOREM WindowSafe == Spec => UnbootableOnlyInWindow
  <1>1. IInv => InWindow
    <2> SUFFICES ASSUME IInv, ~torn, ~Startable, pc \notin {"reset", "dead"}
                 PROVE  pc \in {"copy", "write", "verify"} /\ i = 0
      BY DEF InWindow, AtFirstPage
    <2>1. TypeOK /\ ~OldWhole /\ ~NewWhole
      BY WholeIsStartable DEF IInv
    <2>2. flag = "set" /\ PendingInv
      BY <2>1 DEF IInv, TypeOK, IdleInv
    <2>3. pc \in {"copy", "write", "verify"} /\ CopyInv
      BY <2>1, <2>2 DEF PendingInv, WipeInv, TypeOK, Running
    <2>4. i = 0
      BY <2>1, <2>3, SlotAssumption DEF CopyInv, Startable, TypeOK, Pages
    <2>5. QED
      BY <2>3, <2>4
  <1>2. TypeOK /\ [Next]_vars => [Startable /\ ~Startable' => AtFirstPage]_vars
    <2> SUFFICES ASSUME TypeOK, Next, Startable, ~Startable'
                 PROVE  AtFirstPage
      OBVIOUS
    <2> USE DEF Startable
    <2>1. 0 \in Pages /\ i \in Nat /\ slot \in [Pages -> Content]
      BY SlotAssumption DEF TypeOK, Pages
    <2>2. CASE CopyErase
      BY <2>1, <2>2, SectorAssumption DEF CopyErase, Erase, Sector, AtFirstPage
    <2>3. CASE CopyWrite
      BY <2>1, <2>3 DEF CopyWrite, AtFirstPage
    <2>4. CASE CutCopyErase
      BY <2>1, <2>4, SectorAssumption DEF CutCopyErase, Erase, Sector, AtFirstPage
    <2>5. CASE CutCopyWrite
      BY <2>1, <2>5 DEF CutCopyWrite, AtFirstPage
    <2>6. CASE AppStartDownload
      BY <2>1, <2>6 DEF AppStartDownload
    <2>7. QED
      BY <2>2, <2>3, <2>4, <2>5, <2>6
         DEF Next, StartUp, Boot, ReadHeader, CopyVerify, CopyDone, Wipe, WipeDone, ClearFlag,
             App, AppWrite, AppCommit, Power, PowerCut, CutWipe, CutAppWrite
  <1>3. IInv /\ IInv' /\ [Next]_vars
          => [InWindow' /\ (Startable /\ ~Startable' => AtFirstPage)]_vars
    <2>1. IInv' => InWindow'
      BY <1>1, PTL
    <2>2. QED
      BY <1>2, <2>1 DEF IInv
  <1>4. QED
    BY <1>3, Invariance, PTL DEF Spec, UnbootableOnlyInWindow

(* The flag is only ever cleared with the new image in place. *)
THEOREM CommitSafe == Spec => FlagClearedOnlyWhenInstalled
  <1>1. IInv /\ [Next]_vars => [flag = "set" /\ flag' = "clear" => torn \/ NewWhole]_vars
    BY DEF IInv, PendingInv, Next, vars, StartUp, Boot, ReadHeader, CopyErase, CopyWrite,
           CopyVerify, CopyDone, Wipe, WipeDone, ClearFlag, App, AppStartDownload, AppWrite,
           AppCommit, Power, PowerCut, CutCopyErase, CutCopyWrite, CutWipe, CutAppWrite, Cut
  <1>2. QED
    BY <1>1, Invariance, PTL DEF Spec, FlagClearedOnlyWhenInstalled
-----------------------------------------------------------------------------
(* Refinement of FirmwareUpdate. *)

\* the old start-up page is gone before the first page is programmed
WriteInv == pc \in {"write", "verify"} /\ ~torn => slot[0] # "old"

(* In the copy loop, after page 0, the start-up page is the new one.       *)
LEMMA CopyFacts ==
  ASSUME IInv, ~torn, pc \in {"copy", "write", "verify"}, i < n
  PROVE  /\ flag = "set" /\ n = newSize /\ AreaWhole /\ 0 \in Pages /\ i \in Pages
         /\ area[i] = "new"
         /\ i > 0 => slot[0] = "new"
  <1>1. flag = "set" /\ CopyInv /\ TypeOK
    BY DEF IInv, IdleInv, PendingInv, TypeOK
  <1>2. 0 \in Pages
    BY SlotAssumption DEF Pages
  <1>3. n = newSize /\ AreaWhole /\ (i > 0 => slot[0] = "new")
    BY <1>1, <1>2 DEF CopyInv, TypeOK
  <1>4. i \in Pages
    BY <1>1, <1>3, SlotAssumption DEF TypeOK, Pages
  <1>5. QED
    BY <1>1, <1>2, <1>3, <1>4 DEF AreaWhole

LEMMA WriteStep == IInv /\ WriteInv /\ [Next]_vars => WriteInv'
  <1> SUFFICES ASSUME IInv, WriteInv, [Next]_vars, ~torn', pc' \in {"write", "verify"}
               PROVE  slot'[0] # "old"
    BY DEF WriteInv
  <1>1. ~torn /\ TypeOK
    BY TornForGood DEF IInv
  <1>2. CASE CopyErase
    <2>1. 0 \in Pages /\ i \in Pages /\ (i > 0 => slot[0] = "new")
      BY <1>1, <1>2, CopyFacts DEF CopyErase
    <2>2. QED
      BY <1>1, <1>2, <2>1, SectorAssumption DEF CopyErase, Erase, Sector, TypeOK
  <1>3. CASE CopyWrite
    <2>1. i < n /\ pc \in {"copy", "write", "verify"}
      BY <1>3 DEF CopyWrite, IInv, IndexInv
    <2>2. 0 \in Pages /\ i \in Pages /\ area[i] = "new" /\ (i > 0 => slot[0] = "new")
      BY <1>1, <2>1, CopyFacts
    <2>3. QED
      BY <1>1, <1>3, <2>2 DEF CopyWrite, Program, TypeOK
  <1>4. CASE UNCHANGED <<pc, slot>>
    BY <1>1, <1>4 DEF WriteInv
  <1>5. QED
    BY <1>2, <1>3, <1>4
       DEF Next, vars, StartUp, Boot, ReadHeader, CopyVerify, CopyDone, Wipe, WipeDone, ClearFlag,
           App, AppStartDownload, AppWrite, AppCommit,
           Power, PowerCut, CutCopyErase, CutCopyWrite, CutWipe, CutAppWrite, Cut

(* Every step maps to a step of the abstract update, or to none. *)
LEMMA PromisedStep ==
  ASSUME IInv, IInv', WriteInv, ~torn, ~torn', [Next]_vars
  PROVE  FU!Promised \/ UNCHANGED <<Image, flag = "set", torn>>
  <1>0. TypeOK /\ TypeOK' /\ 0 \in Pages /\ flag \in {"set", "clear"} /\ torn' = torn
    BY SlotAssumption DEF IInv, TypeOK, Pages
  <1>1. CASE UNCHANGED <<slot, oldSize, newSize, flag>>
    <2>1. Image' = Image
      BY <1>1 DEF Image, OldWhole, NewWhole
    <2>2. QED
      BY <1>0, <1>1, <2>1
  <1>2. CASE CopyErase \/ CopyWrite \/ CutCopyErase \/ CutCopyWrite
    <2>1. i < n /\ pc \in {"copy", "write", "verify"}
          /\ UNCHANGED <<flag, oldSize, newSize>>
      BY <1>2 DEF CopyErase, CopyWrite, CutCopyErase, CutCopyWrite, Cut, IInv, IndexInv
    <2>2. flag = "set" /\ i \in Pages /\ area[i] = "new" /\ (i > 0 => slot[0] = "new")
      BY <2>1, CopyFacts
    <2>3. slot'[0] # "old" /\ (NewWhole' => ~OldWhole)
      <3>1. CASE CopyErase \/ CutCopyErase
        <4>1. slot'[0] # "old" /\ (i = 0 => slot'[0] # "new")
          BY <1>0, <2>2, <3>1, SectorAssumption
             DEF CopyErase, CutCopyErase, Erase, Sector, TypeOK
        <4>2. i > 0 => ~OldWhole
          BY <1>0, <2>2 DEF OldWhole, TypeOK
        <4>3. i = 0 => ~NewWhole'
          BY <1>0, <4>1 DEF NewWhole, TypeOK
        <4>4. QED
          BY <1>0, <4>1, <4>2, <4>3 DEF TypeOK
      <3>2. CASE CopyWrite \/ CutCopyWrite
        <4>1. slot[0] # "old"
          BY <1>0, <2>2, <3>2, SectorAssumption DEF CopyWrite, CutCopyWrite, WriteInv, TypeOK
        <4>2. slot'[0] # "old"
          BY <1>0, <2>2, <3>2, <4>1 DEF CopyWrite, CutCopyWrite, Program, TypeOK
        <4>3. QED
          BY <1>0, <4>1, <4>2 DEF OldWhole, TypeOK
      <3>3. QED
        BY <1>2, <3>1, <3>2
    <2>4. ~OldWhole'
      BY <1>0, <2>3 DEF OldWhole, TypeOK
    <2>5. Image' \in {"none", "new"} /\ (Image' = "new" => Image \in {"none", "new"})
      BY <2>3, <2>4 DEF Image
    <2>6. QED
      BY <1>0, <2>1, <2>2, <2>5 DEF FU!Promised, FU!Break, FU!Install
  <1>3. CASE ClearFlag
    <2>1. flag = "set" /\ NewWhole /\ flag' = "clear" /\ UNCHANGED <<slot, oldSize, newSize>>
      BY <1>0, <1>3 DEF ClearFlag, IInv, IdleInv, PendingInv
    <2>2. ~OldWhole
      BY <1>0, <2>1 DEF OldWhole, NewWhole, TypeOK
    <2>3. Image = "new" /\ Image' = "new"
      BY <2>1, <2>2 DEF Image, OldWhole, NewWhole
    <2>4. QED
      BY <2>1, <2>3 DEF FU!Promised, FU!Commit
  <1>4. CASE AppStartDownload
    <2>1. flag = "clear" /\ flag' = "clear" /\ (OldWhole \/ NewWhole)
      BY <1>0, <1>4 DEF AppStartDownload, IInv, IdleInv, PendingInv
    <2>2. Image \in {"old", "new"}
      BY <2>1 DEF Image
    <2>3. OldWhole'
      BY <1>0, <1>4, <2>1 DEF AppStartDownload, IInv, IdleInv, TypeOK, OldWhole, NewWhole, Pages
    <2>4. Image' = "old"
      BY <2>3 DEF Image
    <2>5. QED
      BY <1>0, <2>1, <2>2, <2>4 DEF FU!Promised, FU!Rebase
  <1>5. CASE AppCommit
    <2>1. flag = "clear" /\ flag' = "set" /\ OldWhole /\ UNCHANGED <<slot, oldSize, newSize>>
      BY <1>0, <1>5 DEF AppCommit, IInv, IdleInv, PendingInv, TypeOK
    <2>2. Image = "old" /\ Image' = "old"
      BY <2>1 DEF Image, OldWhole
    <2>3. QED
      BY <2>1, <2>2 DEF FU!Promised, FU!Arm
  <1>6. QED
    BY <1>1, <1>2, <1>3, <1>4, <1>5
       DEF Next, vars, StartUp, Boot, ReadHeader, CopyVerify, CopyDone, Wipe, WipeDone,
           App, AppWrite, Power, PowerCut, CutWipe, CutAppWrite, Cut

(* With the torn erase, which is the loss, and whatever follows it.        *)
LEMMA RefinementStep ==
  ASSUME IInv, IInv', WriteInv, [Next]_vars
  PROVE  [FU!Next]_<<Image, flag = "set", torn>>
  <1>1. CASE torn
    <2>1. torn' /\ torn' = torn
      BY <1>1, TornForGood DEF IInv, TypeOK
    <2>2. QED
      BY <1>1, <2>1 DEF FU!Next, FU!Anything
  <1>2. CASE ~torn /\ ~torn'
    BY <1>2, PromisedStep DEF FU!Next
  <1>3. CASE ~torn /\ torn'
    <2>1. CutWipe
      BY <1>3 DEF Next, vars, StartUp, Boot, ReadHeader, CopyErase, CopyWrite, CopyVerify, CopyDone,
             Wipe, WipeDone, ClearFlag, App, AppStartDownload, AppWrite, AppCommit,
             Power, PowerCut, CutCopyErase, CutCopyWrite, CutAppWrite
    <2>2. flag = "set" /\ UNCHANGED <<slot, flag, oldSize, newSize>>
      BY <1>3, <2>1 DEF CutWipe, Cut, IInv, PendingInv, IdleInv, TypeOK
    <2>3. Image' = Image
      BY <2>2 DEF Image, OldWhole, NewWhole
    <2>4. QED
      BY <1>3, <2>2, <2>3 DEF FU!Next, FU!Lose
  <1>4. QED
    BY <1>1, <1>2, <1>3

(* The loader, start-up code and application together implement the        *)
(* abstract firmware update.                                               *)
THEOREM Refinement == Spec => ImplementsFirmwareUpdate
  <1>1. Init => FU!Init
    BY DEF Init, FU!Init, Image, OldWhole
  <1>2. Init => WriteInv
    BY DEF Init, WriteInv
  <1>3. IInv /\ IInv' /\ WriteInv /\ [Next]_vars => [FU!Next]_FU!vars
    BY RefinementStep DEF FU!vars
  <1>4. QED
    BY <1>1, <1>2, <1>3, WriteStep, Invariance, PTL
       DEF Spec, FU!Spec, ImplementsFirmwareUpdate
-----------------------------------------------------------------------------
(* An armed update goes on for finitely many steps.  What is left to do has  *)
(* five parts, each of which counts only while those before it are equal:    *)
(* the power cuts and the faults still to come, whether the sector must be   *)
(* done again, how far the restart has come, and the steps left in the loop. *)

CutsLeft == MaxCuts - cuts
FaultsLeft == MaxFaults - faults

\* A page before the next sector boundary is neither erased nor programmed.
Spoiled ==
  /\ pc \in {"write", "verify"} \/ (pc = "copy" /\ i % SectorPages # 0)
  /\ \/ pc = "verify" /\ slot[i] # area[i]
     \/ \E q \in Pages : /\ q >= i /\ \A r \in (i + 1) .. q : r % SectorPages # 0
                         /\ slot[q] \notin {"erased", area[q]}

Redo == IF Spoiled THEN 1 ELSE 0

Phase ==
  CASE pc = "reset" -> 6 [] pc = "header" -> 5 [] pc \in {"copy", "write", "verify"} -> 4
    [] pc = "wipe" -> 3 [] pc = "clear" -> 2 [] OTHER -> 1

StepsLeft ==
  CASE pc = "copy" -> 3 * (n - i) + 3 [] pc = "write" -> 3 * (n - i) + 2
    [] pc = "verify" -> 3 * (n - i) + 1 [] pc = "wipe" /\ i < n -> n - i [] OTHER -> 0

\* Each part is a number, so that none can grow less for ever.
LeftIsNat ==
  /\ CutsLeft \in Nat /\ FaultsLeft \in Nat /\ Redo \in Nat /\ Phase \in Nat
  /\ StepsLeft \in Nat

LessLeft ==
  \/ CutsLeft' < CutsLeft
  \/ CutsLeft' = CutsLeft /\ FaultsLeft' < FaultsLeft
  \/ UNCHANGED <<CutsLeft, FaultsLeft>> /\ Redo' < Redo
  \/ UNCHANGED <<CutsLeft, FaultsLeft>> /\ Redo' <= Redo /\ Phase' < Phase
  \/ UNCHANGED <<CutsLeft, FaultsLeft>> /\ Redo' <= Redo /\ Phase' = Phase
     /\ StepsLeft' < StepsLeft

ArmedUpdateRunsOut == [][flag = "set" => flag' = "clear" \/ LessLeft]_vars

\* What the parts need to be numbers; the application runs with no flag set.
BoundInv ==
  /\ cuts <= MaxCuts /\ faults <= MaxFaults /\ n >= -1
  /\ pc = "copy" => i <= n \/ (i = 0 /\ n = -1)
  /\ pc = "app" => flag = "clear"

LEMMA BoundStep == TypeOK /\ IndexInv /\ BoundInv /\ [Next]_vars => BoundInv'
  <1> SUFFICES ASSUME TypeOK, IndexInv, BoundInv, [Next]_vars PROVE BoundInv'
    OBVIOUS
  <1>0. /\ cuts \in Nat /\ faults \in Nat /\ n \in Int /\ i \in Nat
        /\ cuts <= MaxCuts /\ faults <= MaxFaults /\ n >= -1
        /\ MaxCuts \in Nat /\ MaxFaults \in Nat
    BY BoundAssumption DEF TypeOK, BoundInv
  <1>1. CASE StartUp
    BY <1>1 DEF StartUp, BoundInv, TypeOK
  <1>2. CASE ReadHeader
    <2>1. n' \in (-1) .. SlotPages
      BY <1>2, SlotAssumption DEF ReadHeader, HeaderValues, TypeOK
    <2>2. QED
      BY <1>0, <1>2, <2>1, SlotAssumption DEF ReadHeader, BoundInv
  <1>3. CASE CopyErase \/ CopyWrite
    BY <1>0, <1>3 DEF CopyErase, CopyWrite, Sound, Fault, BoundInv
  <1>4. CASE CopyVerify
    <2>1. i < n
      BY <1>4 DEF CopyVerify, IndexInv
    <2>2. i' <= n
      BY <1>0, <1>4, <2>1, SectorStartBound DEF CopyVerify
    <2>3. QED
      BY <1>4, <2>2 DEF CopyVerify, BoundInv
  <1>5. CASE CopyDone \/ Wipe \/ WipeDone \/ ClearFlag
    BY <1>5 DEF CopyDone, Wipe, WipeDone, ClearFlag, BoundInv
  <1>6. CASE App
    BY <1>6 DEF App, AppStartDownload, AppWrite, AppCommit, BoundInv
  <1>7. CASE Power
    BY <1>0, <1>7 DEF Power, PowerCut, CutCopyErase, CutCopyWrite, CutWipe, CutAppWrite, Cut, BoundInv
  <1>8. CASE UNCHANGED vars
    BY <1>8 DEF vars, BoundInv
  <1>9. QED
    BY <1>1, <1>2, <1>3, <1>4, <1>5, <1>6, <1>7, <1>8 DEF Next, Boot

LEMMA LeftIs == TypeOK /\ IndexInv /\ BoundInv => LeftIsNat
  <1> SUFFICES ASSUME TypeOK, IndexInv, BoundInv PROVE LeftIsNat
    OBVIOUS
  <1>1. CutsLeft \in Nat /\ FaultsLeft \in Nat
    BY BoundAssumption DEF TypeOK, BoundInv, CutsLeft, FaultsLeft
  <1>2. Redo \in Nat /\ Phase \in Nat
    BY DEF Redo, Phase
  <1>3. StepsLeft \in Nat
    <2>1. i \in Nat /\ n \in Int
      BY DEF TypeOK
    <2>2. CASE pc \in {"copy", "write", "verify"}
      BY <2>1, <2>2 DEF IndexInv, BoundInv, StepsLeft
    <2>3. CASE pc \notin {"copy", "write", "verify"}
      BY <2>1, <2>3 DEF StepsLeft
    <2>4. QED
      BY <2>2, <2>3
  <1>4. QED
    BY <1>1, <1>2, <1>3 DEF LeftIsNat

\* A multiple of the sector length is a sector start.
LEMMA MultipleIsStart == ASSUME NEW d \in Int PROVE (SectorPages * d) % SectorPages = 0
  <1> DEFINE a == SectorPages * d
             e == d - (a \div SectorPages)
  <1>1. SectorPages \in Nat \ {0}
    BY SectorAssumption
  <1>2. a \in Int
    BY <1>1
  <1> HIDE DEF a
  <1>3. a \div SectorPages \in Int /\ a % SectorPages \in 0 .. SectorPages - 1
        /\ a = SectorPages * (a \div SectorPages) + (a % SectorPages)
    BY <1>1, <1>2
  <1>4. e \in Int /\ SectorPages * e = a % SectorPages
    BY <1>1, <1>3 DEF a
  <1> HIDE DEF e
  <1>5. e >= 1 => SectorPages * e >= SectorPages
    BY <1>1, <1>4
  <1>6. e <= -1 => SectorPages * e <= -SectorPages
    BY <1>1, <1>4
  <1>7. e = 0
    <2>1. e \in Int /\ SectorPages * e \in 0 .. SectorPages - 1
      BY <1>3, <1>4
    <2>2. SectorPages * e < SectorPages /\ SectorPages * e > -SectorPages
      BY <1>1, <2>1
    <2>3. QED
      BY <1>1, <1>5, <1>6, <2>1, <2>2
  <1>8. QED
    BY <1>1, <1>4, <1>7 DEF a

\* Sectors begin one length apart.
LEMMA Boundaries ==
  ASSUME NEW p \in Nat
  PROVE  SectorStart(p) % SectorPages = 0
         /\ (p % SectorPages = 0 => (p + SectorPages) % SectorPages = 0)
  <1> DEFINE d == p \div SectorPages
  <1>0. SectorPages \in Nat \ {0}
    BY SectorAssumption
  <1>1. d \in Int /\ p % SectorPages \in Int /\ p = SectorPages * d + (p % SectorPages)
    BY <1>0
  <1> HIDE DEF d
  <1>2. SectorStart(p) = SectorPages * d
    BY <1>0, <1>1 DEF SectorStart
  <1>3. p % SectorPages = 0 => p + SectorPages = SectorPages * (d + 1)
    BY <1>0, <1>1
  <1>4. (SectorPages * d) % SectorPages = 0 /\ (SectorPages * (d + 1)) % SectorPages = 0
    BY <1>1, MultipleIsStart
  <1>5. QED
    BY <1>2, <1>3, <1>4

(* The pages that are rewritten next are good after an erase, and stay good   *)
(* unless a fault comes in.                                                   *)
LEMMA ErasedIsGood == ASSUME TypeOK, CopyErase, Sound PROVE ~Spoiled'
  <1>1. faults \in Nat /\ i \in Nat /\ i % SectorPages = 0 /\ pc' = "write" /\ i' = i /\ area' = area
    BY DEF TypeOK, CopyErase
  <1>2. slot' = Erase(slot, i, "erased")
    BY <1>1 DEF CopyErase, Sound, Fault
  <1>3. ASSUME NEW q \in Pages, q >= i, \A r \in (i + 1) .. q : r % SectorPages # 0
        PROVE  slot'[q] = "erased"
    <2>1. q \in Int /\ SectorPages \in Nat \ {0} /\ (i + SectorPages) % SectorPages = 0
      <3>1. q \in Int /\ SectorPages \in Nat \ {0}
        BY SlotAssumption, SectorAssumption DEF Pages
      <3>2. (i + SectorPages) % SectorPages = 0
        <4>1. i \in Nat /\ i % SectorPages = 0
          BY <1>1
        <4>2. QED
          BY <4>1, Boundaries
      <3>3. QED
        BY <3>1, <3>2
    <2>2. q < i + SectorPages
      <3>1. CASE i + SectorPages <= q
        <4>1. i + SectorPages \in (i + 1) .. q
          BY <1>1, <2>1, <3>1
        <4>2. QED
          BY <1>3, <2>1, <4>1
      <3>2. QED
        BY <1>1, <2>1, <3>1
    <2>3. q \in Sector(i)
      BY <1>1, <1>3, <2>1, <2>2 DEF Sector
    <2>4. QED
      BY <1>2, <2>3 DEF Erase
  <1>4. QED
    BY <1>1, <1>3 DEF Spoiled

LEMMA WrittenIsGood == ASSUME TypeOK, IndexInv, BoundInv, CopyWrite, Sound, ~Spoiled PROVE ~Spoiled'
  <1>1. faults \in Nat /\ i \in Nat /\ pc' = "verify" /\ i' = i /\ area' = area
        /\ slot \in [Pages -> Content]
    BY DEF TypeOK, CopyWrite
  <1>2. slot' = [slot EXCEPT ![i] = Program(slot[i], area[i])]
    BY <1>1 DEF CopyWrite, Sound, Fault
  <1>3. i \in Pages
    BY SlotAssumption DEF CopyWrite, TypeOK, IndexInv, Pages
  <1>4. ASSUME NEW q \in Pages, q >= i, \A r \in (i + 1) .. q : r % SectorPages # 0
        PROVE  slot[q] \in {"erased", area[q]}
    BY <1>4 DEF Spoiled, CopyWrite
  <1>5. slot[i] \in {"erased", area[i]}
    BY <1>1, <1>3, <1>4
  <1>6. slot'[i] = area[i]
    BY <1>1, <1>2, <1>3, <1>5 DEF Program
  <1>7. \A q \in Pages : q # i => slot'[q] = slot[q]
    BY <1>1, <1>2
  <1>8. QED
    BY <1>1, <1>4, <1>6, <1>7 DEF Spoiled

LEMMA VerifiedIsGood == ASSUME TypeOK, CopyVerify, ~Spoiled PROVE ~Spoiled' /\ i' = i + 1
  <1>1. i \in Nat /\ pc = "verify" /\ pc' = "copy" /\ slot' = slot /\ area' = area
    BY DEF TypeOK, CopyVerify
  <1>2. slot[i] = area[i] /\ i' = i + 1
    BY <1>1 DEF Spoiled, CopyVerify
  <1>3. ASSUME NEW q \in Pages, q >= i + 1, (i + 1) % SectorPages # 0,
               \A r \in (i + 2) .. q : r % SectorPages # 0
        PROVE  slot[q] \in {"erased", area[q]}
    <2>1. q \in Int /\ \A r \in (i + 1) .. q : r = i + 1 \/ r \in (i + 2) .. q
      BY <1>1 DEF Pages
    <2>2. \A r \in (i + 1) .. q : r % SectorPages # 0
      BY <1>3, <2>1
    <2>3. q >= i
      BY <1>1, <1>3, <2>1
    <2>4. QED
      BY <1>1, <2>2, <2>3 DEF Spoiled
  <1>4. QED
    BY <1>1, <1>2, <1>3 DEF Spoiled

\* Going back to the start of a sector, which comes after a fault alone.
LEMMA SectorAgain ==
  ASSUME TypeOK, CopyVerify, Spoiled, slot[i] # area[i]
  PROVE  ~Spoiled'
  <1>1. i \in Nat /\ pc' = "copy" /\ i' = SectorStart(i)
    BY DEF TypeOK, CopyVerify
  <1>2. i' % SectorPages = 0
    BY <1>1, Boundaries
  <1>3. QED
    BY <1>1, <1>2 DEF Spoiled

\* With no power cut and no fault in the step.
LEMMA LessIs ==
  ASSUME LeftIsNat, LeftIsNat', cuts' = cuts, faults' = faults,
         Redo' <= Redo,
         Redo' < Redo \/ Phase' < Phase \/ (Phase' = Phase /\ StepsLeft' < StepsLeft)
  PROVE  LessLeft
  BY DEF LessLeft, CutsLeft, FaultsLeft

LEMMA ArmedStep ==
  ASSUME TypeOK, IndexInv, BoundInv, LeftIsNat, LeftIsNat', Next, flag = "set", flag' # "clear"
  PROVE  LessLeft
  <1>0. /\ i \in Nat /\ n \in Int /\ cuts \in Nat /\ faults \in Nat /\ SectorPages \in Nat \ {0}
        /\ Redo \in {0, 1} /\ Redo' \in {0, 1} /\ MaxCuts \in Nat /\ MaxFaults \in Nat
    BY SectorAssumption, BoundAssumption DEF TypeOK, Redo
  <1>1. CASE StartUp
    <2>1. pc = "reset" /\ pc' \in {"dead", "header"} /\ cuts' = cuts /\ faults' = faults
      BY <1>1 DEF StartUp
    <2>2. Phase' < Phase /\ Redo' = 0
      BY <2>1 DEF Phase, Redo, Spoiled
    <2>3. QED
      BY <1>0, <2>1, <2>2, LessIs
  <1>2. CASE ReadHeader
    <2>1. pc = "header" /\ (pc' = "hang" \/ (pc' = "copy" /\ i' = 0))
          /\ cuts' = cuts /\ faults' = faults
      BY <1>2 DEF ReadHeader
    <2>2. 0 % SectorPages = 0
      BY <1>0
    <2>3. Phase' < Phase /\ Redo' = 0
      BY <2>1, <2>2 DEF Phase, Redo, Spoiled
    <2>4. QED
      BY <1>0, <2>1, <2>3, LessIs
  <1>3. CASE (CopyErase \/ CopyWrite) /\ Fault
    <2>1. FaultsLeft' < FaultsLeft /\ CutsLeft' = CutsLeft
      BY <1>0, <1>3 DEF CopyErase, CopyWrite, Fault, FaultsLeft, CutsLeft
    <2>2. QED
      BY <2>1 DEF LessLeft
  <1>4. CASE CopyErase /\ Sound
    <2>1. pc = "copy" /\ pc' = "write" /\ i' = i /\ n' = n /\ cuts' = cuts /\ faults' = faults
      BY <1>4 DEF CopyErase, Sound
    <2>2. Redo' = 0
      BY <1>4, ErasedIsGood DEF Redo
    <2>3. Phase' = Phase /\ StepsLeft' < StepsLeft
      BY <1>0, <2>1 DEF Phase, StepsLeft
    <2>4. QED
      BY <1>0, <2>1, <2>2, <2>3, LessIs
  <1>5. CASE CopyWrite /\ Sound
    <2>1. pc \in {"copy", "write"} /\ pc' = "verify" /\ i' = i /\ n' = n /\ cuts' = cuts /\ faults' = faults
      BY <1>5 DEF CopyWrite, Sound
    <2>2. Redo' <= Redo
      BY <1>0, <1>5, WrittenIsGood DEF Redo
    <2>3. Phase' = Phase /\ StepsLeft' < StepsLeft
      BY <1>0, <2>1 DEF Phase, StepsLeft
    <2>4. QED
      BY <1>0, <2>1, <2>2, <2>3, LessIs
  <1>6. CASE CopyVerify
    <2>1. pc = "verify" /\ pc' = "copy" /\ n' = n /\ cuts' = cuts /\ faults' = faults
      BY <1>6 DEF CopyVerify
    <2>2. CASE slot[i] = area[i]
      <3>1. i' = i + 1
        BY <1>6, <2>2 DEF CopyVerify
      <3>2. Redo' <= Redo
        BY <1>0, <1>6, VerifiedIsGood DEF Redo
      <3>3. Phase' = Phase /\ StepsLeft' < StepsLeft
        BY <1>0, <2>1, <3>1 DEF Phase, StepsLeft
      <3>4. QED
        BY <1>0, <2>1, <3>2, <3>3, LessIs
    <2>3. CASE slot[i] # area[i]
      <3>1. Spoiled
        BY <2>1, <2>3 DEF Spoiled
      <3>2. Redo' < Redo
        BY <1>6, <2>3, <3>1, SectorAgain DEF Redo
      <3>3. QED
        BY <1>0, <2>1, <3>2, LessIs
    <2>4. QED
      BY <2>2, <2>3
  <1>7. CASE CopyDone \/ WipeDone
    <2>1. /\ (pc = "copy" /\ pc' = "wipe") \/ (pc = "wipe" /\ pc' = "clear")
          /\ cuts' = cuts /\ faults' = faults
      BY <1>7 DEF CopyDone, WipeDone
    <2>2. Phase' < Phase /\ Redo' = 0
      BY <2>1 DEF Phase, Redo, Spoiled
    <2>3. QED
      BY <1>0, <2>1, <2>2, LessIs
  <1>8. CASE Wipe
    <2>1. pc = "wipe" /\ pc' = "wipe" /\ i < n /\ i' = i + SectorPages /\ n' = n
          /\ cuts' = cuts /\ faults' = faults
      BY <1>8 DEF Wipe
    <2>2. Phase' = Phase /\ StepsLeft' < StepsLeft /\ Redo' = 0
      BY <1>0, <2>1 DEF Phase, StepsLeft, Redo, Spoiled
    <2>3. QED
      BY <1>0, <2>1, <2>2, LessIs
  <1>9. CASE Power
    <2>1. cuts' = cuts + 1
      BY <1>9 DEF Power, PowerCut, CutCopyErase, CutCopyWrite, CutWipe, CutAppWrite, Cut
    <2>2. CutsLeft' < CutsLeft
      BY <1>0, <2>1 DEF CutsLeft
    <2>3. QED
      BY <2>2 DEF LessLeft
  <1>10. CASE ClearFlag \/ App
    BY <1>10 DEF ClearFlag, App, AppStartDownload, AppWrite, AppCommit, BoundInv
  <1>11. (CopyErase \/ CopyWrite) => (Sound \/ Fault)
    BY DEF CopyErase, CopyWrite
  <1>12. QED
    BY <1>1, <1>2, <1>3, <1>4, <1>5, <1>6, <1>7, <1>8, <1>9, <1>10, <1>11 DEF Next, Boot

(* An armed update takes finitely many steps, whatever the order of steps,   *)
(* cuts and faults: as long as the flag is set every step leaves less to do, *)
(* a page that reads back wrong is copied once more and no other, and what   *)
(* is left cannot shrink for ever.  With a step of start-up or loader taken  *)
(* whenever there is one, which is fairness, the update therefore ends.      *)
THEOREM ArmedUpdateShrinks == Spec => []LeftIsNat /\ ArmedUpdateRunsOut
  <1> DEFINE BInv == TypeOK /\ IndexInv /\ BoundInv
  <1>1. Init => BInv
    <2> SUFFICES ASSUME Init PROVE BoundInv
      BY InitIInv DEF IInv
    <2>1. QED
      BY BoundAssumption DEF Init, BoundInv
  <1>2. BInv /\ [Next]_vars => BInv'
    BY TypeStep, BoundStep
  <1>3. BInv => LeftIsNat
    BY LeftIs
  <1>4. BInv /\ LeftIsNat /\ LeftIsNat' /\ [Next]_vars
          => [flag = "set" => flag' = "clear" \/ LessLeft]_vars
    BY ArmedStep
  <1>5. QED
    BY <1>1, <1>2, <1>3, <1>4, PTL DEF Spec, ArmedUpdateRunsOut
=============================================================================
