------------------------------- MODULE OtaBoot -------------------------------
(***************************************************************************)
(* Firmware replacement on the 8266 remote.                                *)
(*                                                                         *)
(* The running application receives a new image into the second flash area *)
(* (0x20000), sets the OTA flag word (0x3f000) and resets.  The start-up   *)
(* code of the application image sees the flag and starts the OTA boot     *)
(* loader from RAM; the loader (vendor/8266_ota_boot/main.c) copies the    *)
(* image over the program area (0x00000) page by page, erases the second   *)
(* area, clears the flag and reboots.  Power may be cut between any two    *)
(* flash operations and inside each of them.                               *)
(*                                                                         *)
(* Flash content is abstracted page by page to what the properties tell    *)
(* apart: which image the page belongs to, erased, or unreadable.          *)
(***************************************************************************)
EXTENDS Integers

CONSTANTS
  SectorPages,  \* 256-byte pages in an erase sector            (16)
  SlotPages,    \* pages in either area                         (0x1f000 / 256)
  LimitPages,   \* largest image the boot loader copies         (64K / 256)
  Sizes,        \* page counts of the images that are downloaded
  TornErase,    \* can a power cut leave a sector half erased?
  MaxCuts,      \* bound on power cuts
  MaxFaults,    \* bound on flash operations that fail
  MaxUpdates    \* bound on downloads

ASSUME SectorAssumption == SectorPages \in Nat \ {0}
ASSUME SlotAssumption   == SlotPages \in Nat \ {0}
ASSUME LimitAssumption  == LimitPages \in Nat
ASSUME SizesAssumption  == Sizes \subseteq 1 .. SlotPages
ASSUME TornAssumption   == TornErase \in BOOLEAN
ASSUME BoundAssumption  == MaxCuts \in Nat /\ MaxFaults \in Nat /\ MaxUpdates \in Nat

Pages == 0 .. (SlotPages - 1)

(* "old": the image that ran when the last download began; "new": the      *)
(* downloaded one; "bad": a page of the program area that reads back wrong;*)
(* "junk": a page of the second area whose bits are undefined.             *)
Content == {"old", "new", "erased", "bad", "junk"}

VARIABLES
  slot,     \* program area, what the MCU boots from
  area,     \* second area, what the download fills
  flag,     \* the OTA flag word
  pc,       \* what the MCU executes
  i,        \* the loop index of the boot loader, in pages
  n,        \* n_firmware read from the image header, in pages (-1: 0xffffffff)
  dl,       \* pages the application has downloaded (-1: no download)
  oldSize,  \* size of the image that ran when the download began
  newSize,  \* size of the image being downloaded or installed
  torn,     \* a power cut hit the erase of the header sector of the second area
  cuts, faults, updates

vars == <<slot, area, flag, pc, i, n, dl, oldSize, newSize, torn, cuts, faults, updates>>

Running == {"copy", "write", "verify", "wipe", "clear"}   \* inside main's loops

TypeOK ==
  /\ slot \in [Pages -> Content]
  /\ area \in [Pages -> Content]
  /\ flag \in {"set", "clear"}
  /\ pc \in {"reset", "app", "header", "hang", "dead"} \union Running
  /\ i \in Nat
  /\ n \in Int
  /\ dl \in Int
  /\ oldSize \in 1 .. SlotPages
  /\ newSize \in 1 .. SlotPages
  /\ torn \in BOOLEAN
  /\ cuts \in Nat /\ faults \in Nat /\ updates \in Nat

-----------------------------------------------------------------------------
(* Flash.                                                                  *)

(* Programming only clears bits: data lands intact on an erased page, and  *)
(* programming a page with what it already holds leaves it as it was.      *)
Program(old, data) == IF old \in {"erased", data} THEN data ELSE "bad"

Sector(p) == p .. (p + SectorPages - 1)   \* erased when p is a sector start

Erase(mem, p, result) == [q \in Pages |-> IF q \in Sector(p) THEN result ELSE mem[q]]

(* Mutants of SectorStart: one page too far (i -= 256 forgotten), no step   *)
(* back at all (i &= 0xfff000 forgotten), one sector too far.              *)
SectorStartOneOff(p) == p - (p % SectorPages) + 1
SectorStartSame(p)   == p
SectorStartFar(p)    == p - SectorPages

(* i &= 0xfff000 *)
SectorStart(p) == p - (p % SectorPages)

-----------------------------------------------------------------------------
(* What the two areas hold.                                                *)

OldWhole  == \A p \in Pages : p < oldSize => slot[p] = "old"
NewWhole  == \A p \in Pages : p < newSize => slot[p] = "new"
AreaWhole == \A p \in Pages : p < newSize => area[p] = "new"

Startable == slot[0] \in {"old", "new"}   \* the start-up code is readable

-----------------------------------------------------------------------------
Init ==
  /\ oldSize \in Sizes /\ newSize = oldSize
  /\ slot = [p \in Pages |-> IF p < oldSize THEN "old" ELSE "erased"]
  /\ area = [p \in Pages |-> "erased"]
  /\ flag = "clear" /\ pc = "reset"
  /\ i = 0 /\ n = 0 /\ dl = -1
  /\ torn = FALSE
  /\ cuts = 0 /\ faults = 0 /\ updates = 0

(* Start-up code at address 0: with the flag word equal to 0xa5 it loads   *)
(* the boot loader into RAM and jumps to it, otherwise it runs the         *)
(* application.  Without readable code at address 0 nothing runs.          *)
StartUp ==
  /\ pc = "reset"
  /\ pc' = IF ~Startable THEN "dead" ELSE IF flag = "set" THEN "header" ELSE "app"
  /\ UNCHANGED <<slot, area, flag, i, n, dl, oldSize, newSize, torn, cuts, faults, updates>>

(* What n_firmware may read as, a signed int. *)
HeaderValues ==
  CASE area[0] = "new"    -> {newSize}
    [] area[0] = "erased" -> {-1}
    [] OTHER              -> (-1) .. SlotPages

(* Mutant: the size is checked after the first erase. *)
ReadHeaderLate ==
  /\ pc = "header"
  /\ n' \in HeaderValues
  /\ i' = 0
  /\ pc' = IF n' > LimitPages THEN "hang" ELSE "copy"
  /\ slot' = Erase(slot, 0, "erased")
  /\ UNCHANGED <<area, flag, dl, oldSize, newSize, torn, cuts, faults, updates>>

(* main: read the header page, hang when the image is over 64K. *)
ReadHeader ==
  /\ pc = "header"
  /\ n' \in HeaderValues
  /\ i' = 0
  /\ pc' = IF n' > LimitPages THEN "hang" ELSE "copy"
  /\ UNCHANGED <<slot, area, flag, dl, oldSize, newSize, torn, cuts, faults, updates>>

(* One flash operation of the loader may fail and leave the page wrong. *)
Fault == faults < MaxFaults /\ faults' = faults + 1
Sound == faults' = faults

(* The copy loop reaches a sector boundary and erases the sector. *)
CopyErase ==
  /\ pc = "copy" /\ i < n /\ i % SectorPages = 0
  /\ \/ Sound /\ slot' = Erase(slot, i, "erased")
     \/ Fault /\ slot' = Erase(slot, i, "bad")
  /\ pc' = "write"
  /\ UNCHANGED <<area, flag, i, n, dl, oldSize, newSize, torn, cuts, updates>>

(* Read the page of the new image and program it into the program area. *)
CopyWrite ==
  /\ \/ pc = "write"
     \/ pc = "copy" /\ i < n /\ i % SectorPages # 0
  /\ \/ Sound /\ slot' = [slot EXCEPT ![i] = Program(slot[i], area[i])]
     \/ Fault /\ slot' = [slot EXCEPT ![i] = "bad"]
  /\ pc' = "verify"
  /\ UNCHANGED <<area, flag, i, n, dl, oldSize, newSize, torn, cuts, updates>>

(* Read back: the next page, or the whole sector again on a mismatch. *)
CopyVerify ==
  /\ pc = "verify"
  /\ i' = IF slot[i] = area[i] THEN i + 1 ELSE SectorStart(i)
  /\ pc' = "copy"
  /\ UNCHANGED <<slot, area, flag, n, dl, oldSize, newSize, torn, cuts, faults, updates>>

(* Mutant: the loop stops one page short. *)
CopyDoneEarly ==
  /\ pc = "copy" /\ i + 1 >= n
  /\ pc' = "wipe" /\ i' = 0
  /\ UNCHANGED <<slot, area, flag, n, dl, oldSize, newSize, torn, cuts, faults, updates>>

(* The copy loop has reached n_firmware. *)
CopyDone ==
  /\ pc = "copy" /\ i >= n
  /\ pc' = "wipe" /\ i' = 0
  /\ UNCHANGED <<slot, area, flag, n, dl, oldSize, newSize, torn, cuts, faults, updates>>

(* The second loop erases the sectors the image occupied, header first.    *)
(* The page steps inside a sector do nothing and are taken together.       *)
Wipe ==
  /\ pc = "wipe" /\ i < n
  /\ area' = Erase(area, i, "erased")
  /\ i' = i + SectorPages
  /\ UNCHANGED <<slot, flag, pc, n, dl, oldSize, newSize, torn, cuts, faults, updates>>

WipeDone ==
  /\ pc = "wipe" /\ i >= n
  /\ pc' = "clear"
  /\ UNCHANGED <<slot, area, flag, i, n, dl, oldSize, newSize, torn, cuts, faults, updates>>

(* Clear the flag byte and reboot. *)
ClearFlag ==
  /\ pc = "clear"
  /\ flag' = "clear" /\ pc' = "reset"
  /\ UNCHANGED <<slot, area, i, n, dl, oldSize, newSize, torn, cuts, faults, updates>>

-----------------------------------------------------------------------------
(* The application (its OTA library is a binary): it programs the pages in *)
(* order without erasing, gives up on a write error, and sets the flag and *)
(* resets once the image is complete.                                      *)

AppStartDownload ==
  /\ pc = "app" /\ dl = -1 /\ updates < MaxUpdates
  /\ newSize' \in Sizes
  /\ oldSize' = IF NewWhole THEN newSize ELSE oldSize
  /\ slot' = [p \in Pages |-> IF slot[p] = "new" THEN "old" ELSE slot[p]]
  /\ area' = [p \in Pages |-> IF area[p] = "new" THEN "junk" ELSE area[p]]
  /\ dl' = 0 /\ updates' = updates + 1
  /\ UNCHANGED <<flag, pc, i, n, torn, cuts, faults>>

AppWrite ==
  /\ pc = "app" /\ 0 <= dl /\ dl < newSize
  /\ IF area[dl] = "erased"
       THEN /\ area' = [area EXCEPT ![dl] = "new"]
            /\ dl' = dl + 1
       ELSE /\ area' = [area EXCEPT ![dl] = "junk"]
            /\ dl' = -1
  /\ UNCHANGED <<slot, flag, pc, i, n, oldSize, newSize, torn, cuts, faults, updates>>

AppCommit ==
  /\ pc = "app" /\ dl = newSize
  /\ flag' = "set" /\ pc' = "reset" /\ dl' = -1
  /\ UNCHANGED <<slot, area, i, n, oldSize, newSize, torn, cuts, faults, updates>>

-----------------------------------------------------------------------------
(* Power loss: RAM is gone, the flash operation under way is half done.    *)

Cut ==
  /\ pc \notin {"reset", "dead"}
  /\ cuts < MaxCuts /\ cuts' = cuts + 1
  /\ pc' = "reset" /\ i' = 0 /\ n' = 0 /\ dl' = -1
  /\ UNCHANGED <<flag, oldSize, newSize, faults, updates>>

(* Between two flash operations. *)
PowerCut == Cut /\ UNCHANGED <<slot, area, torn>>

(* Inside the erase or the programming of the program area. *)
CutCopyErase ==
  /\ Cut /\ pc = "copy" /\ i < n /\ i % SectorPages = 0
  /\ slot' = Erase(slot, i, "bad")
  /\ UNCHANGED <<area, torn>>

CutCopyWrite ==
  /\ Cut
  /\ pc = "write" \/ (pc = "copy" /\ i < n /\ i % SectorPages # 0)
  /\ slot' = [slot EXCEPT ![i] = "bad"]
  /\ UNCHANGED <<area, torn>>

(* Inside the erase of the second area. *)
CutWipe ==
  /\ Cut /\ TornErase /\ pc = "wipe" /\ i < n
  /\ area' = Erase(area, i, "junk")
  /\ torn' = (torn \/ i = 0)
  /\ UNCHANGED slot

(* Inside the programming of a downloaded page. *)
CutAppWrite ==
  /\ Cut /\ pc = "app" /\ 0 <= dl /\ dl < newSize
  /\ area' = [area EXCEPT ![dl] = "junk"]
  /\ UNCHANGED <<slot, torn>>

Boot == ReadHeader \/ CopyErase \/ CopyWrite \/ CopyVerify \/ CopyDone \/ Wipe \/ WipeDone \/ ClearFlag

App == AppStartDownload \/ AppWrite \/ AppCommit

Power == PowerCut \/ CutCopyErase \/ CutCopyWrite \/ CutWipe \/ CutAppWrite

Next == StartUp \/ Boot \/ App \/ Power

Spec == Init /\ [][Next]_vars

(* The MCU keeps executing: start-up and loader steps are never withheld   *)
(* forever.  Whether somebody sends an update is up to the environment.    *)
FairSpec == Spec /\ WF_vars(StartUp) /\ WF_vars(Boot)
-----------------------------------------------------------------------------
(* Whatever happens - failing flash operations, power cuts at any point,   *)
(* several updates in a row - the application only ever runs from a whole  *)
(* image: start-up hands over to it only when the program area holds all   *)
(* of the old or all of the new pages.  The one way out is a power cut     *)
(* inside the erase of the header sector of the second area, after which   *)
(* the loader's header read is arbitrary.                                  *)
AppRunsWholeImage == pc = "app" => torn \/ OldWhole \/ NewWhole

(* The loader never destroys its only source: as long as the flag asks for *)
(* an update, the complete image is in the second area or already in the   *)
(* program area.  This is what makes a restart from the top of main safe.  *)
SourceUntilInstalled == flag = "set" => torn \/ AreaWhole \/ NewWhole

(* The start-up code lives in the first page of the very area the loader   *)
(* rewrites.  The device is left unbootable only between the erase of      *)
(* sector 0 and the read-back of its first page, and no other step, power  *)
(* cuts and retries of a later page included, ever takes a bootable device *)
(* out of use: from then on a cut leads back into the loader.              *)
AtFirstPage == pc \in {"copy", "write", "verify"} /\ i = 0
InWindow == torn \/ Startable \/ pc \in {"reset", "dead"} \/ AtFirstPage
UnbootableOnlyInWindow ==
  [][InWindow' /\ (Startable /\ ~Startable' => AtFirstPage)]_vars

(* An oversized image (over 64K) stops the loader before it has touched    *)
(* the program area: the old image is still there.                         *)
HangKeepsOldImage == pc = "hang" => torn \/ OldWhole

(* The flag is cleared by the loader, and only with the new image in place.*)
FlagClearedOnlyWhenInstalled ==
  [][flag = "set" /\ flag' = "clear" => torn \/ NewWhole]_vars

(* An armed update of a copyable image ends, whatever faults and power     *)
(* cuts interrupt it: installed and disarmed, unless a cut in the window   *)
(* above left nothing to start from.                                       *)
UpdateEnds ==
  (flag = "set" /\ newSize <= LimitPages)
    ~> (flag = "clear" \/ pc = "dead" \/ torn)

(* main.c:104 says that the second loop leaves the second area erased "for *)
(* next OTA": an application that is running, and not downloading, finds   *)
(* the pages of the image just installed erased.                           *)
AreaErasedForNextOta ==
  pc = "app" /\ dl = -1 /\ NewWhole =>
     torn \/ \A p \in Pages : p < newSize => area[p] = "erased"
-----------------------------------------------------------------------------
(* The loader implements the abstract update: the image is the one the     *)
(* program area holds completely, the update is armed while the flag is    *)
(* set, and the download is lost when a power cut tears its header sector. *)
Image == IF OldWhole THEN "old" ELSE IF NewWhole THEN "new" ELSE "none"

FU == INSTANCE FirmwareUpdate WITH image <- Image, armed <- (flag = "set"), lost <- torn

(* Every step of start-up, loader and application, torn erases included,   *)
(* is a step of the abstract update or leaves it as it is.                 *)
ImplementsFirmwareUpdate == FU!Spec
=============================================================================
