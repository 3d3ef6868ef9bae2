------------------------------ MODULE BondTable -----------------------------
(***************************************************************************)
(* The dongle's table of paired remotes and its log in one flash sector    *)
(* (vendor/8266_ble_master_kma_dongle/dongle.c, tbl_slave_mac_ and         *)
(* bond_slave_flash_ functions).                                           *)
(*                                                                         *)
(* The log is an array of eight-byte areas: a mark (0xff end of the log,   *)
(* 0x01 valid, 0x00 deleted) and an address.  Bits are only ever cleared;  *)
(* the sector is erased at start-up alone, when the log has grown past a   *)
(* quarter of it.  Power may be cut between any two flash operations.      *)
(***************************************************************************)
EXTENDS Integers, Sequences, FiniteSets, SequencesExt

CONSTANTS
  Addr,         \* addresses of remotes
  MaxNum,       \* PAIR_SLAVE_MAX_NUM
  SectorSlots,  \* areas in the sector                     (4096 / 8)
  CleanSlots,   \* log length from which start-up cleans   (1024 / 8)
  FlashSlots,   \* areas modelled, the next sector included
  MaxAdds,      \* bound on pairings
  MaxCuts       \* bound on power cuts

ASSUME SlotsAssumption ==
  /\ SectorSlots \in Nat /\ CleanSlots \in Nat /\ FlashSlots \in Nat
  /\ 0 < CleanSlots /\ CleanSlots < SectorSlots /\ SectorSlots <= FlashSlots
ASSUME MaxAssumption  == MaxNum \in Nat \ {0}
ASSUME BoundAssumption == MaxAdds \in Nat /\ MaxCuts \in Nat
ASSUME AddrAssumption == Addr \cap {"ff", "mix"} = {}

Slots  == 0 .. (FlashSlots - 1)
Sector == 0 .. (SectorSlots - 1)

VARIABLES
  flash,   \* the areas: a mark and an address each
  tbl,     \* tbl_slaveMac: bonds in RAM, oldest first, each with its area
  idx,     \* bond_slave_flash_cfg_idx in areas: newest used area, -1 if none
  pc,      \* the operation in progress
  adr,     \* its address argument
  k,       \* its loop index
  adds, cuts

vars == <<flash, tbl, idx, pc, adr, k, adds, cuts>>

Blank  == [mark |-> "ff", addr |-> "ff"]
Stored == Addr \union {"ff", "mix"}   \* "ff": never written, "mix": written twice

TypeOK ==
  /\ flash \in [Slots -> [mark : {"ff", "01", "00"}, addr : Stored]]
  /\ tbl \in Seq([addr : Stored, idx : Slots]) /\ Len(tbl) <= MaxNum
  /\ idx \in -1 .. (FlashSlots - 1)
  /\ pc \in {"off", "run", "hang", "replace", "addMark", "addAddr", "unpair",
             "cleanErase", "cleanMark", "cleanAddr"}
  /\ adr \in Addr
  /\ k \in 1 .. (MaxNum + 1)
  /\ adds \in 0 .. MaxAdds /\ cuts \in 0 .. MaxCuts

-----------------------------------------------------------------------------
(* flash_write_page of one mark or one address: bits are only cleared. *)
WriteMark(s, mark) ==
  flash' = [flash EXCEPT ![s].mark = IF @ = "ff" \/ mark = "00" THEN mark ELSE @]

WriteAddr(s, a) ==
  flash' = [flash EXCEPT ![s].addr = IF @ \in {"ff", a} THEN a ELSE "mix"]

-----------------------------------------------------------------------------
(* The log as start-up reads it: up to the first blank mark or the end of  *)
(* the sector.                                                             *)
(* Mutant: the scan also stops at a deleted area. *)
LogEndAtDeleted == IF \E s \in Sector : flash[s].mark # "01"
                     THEN CHOOSE s \in Sector : /\ flash[s].mark # "01"
                                                /\ \A t \in Sector : t < s => flash[t].mark = "01"
                     ELSE SectorSlots

(* The first blank mark, or the end of the sector. *)
LogEnd == IF \E s \in Sector : flash[s].mark = "ff"
            THEN CHOOSE s \in Sector : /\ flash[s].mark = "ff"
                                       /\ \A t \in Sector : t < s => flash[t].mark # "ff"
            ELSE SectorSlots

Valid == {s \in 0 .. (LogEnd - 1) : flash[s].mark = "01"}

\* The numbers in S in ascending order.
Ascending(S) == [j \in 1 .. Cardinality(S) |->
                  CHOOSE s \in S : Cardinality({t \in S : t <= s}) = j]

Areas == Ascending(Valid)

Loaded == [j \in DOMAIN Areas |-> [addr |-> flash[Areas[j]].addr, idx |-> Areas[j]]]

Init ==
  /\ flash = [s \in Slots |-> Blank]
  /\ tbl = <<>> /\ idx = -1
  /\ pc = "off" /\ adr \in Addr /\ k = 1
  /\ adds = 0 /\ cuts = 0

(* Power-up: scan the log, load the bonds, stop for good on one too many;  *)
(* clean the sector when the log is long.                                  *)
ConfigInit ==
  /\ pc = "off"
  /\ IF Cardinality(Valid) > MaxNum
       THEN pc' = "hang" /\ UNCHANGED <<tbl, idx>>
       ELSE /\ tbl' = Loaded
            /\ idx' = LogEnd - 1
            /\ pc' = IF idx' < CleanSlots THEN "run" ELSE "cleanErase"
  /\ UNCHANGED <<flash, adr, k, adds, cuts>>

CleanErase ==
  /\ pc = "cleanErase"
  /\ flash' = [s \in Slots |-> IF s \in Sector THEN Blank ELSE flash[s]]
  /\ idx' = -1 /\ k' = 1
  /\ pc' = IF tbl = <<>> THEN "run" ELSE "cleanMark"
  /\ UNCHANGED <<tbl, adr, adds, cuts>>

(* Rewrite bond k at the beginning of the sector: mark, then address. *)
CleanMark ==
  /\ pc = "cleanMark"
  /\ idx' = idx + 1
  /\ WriteMark(idx + 1, "01")
  /\ pc' = "cleanAddr"
  /\ UNCHANGED <<tbl, adr, k, adds, cuts>>

(* Mutant: the rewritten bond keeps its old area index in RAM. *)
CleanAddrOldIdx ==
  /\ pc = "cleanAddr"
  /\ WriteAddr(idx, tbl[k].addr)
  /\ k' = k + 1
  /\ pc' = IF k < Len(tbl) THEN "cleanMark" ELSE "run"
  /\ UNCHANGED <<tbl, idx, adr, adds, cuts>>

(* Then its address, and the next bond. *)
CleanAddr ==
  /\ pc = "cleanAddr"
  /\ WriteAddr(idx, tbl[k].addr)
  /\ tbl' = [tbl EXCEPT ![k].idx = idx]
  /\ k' = k + 1
  /\ pc' = IF k < Len(tbl) THEN "cleanMark" ELSE "run"
  /\ UNCHANGED <<idx, adr, adds, cuts>>

-----------------------------------------------------------------------------
(* tbl_slave_mac_add. *)

(* Mutant: one bond more than the table holds. *)
AddOneTooMany(a) ==
  /\ pc = "run" /\ adds < MaxAdds /\ idx + 1 \in Slots
  /\ adr' = a /\ adds' = adds + 1
  /\ pc' = IF Len(tbl) > MaxNum THEN "replace" ELSE "addMark"
  /\ UNCHANGED <<flash, tbl, idx, k, cuts>>

(* The table is full: replace first. *)
Add(a) ==
  /\ pc = "run" /\ adds < MaxAdds /\ idx + 1 \in Slots
  /\ adr' = a /\ adds' = adds + 1
  /\ pc' = IF Len(tbl) >= MaxNum THEN "replace" ELSE "addMark"
  /\ UNCHANGED <<flash, tbl, idx, k, cuts>>

(* Mutant: the old area is not marked in flash.                            *)
ReplaceUnmarked ==
  /\ pc = "replace"
  /\ tbl' = Tail(tbl)
  /\ pc' = "addMark"
  /\ UNCHANGED <<flash, idx, adr, k, adds, cuts>>

\* tbl_slave_mac_delete_by_index(0)
Replace ==
  /\ pc = "replace"
  /\ WriteMark(tbl[1].idx, "00")
  /\ tbl' = Tail(tbl)
  /\ pc' = "addMark"
  /\ UNCHANGED <<idx, adr, k, adds, cuts>>

(* Mutant: the log index is not advanced. *)
AddMarkSameArea ==
  /\ pc = "addMark"
  /\ idx' = IF idx < 0 THEN 0 ELSE idx
  /\ WriteMark(idx', "01")
  /\ pc' = "addAddr"
  /\ UNCHANGED <<tbl, adr, k, adds, cuts>>

(* The next area gets the valid mark, *)
AddMark ==
  /\ pc = "addMark"
  /\ idx' = idx + 1
  /\ WriteMark(idx + 1, "01")
  /\ pc' = "addAddr"
  /\ UNCHANGED <<tbl, adr, k, adds, cuts>>

(* and then the address. *)
AddAddr ==
  /\ pc = "addAddr"
  /\ WriteAddr(idx, adr)
  /\ tbl' = Append(tbl, [addr |-> adr, idx |-> idx])
  /\ pc' = "run"
  /\ UNCHANGED <<idx, adr, k, adds, cuts>>

(* tbl_slave_mac_delete_by_adr: the first bond with the address. *)
DeleteByAdr(a) ==
  /\ pc = "run"
  /\ \E j \in DOMAIN tbl :
       /\ tbl[j].addr = a /\ \A m \in 1 .. (j - 1) : tbl[m].addr # a
       /\ WriteMark(tbl[j].idx, "00")
       /\ tbl' = RemoveAt(tbl, j)
  /\ UNCHANGED <<idx, pc, adr, k, adds, cuts>>

(* tbl_salve_mac_unpair_proc: delete all bonds, one flash write each. *)
Unpair ==
  /\ pc = "run" /\ tbl # <<>>
  /\ pc' = "unpair" /\ k' = 1
  /\ UNCHANGED <<flash, tbl, idx, adr, adds, cuts>>

UnpairStep ==
  /\ pc = "unpair" /\ k <= Len(tbl)
  /\ WriteMark(tbl[k].idx, "00")
  /\ k' = k + 1
  /\ UNCHANGED <<tbl, idx, pc, adr, adds, cuts>>

UnpairDone ==
  /\ pc = "unpair" /\ k > Len(tbl)
  /\ tbl' = <<>> /\ pc' = "run" /\ k' = 1
  /\ UNCHANGED <<flash, idx, adr, adds, cuts>>

(* Power goes and comes back: RAM is gone, start-up runs again. *)
PowerCut ==
  /\ pc # "off" /\ cuts < MaxCuts
  /\ cuts' = cuts + 1
  /\ tbl' = <<>> /\ idx' = -1 /\ pc' = "off" /\ k' = 1
  /\ UNCHANGED <<flash, adr, adds>>

Clean == CleanErase \/ CleanMark \/ CleanAddr

Next ==
  \/ ConfigInit \/ Clean
  \/ \E a \in Addr : Add(a) \/ DeleteByAdr(a)
  \/ Replace \/ AddMark \/ AddAddr
  \/ Unpair \/ UnpairStep \/ UnpairDone
  \/ PowerCut

Spec == Init /\ [][Next]_vars

(* The dongle's main loop keeps running the operation it is in.            *)
FairSpec == Spec /\ WF_vars(ConfigInit \/ Clean)

-----------------------------------------------------------------------------
(* What the dongle has in RAM is what it would load after a power cut:     *)
(* the same bonds, in the same order, in the same areas, and the same end  *)
(* of the log - as long as the log has not left the sector.                *)
TableIsDurable ==
  pc = "run" /\ idx < SectorSlots => Loaded = tbl /\ LogEnd = idx + 1

(* No address in the sector is ever programmed over another one.           *)
NoMixedAddress == \A s \in Sector : flash[s].addr # "mix"

(* The bonds a power cut now would leave; while start-up moves the log to   *)
(* the beginning of the erased sector, the bonds it still has in RAM.       *)
DurableBonds == [j \in DOMAIN Loaded |-> Loaded[j].addr]

Cleaning == pc \in {"cleanErase", "cleanMark", "cleanAddr"}

(* The log in flash is a list of bonds: nothing is resurrected, altered or  *)
(* reordered, neither by an operation nor by a power cut in the middle of   *)
(* one nor by the next start-up, there is never a bond more than the table  *)
(* has room for (start-up would stop in its "code bug" loop), and a cut     *)
(* loses bonds only when it falls into the cleaning, and then the newest.   *)
BS == INSTANCE BondSet
  WITH Addresses <- Addr, Unknown <- "ff", MaxBonds <- MaxNum, moving <- Cleaning,
       bonds <- IF Cleaning THEN [j \in DOMAIN tbl |-> tbl[j].addr] ELSE DurableBonds
ImplementsBondSet == BS!Spec

(* The dongle becomes ready after the last power cut, cleaning included.   *)
StartUpEnds == pc = "off" ~> pc = "run"

(* dongle.c:1243 says the sector must be cleaned because the log may       *)
(* exceed it, and dongle.c:1250 that what is left after a quarter "is big  *)
(* enough": the log never leaves its sector.                               *)
LogStaysInSector == idx < SectorSlots
=============================================================================
