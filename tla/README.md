# A verification project for the Telink BLE remote / dongle firmware

This directory models the firmware in `src/ble_sdk_lt_release`: a Telink 826x
BLE SDK with a remote control (8267), a USB dongle that is its master (8266), a
sensor variant of the remote (8266) and an OTA boot loader. It holds TLA+
modules, the TLC configurations that check them on small instances, and proofs
that TLAPS checks for every instance. Paths below are relative to
`src/ble_sdk_lt_release`; `dongle.c` and `audio_buffer.c` are in
`vendor/8266_ble_master_kma_dongle`, `ble_remote.c` is the one in
`vendor/8267_ble_remote`, and the loader is `vendor/8266_ota_boot/main.c`.

## 1. The system

```
  PC ── registers 0x8000.. ──┐                     ┌── keys, voice key, LED
     ── USB endpoints ───────┤ dongle ~~ radio ~~ remote control
     ── USB isochronous ─────┘ (8266)              └── flash: two areas, OTA flag
                               │                        │ reset
                               └── flash: bond log      └── start-up code, OTA loader
```

Every image has the same shape: one main loop that polls its tasks in a fixed
order, and interrupts (radio, USB, timer) that run at any point of it. There is
no operating system and no lock except disabling interrupts. What is hard is
therefore (1) state shared between the loop and the interrupts, (2) flash that a
power cut leaves half written, (3) requests over the radio whose answers are
late or never come, and (4) release reports that must follow every press.

| component | source | state it keeps | operations | talks to |
|---|---|---|---|---|
| start-up code | `proj/mcu_spec/cstartup_8266.S` | OTA flag word at 0x3f000 | test the flag, load the loader or the application | loader, application |
| OTA boot loader | `vendor/8266_ota_boot/main.c` | loop index, `n_firmware`, program area and download area | copy and verify page by page, wipe the download area, clear the flag | flash |
| flash driver | `proj/drivers/flash.c` | flash contents | erase sector, write page, read page | all users of flash |
| bond table | `dongle.c` 1100-1330 | `tbl_slaveMac` in RAM, 8-byte areas in flash, `bond_slave_flash_cfg_idx` | start-up scan and cleaning, add, replace oldest, delete by address, unpair all | flash, pairing |
| host OTA, command register | `dongle.c` 500-560, 850-918, 1480-1739 | registers 0x8000/0x8008, `cmd_no_accept`, `host_ota_start`, `ota_adr`, `ota_buffer`, transmit FIFO | accept a command, time it out, request the handle, send START / data / END, report the result | PC, link layer, remote |
| voice buffer | `audio_buffer.c` | microphone ring, decoded ring, their three pointers, `abuf_reset` | add (radio interrupt), decode (main loop), play (USB interrupt), reset | remote, PC |
| keys and mouse to USB | `dongle.c` 433-442, 722-800, `proj/app/usbkb.c`, `usbmouse.c`, `proj/drivers/usb.c` | `usbkb_not_released`, last key, mouse ring, release time-outs | report a key, queue a mouse frame, send it, release what was held, USB reset | remote, PC |
| remote application | `ble_remote.c`, `main.c` | key and voice state, deepback key, connection state, terminate flag, power mode, DEEP_ANA_REG0 | scan keys, send reports, microphone, power management, call-backs, deep sleep | host, LED, link layer |
| LED driver | `vendor/common/blt_led.[ch]` | `device_led` | set up, step | remote application |
| keyboard matrix | `proj/drivers/keyboard.[ch]` | matrix ring, two filtered matrices, `release_cnt`, `key_not_released` | find active lines, read rows, filter, queue, read out | remote application, GPIO edge |
| USB control endpoint | `proj/drivers/usb.c`, `proj/app/usbaud.c` | `control_request`, response pointer and length, `g_stall`, settings | set-up, data and status stage, bus reset | PC |
| voice encoder | `vendor/common/tl_audio.c` | microphone ring, ADPCM state, packet ring | encode, queue, send | remote application |
| PC-tool mailbox | `dongle.c` 560-640, 1060-1080 | registers 0x8004/0x8005 | report a key to the PC tool | PC |
| memory pools and lists | `proj/common/mmem.c`, `mempool.c`, `list.c` | managed memory and its list, free list of a pool | allocate, free and compact | no caller in the four images |
| sorts, battery filter | `proj/common/*sort.c`, `ble_remote.c` 700-750 | their data | pure algorithms | - |
| link layer, SMP, OTA receiver | binary libraries | - | external | everything |

What makes each correct, in a sentence:

* boot loader: never runs half an image, never destroys its only source,
  finishes what it was asked to do, whatever power does;
* bond table: the log in flash reloads to the table in RAM at any moment; a bond
  appears or disappears only because somebody paired or unpaired;
* host OTA: the remote receives the packets in order and unaltered, success
  means that it has them unless the link was lost on the way, and every download that began to send and every
  read the remote answers ends;
* voice encoder: what the dongle gets is unbroken sound in the order it was spoken,
  and its decoder is always where the encoder is;
* voice buffer: the host never hears a frame under construction, and sound comes
  back after every disturbance;
* keyboard matrix: once the user holds still, the remote knows what he holds;
* USB control endpoint: every transfer the host does not give up ends, and one
  that ends well has done what it was for;
* PC-tool mailbox: a key that is up is up for the tool in the end;
* keys and mouse: what the PC takes for pressed is released in the end, unless one of three races named in
  section 2 took its mark or its release;
* remote: no key stays pressed at the host, and an unused remote sleeps with
  everything switched off.

`PROJECT.json` lists every component with the part of it that is modelled, and
under `hazards` 40 places of this code that are hard to test, each with the
properties that watch over it. Section 6 says where a property excepts a hazard by name instead of excluding it.

## 2. Modules

| module | models | composed with |
|---|---|---|
| `OtaBoot` | start-up code, loader, flash driver, application side of a download | refines `FirmwareUpdate` |
| `FirmwareUpdate` | the promise of an update: armed, broken, installed, committed, or lost | abstract specification |
| `OtaBootProofs` | theorems about `OtaBoot` | extends `OtaBoot`, `TLAPS` |
| `BondTable` | the bond table in RAM and its log in flash | refines `BondSet` |
| `BondSet` | what survives a power cut: a bounded list of bonds that changes one at a time | abstract specification |
| `HostOta` | command register, download state machine, transmit FIFO, the receiver | - |
| `AudioBuffer` | the voice buffer with its three actors | - |
| `RemoteControl` | the remote's main loop, call-backs and power states | instance of `Led` |
| `Led` | the LED record as a pure state machine | - |
| `DongleInput` | key and mouse reports from the radio to the PC | - |
| `KeyScan` | the matrix driver of the remote: edge, lines, rows, debounce, ring | its ring refines `LossyQueue` |
| `LossyQueue` | a bounded queue that drops its oldest item when it is full | abstract specification |
| `VoiceEncoder` | sample buffer, encoder and packet ring of the remote | - |
| `Adpcm` | the codec: encoder and decoder step by step | - |
| `PcMailbox` | the registers through which the dongle reports keys to a PC tool | - |
| `UsbControl` | the control endpoint of the dongle against a host | - |
| `ManagedMemory` | the two allocators of `proj/common` | - |
| `BondTableProofs` | theorems about `BondTable` | extends `BondTable`, `TLAPS` |
| `HostOtaProofs` | theorems about `HostOta` | extends `HostOta`, `TLAPS` |
| `AudioBufferProofs` | theorems about `AudioBuffer` | extends `AudioBuffer`, `TLAPS` |
| `RemoteControlProofs` | theorems about `RemoteControl` | extends `RemoteControl`, `TLAPS` |
| `DongleInputProofs` | theorems about `DongleInput` | extends `DongleInput`, `TLAPS` |
| `VoiceProofs` | theorems about the codec and the encoder | extends `Adpcm`, `VoiceEncoder`, `TLAPS` |
| `DriverProofs` | theorems about the key matrix, the control endpoint, the mailbox and the allocators, and about `MCDrivers` as a whole | extends `MCDrivers`, `VoiceProofs`, `TLAPS` |
| `MC*` | constants for TLC | extend the module they check; `MCDrivers` extends the last six components, which share no state, and gives each behaviour to one of them |

Conventions. Definitions keep the name of the C function or variable they
translate. A function called from the main loop is one action unless an
interrupt can see it half done; then it is one action per access to the shared
state. Time-outs are "over" or "not over": an action `TimePasses` (or the
action that a time-out enables) may happen at any moment the timer runs, so
every relative speed is covered. Variables whose comment says *history* exist in
the model only and are read by properties, never by actions of the code.
Definitions named "Mutant" or standing directly before the definition they
resemble (`SectorStartOneOff` before `SectorStart`) are broken variants used to
show that a property can fail; nothing else refers to them.

### OtaBoot

A page of flash holds `old`, `new`, `erased`, `bad` or `junk`; the two areas are
functions from pages to these. `ReadHeader`, `CopyErase`, `CopyWrite`,
`CopyVerify`, `CopyDone`, `Wipe`, `WipeDone` and `ClearFlag` are the statements of
`main`, with `i` and `n` the variables of the code in units of a page;
`SectorStart` is `i &= 0xfff000` (the code subtracts 256 and lets the loop header
add it back). A flash operation of the loader may fail (`Fault`), and `Cut*` cuts the
power between and inside operations: RAM is lost, the page or sector under way is
undefined. `StartUp` is the flag test of the start-up code, which is itself in
the first page of the area being rewritten. The application's OTA library is a
binary and modelled as an external (`App*`): it programs the download area in
order and sets the flag when the image is complete.

`torn` records a power cut inside the erase of the download area's header. After
it the size the loader reads is any value, and the code has no defence (no
checksum); the safety properties except that case by name, the abstract specification
calls it `lost` and promises nothing afterwards, and with `TornErase = FALSE` it does
not occur.

### BondTable

An area has a mark (`ff` free, valid, deleted) and an address that is programmed
after the mark in a second flash write. `ConfigInit` is the start-up scan,
`CleanErase`/`CleanMark`/`CleanAddr` the cleaning of a sector that is nearly full,
`Add`/`Replace`/`AddMark`/`AddAddr` pairing, `DeleteByAdr` and `Unpair*` the two
ways out. A power cut may fall between any two flash writes; `mix` is what a
second address programmed over a first one reads as. `ImplementsBondSet` reads the log
as start-up would at any moment: that list of bonds is never longer than the table, it changes
by one bond or by the address of its last one, and only a cut inside the cleaning may
shorten it, from its newest end.

### HostOta

`regCmd` is register 0x8000, which the PC writes and the firmware clears
(SET_CMD_DONE); `LoadCmd` and `ExecCmd` are the two halves of `proc_read_att`, because
a link event may come between them; `LockExpires` is its time-out and `Reboot` the command that starts the dongle again.
`OtaBegin`, `OtaSendStart`, `OtaSendData`, `OtaTimesOut`, `OtaFinish` are the states
of `proc_ota`. Packets are queued by reference: `fifo` holds slots of
`ota_buffer`, and `meant` records what a slot held when it was queued. The remote's
receiver (`Receive`, external) checks packet indices and answers requests.

`proc_read_att` accepts any number below MAX_ATT_FUNC as a read; `Reads` has the four kinds that differ in what
follows. `ReadResponse` is the test of `att_func[current_red_req_handle]` in `ble_master_data_callback`: `"read"`, the alert
level and `"refused"` have `att_read_rep_handler` for a handler (`Registered`, `user_init`), an `"unheard"` handle has none, or one
that leaves the command register alone. An ATT error response (`"errRsp"`, what the remote answers a `"refused"` read with)
has no branch. So `"unheard"` and `"refused"` reads are never done: they stay in the register, and each expiry of the
lock sends them again until the PC overwrites them (`Stuck`). `handle` is the handle the next response is taken for, `req` the one in the
only request buffer there is: what is queued refers to it, so that a second read rewrites a request still waiting, and the remote
`Answers` what the buffer holds when it is sent. A notification has the same handler as a read response and makes
the pending read forgotten.

### AudioBuffer

`mic_wptr` and `dec_wptr` count frames modulo `Wrap` (256); `dec_rptr` counts
units of eight samples modulo 31 units a frame, of which a USB packet takes two,
so packets straddle frames as in the code. The main loop's `abuf_mic_dec` is split at every
access to a shared pointer (`TestReset`, `SyncWritePointer`, `Count`, `SkipFrame` or
`DecOverrun`, `BeginDecode`, `FinishDecode`); the radio interrupt
(`AbufMicAdd`) and the USB interrupt (`UsbPacket`) run between any two of them.

### RemoteControl and Led

The main loop is `BrxNothing` or one call-back of the stack, then `ProcKeyboard`,
`BltPmProc` and `BltBrxSleep`. `ui` is the state of the key and voice handling,
including the *deepback* key: the key that woke the remote is cached until the
connection is up and then sent, with a manual release 150 ms later when it has
been let go. Each time-out may be over at any moment, except that the 60 seconds without an event,
which start no earlier than the three short times, are not over while one of those runs (`LookedAt`). `host` is what the host has seen of each report. `WakeUp` is the
start-up after deep sleep, which tells from DEEP_ANA_REG0 which sleep it was. `Led`
is the record `device_led` with durations abstracted to zero or not.

### DongleInput

Reports from the radio interrupt (`AttKeyboard`, `AttMouse`) against the five
tasks of `usb_handle_irq` (a mouse frame, the release of the mouse, and of the three key classes). System keys, media keys and the mouse
share one endpoint. A task that has nothing to do goes on (`Nil`), one that finds its endpoint busy gives up (`Busy`);
one that finds it free (`Test`) fills and acknowledges it (`Fill`), and BM_CLR then reads `usbkb_not_released` (`Load`)
and writes it back with its bit cleared (`Store`). Nothing in the code holds the interrupt off, so it may
come between any two of these steps. `Poll` is the PC fetching a report, `UsbReset`, `SetProtocol` and
`Suspend`/`Resume` the bus.

An endpoint holds a set of reports, because what the interrupt writes between `Test` and `Fill` and what the task writes share one
buffer; the PC gets one of them. `raced` keeps what the interrupt has written since the test. Three of these races do lose
something, and the history `slipped` names the kind (a key class or the mouse) that lost it:

* a press whose mark BM_CLR overwrites (`StoreKeyRelease`; `usbkb.c:101`): no release and no time-out knows of it;
* a release that shares the endpoint with another report and is not the one that arrives (`Poll`; `usbmouse.c:90`);
* a release that is queued in the mouse endpoint when SetProtocol clears it (`usb.c:379`): its mark was cleared
  when it was queued.

A kind leaves `slipped` with its next press that gets through, with a release that arrives, and with a bus reset. Both properties except the kinds in `slipped` and
nothing else; with any of the three entries left out TLC finds them violated, so the exception is exactly these races.

### KeyScan

A call of `kb_scan_key` is up to three steps, because the user presses and lets go
between them: `KbScanKey` (the latched edge and `key_not_released` decide whether to scan at all),
`KbFindLines` (which scan lines are active, or which were in the last of the six calls that still scan), and
`KbScanKeyValue` (the rows, the two-scan filter, the ring and the read-out). `kb`
holds the static variables of the driver. A key is its place in the matrix.
`KeyRingIsLossyQueue` maps the four places and two pointers modulo eight to
`LossyQueue`, a matrix being what the caller gets of it: `Remap` reports `KeyMax` keys at most. The calls "peek" and "invalid" are those options of the driver that
leave the ring unread; the remote does not use them, and `KeysSettle` asks for the read-out
only of a caller that does not either.

The history variable `slips` counts the presses that came just after a call had found the lines idle
and before it read the rows. Such a press is scanned, but does not start the count of six again. One of them
is harmless. Two within the six calls can leave the driver with a key that is up by the time it stops scanning,
until the next press (section 6), so `KeysSettle` excepts `slips > 1`.

### VoiceEncoder and Adpcm

In `VoiceEncoder` a sample is the number of its instant, so that order, gaps and repetitions show.
`MicWrite` is the audio hardware, `TaskAudio` the test whether a half of the buffer is full,
`Encode` one sample of `proc_mic_encoder` with, at the last, the turn to the other half and the
store into the packet ring, `SendPacket` the hand-over to the link layer when it has room.
`Adpcm` is what is done with one sample, in the arithmetic of the code (shifts that round down,
both ends of the range and of the step table); `DecoderStep` adds up the code's bits as the dongle does.

### PcMailbox

Registers 0x8004 and 0x8005 are one record, which the interrupt writes at once and the tool
clears. `TestMail` and `WriteRelease` are the two halves of the end of `main_loop`; the
interrupt may come between them.

### UsbControl

A host (external) begins transfers, fetches or sends packets, asks for the status, gives up at
any point, and resets the bus; the endpoint latches what happened in `ep0`. `HandleIrq` maps the
record of dongle, endpoint and settings through `HandleStage` (SETUP or data) and `HandleStatus`, all that is
pending in one poll, as `usb_handle_irq` does. The k-th byte of descriptor d is `<<d, k>>`.

### ManagedMemory

`memory` gives the owner of every byte; an owner fills what it gets with its name. `MmemFree` moves
the memory behind the block and then the pointers. `Memmove` is what the upward byte loop of `string.c` leaves: a
destination below the source gets the bytes as they were, one inside it repeats the first of them.

## 3. Runs

| run | instance | distinct states | shows |
|---|---|---|---|
| `ota_boot` | sector of 2 pages, areas of 6, limit 5, images of 1, 3, 5, 6 pages; 2 cuts, 2 faults, 2 downloads | 78 583 | the device never runs half an image, keeps a source, is unbootable only while its first page is rewritten, hangs on an oversized image before touching anything, finishes armed updates, and implements `FirmwareUpdate` |
| `ota_boot_dirty` | the same, 1 cut, violation | - | `AreaErasedForNextOta` fails |
| `bond_table` | table of 2, three addresses, log of 5 areas cleaned beyond 2, flash of 7; 6 pairings, 2 cuts | 324 348 | the log reloads to the table, no mixed address, the bonds in flash implement `BondSet`, start-up ends |
| `bond_overflow` | table of 1, 6 pairings, no cut, violation | - | `LogStaysInSector` fails |
| `host_ota` | an image of 2 packets and an erased header (510 packets, whose time-out is 0 in eight bits), 3 buffers, FIFO of 2; 2 commands, 1 link loss, 1 notification | 191 005 | packets intact and in order, success means received, downloads and reads end |
| `host_ota_link_lost` | 1 command, 1 link loss, violation | - | `AckedMeansReceived` fails |
| `audio_buffer` | counters modulo 12, ring of 4, frame of 3 units; 1 host stop, 1 microphone pause | 1 772 506 | packets off the frame being decoded, bounded backlog, sound comes back |
| `remote` | one key of each kind, 2 presses, 2 connections | 317 746 | no standard key left pressed, deep sleep leaves nothing open, a quiet remote sleeps |
| `remote_cons` | 1 press, violation | - | `ConsKeyIsReleased` fails |
| `remote_voice` | 1 press, violation | - | `MicNeedsLongPress` fails |
| `dongle_input` | one key of each class, mouse ring of 2; 3 reports, 2 bus events | 866 247 | what is pressed is tracked, everything is released in the end, but for what slipped |
| `drivers` | see below; one behaviour runs one of six parts | 1 167 249 | `KeysSettle`, `KeyRingIsLossyQueue` (keys); `VoiceInOrder`, `CodecFollows` (voice); `ReleaseReachesTool` (mailbox); `DoneMeansDone`, `TransferEnds` (USB); `MemoryIsSound` (allocators) |

Bounds, and why they are enough.

* `OtaBoot`: two pages are the smallest sector in which "first page" and "other
  page" differ; three sectors give a first, a middle and a partial last one; the
  sizes include one page, a partial sector, the limit and one above it. Two cuts
  reach a cut during the recovery from a cut, two downloads an update on top of what the
  first one left behind, two faults a failure in the retry of a failure.
* `BondTable`: `CleanSlots` is larger than zero and smaller than the sector so that start-up
  both cleans and does not; two bonds give an oldest and a newest, three addresses a
  replacement; six additions fill the sector; two cuts cut the recovery.
* `HostOta`: three buffers against a FIFO of two is the code's 8 against a smaller
  FIFO, with one slot to spare, which is what `PayloadIntact` depends on; two commands give a
  second download after a failed one, a reboot in the middle of one, and a read after one that is stuck or
  still queued; one loss and one notification every confusion of one answer.
* `AudioBuffer`: `Wrap` is a multiple of `Ring` as 256 is of 4, `Units` is odd as 31 is, so
  packets straddle frames, the buffer's end and the counter's wrap.
* `RemoteControl`: two presses give a roll from one key to another and a press during a
  manual release; two connections a wake-up after a deep sleep.
* `DongleInput`: a ring of two is full with one frame waiting; three reports press, roll, repeat
  or release, and one of them may come in the middle of a task that another caused; two bus events are a
  reset, a SetProtocol or a suspend at any moment, and one after the other.

* `drivers`, `KeyScan`: two keys on two scan lines, so that one can hide the edge of the other; `KeyMax` is one
  (6 in the code), so that two keys are already more than `Remap` reports; six
  changes press and release both and start again, and are the first number at which two presses slip between
  lines and rows; six calls that do not read overflow the ring of four, which keeps its
  size, as `release_cnt` keeps its six.
* `drivers`, `VoiceEncoder`: halves of two samples and a ring of two packets; sixteen samples turn the buffer four
  times, so that both overflows happen, with the microphone switched off and on in between.
* `drivers`, `Adpcm`: both ends of the sample range and a quiet value in every order for three packets of four
  samples, which drive prediction and index into all four clamps; the step table is the code's.
* `drivers`, `PcMailbox`: two keys and six reports give a roll, a repeat, and a release in every state of the
  mailbox.
* `drivers`, `UsbControl`: packets of two bytes, descriptors that fill a packet exactly, fill one and a half, and fill
  two; every `wLength` around these; three transfers or resets, so that one given up is followed by two more.
* `drivers`, `ManagedMemory`: three blocks of zero, one or two bytes in three bytes, freed in every order; a pool of two.

Every run has `CHECK_DEADLOCK FALSE`: with the bounds used up, and in the loader's
`hang` and `dead` states, the models really stop; in the others the liveness properties say
that they do not stop too early.

Five comments of the code are contradicted by what it does; each has a run that
ends in a counterexample and an entry under `findings` that quotes the line.

* `dongle.c:1243`: the log "may exceed a sector, so we must clean": only start-up
  cleans; enough pairings without a restart leave the sector.
* `dongle.c:1735`: "all data acked,OTA OK" when the FIFO is empty: the loss of the link empties it too (line 525), so success
  is reported for packets the remote never had.
* `main.c:104` of the loader: the download area is erased "for next OTA": not after a cut
  between two of the erases, for the header goes first.
* `ble_remote.c:261`: the cached key "need manual release": a consumer key's
  release goes to the keyboard report.
* `ble_remote.c:418`: "long press voice 1 second": after waking the remote a tap is enough.

## 4. Fairness

Only what the code or the hardware keeps doing is assumed.

* `OtaBoot`: the CPU executes (`WF` of start-up and of the loader). That an application
  downloads, and that power is cut, is never assumed.
* `BondTable`: start-up goes on (`WF` of the scan and the cleaning).
* `HostOta`: the main loop goes on (`WF`). Strong fairness of accepting a command (the lock is open or expires) and of
  what ends a state of `proc_ota` stands for this: both are
  tried on every pass of a loop that never blocks, and their condition is a counter
  that only grows; another actor may disable them between two passes, not for good. The lock needs 0x8ff0 passes to
  expire, so on most of them it holds, and on such a pass with an empty FIFO too (`SkipCmd /\ fifo = <<>>`), because the radio empties the
  FIFO again and again: while connected it transmits, and a loss clears it. Without this a stuck read could be sent
  again on every pass and keep the FIFO of the model full. What is delivered is handled, and a lost link is set up again.
  No answer in particular is assumed to arrive: it may be lost with the link.
* `AudioBuffer`: the loop goes on, the host fetches packets and comes back, the microphone sends.
* `RemoteControl`: the loop goes on, time passes, the user lets go of a key; strong fairness of
  the end of an update and of the end of a connection whose termination was requested
  (the link layer ends it on acknowledgement or after two seconds).
* `KeyScan`: the main loop goes on calling the driver, in the end to read. The user need not do anything.
* `PcMailbox`: the main loop goes on, and a tool that is there reads and clears. That the mailbox is cleared in time is not
  assumed: a release may be given up, and `ReleaseReachesTool` excepts that release only.
* `UsbControl`: the main loop goes on polling, and a host that has begun a transfer goes on with it unless it gives up.
* `DongleInput`: the loop goes on, a PC that is awake polls, a suspended one resumes, time passes.

## 5. Proofs

Each module of proofs EXTENDS the module as the runs check it and proves its results for every value of the
constants, under the named assumptions of that module. The safety properties are seldom inductive; the
invariant `IInv` that each proof rests on is described below, and was checked by TLC before it was proved. Each
proof is one lemma per part of the invariant, with one case per action, over lemmas about the operators.

### OtaBoot

`OtaBootProofs` proves, for every sector size, area size, limit, set of image
sizes and any number of cuts, faults and updates (the assumptions on constants
are the named ones of `OtaBoot`: positive sector and area, images that fit the area):

| theorem | states |
|---|---|
| `TypeCorrect` | `Spec => []TypeOK` |
| `AppSafe` | the application runs only from a whole image |
| `SourceSafe` | while the flag is set a whole image is in one of the two areas |
| `WindowSafe` | the device is unbootable only between the erase of sector 0 and the read-back of page 0, and no other step makes it so |
| `HangSafe` | an oversized image leaves the program area untouched |
| `CommitSafe` | the flag is cleared only on top of the new image |
| `Refinement` | the loader implements `FirmwareUpdate`, torn erases and what follows them included |
| `ArmedUpdateShrinks` | as long as the flag is set, every step clears it or leaves less to do |

None of the safety properties is inductive: "the application runs a whole image"
says nothing of a loader in the middle of its loop. The inductive invariant
`IInv` adds, for a behaviour that is not `torn`:

* flag clear (`IdleInv`): the CPU is in start-up or the application, the program
  area is whole, and the pages counted by `dl` are in the download area;
* flag set (`PendingInv`): the application does not run and `SourceInv` holds - the
  download area is whole, or the program area is and the header of the download area
  is erased; `CopyInv` - in the copy loop every page below `i` is the new one and the
  source is whole, or the size reads -1 and the program area is whole; `WipeInv` - in
  the second loop the program area is whole, and beyond its first step the header is
  erased; an oversized image has left everything as it was;
* whatever is torn (`IndexInv`): the size read fits the area, and a page is only
  programmed or read back at an index below it.

The step that matters is a cut in the wipe loop: it has erased the header first, so
the restarted loader reads -1, skips both loops and clears the flag, which is right only
because the copy loop had been completed. The second disjunct of `SourceInv` says that.
`StepIInv` has one case per action, `TypeStep` separates typing from it, and
`TornForGood` lets a step assume that it did not tear. `Refinement` needs one fact
more, `WriteInv`: when the first page is programmed, the old first page is gone,
so that no step leads from the old image to the new one without a moment at
which there is none. `PromisedStep` covers the steps of a behaviour that is not torn; the step
that tears is `Lose`, and after it `Anything` holds.

`ArmedUpdateShrinks` is the part of `UpdateEnds` that needs no fairness. What is left is counted in five
numbers, compared in this order: the cuts, the faults, the pages still to be copied again (`Redo`), the phase and
the steps of its loop. A page that reads back wrong sends the loader back to the start of its sector, so the
steps of the loop alone do not decrease.

### BondTable

`BondTableProofs`, for every size of the table, the sector and the flash, any set of addresses, and power cuts
between any two flash operations:

| theorem | states |
|---|---|
| `TypeCorrect` | `Spec => []TypeOK` |
| `TableReloads` | `TableIsDurable`: whenever the main loop runs and the log is in its sector, start-up would read exactly the table in RAM |
| `NothingMixed` | no address is ever programmed over another |
| `BondsImplemented` | the bonds in flash implement `BondSet`, cuts and cleaning included |
| `OperationsEnd` | start-up, cleaning, pairing and unpairing have a bounded number of flash operations left, each step leaves fewer unless it is a power cut, and the table is never too small for start-up to go on |

`IInv` says where in the log each operation is. `LogInv`: used areas, then blank ones; the valid areas in
ascending order are `Areas`. `IdxInv`: the index is at the end of the log unless it has left the sector, and what each step's
guard promised still holds. `TableInv` relates log and table step by step: all bonds match while nothing is under way
(`Matches`); one area more without an address after `AddMark` (`Begun`); the bonds from `k` on while unpairing deletes the
others; the first `k - 1` moved to the front while start-up rewrites them (`Moved`, `MovedBut`). Past the sector the table
continues beyond the log, which `Matches` allows for and `TableIsDurable` excepts. The model lists areas with a
function on an ascending set (`Ascending`), which the provers can reason about.

### HostOta

`HostOtaProofs`, for every set of image sizes, every number of buffers and length of FIFO with `FifoSize < Buffers`
(8 buffers in the code), any number of commands, lost links and notifications:

| theorem | states |
|---|---|
| `TypeCorrect` | `Spec => []TypeOK` |
| `BuffersStayIntact` | `PayloadIntact`: no slot is rewritten while a packet that refers to it is queued |
| `NoGap` | `RemoteSeesNoGap`: unless packets were thrown away the remote gets the image in order |
| `SuccessIsTrue` | `SuccessMeansReceived`: the dongle reports success only when the remote has everything, or packets were lost |
| `BeginsWhenAsked` | `BeginsOnlyWhenAsked`: a download begins only when the PC asked for one |
| `DownloadGoesForward` | a download that has begun ends or goes on by START, one packet or END; nothing else moves `host`, `n` or `adr` |

Reads may come in between at any point, stuck ones and rewritten request buffers included. `SlotInv` is why the buffers suffice: packet `a` sits in `Slot(a)` and is no further behind `ota_adr` than the FIFO is
long from its place on, so the slot that is filled next belongs to a packet that has left. `StreamInv` is the order: START
first, then the FIFO continues what the remote has and reaches up to `ota_adr`. `RequestInv` says why a new download does not meet packets of
the last one: the handle request is the last thing behind them, there is one, and its answer means that they are gone. `AskedInv`
follows the command from the register to `proc_ota`.

### AudioBuffer

`AudioBufferProofs`, for every ring, frame and counter with `Wrap` a multiple of `Ring` and larger than twice the
ring (256 and 4 in the code), and at least two units a frame:

| theorem | states |
|---|---|
| `TypeCorrect` | `Spec => []TypeOK` |
| `BacklogIsBounded` | `MicBacklogBounded`: the compressed ring overflows by one frame at most |
| `FramesAreWhole` | `NoTornFrame`: a USB packet is never read from the frame being decoded, except after `skipped` |

`MicInv` relates what the loop has counted (`num_mic`) to where the pointers are when it acts on it, two
interrupts later, and counts the passes between two frames, which is what limits the overflow to one frame. `DecInv`: the USB side only takes away from what the loop
counted, so a frame that was free stays free until it is decoded. Both are arithmetic modulo `Wrap`; the distance of the counters is the inductive
quantity.

### RemoteControl

`RemoteControlProofs`, for every set of keys, any number of connections and presses; about `Safety`, the specification without its fairness:

| theorem | states |
|---|---|
| `TypeCorrect` | `Safety => []TypeOK` |
| `KbdKeysAreReleased` | when the remote takes all keys for released no standard key is pressed at the host, with the exception the property names |
| `DeepSleepIsClean` | deep sleep is entered with the connection closed, the microphone off and no update running |

`KeyInv` holds of every intermediate state of `ProcKeyboard`, which is why it is a predicate of a record: a
standard key taken for released is not pressed at the host, without a connection no report has arrived, and the long
idle time is not over while a short one runs. `TerminateSent` and `TerminateDone` follow a
termination from the request over the end of the connection to the sleep of the same pass: nothing that runs meanwhile
turns the microphone on.

### DongleInput

`DongleInputProofs`, for every set of keys, every mouse ring and any number of reports and bus events:

| theorem | states |
|---|---|
| `TypeCorrect` | `Spec => []TypeOK` |
| `NothingPressedIsForgotten` | `PressedIsTracked`: what the PC takes for pressed is marked or its release is on the way, wherever the radio interrupt comes, but for the kinds in `slipped` |

There is no hypothesis about the interrupt. `IInv` adds `EndpointKinds`, that an endpoint holds only reports that go there;
`RacedInv`, that `raced` covers everything the interrupt has done to the task under way, its marks and its reports, so that
nothing is lost behind the back of the history; `StageInv`, which task can be at which step; and `SentInv`, that a release the main
loop has written is still in the endpoint while its mark is being cleared, unless the PC has it, it slipped, or a press of its kind came in between. There is one
lemma for each step of a task. The delicate one is `StoreStep`: the mark that is cleared is the one whose release is queued
(`SentInv`), and the marks that are overwritten are among the presses of `raced` (`RacedInv`), which is where `slipped` gets them.

### Adpcm and VoiceEncoder

`VoiceProofs`, for every sequence of samples in the 16-bit range and every packet size; for every size of a half, every delay and every ring of
at least two packets:

| theorem | states |
|---|---|
| `CodecTypesCorrect` | `CodecSpec => []CodecTypeOK`: prediction and index never leave their ranges |
| `DecoderFollows` | `CodecFollows`: after every sample the decoder is where the encoder is, and close to the sample when it was within reach of the step |
| `VoiceTypesCorrect` | `VoiceSpec => []VoiceTypeOK` |
| `SoundStaysInOrder` | `VoiceInOrder`: each packet is unbroken sound, later than the one before |

`CodecIInv` adds to the property the ranges of the state, which make the clamps of both sides act alike. `VoiceIInv` holds the argument in
four parts: the buffer has the last two halves (`BufferInv`), the encoder reads them before the hardware gets there (`EncodeInv`), the packets of the ring are
unbroken and in order (`RingInv`), and the half being encoded begins no earlier than the last packet ended, with the parity of `micRptr` (`OrderInv`). The
assumption `PacketNum >= 2` is needed: with a ring of one, "one packet more than full" is the same pointer as "empty".

### KeyScan, UsbControl, PcMailbox and ManagedMemory

`DriverProofs`, for every key matrix, every `KeyMax` and `ReleaseCnt`; for every packet size, set of descriptors and any number of
transfers and resets; for every set of keys of the tool; for every size of the memory, of its blocks and of the pool:

| theorem | states |
|---|---|
| `KeyTypesCorrect` | `KeySpec => [](KeyTypeOK /\ KeyFits)`: the pointers of the ring are never more than four apart |
| `MatricesAreQueued` | `KeyRingIsLossyQueue`: the ring implements `LossyQueue` |
| `ControlTypesCorrect` | `CtlSpec => []CtlTypeOK` |
| `DoneIsDone` | `DoneMeansDone`: a transfer that ended well has read the whole descriptor or value, or changed the setting |
| `MailTypesCorrect` | `MailSpec => []MailTypeOK` |
| `MemoryTypesCorrect` | `MemSpec => []MemTypeOK` |
| `BytesAreKept` | `MemoryIsSound`: whatever is freed, in any order, every owner finds its bytes, the blocks lie without a gap, and each block of the pool is held or on the free list once |
| `ScanningStopsReleased` | the driver stops scanning only when every key is up; by then its record says so if `ReleaseCnt >= 5` and at most one press slipped, and a caller who always reads has been told |
| `TransferGoesOn` | while a transfer is on, the firmware has an interrupt to serve or the host can move (`NoOneWaits`), and each of their steps uses something up (`RunsOut`) |
| `ReleaseIsUnderWay` | while no key is held and the tool or the registers have one, its release is pending, about to be written or unread, unless it was given up |
| `PartsKeepTypes`, `PartsAreSound` | the safety properties of the run `drivers`, of the specification it checks |

The last two rest on `PartsKeepApart`: a step of one part is a stutter of the others, so a behaviour of
`MCDrivers` is a behaviour of each.

For the ring the abstract queue is read from the two pointers; a step that stores a fifth matrix is an overwrite of the oldest there. The
refinement maps through `Remap`: before that it was true only of keyboards with no more than `KeyMax` keys, which the proof showed and TLC
confirmed. For the endpoint `FlagInv` says which of its interrupt flags can be pending together, `RequestInv` that the firmware
has the request of the host once SETUP is served, `DescriptorInv` that a descriptor is always cut in three - what
the host has, what is in the endpoint, what the response still points to (`Halfway`) - and that a short packet is the last, and `SettingInv` the same for
the single values.

For the managed memory `Sorted` says that the list is in the order of the memory and begins with its first byte, `Gapless` that each
block begins where the one before ends, up to what is free, and `Filled` that the bytes are their owner's. A free needs all three: the blocks
behind move down by exactly the size of the freed one because there was no gap, and none of those before is touched because they end
below it. The property speaks of the free list as a sequence and not as what a recursion reaches, so that its head can be taken off and put
on in a proof; that it has as many elements as there are free blocks makes it free of repetitions.

Why the keys settle is a count (`ScanInv`). `WakeInv`: a key that is down is latched as an edge or being scanned for.
`CallInv`: the driver gives up scanning only with `release_cnt` at zero. `FilterInv` relates `release_cnt` to what the filter still
holds: two scans without a key empty it, and a press that slips in costs two more. With no slip three calls would do, with one
it takes five, and six are made; with two, six are not enough, and that is how the exception of `KeysSettle` was
found. `RecordInv`: the last matrix pushed is the filter's, and a caller who always reads leaves the ring empty.
In the mailbox (`MailInv`) the point is the main loop between its test and its write: the registers it found free
are free still, unless the interrupt came, and then what it overwrites is no key the tool has yet to be told about.
A control transfer runs out because a host takes the bytes it asked for in packets that are short only at the end.

### Only model-checked

Liveness, which needs ENABLED: `UpdateEnds`, `StartUpEnds`, `DownloadEnds`, `ReadIsAnswered`, `SoundComesBack`,
`EverythingIsReleased`, `QuietRemoteSleeps`, `KeysSettle`, `ReleaseReachesTool`, `TransferEnds`. For six of them what
does not depend on fairness is proved: that what is left decreases (`ArmedUpdateShrinks`, `OperationsEnd`,
`TransferGoesOn`, `DownloadGoesForward`) and that nothing stops too early (`ScanningStopsReleased`, `ReleaseIsUnderWay`). For `EverythingIsReleased`
that is `NothingPressedIsForgotten`. Every invariant, action property and refinement that a passing run checks is
stated by a theorem.

## 6. What is not modelled, and what was seen without a run

Not modelled: the closed libraries (link layer, SMP, OTA receiver) beyond their boundary; register definitions
and register-level drivers, which are tables and single accesses (most of the lines of the repository); GATT and USB
descriptor tables, which are constant; the infrared sender, EEPROM and serial drivers, which no application image
of this tree calls or which only move bytes; the sensor variant's main loop (its keyboard, LED and power
management calls are commented out); strings, formatting and the sorts (pure, and without a caller); the
battery filter; the simulator and test scaffolding.

Assumed of the outside: a USB host sends no token while a poll of the endpoint is under way, a SETUP disarms the
endpoint, and a host waits 10 ms after a bus reset (`UsbControl`); the PC tool reads a register before it clears
it (`PcMailbox`); the link layer keeps the order of what it accepts.

Left out of modules that model the component: `UsbControl` leaves out the requests that the code acknowledges without
any effect, and of SetProtocol the clearing of the mouse endpoint, which is in `DongleInput` because it is the reports that suffer;
`RemoteControl` leaves out the result of `blt_push_notify`, which the code does not look at: a report that finds the
transmit FIFO full would be lost, a release too. The retry counters of the pair and unpair commands are not in `HostOta`.

Excepted by name, so that a property holds beside the hazard instead of excluding it: a frame skipped
after an overflow (`NoTornFrame`, `skipped`), the bond whose address a cut left at ff:ff:ff:ff:ff:ff (`BondSet` permits it), the release that is given up
(`ReleaseReachesTool`, `timedOut`), packets thrown away with the link (`SuccessMeansReceived` and `RemoteSeesNoGap`, `lost`;
`AckedMeansReceived` fails on it), a download stuck before it read its size (`DownloadEnds` starts at state 2), reads that have no
handler or are refused (`ReadIsAnswered`), marks and releases that races took (`slipped`), a roll from a
standard to a consumer key (`KbdKeyIsReleased`), and more than one slipped press (`KeysSettle`).
`ReleaseReachesTool` speaks of releases only: the press that the main loop overwrites in the mailbox is not watched by any property, and neither is
the volume that an aborted SET_CUR leaves behind.

Seen while modelling, without a run of its own. Comments say otherwise of the first two; the models show both
(`OtaSendStart` has no refusal, `ReleaseTimesOut` gives the release up):

* `dongle.c:1647`: an image "bigger then 124K or 0xffffffff  is ERR": the branch clears `host_ota_start`, does not return, and
  line 1658 sets it to 3, so the image is sent.
* `dongle.c:596`: a "release can not drop": `dongle.c:1074` gives it up after 100 ms, and a tool that is later than
  that keeps the key down.
* `dongle.c:1761`: a read of a handle without a handler, or one the remote refuses, is never done; it is sent again whenever the
  lock expires, until the PC writes another command. `dongle.c:870`: an alert-level read is marked done before its answer, which later completes the
  next command. `dongle.c:866`: a second read overwrites a request still queued.
* `dongle.c:1635`: an answer lost with the link leaves `host_ota_start` at 1
  for good, and later OTA commands are ignored.
* `audio_buffer.c:240`: after an overflow the pass uses a stale `num_dec` and may decode into the frame
  being played (`NoTornFrame` excepts it by `skipped`). `audio_buffer.c:229`: a reset that ends between
  test and assignment marks frames as decoded that never were.
* `ble_remote.c:344`: `key_type` remembers one key; after a roll from a standard to a consumer key within one
  scan only the consumer report is released (`KbdKeyIsReleased` excepts it). `ble_remote.c:359`: the microphone
  goes on without a connection and then keeps the remote awake. `ble_remote.c:473`: clocks wrap after 268 s.
  `ble_remote.c:736`: the insertion of the battery filter loses the inserted value.
* `keyboard.c:359` and `387`: two presses that each fall between the lines, found idle, and the rows of a call, both within
  the six calls of `release_cnt`, and are over before the next call, put a key into the filter that the calls left are too
  few to take out again: the driver stops scanning with the key recorded as down, until the next press
  (`KeysSettle` excepts it by `slips`).
* `keyboard.c`: once every key is up and the scanning stops, what is left in the matrix ring is not read any
  more until the next press (`KeysSettle` holds because the ring is empty by then for a caller that reads at
  every scan). The fn key is tested with `drv_ind` already moved to the next line (`kb_scan_row`), and a call with
  KB_NUMLOCK_STATUS_INVALID returns an empty event.
* `tl_audio.c`: switching the microphone off and on does not reset the pointers, so packets of the last
  recording go out first. `VoiceInOrder` rests on the hardware being slower than the encoder (the guard of `MicWrite`).
* `dongle.c:1062`: a press that arrives between the test of the mailbox and the write of the release is
  overwritten; a pending release is not cancelled by a new press; a press the mailbox had no room for appears as a
  repeat. `PcMailbox` lets one report interrupt that window.
* `usb.c:173`: a HID descriptor asked for an unknown interface is answered with what the last transfer left in
  the response pointer. After an aborted SET_CUR the microphone volume holds bytes of the set-up packet.
* `mempool.c`: the size of a block is not enlarged by the link that a free block holds; `list_pop` returns the new
  head instead of the item it takes off; `qsort.c` takes its pivot by a mask, right for sizes that are a power of
  two only; `memmove` of `string.c` copies upwards only, which is enough for `MmemFree`.
* `usbkb_add_frame` compares a pointer with itself, and has no caller.

## 7. Plan

Done: `OtaBoot` with `FirmwareUpdate`; `BondTable` with `BondSet`; `HostOta`; `AudioBuffer`;
`RemoteControl` with `Led`; `DongleInput`; `KeyScan` with `LossyQueue`; `VoiceEncoder` and `Adpcm`; `PcMailbox`;
`UsbControl`; `ManagedMemory`; and the proofs of section 5, which state every safety property of the passing runs
and all three refinements, and of six liveness properties the half that needs no fairness.

Left, in this order:

1. *Complete*: the retry counters of the pair and unpair commands in `HostOta`, the unpair
   request of the remote with `BondTable`.
2. *Compose*: `HostOta` as the application side of `OtaBoot`, so that "success reported by the dongle" and "image
   installed in the remote" are one property; `VoiceEncoder` with `AudioBuffer` through a lossy link.

Components that share no state share the run `drivers`, so that each run stays one question; the longest run
takes about two minutes.
