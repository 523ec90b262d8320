# gbaemu4ds: a TLA+ verification project

gbaemu4ds runs Game Boy Advance games on a Nintendo DS.  The game's code runs
natively on the DS's ARM9 processor; what it may not touch (I/O registers, the
cartridge's upper half, the save chip) raises a data abort, and an exception
handler does what the GBA would have done.  The ARM7 processor plays the GBA's
sound and watches the hinge, and the two talk through the DS's hardware FIFOs.

The TLA+ modules beside this file model that program.  TLC checks them on small
instances and the TLA+ proof system proves the main results for instances of
every size.  Paths below are relative to `src/hyperspeedup/`; line numbers are
those of the repository.

- [1. Inventory](#1-inventory)
- [2. Modules](#2-modules)
- [3. Runs: what is checked and on which instances](#3-runs)
- [4. Fairness](#4-fairness)
- [5. Proofs](#5-proofs)
- [6. What the code does that its own text, or a GBA, denies](#6-disagreements)
- [7. What is not modelled](#7-not-modelled)
- [8. Plan](#8-plan)

## 1. Inventory

### The execution contexts

Everything that is hard in this program comes from how few rules there are
about who runs when.

| context | where | runs with interrupts | interrupted by |
|---|---|---|---|
| GBA code on the ARM9 | the game itself; with a patch file it also calls `ichfly_readu32extern` (`arm9/source/Util.cpp:739`) | on | everything on the ARM9 |
| ARM9 exception handlers | `ex_s.s`, `cpu_s.s` into `recompiler.cpp`, `cpumg.cpp` | masked | nothing |
| ARM9 interrupt handlers | `irqstuf.arm.cpp`, `Sound_arm.cpp` | masked | nothing |
| ARM9 `main()` before the game | `main.cpp` | on, the FIFO handler already installed | the handlers |
| ARM7 main loop | `arm7/source/main.c:368-484` | on, and never masks them | its timers, vcount, the lid |
| ARM7 handlers | `main.c:116-180`, `:1004` | masked | nothing |

No lock is used anywhere: libfat's (`lock.c`) are empty, and the shared clock's
`mailBusy` is written by one side and read by none.

### Components

**ROM streaming page cache** (`arm9/source/fatmore.c`).  A GBA image may be
larger than the DS's memory.  The head is resident; the rest is read in
512-byte sectors from the card into a ring of 255 slots.  *State:*
`sectortabel`, two words for each sector of the file (where it is on the card,
and where in memory if cached); `allocedfild`, the table index each slot
belongs to; `current_pointer`, the next slot.  *Operations:*
`ichfly_readu8/u16/u32`, `ichfly_readdma_rom`, each with its own copy of the
miss.  *Called by* data aborts, DMA in handlers and BIOS decompressors, all of
them with interrupts masked: one reader at a time.  (`patchit` redirects functions
of the emulator to others of its own, `Util.cpp:755-770`; it never sends a game's
code here.)  *Hard:* a miss is five dependent steps on three
structures (forget the old owner, claim, publish, fill, advance).  *Correct if*
a sector found in the table is in a slot filled with it, no two sectors share a
slot, and every transfer gets the data of the sectors it names, in file order.
That is so for sectors whose words were cleared; `generatefilemap` leaves those of a
partial last cluster as `malloc` gave them (run `file_map_blank`).

**File map of the image** (`fatmore.c:247-313`, and the chain walk of
`file_allocation_table.c`).  Built once: a walk of the file's cluster chain
that fills the first words of `sectortabel`.  *Hard:* four counts that differ
by one or by a cluster (entries allocated, words cleared, clusters walked,
sectors mapped).  *Correct if* every sector is mapped to its place on the card,
nothing starts out cached, and the walk never follows the end mark.

**IPC command channel** (`common/gba_ipc.c`, `Sound_arm.cpp`).  A command is
two words, stored into the hardware FIFO one after the other.  *State:* the
16-word FIFO of each direction; the readers keep none.  *Operations:*
`SendArm9Command`/`SendArm7Command`; `arm7dmareq` (reads pairs),
`arm7dmareqandcheat` (reads single words and knows three of the requests; installed
in its place while an image with cheats is loaded), `newvalwrite`.  *Hard:* the send is not atomic and has four callers, two of them
interrupt handlers; a full FIFO drops a word; the reader tests for one word and
takes two.  *Correct if* commands are neither lost nor invented and each runs
with its own argument, and where that fails, the damage stays with the commands
concerned.

**Lid and sleep exchange** (`arm7/source/main.c:148-202`, `:475-480`,
`Sound_arm.cpp:70-106`, SWI 3 in `cpumg.cpp:287-299`).  Three messages put both
processors to sleep: the ARM7 sees the hinge, asks the ARM9, the ARM9 asks back
and halts on a flag, the ARM7 saves its interrupts, masks all but the lid's and
waits; the lid's handler restores them and clears the flag the ARM9 halts on.
*State:* `lastlidval`, the saved `ie_save` and `power`, `REG_IE`, power
management, the flag in shared memory, the lid's pending bit and the BIOS's copy
of it.  *Hard:* the lid may move at any step; the game may ask for sleep itself.
*Correct if* no processor sleeps on something that will not come, and waking
restores what sleeping saved.

**Save chips** (`Flash.cpp`, `EEprom.cpp`, `Sram.cpp`).  The flash chip decodes
unlock sequences of byte writes; the EEPROM takes requests one bit at a time
through DMA and guesses the width of an address from the length of the last slow
DMA.  *State:* the decoder's state, what a read answers, bank, size, cells;
mode, bit count, buffer, address, size, cells, and `cpuDmaCount`, which belongs
to the DMA engine.  *Hard:* any sequence may be broken off and continued by
another.  *Correct if* cells change only by whole commands and whole commands
always take.

**Battery file and save type** (`gba.armcore.cpp:810-930`, `:2580-2692`,
`Util.cpp:938-1089`, `main.cpp:361-454`).  Which chip a game has is decided by
up to four parties (its title, a pattern in the image, the hbmenu's setting, the
size of the file) and written to `saveType`, `cpuSaveType`, `cpuSaveGameFunc`,
`flashSize`; a save writes whichever array those name, and the next session
reads it back under decisions of its own.  *Hard:* it is a protocol of several
sessions, and a card may fill up or lose its power.  *Correct if* what a game
saved is what it finds.

**Real-time clock** (`RTC.cpp`, `arm7/source/touch_ipc.c:44-95`).  A serial chip
behind three cartridge addresses.  *State:* three port bytes; the command, up
to twelve data bytes, and one of four states with two bit counts; the seven
bytes of the time in the memory both processors share.  *Operations:* `rtcRead`,
`rtcWrite` (a clock edge at a time), the ARM7's copy of its own clock, byte by
byte, under `mailBusy`.  *Hard:* a request is some hundred accesses, and the
ARM7's copy runs at any point of them.  *Correct if* an answer is one time and
not two, and one request does not shift the next.

**Interrupt, pause menu and video handlers** (`irqstuf.arm.cpp`,
`interruptDispatcher.s`).  The game's interrupts are the DS's own.  Two are the
emulator's besides: an H-blank on every line, and the FIFO in which the ARM7
tells of every V-blank.  *State:* the game's copies of IE, IF and IME beside
`REG_IE` and `REG_IF`; the table from the DS's 263 lines to the GBA's 228; the
menu's cursor and its pause after leaving; the count of skipped frames.
*Operations:* `HblankHandler`, `VblankHandler` through `arm7dmareq`, the
dispatcher and the way on to the game's handler, `pausemenue`,
`frameasyncsync`.  *Hard:* an H-blank the game did not ask for has to go
unnoticed, by the line the DS happens to be in when a handler looks.
*Correct if* every interrupt the game asked for waits for it, H-blank DMA runs
once per line, and leaving the menu restores what entering it stopped.

**DMA engine, timers and I/O registers** (`gba.armcore.cpp:1018-2297`).  Four
GBA channels served by the DS's channel 3, by a stream from the card or by a
copy loop; timers whose reload is doubled into DS ticks; video registers of
which some move to another layer in bitmap modes.  *State:* the channels'
registers and their internal pointers; `timerReload`, `timerValue`, the DS's
timers; the game's and the DS's display registers.  *Operations:* `doDMA`,
`doDMAslow`, `CPUCheckDMA`, the cases of `CPUUpdateRegister`.  *Hard:* which way
a transfer goes depends on source, destination, count and step together, and
each leaves the internal pointers somewhere else; registers are moved by the
mode in force when they are written.  *Correct if* each channel moves what a
GBA's would, once for each trigger, and repeats from where the GBA would;
timers run at their rate (one that counts another's overflows does not, section 6);
and the picture is where the DS looks for it.

**Memory accessors** (`gba.armcore.cpp:2870-4691`).  Which of memory, stream,
registers or save chip an address means, for each width and direction, twice:
once for DMA and BIOS calls ("real") and once for what the game's own loads and
stores are stopped at ("pu").  *State:* the memories and registers they lead
to, the mode of the display, and which chip has been detected.  *Hard:* twelve
copies of one decision.  *Correct if* every address reads as on a GBA,
whichever of the twelve is asked.

**BIOS calls** (`bios.cpp`, `cpumg.cpp:261-427`).  Decompressors, filters,
copies, division, resets and waits, over the memory accessors.  *Hard:* packed
formats whose windows, runs, flags and trees may end anywhere, with halfword
buffering for video RAM.  *Correct if* unpacking gives what was packed, and a
reset clears what was asked for.

**Instruction emulation and exception entry** (`recompiler.cpp:447-7254`,
`ex_s.s`, `interruptDispatcher.s`).  The handler of a data abort decodes the
load or store that the game ran into it with, from its own copy of the
registers: a case for every encoding, each with its own body.  *State:*
`exRegs`, the sixteen registers the entry code saves and restores; `C_FLAG` and
`armMode`, which nobody refreshes.  *Correct if* each does what the
architecture says to memory, registers and the program counter.

**ARM7 sound and main loop** (`arm7/source/main.c`).  The ARM9 passes on what
the game writes to the sound, DMA and timer registers; `newvalwrite` keeps
copies and plays each of the two FIFOs of the GBA on a looping channel of the
DS; a timer for each asks the ARM9 to refill the half just played.  *State:*
the copies, the channels' controls and rates, the refill timers, `dmaApart`,
the two source pointers.  *Operations:* `newvalwrite` with `checkstart`,
`updatevol`, `updatetakt`, and the two refill handlers.  *Hard:* cases that run
into each other, and two clocks (the channel's and the refill timer's) that are
set at different times.  *Correct if* a FIFO that is fed sounds at its rate,
its halves refilled in time.

**Image loading and patches, cheat engine, FAT library, debugger and console,
homebrew menu**: see section 7.

### How they interact

```
  game code --abort--> instruction emulation --> memory accessors --> registers, DMA, timers
      |                                                |     |-----> save chips --Y key--> battery file --> FAT library
      | SWI                                            |-----> ROM stream --> file map, FAT library
      v                                                ^
  BIOS calls -----------------------------------------/        V-blank, H-blank handlers --> DMA --> ROM stream
      | Stop                                                        | pause menu --> battery file
      v                                                             v
  ARM9  <=== IPC commands: lid, sound, keys, V-blank ===>  ARM7 main loop, sound timers, lid interrupt
```

## 2. Modules

| module | models | composed with |
|---|---|---|
| `RomImage` | abstract: an image read without a cache | refined by `RomStream` |
| `RomStream` | the page cache, step by step | `MCStorage` |
| `FileMap` | the building of the table, on every chain and length; its result is `Init` of `RomStream`, the words it leaves uncleared included | `MCStorage` |
| `StorageProofs` | theorems on the map, for any geometry, and on the cache, the refinement among them | |
| `BatteryFile` | the choice of the chip and the file, over several sessions | `MCStorage` |
| `BatteryProofs` | theorems on what a session finds | |
| `CommandQueue` | abstract: a queue of commands with arguments | refined by `IpcChannel` while nothing disturbs it |
| `IpcChannel` | one direction of the FIFO, word by word, with both of its readers | |
| `IpcChannelProofs` | theorems on pairing and counts, and the refinement | |
| `LidSleep` | both processors' side of sleeping and waking; whole commands, where `IpcChannel` has words | |
| `LidSleepProofs` | theorems on waking and restoring | |
| `FlashCommands` | abstract: the command sequences of a flash chip | refined by `FlashChip` |
| `FlashChip` | the decoder of `flashWrite` and `flashRead` | `MCCartridge` |
| `EepromStore` | abstract: a store of words | refined by `Eeprom` |
| `Eeprom` | the serial chip, the DMA that carries its bits, and the game's requests | `MCCartridge` |
| `Rtc` | the clock chip bit by bit, and the ARM7's copy of the time under it | `MCCartridge` |
| `SaveChipProofs` | theorems on the three chips, two refinements among them | |
| `ArmWords` | words and shifts | |
| `ArmCore` | reference: the loads and stores of an ARM7TDMI by the bits of the instruction | compared with `LoadStore`, `ThumbStore` |
| `LoadStore`, `ThumbStore` | `emuInstrARM` and `emuInstrTHUMB` | `Emulation` |
| `Emulation` | the aborts of a game's loads and stores, from the entry to the resumption | `MCEmulation` |
| `Bus` | both sets of memory accessors, the registers and the save chip behind them, beside a GBA's bus | `MCEmulation` |
| `BusProofs` | theorems on every address and every register, for memory of any size | |
| `Bios` | resets, division, copies and decompressors, beside what the packed data were made from | `MCEmulation` |
| `Dma` | four channels, the three ways of a transfer, the triggers, beside a GBA's channels | `MCMachine` |
| `Timers` | the game's timers on the DS's | `Interrupts`, `MCMachine` |
| `Interrupts` | dispatcher, handlers, IE/IF/IME and the pause menu with the timers it stops (`EXTENDS Timers`) | |
| `Lines` | the GBA's lines on the DS's, and what a game reads of them | `MCMachine` |
| `Lcd` | the video registers on the DS's, and the copy of the screen | `MCMachine` |
| `MachineProofs` | theorems on the DMA's pointers, timers, lines, video registers, the handlers and the menu | |
| `Sound` | direct sound on the ARM7 | `MCMachine` |
| `SoundProofs` | theorems on direct sound, for any writes and refills | |
| `MC*` | instances for TLC | |

`MCStorage`, `MCCartridge`, `MCEmulation` and `MCMachine` put components that
do not share state under one next-state relation; a variable (`part`, `chip`,
`device`) says which of them a behaviour is about.  `MCInterrupts` composes the
handlers with the timers, whose state the menu does change.

How state and actions correspond to the code:

- `RomStream`: `sectormap` and `cachedIn` are the two words of a `sectortabel`
  entry, `allocedfild` and `current_pointer` have the code's names, `buffer` says
  which card sector each slot's bytes are of.  A miss is `Evict` (line 93),
  `Claim` (95-96), `Publish` (97), `Fill` (99), `Advance` (101-102), `Return`;
  the four copies of the sequence in the file are the same up to the width read.
  The one reader (`pc`, `pos`, `left`) is a handler, carried through before anything
  else runs.  `Blanked` are the sectors whose cache words `generatefilemap` cleared;
  any other's starts as any slot's number or as `Stray`, what no slot has.  Index 0 is what an unused slot's owner field holds,
  so that the eviction of an unused slot clears the cache word of sector 0; that
  is harmless because sector 0 is resident, which `ConstantsAssumption` states.
- `FileMap`: `ClearCacheWords`, `MapFirstCluster`, `MapNextCluster` are the loops
  of `generatefilemap`.  What `malloc` returned is `Junk`.
- `IpcChannel`: the main program's send is `ProgramSends`, `ProgramStoresArgument`;
  a handler's two stores come between them.  `ReadFirst` and `ReadSecond` are
  lines 48 and 49 of `Sound_arm.cpp`: an empty FIFO gives the last word again.
  `reader` is which of the two handlers the image is played with, settled before the
  game runs, and `Known` what that one acts on (`CheatCommand`: the sound words and
  the requests 0x3F00BEEF, 0x4100BEEF, 0x4200BEEF).
  `runs`, `sent`, `lost`, `halfRead`, `overflow` and `cutIn` observe and
  steer nothing.  `Waiting` counts a command's places in the stream.
- `LidSleep`: `pc7` is the ARM7's place in the main loop or in
  `lid_closing_handler`; `lidFlag` is the pending interrupt and `biosFlag` what
  `swiIntrWait` clears first and waits for.
- `FlashChip`: `flashState`, `flashReadState`, `flashBank`, `flashSize` as in the
  code; an action for each `case`.
- `Eeprom`: the chip's variables as in the code, the buffer as a sequence of bits
  and an address as its bits; of the 14 bits a large chip's address has, 10 tell
  its words apart (`Used`) and a game sends the others as zeros.
  `Ask`, `Send` and `Receive` are the game's DMA: `doDMAslow` records the length
  in `cpuDmaCount` and then moves a bit at a time.
- `BatteryFile`: arrays are cut into the four pieces that sizes distinguish (512
  bytes, 8 KB, 64 KB, 128 KB); the content of a piece is the number of the game's
  write.  `setup` is what does not change from session to session: game, title
  list entry, the menu's number, and A or B at the start.  A session may end in
  any save by a loss of power.
- `Rtc`: `rtcClockData` is the structure of that name.  A game's request is the
  a series of port writes and reads a game's library makes (`AccessOf`), of which
  `done` are done; the seven and three reads of `case 0x65` and `0x67` are
  `FetchByte`, one at a time,
  and `Arm7Copies` writes one byte of the next time between any two of them.
- `LoadStore`, `ThumbStore`: the groups of cases that differ in their encoding
  only are sets of cases, what their bodies share is `Store`, `Load`, `Swap`,
  `StoreBlock`, `LoadBlock`, and where one case spells something differently from
  its neighbours it is a set of its own.  `ArmCore` never looks at the code: it
  decodes the same twelve bits by the architecture's rules.
- `Bus`: a unit is the sequence of its bytes; `ReadReal`, `WriteReal`, `ReadPu`,
  `WritePu` are the accessors, each for three widths, with a region as a case of
  them.  Beside `mem`, `ioMem`, `reg` there are `gbaMem` and `gbaReg`, what a GBA
  would hold.
- `Bios`: a call is one step from `ram` to `ram'`; loops over the packed data are
  recursive operators over a record of the loop's variables.
- `Dma`: `mem` is the DS's memory by physical address, with the image's loaded
  part in it; `dmaSource` and `dmaDest` the internal pointers; `doDMA`'s three ways
  are the values of `path`.  `gba` runs a GBA's four channels beside it.
- `Interrupts`: `pc9` is what the ARM9 does: the game, an H-blank or FIFO handler,
  the menu, or the game's own handler between reading IF, answering and returning.
  `gbaIF` is the IF a GBA would have; `mishaps` remembers which of the exceptions
  of section 6 has occurred.
- `Lines`: `VCountdoit` and `VCountdstogba` are computed as `initspeedupfelder`
  computes them, for all 263 lines.
- `Lcd`: a register's value is the set of its bits that are 1.
- `Sound`: registers are named by their addresses.  `newvalwrite` is the composed
  effect of its cases in their order, falling through where they do; the refill
  timers' handlers `dmaAtimerinter` and `dmaBtimerinter` are `Refill`.  `SetsUp` is
  a game's first writes, one by one, before any refill; `GameWrites` and
  `GameWritesByte` what it may write after them, by the halfword and (of
  `SOUNDCNT_L`, the only one whose bytes are passed on as they are) by the byte.

## 3. Runs

A passing run of TLC visits every state; a run marked *violation* shows one of
the disagreements of section 6.

| run | property | question it answers |
|---|---|---|
| `storage` | `Coherent`, `SlotsAndOwnersAgree` | can any run of hits, misses and wraps of the ring make a table word name a slot with something else in it? |
| | `ImplementsRomImage` | do readers see the image as if there were no cache? |
| | `TransfersEnd` | does every transfer, longer than the ring too, complete? |
| | `MapsWholeFile` | is the map right for every fragmentation and length? |
| | `OverrunsUnlessLastClusterIsUsed` | for which lengths is the table written past its end? |
| | `SavedIsRestored` | over several sessions, full cards and losses of power, does a game find what it saved? |
| | `LargeGameHasLargeChip` | does a game of two flash banks always have two? |
| `file_map_blank` | `EveryFileStartsBlank` (violation) | does nothing start out cached, for every length, as the comment says? |
| `battery_by_menu` | `SavedIsRestored` (violation) | and with B and an EEPROM chosen in the menu? |
| `lid_sleep` | `NoLostWakeup`, `OpeningWakes` | does an ARM9 that sleeps always have an ARM7 that will wake it, and does the lid? |
| | `RestoresWhatWasSaved` | are interrupts and power the same after a sleep as before? |
| | `NoticedCloseSleeps` | does a closed lid that was noticed end in sleep? |
| `lid_hasty` | `OpenLidResumesArm9` (violation) | and if the lid is opened while the request is under way? |
| `ipc_words` | `NoCommandInvented` | is a command run that was not sent, or twice, whatever stale words are read? |
| | `InterleavingKeepsPairing` | does an interrupted send shift the pairs of everything after it? |
| | `CheatHandlerRunsItsOwn` | does the reader of single words run every command it knows and had room for, and never one that it does not know? |
| | `UndisturbedIsCommandQueue` | without interruptions, is the channel a queue of commands? |
| `ipc_timers` | `LidArgumentIsItsOwn` (violation) | does the lid's request run with its own argument, when a timer may interrupt a send? |
| `cartridge` | `ImplementsCommands`, `StatusIsRead` | do flash cells change by whole commands only, for any sequence of writes and reads? |
| | `ImplementsStore` | do the EEPROM's bits make a store of words, for both sizes and with other DMA in between? |
| | `SavedPartCoversWrites` | is everything the game wrote within what `eepromSize` says is to be saved? |
| | `AnsweredAsAsked` | does the clock answer each request in full, with one time it showed, whatever was asked before? |
| `emulation` | `ArmAsOnTheGba`, `ThumbAsOnTheGba` | does every encoding of a load or store do what the architecture says, registers colliding or not? |
| | `ReadsAsOnTheGba` | do both sets of accessors lead every address of every width where a GBA's bus does, after any writes? |
| | `RegistersAsWritten` | does a register keep each byte written, untouched by its neighbours'? |
| | `CallsAsOnTheGba` | does unpacking give back what was packed, however it was cut? |
| `machine` | `TransfersAsOnTheGba` | does each transfer copy what a GBA's would, whichever way it goes? |
| | `RepeatsKeepPaceOrPlace` | where does a repeating channel go on? |
| | `TimersAsOnTheGba` | which timers keep the GBA's time, across reloads, overflows and the menu? |
| | `EveryGbaLineOnce` | does each frame begin each of the GBA's lines once, with the flag that goes with it? |
| | `LayersAreOfTheirKind` | is each layer of each mode of a kind that the DS draws there? |
| | `FreshRegistersAreShown` | is a register written since the last change of mode where the DS looks for it, and the screen no more than `frameskip` behind? |
| | `SoundsAsAsked` | is a FIFO that the game feeds played, at its rate, from the half that has been refilled, as loud as asked? |
| `interrupts` | `InterruptsWaitForTheGame` | does an interrupt the game asked for stay pending until the game answers it? |
| | `HblankDmaOncePerLine` | is a line's DMA triggered once? |
| | `NoMessageForgotten` | does a message that waits in the FIFO always have its interrupt? |
| | `EmulatorKeepsItsInterrupts` | may the game's IE, or the menu, switch off the emulator's own interrupts? |
| | `MenuOpensForNewFramesOnly`, `ContinueLeavesTheMenu` | does the menu stay closed for the V-blanks that waited behind it, and can it be left? |

Each module has a type invariant, checked while it was written and, where it is
proved or says more than types, in the run.

### What the long properties are made of

- `ReadsAsOnTheGba` compares at every address of the focused space, for three
  widths and both sets.  What is known to differ is `Excepted`, four lines each
  of which is a disagreement of section 6.
  In VRAM a misaligned word or halfword is held to be the unit at the aligned address
  (`AsRead`), which the emulator reads, and not the turned one of a GBA.
- `TimersAsOnTheGba` holds a timer that counts the clock to the GBA's time, and one that
  counts overflows to exactly twice of it, with a counter at half: doubling the reload
  is wrong there.  A counter told in the middle of a period to count something else
  is out of it until its next period (`drift`).
- `SoundsAsAsked` has six parts for each FIFO: `StartsWhenAsked`, `AtItsRate`,
  `KeepsPace`, `RefillsThePlayedHalf`, `FromItsSource`, `AsLoud`.  `FromItsSource` says that
  each FIFO's pointer on the ARM7 is where the GBA's DMA would be, and that what the ARM9
  is sent for either FIFO is A's: the piece that A's DMA would fetch next (`sent`).  Each names its
  exceptions through a history variable that is set where the code makes one
  (`odd`, `spoilt`), so that everything else is held to the promise.
- `CallsAsOnTheGba` starts from the plain data: for each call the game's *packer*
  is free (every list of literals and copies, runs, trees of every shape, units of
  bits), and the reference is the plain data, not a second decoder.
- `InterruptsWaitForTheGame` and `HblankDmaOncePerLine` are about the same trick,
  telling the emulator's H-blanks from the game's by the current line;
  `mishaps` names the three ways in which it is known to fail.

### Bounds, and why they are enough

- **storage**, stream: six sectors, three slots, transfers of up to three sectors.  The
  ring wraps, a transfer is as long as the ring, evictions hit owned and unowned
  slots, and the layout on the card is neither in order nor contiguous.  The last
  sector's word is not cleared and starts as anything.  The
  proofs remove the bounds.  File map: two-byte sectors, three to a cluster, files
  of 1 to 24 bytes (one byte to four whole clusters), every chain of five clusters.
  Each of the four counts changes at a residue modulo sector or cluster, and every residue
  occurs, with zero and with several whole clusters before it.  Battery file:
  three sessions (save, restore under other decisions, restore again), three
  writes of the game.
- **lid_sleep**: six movements of the lid and queues of two messages.  A cycle of
  sleep and waking is two movements, so three follow one another, and the game's
  own request may be queued behind the ARM7's.  Its player is patient: closes the
  lid only of a machine that runs and opens it only when both processors sleep.
  `lid_hasty` drops that.
- **ipc_words**: two sends of each of three commands (two from the main loop, one
  from an interrupting timer), a FIFO of four words: it overflows, is read half a
  pair at a time, and both handlers are played, the cheat handler without the lid's
  request among what it knows.
- **cartridge**: the two unlock addresses and address 0, which are three erase
  sectors; every byte the decoder knows and one that it does not.  The EEPROM's
  addresses have one or two bits (all of them `Used`) and words two; the code tells requests apart by
  comparing counts with each other, so the numbers matter only by their order.
  `OtherCounts` has a length that is nothing's and one that is a wide request's.
  The clock turns from the last second of a year, when all seven bytes change, in
  the middle of two requests that follow one another.
- **emulation**, instructions: every ARM label (bits 27-20 and 7-4) and every
  Thumb high byte of a load or store.  A word has eight bits in four bytes of two bits, so that a word has
  bytes, halves and a sign, rotation by misaligned addresses and carries out of
  the top; two low registers, r13 and r15 as operands make every collision of
  base, destination and offset; lists are all those of the four; offsets 0, 1
  and 3 are aligned and not, and 0 is the special shift.
  Bus: a block of four bytes for 0x4000, three loaded blocks of an image of six,
  addresses at both ends of each space, block and mirror, two writes: the second
  may be in another width and mode than the first and overlap it.
  BIOS: 192 bytes of RAM and about 1550 calls: every list of up to four tokens of
  windows at distance 1 to 3, cut short or not, and each of the other formats'
  ways to end in the middle of a byte, a halfword or a word.
- **machine**, DMA: regions of 16 halfwords, an image of 16 of which 4 are loaded;
  sources in RAM, in the loaded part, up to its edge, across it and beyond it; both
  widths and every step of source and destination; counts of 1 and 2, and of 0, which
  asks for the most a channel copies (`Longest`, 1 here, and four times that on
  channel 3; 0x4000 and 0x10000 in the code); two transfers, since what
  the first leaves decides the second.  Timers: words of two bits (the top bit,
  and one more), timers 0 to 2, whose cases differ, each off, counting the clock or,
  but for timer 0, counting overflows; four writes.  Lines: all 263, read at 8 of them.  Video: a control register
  of each class, a matrix of each layer and a window, each display mode, three
  writes: before the mode changes, in it, and after.  Sound: after a setup that
  points the DMAs at the FIFOs and one that already plays in stereo, three writes and
  two refills of each FIFO; it was also explored alone with four and
  three, and `SoundInv`, the invariant of the proofs, over some millions of states of
  random behaviours with many more registers and values.
- **interrupts**: games that use the H-blank's interrupt, the keys' or both, two
  V-blanks waiting in the FIFO, a menu with one item beyond Continue, a break of two
  frames; lines are as many as it takes.  One mishap (an exception of section 6)
  makes void what it excepts, so one is the bound.

### Which setups keep a saved game

The setups of `storage` are those that are `WellStarted`, which keep both properties;
`SavedIsRestored` owes a game only what it had written to its chip and then
saved in full.  Exploring the others one by one gave this table (A: start with
detection, B: the menu's setting overrides; the menu's numbers are those of
`hbmenu`, `source/main.cpp:106`):

| game | `SavedIsRestored` | `LargeGameHasLargeChip` |
|---|---|---|
| EEPROM, A, any fitting choice | holds | |
| EEPROM, B with 1 (EEPROM) or 4 (EEPROM and sensor) | fails: run `battery_by_menu` | |
| SRAM, flash 64 KB, any fitting choice | holds | |
| flash 128 KB, Ruby or Sapphire, A | holds | holds |
| flash 128 KB, any title, B with 6 (flash 128 KB) | holds | holds |
| flash 128 KB, choice automatic and the title not in the list, A or B | holds | fails |
| flash 128 KB, the title not in the list, A, whatever the menu says | holds | fails |
| flash 128 KB, B with 3 (flash) | holds | fails |
| flash 128 KB, a listed title other than those two, A, automatic | holds | fails: a session that saves before the game has used the chip makes a 64 KB file, whose size then shrinks the chip (`gba.armcore.cpp:900`) |
| flash 128 KB, a listed title, A with 3 or 6 | holds | fails after a card that filled up at 64 KB |

## 4. Fairness

- `RomStream`: weak fairness of the reader's steps.  It is straight-line
  code that nothing preempts.
- `LidSleep`: weak fairness of the ARM7's program, of the lid's interrupt once it
  is pending and enabled, of the ARM9's FIFO handler and of its waking.  Two
  processors that have clocks make progress, and an interrupt that is enabled and
  pending is taken.  Neither the player nor the game is fair.  A wait that is not
  ended by its flag is a step that is not enabled, so that fairness does not wake
  anyone by itself.
- `Interrupts`: weak fairness of `Frame`, since the ARM7 goes on sending a message
  for every V-blank, and of `MenuContinues`: a player who stays on Continue presses
  A.  Without the first the menu could not be left (section 6), which is what
  `ContinueLeavesTheMenu` is about; moving the cursor is not fair.
- The other modules state safety only and have no fairness.

## 5. Proofs

All are checked by `tlapm`, for all values of the constants that meet the named
assumptions.  The bounds of section 3 (how many writes, frames, sessions, sends)
are constants too, so a theorem holds for any of them.

**`StorageProofs`**.  The stream, from `ConstantsAssumption` (sectors are numbers, the head
of the image is resident and never streamed, card sectors are not 0, there is at
least one slot), for any set of sectors whose words were cleared and anything in the
others.
`StreamInvariant`, `TypeCorrect`, `CacheCoherent`, `SlotsNeverShared`,
`StreamImplementsImage`.  Coherence alone is not inductive.  The invariant
`IInv` adds: a cleared word names a slot or nothing (`ClearedWordsAreSlots`); the map half of the table is the layout
for every streamed sector (evictions do write the table, but only the cache half
of an owned sector or index 0); a transfer stays within the file; in the middle
of a miss the wanted sector is not cached, the current slot is unowned after
`Evict` and owned by the wanted sector after `Claim`; and table and owners name
each other, which is what makes an eviction remove the only cleared word that
could still name the slot (a word of a sector that was not cleared may name it too, and
is outside what is promised).  The refinement maps each step to a delivery of
`RomImage` or to a stutter.

The map, from `MapAssumption` (any sector and cluster size, any
clusters above 1 and below the end mark): `WholeFileIsMapped`, `OverrunIsKnown`.
The library has no facts about `\div` and `%` by a variable, so `Division`,
`QuotientIs` and `CountsOfSize` come first: how the four counts of
`generatefilemap` follow from one another.  `MapInv` then says, for a walk that
has taken so many clusters, which entries are filled and with what, and that the
next cluster is the chain's, until the walk takes the end mark.

**`LidSleepProofs`**.  `LidTypeCorrect` holds of any player.  `WakeupNeverLost` and
`SleepIsUndone` have the hypothesis `Patient`: the lid is closed only on a
running machine and opened only once both processors sleep.  Without it the run `lid_hasty` shows the exchange to fail.
`NoLostWakeup` alone is not inductive: `LidInv` adds that the ARM9 is told to sleep
only by an ARM7 already on its way into the wait (`SleepOnlyWhileClosing`), that the
lid's interrupt finds it in the wait and ends it (`InterruptEndsTheWait`), and which
of the two registers have been saved at each point of that way (`SavedSoFar`).

**`IpcChannelProofs`**, from `ConstantsAssumption` only.

- `PairingHolds`: the parity of the total of words (in the reader's hand, in the
  FIFO, still to be stored by program and handler), with each of those lists typed: a
  send adds two, a pair read takes two, a store moves one.  So interrupted sends
  garble two arguments and never the rest.
- `NothingIsInvented` and `CheatHandlerRunsWhatItKnows`: for each command, how often it was run,
  waits, and was lost, against how often it was sent.  `CInv` is the two properties
  with their types; what takes the work is `CountAppend` and `CountTail`, how a
  count of places in a sequence changes with one at its end or front.
- `ChannelImplementsQueue`: until something disturbs it, the channel is
  `CommandQueue`.  `SInv` adds that the stream is well paired (a command, then its
  argument, and a last half exactly when a sender has the other) as long as no
  handler cut in, nothing was dropped and nothing read early; `DisturbedForEver` makes
  that a condition that never comes back.

**`SaveChipProofs`**.  Flash, from `FlashAssumption`: `FlashInvariant` and
`FlashImplementsCommands`.  Each state of the decoder stands for the opening of a
command (`Pending`).  `OpeningsGrow` says which writes continue which opening,
`OpeningsFollow` that the decoder's next state stands for the longer one,
`OpeningsEnd` that three states stand for whole openings; with these each `case`
of `flashWrite` is an action of `FlashCommands`.  `StatusIsRead` is needed for
it: a chip that mismatches in its first two states does not reset what reads
answer, which would be a lost reset if an erase's status could be pending there.

EEPROM, from `EepromAssumption`: `SavedPartIsEnough` and `EepromImplementsStore`.  The
assumption has two conditions on the sizes that the code relies on: a small chip's
address is shorter than a large one's, and a small chip's write request is not as long
as a large one's read request (`Narrow + WordBits # Wide`; in the code 73 and 17),
since otherwise the length of a transfer would not tell the size.  `EepromInv`
relates the game's progress to the chip's: while `k` bits of a request have been sent
the chip is idle with none, has exactly these in its buffer, or has the address and
the word's first bits (`Taken`), the rest is what the game still has to send
(`StillToSend`), and `cpuDmaCount` is the length of this request, not of some other
transfer (`Sending`); during an answer what the game has received is the four bits to
ignore and the word's first bits (`Answering`).  The abstract write is the step that
takes the last data bit, before the stop bit.

The clock, from `RtcAssumption` (any times the ARM7 may show, any bytes written to the
status, any number of requests): `RtcInvariant` and `ClockAnswers`.  `RtcInv` says
where the chip is for every number of accesses done: opened line by line (`Opening`),
with the top bits of the command in place (`Commanding`), reading the time
(`Fetching`), taking the status (`Taking`), with so many bits given (`Replying`), or idle.
`WriteStep` and `ReadStep` take it through a request of whatever kind, from
`CommandComesIn`, how a command grows bit by bit, and `HeardByteIs`, that eight bits
heard are the byte they were of.  For the time itself the invariant is `Copying`, what
the shared bytes are in the middle of the ARM7's copy, and `Fetched`: every byte the
chip has is of a time shown since the request began or of the next, and
while nothing overlapped all are of one.  A request can begin only because the one
before it left the chip idle (`DoneIsIdle`); setting the clock does not, so both
theorems speak of a game that has not tried to (`setByGame`, section 6).

**`BatteryProofs`**, from `BatteryAssumption`, and for setups that are `WellStarted`:
`BatteryInvariant`, `SavedGameIsRestored`, `LargeGameKeepsItsBanks`.  `WellStarted` is
what the table in section 3 shows to be needed.  `BatteryInv` adds that the save type names the
game's chip once the game has written to it (`SavesItsChip`), and that the file, as
long as something is owed, begins with it and has a length that is loaded into that
chip (`FileHoldsOwed`).

**`MachineProofs`**, from the assumptions of its modules: `TimersFollowTheGba` for
counters of any even number of values (`DoubledValue`, `CounterShown`: what doubling
loses and what halving gives back; a timer that counts overflows takes twice the GBA's
time), `LinesFollowTheGba` for anything a game reads,
`LayersFollow` and `RegistersAreShown` for any list of writes and any `frameskip`.  `LcdInv`
derives the DS's display register from the game's and counts the frames since the
screen was copied; `RegisterKinds` says that the registers BG2's go to in a bitmap mode are
used by nobody else there.

The interrupts, from `InterruptsAssumption`: `IrqInvariant`,
`PendingForTheGame`, `LineDmaOnce`, `MessagesHeard`, `EmulatorHears`,
`MenuStaysClosed`.  The properties speak of interrupts the game has enabled; the
invariant has to speak of all that a GBA would have pending (`PendingAsOnTheGba`),
because the game may enable one later, and has to say where in the way to the game's
handler a line may still be whose DMA has run (`RunWhileAnswered`).  `MenuStaysClosed` needs
`BreakOutlastsOldFrames`: the pause after the menu is at least as long as the frames that
waited, from `MaxFrames <= BreakTime` (8 messages in a FIFO of 16 words, and 60 frames,
`irqstuf.arm.cpp:478`).

The DMA, from `DmaSizes` and `DmaGame` (any sizes, any transfers and controls of
any of the four channels, any number of starts): `DmaInvariant`, `PointersFollow`,
`RepeatsFollow`.  `TransferLeaves` says what each way of a transfer does to the two
pointers, `SectionRuns` what a section of `CPUCheckDMA` does to its channel and that
it leaves the others, `CheckAdvances` that the four in turn do so to every channel
they run.  `OnItsWay` is the invariant: a running channel with no slow transfer yet is
at the address it began from or, once the DS's channel has had its source, at the
loaded copy of the same halfword; that copy lies in the region of workRAM, so it
is not taken for a ROM address and moved a second time (`PlacesPass`).
`RepeatsFollow` speaks of what is in memory there, and so has the hypothesis
`[]ImageKept`: no transfer has overwritten the loaded part of the image, which is
where the GBA has mirrors of its workRAM.  The games of `machine` satisfy it; one
that aims the DS's channel at such a mirror does not, and overwrites its own
code (section 6).  `PointersFollow` has no hypothesis.

**`BusProofs`**, from `BusAssumption` (memory of any size that is a multiple of a
block, an image of up to two regions): `BusInvariant`, `ReadsAreTheGbas`,
`RegistersAreAsWritten`.  `MemoryPlace` shows that what an address leads to is the GBA's
place, mirrors, VRAM's fold and aligned units included (in VRAM of an address whose
low bits are cleared); `WrittenAsOnTheGba` and
`ReadAsOnTheGba` follow, so that the emulator's memory stays the GBA's byte for byte.
The registers take more: `ioMem` may be stale for the line and IF, is zero for a
count, and need not agree with what a register of the sound was given by the byte.
`Held` says of each kind what may be told, and `WriteKeeps` that a write of any width
at any place keeps it for the registers it covers and for the others.  A read of a
register is then that of the GBA's (`RegisterRead`) because what it fetches first is just
what may be stale.  The theorem showed that `Excepted` had to name the unit at the loaded
part's end by its place in the image: by its place in the region it would have
excepted more than that for a part longer than a region.

**`SoundProofs`**, from `SoundConstants` (any setup, any list of registers and
halfwords, any bytes of `SOUNDCNT_L`): `SoundInvariant`, `SoundIsAsAsked`.  Each
operation is first given by what it leaves in each field (`CheckstartFields`,
`UpdatevolFields`, ...).  Then `Later` says how a FIFO may go from one state to a later
one: its refill timer, once started, keeps its period; its source is kept or taken
again; the half it plays is kept or begun anew.  It is transitive, so it holds across
cases that run into each other, and `NewvalwriteWrites` gives what may be told of the
ARM7 after a write of anything anywhere, and which of its copies then hold what the
game wrote.  `SoundInv` adds to the promise: the copies agree wherever nothing ran into
them, which is everywhere but the timers' registers and `SOUNDCNT_L` (`CopiesKept`);
each channel has the timer and the rate its copies name (`Tuned`); whoever sounds has its
refill timer, and B is never cut off (`Refilled`); `dmaApart` is the half A
plays, and B's is told from it by whose turn it is (`HalvesOfA`, `HalvesOfB`); each
FIFO's pointer on the ARM7 is where the GBA's DMA would be unless its source was taken
again (`Fetched`); and what the ARM9 was last sent for either FIFO is what A's DMA would have
fetched, if A was on its track when it was sent (`Supplied`).

**Only model-checked.**

- Liveness (`TransfersEnd`, `NoticedCloseSleeps`, `OpeningWakes`,
  `ContinueLeavesTheMenu`), which is outside the prover's reach.
- `TransfersAsOnTheGba` (`Dma`), and so `ImageKept`: what the loop of a transfer
  copies is a recursive function of the count.
- `Bios`, whose loops are recursive operators, and `Emulation`, which compares
  over finite sets of encodings and register values rather than state an
  invariant of an unbounded instance; there TLC's enumeration is the better argument.

## 6. Disagreements

### With the repository's own text

Each has a run that finds a shortest behaviour.

- `fatmore.c:273` (`//setblanc`): the words of the last sectors of a file that
  ends in a partial cluster are not cleared (`file_map_blank`).
- `arm7/source/main.c:179` (`//ARM9 Resume work`): a lid opened before the ARM7
  has begun to wait for it leaves the ARM9 asleep (`lid_hasty`).
- `Sound_arm.cpp:72` (`//val1 == IRQ_LID`): a sound timer's command lands between
  the two words of the lid's (`ipc_timers`).
- The repository's `README.md:22-23` on pressing B: the menu's number for EEPROM
  is the emulator's for SRAM (`battery_by_menu`, `main.cpp:424`).

### With a Game Boy Advance

The properties of the runs hold with these exceptions.  Most are in a model, and the
property names them or states what the code does instead.  Those marked (*) no passing
run meets: they lie outside of what the models or their setups include, were found in
reading, and nothing here is checked about them.

Cards, chips and sleep:

- (*) The lid handler restores `ie_save` before anything was ever saved if the lid's
  interrupt comes first: `REG_IE` is then 0 for good (`main.c:170`).
- The hinge is read twice in one test (`main.c:477`, `:480`), so a movement between
  the two is stored without having been acted on.
- `arm7dmareqandcheat` knows neither the lid's request nor the one to sleep: with
  cheats, closing the lid never puts the ARM9 to sleep.  `IpcChannel` has that handler,
  which runs what it knows and passes over the rest; (*) `LidSleep` is about an image
  without cheats, so what becomes of the ARM7 there is not in a model.
- A command's argument is also lost without any timer: a pair of which half has
  arrived is read with the last word twice (`Sound_arm.cpp:49`), and a full FIFO
  drops half of one (`gba_ipc.c:48-49`).
- An erase fills cells with 0 while the status reads 0xFF, the value of an erased
  cell (`Flash.cpp:130`, `:215-217`).
- A flash unlock that is broken off in identification mode leaves reads answering
  the identifiers, and 0xF0 alone does not end it (`Flash.cpp:162-171`).
- An EEPROM answer that the game does not read to its end swallows the first bit
  of the next request (`EEprom.cpp:158-162`, "should we reset here?").
- The clock's command 0x64 (set the time) leaves the chip waiting for a command,
  and the data bits are or-ed into it: a later request may be taken for another
  (`RTC.cpp:133`).  The time read while the ARM7 copies the next may be of both;
  `mailBusy` would tell, and nobody reads it (`RTC.cpp:157`).

Instructions, bus and BIOS:

- A shift through the carry uses `C_FLAG`, and a transfer of the user's registers
  `armMode`; neither follows the game.  A lone store of r15 stores 8 ahead, not 12.
- A misaligned word or halfword of VRAM is read as the unit at the aligned address,
  not turned: the case clears the address's low bits (`gba.armcore.cpp:2958`, `:3159`)
  before they are tested for the turn (`:3038`, `:3249`).
- The accessors take the unit that begins at exactly `romSize` from the loaded
  part, whose end it is.
- A count register, or one of the sound's, loses its other byte when written by
  the byte; the ARM7 takes an even byte for the whole register and ignores an odd
  one.  Bytes and words of the timers are read raw; IF from an odd address is as
  last read.
- `Diff8bitUnFilterWram` never runs (`bios.cpp:379`, a guard that is always true).
  `LZ77UnCompVram` with a window at distance 1 reads a byte of a halfword it has not
  yet written.
  `CpuFastSet` copies word by word, so an overlap within 32 bytes differs.  A
  division by zero leaves the registers.  `SoftReset` always starts at the image,
  whatever the flag at 0x7FFA says.  `RegisterRamReset` forgets the timers, KEYCNT
  and the serial data (it resets 0x110-0x11E instead of 0x120-0x12A).

DMA and timers:

- What a transfer leaves in the channel's pointers depends on its way: the slow
  one past its last unit, the hardware one at this transfer's address, with the
  image's replaced by a pointer into memory, the stream at its start.  Words of the
  card from or to an odd place, and a word-by-word read of such a pointer, copy
  something else.
- (*) A transfer the DS's channel or the stream carries out takes its destination for a
  physical address: one into a mirror of workRAM goes over the loaded image
  (`gba.armcore.cpp:1132`).
- Reloads below 0x8000 lose a whole turn of the DS's counter, since they are
  doubled into 16 bits; timer 0's control uses timer 1's reload (`gba.armcore.cpp:2054`);
  timer 2's reload is written undoubled; counters are read without their top bit.
- The reload of a timer that counts another's overflows is doubled as well
  (`gba.armcore.cpp:2107`, `:2147`, `:2186`), though it counts what is already at the
  GBA's rate: its periods last twice the GBA's, and its counter shows half.
- H-blank DMA runs on all 228 lines, those of the V-blank included.

Interrupts, menu and video:

- (*) Only the first entry of `VCountgbatods` is ever filled, so that the V-count
  interrupt is never at its line (`irqstuf.arm.cpp:184`).
- An H-blank handler that comes a line late looks at the wrong line: it leaves the
  emulator's H-blank to the game, or takes the game's.  A game's handler that
  leaves an H-blank pending has that line's DMA run twice.
- A byte written to IF is put together with the other byte as last read and
  acknowledges what was pending there (`gba.armcore.cpp:3790`).
- Continue in the pause menu: the statement that was to drain the FIFO is
  commented out, so the loop's body is the `return` behind it, and the menu is
  left only if a word is waiting (`irqstuf.arm.cpp:600-602`).  `REG_IE` is then
  written from the game's IE, without the emulator's H-blank until the game's next
  write; the V-blanks that waited are all handled at once.
- `ignorenextY` counts only frames in which the keys are held.
- BG2's enable bit is not moved to BG3 with the bitmap; registers written before
  the mode changes class stay where they were; BG3's control is only ever or-ed to.

Sound (`arm7/source/main.c`):

- The cases 0x100, 0x102, 0x104, 0x106 and 0x80 run into each other (250-267): a
  reload of timer 0 also becomes both timers' control, timer 1's reload and
  SOUNDCNT_L.
- `updatevol` writes a tone channel's control to channel 4, which is FIFO A's
  (546-555): its volume is another's and its start bit is cleared.
- Nothing ever stops a channel or a refill timer.
- The refill timer is set once, from 16 bits of 32 times the period: rates at or
  below 8 kHz, and later changes of rate, are out of pace.
- FIFO B's handler tests `dmaApart` and sends A's source (133-134), so that B plays what A does,
  or nothing it knows of before A's source is set; `dmaBpart` is
  never read.  `checkstart` reads the DMA's source again at any later write, which
  rewinds it.
- (*) A source in ROM is sent as a word above 0x8000000, which neither handler of the ARM9
  takes for a sound word (`Sound_arm.cpp:50-53`; `unsecamr7com` is not defined).

## 7. Not modelled

| part | why |
|---|---|
| `getandpatchmap` (`fatmore.c:315-334`) | a variant of the file map for patch files; in the plan |
| Startup drain of the FIFO (`main.cpp:469-471`) and its synchronous calls back | in the plan, with `IpcChannel` |
| A read error of the card (`fatmore.c:99` ignores the result) | outside the stream's contract: the model's card always reads |
| A save torn by loss of power | `fopen "wb"` has emptied the file already, so old and new are both lost, and a start by A then hangs (`main.cpp:407`); the model has the empty and the cut file, but `SavedIsRestored` owes nothing until a save has finished |
| A 128 KB file read into a chip still of 64 KB (`Flash.cpp:102-104` then copies bank 0 over bank 1) | outside the fitting setups of `storage` |
| A save before the game's first access over a good file | the user's README, line 15, asks for the Y key only after the game has saved |
| The sensors behind regions 8 and 13, WAITCNT, the serial registers, SRAM's cells | they keep a value and hand it back |
| The menu's other items | each starts a part that is listed here or has a model of its own |
| `ArcTan`, `Sqrt`, the affine sets, `MidiKey2Freq`, checksum, `SndDriverJmpTableCopy` | numeric tables without state |
| The master switch, bias, microphone and touch on the ARM7 | values passed through |
| The ALU macros at the head of `recompiler.cpp` | compiled out: data processing runs natively |
| Exception stacks, the MPU's regions, the boot code | the models use what they establish: handlers run masked, and which addresses abort |
| Image loading, file choice, patches | run once before the game; `patchit` matters here as the place that installs the cheat handler (`Init` of `IpcChannel`) |
| Cheat engine | parses lists of codes; its effect on the FIFO handler is modelled |
| FAT library | vendored libfat; the models use its chain walk and its short writes |
| Debugger, console, disassembler, video helpers | interactive output and parts of libnds |
| Homebrew menu and boot loader (`hbmenu`) | another program; the models use the settings it passes |

## 8. Plan

Order: what loses a user's data or hangs the machine first.  Done, as models: the
stream, the file map, the lid, the IPC channel, the chips, the battery file; the
clock, DMA, timers, interrupts and the menu, lines and video, instruction emulation,
the bus, the BIOS and the ARM7's sound.  Done, as proofs: everything that section 5
lists.

Left:

1. Theorems: that no transfer overwrites the loaded image, for a game that aims none
   at workRAM's mirrors.
2. `IpcChannel` in both directions, with the startup drain.
3. `getandpatchmap`, with `FileMap`.
4. A card that fails to read, with `RomStream`.
5. The interleaving of the save key's file operations with the stream's.

To repeat a check: `tlc -config Cartridge.cfg MCCartridge` in this directory, for
a proof `tlapm SaveChipProofs.tla`.  `PROJECT.json` lists the runs, the lines each
definition stands for, for every property a change of the code that breaks it,
and the hazards the properties were written for.
