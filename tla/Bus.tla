--------------------------------- MODULE Bus --------------------------------
(* The memory accessors of gba.armcore.cpp: where an address of the GBA    *)
(* leads.  There are two sets of them: the "real" ones, which DMA and the  *)
(* BIOS calls go through and which know all of the memory, and the "pu"    *)
(* ones for what the game's own loads and stores are stopped at by the     *)
(* protection unit: the registers, the cartridge and the save chip.        *)
(*                                                                         *)
(* A unit is the sequence of its bytes.  Block bytes stand for 0x4000 of   *)
(* the VRAM, RegionSize for the 0x1000000 of a region, and the registers   *)
(* are one or two of each kind.  Writes of the line's, IF's and the timers' *)
(* registers are in Lines, Interrupts and Timers.                          *)
EXTENDS Integers, Sequences
CONSTANTS
  Block,
  RomSize, ImageSize,   \* bytes of the image: loaded, and in all
  WrittenAt,            \* bound: the addresses written, with their widths
  MaxBusWrites          \* bound: writes in a behaviour

Widths == {1, 2, 4}
RegionSize == 16 * Block
Region(a) == a \div RegionSize       \* address >> 24
At(r, off) == r * RegionSize + off
Cartridge == 8 .. 12
SerialAt == 13
ChipAt == 14
Trapped == {4, SerialAt, ChipAt} \cup Cartridge
BytesOf == [work |-> 4 * Block, internal |-> 2 * Block, palette |-> 2 * Block,
           vram |-> 6 * Block, oam |-> 2 * Block]

(* The registers by the place of their first byte: a plain one is stored   *)
(* as written, a count reads as zero, a hidden one cannot be read, those   *)
(* of the sound are the ARM7's.  The line's are DISPSTAT and VCOUNT.       *)
IoSize == 24
Slots == {2 * k : k \in 0 .. 11}
Kind == [s \in Slots |->
  CASE s \in {0, 2} -> "line" [] s = 6 -> "IF" [] s = 8 -> "count" [] s \in {12, 14} -> "hidden"
    [] s \in {16, 18} -> "sound" [] s \in {20, 22} -> "timer" [] OTHER -> "plain"]
RtcAt == 4

ASSUME BusAssumption ==
  /\ Block \in Nat /\ Block % 4 = 0 /\ 16 * Block >= IoSize
  /\ {RomSize, ImageSize} \subseteq Nat /\ RomSize % 4 = 0 /\ ImageSize % 4 = 0
  /\ RtcAt + 2 <= RomSize /\ RomSize < ImageSize /\ ImageSize <= 2 * RegionSize
  /\ MaxBusWrites \in Nat /\ WrittenAt \subseteq Nat \X Widths

VARIABLES
  focus,       \* the region a behaviour is about
  displayMode, \* DISPCNT & 7
  mem,         \* space -> its bytes
  ioMem,       \* the registers' bytes, as the accessors read them
  reg,         \* the registers as the emulator, or the ARM7, holds them
  line, REG_IF,   \* the DS's: of DISPSTAT and VCOUNT the bytes, and IF
  cpuSaveType, eepromInUse,
  chip,        \* what the last write reached behind the registers
  gbaMem, gbaReg,  \* history: the GBA's memory and registers
  bytewise,    \* history: registers last written by the byte
  busWrites    \* so far
busVars == <<focus, displayMode, mem, ioMem, reg, line, REG_IF, cpuSaveType, eepromInUse,
             chip, gbaMem, gbaReg, bytewise, busWrites>>
-----------------------------------------------------------------------------
Align(a, w) == a - (a % w)
Fetch(m, at, w) == [k \in 1 .. w |-> m[at + k - 1]]
Put(m, at, v) ==
  [i \in DOMAIN m |-> IF i \in at .. at + Len(v) - 1 THEN v[i - at + 1] ELSE m[i]]
Zeros(w) == [k \in 1 .. w |-> 0]
Answer(b, w) == [k \in 1 .. w |-> IF k = 1 THEN b ELSE 0]

(* A word at an odd place is turned, a halfword shifted by a byte.         *)
Turned(v, a) ==
  CASE Len(v) = 4 -> [k \in 1 .. 4 |-> v[((k - 1 + a) % 4) + 1]]
    [] Len(v) = 2 /\ a % 2 = 1 -> <<v[2], 0>>
    [] OTHER -> v

(* Memory of which the address bits above its size are ignored, and VRAM:  *)
(* its 8 blocks are 6, the last two those before them again, or, in a      *)
(* bitmap mode, the first of these two not there.                          *)
Mirrored == {2, 3, 5, 7}
SpaceOf(a) ==
  LET r == Region(a)
  IN CASE r = 2 -> "work" [] r = 3 -> "internal" [] r = 5 -> "palette" [] r = 6 -> "vram"
       [] r = 7 -> "oam"
Hole(a) == displayMode > 2 /\ (a % (8 * Block)) \div Block = 6
(* Mutant: VRAM is taken to repeat every 6 blocks.                         *)
PlaceEverySix(a) == a % BytesOf[SpaceOf(a)]
Place(a) ==
  IF Region(a) = 6
    THEN LET o == a % (8 * Block) IN IF o >= 6 * Block THEN o - 2 * Block ELSE o
    ELSE a % BytesOf[SpaceOf(a)]
(* The case of VRAM begins by clearing the address's low bits, and so its  *)
(* units are not turned behind the switch.                                 *)
ReadMemory(a, w) ==
  LET unit == Fetch(mem[SpaceOf(a)], Place(Align(a, w)), w)
  IN IF Region(a) # 6 THEN Turned(unit, a) ELSE IF Hole(a) THEN Zeros(w) ELSE unit

(* A byte of the palette or of the background is doubled, one of the       *)
(* objects' is not stored.                                                 *)
objTilesAddress == IF displayMode > 2 THEN 5 * Block ELSE 4 * Block
Stored(m, space, at, v) ==
  IF Len(v) > 1 \/ space \in {"work", "internal"} THEN Put(m, at, v)
  ELSE IF space = "palette" \/ (space = "vram" /\ at < objTilesAddress)
    THEN Put(m, Align(at, 2), <<v[1], v[1]>>)
  ELSE m
WriteMemory(a, v) ==
  IF Region(a) = 6 /\ Hole(a) THEN mem
  ELSE LET s == SpaceOf(a)
       IN [mem EXCEPT ![s] = Stored(@, s, Place(Align(a, Len(v))), v)]
-----------------------------------------------------------------------------
(* The registers.  The line and IF are fetched into ioMem before they are  *)
(* read, IF only by an access at its own address or, by a word, at IE's.   *)
FetchesIF(off, w) ==
  CASE w = 4 -> off \in {4, 6} [] w = 2 -> off = 6 [] OTHER -> off \in {6, 7}
Refreshed(off, w) ==
  LET io == IF FetchesIF(off, w) THEN Put(ioMem, 6, REG_IF) ELSE ioMem
  IN IF off \in 0 .. 3 THEN Put(io, 0, line) ELSE io
ioReadable == {off \in 0 .. IoSize - 1 : Kind[Align(off, 2)] # "hidden"}
(* The timers' are the DS's own; a halfword of a counter is halved.        *)
DsTimer == <<81, 82, 83, 84>>
Halved(v) == <<v[1] + 10, v[2] + 10>>
ReadTimer(off, w) ==
  CASE w = 4 -> Turned(Turned(DsTimer, off), off)
    [] w = 2 /\ off < 22 -> Halved(<<DsTimer[1], DsTimer[2]>>)
    [] w = 2 -> Turned(Fetch(ioMem, 22, 2), off)
    [] OTHER -> <<DsTimer[off - 19]>>
ReadRegister(off, w, none) ==
  IF off >= IoSize THEN none
  ELSE IF Kind[Align(off, 2)] = "timer" THEN ReadTimer(off, w)
  ELSE IF Align(off, w) \in ioReadable THEN Turned(Fetch(Refreshed(off, w), Align(off, w), w), off)
  ELSE Turned(none, off)

(* CPUUpdateRegister, of each kind of register.                            *)
Update(io, s, v) ==
  CASE Kind[s] = "count" -> [ioMem |-> Put(io.ioMem, s, Zeros(2)), reg |-> [io.reg EXCEPT ![s] = v]]
    [] Kind[s] \in {"plain", "hidden", "sound"} ->
         [ioMem |-> Put(io.ioMem, s, v), reg |-> [io.reg EXCEPT ![s] = v]]
    [] OTHER -> io
(* A byte is written with the register's other byte as it reads.           *)
(* Mutant: with a zero.                                                    *)
BesideZero(io, s, off, b) == IF off = s THEN <<b, 0>> ELSE <<0, b>>
Beside(io, s, off, b) ==
  IF off = s THEN <<b, io.ioMem[s + 1]>> ELSE <<io.ioMem[s], b>>
(* A byte of the sound's goes to the ARM7, which takes it for a halfword.  *)
SoundByte(io, s, off, b) ==
  IF off = s THEN [io EXCEPT !.reg[s] = <<b, 0>>] ELSE io
WriteRegister(off, v) ==
  LET io == [ioMem |-> ioMem, reg |-> reg]
      s == Align(off, Len(v))
      half == Align(off, 2)
  IN IF off >= IoSize THEN io
     ELSE CASE Len(v) = 4 -> Update(Update(io, s, <<v[1], v[2]>>), s + 2, <<v[3], v[4]>>)
            [] Len(v) = 2 -> Update(io, s, v)
            [] OTHER -> IF Kind[half] = "sound" THEN SoundByte(io, half, off, v[1])
                        ELSE Update(io, half, Beside(io, half, off, v[1]))
-----------------------------------------------------------------------------
(* The cartridge: the loaded part of the image, the part that is streamed, *)
(* nothing; and the clock at a halfword of it.                             *)
ImageByte(off) == 200 + off
Junk == 999
Rtc == 902
InImage(off) == IF off < RomSize THEN ImageByte(off) ELSE Junk
ReadImage(a, w) ==
  LET off == Align(a % (2 * RegionSize), w)
  IN CASE off <= RomSize      -> [k \in 1 .. w |-> InImage(off + k - 1)]
       [] off \in RomSize + 1 .. ImageSize - 1 -> [k \in 1 .. w |-> ImageByte(off + k - 1)]
       [] OTHER               -> Zeros(w)
IsClock(a, w) == w = 2 /\ a = At(8, RtcAt)

(* CPUReset, by the type of save chip the menu or the file gave.           *)
Chips == [cpuSramEnabled |-> cpuSaveType \in {0, 2}, cpuFlashEnabled |-> cpuSaveType \in {0, 3},
          cpuEEPROMEnabled |-> cpuSaveType \in {0, 1, 4}, cpuEEPROMSensorEnabled |-> cpuSaveType = 4]
Serial == 903
Cells == 904
Sensor == 905
Answers == Chips.cpuSramEnabled \/ Chips.cpuFlashEnabled
ReadChip(w, none) ==
  IF Answers THEN Answer(Cells, w)
  ELSE IF w = 1 /\ Chips.cpuEEPROMSensorEnabled THEN <<Sensor>>
  ELSE none
(* The chip a write ends at.                                               *)
Reached(a, w) ==
  CASE IsClock(a, w) -> Rtc
    [] Region(a) = SerialAt /\ Chips.cpuEEPROMEnabled -> Serial
    [] Region(a) = ChipAt /\ (~eepromInUse \/ Answers) /\ (w = 1 => cpuSaveType # 5) -> Cells
    [] OTHER -> 0

(* What both sets of accessors do behind the trap.                         *)
ReadBehind(a, w, none) ==
  CASE Region(a) = 4 -> ReadRegister(a % RegionSize, w, none)
    [] IsClock(a, w) -> Answer(Rtc, 2)
    [] Region(a) \in Cartridge -> Turned(ReadImage(a, w), a)
    [] Region(a) = SerialAt /\ Chips.cpuEEPROMEnabled -> Answer(Serial, w)
    [] Region(a) = ChipAt -> ReadChip(w, Turned(none, a))
    [] OTHER -> Turned(none, a)
(* An address nobody answers at reads as the last DMA's unit in the one,   *)
(* as zero in the other.                                                   *)
cpuDmaLast == 906
Unmapped(w) == [k \in 1 .. w |-> cpuDmaLast]

InMemory(a) == Region(a) = 6 \/ Region(a) \in Mirrored
CPUReadMemoryreal(a) == IF InMemory(a) THEN ReadMemory(a, 4) ELSE ReadBehind(a, 4, Unmapped(4))
CPUReadHalfWordreal(a) == IF InMemory(a) THEN ReadMemory(a, 2) ELSE ReadBehind(a, 2, Unmapped(2))
CPUReadBytereal(a) == IF InMemory(a) THEN ReadMemory(a, 1) ELSE ReadBehind(a, 1, Unmapped(1))
CPUReadMemoryrealpu(a) == ReadBehind(a, 4, Zeros(4))
CPUReadHalfWordrealpu(a) == ReadBehind(a, 2, Zeros(2))
CPUReadByterealpu(a) == ReadBehind(a, 1, Zeros(1))
(* What a write leaves: the memory, the registers, the chip it reaches.    *)
ToMemory(a, v) == [mem |-> WriteMemory(a, v), ioMem |-> ioMem, reg |-> reg, chip |-> 0]
WriteBehind(a, v) ==
  LET io == IF Region(a) = 4 THEN WriteRegister(a % RegionSize, v)
            ELSE [ioMem |-> ioMem, reg |-> reg]
  IN [mem |-> mem, ioMem |-> io.ioMem, reg |-> io.reg, chip |-> Reached(a, Len(v))]
CPUWriteMemory(a, v) == IF InMemory(a) THEN ToMemory(a, v) ELSE WriteBehind(a, v)
CPUWriteHalfWord(a, v) == IF InMemory(a) THEN ToMemory(a, v) ELSE WriteBehind(a, v)
CPUWriteByte(a, v) == IF InMemory(a) THEN ToMemory(a, v) ELSE WriteBehind(a, v)
CPUWriteMemorypu(a, v) == WriteBehind(a, v)
CPUWriteHalfWordpu(a, v) == WriteBehind(a, v)
CPUWriteBytepu(a, v) == WriteBehind(a, v)

ReadReal(a, w) ==
  CASE w = 4 -> CPUReadMemoryreal(a) [] w = 2 -> CPUReadHalfWordreal(a) [] w = 1 -> CPUReadBytereal(a)
ReadPu(a, w) ==
  CASE w = 4 -> CPUReadMemoryrealpu(a) [] w = 2 -> CPUReadHalfWordrealpu(a)
    [] w = 1 -> CPUReadByterealpu(a)
WriteReal(a, v) ==
  CASE Len(v) = 4 -> CPUWriteMemory(a, v) [] Len(v) = 2 -> CPUWriteHalfWord(a, v)
    [] Len(v) = 1 -> CPUWriteByte(a, v)
WritePu(a, v) ==
  CASE Len(v) = 4 -> CPUWriteMemorypu(a, v) [] Len(v) = 2 -> CPUWriteHalfWordpu(a, v)
    [] Len(v) = 1 -> CPUWriteBytepu(a, v)
-----------------------------------------------------------------------------
(* The GBA's: which of the 6 blocks of VRAM its 8 are, what a byte written *)
(* does in each space, and registers whose bytes are written alone.        *)
GbaBlock == <<0, 1, 2, 3, 4, 5, 4, 5>>
GbaAt(a) ==
  IF Region(a) = 6
    THEN LET o == a % (8 * Block) IN Block * GbaBlock[o \div Block + 1] + (o % Block)
    ELSE a % BytesOf[SpaceOf(a)]
GbaHalf(a) == {GbaAt(Align(a, 2)), GbaAt(Align(a, 2)) + 1}
GbaPlaces(a, w) ==
  IF Region(a) = 6 /\ Hole(a) THEN {}
  ELSE IF w > 1 THEN {GbaAt(Align(a, w)) + k : k \in 0 .. w - 1}
  ELSE CASE Region(a) \in {2, 3} -> {GbaAt(a)}
         [] Region(a) = 5 -> GbaHalf(a)
         [] Region(a) = 6 -> IF GbaAt(a) < (IF displayMode <= 2 THEN 4 ELSE 5) * Block
                               THEN GbaHalf(a) ELSE {}
         [] Region(a) = 7 -> {}
GbaWrite(a, v) ==
  [gbaMem EXCEPT ![SpaceOf(a)] =
     [i \in DOMAIN @ |-> IF i \in GbaPlaces(a, Len(v)) THEN v[(i % Len(v)) + 1] ELSE @[i]]]
GbaWriteReg(off, v) ==
  [i \in DOMAIN gbaReg |->
     IF i \in Align(off, Len(v)) .. Align(off, Len(v)) + Len(v) - 1
       THEN v[i - Align(off, Len(v)) + 1] ELSE gbaReg[i]]
GbaReadsRegister(off, k) ==
  LET i == off + k
  IN CASE Kind[Align(i, 2)] = "line" -> line[i + 1]
       [] Kind[Align(i, 2)] = "IF"   -> REG_IF[i - 5]
       [] Kind[Align(i, 2)] = "count" -> 0
       [] OTHER -> gbaReg[i]
GbaRead(a, w) ==
  LET b == Align(a, w) IN
  Turned(CASE Region(a) = 4 -> [k \in 1 .. w |-> GbaReadsRegister(b % RegionSize, k - 1)]
           [] InMemory(a) ->
                IF Region(a) = 6 /\ Hole(a) THEN Zeros(w)
                ELSE [k \in 1 .. w |-> gbaMem[SpaceOf(a)][GbaAt(b) + k - 1]]
           [] OTHER ->
                [k \in 1 .. w |->
                   LET off == (b % (2 * RegionSize)) + k - 1
                   IN IF off < ImageSize THEN ImageByte(off) ELSE 0], a)
-----------------------------------------------------------------------------
BusInit ==
  /\ focus \in {2, 3, 4, 5, 6, 7, 8, SerialAt, ChipAt}
  /\ displayMode = 0
  /\ mem = [s \in DOMAIN BytesOf |-> [i \in 0 .. BytesOf[s] - 1 |-> 0]] /\ gbaMem = mem
  /\ ioMem = [i \in 0 .. IoSize - 1 |-> 0] /\ gbaReg = ioMem
  /\ reg = [s \in Slots |-> <<0, 0>>]
  /\ line = <<0, 0, 0, 0>> /\ REG_IF = <<0, 0>>
  /\ cpuSaveType \in IF focus \in {SerialAt, ChipAt} THEN 0 .. 5 ELSE {0}
  /\ eepromInUse = FALSE
  /\ chip = 0 /\ bytewise = {} /\ busWrites = 0

NewUnit(w) == [k \in 1 .. w |-> 10 * (busWrites + 1) + k]
(* The game, a DMA or a BIOS call writes a unit.                           *)
Written(a, w, new) ==
  /\ busWrites < MaxBusWrites /\ busWrites' = busWrites + 1
  /\ mem' = new.mem /\ ioMem' = new.ioMem /\ reg' = new.reg /\ chip' = new.chip
  /\ gbaMem' = IF InMemory(a) THEN GbaWrite(a, NewUnit(w)) ELSE gbaMem
  /\ gbaReg' = IF Region(a) = 4 THEN GbaWriteReg(a % RegionSize, NewUnit(w)) ELSE gbaReg
  /\ bytewise' = IF Region(a) # 4 THEN bytewise
                 ELSE LET off == a % RegionSize
                      IN IF w = 1 THEN bytewise \cup {Align(off, 2)}
                         ELSE bytewise \ (Align(off, w) .. Align(off, w) + w - 1)
  /\ eepromInUse' = (eepromInUse \/ new.chip = Serial)
  /\ UNCHANGED <<focus, displayMode, line, REG_IF, cpuSaveType>>
BusWrite(a, w) == Written(a, w, WriteReal(a, NewUnit(w)))
GameStores(a, w) == focus \in Trapped /\ Written(a, w, WritePu(a, NewUnit(w)))

(* A read leaves what it fetched in ioMem.                                 *)
BusRead(off, w) ==
  /\ focus = 4
  /\ ioMem' = Refreshed(off, w)
  /\ UNCHANGED <<focus, displayMode, mem, reg, line, REG_IF, cpuSaveType, eepromInUse, chip,
                 gbaMem, gbaReg, bytewise, busWrites>>
(* The DS's line and interrupts change under the accessors.                *)
Moves ==
  /\ focus = 4
  /\ \/ line' = [k \in 1 .. 4 |-> 60 + k] /\ UNCHANGED REG_IF
     \/ REG_IF' = <<71, 72>> /\ UNCHANGED line
  /\ UNCHANGED <<focus, displayMode, mem, ioMem, reg, cpuSaveType, eepromInUse, chip, gbaMem,
                 gbaReg, bytewise, busWrites>>
SwitchMode ==
  /\ focus = 6
  /\ displayMode' = IF displayMode = 0 THEN 3 ELSE 0
  /\ UNCHANGED <<focus, mem, ioMem, reg, line, REG_IF, cpuSaveType, eepromInUse, chip, gbaMem,
                 gbaReg, bytewise, busWrites>>
BusNext ==
  \/ \E x \in WrittenAt : Region(x[1]) = focus /\ (BusWrite(x[1], x[2]) \/ GameStores(x[1], x[2]))
  \/ \E off \in 0 .. 7, w \in Widths : BusRead(off, w)
  \/ Moves \/ SwitchMode
BusSpec == BusInit /\ [][BusNext]_busVars
-----------------------------------------------------------------------------
(* Where the accessors are known to differ from the GBA: at registers      *)
(* nobody can read, at timers, where a byte of the sound's was written, at *)
(* IF from an odd place, and at the unit behind the loaded part's end.     *)
Sounds(off, w) == \E s \in bytewise : Kind[s] = "sound" /\ s \in Align(off, w) - 1 .. off + w
Excepted(a, w) ==
  LET off == a % RegionSize
  IN \/ /\ Region(a) = 4
        /\ \/ off >= IoSize \/ Align(off, w) \notin ioReadable
           \/ Kind[Align(off, 2)] = "timer" \/ Sounds(off, w)
           \/ 6 \in Align(off, w) .. Align(off, w) + w - 1 /\ ~FetchesIF(off, w)
     \/ /\ Region(a) \in Cartridge
        /\ IsClock(a, w) \/ Align(a % (2 * RegionSize), w) = RomSize

(* The addresses looked at: a block beyond the end of what is there.       *)
Looked ==
  LET reach == CASE focus = 4 -> IoSize [] focus = 6 -> 16 * Block [] focus = 8 -> ImageSize + 8
                 [] OTHER -> 5 * Block
  IN {At(focus, off) : off \in 0 .. reach - 1}
(* A misaligned address in VRAM reads as the unit it is in does.           *)
AsRead(a, w) == IF Region(a) = 6 THEN Align(a, w) ELSE a
(* Whatever was written before, in units of any size and in whatever mode, *)
(* each address of the memory, of the readable registers and of the image, *)
(* and each of their mirrors, is read as on the GBA, by the game's own     *)
(* loads and by DMA and BIOS calls alike; in VRAM, the unit at the aligned *)
(* address, which a GBA would have turned, comes as it is.                 *)
ReadsAsOnTheGba ==
  focus \notin {SerialAt, ChipAt} =>
    \A a \in Looked, w \in Widths :
      ~Excepted(a, w) =>
        /\ ReadReal(a, w) = GbaRead(AsRead(a, w), w)
        /\ focus \in Trapped => ReadPu(a, w) = GbaRead(a, w)

(* A register holds what was last written of each of its bytes, and no     *)
(* write to one disturbs another; except that a count or a register of the *)
(* sound written by the byte loses its other one.  A chip that answers     *)
(* reads also takes writes.                                                *)
RegistersAsWritten ==
  /\ focus = 4 =>
       \A s \in Slots :
         \/ Kind[s] \in {"line", "IF", "timer"}
         \/ s \in bytewise /\ Kind[s] \in {"count", "sound"}
         \/ reg[s] = <<gbaReg[s], gbaReg[s + 1]>>
  /\ focus \in {SerialAt, ChipAt} =>
       \A w \in Widths :
         LET a == At(focus, 0)
         IN ReadReal(a, w)[1] \in {Serial, Cells} => Reached(a, w) = ReadReal(a, w)[1]
=============================================================================
