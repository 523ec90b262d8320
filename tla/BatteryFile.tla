----------------------------- MODULE BatteryFile -----------------------------
(***************************************************************************)
(* From the chosen save chip to the battery file and back: the start-up of *)
(* arm9/source/main.cpp, CPUReset, the game's writes, the save key, and    *)
(* the next session.  A chip's memory is the flash array, which SRAM games *)
(* use too, and the EEPROM array.  The code tells four file sizes apart,   *)
(* 512 bytes, 8 KB, 64 KB and 128 KB: memory and file are sequences of the *)
(* pieces that end there, and a file of another size is cut to the pieces  *)
(* it has in full.                                                         *)
(*                                                                         *)
(* saveType and cpuSaveType number the chips differently.  A saveType is   *)
(* named here: 0 "auto", 1 "sram", 2 "flash", 3 "eeprom", 5 "none" and 4,  *)
(* which nothing tests for, "other"; a cpuSaveType keeps its number.       *)
(***************************************************************************)
EXTENDS Naturals, Sequences

CONSTANTS
  Setups,       (* the games, and how they are started                    *)
  MaxWrites,    (* bound: how many times the game writes, in all sessions *)
  MaxSessions,  (* bound: how many times the emulator is started          *)
  Absent        (* no file, nothing owed                                  *)

Games == {"eeprom512", "eeprom8K", "sram", "flash64", "flash128"}
Setup ==
  [game   : Games,
   title  : {"unlisted", "listed", "ruby"},   (* as save_decider sees it   *)
   menu   : 0 .. 6,                            (* argv[6], the hbmenu's     *)
   detect : BOOLEAN]                           (* A was pressed, not B      *)

ASSUME BatteryAssumption ==
  /\ Setups \subseteq Setup
  /\ MaxWrites \in Nat
  /\ MaxSessions \in Nat
  /\ Absent \notin Seq(Nat)

VARIABLES
  setup,
  phase,           (* "off", "chosen", "playing", "saving" or "hung"      *)
  cpuSaveType, saveType,
  cpuSaveGameFunc, (* which write handler region 14 has                   *)
  eepromInUse,
  eepromSize,      (* in pieces: 1 or 2                                   *)
  eepromData,
  flash,           (* flashSize, in pieces, 3 or 4, and flashSaveMemory   *)
  file,            (* the pieces of the .sav file; Absent: there is none    *)
  writes, sessions,
  touched,         (* the game has written to its chip in this session    *)
  owed             (* what the chip held when it was last saved in full   *)

eeprom == <<eepromInUse, eepromSize, eepromData>>
types == <<cpuSaveType, saveType, cpuSaveGameFunc>>
observers == <<writes, sessions, touched, owed>>
batteryVars == <<setup, phase, types, eeprom, flash, file, observers>>

(* A piece is 0 when blank, n when the n-th write changed it last; Mirror  *)
(* is the first 64 KB over again.                                          *)
Mirror == MaxWrites + 1
Piece == 0 .. Mirror
Blank(n) == [i \in 1 .. n |-> 0]
SaveTypes == {"auto", "sram", "flash", "eeprom", "other", "none"}

BatteryTypeOK ==
  /\ setup \in Setups
  /\ phase \in {"off", "chosen", "playing", "saving", "hung"}
  /\ cpuSaveType \in 0 .. 5
  /\ saveType \in SaveTypes
  /\ cpuSaveGameFunc \in {"decide", "sram", "flash"}
  /\ eepromInUse \in BOOLEAN
  /\ eepromSize \in 1 .. 2
  /\ eepromData \in [1 .. 2 -> Piece]
  /\ flash \in [size : 3 .. 4, memory : [1 .. 4 -> Piece]]
  /\ file # Absent => Len(file) <= 4

-----------------------------------------------------------------------------
Eeprom(g) == g \in {"eeprom512", "eeprom8K"}

(* The pieces of the chip the game was made for, wherever they are kept.   *)
Size(g) ==
  CASE g = "eeprom512" -> 1 [] g = "eeprom8K" -> 2
    [] g = "flash128" -> 4 [] OTHER -> 3
Cells(g) ==
  SubSeq(IF Eeprom(g) THEN eepromData ELSE flash.memory, 1, Size(g))

(* The menu's choice is automatic or the chip the game has.                *)
Fitting(s) ==
  s.menu \in CASE Eeprom(s.game) -> {0, 1, 4} [] s.game = "sram" -> {0, 2}
              [] s.game = "flash64" -> {0, 3} [] OTHER -> {6}

(* A is for a flash chip of 128 KB whose file the start-up fixes, and B    *)
(* not for the menu's EEPROM.                                              *)
WellStarted(s) ==
  /\ Fitting(s)
  /\ ~s.detect => s.menu \notin {1, 4}
  /\ s.detect /\ s.game = "flash128" => s.title = "ruby"

(* flashSetSize.                                                           *)
SetSize(f, n) ==
  [size |-> n,
   memory |-> IF n = 4 /\ f.size = 3 THEN [f.memory EXCEPT ![4] = Mirror]
                                     ELSE f.memory]

(* A mutant: a file of 64 KB is fixed for no title.                        *)
LoadUnfixed(f, t) ==
  CASE Len(file) = 4 -> SetSize([f EXCEPT !.memory = file], 4)
    [] Len(file) = 3 -> SetSize([f EXCEPT !.memory = Append(file, f.memory[4])], 3)
    [] OTHER -> f

(* CPUReadBatteryFile of a chip of type t into the flash f.  A file of 64  *)
(* KB makes a chip of 64 KB, but for the two titles whose file is fixed.   *)
Load(f, t) ==
  CASE Len(file) = 4 -> SetSize([f EXCEPT !.memory = file], 4)
    [] Len(file) = 3 ->
         IF t = 3 /\ setup.title = "ruby"
         THEN [size |-> 4, memory |-> Append(file, Mirror)]
         ELSE SetSize([f EXCEPT !.memory = Append(file, f.memory[4])], 3)
    [] OTHER -> f
LoadEeprom ==
  IF file # Absent /\ Len(file) \in 1 .. 2
  THEN [i \in 1 .. 2 |-> IF i <= Len(file) THEN file[i] ELSE eepromData[i]]
  ELSE eepromData

(* A mutant: an EEPROM is always saved as the small one.                   *)
SavedSmall(t, f) ==
  CASE t = "eeprom" -> SubSeq(eepromData, 1, 1)
    [] t = "flash"  -> SubSeq(f.memory, 1, f.size)
    [] OTHER        -> SubSeq(f.memory, 1, 3)

(* CPUWriteBatteryFile: what it writes of the flash f for a save type t.   *)
Saved(t, f) ==
  CASE t = "eeprom" -> SubSeq(eepromData, 1, eepromSize)
    [] t = "flash"  -> SubSeq(f.memory, 1, f.size)
    [] OTHER        -> SubSeq(f.memory, 1, 3)

-----------------------------------------------------------------------------
BatteryInit ==
  /\ setup \in Setups
  /\ phase = "off"
  /\ cpuSaveType = 0 /\ saveType = "auto" /\ cpuSaveGameFunc = "decide"
  /\ eepromInUse = FALSE /\ eepromSize = 1 /\ eepromData = Blank(2)
  /\ flash = [size |-> 3, memory |-> Blank(4)]
  /\ file = Absent
  /\ writes = 0 /\ sessions = 0 /\ touched = FALSE /\ owed = Absent

MenuType == IF setup.menu = 6 THEN 3 ELSE setup.menu

(* Start-up as far as CPUReset: fresh memory, and the types the menu gave. *)
CPUReset ==
  /\ phase = "off" /\ sessions < MaxSessions
  /\ phase' = "chosen"
  /\ cpuSaveType' = MenuType
  /\ saveType' = CASE MenuType = 0 -> "auto" [] MenuType = 2 -> "sram"
                   [] MenuType = 3 -> "flash" [] MenuType = 5 -> "none"
                   [] OTHER -> "eeprom"
  /\ cpuSaveGameFunc' = CASE MenuType = 2 -> "sram" [] MenuType = 3 -> "flash"
                          [] OTHER -> "decide"
  /\ eepromInUse' = FALSE /\ eepromSize' = 1 /\ eepromData' = Blank(2)
  /\ flash' = [size |-> 3, memory |-> Blank(4)]
  /\ sessions' = sessions + 1
  /\ touched' = FALSE
  /\ UNCHANGED <<setup, file, writes, owed>>

(* save_decider: the chip of a title in its list.                          *)
Detected ==
  IF setup.title = "unlisted" THEN 0 ELSE IF Eeprom(setup.game) THEN 1 ELSE 3

(* A was pressed: the title decides.  A file that is missing is made; one  *)
(* that cannot be read stops the emulator for good.                        *)
StartDetected ==
  LET f == IF Detected = 3 THEN SetSize(flash, 4) ELSE flash
  IN /\ phase = "chosen" /\ setup.detect
     /\ cpuSaveType' = Detected
     /\ IF file = Absent
        THEN /\ file' = IF saveType = "none" THEN Absent ELSE Saved(saveType, f)
             /\ flash' = f
             /\ phase' = "playing"
        ELSE /\ flash' = Load(f, Detected)
             /\ phase' = IF file = <<>> THEN "hung" ELSE "playing"
             /\ UNCHANGED file
     /\ eepromData' = LoadEeprom
     /\ UNCHANGED <<setup, saveType, cpuSaveGameFunc, eepromInUse, eepromSize,
                    observers>>

(* B was pressed: the menu's number is taken for both types.  A file that  *)
(* cannot be read is passed over.                                          *)
StartChosen ==
  LET own == IF setup.menu = 6 THEN 4 ELSE 3
      f == IF setup.menu = 6 THEN SetSize(flash, 4) ELSE flash
      g == IF file = Absent THEN f ELSE Load(f, MenuType)
  IN /\ phase = "chosen" /\ ~setup.detect
     /\ cpuSaveType' = MenuType
     /\ saveType' = CASE MenuType = 0 -> "auto" [] MenuType = 1 -> "sram"
                      [] MenuType = 2 -> "flash" [] MenuType = 3 -> "eeprom"
                      [] MenuType = 4 -> "other" [] OTHER -> "none"
     /\ flash' = IF MenuType = 3 THEN SetSize(g, own) ELSE g
     /\ eepromData' = LoadEeprom
     /\ phase' = "playing"
     /\ UNCHANGED <<setup, file, cpuSaveGameFunc, eepromInUse, eepromSize,
                    observers>>

-----------------------------------------------------------------------------
(* The game writes piece p of its chip.                                    *)
GameWrites ==
  /\ phase = "playing" /\ writes < MaxWrites
  /\ writes' = writes + 1
  /\ touched' = TRUE
  /\ UNCHANGED <<setup, phase, cpuSaveType, file, sessions, owed>>

(* By DMA to region 13, where the menu's chip is the one that listens.     *)
EepromWrite(p) ==
  /\ GameWrites
  /\ Eeprom(setup.game) /\ MenuType \in {0, 1, 4}
  /\ eepromData' = [eepromData EXCEPT ![p] = writes + 1]
  /\ eepromInUse' = TRUE
  /\ eepromSize' = IF setup.game = "eeprom8K" THEN 2 ELSE eepromSize
  /\ UNCHANGED <<flash, saveType, cpuSaveGameFunc>>

(* By the handler of region 14: the first write settles the save type.     *)
Region14(kind) ==
  /\ GameWrites
  /\ saveType # "none"
  /\ cpuSaveGameFunc \in {"decide", kind}
  /\ cpuSaveGameFunc' = kind
  /\ saveType' = kind
  /\ UNCHANGED eeprom

SramWrite(p) ==
  /\ setup.game = "sram"
  /\ Region14("sram")
  /\ flash' = [flash EXCEPT !.memory[p] = writes + 1]

(* A small chip ignores the bank command, so that what is meant for the    *)
(* second 64 KB lands somewhere in the first.                              *)
FlashWrite(p) ==
  /\ setup.game \in {"flash64", "flash128"}
  /\ Region14("flash")
  /\ \E q \in IF p = 4 /\ flash.size = 3 THEN 1 .. 3 ELSE {p} :
       flash' = [flash EXCEPT !.memory[q] = writes + 1]

-----------------------------------------------------------------------------
(* CPUWriteBatteryFile, from the Y key or the pause menu: fopen has        *)
(* emptied the file.                                                       *)
StartSave ==
  /\ phase = "playing"
  /\ saveType # "none"
  /\ saveType' = IF saveType = "auto" /\ eepromInUse THEN "eeprom" ELSE saveType
  /\ file' = <<>>
  /\ owed' = Absent
  /\ phase' = "saving"
  /\ UNCHANGED <<setup, cpuSaveType, cpuSaveGameFunc, eeprom, flash, writes,
                 sessions, touched>>

(* What was written before the game first saved is nobody's saved game.    *)
FinishSave ==
  /\ phase = "saving"
  /\ file' = Saved(saveType, flash)
  /\ owed' = IF touched THEN Cells(setup.game) ELSE Absent
  /\ phase' = "playing"
  /\ UNCHANGED <<setup, types, eeprom, flash, writes, sessions, touched>>

(* The card is full: fwrite comes back short, and nobody is told.          *)
CutSave ==
  /\ phase = "saving"
  /\ \E n \in 0 .. Len(Saved(saveType, flash)) - 1 :
       file' = SubSeq(Saved(saveType, flash), 1, n)
  /\ phase' = "playing"
  /\ UNCHANGED <<setup, types, eeprom, flash, observers>>

PowerOff ==
  /\ phase \in {"playing", "saving", "hung"}
  /\ phase' = "off"
  /\ UNCHANGED <<setup, types, eeprom, flash, file, observers>>

BatteryNext ==
  \/ CPUReset \/ StartDetected \/ StartChosen
  \/ \E p \in 1 .. Size(setup.game) :
       EepromWrite(p) \/ SramWrite(p) \/ FlashWrite(p)
  \/ StartSave \/ FinishSave \/ CutSave \/ PowerOff

BatterySpec == BatteryInit /\ [][BatteryNext]_batteryVars

-----------------------------------------------------------------------------
(* A game saved in full, after it had written to its chip, finds its chip  *)
(* as it left it in the next session: neither the type the file was        *)
(* written for, nor the sizes at the time, nor the size of the file itself *)
(* lose any of it.                                                         *)
SavedIsRestored ==
  phase = "playing" /\ ~touched /\ owed # Absent => Cells(setup.game) = owed

(* A game of two flash banks never runs on a chip of one, where its second *)
(* bank would overwrite the first.                                         *)
LargeGameHasLargeChip ==
  phase = "playing" /\ setup.game = "flash128" => flash.size = 4
=============================================================================
