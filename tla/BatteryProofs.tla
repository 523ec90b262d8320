---------------------------- MODULE BatteryProofs ----------------------------
(***************************************************************************)
(* For any number of writes and sessions, games started as WellStarted     *)
(* says: what a game has saved in full it finds again, and a game of two   *)
(* flash banks has both.                                                   *)
(***************************************************************************)
EXTENDS BatteryFile, TLAPS, SequenceTheorems

Running == phase \in {"playing", "saving"}

FlashOf == [size : 3 .. 4, memory : [1 .. 4 -> Piece]]

(* Chips and files are whole pieces, and no file is longer than the        *)
(* largest chip.                                                           *)
PiecesKept ==
  /\ writes \in 0 .. MaxWrites
  /\ eepromData \in [1 .. 2 -> Piece] /\ eepromSize \in 1 .. 2
  /\ flash \in FlashOf
  /\ file # Absent => file \in Seq(Piece) /\ Len(file) <= 4

(* A save type names the chip of the game once the game has written to it, *)
(* and an EEPROM game is never saved as anything else.                     *)
SavesItsChip ==
  /\ Eeprom(setup.game) => saveType \in {"auto", "eeprom"}
  /\ Eeprom(setup.game) /\ touched => eepromInUse
  /\ Eeprom(setup.game) /\ touched /\ phase = "saving" => saveType = "eeprom"
  /\ setup.game = "sram" /\ touched => saveType = "sram"
  /\ setup.game \in {"flash64", "flash128"} /\ touched => saveType = "flash"
  /\ setup.game = "eeprom512" => eepromSize = 1
  /\ setup.game = "eeprom8K" /\ touched => eepromSize = 2
  /\ phase = "chosen" => ~touched

(* What is owed is the beginning of the file, whose length is one that is  *)
(* loaded into the game's chip.                                            *)
FileHoldsOwed ==
  owed # Absent =>
    /\ file # Absent
    /\ Len(file) \in IF Eeprom(setup.game) THEN {Size(setup.game)}
                     ELSE Size(setup.game) .. 4
    /\ owed = [i \in 1 .. Size(setup.game) |-> file[i]]

NothingOwedWhileSaving == phase = "saving" => owed = Absent

ChipIsLarge == Running /\ setup.game = "flash128" => flash.size = 4

BatteryInv ==
  /\ setup \in Setups
  /\ PiecesKept
  /\ SavesItsChip
  /\ FileHoldsOwed
  /\ NothingOwedWhileSaving
  /\ ChipIsLarge
  /\ SavedIsRestored
-----------------------------------------------------------------------------
(* Pieces.                                                                 *)

LEMMA PieceFacts ==
  /\ MaxWrites \in Nat /\ Mirror \in Piece /\ 0 \in Piece /\ Piece \subseteq Nat
  /\ \A n \in 0 .. MaxWrites : n < MaxWrites => n + 1 \in Piece
BY BatteryAssumption DEF Piece, Mirror

LEMMA AbsentIsNoFile == Absent \notin Seq(Piece)
<1>1. ASSUME NEW s \in Seq(Piece)
      PROVE  s \in Seq(Nat)
  <2>1. Len(s) \in Nat /\ s \in [1 .. Len(s) -> Piece]
    OBVIOUS
  <2>2. s \in [1 .. Len(s) -> Nat]
    BY <2>1, PieceFacts
  <2> QED
    BY <2>1, <2>2
<1> QED
  BY <1>1, BatteryAssumption

(* An array of pieces is a sequence of them.                               *)
LEMMA ArrayIsSeq ==
  ASSUME NEW n \in Nat, NEW a \in [1 .. n -> Piece]
  PROVE  a \in Seq(Piece) /\ Len(a) = n
OBVIOUS

LEMMA SeqIsArray ==
  ASSUME NEW s \in Seq(Piece), NEW n \in Nat, Len(s) = n
  PROVE  s \in [1 .. n -> Piece]
<1>1. s \in [1 .. Len(s) -> Piece]
  OBVIOUS
<1> QED
  BY <1>1

(* The beginning of a sequence, piece by piece.                            *)
LEMMA Beginning ==
  ASSUME NEW s \in Seq(Piece), NEW n \in 0 .. Len(s)
  PROVE  /\ SubSeq(s, 1, n) \in Seq(Piece)
         /\ Len(SubSeq(s, 1, n)) = n
         /\ SubSeq(s, 1, n) = [i \in 1 .. n |-> s[i]]
<1> DEFINE b == SubSeq(s, 1, n)
<1>1. n \in (1 - 1) .. Len(s) /\ 1 \in 1 .. Len(s) + 1
  OBVIOUS
<1>2. /\ b \in Seq(Piece) /\ Len(b) = n - 1 + 1
      /\ \A i \in 1 .. n - 1 + 1 : b[i] = s[1 + i - 1]
  BY <1>1, SubSeqProperties
<1> HIDE DEF b
<1>3. /\ b \in Seq(Piece) /\ Len(b) = n
      /\ \A i \in 1 .. n : b[i] = s[i]
  BY <1>2
<1>4. b = [i \in 1 .. n |-> s[i]]
  BY <1>3
<1> QED
  BY <1>3, <1>4 DEF b

(* A chip made larger or smaller keeps its first 64 KB, and its last if it *)
(* had one.                                                                *)
LEMMA SetSizeKeeps ==
  ASSUME NEW f \in FlashOf, NEW n \in 3 .. 4
  PROVE  /\ SetSize(f, n) \in FlashOf
         /\ SetSize(f, n).size = n
         /\ \A i \in 1 .. 3 : SetSize(f, n).memory[i] = f.memory[i]
         /\ f.size = 4 => SetSize(f, n).memory = f.memory
BY PieceFacts DEF SetSize, FlashOf

(* What a file leaves in a chip: all of the first 64 KB, and all of a      *)
(* large chip if the file is as large.                                     *)
LEMMA LoadRestores ==
  ASSUME NEW f \in FlashOf, NEW t, file \in Seq(Piece), Len(file) <= 4
  PROVE  /\ Load(f, t) \in FlashOf
         /\ Len(file) \in 3 .. 4 =>
              \A i \in 1 .. 3 : Load(f, t).memory[i] = file[i]
         /\ Len(file) = 4 /\ f.size = 4 => Load(f, t).memory = file
         /\ f.size = 4 /\ t = 3 /\ setup.title = "ruby" => Load(f, t).size = 4
<1>1. CASE Len(file) = 4
  <2> DEFINE h == [f EXCEPT !.memory = file]
  <2>1. file \in [1 .. 4 -> Piece]
    BY <1>1, SeqIsArray
  <2>2. h \in FlashOf /\ h.memory = file /\ h.size = f.size
    BY <2>1 DEF FlashOf
  <2>3. Load(f, t) = SetSize(h, 4)
    BY <1>1 DEF Load
  <2> HIDE DEF h
  <2> DEFINE r == SetSize(h, 4)
  <2>4. /\ r \in FlashOf /\ r.size = 4
        /\ \A i \in 1 .. 3 : r.memory[i] = file[i]
        /\ f.size = 4 => r.memory = file
    BY <2>2, SetSizeKeeps
  <2> HIDE DEF r
  <2>5. Load(f, t) = r
    BY <2>3 DEF r
  <2> QED
    BY <1>1, <2>4, <2>5
<1>2. CASE Len(file) = 3
  <2>1. ASSUME NEW p \in Piece
        PROVE  /\ Append(file, p) \in [1 .. 4 -> Piece]
               /\ \A i \in 1 .. 3 : Append(file, p)[i] = file[i]
    <3> DEFINE a == Append(file, p)
    <3>1. /\ a \in Seq(Piece) /\ Len(a) = Len(file) + 1
          /\ \A i \in 1 .. Len(file) : a[i] = file[i]
      BY AppendProperties
    <3> HIDE DEF a
    <3>2. a \in [1 .. 4 -> Piece]
      <4>1. Len(a) = 4
        BY <1>2, <3>1
      <4> QED
        BY <3>1, <4>1, SeqIsArray
    <3>3. \A i \in 1 .. 3 : a[i] = file[i]
      BY <1>2, <3>1
    <3> QED
      BY <3>2, <3>3 DEF a
  <2>2. f.memory[4] \in Piece /\ Mirror \in Piece
    BY PieceFacts DEF FlashOf
  <2>3. CASE t = 3 /\ setup.title = "ruby"
    <3> DEFINE m == Append(file, Mirror)
    <3>1. Load(f, t) = [size |-> 4, memory |-> m]
      BY <1>2, <2>3 DEF Load
    <3>2. m \in [1 .. 4 -> Piece] /\ \A i \in 1 .. 3 : m[i] = file[i]
      BY <2>1, <2>2
    <3> HIDE DEF m
    <3> QED
      BY <1>2, <3>1, <3>2 DEF FlashOf
  <2>4. CASE ~(t = 3 /\ setup.title = "ruby")
    <3> DEFINE m == Append(file, f.memory[4])
               h == [f EXCEPT !.memory = m]
    <3>1. m \in [1 .. 4 -> Piece] /\ \A i \in 1 .. 3 : m[i] = file[i]
      BY <2>1, <2>2
    <3>2. Load(f, t) = SetSize(h, 3)
      BY <1>2, <2>4 DEF Load
    <3> HIDE DEF m
    <3>3. h \in FlashOf /\ h.memory = m
      BY <3>1 DEF FlashOf
    <3> HIDE DEF h
    <3> DEFINE r == SetSize(h, 3)
    <3>4. r \in FlashOf /\ \A i \in 1 .. 3 : r.memory[i] = file[i]
      BY <3>1, <3>3, SetSizeKeeps
    <3> HIDE DEF r
    <3>5. Load(f, t) = r
      BY <3>2 DEF r
    <3> QED
      BY <1>2, <2>4, <3>4, <3>5
  <2> QED
    BY <2>3, <2>4
<1>3. CASE Len(file) \notin 3 .. 4
  <2>1. Load(f, t) = f
    BY <1>3 DEF Load
  <2> QED
    BY <1>3, <2>1
<1> QED
  BY <1>1, <1>2, <1>3

LEMMA LargeFileMakesLarge ==
  ASSUME NEW f \in FlashOf, NEW t, file \in Seq(Piece), Len(file) = 4
  PROVE  Load(f, t).size = 4
<1> DEFINE h == [f EXCEPT !.memory = file]
<1>1. file \in [1 .. 4 -> Piece]
  BY SeqIsArray
<1>2. h \in FlashOf
  BY <1>1 DEF FlashOf
<1>3. Load(f, t) = SetSize(h, 4)
  BY DEF Load
<1> HIDE DEF h
<1> QED
  BY <1>2, <1>3, SetSizeKeeps

LEMMA LoadEepromRestores ==
  ASSUME eepromData \in [1 .. 2 -> Piece],
         file # Absent => file \in Seq(Piece)
  PROVE  /\ LoadEeprom \in [1 .. 2 -> Piece]
         /\ file # Absent /\ Len(file) \in 1 .. 2 =>
              \A i \in 1 .. Len(file) : LoadEeprom[i] = file[i]
BY DEF LoadEeprom

(* What is saved is the beginning of the array, as long as the type says.  *)
LEMMA SavedIsBeginning ==
  ASSUME NEW f \in FlashOf, eepromData \in [1 .. 2 -> Piece],
         eepromSize \in 1 .. 2, NEW t
  PROVE  /\ Saved(t, f) \in Seq(Piece) /\ Len(Saved(t, f)) <= 4
         /\ t = "eeprom" =>
              /\ Len(Saved(t, f)) = eepromSize
              /\ \A i \in 1 .. eepromSize : Saved(t, f)[i] = eepromData[i]
         /\ t = "flash" =>
              /\ Len(Saved(t, f)) = f.size
              /\ \A i \in 1 .. f.size : Saved(t, f)[i] = f.memory[i]
         /\ t = "sram" =>
              /\ Len(Saved(t, f)) = 3
              /\ \A i \in 1 .. 3 : Saved(t, f)[i] = f.memory[i]
<1>1. eepromData \in Seq(Piece) /\ Len(eepromData) = 2
  BY ArrayIsSeq
<1>2. f.memory \in Seq(Piece) /\ Len(f.memory) = 4 /\ f.size \in 3 .. 4
  BY ArrayIsSeq DEF FlashOf
<1>3. CASE t = "eeprom"
  <2>1. Saved(t, f) = SubSeq(eepromData, 1, eepromSize) /\ eepromSize \in 0 .. 2
    BY <1>3 DEF Saved
  <2> DEFINE b == SubSeq(eepromData, 1, eepromSize)
  <2>2. /\ b \in Seq(Piece) /\ Len(b) = eepromSize
        /\ b = [i \in 1 .. eepromSize |-> eepromData[i]]
    BY <1>1, <2>1, Beginning
  <2> HIDE DEF b
  <2>3. Saved(t, f) = b
    BY <2>1 DEF b
  <2> QED
    BY <1>3, <2>2, <2>3
<1>4. CASE t # "eeprom"
  <2> DEFINE n == IF t = "flash" THEN f.size ELSE 3
             m == f.memory
             b == SubSeq(m, 1, n)
  <2>1. Saved(t, f) = b
    BY <1>4 DEF Saved
  <2>2. n \in 0 .. 4
    BY <1>2
  <2>3. n = IF t = "flash" THEN f.size ELSE 3
    OBVIOUS
  <2> HIDE DEF n
  <2>4. /\ b \in Seq(Piece) /\ Len(b) = n /\ n <= 4
        /\ b = [i \in 1 .. n |-> m[i]]
    BY <1>2, <2>2, Beginning
  <2> HIDE DEF b
  <2> QED
    BY <1>4, <2>1, <2>3, <2>4
<1> QED
  BY <1>3, <1>4
-----------------------------------------------------------------------------
(* The steps.                                                              *)

LEMMA SetupFacts ==
  ASSUME setup \in Setups
  PROVE  setup \in Setup /\ MenuType \in 0 .. 5
BY BatteryAssumption DEF Setup, MenuType

LEMMA WriteFacts ==
  ASSUME writes \in 0 .. MaxWrites, GameWrites
  PROVE  /\ writes + 1 \in Piece /\ writes' \in 0 .. MaxWrites
         /\ file' = file
BY PieceFacts DEF GameWrites

LEMMA WriteKeepsFlash ==
  ASSUME NEW f \in FlashOf, NEW p, NEW x \in Piece
  PROVE  /\ [f EXCEPT !.memory[p] = x] \in FlashOf
         /\ [f EXCEPT !.memory[p] = x].size = f.size
BY DEF FlashOf

LEMMA StepKeepsPieces == PiecesKept /\ [BatteryNext]_batteryVars => PiecesKept'
<1> SUFFICES ASSUME PiecesKept, [BatteryNext]_batteryVars PROVE PiecesKept'
  OBVIOUS
<1> USE DEF PiecesKept
<1>1. CASE CPUReset
  <2>1. Blank(2) \in [1 .. 2 -> Piece] /\ Blank(4) \in [1 .. 4 -> Piece]
    BY PieceFacts DEF Blank
  <2> QED
    BY <1>1, <2>1 DEF CPUReset, FlashOf
<1>2. CASE StartDetected
  <2> USE <1>2 DEF StartDetected
  <2> DEFINE f == IF Detected = 3 THEN SetSize(flash, 4) ELSE flash
  <2>1. f \in FlashOf
    BY SetSizeKeeps
  <2>2. IF file = Absent
        THEN /\ file' = IF saveType = "none" THEN Absent ELSE Saved(saveType, f)
             /\ flash' = f
        ELSE flash' = Load(f, Detected) /\ file' = file
    BY DEF StartDetected
  <2> HIDE DEF f
  <2>3. flash' \in FlashOf
    BY <2>1, <2>2, LoadRestores
  <2>4. file' # Absent => file' \in Seq(Piece) /\ Len(file') <= 4
    BY <2>1, <2>2, SavedIsBeginning
  <2>5. eepromData' \in [1 .. 2 -> Piece]
    BY LoadEepromRestores
  <2>6. writes' = writes /\ eepromSize' = eepromSize
    BY DEF observers
  <2> QED
    BY <2>3, <2>4, <2>5, <2>6
<1>3. CASE StartChosen
  <2> USE <1>3
  <2> DEFINE own == IF setup.menu = 6 THEN 4 ELSE 3
             f == IF setup.menu = 6 THEN SetSize(flash, 4) ELSE flash
             g == IF file = Absent THEN f ELSE Load(f, MenuType)
  <2>1. f \in FlashOf
    BY SetSizeKeeps
  <2>2. flash' = IF MenuType = 3 THEN SetSize(g, own) ELSE g
    BY DEF StartChosen
  <2> HIDE DEF f
  <2>3. g \in FlashOf
    BY <2>1, LoadRestores
  <2> HIDE DEF g
  <2>4. flash' \in FlashOf
    BY <2>2, <2>3, SetSizeKeeps
  <2>5. eepromData' \in [1 .. 2 -> Piece]
    BY LoadEepromRestores DEF StartChosen
  <2>6. writes' = writes /\ eepromSize' = eepromSize /\ file' = file
    BY DEF StartChosen, observers
  <2> QED
    BY <2>4, <2>5, <2>6
<1>4. ASSUME NEW p, EepromWrite(p) PROVE PiecesKept'
  <2> USE <1>4 DEF EepromWrite
  <2>1. eepromData' \in [1 .. 2 -> Piece]
    BY WriteFacts
  <2>2. flash' = flash /\ eepromSize' \in 1 .. 2
    OBVIOUS
  <2> QED
    BY <2>1, <2>2, WriteFacts
<1>5. ASSUME NEW p, SramWrite(p) PROVE PiecesKept'
  <2> USE <1>5 DEF SramWrite, Region14
  <2>1. flash' \in FlashOf
    BY WriteFacts, WriteKeepsFlash
  <2>2. eepromData' = eepromData /\ eepromSize' = eepromSize
    BY DEF eeprom
  <2> QED
    BY <2>1, <2>2, WriteFacts
<1>6. ASSUME NEW p, FlashWrite(p) PROVE PiecesKept'
  <2> USE <1>6 DEF FlashWrite, Region14
  <2>1. flash' \in FlashOf
    <3>1. PICK q : flash' = [flash EXCEPT !.memory[q] = writes + 1]
      OBVIOUS
    <3> QED
      BY <3>1, WriteFacts, WriteKeepsFlash
  <2>2. eepromData' = eepromData /\ eepromSize' = eepromSize
    BY DEF eeprom
  <2> QED
    BY <2>1, <2>2, WriteFacts
<1>7. CASE StartSave
  BY <1>7, ArrayIsSeq DEF StartSave, eeprom
<1>8. CASE FinishSave
  BY <1>8, SavedIsBeginning DEF FinishSave, eeprom
<1>9. CASE CutSave
  <2> DEFINE s == Saved(saveType, flash)
  <2>1. s \in Seq(Piece) /\ Len(s) <= 4
    BY SavedIsBeginning
  <2>2. PICK n \in 0 .. Len(s) - 1 : file' = SubSeq(s, 1, n)
    BY <1>9 DEF CutSave
  <2> HIDE DEF s
  <2>3. file' \in Seq(Piece) /\ Len(file') <= 4
    BY <2>1, <2>2, Beginning
  <2> QED
    BY <1>9, <2>3 DEF CutSave, eeprom, observers
<1>10. CASE PowerOff
  BY <1>10 DEF PowerOff, eeprom, observers
<1>11. CASE UNCHANGED batteryVars
  BY <1>11 DEF batteryVars, eeprom, observers
<1> QED
  BY <1>1, <1>2, <1>3, <1>4, <1>5, <1>6, <1>7, <1>8, <1>9, <1>10, <1>11
     DEF BatteryNext

Started == \A s \in Setups : WellStarted(s)

(* What a game that is well started may be.                                *)
LEMMA StartedFacts ==
  ASSUME Started, setup \in Setups
  PROVE  /\ setup.game \in Games /\ MenuType \in 0 .. 5
         /\ Eeprom(setup.game) => /\ MenuType \in {0, 1, 4}
                                  /\ ~setup.detect => MenuType = 0
         /\ setup.game = "flash128" =>
              /\ setup.menu = 6 /\ MenuType = 3
              /\ setup.detect => setup.title = "ruby" /\ Detected = 3
<1>1. setup \in Setup /\ WellStarted(setup)
  BY BatteryAssumption DEF Started
<1>2. setup.game \in Games /\ setup.menu \in 0 .. 6
  BY <1>1 DEF Setup
<1>3. MenuType \in 0 .. 5
  BY <1>2 DEF MenuType
<1>4. Eeprom(setup.game) => /\ setup.menu \in {0, 1, 4}
                            /\ ~setup.detect => setup.menu \notin {1, 4}
  <2>1. ~setup.detect => setup.menu \notin {1, 4}
    BY <1>1 DEF WellStarted
  <2>2. ASSUME Eeprom(setup.game) PROVE setup.menu \in {0, 1, 4}
    <3>1. setup.game # "sram" /\ setup.game # "flash64"
      BY <2>2 DEF Eeprom
    <3>2. Fitting(setup)
      BY <1>1 DEF WellStarted
    <3> QED
      BY <2>2, <3>1, <3>2 DEF Fitting
  <2> QED
    BY <2>1, <2>2
<1>5. Eeprom(setup.game) => /\ MenuType \in {0, 1, 4}
                            /\ ~setup.detect => MenuType = 0
  BY <1>4 DEF MenuType
<1>6. ASSUME setup.game = "flash128"
      PROVE  /\ setup.menu = 6 /\ MenuType = 3
             /\ setup.detect => setup.title = "ruby" /\ Detected = 3
  <2>1. ~Eeprom(setup.game) /\ setup.game # "sram" /\ setup.game # "flash64"
    BY <1>6 DEF Eeprom
  <2>2. setup.menu = 6
    BY <1>1, <2>1 DEF WellStarted, Fitting
  <2>3. setup.detect => setup.title = "ruby"
    BY <1>1, <1>6 DEF WellStarted
  <2> QED
    BY <2>1, <2>2, <2>3 DEF MenuType, Detected
<1> QED
  BY <1>2, <1>3, <1>5, <1>6

LEMMA StepKeepsTypes ==
  ASSUME Started
  PROVE  /\ setup \in Setups /\ SavesItsChip /\ [BatteryNext]_batteryVars
         => SavesItsChip'
<1> SUFFICES ASSUME setup \in Setups, SavesItsChip, [BatteryNext]_batteryVars
             PROVE  SavesItsChip'
  OBVIOUS
<1> USE DEF SavesItsChip
<1>1. CASE CPUReset
  <2>1. touched' = FALSE /\ phase' = "chosen" /\ setup' = setup /\ eepromSize' = 1
    BY <1>1 DEF CPUReset
  <2>2. Eeprom(setup.game) => saveType' \in {"auto", "eeprom"}
    BY <1>1, StartedFacts DEF CPUReset
  <2>3. setup.game = "eeprom512" => setup.game # "eeprom8K"
    OBVIOUS
  <2> QED
    BY <2>1, <2>2, <2>3
<1>2. CASE StartDetected
  <2>1. /\ setup' = setup /\ saveType' = saveType /\ touched' = touched
        /\ eepromSize' = eepromSize /\ eepromInUse' = eepromInUse
        /\ phase' \in {"playing", "hung"}
    BY <1>2 DEF StartDetected, observers
  <2> QED
    BY <2>1
<1>3. CASE StartChosen
  <2>1. /\ setup' = setup /\ touched' = touched /\ ~touched
        /\ eepromSize' = eepromSize /\ phase' = "playing"
    BY <1>3 DEF StartChosen, observers
  <2>2. Eeprom(setup.game) => saveType' = "auto"
    BY <1>3, StartedFacts DEF StartChosen
  <2> QED
    BY <2>1, <2>2
<1>4. ASSUME NEW p, EepromWrite(p) PROVE SavesItsChip'
  <2>1. /\ Eeprom(setup.game) /\ setup' = setup /\ saveType' = saveType
        /\ eepromInUse' = TRUE /\ phase' = "playing" /\ phase = "playing"
        /\ eepromSize' = IF setup.game = "eeprom8K" THEN 2 ELSE eepromSize
    BY <1>4 DEF EepromWrite, GameWrites
  <2> QED
    BY <2>1 DEF Eeprom
<1>5. ASSUME NEW kind, Region14(kind), kind \in {"sram", "flash"},
             setup.game \in IF kind = "sram" THEN {"sram"} ELSE {"flash64", "flash128"}
      PROVE  SavesItsChip'
  <2>1. /\ setup' = setup /\ saveType' = kind /\ phase' = "playing"
        /\ eepromSize' = eepromSize /\ eepromInUse' = eepromInUse
    BY <1>5 DEF Region14, GameWrites, eeprom
  <2> QED
    BY <1>5, <2>1 DEF Eeprom
<1>6. ASSUME NEW p, SramWrite(p) \/ FlashWrite(p) PROVE SavesItsChip'
  BY <1>5, <1>6 DEF SramWrite, FlashWrite
<1>7. CASE StartSave
  <2>1. /\ setup' = setup /\ touched' = touched /\ phase' = "saving"
        /\ eepromSize' = eepromSize /\ eepromInUse' = eepromInUse
        /\ saveType' = IF saveType = "auto" /\ eepromInUse THEN "eeprom" ELSE saveType
    BY <1>7 DEF StartSave, eeprom
  <2> QED
    BY <2>1 DEF Eeprom
<1>8. CASE FinishSave \/ CutSave \/ PowerOff
  <2>1. /\ setup' = setup /\ touched' = touched /\ saveType' = saveType
        /\ eepromSize' = eepromSize /\ eepromInUse' = eepromInUse
        /\ phase' \in {"playing", "off"}
    BY <1>8 DEF FinishSave, CutSave, PowerOff, eeprom, types, observers
  <2> QED
    BY <2>1
<1>9. CASE UNCHANGED batteryVars
  BY <1>9 DEF batteryVars, types, eeprom, observers
<1> QED
  BY <1>1, <1>2, <1>3, <1>4, <1>6, <1>7, <1>8, <1>9 DEF BatteryNext

LEMMA SizeFacts ==
  ASSUME setup.game \in Games
  PROVE  /\ Size(setup.game) \in 1 .. 4
         /\ setup.game = "eeprom512" => Size(setup.game) = 1
         /\ setup.game = "eeprom8K" => Size(setup.game) = 2
         /\ setup.game \in {"sram", "flash64"} => Size(setup.game) = 3
         /\ setup.game = "flash128" => Size(setup.game) = 4
         /\ Eeprom(setup.game) <=> setup.game \in {"eeprom512", "eeprom8K"}
BY DEF Size, Games, Eeprom

(* The pieces of the game's chip, one by one.                              *)
LEMMA CellsAre ==
  ASSUME setup.game \in Games, PiecesKept
  PROVE  /\ Eeprom(setup.game) =>
              Cells(setup.game) = [i \in 1 .. Size(setup.game) |-> eepromData[i]]
         /\ ~Eeprom(setup.game) =>
              Cells(setup.game) = [i \in 1 .. Size(setup.game) |-> flash.memory[i]]
<1> DEFINE n == Size(setup.game)
<1>1. n \in 1 .. 4 /\ (Eeprom(setup.game) => n \in 1 .. 2)
  BY SizeFacts DEF Games
<1>2. eepromData \in Seq(Piece) /\ Len(eepromData) = 2
  BY ArrayIsSeq DEF PiecesKept
<1>3. flash.memory \in Seq(Piece) /\ Len(flash.memory) = 4
  BY ArrayIsSeq DEF PiecesKept, FlashOf
<1>4. CASE Eeprom(setup.game)
  <2>1. Cells(setup.game) = SubSeq(eepromData, 1, n)
    BY <1>4 DEF Cells
  <2> HIDE DEF n
  <2>2. n \in 0 .. Len(eepromData)
    BY <1>1, <1>2, <1>4
  <2>3. SubSeq(eepromData, 1, n) = [i \in 1 .. n |-> eepromData[i]]
    BY <1>2, <2>2, Beginning
  <2> QED
    BY <1>4, <2>1, <2>3 DEF n
<1>5. CASE ~Eeprom(setup.game)
  <2>1. Cells(setup.game) = SubSeq(flash.memory, 1, n)
    BY <1>5 DEF Cells
  <2> DEFINE a == flash.memory
  <2> HIDE DEF n, a
  <2>2. n \in 0 .. Len(a) /\ a \in Seq(Piece)
    BY <1>1, <1>3 DEF a
  <2>3. SubSeq(a, 1, n) = [i \in 1 .. n |-> a[i]]
    BY <2>2, Beginning
  <2> QED
    BY <1>5, <2>1, <2>3 DEF n, a
<1> QED
  BY <1>4, <1>5

LEMMA SetupStays == [BatteryNext]_batteryVars => setup' = setup
<1>1. CPUReset \/ StartDetected \/ StartChosen => setup' = setup
  BY DEF CPUReset, StartDetected, StartChosen
<1>2. ASSUME NEW p, EepromWrite(p) \/ SramWrite(p) \/ FlashWrite(p)
      PROVE  setup' = setup
  BY <1>2 DEF EepromWrite, SramWrite, FlashWrite, Region14, GameWrites
<1>3. StartSave \/ FinishSave \/ CutSave \/ PowerOff => setup' = setup
  BY DEF StartSave, FinishSave, CutSave, PowerOff
<1>4. UNCHANGED batteryVars => setup' = setup
  BY DEF batteryVars
<1> QED
  BY <1>1, <1>2, <1>3, <1>4 DEF BatteryNext

LEMMA StepKeepsLarge ==
  ASSUME Started
  PROVE  /\ setup \in Setups /\ PiecesKept /\ ChipIsLarge
         /\ [BatteryNext]_batteryVars
         => ChipIsLarge'
<1> SUFFICES ASSUME setup \in Setups, PiecesKept, ChipIsLarge,
                    [BatteryNext]_batteryVars
             PROVE  ChipIsLarge'
  OBVIOUS
<1> SUFFICES ASSUME Running', setup.game = "flash128"
             PROVE  flash'.size = 4
  BY SetupStays DEF ChipIsLarge
<1>1. /\ setup.menu = 6 /\ MenuType = 3
      /\ setup.detect => setup.title = "ruby" /\ Detected = 3
  BY StartedFacts
<1>2. flash \in FlashOf /\ (file # Absent => file \in Seq(Piece) /\ Len(file) <= 4)
  BY DEF PiecesKept
<1>3. CASE CPUReset
  BY <1>3 DEF CPUReset, Running
<1>4. CASE StartDetected
  <2> DEFINE f == SetSize(flash, 4)
  <2>1. f \in FlashOf /\ f.size = 4
    BY <1>2, SetSizeKeeps
  <2>2. flash' = IF file = Absent THEN f ELSE Load(f, 3)
    BY <1>1, <1>4 DEF StartDetected
  <2>3. setup.title = "ruby"
    BY <1>1, <1>4 DEF StartDetected
  <2> HIDE DEF f
  <2>4. file # Absent => Load(f, 3).size = 4
    BY <1>2, <2>1, <2>3, LoadRestores
  <2> QED
    BY <2>1, <2>2, <2>4
<1>5. CASE StartChosen
  <2> DEFINE f == SetSize(flash, 4)
             g == IF file = Absent THEN f ELSE Load(f, 3)
  <2>1. f \in FlashOf
    BY <1>2, SetSizeKeeps
  <2>2. flash' = SetSize(g, 4)
    BY <1>1, <1>5 DEF StartChosen
  <2> HIDE DEF f
  <2>3. g \in FlashOf
    BY <1>2, <2>1, LoadRestores
  <2> HIDE DEF g
  <2> QED
    BY <2>2, <2>3, SetSizeKeeps
<1>6. ASSUME NEW p, FlashWrite(p) PROVE flash'.size = 4
  <2>1. PICK q : flash' = [flash EXCEPT !.memory[q] = writes + 1]
    BY <1>6 DEF FlashWrite
  <2>2. phase = "playing" /\ writes + 1 \in Piece
    BY <1>6, WriteFacts DEF FlashWrite, Region14, GameWrites, PiecesKept
  <2> QED
    BY <1>2, <2>1, <2>2, WriteKeepsFlash DEF ChipIsLarge, Running
<1>7. ASSUME NEW p, EepromWrite(p) \/ SramWrite(p) PROVE flash'.size = 4
  BY <1>7 DEF EepromWrite, SramWrite, Eeprom
<1>8. CASE StartSave \/ FinishSave \/ CutSave
  BY <1>8 DEF StartSave, FinishSave, CutSave, ChipIsLarge, Running
<1>9. CASE PowerOff
  BY <1>9 DEF PowerOff, Running
<1>10. CASE UNCHANGED batteryVars
  BY <1>10 DEF batteryVars, ChipIsLarge, Running
<1> QED
  BY <1>3, <1>4, <1>5, <1>6, <1>7, <1>8, <1>9, <1>10 DEF BatteryNext

(* The actions that leave what is owed, and the file unless it is owed     *)
(* nothing.                                                                *)
OwedAsBefore ==
  /\ owed' = owed
  /\ owed # Absent => file' = file

LEMMA StepKeepsOwed ==
  ASSUME Started
  PROVE  BatteryInv /\ [BatteryNext]_batteryVars
         => FileHoldsOwed' /\ NothingOwedWhileSaving'
<1> SUFFICES ASSUME BatteryInv, [BatteryNext]_batteryVars
             PROVE  FileHoldsOwed' /\ NothingOwedWhileSaving'
  OBVIOUS
<1> USE DEF BatteryInv
<1>1. setup' = setup /\ setup.game \in Games
  BY SetupStays, StartedFacts
<1>2. ASSUME OwedAsBefore, phase' # "saving"
      PROVE  FileHoldsOwed' /\ NothingOwedWhileSaving'
  BY <1>1, <1>2 DEF OwedAsBefore, FileHoldsOwed, NothingOwedWhileSaving, Eeprom, Size
<1>3. CASE CPUReset
  BY <1>2, <1>3 DEF CPUReset, OwedAsBefore
<1>4. CASE StartDetected
  <2>1. owed # Absent => file # Absent
    BY DEF FileHoldsOwed
  <2>2. phase' \in {"playing", "hung"} /\ owed' = owed /\ (file # Absent => file' = file)
    BY <1>4 DEF StartDetected, observers
  <2> QED
    BY <1>2, <2>1, <2>2 DEF OwedAsBefore
<1>5. CASE StartChosen
  BY <1>2, <1>5 DEF StartChosen, observers, OwedAsBefore
<1>6. ASSUME NEW p, EepromWrite(p) \/ SramWrite(p) \/ FlashWrite(p)
      PROVE  FileHoldsOwed' /\ NothingOwedWhileSaving'
  <2>1. GameWrites
    BY <1>6 DEF EepromWrite, SramWrite, FlashWrite, Region14
  <2> QED
    BY <1>2, <2>1 DEF GameWrites, OwedAsBefore
<1>7. CASE StartSave
  BY <1>7 DEF StartSave, FileHoldsOwed, NothingOwedWhileSaving
<1>8. CASE FinishSave
  <2> DEFINE n == Size(setup.game)
  <2>1. /\ phase = "saving" /\ phase' = "playing"
        /\ file' = Saved(saveType, flash)
        /\ owed' = IF touched THEN Cells(setup.game) ELSE Absent
    BY <1>8 DEF FinishSave
  <2>2. NothingOwedWhileSaving'
    BY <2>1 DEF NothingOwedWhileSaving
  <2>3. CASE ~touched
    BY <2>1, <2>2, <2>3 DEF FileHoldsOwed
  <2>4. CASE touched
    <3>1. file' # Absent
      BY <2>1, SavedIsBeginning, AbsentIsNoFile DEF PiecesKept
    <3>2. CASE Eeprom(setup.game)
      <4>1. saveType = "eeprom" /\ eepromSize = n
        BY <2>1, <2>4, <3>2, <1>1, SizeFacts DEF SavesItsChip
      <4>2. Len(file') = n /\ \A i \in 1 .. n : file'[i] = eepromData[i]
        BY <2>1, <4>1, SavedIsBeginning DEF PiecesKept
      <4>3. owed' = [i \in 1 .. n |-> eepromData[i]]
        BY <2>1, <2>4, <3>2, <1>1, CellsAre
      <4>4. owed' = [i \in 1 .. n |-> file'[i]]
        BY <4>2, <4>3
      <4>5. Size(setup'.game) = n /\ Eeprom(setup'.game)
        BY <1>1, <3>2
      <4> HIDE DEF n
      <4> QED
        BY <2>2, <3>1, <4>2, <4>4, <4>5 DEF FileHoldsOwed
    <3>3. CASE ~Eeprom(setup.game)
      <4> DEFINE l == IF saveType = "flash" THEN flash.size ELSE 3
      <4>1. /\ saveType \in {"sram", "flash"} /\ l \in n .. 4 /\ n \in 1 .. 4
        <5>1. setup.game \in {"sram", "flash64", "flash128"}
          BY <3>3, <1>1 DEF Games, Eeprom
        <5>2. flash.size \in 3 .. 4 /\ (setup.game = "flash128" => flash.size = 4)
          BY <2>1 DEF PiecesKept, FlashOf, ChipIsLarge, Running
        <5> QED
          BY <5>1, <5>2, <2>4, <1>1, SizeFacts DEF SavesItsChip
      <4>2. Len(file') = l /\ \A i \in 1 .. l : file'[i] = flash.memory[i]
        BY <2>1, <4>1, SavedIsBeginning DEF PiecesKept
      <4>3. owed' = [i \in 1 .. n |-> flash.memory[i]]
        BY <2>1, <2>4, <3>3, <1>1, CellsAre
      <4>4. Size(setup'.game) = n /\ ~Eeprom(setup'.game)
        BY <1>1, <3>3
      <4> HIDE DEF n, l
      <4>5. owed' = [i \in 1 .. n |-> file'[i]]
        BY <4>1, <4>2, <4>3
      <4> QED
        BY <2>2, <3>1, <4>1, <4>2, <4>4, <4>5 DEF FileHoldsOwed
    <3> QED
      BY <3>2, <3>3
  <2> QED
    BY <2>3, <2>4
<1>9. CASE CutSave
  <2>1. owed' = owed /\ owed = Absent
    BY <1>9 DEF CutSave, observers, NothingOwedWhileSaving
  <2> QED
    BY <2>1 DEF FileHoldsOwed, NothingOwedWhileSaving
<1>10. CASE PowerOff
  BY <1>2, <1>10 DEF PowerOff, observers, OwedAsBefore
<1>11. CASE UNCHANGED batteryVars
  BY <1>1, <1>11 DEF batteryVars, observers, FileHoldsOwed, NothingOwedWhileSaving,
     Eeprom, Size
<1> QED
  BY <1>3, <1>4, <1>5, <1>6, <1>7, <1>8, <1>9, <1>10, <1>11 DEF BatteryNext

LEMMA StepKeepsRestored ==
  ASSUME Started
  PROVE  BatteryInv /\ [BatteryNext]_batteryVars /\ PiecesKept' => SavedIsRestored'
<1> SUFFICES ASSUME BatteryInv, [BatteryNext]_batteryVars, PiecesKept',
                    phase' = "playing", ~touched', owed' # Absent
             PROVE  Cells(setup.game)' = owed'
  BY DEF SavedIsRestored
<1> USE DEF BatteryInv
<1> DEFINE n == Size(setup.game)
<1>1. setup' = setup /\ setup.game \in Games /\ n \in 1 .. 4
  BY SetupStays, StartedFacts, SizeFacts
<1>2. /\ flash \in FlashOf
      /\ file # Absent => file \in Seq(Piece) /\ Len(file) <= 4
  BY DEF PiecesKept
(* Both ways of starting leave the chip as the file has it.                *)
<1>3. ASSUME owed' = owed, eepromData' = LoadEeprom,
             NEW f \in FlashOf, NEW t, setup.game = "flash128" => f.size = 4,
             \A i \in 1 .. 3 : flash'.memory[i] = Load(f, t).memory[i],
             setup.game = "flash128" => flash'.memory = Load(f, t).memory
      PROVE  Cells(setup.game)' = owed'
  <2>1. /\ file # Absent /\ file \in Seq(Piece) /\ Len(file) <= 4
        /\ owed = [i \in 1 .. n |-> file[i]]
    BY <1>2, <1>3 DEF FileHoldsOwed
  <2>2. Cells(setup.game)' = IF Eeprom(setup.game)
                             THEN [i \in 1 .. n |-> eepromData'[i]]
                             ELSE [i \in 1 .. n |-> flash'.memory[i]]
    <3>1. /\ eepromData' \in Seq(Piece) /\ Len(eepromData') = 2
          /\ flash'.memory \in Seq(Piece) /\ Len(flash'.memory) = 4
      BY ArrayIsSeq DEF PiecesKept, FlashOf
    <3>2. Eeprom(setup.game) => n \in 1 .. 2
      BY <1>1, SizeFacts
    <3> DEFINE a == IF Eeprom(setup.game) THEN eepromData' ELSE flash'.memory
    <3>3. Cells(setup.game)' = SubSeq(a, 1, n)
      BY <1>1 DEF Cells, Size, Eeprom
    <3> HIDE DEF n
    <3>4. a \in Seq(Piece) /\ n \in 0 .. Len(a)
      <4>1. CASE Eeprom(setup.game)
        <5>1. a = eepromData' /\ n \in 0 .. 2
          BY <3>2, <4>1
        <5> QED
          BY <3>1, <5>1
      <4>2. CASE ~Eeprom(setup.game)
        <5>1. a = flash'.memory /\ n \in 0 .. 4
          BY <1>1, <4>2
        <5> QED
          BY <3>1, <5>1
      <4> QED
        BY <4>1, <4>2
    <3>5. a = IF Eeprom(setup.game) THEN eepromData' ELSE flash'.memory
      OBVIOUS
    <3> HIDE DEF a
    <3>6. SubSeq(a, 1, n) = [i \in 1 .. n |-> a[i]]
      BY <3>4, Beginning
    <3> QED
      BY <3>3, <3>5, <3>6
  <2>3. CASE Eeprom(setup.game)
    <3>1. Len(file) = n /\ n \in 1 .. 2
      BY <2>1, <2>3, <1>1, <1>3, SizeFacts DEF FileHoldsOwed
    <3>2. \A i \in 1 .. n : eepromData'[i] = file[i]
      BY <2>1, <3>1, <1>3, LoadEepromRestores DEF PiecesKept
    <3> HIDE DEF n
    <3> QED
      BY <2>1, <2>2, <2>3, <3>2, <1>3
  <2>4. CASE ~Eeprom(setup.game)
    <3>1. Len(file) \in n .. 4
      BY <2>1, <2>4, <1>3 DEF FileHoldsOwed
    <3>2. n = IF setup.game = "flash128" THEN 4 ELSE 3
      BY <2>4, <1>1, SizeFacts DEF Games
    <3>3. \A i \in 1 .. n : flash'.memory[i] = file[i]
      <4>1. CASE setup.game = "flash128"
        <5>1. Len(file) = 4
          BY <3>1, <3>2, <4>1, <1>1
        <5>2. Load(f, t).memory = file
          BY <5>1, <4>1, <2>1, <1>3, LoadRestores
        <5> QED
          BY <5>2, <4>1, <1>3
      <4>2. CASE setup.game # "flash128"
        <5>1. Len(file) \in 3 .. 4 /\ n = 3
          BY <3>1, <3>2, <4>2, <1>1
        <5>2. \A i \in 1 .. 3 : Load(f, t).memory[i] = file[i]
          BY <5>1, <2>1, <1>3, LoadRestores
        <5> QED
          BY <5>1, <5>2, <1>3
      <4> QED
        BY <4>1, <4>2
    <3> HIDE DEF n
    <3> QED
      BY <2>1, <2>2, <2>4, <3>3, <1>3
  <2> QED
    BY <2>3, <2>4
<1>4. CASE StartDetected
  <2> DEFINE f == IF Detected = 3 THEN SetSize(flash, 4) ELSE flash
  <2>1. f \in FlashOf /\ (setup.game = "flash128" => f.size = 4)
    <3>1. setup.game = "flash128" => Detected = 3
      BY <1>4, StartedFacts DEF StartDetected
    <3> QED
      BY <3>1, <1>2, SetSizeKeeps
  <2>2. owed' = owed /\ owed # Absent /\ eepromData' = LoadEeprom
    BY <1>4 DEF StartDetected, observers
  <2>3. file # Absent
    BY <2>2 DEF FileHoldsOwed
  <2>4. flash' = Load(f, Detected)
    BY <1>4, <2>3 DEF StartDetected
  <2> HIDE DEF f
  <2> QED
    BY <2>1, <2>2, <2>4, <1>3
<1>5. CASE StartChosen
  <2> DEFINE own == IF setup.menu = 6 THEN 4 ELSE 3
             f == IF setup.menu = 6 THEN SetSize(flash, 4) ELSE flash
             g == Load(f, MenuType)
  <2>1. owed' = owed /\ owed # Absent /\ eepromData' = LoadEeprom
    BY <1>5 DEF StartChosen, observers
  <2>2. file # Absent
    BY <2>1 DEF FileHoldsOwed
  <2>3. setup.game = "flash128" => setup.menu = 6 /\ MenuType = 3
    BY StartedFacts
  <2>4. f \in FlashOf /\ (setup.menu = 6 => f.size = 4)
    BY <1>2, SetSizeKeeps
  <2>5. flash' = IF MenuType = 3 THEN SetSize(g, own) ELSE g
    BY <1>5, <2>2 DEF StartChosen
  <2>6. own \in 3 .. 4
    OBVIOUS
  <2> HIDE DEF f, own
  <2>7. g \in FlashOf
    BY <1>2, <2>2, <2>4, LoadRestores
  <2>8. \A i \in 1 .. 3 : flash'.memory[i] = g.memory[i]
    <3> HIDE DEF g
    <3> QED
      BY <2>5, <2>6, <2>7, SetSizeKeeps
  <2>9. setup.game = "flash128" => flash'.memory = g.memory
    <3> SUFFICES ASSUME setup.game = "flash128" PROVE flash'.memory = g.memory
      OBVIOUS
    <3>1. f.size = 4 /\ MenuType = 3 /\ owed = [i \in 1 .. n |-> file[i]]
      BY <2>1, <2>3, <2>4 DEF FileHoldsOwed
    <3>2. Len(file) = 4
      <4>1. n = 4 /\ ~Eeprom(setup.game)
        BY <1>1, SizeFacts
      <4>2. Len(file) \in n .. 4
        BY <2>1, <4>1 DEF FileHoldsOwed
      <4> HIDE DEF n
      <4> QED
        BY <4>1, <4>2
    <3>3. g.size = 4
      BY <1>1, <1>2, <2>2, <2>4, <3>1, <3>2, LargeFileMakesLarge
    <3> HIDE DEF g
    <3> QED
      BY <2>5, <2>6, <2>7, <3>1, <3>3, SetSizeKeeps
  <2> QED
    BY <2>1, <2>3, <2>4, <2>8, <2>9, <1>3
<1>6. ASSUME NEW p, EepromWrite(p) \/ SramWrite(p) \/ FlashWrite(p) PROVE FALSE
  BY <1>6 DEF EepromWrite, SramWrite, FlashWrite, Region14, GameWrites
<1>7. ~(CPUReset \/ StartSave \/ PowerOff)
  BY DEF CPUReset, StartSave, PowerOff
<1>8. ~(FinishSave \/ CutSave)
  BY DEF FinishSave, CutSave, observers, NothingOwedWhileSaving
<1>9. CASE UNCHANGED batteryVars
  BY <1>9 DEF batteryVars, types, eeprom, observers, SavedIsRestored, Cells, Size, Eeprom
<1> QED
  BY <1>4, <1>5, <1>6, <1>7, <1>8, <1>9 DEF BatteryNext

LEMMA BatteryStarts == BatteryInit => BatteryInv
<1> SUFFICES ASSUME BatteryInit PROVE BatteryInv
  OBVIOUS
<1> USE DEF BatteryInit
<1>1. PiecesKept
  <2>1. Blank(2) \in [1 .. 2 -> Piece] /\ Blank(4) \in [1 .. 4 -> Piece]
    BY PieceFacts DEF Blank
  <2> QED
    BY <2>1, PieceFacts DEF PiecesKept, FlashOf
<1>2. SavesItsChip
  BY DEF SavesItsChip
<1> QED
  BY <1>1, <1>2 DEF BatteryInv, FileHoldsOwed, NothingOwedWhileSaving, ChipIsLarge,
     Running, SavedIsRestored

(* The invariant of all sessions, for any number of writes and sessions of *)
(* games that are well started.                                            *)
THEOREM BatteryInvariant ==
  ASSUME Started
  PROVE  BatterySpec => []BatteryInv
<1>1. BatteryInv /\ [BatteryNext]_batteryVars => BatteryInv'
  <2> SUFFICES ASSUME BatteryInv, [BatteryNext]_batteryVars PROVE BatteryInv'
    OBVIOUS
  <2>1. setup' \in Setups
    BY SetupStays DEF BatteryInv
  <2>2. PiecesKept'
    BY StepKeepsPieces DEF BatteryInv
  <2>3. SavesItsChip'
    BY StepKeepsTypes DEF BatteryInv
  <2>4. ChipIsLarge'
    BY StepKeepsLarge DEF BatteryInv
  <2>5. FileHoldsOwed' /\ NothingOwedWhileSaving'
    BY StepKeepsOwed
  <2>6. SavedIsRestored'
    BY <2>2, StepKeepsRestored
  <2> QED
    BY <2>1, <2>2, <2>3, <2>4, <2>5, <2>6 DEF BatteryInv
<1> QED
  BY BatteryStarts, <1>1, PTL DEF BatterySpec

(* What a game saved in full after it had written to its chip is what it   *)
(* finds in the next session, whatever was saved untouched or cut short in *)
(* between.                                                                *)
THEOREM SavedGameIsRestored ==
  ASSUME Started
  PROVE  BatterySpec => []SavedIsRestored
<1>1. BatteryInv => SavedIsRestored
  BY DEF BatteryInv
<1> QED
  BY <1>1, BatteryInvariant, PTL

(* A game of two flash banks has both as long as it runs.                  *)
THEOREM LargeGameKeepsItsBanks ==
  ASSUME Started
  PROVE  BatterySpec => []LargeGameHasLargeChip
<1>1. BatteryInv => LargeGameHasLargeChip
  BY DEF BatteryInv, ChipIsLarge, Running, LargeGameHasLargeChip
<1> QED
  BY <1>1, BatteryInvariant, PTL
=============================================================================
