------------------------------ MODULE FlashChip ------------------------------
(***************************************************************************)
(* The emulated flash save chip (arm9/source/Flash.cpp): a state machine   *)
(* driven by the game's byte writes to region 14 and, after an erase, by   *)
(* its reads.                                                              *)
(***************************************************************************)
EXTENDS Naturals

CONSTANTS
  Address,   (* addresses & 0xFFFF, the ones a game uses                  *)
  Byte,      (* the bytes a game writes                                   *)
  Payload    (* bound: those among them it programs into cells            *)

ASSUME FlashAssumption ==
  /\ Address \subseteq Nat           (* 16 and 8 bits wide: the chip does  *)
  /\ Byte \subseteq Nat              (* the same for any numbers            *)
  /\ Payload \subseteq Byte

SectorOf == [a \in Address |-> a \div 4096]     (* address & 0xF000        *)

VARIABLES
  flashState,       (* what the next write will be taken for              *)
  flashReadState,   (* what a read answers                                *)
  flashSize,        (* in banks of 0x10000 bytes                          *)
  flashBank,
  flashSaveMemory   (* [bank][address]                                    *)

flashVars ==
  <<flashState, flashReadState, flashSize, flashBank, flashSaveMemory>>

Bank == 0 .. 1

FlashStates ==
  {"READ_ARRAY", "CMD_1", "CMD_2", "AUTOSELECT", "CMD_3", "CMD_4", "CMD_5",
   "PROGRAM", "SETBANK"}

FlashTypeOK ==
  /\ flashState \in FlashStates
  /\ flashReadState \in {"READ_ARRAY", "AUTOSELECT", "ERASE_COMPLETE"}
  /\ flashSize \in {1, 2}
  /\ flashBank \in Bank
  /\ flashSaveMemory \in [Bank -> [Address -> Byte \cup {0, 255}]]

(* flashInit and flashReset, after flashSetSize.                           *)
FlashInit ==
  /\ flashState = "READ_ARRAY"
  /\ flashReadState = "READ_ARRAY"
  /\ flashSize \in {1, 2}
  /\ flashBank = 0
  /\ flashSaveMemory = [k \in Bank |-> [a \in Address |-> 255]]

-----------------------------------------------------------------------------
Goto(s) == flashState' = s
KeepCells == UNCHANGED <<flashSize, flashBank, flashSaveMemory>>

(* A mutant: what reads answer is not reset.                               *)
ResetWriteState == Goto("READ_ARRAY") /\ UNCHANGED flashReadState

ResetStates == Goto("READ_ARRAY") /\ flashReadState' = "READ_ARRAY"

IsUnlock1(a, b) == a = 21845 /\ b = 170
IsUnlock2(a, b) == a = 10922 /\ b = 85

(* A step of an opening: from state s to state t when the write matches.   *)
(* A mismatch falls back to READ_ARRAY, with what reads answer reset too   *)
(* except in the first two states.                                         *)
Unlock(s, t, matches) ==
  /\ flashState = s
  /\ \/ matches /\ Goto(t) /\ UNCHANGED flashReadState
     \/ /\ ~matches
        /\ Goto("READ_ARRAY")
        /\ IF s \in {"READ_ARRAY", "CMD_1"} THEN UNCHANGED flashReadState
                                            ELSE flashReadState' = "READ_ARRAY"
  /\ KeepCells

(* A mutant: the bank command is taken by chips of one bank too.           *)
CommandOfAnyChip(a, b) ==
  /\ flashState = "CMD_2" /\ a = 21845 /\ b = 176
  /\ Goto("SETBANK") /\ UNCHANGED flashReadState
  /\ KeepCells

Command(a, b) ==
  /\ flashState = "CMD_2"
  /\ \/ /\ a = 21845 /\ b = 144
        /\ Goto("AUTOSELECT") /\ flashReadState' = "AUTOSELECT"
     \/ a = 21845 /\ b = 128 /\ Goto("CMD_3") /\ UNCHANGED flashReadState
     \/ a = 21845 /\ b = 160 /\ Goto("PROGRAM") /\ UNCHANGED flashReadState
     \/ /\ a = 21845 /\ b = 176 /\ flashSize = 2
        /\ Goto("SETBANK") /\ UNCHANGED flashReadState
     \/ /\ a # 21845 \/ b \notin {144, 128, 160, 176} \/ (b = 176 /\ flashSize = 1)
        /\ ResetStates
  /\ KeepCells

(* The chip stays in this state after an erase.                            *)
Erase(a, b) ==
  /\ flashState = "CMD_5"
  /\ UNCHANGED <<flashSize, flashBank>>
  /\ \/ /\ b = 48
        /\ flashSaveMemory' =
             [flashSaveMemory EXCEPT ![flashBank] =
                [c \in Address |->
                   IF SectorOf[c] = SectorOf[a] THEN 0 ELSE @[c]]]
        /\ flashReadState' = "ERASE_COMPLETE"
        /\ UNCHANGED flashState
     \/ /\ b = 16
        /\ flashSaveMemory' =
             [k \in Bank |-> IF k < flashSize THEN [c \in Address |-> 0]
                                              ELSE flashSaveMemory[k]]
        /\ flashReadState' = "ERASE_COMPLETE"
        /\ UNCHANGED flashState
     \/ b \notin {48, 16} /\ ResetStates /\ UNCHANGED flashSaveMemory

Program(a, b) ==
  /\ flashState = "PROGRAM"
  /\ flashSaveMemory' = [flashSaveMemory EXCEPT ![flashBank][a] = b]
  /\ ResetStates
  /\ UNCHANGED <<flashSize, flashBank>>

SetBank(a, b) ==
  /\ flashState = "SETBANK"
  /\ flashBank' = IF a = 0 THEN b % 2 ELSE flashBank
  /\ ResetStates
  /\ UNCHANGED <<flashSize, flashSaveMemory>>

(* 0xF0 is tested before the first unlock byte; either way a mismatch ends *)
(* the identification mode.                                                *)
Identified(a, b) ==
  /\ flashState = "AUTOSELECT"
  /\ \/ IsUnlock1(a, b) /\ Goto("CMD_1") /\ UNCHANGED flashReadState
     \/ ~IsUnlock1(a, b) /\ ResetStates
  /\ KeepCells

flashWrite(a, b) ==
  \/ Unlock("READ_ARRAY", "CMD_1", IsUnlock1(a, b))
  \/ Unlock("CMD_1", "CMD_2", IsUnlock2(a, b))
  \/ Command(a, b)
  \/ Unlock("CMD_3", "CMD_4", IsUnlock1(a, b))
  \/ Unlock("CMD_4", "CMD_5", IsUnlock2(a, b))
  \/ Erase(a, b)
  \/ Program(a, b)
  \/ SetBank(a, b)
  \/ Identified(a, b)

(* A read changes the chip only when it collects the status of an erase.   *)
flashRead ==
  /\ flashReadState = "ERASE_COMPLETE"
  /\ ResetStates
  /\ KeepCells

FlashNext ==
  \/ \E a \in Address, b \in Byte :
       flashWrite(a, b) /\ (flashState = "PROGRAM" => b \in Payload)
  \/ flashRead

FlashSpec == FlashInit /\ [][FlashNext]_flashVars

-----------------------------------------------------------------------------
(* What the state stands for: the opening of a command seen so far.         *)
Pending ==
  LET u1 == <<21845, 170>>
      u2 == <<10922, 85>>
      op(b) == <<21845, b>>
  IN CASE flashState = "CMD_1" -> <<u1>>
       [] flashState = "CMD_2" -> <<u1, u2>>
       [] flashState = "CMD_3" -> <<u1, u2, op(128)>>
       [] flashState = "CMD_4" -> <<u1, u2, op(128), u1>>
       [] flashState = "CMD_5" -> <<u1, u2, op(128), u1, u2>>
       [] flashState = "PROGRAM" -> <<u1, u2, op(160)>>
       [] flashState = "SETBANK" -> <<u1, u2, op(176)>>
       [] OTHER -> <<>>

(* No stray write reaches the cells, and no command is lost: the chip does *)
(* exactly what the sequences of FlashCommands say, whatever bytes a game  *)
(* sends, in whatever order, broken off wherever it likes.                 *)
Commands ==
  INSTANCE FlashCommands WITH
    pending <- Pending, erased <- flashReadState = "ERASE_COMPLETE",
    banks <- flashSize, bank <- flashBank, memory <- flashSaveMemory
ImplementsCommands == Commands!Spec

(* A chip that answers reads with an erase status is waiting for another   *)
(* erase byte, and nothing else: no program or bank command is under way   *)
(* that the read, which resets the chip, would cut off.                    *)
StatusIsRead ==
  flashReadState = "ERASE_COMPLETE" => flashState = "CMD_5"
=============================================================================
