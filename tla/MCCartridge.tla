---------------------------- MODULE MCCartridge -----------------------------
(* Instances of the cartridge's chips for TLC, two that save and a clock:  *)
(* a cartridge carries one of them, and the game on it drives that one.    *)
EXTENDS FlashChip, Eeprom, Rtc

VARIABLE chip

CartridgeInit ==
  /\ FlashInit /\ EepromInit /\ RtcInit
  /\ \/ chip = "flash" /\ width = Narrow
     \/ chip = "eeprom" /\ flashSize = 1
     \/ chip = "clock" /\ flashSize = 1 /\ width = Narrow
CartridgeNext ==
  /\ \/ chip = "flash" /\ FlashNext /\ UNCHANGED <<eepromVars, rtcVars>>
     \/ chip = "eeprom" /\ EepromNext /\ UNCHANGED <<flashVars, rtcVars>>
     \/ chip = "clock" /\ RtcNext /\ UNCHANGED <<flashVars, eepromVars>>
  /\ UNCHANGED chip
CartridgeSpec == CartridgeInit /\ [][CartridgeNext]_<<chip, flashVars, eepromVars, rtcVars>>

(* The two unlock addresses and the bank register: three sectors.          *)
MCAddress == {0, 10922, 21845}
(* Every byte flashWrite knows, and one it does not.                       *)
MCByte == {170, 85, 144, 128, 240, 160, 176, 48, 16, 1}
MCPayload == {1}
(* A sound transfer, and the length of a wide read request.                *)
MCOtherCounts == {1, 5}
(* The last second of a year, and of an hour.                              *)
MCTimes == <<<<24, 12, 31, 2, 23, 59, 59>>, <<25, 1, 1, 3, 0, 0, 0>>>>
(* The eve of 2025; and a time whose bits all are bits of the command.      *)
MCTimesSet == {<<36, 18, 49, 2, 35, 89, 89>>, <<0, 4, 2, 2, 32, 0, 0>>}
MCStatusWritten == {65}
=============================================================================
