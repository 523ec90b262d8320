--------------------------- MODULE MCBatteryFile ----------------------------
(* Instances of BatteryFile for TLC: ways of starting a game.              *)
EXTENDS BatteryFile

(* The title list has no title of a game with another chip.                 *)
Titled(s) ==
  CASE s.title = "listed" -> s.game \in {"eeprom8K", "flash128"}
    [] s.title = "ruby" -> s.game = "flash128"
    [] OTHER -> TRUE

(* The other ways of starting are left to runs of their own.               *)
MCFitting == {s \in Setup : WellStarted(s) /\ Titled(s)}

(* B, with the menu's EEPROM, for a game that has one.                     *)
MCEepromByMenu ==
  {s \in Setup : /\ s.game = "eeprom512" /\ s.title = "unlisted"
                 /\ s.menu = 1 /\ ~s.detect}
=============================================================================
