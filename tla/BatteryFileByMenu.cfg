\* B is pressed and the hbmenu was told EEPROM.
SPECIFICATION BatterySpec
CONSTANTS
  Setups <- MCEepromByMenu
  MaxWrites = 3
  MaxSessions = 3
  Absent = Absent
INVARIANTS
  SavedIsRestored
CHECK_DEADLOCK FALSE
