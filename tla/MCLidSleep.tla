---------------------------- MODULE MCLidSleep ------------------------------
(* LidSleep for TLC: the constants are all numbers and truth values, given *)
(* in the configurations.                                                  *)
EXTENDS LidSleep
=============================================================================
