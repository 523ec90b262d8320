---------------------------- MODULE MCInterrupts -----------------------------
(* Instances of Interrupts for TLC: games that use its H-blanks, the keys'  *)
(* interrupt or both.                                                       *)
EXTENDS Interrupts

MCSpec == IrqSpec /\ IrqFairness

MCUsedTimers == 0 .. 2
MCGameIE == {{"hblank", "keys"}, {"keys"}, {"hblank"}}
=============================================================================
