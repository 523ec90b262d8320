---------------------------- MODULE MCRomStream -----------------------------
(* Instances of RomStream for TLC: a file of six sectors, the first of     *)
(* them resident, scattered over the card.  With four sectors to a cluster *)
(* generatefilemap clears the words of 4 * 1 + 1 of them.                  *)
EXTENDS RomStream

MCSector == 0 .. 5
MCStreamed == 1 .. 5
MCBlanked == 0 .. 4
MCLayout == [s \in MCSector |-> IF s < 2 THEN 7 + s ELSE 20 - s]
=============================================================================
