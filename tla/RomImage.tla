------------------------------ MODULE RomImage ------------------------------
(***************************************************************************)
(* What the ROM stream promises its callers: a reader asks for some        *)
(* sectors of the GBA image, and is given the data of those very sectors,  *)
(* one after the other, as the image file lays them out on the card.       *)
(* Nothing here is cached: this is the requirement that RomStream is shown *)
(* to implement.  For a sector that is not in Promised the answer is left  *)
(* open.                                                                   *)
(***************************************************************************)
EXTENDS Naturals

CONSTANTS
  Streamed, (* the sectors of the image that are not resident in memory   *)
  Promised, (* those whose data is promised                               *)
  Layout,   (* Layout[s]: the card sector that holds sector s of the file *)
  MaxTransfer, (* the most sectors one transfer spans                     *)
  None      (* no request, no answer                                      *)

VARIABLES
  wanted,   (* the sector that is waited for, or None                     *)
  left,     (* how many sectors are still to be given                     *)
  got       (* the card sector whose data was given last                  *)

imageVars == <<wanted, left, got>>

Init == wanted = None /\ left = 0 /\ got = None

Ask(s, n) ==
  /\ wanted = None
  /\ wanted' = s
  /\ left' = n
  /\ UNCHANGED got

(* One sector of a transfer is answered, in file order, until none is left. *)
Answer ==
  /\ wanted # None
  /\ wanted \in Promised => got' = Layout[wanted]
  /\ left' = left - 1
  /\ wanted' = IF left > 1 THEN wanted + 1 ELSE None

Next ==
  \/ \E s \in Streamed, n \in 1 .. MaxTransfer : Ask(s, n)
  \/ Answer

Spec == Init /\ [][Next]_imageVars
=============================================================================
