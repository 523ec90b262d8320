-------------------------------- MODULE Lines -------------------------------
(* The GBA's 228 lines on the DS's 263 (initspeedupfelder, irqstuf.arm.cpp) *)
(* and what a game reads of them (updateVC, vcounthandler,                 *)
(* gba.armcore.cpp).                                                       *)
EXTENDS Integers
CONSTANT ReadAt    \* bound: the DS's lines at which the game looks
DsLines == 0 .. 262
ASSUME LinesAssumption == ReadAt \subseteq DsLines
DsVblank(l) == l \in 192 .. 261

(* Mutant: the lines of the screen are squeezed by the factor of the rest. *)
GbaLineSlow(l) == IF l < 192 THEN (l * 246) \div 256 ELSE (((l - 192) * 246) \div 256) + 160
GbaLine(l) == IF l < 192 THEN (l * 214) \div 256 ELSE (((l - 192) * 246) \div 256) + 160
VCountdstogba == [l \in DsLines |-> GbaLine(l)]
VCountdoit == [l \in DsLines |-> l = 0 \/ GbaLine(l) # GbaLine(l - 1)]

VARIABLES
  vcount,         \* the DS's line
  plainLines,     \* disableHBLANKIRQ
  VCOUNT, DISPSTAT,   \* as last read by the game: its flags
  served          \* history: lines of the GBA begun in this frame
lineVars == <<vcount, plainLines, VCOUNT, DISPSTAT, served>>

LinesInit ==
  /\ vcount = 0 /\ plainLines \in BOOLEAN
  /\ VCOUNT = 0 /\ DISPSTAT = [vblank |-> FALSE, hblank |-> FALSE]
  /\ served = {0}
DsLine ==
  /\ vcount' = (vcount + 1) % 263
  /\ served' = (IF vcount' = 0 THEN {} ELSE served)
                 \cup (IF VCountdoit[vcount'] THEN {VCountdstogba[vcount']} ELSE {})
  /\ UNCHANGED <<plainLines, VCOUNT, DISPSTAT>>

updateVC(hblank) ==
  /\ VCOUNT' = VCountdstogba[vcount]
  /\ DISPSTAT' = [vblank |-> DsVblank(vcount), hblank |-> hblank]
vcounthandler(hblank) ==
  /\ VCOUNT' = vcount % 256
  /\ DISPSTAT' = [vblank |-> DISPSTAT.vblank \/ DsVblank(vcount), hblank |-> DISPSTAT.hblank \/ hblank]
CPUReadLine ==
  /\ vcount \in ReadAt
  /\ \E hblank \in BOOLEAN : IF plainLines THEN vcounthandler(hblank) ELSE updateVC(hblank)
  /\ UNCHANGED <<vcount, plainLines, served>>
(* The H-blank handler of those titles clears what sticks.                 *)
PlainHblank ==
  /\ plainLines
  /\ DISPSTAT' = [vblank |-> FALSE, hblank |-> TRUE]
  /\ UNCHANGED <<vcount, plainLines, VCOUNT, served>>
LinesNext == DsLine \/ CPUReadLine \/ PlainHblank
LinesSpec == LinesInit /\ [][LinesNext]_lineVars
-----------------------------------------------------------------------------
(* initspeedupfelder: the DS's frame begins each line of the GBA's once,   *)
(* in order, so that by its end no H-blank and no DMA of a line is missing; *)
(* updateVC: the DS's V-blank flag, passed on as it is, goes with the line *)
(* the game reads, set from line 160 to line 226.                          *)
EveryGbaLineOnce ==
  /\ served = 0 .. VCountdstogba[vcount]
  /\ vcount = 262 => VCountdstogba[vcount] = 227
  /\ ~plainLines => (DISPSTAT.vblank <=> VCOUNT \in 160 .. 226)
=============================================================================
