--------------------------------- MODULE Lcd --------------------------------
(* The GBA's video registers on the DS's (gba.armcore.cpp, the cases 0x00  *)
(* to 0x54 of CPUUpdateRegister) and the copy of the screen at V-blanks    *)
(* (irqstuf.arm.cpp).  The GBA draws a bitmap on BG2, the DS on BG3: in    *)
(* the modes 3 to 5 what is written for BG2 goes to BG3, as it is written. *)
(* A register's value is the set of its bits that are 1, of those it has.   *)
EXTENDS Integers, FiniteSets
CONSTANTS
  LcdWrites,      \* what the game writes: pairs <<register, value>>
  Displays,       \* and to DISPCNT: pairs <<mode, value>>
  FrameSkip,      \* frameskip
  MaxLcdWrites    \* bound: writes in a behaviour

(* A register is <<layer, name>>; its layer is "" if it is of no layer.    *)
Affine == {"PA", "PB", "PC", "PD", "X_L", "X_H", "Y_L", "Y_H"}
BothModes ==
  ({"BG0", "BG1"} \X {"CNT", "HOFS", "VOFS"}) \cup {<<"BG2", "HOFS">>, <<"BG3", "VOFS">>}
    \cup ({""} \X {"WIN0H", "WIN1H", "WIN0V", "WIN1V", "MOSAIC", "COLEV", "COLY"})
TiledOnly == {<<"BG3", "CNT">>, <<"BG2", "VOFS">>, <<"BG3", "HOFS">>} \cup ({"BG3"} \X Affine)
Moved == {"BG2"} \X Affine
Shifted == {""} \X {"WININ", "WINOUT", "BLDMOD"}
Control == <<"BG2", "CNT">>
LcdRegisters == BothModes \cup TiledOnly \cup Moved \cup Shifted \cup {Control}

ASSUME LcdAssumption ==
  /\ LcdWrites \subseteq LcdRegisters \X SUBSET (0 .. 15)
  /\ Displays \subseteq (0 .. 7) \X SUBSET (4 .. 15)
  /\ FrameSkip \in Nat /\ MaxLcdWrites \in Nat

VARIABLES
  DISPCNT, REG_DISPCNT,   \* the game's and the DS's: mode and bits
  lcd,                    \* the game's registers
  dsLcd,                  \* the DS's
  framewtf,               \* V-blanks since the screen was copied
  screen,                 \* what was copied: mode, and which page
  fresh,                  \* history: registers written since the class of mode changed
  behind,                 \* history: V-blanks since the screen was as the game's
  lcdWrites
lcdVars == <<DISPCNT, REG_DISPCNT, lcd, dsLcd, framewtf, screen, fresh, behind, lcdWrites>>

Used == {w[1] : w \in LcdWrites}
Bitmap(mode) == mode >= 3
(* Mutant: a bitmap's matrix goes to the layer it is of on the GBA.        *)
StaysBg2(r) == r
Bg3Of(r) == <<"BG3", r[2]>>

LcdInit ==
  /\ DISPCNT = [mode |-> 0, bits |-> {7}] /\ REG_DISPCNT = [mode |-> 0, bits |-> {7}]
  /\ lcd = [r \in LcdRegisters |-> {}] /\ dsLcd = [r \in LcdRegisters |-> {}]
  /\ framewtf = 0 /\ screen = [mode |-> 0, page |-> 0]
  /\ fresh = {} /\ behind = 0 /\ lcdWrites = 0

(* Mutant: modes are passed on as they are.                                *)
DsModeAsIs(mode) == mode
DsMode(mode) == CASE mode \in {1, 2} -> 2 [] mode \in {3, 4, 5} -> mode [] OTHER -> 0
(* Bit 5 goes to 23 and 6 to 4; 16 turns the display on.                   *)
DsBits(bits) ==
  (bits \cap (7 .. 15)) \cup (IF 5 \in bits THEN {23} ELSE {}) \cup (IF 6 \in bits THEN {4} ELSE {})
    \cup (IF 7 \in bits THEN {} ELSE {16})
WriteDISPCNT(mode, bits) ==
  /\ lcdWrites < MaxLcdWrites
  /\ DISPCNT' = [mode |-> mode, bits |-> bits]
  /\ REG_DISPCNT' = [mode |-> DsMode(mode), bits |-> DsBits(bits)]
  /\ fresh' = IF Bitmap(mode) = Bitmap(DISPCNT.mode) THEN fresh ELSE {}
  /\ lcdWrites' = lcdWrites + 1
  /\ UNCHANGED <<lcd, dsLcd, framewtf, screen, behind>>

(* Bits 2 and 10, BG2's, go to 3 and 11.                                   *)
Shift(v) == {IF b \in {2, 10} THEN b + 1 ELSE b : b \in v}
WriteLcd(r, v) ==
  LET bitmap == Bitmap(DISPCNT.mode)
  IN /\ lcdWrites < MaxLcdWrites
     /\ lcd' = [lcd EXCEPT ![r] = v]
     /\ dsLcd' = CASE bitmap /\ r \in TiledOnly -> dsLcd
                   [] bitmap /\ r \in Moved -> [dsLcd EXCEPT ![Bg3Of(r)] = v]
                   [] bitmap /\ r \in Shifted -> [dsLcd EXCEPT ![r] = Shift(v)]
                   [] bitmap /\ r = Control -> [dsLcd EXCEPT ![Bg3Of(r)] = @ \cup (v \cap {0, 1, 6})]
                   [] OTHER -> [dsLcd EXCEPT ![r] = v]
     /\ fresh' = fresh \cup {r}
     /\ lcdWrites' = lcdWrites + 1
     /\ UNCHANGED <<DISPCNT, REG_DISPCNT, framewtf, screen, behind>>
-----------------------------------------------------------------------------
(* The screen: in the modes 4 and 5 bit 4 selects one of two pages.        *)
Page == IF DISPCNT.mode >= 4 /\ 4 \in DISPCNT.bits THEN 40960 ELSE 0
CopyScreen ==
  /\ framewtf' = 0 /\ behind' = 0
  /\ screen' = [mode |-> DISPCNT.mode, page |-> Page]
(* Where the rows of a bitmap are copied from and to: bytes.               *)
Geometry(mode) ==
  CASE mode = 3 -> [rows |-> 160, bytes |-> 480, from |-> 480, to |-> 512]
    [] mode = 4 -> [rows |-> 160, bytes |-> 240, from |-> 240, to |-> 256]
    [] OTHER    -> [rows |-> 128, bytes |-> 320, from |-> 320, to |-> 512]
(* The tiles of the objects, which lie behind the screen.                  *)
ObjectTiles(mode) == IF Bitmap(mode) THEN [at |-> 81920, bytes |-> 16384]
                     ELSE [at |-> 65536, bytes |-> 32768]
Due == framewtf = FrameSkip
VblankCopies ==
  IF Due THEN CopyScreen
  ELSE framewtf' = framewtf + 1 /\ behind' = behind + 1 /\ UNCHANGED screen
Vblank == VblankCopies /\ UNCHANGED <<DISPCNT, REG_DISPCNT, lcd, dsLcd, fresh, lcdWrites>>
(* A message of the ARM7's has it copied at once.                          *)
frameasyncsync ==
  CopyScreen /\ UNCHANGED <<DISPCNT, REG_DISPCNT, lcd, dsLcd, fresh, lcdWrites>>

LcdNext ==
  \/ \E w \in LcdWrites : WriteLcd(w[1], w[2])
  \/ \E d \in Displays : WriteDISPCNT(d[1], d[2])
  \/ Vblank \/ frameasyncsync
LcdSpec == LcdInit /\ [][LcdNext]_lcdVars
-----------------------------------------------------------------------------
(* The kinds of the layers, on the GBA and on the DS.                      *)
GbaLayers(mode) ==
  CASE mode = 0 -> [bg0 |-> "text", bg1 |-> "text", bg2 |-> "text", bg3 |-> "text"]
    [] mode = 1 -> [bg0 |-> "text", bg1 |-> "text", bg2 |-> "affine", bg3 |-> "none"]
    [] mode = 2 -> [bg0 |-> "none", bg1 |-> "none", bg2 |-> "affine", bg3 |-> "affine"]
    [] OTHER    -> [bg0 |-> "none", bg1 |-> "none", bg2 |-> "none", bg3 |-> "bitmap"]
DsLayers(mode) ==
  [bg0 |-> "text", bg1 |-> "text",
   bg2 |-> CASE mode \in {0, 1, 3} -> "text" [] mode \in {2, 4} -> "affine" [] OTHER -> "bitmap",
   bg3 |-> CASE mode = 0 -> "text" [] mode \in {1, 2} -> "affine" [] OTHER -> "bitmap"]

(* CPUUpdateRegister, case 0: whatever mode the game sets, each layer that *)
(* it has, a bitmap on BG3, is of its kind on the DS, objects are mapped   *)
(* and the display is on as on the GBA.  (Not so their being on: BG2's bit *)
(* is not moved with the bitmap.)                                          *)
LayersAreOfTheirKind ==
  DISPCNT.mode <= 5 =>
    /\ \A l \in {"bg0", "bg1", "bg2", "bg3"} :
         GbaLayers(DISPCNT.mode)[l] \in {"none", DsLayers(REG_DISPCNT.mode)[l]}
    /\ 16 \in REG_DISPCNT.bits <=> 7 \notin DISPCNT.bits
    /\ REG_DISPCNT.bits \cap (8 .. 15) = DISPCNT.bits \cap (8 .. 15)

(* The screen is never more than frameskip V-blanks behind, and what is    *)
(* copied of a page and of the objects stays in its own part of the VRAM.  *)
ScreenIsFollowed ==
  /\ behind <= FrameSkip
  /\ Bitmap(screen.mode) =>
       LET g == Geometry(screen.mode)
       IN /\ screen.page + g.rows * g.from <= ObjectTiles(screen.mode).at
          /\ screen.page = 0 => g.rows * g.from <= IF screen.mode = 3 THEN 81920 ELSE 40960
          /\ g.bytes <= g.to
  /\ ObjectTiles(screen.mode).at + ObjectTiles(screen.mode).bytes = 98304

(* What the game wrote since it last went from tiles to a bitmap or back   *)
(* is where the DS looks for it now, whatever was written in between and   *)
(* before: of the control of the bitmap at least what it set.  The screen  *)
(* that is copied follows too.                                             *)
Home(r) == CASE ~Bitmap(DISPCNT.mode) -> r
             [] r \in Moved \cup {Control} -> <<"BG3", r[2]>> [] OTHER -> r
Meant(r) == IF Bitmap(DISPCNT.mode) /\ r \in Shifted THEN Shift(lcd[r]) ELSE lcd[r]
FreshRegistersAreShown ==
  /\ ScreenIsFollowed
  /\ \A r \in fresh :
       IF Bitmap(DISPCNT.mode)
       THEN \/ r \in TiledOnly
            \/ r = Control /\ lcd[r] \cap {0, 1, 6} \subseteq dsLcd[Home(r)]
            \/ dsLcd[Home(r)] = Meant(r)
       ELSE dsLcd[r] = lcd[r]
=============================================================================
