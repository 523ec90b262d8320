------------------------------ MODULE Emulation ------------------------------
(* The game on the ARM9 and the data aborts of its loads and stores: which  *)
(* instruction it runs into one with, in which mode and with which          *)
(* registers, and what the emulator makes of it.                            *)
EXTENDS LoadStore, ThumbStore

CONSTANTS
  Operands,    \* registers an instruction names
  Lists,       \* register lists of a block transfer
  Immediates,  \* offsets, and amounts of a shift
  RegisterSets,\* registers the game may hold when it aborts
  UserBank     \* the user's r13 and r14 while the game is in another mode

VARIABLES
  regs,        \* the game's registers in its mode; r15: the next instruction
  banked,      \* the game runs in a mode with an r13 and r14 of its own
  carry,       \* the carry of the game's CPSR
  instr,       \* the last instruction that aborted
  writes       \* what the emulator stored for it: address, size, value

emulationVars == <<regs, banked, carry, instr, writes>>
NoInstr == [isa |-> "none"]

ArmLabels == {l \in 0 .. \h9ff :
  \/ IsHalf(l) /\ ~(~Loads(l) /\ l % 16 # 11)
  \/ IsSwap(l)
  \/ IsSingle(l) /\ (IF Bit(l, 9) THEN l % 2 = 0 ELSE l % 16 = 0)
  \/ IsBlock(l) /\ l % 16 = 0}

(* Encodings the architecture leaves unpredictable are not the game's: r15  *)
(* as a written base, as a byte or half word, as the operand shifted, a     *)
(* store of the base that is written back first, a user bank transfer that  *)
(* writes back, and an exception return in a mode without one.              *)
Predictable(i) ==
  LET l == i.label
      writesBase == WritesBack(l) \/ (~PreIndexed(l) /\ ~IsBlock(l))
  IN IF IsBlock(l)
       THEN /\ i.rn # 15
            /\ ByteSized(l) => ~WritesBack(l) /\ ~(Loads(l) /\ 15 \in i.list)
     ELSE IF IsSwap(l) THEN 15 \notin {i.rn, i.rd, i.rm}
     ELSE /\ i.rm # 15
          /\ i.rn = 15 => ~writesBase
          /\ i.rd = 15 => SizeOf(l) = "word" /\ ~(i.rn = 15 /\ ~Loads(l))
          /\ ~(~Loads(l) /\ writesBase /\ i.rd = i.rn)

(* The operand an encoding has no field for is r0, or zero.                 *)
NoRm(l) == IF IsHalf(l) THEN ByteSized(l) ELSE IsSingle(l) /\ ~Bit(l, 9)
NoImm(l) == IsSwap(l) \/ (IsHalf(l) /\ ~ByteSized(l))
SingleInstrs(l) ==
  {i \in [isa : {"arm"}, label : {l}, rd : Operands, rn : Operands,
          rm : IF NoRm(l) THEN {0} ELSE Operands,
          imm : IF NoImm(l) THEN {0} ELSE Immediates] : Predictable(i)}
BlockInstrs(l) == {i \in [isa : {"arm"}, label : {l}, rn : Operands, list : Lists] :
                     Predictable(i)}
ThumbLow == Operands \cap 0 .. 7
ThumbInstrs(h) ==
  IF h \div 16 \in {11, 12}
    THEN {i \in [isa : {"thumb"}, hi : {h}, list : {s \cap 0 .. 7 : s \in Lists}] :
            i.list # {} \/ h \in {\hb5, \hbd}}
    ELSE [isa : {"thumb"}, hi : {h}, rd : ThumbLow, rb : ThumbLow, ro : ThumbLow,
          imm : Immediates]
ThumbHis == \h50 .. \h8f
  \cup {h \in \h90 .. \h9f : h % 8 \in ThumbLow}
  \cup {\hb4, \hb5, \hbc, \hbd} \cup {h \in \hc0 .. \hcf : h % 8 \in ThumbLow}

EmulationInit ==
  /\ regs \in RegisterSets /\ banked \in BOOLEAN /\ carry \in {0, 1}
  /\ instr = NoInstr /\ writes = <<>>

Take(i, e) == /\ regs' = e.regs /\ writes' = e.writes /\ instr' = i
              /\ UNCHANGED <<banked, carry>>

(* A data abort in ARM and in Thumb state.                                  *)
ArmAbort ==
  /\ instr = NoInstr
  /\ \E l \in ArmLabels : \E i \in IF IsBlock(l) THEN BlockInstrs(l) ELSE SingleInstrs(l) :
       Take(i, AbortARM(i, regs))
ThumbAbort ==
  /\ instr = NoInstr
  /\ \E h \in ThumbHis : \E i \in ThumbInstrs(h) : Take(i, AbortTHUMB(i, regs))

(* The game runs on, natively, to its next abort.                           *)
GameRuns ==
  /\ instr # NoInstr
  /\ regs' \in RegisterSets /\ banked' \in BOOLEAN /\ carry' \in {0, 1}
  /\ instr' = NoInstr /\ writes' = <<>>

EmulationNext == ArmAbort \/ ThumbAbort \/ GameRuns
EmulationSpec == EmulationInit /\ [][EmulationNext]_emulationVars

Aborts == instr = NoInstr /\ instr' # NoInstr

(* The two pieces of the processor's state the emulator keeps copies of and *)
(* never refreshes.                                                         *)
ShiftsThroughCarry(i) ==
  ~IsBlock(i.label) /\ IsSingle(i.label) /\ Bit(i.label, 9) /\ i.label % 8 = 6 /\ i.imm = 0
NamesUserBank(i) == IsBlock(i.label) /\ ByteSized(i.label) /\ i.list \cap {13, 14} # {}
StoresR15(i) == ~IsBlock(i.label) /\ ~Loads(i.label) /\ i.rd = 15

(* Every ARM load and store that aborts does to the registers, the memory   *)
(* and the program counter what the architecture says, with three           *)
(* exceptions: a shift through the game's carry when it is set (C_FLAG      *)
(* stays clear), the user's banked registers from another mode (armMode     *)
(* stays 0x1F), and r15 stored alone, which is 8 and not 12 ahead.          *)
ArmAsOnTheGba ==
  [][(Aborts /\ instr'.isa = "arm") =>
       \/ Effect(regs', writes') = ArmEffect(instr', regs, carry, UserBank, banked)
       \/ carry = 1 /\ ShiftsThroughCarry(instr')
       \/ banked /\ NamesUserBank(instr')
       \/ StoresR15(instr')]_emulationVars

(* Every Thumb load and store that aborts does what the architecture says.  *)
ThumbAsOnTheGba ==
  [][(Aborts /\ instr'.isa = "thumb") =>
       Effect(regs', writes') = ThumbEffect(instr', regs)]_emulationVars

EmulationTypeOK ==
  /\ \A q \in DOMAIN regs : regs[q] \in Word
  /\ banked \in BOOLEAN /\ carry \in {0, 1}
  /\ \A k \in DOMAIN writes : writes[k][1] \in Word /\ writes[k][3] \in Word
=============================================================================
