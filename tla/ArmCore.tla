------------------------------ MODULE ArmCore --------------------------------
(* The loads and stores of an ARM7TDMI as its architecture defines them, by *)
(* the bits of the instruction: what a game on a Game Boy Advance may       *)
(* expect.  An ARM instruction is given by the 12 bits the emulator         *)
(* switches on (bits 27-20 and 7-4) and its operands.                       *)
EXTENDS ArmWords, FiniteSets, Sequences, SequencesExt

Bit(label, n) == (label \div 2 ^ n) % 2 = 1

PreIndexed(l) == Bit(l, 8)
Upwards(l) == Bit(l, 7)
ByteSized(l) == Bit(l, 6)
WritesBack(l) == Bit(l, 5)
Loads(l) == Bit(l, 4)

IsHalf(l) == l < 512 /\ l % 16 \in {11, 13, 15}
IsSwap(l) == l \in {265, 329}
IsSingle(l) == l \in 1024 .. 2047
IsBlock(l) == l \in 2048 .. 2559

(* The operand shifted by a constant: shift by zero means by the word's     *)
(* width to the right, or one bit through the carry.                        *)
ShiftedBy(kind, n, v, carry) ==
  CASE kind = "lsl" -> Wrap(v * 2 ^ n)
    [] kind = "lsr" -> IF n = 0 THEN 0 ELSE v \div 2 ^ n
    [] kind = "asr" -> LET by == IF n = 0 THEN WordBits ELSE n
                       IN Wrap((v - TopBit(v) * 2 ^ WordBits) \div 2 ^ by)
    [] kind = "ror" -> IF n = 0 THEN v \div 2 + carry * 2 ^ (WordBits - 1)
                       ELSE v \div 2 ^ n + Wrap(v * 2 ^ (WordBits - n))

ShiftKind(l) == <<"lsl", "lsr", "asr", "ror">>[(l % 8) \div 2 + 1]

ArmOffset(i, r, carry) ==
  IF IsHalf(i.label)
    THEN IF ByteSized(i.label) THEN i.imm ELSE r[i.rm]
    ELSE IF Bit(i.label, 9) THEN ShiftedBy(ShiftKind(i.label), i.imm, r[i.rm], carry)
         ELSE i.imm

SizeOf(l) == IF IsHalf(l) /\ ~(Loads(l) /\ l % 16 = 13) THEN "half"
             ELSE IF IsHalf(l) \/ ByteSized(l) THEN "byte" ELSE "word"
ValueLoaded(l, a) ==
  IF IsHalf(l) /\ l % 16 # 11 THEN Signed(SizeOf(l), Memory[a])
  ELSE Low(SizeOf(l), Memory[a])

Next4(r) == [r EXCEPT ![15] = Wrap(@ + 4)]
Effect(r, writes) == [regs |-> r, writes |-> writes]

(* One load or store: r[15] is the instruction's own address, eight below   *)
(* what the instruction reads there; a loaded register wins over the base   *)
(* written back.                                                            *)
ArmSingle(i, regs, carry) ==
  LET l == i.label
      r == [regs EXCEPT ![15] = Wrap(@ + 8)]
      off == ArmOffset(i, r, carry)
      moved == Wrap(IF Upwards(l) THEN r[i.rn] + off ELSE r[i.rn] - off)
      addr == IF PreIndexed(l) THEN moved ELSE r[i.rn]
      based == IF PreIndexed(l) /\ ~WritesBack(l) THEN Next4(regs)
               ELSE [Next4(regs) EXCEPT ![i.rn] = moved]
      stored == IF i.rd = 15 THEN Wrap(r[15] + 4) ELSE r[i.rd]
  IN IF Loads(l)
       THEN Effect([based EXCEPT ![i.rd] =
              IF i.rd = 15 THEN Aligned(ValueLoaded(l, addr))
              ELSE ValueLoaded(l, addr)], <<>>)
       ELSE Effect(based, <<<<addr, SizeOf(l), Low(SizeOf(l), stored)>>>>)

ArmSwap(i, r) ==
  LET size == IF ByteSized(i.label) THEN "byte" ELSE "word"
  IN Effect([Next4(r) EXCEPT ![i.rd] = Low(size, Memory[r[i.rn]])],
            <<<<r[i.rn], size, Low(size, r[i.rm])>>>>)

Ascending(list) == SetToSortSeq(list, <)

(* A block transfer: the lowest register at the lowest address; bank is     *)
(* where the user's own r13 and r14 are.  A stored base is the old one only *)
(* if it is the first register stored; a loaded base is not written back.   *)
ArmBlock(i, regs, bank, banked) ==
  LET l == i.label
      s == Ascending(i.list)
      size == 4 * Len(s)
      base == regs[i.rn]
      end == Wrap(IF Upwards(l) THEN base + size ELSE base - size)
      low == Aligned(Wrap(IF Upwards(l) THEN base + (IF PreIndexed(l) THEN 4 ELSE 0)
                          ELSE base - size + (IF PreIndexed(l) THEN 0 ELSE 4)))
      User(q) == banked /\ ByteSized(l) /\ q \in {13, 14}
      Stored(k) == IF s[k] = 15 THEN Wrap(regs[15] + 12)
                   ELSE IF User(s[k]) THEN bank[s[k]]
                   ELSE IF WritesBack(l) /\ s[k] = i.rn /\ k > 1 THEN end
                   ELSE regs[s[k]]
      At(k) == Wrap(low + 4 * (k - 1))
      based == IF WritesBack(l) /\ ~(Loads(l) /\ i.rn \in i.list)
                 THEN [Next4(regs) EXCEPT ![i.rn] = end] ELSE Next4(regs)
      LoadedInto(q) == CHOOSE k \in DOMAIN s : s[k] = q
  IN IF Loads(l)
       THEN Effect([q \in DOMAIN regs |->
              IF q \notin i.list \/ User(q) THEN based[q]
              ELSE IF q = 15 THEN Aligned(Memory[At(LoadedInto(q))])
              ELSE Memory[At(LoadedInto(q))]], <<>>)
       ELSE Effect(based, [k \in DOMAIN s |-> <<At(k), "word", Stored(k)>>])

ArmEffect(i, r, carry, bank, banked) ==
  IF IsSwap(i.label) THEN ArmSwap(i, r)
  ELSE IF IsBlock(i.label) THEN ArmBlock(i, r, bank, banked)
  ELSE ArmSingle(i, r, carry)

(* The Thumb loads and stores, by the high byte of the instruction: hi's    *)
(* bits are 15-8 of it.                                                     *)
Next2(r) == [r EXCEPT ![15] = Wrap(@ + 2)]
ThumbSize(hi) ==
  IF hi \div 16 = 5
    THEN IF Bit(hi, 1) THEN (IF hi \div 2 % 8 = 3 THEN "byte" ELSE "half")
         ELSE IF Bit(hi, 2) THEN "byte" ELSE "word"
  ELSE IF hi \div 16 = 8 THEN "half"
  ELSE IF hi \div 16 = 9 THEN "word" ELSE IF Bit(hi, 4) THEN "byte" ELSE "word"
ThumbSigned(hi) == hi \div 16 = 5 /\ Bit(hi, 1) /\ Bit(hi, 2)
ThumbLoads(hi) == Bit(hi, 3) \/ ThumbSigned(hi)
Scale(size) == CASE size = "byte" -> 1 [] size = "half" -> 2 [] size = "word" -> 4

ThumbSingle(i, r) ==
  LET size == ThumbSize(i.hi)
      sp == i.hi \div 16 = 9
      rd == IF sp THEN i.hi % 8 ELSE i.rd
      addr == Wrap(IF sp THEN r[13] + 4 * i.imm
                   ELSE r[i.rb] + (IF i.hi \div 16 = 5 THEN r[i.ro] ELSE Scale(size) * i.imm))
      value == IF ThumbSigned(i.hi) THEN Signed(size, Memory[addr]) ELSE Low(size, Memory[addr])
  IN IF ThumbLoads(i.hi) THEN Effect([Next2(r) EXCEPT ![rd] = value], <<>>)
     ELSE Effect(Next2(r), <<<<addr, size, Low(size, r[rd])>>>>)

(* PUSH, POP, STMIA and LDMIA are block transfers of r13, or of a low       *)
(* register, always written back.                                           *)
ThumbBlock(i, r) ==
  LET stack == i.hi \div 16 = 11
      push == stack /\ ~Bit(i.hi, 3)
      more == IF stack /\ Bit(i.hi, 0) THEN {IF push THEN 14 ELSE 15} ELSE {}
      arm == [label |-> (IF push THEN \h920 ELSE \h8a0) + (IF Bit(i.hi, 3) THEN \h10 ELSE 0),
              rn |-> IF stack THEN 13 ELSE i.hi % 8, list |-> i.list \cup more]
      e == ArmBlock(arm, r, r, FALSE)
  IN [e EXCEPT !.regs = [@ EXCEPT ![15] =
        IF 15 \in more
          THEN LET s == Ascending(arm.list)
                   w == Memory[Wrap(Aligned(r[13]) + 4 * (Len(s) - 1))]
               IN w - (w % 2)
          ELSE Wrap(r[15] + 2)]]

ThumbEffect(i, r) == IF i.hi \div 16 \in {11, 12} THEN ThumbBlock(i, r) ELSE ThumbSingle(i, r)
=============================================================================
