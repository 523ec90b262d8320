----------------------------- MODULE ThumbStore ------------------------------
(* emuInstrTHUMB (recompiler.cpp): the Thumb loads and stores, switched on  *)
(* by the high byte of the instruction.                                     *)
EXTENDS ArmCore

ThumbCases(op, his) == {[hi |-> h, op |-> op] : h \in his}

RegisterOffset ==
  ThumbCases("str", {\h50, \h51}) \cup ThumbCases("strh", {\h52, \h53})
  \cup ThumbCases("strb", {\h54, \h55}) \cup ThumbCases("ldrsb", {\h56, \h57})
  \cup ThumbCases("ldr", {\h58, \h59}) \cup ThumbCases("ldrh", {\h5a, \h5b})
  \cup ThumbCases("ldrb", {\h5c, \h5d}) \cup ThumbCases("ldrsh", {\h5e, \h5f})
ImmediateOffset ==
  ThumbCases("str", \h60 .. \h67) \cup ThumbCases("ldr", \h68 .. \h6f)
  \cup ThumbCases("strb", \h70 .. \h77) \cup ThumbCases("ldrb", \h78 .. \h7f)
  \cup ThumbCases("strh", \h80 .. \h87) \cup ThumbCases("ldrh", \h88 .. \h8f)
StackOffset == ThumbCases("str", \h90 .. \h97) \cup ThumbCases("ldr", \h98 .. \h9f)
Singles == RegisterOffset \cup ImmediateOffset \cup StackOffset

ThumbWidth(op) == CASE op \in {"str", "ldr"} -> "word"
                    [] op \in {"strh", "ldrh", "ldrsh"} -> "half"
                    [] op \in {"strb", "ldrb", "ldrsb"} -> "byte"
ThumbRead(op, a) == IF op \in {"ldrsb", "ldrsh"} THEN Signed(ThumbWidth(op), Memory[a])
                    ELSE Low(ThumbWidth(op), Memory[a])

(* (opcode >> 6) & 31, shifted by the width of the access.                  *)
ThumbAddress(c, i, r) ==
  Wrap(CASE c.hi < \h60 -> r[i.rb] + r[i.ro]
         [] c.hi \in \h60 .. \h6f -> r[i.rb] + i.imm * 4
         [] c.hi \in \h70 .. \h7f -> r[i.rb] + i.imm
         [] c.hi \in \h80 .. \h8f -> r[i.rb] + i.imm * 2
         [] c.hi \in \h90 .. \h9f -> r[13] + i.imm * 4)

Single(c, i, r) ==
  LET a == ThumbAddress(c, i, r)
      rd == IF c.hi >= \h90 THEN c.hi % 8 ELSE i.rd
  IN IF c.op \in {"str", "strh", "strb"}
       THEN Effect(r, <<<<a, ThumbWidth(c.op), Low(ThumbWidth(c.op), r[rd])>>>>)
       ELSE Effect([r EXCEPT ![rd] = ThumbRead(c.op, a)], <<>>)

(* The words of a list from an address up, and what they load into it.      *)
StoresOf(s, a, r) == [k \in DOMAIN s |-> <<Wrap(a + 4 * (k - 1)), "word", r[s[k]]>>]
LoadsOf(s, a, r) ==
  [q \in DOMAIN r |-> IF \E k \in DOMAIN s : s[k] = q
     THEN Memory[Wrap(a + 4 * ((CHOOSE k \in DOMAIN s : s[k] = q) - 1))] ELSE r[q]]

(* PUSH_myregs: the stack pointer moves after the words are stored.         *)
Push(i, r) ==
  LET s == Ascending(i.list) \o (IF i.hi = \hb5 THEN <<14>> ELSE <<>>)
      temp == Wrap(r[13] - 4 * Len(s))
  IN Effect([r EXCEPT ![13] = temp], StoresOf(s, Aligned(temp), r))

(* POP_myregs, and r15 behind them with its lowest bit cleared.             *)
Pop(i, r) ==
  LET s == Ascending(i.list)
      n == Len(s) + (IF i.hi = \hbd THEN 1 ELSE 0)
      loaded == LoadsOf(s, Aligned(r[13]), r)
      pc == Memory[Wrap(Aligned(r[13]) + 4 * Len(s))]
  IN Effect([loaded EXCEPT ![13] = Wrap(r[13] + 4 * n),
                           ![15] = IF i.hi = \hbd THEN Wrap((pc - (pc % 2)) + 4) ELSE @], <<>>)

(* As ThumbStm, with the base written back before the first word is stored. *)
ThumbStmLate(i, r) ==
  LET s == Ascending(i.list)
      after == [r EXCEPT ![i.hi % 8] = Wrap(@ + 4 * Len(s))]
  IN Effect(after, StoresOf(s, Aligned(r[i.hi % 8]), after))

(* THUMB_STM_myregs writes the base back with the first word stored,        *)
(* THUMB_LDM_myregs at the end, unless the base was loaded.                 *)
ThumbStm(i, r) ==
  LET s == Ascending(i.list)
      b == i.hi % 8
      after == IF s = <<>> THEN r ELSE [r EXCEPT ![b] = Wrap(@ + 4 * Len(s))]
      words == StoresOf(s, Aligned(r[b]), after)
  IN Effect(after, IF s = <<>> THEN words ELSE [words EXCEPT ![1][3] = r[s[1]]])
ThumbLdm(i, r) ==
  LET s == Ascending(i.list)
      b == i.hi % 8
      loaded == LoadsOf(s, Aligned(r[b]), r)
  IN Effect(IF b \in i.list THEN loaded
            ELSE [loaded EXCEPT ![b] = Wrap(r[b] + 4 * Len(s))], <<>>)

ThumbBody(i, r) ==
  CASE i.hi \in {\hb4, \hb5} -> Push(i, r)
    [] i.hi \in {\hbc, \hbd} -> Pop(i, r)
    [] i.hi \in \hc0 .. \hc7 -> ThumbStm(i, r)
    [] i.hi \in \hc8 .. \hcf -> ThumbLdm(i, r)
    [] OTHER -> Single(CHOOSE c \in Singles : c.hi = i.hi, i, r)

(* itisTHUMB (ex_s.s): r15 is six past the instruction for the body, and    *)
(* four less is where the game goes on.                                     *)
AbortTHUMB(i, regs) ==
  LET e == ThumbBody(i, [regs EXCEPT ![15] = Wrap(@ + 8 - 2)])
  IN [e EXCEPT !.regs = [@ EXCEPT ![15] = Wrap(@ - 4)]]
=============================================================================
