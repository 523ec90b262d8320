------------------------------ MODULE LoadStore ------------------------------
(* emuInstrARM (recompiler.cpp): the game runs on the ARM9 itself, and a    *)
(* load or store that the protection unit refuses raises a data abort,      *)
(* whose handler carries the instruction out on the registers it saved.     *)
(* The switch has a case for every encoding, written out one by one: each   *)
(* group of them is a set of cases here, and the bodies they share are the  *)
(* operators Store, Load, Swap, StoreBlock and LoadBlock.                   *)
EXTENDS ArmCore

(* The index bits of a case, as its body spells them out.                   *)
PostDown  == [pre |-> FALSE, up |-> FALSE, back |-> TRUE]
PostUp    == [pre |-> FALSE, up |-> TRUE, back |-> TRUE]
OffDown   == [pre |-> TRUE, up |-> FALSE, back |-> FALSE]
PreDown   == [pre |-> TRUE, up |-> FALSE, back |-> TRUE]
OffUp     == [pre |-> TRUE, up |-> TRUE, back |-> FALSE]
PreUp     == [pre |-> TRUE, up |-> TRUE, back |-> TRUE]

Cases(op, index, labels) == {[label |-> l, op |-> op, index |-> index] : l \in labels}
(* Cases with a shifted register, one per kind of shift (and bit 7 of it).  *)
Shifts(l) == {l + 2 * k : k \in 0 .. 7}

StrhCases ==
  Cases("strh", PostDown, {\h00b, \h02b, \h04b, \h06b})
  \cup Cases("strh", PostUp, {\h08b, \h0ab, \h0cb, \h0eb})
  \cup Cases("strh", OffDown, {\h10b, \h14b}) \cup Cases("strh", PreDown, {\h12b, \h16b})
  \cup Cases("strh", OffUp, {\h18b, \h1cb}) \cup Cases("strh", PreUp, {\h1ab, \h1eb})

LdrhPost ==
  Cases("ldrh", PostDown, {\h01b, \h03b, \h05b, \h07b})
  \cup Cases("ldrh", PostUp, {\h09b, \h0bb, \h0db, \h0fb})
LdrhPre ==
  Cases("ldrh", OffDown, {\h11b, \h15b}) \cup Cases("ldrh", PreDown, {\h13b, \h17b})
  \cup Cases("ldrh", OffUp, {\h19b, \h1db}) \cup Cases("ldrh", PreUp, {\h1bb, \h1fb})

LdrsbPost ==
  Cases("ldrsb", PostDown, {\h01d, \h03d, \h05d, \h07d})
  \cup Cases("ldrsb", PostUp, {\h09d, \h0bd, \h0dd, \h0fd})
LdrsbPre ==
  Cases("ldrsb", OffDown, {\h11d, \h15d}) \cup Cases("ldrsb", PreDown, {\h13d, \h17d})
  \cup Cases("ldrsb", OffUp, {\h19d, \h1dd}) \cup Cases("ldrsb", PreUp, {\h1bd, \h1fd})

LdrshPost ==
  Cases("ldrsh", PostDown, {\h01f, \h03f, \h05f, \h07f})
  \cup Cases("ldrsh", PostUp, {\h09f, \h0bf, \h0df, \h0ff})
LdrshPre ==
  Cases("ldrsh", OffDown, {\h11f, \h15f}) \cup Cases("ldrsh", PreDown, {\h13f, \h17f})
  \cup Cases("ldrsh", OffUp, {\h19f, \h1df}) \cup Cases("ldrsh", PreUp, {\h1bf, \h1ff})

SwpCases == Cases("swp", OffUp, {\h109}) \cup Cases("swpb", OffUp, {\h149})

StrImm ==
  Cases("str", PostDown, {\h400, \h420}) \cup Cases("str", PostUp, {\h480, \h4a0})
  \cup Cases("str", OffDown, {\h500}) \cup Cases("str", PreDown, {\h520})
  \cup Cases("str", OffUp, {\h580}) \cup Cases("str", PreUp, {\h5a0})
LdrImm ==
  Cases("ldr", PostDown, {\h410, \h430}) \cup Cases("ldr", PostUp, {\h490, \h4b0})
  \cup Cases("ldr", OffDown, {\h510}) \cup Cases("ldr", PreDown, {\h530})
  \cup Cases("ldr", OffUp, {\h590}) \cup Cases("ldr", PreUp, {\h5b0})
StrbImm ==
  Cases("strb", PostDown, {\h440, \h460}) \cup Cases("strb", PostUp, {\h4c0, \h4e0})
  \cup Cases("strb", OffDown, {\h540})
StrbImmPre ==
  Cases("strb", PreDown, {\h560}) \cup Cases("strb", OffUp, {\h5c0})
  \cup Cases("strb", PreUp, {\h5e0})
LdrbImm ==
  Cases("ldrb", PostDown, {\h450, \h470}) \cup Cases("ldrb", PostUp, {\h4d0, \h4f0})
  \cup Cases("ldrb", OffDown, {\h550}) \cup Cases("ldrb", PreDown, {\h570})
  \cup Cases("ldrb", OffUp, {\h5d0}) \cup Cases("ldrb", PreUp, {\h5f0})

StrbRegPostUpSigned == Cases("strb", PostUp, {\h6c4, \h6cc, \h6e4, \h6ec, \h6c6, \h6ce, \h6e6, \h6ee})
StrbRegPost ==
  Cases("strb", PostDown, Shifts(\h640) \cup Shifts(\h660))
  \cup Cases("strb", PostUp, {\h6c0, \h6c8, \h6e0, \h6e8, \h6c2, \h6ca, \h6e2, \h6ea})
StrbRegDown == Cases("strb", OffDown, Shifts(\h740)) \cup Cases("strb", PreDown, Shifts(\h760))
StrbRegUp   == Cases("strb", OffUp, Shifts(\h7c0)) \cup Cases("strb", PreUp, Shifts(\h7e0))

LdrbRegPostDown == Cases("ldrb", PostDown, Shifts(\h650) \cup Shifts(\h670))
LdrbRegPostUp   == Cases("ldrb", PostUp, Shifts(\h6d0) \cup Shifts(\h6f0))
LdrbRegOffDown  == Cases("ldrb", OffDown, Shifts(\h750))
LdrbRegPreDown  == Cases("ldrb", PreDown, Shifts(\h770))
LdrbRegOffUp    == Cases("ldrb", OffUp, Shifts(\h7d0))
LdrbRegPreUp    == Cases("ldrb", PreUp, Shifts(\h7f0))

LdrRegPostDown == Cases("ldr", PostDown, Shifts(\h610) \cup Shifts(\h630))
LdrRegPostUp   == Cases("ldr", PostUp, Shifts(\h690) \cup Shifts(\h6b0))
LdrRegOffDown  == Cases("ldr", OffDown, Shifts(\h710))
LdrRegPreDown  == Cases("ldr", PreDown, Shifts(\h730))
LdrRegOffUp    == Cases("ldr", OffUp, Shifts(\h790))
LdrRegPreUp    == Cases("ldr", PreUp, Shifts(\h7b0))

StrRegPostDown == Cases("str", PostDown, Shifts(\h600) \cup Shifts(\h620))
StrRegPostUp   == Cases("str", PostUp, Shifts(\h680) \cup Shifts(\h6a0))
StrRegDown     == Cases("str", OffDown, Shifts(\h700)) \cup Cases("str", PreDown, Shifts(\h720))
StrRegUp       == Cases("str", OffUp, Shifts(\h780)) \cup Cases("str", PreUp, Shifts(\h7a0))

(* Block transfers: pre says whether the first word lies past the base.     *)
StmDa == Cases("stm", PostDown, {\h820, \h860})
         \cup Cases("stm", [PostDown EXCEPT !.back = FALSE], {\h800, \h840})
StmIa == Cases("stm", PostUp, {\h8a0, \h8e0})
         \cup Cases("stm", [PostUp EXCEPT !.back = FALSE], {\h880, \h8c0})
StmDb == Cases("stm", PreDown, {\h920, \h960}) \cup Cases("stm", OffDown, {\h900, \h940})
StmIb == Cases("stm", PreUp, {\h9a0, \h9e0}) \cup Cases("stm", OffUp, {\h980, \h9c0})

LdmDa == Cases("ldm", PostDown, {\h830})
         \cup Cases("ldm", [PostDown EXCEPT !.back = FALSE], {\h810})
LdmDaUser == Cases("ldm", PostDown, {\h870})
             \cup Cases("ldm", [PostDown EXCEPT !.back = FALSE], {\h850})
LdmIa == Cases("ldm", PostUp, {\h8b0})
         \cup Cases("ldm", [PostUp EXCEPT !.back = FALSE], {\h890})
LdmIaUser == Cases("ldm", PostUp, {\h8f0})
             \cup Cases("ldm", [PostUp EXCEPT !.back = FALSE], {\h8d0})
LdmDb == Cases("ldm", PreDown, {\h930}) \cup Cases("ldm", OffDown, {\h910})
LdmDbUser == Cases("ldm", PreDown, {\h970}) \cup Cases("ldm", OffDown, {\h950})
LdmIb == Cases("ldm", PreUp, {\h9b0}) \cup Cases("ldm", OffUp, {\h990})
LdmIbUser == Cases("ldm", PreUp, {\h9f0}) \cup Cases("ldm", OffUp, {\h9d0})

Table == UNION {StrhCases, LdrhPost, LdrhPre, LdrsbPost, LdrsbPre, LdrshPost, LdrshPre,
  SwpCases, StrImm, LdrImm, StrbImm, StrbImmPre, LdrbImm, StrbRegPostUpSigned, StrbRegPost,
  StrbRegDown, StrbRegUp, LdrbRegPostDown, LdrbRegPostUp, LdrbRegOffDown, LdrbRegPreDown,
  LdrbRegOffUp, LdrbRegPreUp, LdrRegPostDown, LdrRegPostUp, LdrRegOffDown, LdrRegPreDown,
  LdrRegOffUp, LdrRegPreUp, StrRegPostDown, StrRegPostUp, StrRegDown, StrRegUp,
  StmDa, StmIa, StmDb, StmIb, LdmDa, LdmDaUser, LdmIa, LdmIaUser, LdmDb, LdmDbUser,
  LdmIb, LdmIbUser}

(* ROR_VALUE, RCR_VALUE and the shifts of the bodies.  C_FLAG is the        *)
(* emulator's own flag, cleared at start and never given the game's.        *)
C_FLAG == 0
Shifted(l, shift, v) ==
  CASE l % 8 = 0 -> Wrap(v * 2 ^ shift)
    [] l % 8 = 2 -> IF shift > 0 THEN v \div 2 ^ shift ELSE 0
    [] l % 8 = 4 -> IF shift > 0 THEN Wrap((v - TopBit(v) * 2 ^ WordBits) \div 2 ^ shift)
                    ELSE IF TopBit(v) = 1 THEN 2 ^ WordBits - 1 ELSE 0
    [] l % 8 = 6 -> IF shift > 0 THEN Wrap(v * 2 ^ (WordBits - shift)) + v \div 2 ^ shift
                    ELSE v \div 2 + C_FLAG * 2 ^ (WordBits - 1)
Offset(c, i, r) ==
  IF c.label >= \h600 THEN Shifted(c.label, i.imm, r[i.rm])
  ELSE IF c.label < \h200 /\ c.label % \h80 < \h40 THEN r[i.rm] ELSE i.imm

Width(op) == CASE op \in {"str", "ldr", "swp"} -> "word"
               [] op \in {"strh", "ldrh", "ldrsh"} -> "half"
               [] op \in {"strb", "ldrb", "ldrsb", "swpb"} -> "byte"
CPURead(op, a) == IF op \in {"ldrsb", "ldrsh"} THEN Signed(Width(op), Memory[a])
                  ELSE Low(Width(op), Memory[a])

Moved(c, base, off) == Wrap(IF c.index.up THEN base + off ELSE base - off)

(* A store: str and strb with the base moved first write the base back      *)
(* before they read the register to store; every other one after.           *)
Store(c, i, r) ==
  LET moved == Moved(c, r[i.rn], Offset(c, i, r))
      addr == IF c.index.pre THEN moved ELSE r[i.rn]
      after == IF c.index.back THEN [r EXCEPT ![i.rn] = moved] ELSE r
      from == IF c.index.pre /\ c.op # "strh" THEN after ELSE r
  IN Effect(after, <<<<addr, Width(c.op), Low(Width(c.op), from[i.rd])>>>>)

(* As Load, with a base that is written back over what was loaded into it.  *)
LoadUnderBase(c, i, r) ==
  LET moved == Moved(c, r[i.rn], Offset(c, i, r))
      loaded == [r EXCEPT ![i.rd] = CPURead(c.op, IF c.index.pre THEN moved ELSE r[i.rn])]
      based == IF c.index.back THEN [loaded EXCEPT ![i.rn] = moved] ELSE loaded
  IN Effect(IF i.rd = 15 THEN [based EXCEPT ![15] = Wrap(Aligned(@) + 4)] ELSE based, <<>>)

(* A load: the base is written back unless it was loaded; a loaded r15 is   *)
(* aligned and four ahead, as the handler's return expects.                 *)
Load(c, i, r) ==
  LET moved == Moved(c, r[i.rn], Offset(c, i, r))
      loaded == [r EXCEPT ![i.rd] = CPURead(c.op, IF c.index.pre THEN moved ELSE r[i.rn])]
      based == IF c.index.back /\ i.rd # i.rn THEN [loaded EXCEPT ![i.rn] = moved]
               ELSE loaded
  IN Effect(IF i.rd = 15 THEN [based EXCEPT ![15] = Wrap(Aligned(@) + 4)] ELSE based, <<>>)

Swap(c, i, r) ==
  Effect([r EXCEPT ![i.rd] = CPURead(c.op, r[i.rn])],
         <<<<r[i.rn], Width(c.op), Low(Width(c.op), r[i.rm])>>>>)

(* Where a block transfer starts and where it leaves the base (temp).       *)
Temp(c, i, r) == Moved(c, r[i.rn], 4 * Cardinality(i.list))
BlockStart(c, i, r) ==
  Aligned(IF c.index.up THEN (IF c.index.pre THEN Wrap(r[i.rn] + 4) ELSE r[i.rn])
          ELSE IF c.index.pre THEN Temp(c, i, r) ELSE Wrap(Temp(c, i, r) + 4))

(* STM_myregs, STMW_myregs: the base is written back after the first word.  *)
(* The branches of the user's bank need another armMode than the one set at *)
(* start, which nothing changes.                                            *)
StoreBlock(c, i, r) ==
  LET s == Ascending(i.list)
      temp == Temp(c, i, r)
      after == IF c.index.back /\ s # <<>> THEN [r EXCEPT ![i.rn] = temp] ELSE r
      From(k) == IF k = 1 THEN r ELSE after
      Value(k) == IF s[k] = 15 THEN Wrap(From(k)[15] + 4) ELSE From(k)[s[k]]
  IN Effect(after, [k \in DOMAIN s |->
              <<Wrap(BlockStart(c, i, r) + 4 * (k - 1)), "word", Value(k)>>])

(* LDM_myregs, and the r15 of the list after them.                          *)
LoadBlock(c, i, r) ==
  LET s == Ascending(i.list)
      Loaded(q) == Memory[Wrap(BlockStart(c, i, r) + 4 * (CHOOSE k \in DOMAIN s : s[k] = q) - 4)]
      all == [q \in DOMAIN r |->
                IF q \notin i.list THEN r[q]
                ELSE IF q = 15 THEN Wrap(Loaded(15) + 4) ELSE Loaded(q)]
  IN Effect(IF c.index.back /\ i.rn \notin i.list
              THEN [all EXCEPT ![i.rn] = Temp(c, i, r)] ELSE all, <<>>)

Body(c, i, r) ==
  CASE c.op \in {"str", "strb", "strh"} -> Store(c, i, r)
    [] c.op \in {"ldr", "ldrb", "ldrh", "ldrsb", "ldrsh"} -> Load(c, i, r)
    [] c.op \in {"swp", "swpb"} -> Swap(c, i, r)
    [] c.op = "stm" -> StoreBlock(c, i, r)
    [] c.op = "ldm" -> LoadBlock(c, i, r)

(* inter_data (ex_s.s): the abort leaves r15 eight past the instruction,    *)
(* and subs pc, lr, #4 resumes four before what the body left there.  An    *)
(* instruction without a case stops the machine where it is.                *)
Resumed(e) == [e EXCEPT !.regs = [@ EXCEPT ![15] = Aligned(Wrap(@ - 4))]]
AbortARM(i, regs) ==
  LET cases == {t \in Table : t.label = i.label}
  IN IF cases = {} THEN Effect(regs, <<>>)
     ELSE Resumed(Body(CHOOSE t \in cases : TRUE, i, [regs EXCEPT ![15] = Wrap(@ + 8)]))
=============================================================================
