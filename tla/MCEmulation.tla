---------------------------- MODULE MCEmulation ------------------------------
(* Instances for TLC of what the game sees: its loads and stores, with      *)
(* words of eight bits, two low registers, the stack pointer and the        *)
(* program counter; the bus behind them; and the calls of the BIOS.  A       *)
(* behaviour is about one.                                                  *)
EXTENDS Emulation, Bus, Bios

VARIABLE part
MCInit ==
  /\ part \in {"instructions", "bus", "bios"}
  /\ EmulationInit /\ BusInit /\ BiosInit
  /\ part # "bus" => focus = ChipAt /\ cpuSaveType = 0
  /\ part # "instructions" =>
       regs = (CHOOSE r \in RegisterSets : TRUE) /\ ~banked /\ carry = 0
MCNext ==
  /\ \/ part = "instructions" /\ EmulationNext /\ UNCHANGED <<busVars, biosVars>>
     \/ part = "bus" /\ BusNext /\ UNCHANGED <<emulationVars, biosVars>>
     \/ part = "bios" /\ BiosNext /\ UNCHANGED <<emulationVars, busVars>>
  /\ UNCHANGED part
MCSpec == MCInit /\ [][MCNext]_<<part, emulationVars, busVars, biosVars>>

MCMemory == [a \in 0 .. 255 |-> (a * 37 + 11) % 256]
MCOperands == {0, 1, 13, 15}
MCLists == SUBSET {0, 1, 13, 15} \ {{}}
MCImmediates == {0, 1, 3}
MCRegisterSets == {
  (0 :> 133) @@ (1 :> 6) @@ (13 :> 250) @@ (14 :> 77) @@ (15 :> 64),
  (0 :> 2) @@ (1 :> 203) @@ (13 :> 4) @@ (14 :> 129) @@ (15 :> 244)}
MCUserBank == (13 :> 90) @@ (14 :> 91)

(* Addresses at both ends of each space and of the blocks of VRAM, beside  *)
(* each other, in mirrors, and of every kind of register.                  *)
MCWrittenAt ==
  UNION {{At(r, off) : off \in {0, 3, 6, 8}} \X Widths : r \in Mirrored}
    \cup {At(6, off) : off \in {3, 14, 16, 19, 20, 23, 24, 29, 33, 54}} \X Widths
    \cup {At(4, off) : off \in {4, 5, 8, 9, 10, 11, 12, 13, 16, 17, 19}} \X {1, 2}
    \cup {At(4, off) : off \in {8, 14, 16}} \X {4}
    \cup {At(8, 4), At(8, 0), At(13, 0), At(13, 2), At(14, 0)} \X Widths

(* The calls: data of every way of packing a few bytes, cut short or not,   *)
(* trees of every shape a few symbols have, copies apart, overlapping and   *)
(* backwards, and every combination of resets.                              *)
Unpack(swi, plain, len) ==
  [swi |-> swi, plain |-> plain, len |-> len, dest |-> 8, inBios |-> FALSE]
Lists1To(n, set) == UNION {[1 .. k -> set] : k \in 1 .. n}
WellFormed(ts) ==
  \A k \in DOMAIN ts : IsCopy(ts[k]) => ts[k][1] <= Len(LzPlain(SubSeq(ts, 1, k - 1)))
LongLz == <<Lit(1), Lit(2), Lit(3), Lit(4), Copy(4, 5), Lit(6), Lit(7), Copy(2, 3), Copy(7, 4), Lit(9)>>
NineLits == [k \in 1 .. 9 |-> Lit(k)]
LzLists ==
  {ts \in Lists1To(4, {Lit(17), Lit(34), Copy(1, 3), Copy(2, 3), Copy(3, 4)}) :
     ts[1] = Lit(17) /\ WellFormed(ts)} \cup {LongLz, NineLits}
RlLists == Lists1To(3, {<<3, 7>>, <<4, 9>>, <<0, 5>>, <<0, 6, 8>>})
Trees == {
  << <<1>>, <<2>> >>, << <<1>>, << <<2>>, <<3>> >> >>, << << <<1>>, <<2>> >>, <<3>> >>,
  << << <<1>>, << <<2>>, <<3>> >> >>, << <<4>>, <<5>> >> >>,
  << << << <<1>>, <<2>> >>, << <<3>>, <<4>> >> >>, << <<5>>, <<6>> >> >>}
RECURSIVE Leaves(_)
Leaves(t) == IF IsLeaf(t) THEN t ELSE Leaves(t[1]) \o Leaves(t[2])
Symbols(n, t) == [k \in 1 .. n |-> Leaves(t)[((k * k) % Len(Leaves(t))) + 1]]
HuffCall(t, n, bits) ==
  Unpack("HuffUnComp", Symbols(IF bits = 8 THEN n ELSE 2 * n, t), n) @@ [tree |-> t, bits |-> bits]
UnitsCall(n, bits, size, base, add) ==
  Unpack("BitUnPack", [k \in 1 .. n * (8 \div bits) |-> (k * k + (k \div 3)) % TwoTo(bits)], n)
    @@ [bits |-> bits, dataSize |-> size, base |-> base, addBase |-> add]
MCBiosCalls ==
  {Unpack(swi, ts, Len(LzPlain(ts)) - cut) :
     swi \in {"LZ77UnCompWram", "LZ77UnCompVram"}, ts \in LzLists, cut \in {0, 1}}
  \cup {Unpack(swi, ps, Len(RlPlain(ps)) - cut) :
          swi \in {"RLUnCompWram", "RLUnCompVram"}, ps \in RlLists, cut \in {0, 1}}
  \cup {Unpack(swi, p, Len(p)) :
          swi \in {"Diff8bitUnFilterWram", "Diff8bitUnFilterVram"}, p \in Lists1To(3, {0, 100, 255})}
  \cup {Unpack("Diff16bitUnFilter", p, 2 * Len(p)) : p \in Lists1To(3, {0, 300, 65535})}
  \cup {HuffCall(t, n, bits) : t \in Trees, n \in {4, 8, 24}, bits \in {4, 8}}
  \cup {UnitsCall(n, bits, size, 0, FALSE) :
          n \in {1, 3, 4}, bits \in {1, 2, 4, 8}, size \in {8, 16, 32}}
  \cup {UnitsCall(n, bits, 4, 0, FALSE) : n \in {3, 4}, bits \in {1, 2, 4}}
  \cup {UnitsCall(n, bits, size, base, add) :
          n \in {3, 4}, bits \in {1, 2, 4}, size \in {8, 16}, base \in {3, 200}, add \in BOOLEAN}
  \cup [swi : {"CpuSet"}, source : {8, 12, 16}, dest : {4, 8, 16, 20, 24}, count : {0, 1, 4, 5},
        word : BOOLEAN, fill : BOOLEAN, inBios : BOOLEAN]
  \cup [swi : {"CpuFastSet"}, source : {2, 36}, dest : {4, 32, 36}, count : {1, 8, 9},
        fill : BOOLEAN, inBios : {FALSE}]
  \cup [swi : {"Div", "DivARM"}, number : {-7, -1, 0, 5, 6}, denom : {-3, -1, 0, 1, 4}]
  \cup [swi : {"RegisterRamReset"}, flags : SUBSET {0, 1, 2, 5, 6, 7}]
  \cup {[swi |-> "SoftReset"], [Unpack("LZ77UnCompWram", NineLits, 9) EXCEPT !.inBios = TRUE]}
MCBiosRams == {[a \in 0 .. 191 |-> (7 * a + 3) % 256]}
=============================================================================
