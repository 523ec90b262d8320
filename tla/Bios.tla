--------------------------------- MODULE Bios -------------------------------
(* The BIOS calls of bios.cpp that copy, unpack and clear: what a game that *)
(* hands them packed data finds in memory afterwards.  The packed data are  *)
(* in the cartridge; what they are made from, the call's plain data, is     *)
(* what the GBA's own BIOS makes of them.  Memory is the internal RAM, byte *)
(* by byte, of which the last TopSize are the stacks' and the BIOS's own.   *)
EXTENDS Integers, Sequences
LOCAL INSTANCE SequencesExt
LOCAL INSTANCE TLC

CONSTANTS
  RamSize, TopSize,
  BiosRams,        \* bound: what the RAM may hold before
  BiosCalls        \* bound: the calls a game makes

ASSUME BiosAssumption ==
  /\ {RamSize, TopSize} \subseteq Nat /\ 6 <= TopSize /\ TopSize <= RamSize

VARIABLES
  ram,     \* the internal RAM
  spaces,  \* the other memories the last reset cleared
  io,      \* what was last written to each register
  R,       \* the registers 0, 1 and 3
  entry,   \* where the game goes on: behind the call, at its start, in work RAM
  call     \* the call made
biosVars == <<ram, spaces, io, R, entry, call>>
-----------------------------------------------------------------------------
(* The formats, from plain to packed: tokens of a literal or a copy of n    *)
(* bytes from dist back in groups of 8 under a byte of flags; runs and raw  *)
(* pieces; symbols of a tree of 4 or 8 bits; differences; units of bits.    *)
Lit(b) == <<b>>
Copy(dist, n) == <<dist, n>>
IsCopy(t) == Len(t) = 2
TwoTo(n) == 2 ^ n
BitsLow(v, n) == [k \in 1 .. n |-> IF k > 24 THEN 0 ELSE (v \div TwoTo(k - 1)) % 2]
ValueOf(bits) == FoldRight(LAMBDA b, v : b + 2 * v, bits, 0)
Chunks(s, n) ==
  [k \in 1 .. (Len(s) + n - 1) \div n |->
     SubSeq(s, n * (k - 1) + 1, IF n * k < Len(s) THEN n * k ELSE Len(s))]

LzToken(t) ==
  IF IsCopy(t) THEN <<16 * (t[2] - 3) + ((t[1] - 1) \div 256), (t[1] - 1) % 256>> ELSE t
LzGroup(ts) ==
  <<ValueOf([k \in 1 .. 8 |-> IF 9 - k <= Len(ts) /\ IsCopy(ts[9 - k]) THEN 1 ELSE 0])>>
    \o FlattenSeq([k \in DOMAIN ts |-> LzToken(ts[k])])
LzPacked(ts) == FlattenSeq([k \in DOMAIN Chunks(ts, 8) |-> LzGroup(Chunks(ts, 8)[k])])
LzPlain(ts) ==
  FoldLeft(LAMBDA o, t :
             o \o (IF IsCopy(t)
                     THEN [k \in 1 .. t[2] |-> o[Len(o) - t[1] + 1 + ((k - 1) % t[1])]]
                     ELSE t), <<>>, ts)

(* A piece is the number of times and the byte, or zero and the bytes.      *)
RlPacked(ps) ==
  FlattenSeq([k \in DOMAIN ps |->
    IF ps[k][1] > 0 THEN <<128 + ps[k][1] - 3, ps[k][2]>>
    ELSE <<Len(ps[k]) - 2>> \o Tail(ps[k])])
RlPlain(ps) ==
  FlattenSeq([k \in DOMAIN ps |->
    IF ps[k][1] > 0 THEN [i \in 1 .. ps[k][1] |-> ps[k][2]] ELSE Tail(ps[k])])

(* A tree is a symbol, or the trees below bit 0 and bit 1.  The pairs of    *)
(* nodes are laid out breadth first, the data from the words' top bits down.*)
IsLeaf(tree) == Len(tree) = 1
RECURSIVE Nodes(_)
Nodes(queue) ==
  IF queue = <<>> THEN <<>>
  ELSE <<Head(queue)>>
         \o Nodes(Tail(queue) \o SelectSeq(Head(queue), LAMBDA t : ~IsLeaf(t)))
NodeByte(nodes, j, q) ==
  (IF q = 1 THEN 0 ELSE q - j - 1)
    + (IF IsLeaf(nodes[q][1]) THEN 128 ELSE 0) + (IF IsLeaf(nodes[q][2]) THEN 64 ELSE 0)
(* The place in the queue of a pair's node: the roots before it are counted.*)
PlaceInQueue(nodes, j, side) ==
  LET inner(n) == SelectSeq(n, LAMBDA t : ~IsLeaf(t))
  IN 1 + Len(FlattenSeq([k \in 1 .. j - 1 |-> inner(nodes[k])]))
       + Len(inner(SubSeq(nodes[j], 1, side)))
HuffTable(tree) ==
  LET nodes == Nodes(<<tree>>)
      pair(j) == [side \in 1 .. 2 |->
                    IF IsLeaf(nodes[j][side]) THEN nodes[j][side][1]
                    ELSE NodeByte(nodes, j, PlaceInQueue(nodes, j, side))]
      size == Len(nodes) + 1 - (Len(nodes) % 2)
  IN <<size, NodeByte(nodes, 1, 1)>> \o FlattenSeq([j \in DOMAIN nodes |-> pair(j)])
       \o [k \in 1 .. 2 * (size - Len(nodes)) |-> 0]
RECURSIVE CodeOf(_, _)
CodeOf(tree, x) ==       \* the path to a symbol; <<2>> when it is not there
  IF IsLeaf(tree) THEN IF tree[1] = x THEN <<>> ELSE <<2>>
  ELSE LET below == CodeOf(tree[1], x)
       IN IF 2 \in {below[k] : k \in DOMAIN below} THEN <<1>> \o CodeOf(tree[2], x)
          ELSE <<0>> \o below
HuffData(tree, symbols) ==
  LET bits == FlattenSeq([k \in DOMAIN symbols |-> CodeOf(tree, symbols[k])])
      words == Chunks(bits, 32)
      bit(w, k) == IF k <= Len(words[w]) THEN words[w][k] ELSE 0
      byte(w, b) == ValueOf([k \in 1 .. 8 |-> bit(w, 32 - 8 * b + 9 - k)])
  IN FlattenSeq([w \in DOMAIN words |-> [b \in 1 .. 4 |-> byte(w, b)]])
HuffPlain(bits, symbols) ==
  IF bits = 8 THEN symbols
  ELSE [k \in 1 .. Len(symbols) \div 2 |-> symbols[2 * k - 1] + 16 * symbols[2 * k]]

Differences(plain, modulus) ==
  [k \in DOMAIN plain |-> IF k = 1 THEN plain[1] ELSE (plain[k] - plain[k - 1]) % modulus]
BytesOfHalves(hs) == FlattenSeq([k \in DOMAIN hs |-> <<hs[k] % 256, hs[k] \div 256>>])
UnitsPacked(c) ==
  LET bits == FlattenSeq([k \in DOMAIN c.plain |-> BitsLow(c.plain[k], c.bits)])
  IN [k \in DOMAIN Chunks(bits, 8) |-> ValueOf(Chunks(bits, 8)[k])]
UnitsPlain(c) ==
  LET moved(u) == IF u # 0 \/ c.addBase THEN u + c.base ELSE 0
      bits == FlattenSeq([k \in DOMAIN c.plain |-> BitsLow(moved(c.plain[k]), c.dataSize)])
  IN [k \in 1 .. 4 * (Len(bits) \div 32) |-> ValueOf(SubSeq(bits, 8 * k - 7, 8 * k))]

Packed(c) ==
  CASE c.swi \in {"LZ77UnCompWram", "LZ77UnCompVram"} -> LzPacked(c.plain)
    [] c.swi \in {"RLUnCompWram", "RLUnCompVram"} -> RlPacked(c.plain)
    [] c.swi = "HuffUnComp" -> HuffTable(c.tree) \o HuffData(c.tree, c.plain)
    [] c.swi \in {"Diff8bitUnFilterWram", "Diff8bitUnFilterVram"} -> Differences(c.plain, 256)
    [] c.swi = "Diff16bitUnFilter" -> BytesOfHalves(Differences(c.plain, 65536))
    [] c.swi = "BitUnPack" -> UnitsPacked(c)
Plain(c) ==
  CASE c.swi \in {"LZ77UnCompWram", "LZ77UnCompVram"} -> LzPlain(c.plain)
    [] c.swi \in {"RLUnCompWram", "RLUnCompVram"} -> RlPlain(c.plain)
    [] c.swi = "HuffUnComp" -> HuffPlain(c.bits, c.plain)
    [] c.swi \in {"Diff8bitUnFilterWram", "Diff8bitUnFilterVram"} -> c.plain
    [] c.swi = "Diff16bitUnFilter" -> BytesOfHalves(c.plain)
    [] c.swi = "BitUnPack" -> UnitsPlain(c)
-----------------------------------------------------------------------------
(* A call in progress: the next place in the packed data and in memory, the *)
(* bytes left to write, and the byte held back where the destination takes  *)
(* halfwords only.  Data in the BIOS's own region are not looked at.        *)
Start(c, vram) ==
  [src |-> 1, dst |-> c.dest, left |-> c.len, pend |-> <<>>, vram |-> vram, ram |-> ram]
SetBytes(m, at, bytes) ==
  [a \in DOMAIN m |-> IF a \in at .. at + Len(bytes) - 1 THEN bytes[a - at + 1] ELSE m[a]]
Refused(c) == c.inBios
Finished(s) == s.left <= 0
Emit(s, b) ==
  IF ~s.vram
    THEN [s EXCEPT !.ram = [@ EXCEPT ![s.dst] = b], !.dst = @ + 1, !.left = @ - 1]
  ELSE IF s.pend = <<>> THEN [s EXCEPT !.pend = <<b>>, !.left = @ - 1]
  ELSE [s EXCEPT !.ram = SetBytes(@, s.dst, s.pend \o <<b>>), !.pend = <<>>,
                 !.dst = @ + 2, !.left = @ - 1]
Emits(s, n, Value(_, _)) ==
  FoldLeft(LAMBDA t, k : IF Finished(t) THEN t ELSE Emit(t, Value(t, k)), s,
           [k \in 1 .. n |-> k])

(* Mutant: with the offset counted from the last halfword written.          *)
CopyWindowBehind(s, high, low) ==
  LET length == (high \div 16) + 3
      windowOffset == s.dst - (256 * (high % 16) + low) - 1
  IN Emits(s, length, LAMBDA t, k : t.ram[windowOffset + k - 1])
(* The window is read from memory, from before the byte that is next.       *)
CopyWindow(s, high, low) ==
  LET length == (high \div 16) + 3
      windowOffset == s.dst + Len(s.pend) - (256 * (high % 16) + low) - 1
  IN Emits(s, length, LAMBDA t, k : t.ram[windowOffset + k - 1])
LzNext(s, d, in) ==
  IF d >= 128 THEN [CopyWindow(s, in[s.src], in[s.src + 1]) EXCEPT !.src = @ + 2]
  ELSE [Emit(s, in[s.src]) EXCEPT !.src = @ + 1]
RECURSIVE LzLoop(_, _, _, _)
LzLoop(s, d, i, in) ==
  IF Finished(s) THEN s
  ELSE IF i = 8 THEN LzLoop([s EXCEPT !.src = @ + 1], in[s.src], 0, in)
  ELSE LzLoop(LzNext(s, d, in), (2 * d) % 256, i + 1, in)
LZ77UnCompVram(c, in) == LzLoop(Start(c, TRUE), 0, 8, in).ram
LZ77UnCompWram(c, in) == LzLoop(Start(c, FALSE), 0, 8, in).ram

RlNext(s, in) ==
  LET l == in[s.src] % 128
  IN IF in[s.src] >= 128
       THEN [Emits(s, l + 3, LAMBDA t, k : in[s.src + 1]) EXCEPT !.src = @ + 2]
       ELSE [Emits(s, l + 1, LAMBDA t, k : in[s.src + k]) EXCEPT !.src = @ + l + 2]
RECURSIVE RlLoop(_, _)
RlLoop(s, in) == IF Finished(s) THEN s ELSE RlLoop(RlNext(s, in), in)
RLUnCompVram(c, in) == RlLoop(Start(c, TRUE), in).ram
RLUnCompWram(c, in) == RlLoop(Start(c, FALSE), in).ram

(* One bit of the data leads from a node to a node of its pair, or to data; *)
(* four bytes, or eight halves, are a word.                                 *)
Symbol(h, x, halves) ==
  LET half == h.half \o <<x>>
      bytes == IF ~halves THEN h.bytes \o <<x>>
               ELSE IF Len(half) = 2 THEN h.bytes \o <<half[1] + 16 * half[2]>> ELSE h.bytes
      rest == [h EXCEPT !.half = IF halves /\ Len(half) < 2 THEN half ELSE <<>>]
  IN IF Len(bytes) < 4 THEN [rest EXCEPT !.bytes = bytes]
     ELSE [rest EXCEPT !.bytes = <<>>, !.ram = SetBytes(@, h.dst, bytes),
                       !.dst = @ + 4, !.left = @ - 4]
HuffNext(h, in, halves) ==
  LET bit == (in[h.src + ((31 - h.k) \div 8)] \div TwoTo((31 - h.k) % 8)) % 2
      pos == IF h.pos = 0 THEN 1 ELSE h.pos + 2 * ((h.currentNode % 64) + 1)
      node == in[2 + pos + bit]
      data == IF bit = 1 THEN (h.currentNode \div 64) % 2 = 1 ELSE h.currentNode >= 128
      then == IF data THEN [Symbol(h, node, halves) EXCEPT !.pos = 0, !.currentNode = in[2]]
              ELSE [h EXCEPT !.pos = pos, !.currentNode = node]
  IN IF h.k = 31 THEN [then EXCEPT !.k = 0, !.src = @ + 4] ELSE [then EXCEPT !.k = @ + 1]
RECURSIVE HuffLoop(_, _, _)
HuffLoop(h, in, halves) ==
  IF Finished(h) THEN h ELSE HuffLoop(HuffNext(h, in, halves), in, halves)
HuffUnComp(c, in) ==
  HuffLoop([src |-> 1 + 2 * (in[1] + 1), k |-> 0, pos |-> 0, currentNode |-> in[2],
            bytes |-> <<>>, half |-> <<>>, dst |-> c.dest, left |-> c.len, ram |-> ram],
           in, c.bits # 8).ram

(* The filters: the first value, and every other from the one before.       *)
Sum(in, k, modulus) == FoldLeft(LAMBDA v, d : (v + d) % modulus, 0, SubSeq(in, 1, k))
(* The 8-bit one for work RAM returns at once: what it holds against the    *)
(* region's bits has been cut to 21 bits before.                            *)
Diff8bitUnFilterWram(c, in) == ram
Diff8bitUnFilterVram(c, in) ==
  SetBytes(ram, c.dest, [k \in 1 .. c.len - (c.len % 2) |-> Sum(in, k, 256)])
Diff16bitUnFilter(c, in) ==
  LET half(k) == in[2 * k - 1] + 256 * in[2 * k]
      halves == [k \in 1 .. (IF c.len < 2 THEN 1 ELSE c.len \div 2) |-> half(k)]
  IN SetBytes(ram, c.dest,
              BytesOfHalves([k \in DOMAIN halves |-> Sum(halves, k, 65536)]))

(* A source byte's units are widened, moved and gathered to words.          *)
Unit(b, k, c) ==
  LET d == (b \div TwoTo(k * c.bits)) % TwoTo(c.bits)
  IN BitsLow(IF d # 0 \/ c.addBase THEN d + c.base ELSE d, c.dataSize)
Gather(s, unit) ==
  LET data == s.data \o unit
  IN IF Len(data) < 32 THEN [s EXCEPT !.data = data]
     ELSE [dst |-> s.dst + 4, data |-> <<>>,
           ram |-> SetBytes(s.ram, s.dst,
                            [b \in 1 .. 4 |-> ValueOf(SubSeq(data, 8 * b - 7, 8 * b))])]
BitUnPack(c, in) ==
  LET units == FlattenSeq([i \in 1 .. c.len |->
                 [k \in 1 .. 8 \div c.bits |-> Unit(in[i], k - 1, c)]])
  IN FoldLeft(Gather, [dst |-> c.dest, data |-> <<>>, ram |-> ram], units).ram

(* The copies: unit after unit, each read after the one before is written.  *)
CopyUnit(m, from, to, w) == SetBytes(m, to, [b \in 1 .. w |-> m[from + b - 1]])
Copied(m, c, w, count) ==
  FoldLeft(LAMBDA t, k :
             CopyUnit(t, c.source + (IF c.fill THEN 0 ELSE w * (k - 1)), c.dest + w * (k - 1), w),
           m, [k \in 1 .. count |-> k])
AtWords(c) ==
  [c EXCEPT !.source = @ - (@ % 4), !.dest = @ - (@ % 4)]
CpuSet(c) == IF c.word THEN Copied(ram, AtWords(c), 4, c.count) ELSE Copied(ram, c, 2, c.count)
CpuFastSet(c) == Copied(ram, AtWords(c), 4, 8 * ((c.count + 7) \div 8))

Abs(n) == IF n < 0 THEN -n ELSE n
Quotient(n, d) == IF (n < 0) # (d < 0) THEN -(Abs(n) \div Abs(d)) ELSE Abs(n) \div Abs(d)
Div(c) ==
  IF c.denom = 0 THEN [R EXCEPT ![0] = c.number, ![1] = c.denom]
  ELSE LET q == Quotient(c.number, c.denom)
       IN (0 :> q) @@ (1 :> c.number - c.denom * q) @@ (3 :> Abs(q))
DivARM(c) == Div([c EXCEPT !.number = c.denom, !.denom = c.number])

(* The resets: which memories, and what is written to which registers.      *)
Zeroes(first, n) == [k \in 1 .. n |-> <<first + 2 * (k - 1), 0>>]
ResetWrites(flags) ==
  LET others == Zeroes(\h200, 16) \o Zeroes(4, 15) \o Zeroes(\h20, 32) \o Zeroes(\hb0, 24)
                  \o <<<<\h130, 0>>, <<\h20, 256>>, <<\h30, 256>>, <<\h26, 256>>, <<\h36, 256>>>>
      serial == Zeroes(\h110, 8) \o <<<<\h134, 32768>>>> \o Zeroes(\h140, 7)
      sound == <<<<\h84, 0>>, <<\h84, 128>>, <<\h80, 0>>, <<\h82, \h880e>>,
                 <<\h88, io[\h88] % 1024>>, <<\h70, \h70>>>> \o Zeroes(\h90, 8)
               \o <<<<\h70, 0>>>> \o Zeroes(\h90, 8) \o <<<<\h84, 0>>>>
      asked(f, writes) == IF f \in flags THEN writes ELSE <<>>
  IN <<<<0, 128>>>> \o asked(7, others) \o asked(5, serial) \o asked(6, sound)
ResetSpaces(flags) ==
  {s \in {"work", "palette", "vram", "oam"} :
     [work |-> 0, palette |-> 2, vram |-> 3, oam |-> 4][s] \in flags}
RegisterRamReset(c) ==
  [ram |-> IF 1 \in c.flags THEN SetBytes(ram, 0, [k \in 1 .. RamSize - TopSize |-> 0]) ELSE ram,
   spaces |-> ResetSpaces(c.flags),
   io |-> FoldLeft(LAMBDA t, w : [t EXCEPT ![w[1]] = w[2]], io, ResetWrites(c.flags))]
(* It starts the cartridge, whatever the game left in the byte that says so.*)
SoftReset ==
  [ram |-> SetBytes(ram, RamSize - TopSize, [k \in 1 .. TopSize |-> 0]), entry |-> "rom"]

Unpackers ==
  {"BitUnPack", "HuffUnComp", "LZ77UnCompWram", "LZ77UnCompVram", "RLUnCompWram",
   "RLUnCompVram", "Diff8bitUnFilterWram", "Diff8bitUnFilterVram", "Diff16bitUnFilter"}
Unpacked(c) ==
  LET in == Packed(c)
  IN CASE Refused(c) -> ram
       [] c.swi = "BitUnPack"            -> BitUnPack([c EXCEPT !.len = Len(in)], in)
       [] c.swi = "HuffUnComp"           -> HuffUnComp(c, in)
       [] c.swi = "LZ77UnCompWram"       -> LZ77UnCompWram(c, in)
       [] c.swi = "LZ77UnCompVram"       -> LZ77UnCompVram(c, in)
       [] c.swi = "RLUnCompWram"         -> RLUnCompWram(c, in)
       [] c.swi = "RLUnCompVram"         -> RLUnCompVram(c, in)
       [] c.swi = "Diff8bitUnFilterWram" -> Diff8bitUnFilterWram(c, in)
       [] c.swi = "Diff8bitUnFilterVram" -> Diff8bitUnFilterVram(c, in)
       [] c.swi = "Diff16bitUnFilter"    -> Diff16bitUnFilter(c, in)
Same == [ram |-> ram, spaces |-> spaces, io |-> io, r |-> R, entry |-> entry]
BIOScall(c) ==
  CASE c.swi \in Unpackers         -> [Same EXCEPT !.ram = Unpacked(c)]
    [] c.swi = "CpuSet"           -> [Same EXCEPT !.ram = IF Refused(c) THEN ram ELSE CpuSet(c)]
    [] c.swi = "CpuFastSet"       -> [Same EXCEPT !.ram = IF Refused(c) THEN ram ELSE CpuFastSet(c)]
    [] c.swi = "Div"              -> [Same EXCEPT !.r = Div(c)]
    [] c.swi = "DivARM"           -> [Same EXCEPT !.r = DivARM(c)]
    [] c.swi = "RegisterRamReset" -> RegisterRamReset(c) @@ Same
    [] c.swi = "SoftReset"        -> SoftReset @@ Same

NoCall == [swi |-> "none"]
BiosInit ==
  /\ ram \in BiosRams /\ spaces = {} /\ io = [a \in {2 * k : k \in 0 .. \h10f} |-> \hfff]
  /\ R = (0 :> 0) @@ (1 :> 0) @@ (3 :> 0) /\ entry = "behind" /\ call = NoCall
Swi(c) ==
  LET after == BIOScall(c)
  IN /\ ram' = after.ram /\ spaces' = after.spaces /\ io' = after.io
     /\ R' = after.r /\ entry' = after.entry /\ call' = c
BiosNext == call = NoCall /\ \E c \in BiosCalls : Swi(c)
-----------------------------------------------------------------------------
(* The GBA's BIOS.  A copy onto its own source repeats what is between the  *)
(* two, a divisor of zero is not the game's, and only what is asked for is  *)
(* reset: but for DISPCNT.                                                  *)
GbaCopy(c, w, count) ==
  LET apart == (c.dest - c.source) \div w
      from(k) == IF c.fill THEN 0 ELSE IF apart \in 1 .. count - 1 THEN k % apart ELSE k
  IN SetBytes(ram, c.dest,
              [b \in 1 .. w * count |-> ram[c.source + w * from((b - 1) \div w) + ((b - 1) % w)]])
(* The fast copy moves 8 words at once.                                    *)
GbaFastCopy(c) ==
  FoldLeft(LAMBDA m, j :
             SetBytes(m, c.dest + 32 * j,
                      [b \in 1 .. 32 |-> m[c.source + (IF c.fill THEN (b - 1) % 4
                                                       ELSE 32 * j + b - 1)]]),
           ram, [k \in 1 .. (c.count + 7) \div 8 |-> k - 1])
GbaRam(c) ==
  CASE c.swi \in Unpackers ->
         IF Refused(c) THEN ram
         ELSE LET plain == Plain(c)
              IN SetBytes(ram, c.dest,
                   IF c.swi \in {"BitUnPack", "HuffUnComp"} THEN plain
                   ELSE SubSeq(plain, 1, IF c.swi \in {"LZ77UnCompWram", "RLUnCompWram"}
                                         THEN c.len ELSE c.len - (c.len % 2)))
    [] c.swi = "CpuSet" ->
         IF Refused(c) THEN ram
         ELSE IF c.word THEN GbaCopy(AtWords(c), 4, c.count) ELSE GbaCopy(c, 2, c.count)
    [] c.swi = "CpuFastSet" ->
         IF Refused(c) THEN ram ELSE GbaFastCopy(AtWords(c))
    [] c.swi = "RegisterRamReset" ->
         [a \in DOMAIN ram |-> IF 1 \in c.flags /\ a < RamSize - TopSize THEN 0 ELSE ram[a]]
    [] c.swi = "SoftReset" -> [a \in DOMAIN ram |-> IF a < RamSize - TopSize THEN ram[a] ELSE 0]
    [] OTHER -> ram
Even(first, last) == {a \in first .. last : a % 2 = 0}
(* Registers the reset forgets: the timers, KEYCNT, the serial link's data. *)
Forgotten == Even(\h100, \h10e) \cup {\h132} \cup Even(\h120, \h12a)
GbaResets(flags) ==
  (IF 7 \in flags THEN Even(4, \h54) \cup Even(\hb0, \hde) \cup {\h132, \h200, \h204, \h208}
                        \cup Even(\h100, \h10e) ELSE {})
    \cup (IF 5 \in flags THEN Even(\h120, \h12a) \cup {\h134, \h140} ELSE {})
GbaValue(a) == IF a \in {\h20, \h26, \h30, \h36} THEN 256 ELSE IF a = \h134 THEN 32768 ELSE 0
OthersLeft(flags) ==
  Even(0, \h20a) \ (GbaResets(flags) \cup {0} \cup Even(\h60, \h9e)
     \cup (IF 7 \in flags THEN {\h56, \h58, \h5a, \h5c, \h5e, \h130, \h202, \h206, \h20a} ELSE {})
     \cup (IF 5 \in flags THEN Even(\h110, \h11e) \cup Even(\h142, \h14c) ELSE {}))
Divides(n, d, q) ==
  LET rest == n - d * q[0]
  IN /\ q[1] = rest /\ q[3] = Abs(q[0])
     /\ Abs(rest) < Abs(d) /\ (rest # 0 => (rest < 0) = (n < 0))

(* The calls known to differ: the 8-bit filter for work RAM, a window of    *)
(* one byte to video RAM, a fast copy onto the next 32 bytes, a game that   *)
(* wants to start in work RAM.                                              *)
Differs(c) ==
  \/ c.swi = "Diff8bitUnFilterWram"
  \/ c.swi = "LZ77UnCompVram" /\ \E k \in DOMAIN c.plain : IsCopy(c.plain[k]) /\ c.plain[k][1] = 1
  \/ c.swi = "CpuFastSet" /\ ~c.fill /\ AtWords(c).dest - AtWords(c).source \in 1 .. 31

(* Every call leaves in memory what the data were packed from, however the  *)
(* packer cut them into literals, windows, runs, symbols and units, a last  *)
(* odd byte of a halfword apart; copies onto their own source repeat it;    *)
(* quotients are cut towards zero; and a reset clears what was asked for,   *)
(* but for a few registers it forgets, and nothing else.                    *)
CallsAsOnTheGba ==
  [][LET c == call'
     IN /\ Differs(c) \/ ram' = GbaRam(c)
        /\ (c.swi = "Div" /\ c.denom # 0) => Divides(c.number, c.denom, R')
        /\ (c.swi = "DivARM" /\ c.number # 0) => Divides(c.denom, c.number, R')
        /\ (c.swi = "SoftReset" /\ ram[RamSize - 6] = 0) => entry' = "rom"
        /\ c.swi = "RegisterRamReset" =>
             /\ \A a \in GbaResets(c.flags) \ Forgotten : io'[a] = GbaValue(a)
             /\ \A a \in OthersLeft(c.flags) : io'[a] = io[a]]_biosVars
=============================================================================
