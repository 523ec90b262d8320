--------------------------------- MODULE Dma --------------------------------
(* The DMA channels of gba.armcore.cpp.  A transfer of the game is done in *)
(* one of three ways: word by word through the accessors (doDMAslow), from *)
(* the image on the card (ichfly_readdma_rom), or by the DS's own channel 3. *)
(* The three disagree about what they leave in the channel's internal      *)
(* source and destination, from which a repeating channel goes on.         *)
(*                                                                         *)
(* Addresses count halfwords; a region of the bus (one value of            *)
(* address >> 24) has Size of them, and keeps its number.                  *)
EXTENDS Integers, FiniteSets
CONSTANTS
  Size,        \* halfwords of a region
  RomAt,       \* of region 2: workRAM below, the loaded part of the image from here
  RomSize,     \* halfwords of the image that are loaded
  ImageSize,   \* halfwords of the image
  Longest,     \* units that channels 0 to 2 copy for a count of 0, channel 3 four times
               \* as many: 0x4000 in the code
  Game,        \* the channels the game uses, and what it writes to them:
               \* a record of sets [transfer, control] for each, a transfer
               \* being <<source, destination, DMnCNT_L>>
  MaxStarts,   \* bound: transfers in a behaviour
  None

Work == 2
Registers == 4
Vram == 6
Rom == 8
Region(a) == a \div Size

ASSUME DmaSizes ==
  /\ {Size, RomAt, RomSize, ImageSize, Longest} \subseteq Nat \ {0}
  /\ RomSize % 2 = 0 /\ RomAt % 2 = 0 /\ Size % 2 = 0
  /\ RomAt + RomSize < Size /\ RomSize < ImageSize /\ ImageSize <= 2 * Size
  /\ MaxStarts \in Nat

(* A control: what begins a transfer, the halfwords of a unit, the steps.  *)
DmaControls ==
  [on : BOOLEAN, when : 0 .. 3, width : {1, 2}, sstep : 0 .. 3, dstep : 0 .. 3, repeat : BOOLEAN]
ASSUME DmaGame ==
  /\ DOMAIN Game \subseteq 0 .. 3
  /\ \A n \in DOMAIN Game : /\ Game[n].transfer \subseteq Nat \X Nat \X Nat
                            /\ Game[n].control \subseteq DmaControls

(* Contents: what a cell held at the start, or a halfword of the image.    *)
Blank(a) == <<"cell", a>>
Image(off) == <<"rom", off>>
Nothing == <<"none", 0>>
Cells == {Work * Size + k : k \in 0 .. RomAt + RomSize + 1}
           \cup {r * Size + k : r \in {Registers, Vram}, k \in 0 .. 7}
Loaded(off) == Work * Size + RomAt + off   \* rom[off]

VARIABLES
  mem,      \* the DS's memory, by physical address
  chan,     \* channel -> DMnSAD, DMnDAD, the units to copy and DMnCNT_H
  dmaSource, dmaDest,  \* channel -> the internal pointers
  path,     \* channel -> how its last transfer went
  gba,      \* history: where the GBA's channel would be, where this transfer
            \* began, and the ways it went since
  last,     \* history: the channels as the last transfer found them
  starts    \* transfers so far
dmaVars == <<mem, chan, dmaSource, dmaDest, path, gba, last, starts>>

Channels == DOMAIN Game
Idle == [on |-> FALSE, when |-> 0, width |-> 1, sstep |-> 0, dstep |-> 0, repeat |-> FALSE]
-----------------------------------------------------------------------------
(* The accessors, as doDMAslow uses them.                                  *)
Align(a, w) == a - (a % w)
Mirror(a) == Region(a) * Size + ((a % Size) % RomAt)
CPURead(m, a, w) ==
  CASE Region(a) = Work -> m[Mirror(a)]
    [] Region(a) \in {Registers, Vram} -> m[a]
    [] Region(a) \in Rom .. 12 ->
         LET off == a % (2 * Size) IN
         IF Align(off, w) > RomSize
         THEN IF off < ImageSize THEN Image(off) ELSE Nothing
         ELSE m[Loaded(off)]
    [] OTHER -> Blank(a)
CPUWrite(m, a, v) == [m EXCEPT ![IF Region(a) = Work THEN Mirror(a) ELSE a] = v]

(* One unit of w halfwords, read as a whole before it is written.          *)
Unit(m, s, d, w) ==
  IF w = 1 THEN CPUWrite(m, d, CPURead(m, s, 1))
  ELSE LET a == Align(d, 2) IN
       CPUWrite(CPUWrite(m, a, CPURead(m, s, 2)), a + 1, CPURead(m, s + 1, 2))

Slow(m, s, d, si, di, c, w) ==
  LET from == Align(s, w)
      copied[n \in 0 .. c] == IF n = 0 THEN m
                              ELSE Unit(copied[n - 1], from + (n - 1) * si * w, d + (n - 1) * di * w, w)
  IN [mem |-> copied[c], s |-> from + c * si * w, d |-> d + c * di * w, path |-> "slow"]

(* ichfly_readdma_rom: bytes of the image, from where the source is.       *)
Streamed(m, s, d, c, w) ==
  LET off == s % (2 * Size) IN
  [mem |-> [a \in Cells |-> IF a \in d .. d + c * w - 1 THEN Image(off + a - d) ELSE m[a]],
   s |-> s, d |-> d, path |-> "stream"]

(* The DS's channel 3: physical addresses, aligned; the pointers stay.     *)
Physical(p, a) == IF a \in Cells THEN p[a] ELSE Blank(a)
Hardware(m, s, d, si, di, c, w) ==
  LET Move(n, p) == LET to == Align(d, w) + (n - 1) * di * w
                        from == Align(s, w) + (n - 1) * si * w
                    IN [a \in Cells |-> IF a \in to .. to + w - 1 THEN Physical(p, from + a - to) ELSE p[a]]
      copied[n \in 0 .. c] == IF n = 0 THEN m ELSE Move(n, copied[n - 1])
  IN [mem |-> copied[c], s |-> s, d |-> d, path |-> "hardware"]

(* Mutant: the count is taken for bytes.                                   *)
OnCardLate(s, c) == (s % (2 * Size)) + c > RomSize
OnCard(s, c) == (s % (2 * Size)) + (2 * c) > RomSize
doDMA(m, s, d, si, di, c, w) ==
  IF \/ si = 0 \/ di = 0
     \/ Region(s) \in {0, 1, Registers} \/ Region(d) \in {0, 1, Registers}
     \/ Region(s) >= 13 \/ Region(d) >= 13
  THEN Slow(m, s, d, si, di, c, w)
  ELSE IF Region(s) >= Rom
  THEN IF OnCard(s, c)
       THEN IF -1 \in {si, di} THEN Slow(m, s, d, si, di, c, w) ELSE Streamed(m, s, d, c, w)
       ELSE Hardware(m, Loaded(s % (2 * Size)), d, si, di, c, w)
  ELSE Hardware(m, s, d, si, di, c, w)
-----------------------------------------------------------------------------
(* CPUCheckDMA: the four sections in the order of their channels.  Steps   *)
(* 0, 1 and 2 of a control are +, - and fixed; 3 is + with a reload.       *)
Step(k) == CASE k = 1 -> -1 [] k = 2 -> 0 [] OTHER -> 1
Runs(ch, n, reason) == ch[n].ctl.on /\ ch[n].ctl.when = reason

After(ctl, reason) == IF ~ctl.repeat \/ reason = 0 THEN [ctl EXCEPT !.on = FALSE] ELSE ctl
(* Mutant: every destination is reloaded.                                  *)
AlwaysReloaded(r, t) == r.dad
Reloaded(r, t) == IF r.ctl.dstep = 3 THEN r.dad ELSE t.d
Section(st, n, reason) ==
  LET r == st.chan[n]
      t == doDMA(st.mem, st.s[n], st.d[n], Step(r.ctl.sstep), Step(r.ctl.dstep),
                 r.count, r.ctl.width)
  IN IF ~Runs(st.chan, n, reason) THEN st
     ELSE [mem  |-> t.mem,
           chan |-> [st.chan EXCEPT ![n].ctl = After(r.ctl, reason)],
           s    |-> [st.s EXCEPT ![n] = t.s],
           d    |-> [st.d EXCEPT ![n] = Reloaded(r, t)],
           path |-> [st.path EXCEPT ![n] = t.path]]

(* Sections 1 and 2 have a case of their own for a sound FIFO (reason 3):  *)
(* four words to a fixed destination.  No caller gives that reason: the    *)
(* ARM7 reads the samples itself.                                          *)
SoundSection(st, n, reason) ==
  IF reason # 3 THEN Section(st, n, reason)
  ELSE LET r == st.chan[n]
           t == doDMA(st.mem, st.s[n], st.d[n], Step(r.ctl.sstep), 0, 4, 2)
       IN [st EXCEPT !.mem = t.mem, !.s[n] = t.s, !.d[n] = t.d, !.path[n] = t.path]
LastSection(st, n, reason) == Section(st, n, reason)

InTurn(n, st, reason, mask) ==
  IF n \notin mask \cap Channels THEN st
  ELSE CASE n = 0 -> Section(st, n, reason)
         [] n \in {1, 2} -> SoundSection(st, n, reason)
         [] OTHER -> LastSection(st, n, reason)
CPUCheckDMA(st, reason, mask) ==
  LET Do(n, x) == InTurn(n, x, reason, mask)
  IN Do(3, Do(2, Do(1, Do(0, st))))

State == [mem |-> mem, chan |-> chan, s |-> dmaSource, d |-> dmaDest, path |-> path]
Becomes(st) ==
  /\ mem' = st.mem /\ chan' = st.chan /\ dmaSource' = st.s /\ dmaDest' = st.d
  /\ path' = st.path
-----------------------------------------------------------------------------
(* The GBA: every transfer takes and leaves aligned addresses, reads the   *)
(* image itself, and moves both pointers past what it copied.              *)
GbaRead(m, a) == CASE Region(a) \in Rom .. 12 -> Image(a % (2 * Size))
                   [] Region(a) = Work -> m[Mirror(a)]
                   [] Region(a) \in {Registers, Vram} -> m[a]
                   [] OTHER -> Blank(a)
GbaCopied(m, s, d, si, di, c, w) ==
  LET UnitOf(p, from, to) ==
        IF w = 1 THEN CPUWrite(p, to, GbaRead(p, from))
        ELSE CPUWrite(CPUWrite(p, to, GbaRead(p, from)), to + 1, GbaRead(p, from + 1))
      copied[n \in 0 .. c] ==
        IF n = 0 THEN m
        ELSE UnitOf(copied[n - 1], Align(s, w) + (n - 1) * si * w, Align(d, w) + (n - 1) * di * w)
  IN copied[c]
Found(st, reason, mask) ==
  [runs |-> {n \in mask : Runs(st.chan, n, reason)}, chan |-> st.chan, s |-> st.s, d |-> st.d]
Copy(a) == a - Loaded(0) \in 0 .. RomSize - 1
OnTheBus(a) == IF Copy(a) THEN Rom * Size + a - Loaded(0) ELSE a
Copied(m, f) ==
  LET Do(n, x) == IF n \notin f.runs THEN x
                  ELSE LET r == f.chan[n] IN
                       GbaCopied(x, OnTheBus(f.s[n]), f.d[n], Step(r.ctl.sstep), Step(r.ctl.dstep), r.count, r.ctl.width)
  IN Do(3, Do(2, Do(1, Do(0, m))))
Pace(r, dest) == [s |-> Step(r.ctl.sstep) * r.count * r.ctl.width,
                  d |-> IF r.ctl.dstep = 3 THEN r.dad - dest ELSE Step(r.ctl.dstep) * r.count * r.ctl.width]
Followed(g, r, how) == [g EXCEPT !.s = Align(@, r.ctl.width) + Pace(r, g.d).s, !.d = @ + Pace(r, g.d).d, !.ways = @ \cup {how}]
-----------------------------------------------------------------------------
(* The registers: the upper half of an address loses the bits its channel  *)
(* has no lines for.                                                       *)
Reach(n) == (IF n = 0 THEN 8 ELSE 16) * Size
DestReach(n) == (IF n = 3 THEN 16 ELSE 8) * Size
CountOf(n, l) == IF l # 0 THEN l ELSE (IF n = 3 THEN 4 ELSE 1) * Longest

DmaInit ==
  /\ mem = [a \in Cells |->
              LET off == a - Loaded(0) IN IF off \in 0 .. RomSize - 1 THEN Image(off) ELSE Blank(a)]
  /\ chan = [n \in Channels |-> [sad |-> 0, dad |-> 0, count |-> CountOf(n, 0), ctl |-> Idle]]
  /\ dmaSource = [n \in Channels |-> 0] /\ dmaDest = [n \in Channels |-> 0]
  /\ path = [n \in Channels |-> None]
  /\ gba = [n \in Channels |-> [s |-> 0, d |-> 0, from |-> 0, to |-> 0, ways |-> {}]]
  /\ last = None
  /\ starts = 0

WriteAddresses(n) ==
  /\ ~chan[n].ctl.on
  /\ \E t \in Game[n].transfer :
       chan' = [chan EXCEPT ![n].sad = t[1] % Reach(n), ![n].dad = t[2] % DestReach(n),
                            ![n].count = CountOf(n, t[3])]
  /\ chan[n].dad = 0    \* bound: once
  /\ UNCHANGED <<mem, dmaSource, dmaDest, path, gba, last, starts>>

WriteDMCNT(n) ==
  \E v \in Game[n].control :
    LET r == [chan[n] EXCEPT !.ctl = v]
        start == v.on /\ ~chan[n].ctl.on
        st == [State EXCEPT !.chan[n] = r]
        ready == [st EXCEPT !.s[n] = r.sad, !.d[n] = r.dad]
        latched == CPUCheckDMA(ready, 0, {n})
        g == [s |-> r.sad, d |-> r.dad, from |-> r.sad, to |-> r.dad, ways |-> {}]
    IN /\ starts < MaxStarts
       /\ Becomes(IF start THEN latched ELSE st)
       /\ starts' = starts + (IF start /\ v.when = 0 THEN 1 ELSE 0)
       /\ last' = IF start /\ v.when = 0 THEN Found(ready, 0, {n}) ELSE last
       /\ gba' = [gba EXCEPT ![n] = IF ~start THEN @
                                   ELSE IF v.when = 0 THEN Followed(g, r, latched.path[n]) ELSE g]

Trigger(reason) ==
  LET st == CPUCheckDMA(State, reason, 0 .. 3)
  IN /\ starts < MaxStarts
     /\ \E n \in Channels : Runs(chan, n, reason)
     /\ Becomes(st)
     /\ gba' = [n \in Channels |-> IF Runs(chan, n, reason) THEN Followed(gba[n], chan[n], st.path[n])
                                   ELSE gba[n]]
     /\ last' = Found(State, reason, Channels)
     /\ starts' = starts + 1
HBlankDma == Trigger(2)
VBlankDma == Trigger(1)

DmaNext ==
  \/ \E n \in Channels : WriteAddresses(n) \/ WriteDMCNT(n)
  \/ HBlankDma
  \/ VBlankDma
DmaSpec == DmaInit /\ [][DmaNext]_dmaVars
-----------------------------------------------------------------------------
DmaTypeOK ==
  /\ chan \in [Channels -> [sad : Nat, dad : Nat, count : Nat \ {0}, ctl : DmaControls]]
  /\ dmaSource \in [Channels -> Int] /\ dmaDest \in [Channels -> Int]
  /\ path \in [Channels -> {None, "slow", "stream", "hardware"}]
  /\ gba \in [Channels -> [s : Int, d : Int, from : Nat, to : Nat,
                            ways : SUBSET {"slow", "stream", "hardware"}]]
  /\ starts \in 0 .. MaxStarts

(* The loaded part of the image, which lies where the GBA has a mirror of  *)
(* its workRAM, is as it was loaded.                                       *)
ImageKept == \A a \in Cells : Copy(a) => mem[a] = Image(a - Loaded(0))

(* The three cases in which the emulator's copy is known to differ: a unit *)
(* of the image at RomSize, the first not loaded, read word by word; words *)
(* of the card from, or to, an address that is not a word's; and a source  *)
(* that the DS's channel has turned into a pointer, read word by word.     *)
Units(f, n) == {Align(OnTheBus(f.s[n]), f.chan[n].ctl.width) + k * Step(f.chan[n].ctl.sstep) * f.chan[n].ctl.width :
                  k \in 0 .. f.chan[n].count - 1}
AtTheEdge(f, n) == \E a \in Units(f, n) : Region(a) \in Rom .. 12 /\ a % (2 * Size) = RomSize
Crooked(f, n) == f.s[n] % f.chan[n].ctl.width # 0 \/ f.d[n] % f.chan[n].ctl.width # 0
Differs(f, p, n) == \/ p[n] = "slow" /\ (AtTheEdge(f, n) \/ Copy(f.s[n]))
                    \/ p[n] = "stream" /\ Crooked(f, n)

(* A transfer that leaves the memory it began in is not judged.            *)
Written(f, n) == {Align(f.d[n], f.chan[n].ctl.width) + k * Step(f.chan[n].ctl.dstep) * f.chan[n].ctl.width :
                    k \in 0 .. f.chan[n].count - 1}
Inside(as) == \/ \E r \in Rom .. Rom + 1 : \A a \in as : Region(a) = r
              \/ \A a \in as : a \in Cells /\ ~Copy(a) /\ (Region(a) = Work => a % Size < RomAt)
Judged(f, p, n) == Inside(Units(f, n)) /\ Inside(Written(f, n)) /\ ~Differs(f, p, n)

(* doDMA: whichever way a transfer goes, and whatever ran before it, the   *)
(* cells of the game hold what the GBA's channels would have copied in, and *)
(* the channels that go on are those that would.                           *)
TransfersAsOnTheGba ==
  [][starts' > starts /\ (\A n \in last'.runs : Judged(last', path', n))
     => /\ mem' = Copied(mem, last')
        /\ \A n \in last'.runs :
             chan'[n].ctl.on <=> last'.chan[n].ctl.repeat /\ last'.chan[n].ctl.when # 0]_dmaVars

(* CPUCheckDMA: a channel all of whose transfers went word by word stands  *)
(* where the GBA's would; one none of whose did stands where it began, and *)
(* its source still names the same data.  A running channel whose control  *)
(* is rewritten goes over from one to the other.                           *)
Repeating(n) == chan[n].ctl.on /\ gba[n].ways # {}
RepeatsKeepPaceOrPlace ==
  \A n \in Channels : Repeating(n) =>
    /\ gba[n].ways = {"slow"} => dmaSource[n] = gba[n].s /\ dmaDest[n] = gba[n].d
    /\ "slow" \notin gba[n].ways =>
         /\ dmaDest[n] \in {gba[n].to, chan[n].dad}
         /\ \/ dmaSource[n] = gba[n].from
            \/ Region(gba[n].from) \in Rom .. 12 /\ mem[dmaSource[n]] = Image(gba[n].from % (2 * Size))
=============================================================================
